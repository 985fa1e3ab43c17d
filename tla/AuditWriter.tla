----------------------------- MODULE AuditWriter -----------------------------
(***************************************************************************)
(* The tool-call audit log (audit/audit.go).  Callers append records to a  *)
(* buffer; the flusher goroutine, explicit Flush calls and Close each take *)
(* the whole buffer under w.mu and write it to the sinks without the lock: *)
(* to the JSONL file record by record, then to PostgreSQL in one           *)
(* transaction.  Close stops the flusher, waits for it, writes what it     *)
(* took and closes the sinks.                                              *)
(***************************************************************************)
EXTENDS Naturals, Sequences, Functions

CONSTANTS Records,    (* audit records, each written by one call of Write   *)
          Flushers,   (* goroutines that run Flush                          *)
          Ticker,     (* the one of them that NewAuditWriter starts         *)
          Closers,    (* goroutines that run Close                          *)
          BatchSize,  (* Config.BatchSize                                   *)
          UsePG,      (* the PostgreSQL sink is configured                  *)
          FileFails,  (* an Encode may fail: disk full, record not JSON     *)
          PGFails     (* a transaction may fail                             *)

ASSUME TickerAssumption == Ticker \in Flushers
ASSUME ProcAssumption == Flushers \cap Closers = {}
ASSUME ConfigAssumption == /\ BatchSize \in Nat
                           /\ {UsePG, FileFails, PGFails} \subseteq BOOLEAN

Writers == Flushers \cup Closers

VARIABLES
  buf,       \* w.buf
  closed,    \* w.closed
  stopping,  \* w.flusherCh is closed
  pc,        \* where each goroutine is
  recs,      \* the batch it took and has not finished
  pos,       \* the next record of the batch for the JSONL file
  fileState, \* w.jsonlFile: "open", "closed" or "nil"
  dbState,   \* w.pgDB, likewise
  file,      \* the JSONL file
  table,     \* rows committed to broker_audit_log
  accepted,  \* history: the records Write took, in order
  refused,   \* records that came after Close
  failed,    \* history: the sinks that returned an error of their own
  panic      \* a nil w.pgDB was used

sinks == <<fileState, dbState, file, table>>
vars == <<buf, closed, stopping, pc, recs, pos, sinks, accepted, refused, failed,
          panic>>

PCs == {"idle", "write", "encode", "pg", "tx", "wait", "closeFile", "nilFile",
        "closeDB", "nilDB", "done"}
SinkStates == {"open", "closed", "nil"}

TypeOK ==
  /\ buf \in Seq(Records) /\ accepted \in Seq(Records)
  /\ file \in Seq(Records) /\ table \in Seq(Records)
  /\ refused \subseteq Records /\ failed \subseteq {"file", "table"}
  /\ closed \in BOOLEAN /\ stopping \in BOOLEAN /\ panic \in BOOLEAN
  /\ pc \in [Writers -> PCs]
  /\ recs \in [Writers -> Seq(Records)]
  /\ pos \in [Writers -> Nat \ {0}]
  /\ fileState \in SinkStates /\ dbState \in SinkStates

(* NewAuditWriter opened the sinks and started the flusher. *)
Init ==
  /\ buf = <<>> /\ accepted = <<>> /\ file = <<>> /\ table = <<>>
  /\ refused = {} /\ failed = {}
  /\ closed = FALSE /\ stopping = FALSE /\ panic = FALSE
  /\ pc = [p \in Writers |-> "idle"]
  /\ recs = [p \in Writers |-> <<>>]
  /\ pos = [p \in Writers |-> 1]
  /\ fileState = "open"
  /\ dbState = IF UsePG THEN "open" ELSE "nil"

-----------------------------------------------------------------------------
(* Mutant: Write does not look at w.closed. *)
NeverRefuses == FALSE

(* Write returns without keeping the record. *)
Refuses == closed

(* Write: under the lock.  w.cond.Signal has no waiter and does nothing.   *)
Write(r) ==
  /\ ~panic
  /\ r \notin Range(accepted) \cup refused
  /\ \/ /\ Refuses
        /\ refused' = refused \cup {r}
        /\ UNCHANGED <<buf, accepted>>
     \/ /\ ~Refuses
        /\ buf' = Append(buf, r)
        /\ accepted' = Append(accepted, r)
        /\ UNCHANGED refused
  /\ UNCHANGED <<closed, stopping, pc, recs, pos, sinks, failed, panic>>

(* Mutant: the batch is copied but the buffer is not reset. *)
CopyBuffer(p) ==
  /\ recs' = [recs EXCEPT ![p] = buf]
  /\ pos' = [pos EXCEPT ![p] = 1]
  /\ UNCHANGED buf

(* Mutant: the batch starts at the index before its first record. *)
TakeFromZero(p) ==
  /\ recs' = [recs EXCEPT ![p] = buf]
  /\ pos' = [pos EXCEPT ![p] = 0]
  /\ buf' = <<>>

(* takeBufferLocked: the batch of p is the buffer, which is reset.         *)
TakeBuffer(p) ==
  /\ recs' = [recs EXCEPT ![p] = buf]
  /\ pos' = [pos EXCEPT ![p] = 1]
  /\ buf' = <<>>

(* Where p goes when writeAll returns. *)
Returned(p) == IF p \in Closers THEN "closeFile" ELSE "idle"

(* The lock section of Flush; writeAll returns at once on an empty batch.  *)
(* The flusher's ticker may still fire after flusherCh is closed.          *)
Flush(p) ==
  /\ ~panic
  /\ p \in Flushers /\ pc[p] = "idle"
  /\ TakeBuffer(p)
  /\ pc' = [pc EXCEPT ![p] = IF buf = <<>> THEN "idle" ELSE "write"]
  /\ UNCHANGED <<closed, stopping, sinks, accepted, refused, failed, panic>>

(* flushLoop sees flusherCh closed: flusherWG.Done. *)
LoopReturns ==
  /\ ~panic
  /\ pc[Ticker] = "idle" /\ stopping
  /\ pc' = [pc EXCEPT ![Ticker] = "done"]
  /\ UNCHANGED <<buf, closed, stopping, recs, pos, sinks, accepted, refused, failed, panic>>

-----------------------------------------------------------------------------
(* writeAll *)

CheckFile(p) ==
  /\ ~panic
  /\ pc[p] = "write"
  /\ pc' = [pc EXCEPT ![p] = IF fileState = "nil" THEN "pg" ELSE "encode"]
  /\ UNCHANGED <<buf, closed, stopping, recs, pos, sinks, accepted, refused, failed, panic>>

(* Mutant: an error in the JSONL sink ends writeAll. *)
AbortAll(p) == Returned(p)

(* writeAll goes on to PostgreSQL whatever became of the JSONL sink. *)
AfterError(p) == "pg"

(* One Encode.  The first error ends the JSONL part of the batch; a file   *)
(* that was closed or set to nil meanwhile is an error too.                *)
Encode(p) ==
  /\ ~panic
  /\ pc[p] = "encode"
  /\ \/ /\ fileState = "open"
        /\ file' = Append(file, recs[p][pos[p]])
        /\ pos' = [pos EXCEPT ![p] = @ + 1]
        /\ pc' = [pc EXCEPT ![p] = IF pos[p] = Len(recs[p]) THEN "pg" ELSE @]
        /\ UNCHANGED failed
     \/ /\ FileFails \/ fileState # "open"
        /\ failed' = IF fileState = "open" THEN failed \cup {"file"} ELSE failed
        /\ pc' = [pc EXCEPT ![p] = AfterError(p)]
        /\ UNCHANGED <<file, pos>>
  /\ UNCHANGED <<buf, closed, stopping, recs, fileState, dbState, table,
                 accepted, refused, panic>>

CheckPG(p) ==
  /\ ~panic
  /\ pc[p] = "pg"
  /\ IF dbState = "nil"
     THEN pc' = [pc EXCEPT ![p] = Returned(p)] /\ recs' = [recs EXCEPT ![p] = <<>>]
     ELSE pc' = [pc EXCEPT ![p] = "tx"] /\ UNCHANGED recs
  /\ UNCHANGED <<buf, closed, stopping, pos, sinks, accepted, refused, failed, panic>>

(* One transaction for the batch: all rows or, on any error, none. *)
Transact(p) ==
  /\ ~panic
  /\ pc[p] = "tx"
  /\ pc' = [pc EXCEPT ![p] = Returned(p)]
  /\ recs' = [recs EXCEPT ![p] = <<>>]
  /\ \/ /\ dbState = "open"
        /\ table' = table \o recs[p]
        /\ UNCHANGED <<failed, panic>>
     \/ /\ dbState = "open" /\ PGFails
        /\ failed' = failed \cup {"table"}
        /\ UNCHANGED <<table, panic>>
     \/ /\ dbState = "closed"
        /\ UNCHANGED <<table, failed, panic>>
     \/ /\ dbState = "nil"
        /\ panic' = TRUE
        /\ UNCHANGED <<table, failed>>
  /\ UNCHANGED <<buf, closed, stopping, pos, fileState, dbState, file, accepted,
                 refused>>

-----------------------------------------------------------------------------
(* Close *)

Close(p) ==
  /\ ~panic
  /\ p \in Closers /\ pc[p] = "idle"
  /\ IF closed
     THEN /\ pc' = [pc EXCEPT ![p] = "done"]
          /\ UNCHANGED <<buf, closed, recs, pos>>
     ELSE /\ closed' = TRUE
          /\ TakeBuffer(p)
          /\ pc' = [pc EXCEPT ![p] = "wait"]
  /\ UNCHANGED <<stopping, sinks, accepted, refused, failed, panic>>

(* Mutant: Close waits for the flusher without telling it to stop. *)
StopNobody(p) == ~panic /\ pc[p] = "wait" /\ ~stopping /\ UNCHANGED vars

(* close(w.flusherCh) *)
StopFlusher(p) ==
  /\ ~panic
  /\ pc[p] = "wait" /\ ~stopping
  /\ stopping' = TRUE
  /\ UNCHANGED <<buf, closed, pc, recs, pos, sinks, accepted, refused, failed, panic>>

(* Mutant: Close does not wait for the flusher. *)
NoWait == TRUE

(* flusherWG.Wait returns. *)
FlusherDone == pc[Ticker] = "done"

WaitReturns(p) ==
  /\ ~panic
  /\ pc[p] = "wait" /\ stopping
  /\ FlusherDone
  /\ pc' = [pc EXCEPT ![p] = IF recs[p] = <<>> THEN "closeFile" ELSE "write"]
  /\ UNCHANGED <<buf, closed, stopping, recs, pos, sinks, accepted, refused, failed, panic>>

(* The sinks are closed, then their fields set to nil, without the lock.   *)
CloseFile(p) ==
  /\ ~panic
  /\ \/ /\ pc[p] = "closeFile"
        /\ fileState' = "closed"
        /\ pc' = [pc EXCEPT ![p] = "nilFile"]
     \/ /\ pc[p] = "nilFile"
        /\ fileState' = "nil"
        /\ pc' = [pc EXCEPT ![p] = IF dbState = "nil" THEN "done" ELSE "closeDB"]
  /\ UNCHANGED <<buf, closed, stopping, recs, pos, dbState, file, table, accepted,
                 refused, failed, panic>>

CloseDB(p) ==
  /\ ~panic
  /\ \/ /\ pc[p] = "closeDB"
        /\ dbState' = "closed"
        /\ pc' = [pc EXCEPT ![p] = "nilDB"]
     \/ /\ pc[p] = "nilDB"
        /\ dbState' = "nil"
        /\ pc' = [pc EXCEPT ![p] = "done"]
  /\ UNCHANGED <<buf, closed, stopping, recs, pos, fileState, file, table,
                 accepted, refused, failed, panic>>

-----------------------------------------------------------------------------
WriteAll(p) == CheckFile(p) \/ Encode(p) \/ CheckPG(p) \/ Transact(p)
CloseStep(p) == StopFlusher(p) \/ WaitReturns(p) \/ CloseFile(p) \/ CloseDB(p)

Next == \/ \E r \in Records : Write(r)
        \/ \E p \in Flushers : Flush(p)
        \/ LoopReturns
        \/ \E p \in Writers : WriteAll(p)
        \/ \E p \in Closers : Close(p) \/ CloseStep(p)

Spec == Init /\ [][Next]_vars

(* Goroutines that can run do run; nobody has to call Flush or Close.      *)
Scheduled == /\ \A p \in Writers : WF_vars(WriteAll(p))
             /\ \A p \in Closers : WF_vars(CloseStep(p))
             /\ WF_vars(LoopReturns)

(* The ticker fires every FlushInterval. *)
Timer == WF_vars(Flush(Ticker))

FairSpec == Spec /\ Scheduled /\ Timer
NoTimerSpec == Spec /\ Scheduled

-----------------------------------------------------------------------------
(* Safety *)

(* What is left, for the file and for the table, of the batch p took. *)
Unwritten == [p \in Writers |-> IF pc[p] \in {"wait", "write", "encode"}
                                THEN SubSeq(recs[p], pos[p], Len(recs[p]))
                                ELSE <<>>]
Uncommitted ==
  [p \in Writers |-> IF pc[p] \in {"wait", "write", "encode", "pg", "tx"}
                     THEN recs[p] ELSE <<>>]

(* What is left of the batch of the one Close that took one. *)
LastBatch(rest) == LET c == {p \in Closers : rest[p] # <<>>}
                   IN  IF c = {} THEN <<>> ELSE rest[CHOOSE p \in c : TRUE]

(* The records a sink still has to get, in order: the flusher's batch,     *)
(* Close's batch, the buffer.                                              *)
Due(rest) == rest[Ticker] \o LastBatch(rest) \o buf

File == INSTANCE Log WITH due <- Due(Unwritten), log <- file, Faulty <- FileFails,
                          broken <- "file" \in failed, sealed <- fileState # "open"
Table == INSTANCE Log WITH due <- Due(Uncommitted), log <- table, Faulty <- PGFails,
                           broken <- "table" \in failed, sealed <- dbState # "open"

(* With the flusher alone, the JSONL file is a log: every record that      *)
(* Write took is logged once and in the order of the calls, is lost only   *)
(* by an error of the file, and is in the file when Close closes it        *)
(* (audit.go:201-263, 287-331).                                            *)
FileIsLog == File!Spec

(* PostgreSQL likewise, whatever becomes of the JSONL file: a transaction  *)
(* logs a batch or, by an error of its own, loses it (audit.go:296-371).   *)
TableIsLog == Table!Spec

(* A file that had no error holds, once it is closed, what Write accepted. *)
LogComplete == fileState # "open" /\ "file" \notin failed => file = accepted

-----------------------------------------------------------------------------
(* Liveness *)

(* A record that Write accepted reaches the file without anybody calling   *)
(* Flush or Close, unless the file fails (audit.go:270-283).               *)
RecordLogged ==
  \A r \in Records :
    r \in Range(accepted) ~> r \in Range(file) \/ "file" \in failed

(* Close returns: it never waits for a flusher that waits for it           *)
(* (audit.go:229-266).                                                     *)
CloseReturns ==
  \A p \in Closers : pc[p] \notin {"idle", "done"} ~> pc[p] = "done" \/ panic

-----------------------------------------------------------------------------
(* What comments say of the writer and the code does not do. *)

(* audit.go:199-200 "Non-blocking unless the buffer is at 2x BatchSize     *)
(* (back-pressure)": the buffer never exceeds that (audit.go:201-214).     *)
BackPressure == Len(buf) <= 2 * BatchSize

(* audit.go:65 "flush when buffer reaches this many records", 129          *)
(* "flushes them ... on a timer or when the batch fills": a full batch is  *)
(* flushed before the timer (audit.go:201-214, 270-283).                   *)
FullBatchFlushed == Len(buf) >= BatchSize ~> Len(buf) < BatchSize

(* audit.go:129 "It is safe for concurrent use": a Flush that overlaps     *)
(* Close does not crash the process (audit.go:224, 258-263, 308, 340).     *)
FlushDuringCloseIsSafe == ~panic
=============================================================================
