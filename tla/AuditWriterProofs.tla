--------------------------- MODULE AuditWriterProofs ---------------------------
(***************************************************************************)
(* Proofs about AuditWriter: its types for every number of goroutines, and *)
(* that each of its sinks is a Log when nobody but the ticker flushes.     *)
(***************************************************************************)
EXTENDS AuditWriter, SequenceTheorems, TLAPS

Writing == {"write", "encode", "pg", "tx"}

(* What the program counter of a goroutine says of its batch. *)
Local(p) ==
  /\ pc[p] \in Writing => recs[p] # <<>>
  /\ pc[p] \notin Writing \cup {"wait"} => recs[p] = <<>>
  /\ pc[p] \in {"write", "wait"} => pos[p] = 1
  /\ pc[p] = "encode" => pos[p] <= Len(recs[p])
  /\ p \in Flushers => pc[p] \in Writing \cup {"idle", "done"}

LocalInv == TypeOK /\ \A p \in Writers : Local(p)

(* The conjuncts of TypeOK, by what changes them. *)
SinksTyped == /\ fileState \in SinkStates /\ dbState \in SinkStates
              /\ file \in Seq(Records) /\ table \in Seq(Records)
HistoryTyped == /\ accepted \in Seq(Records)
                /\ refused \subseteq Records /\ failed \subseteq {"file", "table"}
                /\ closed \in BOOLEAN /\ stopping \in BOOLEAN /\ panic \in BOOLEAN
BatchesTyped == /\ buf \in Seq(Records)
                /\ pc \in [Writers -> PCs]
                /\ recs \in [Writers -> Seq(Records)]
                /\ pos \in [Writers -> Nat \ {0}]

(* The type invariant in three parts, so that a leaf expands one of them. *)
LEMMA TypeParts == TypeOK <=> SinksTyped /\ HistoryTyped /\ BatchesTyped
BY DEF TypeOK, SinksTyped, HistoryTyped, BatchesTyped

(* Write changes the buffer and the histories only. *)
LEMMA WriteLocal ==
  ASSUME LocalInv, NEW r \in Records, Write(r)
  PROVE  LocalInv'
<1>1. UNCHANGED <<closed, stopping, pc, recs, pos, sinks, failed, panic>>
  BY DEF Write
<1>2. TypeOK'
  <2>1. /\ buf \in Seq(Records) /\ accepted \in Seq(Records)
        /\ refused \subseteq Records
    BY DEF LocalInv, TypeOK
  <2>2. buf' \in Seq(Records) /\ accepted' \in Seq(Records) /\ refused' \subseteq Records
    <3>1. CASE Refuses
      BY <2>1, <3>1 DEF Write
    <3>2. CASE ~Refuses
      <4>1. buf' = Append(buf, r) /\ accepted' = Append(accepted, r) /\ refused' = refused
        BY <3>2 DEF Write
      <4>2. QED
        BY <2>1, <4>1
    <3>3. QED
      BY <3>1, <3>2
  <2>3. QED
    BY <1>1, <2>2 DEF LocalInv, TypeOK, sinks
<1>3. \A p \in Writers : Local(p)'
  BY <1>1 DEF LocalInv, Local
<1>4. QED
  BY <1>2, <1>3 DEF LocalInv

(* A goroutine changes its own batch only. *)
LEMMA OwnBatch ==
  ASSUME LocalInv, NEW p \in Writers,
         NEW a \in PCs, NEW b \in Seq(Records), NEW i \in Nat \ {0},
         pc' = [pc EXCEPT ![p] = a], recs' = [recs EXCEPT ![p] = b],
         pos' = [pos EXCEPT ![p] = i], buf' \in Seq(Records)
  PROVE  /\ BatchesTyped'
         /\ pc'[p] = a /\ recs'[p] = b /\ pos'[p] = i
         /\ \A q \in Writers \ {p} : /\ pc'[q] = pc[q] /\ recs'[q] = recs[q]
                                     /\ pos'[q] = pos[q] /\ Local(q)'
<1>1. /\ pc \in [Writers -> PCs] /\ recs \in [Writers -> Seq(Records)]
      /\ pos \in [Writers -> Nat \ {0}]
  BY DEF LocalInv, TypeOK
<1>2. BatchesTyped'
  BY <1>1 DEF BatchesTyped
<1>3. \A q \in Writers \ {p} : pc'[q] = pc[q] /\ recs'[q] = recs[q] /\ pos'[q] = pos[q]
  BY <1>1
<1>4. \A q \in Writers \ {p} : Local(q)'
  BY <1>3 DEF LocalInv, Local
<1>5. QED
  BY <1>1, <1>2, <1>3, <1>4

(* The steps of one goroutine. *)
Acts(p) == \/ p \in Flushers /\ Flush(p)
           \/ p = Ticker /\ LoopReturns
           \/ WriteAll(p)
           \/ p \in Closers /\ (Close(p) \/ CloseStep(p))

(* A step is a call of Write or a step of one of the goroutines. *)
LEMMA Actors ==
  ASSUME Next
  PROVE  (\E r \in Records : Write(r)) \/ \E p \in Writers : Acts(p)
BY TickerAssumption DEF Next, Acts, Writers

(* What each step does to the batch of its goroutine. *)
LEMMA StepOfBatch ==
  ASSUME LocalInv, NEW p \in Writers,
         Acts(p)
  PROVE  /\ \E a \in PCs, b \in Seq(Records), i \in Nat \ {0} :
              /\ pc' = [pc EXCEPT ![p] = a] /\ recs' = [recs EXCEPT ![p] = b]
              /\ pos' = [pos EXCEPT ![p] = i]
         /\ buf' \in Seq(Records)
         /\ Local(p)'
<1>1. /\ pc \in [Writers -> PCs] /\ recs \in [Writers -> Seq(Records)]
      /\ pos \in [Writers -> Nat \ {0}] /\ buf \in Seq(Records)
      /\ pc[p] \in PCs /\ recs[p] \in Seq(Records) /\ pos[p] \in Nat \ {0}
      /\ Local(p)
  BY DEF LocalInv, TypeOK
<1>2. /\ [pc EXCEPT ![p] = pc[p]] = pc /\ [recs EXCEPT ![p] = recs[p]] = recs
      /\ [pos EXCEPT ![p] = pos[p]] = pos
  BY <1>1
<1>3. <<>> \in Seq(Records) /\ 1 \in Nat \ {0} /\ Len(<<>>) = 0
  BY EmptySeq
<1> USE ProcAssumption, TickerAssumption DEF PCs, Local, Writing, Returned
<1>4. CASE p \in Flushers /\ Flush(p)
  BY <1>1, <1>3, <1>4 DEF Flush, TakeBuffer
<1>5. CASE p = Ticker /\ LoopReturns
  BY <1>1, <1>2, <1>5 DEF LoopReturns
<1>6. CASE CheckFile(p)
  <2>1. pc[p] = "write" /\ UNCHANGED <<buf, recs, pos>> /\ recs[p] # <<>>
        /\ Len(recs[p]) \in Nat \ {0}
    BY <1>1, <1>6, EmptySeq DEF CheckFile
  <2>2. CASE fileState = "nil"
    BY <1>1, <1>2, <1>6, <2>1, <2>2 DEF CheckFile
  <2>3. CASE fileState # "nil"
    BY <1>1, <1>2, <1>6, <2>1, <2>3 DEF CheckFile
  <2>4. QED
    BY <2>2, <2>3
<1>7. CASE Encode(p)
  <2>1. pc[p] = "encode" /\ UNCHANGED <<buf, recs>> /\ recs[p] # <<>>
        /\ Len(recs[p]) \in Nat
    BY <1>1, <1>7 DEF Encode
  <2>2. CASE /\ pos' = [pos EXCEPT ![p] = @ + 1]
             /\ pc' = [pc EXCEPT ![p] = IF pos[p] = Len(recs[p]) THEN "pg" ELSE @]
    <3>1. /\ pos' = [pos EXCEPT ![p] = pos[p] + 1]
          /\ pos[p] + 1 \in Nat \ {0}
          /\ pos'[p] = pos[p] + 1
      BY <1>1, <2>2
    <3>2. CASE pos[p] = Len(recs[p])
      <4>1. pc' = [pc EXCEPT ![p] = "pg"] /\ pc'[p] = "pg"
        BY <1>1, <2>2, <3>2
      <4>2. QED
        BY <1>1, <1>2, <2>1, <3>1, <4>1
    <3>3. CASE pos[p] # Len(recs[p])
      <4>1. pc' = [pc EXCEPT ![p] = pc[p]] /\ pc'[p] = "encode"
        BY <1>1, <2>1, <2>2, <3>3
      <4>2. pos[p] + 1 <= Len(recs[p])
        BY <1>1, <2>1, <3>3
      <4>3. QED
        BY <1>1, <1>2, <2>1, <3>1, <4>1, <4>2
    <3>4. QED
      BY <3>2, <3>3
  <2>3. CASE pc' = [pc EXCEPT ![p] = AfterError(p)] /\ UNCHANGED pos
    BY <1>1, <1>2, <2>1, <2>3 DEF AfterError
  <2>4. QED
    BY <1>7, <2>2, <2>3 DEF Encode
<1>8. CASE CheckPG(p)
  <2>1. CASE dbState = "nil"
    <3>1. /\ pc' = [pc EXCEPT ![p] = Returned(p)] /\ recs' = [recs EXCEPT ![p] = <<>>]
          /\ UNCHANGED <<buf, pos>>
      BY <1>8, <2>1 DEF CheckPG
    <3>2. Returned(p) \in PCs \ (Writing \cup {"wait"})
          /\ (p \in Flushers => Returned(p) = "idle")
      OBVIOUS
    <3>3. pc'[p] = Returned(p) /\ recs'[p] = <<>>
      BY <1>1, <3>1
    <3>4. QED
      BY <1>1, <1>2, <1>3, <3>1, <3>2, <3>3
  <2>2. CASE dbState # "nil"
    BY <1>1, <1>2, <1>3, <1>8, <2>2 DEF CheckPG
  <2>3. QED
    BY <2>1, <2>2
<1>9. CASE Transact(p)
  BY <1>1, <1>2, <1>3, <1>9 DEF Transact
<1>10. CASE p \in Closers /\ Close(p)
  <2>1. CASE closed
    BY <1>1, <1>2, <1>3, <1>10, <2>1 DEF Close
  <2>2. CASE ~closed
    BY <1>1, <1>2, <1>3, <1>10, <2>2 DEF Close, TakeBuffer
  <2>3. QED
    BY <2>1, <2>2
<1>11. CASE StopFlusher(p)
  BY <1>1, <1>2, <1>11 DEF StopFlusher
<1>12. CASE WaitReturns(p)
  BY <1>1, <1>2, <1>12 DEF WaitReturns
<1>13. CASE p \in Closers /\ CloseFile(p)
  BY <1>1, <1>2, <1>13 DEF CloseFile
<1>14. CASE p \in Closers /\ CloseDB(p)
  BY <1>1, <1>2, <1>14 DEF CloseDB
<1>15. QED
  BY <1>4, <1>5, <1>6, <1>7, <1>8, <1>9, <1>10, <1>11, <1>12, <1>13, <1>14
  DEF Acts, WriteAll, CloseStep

(* The sinks only grow by records of batches. *)
LEMMA SinksStep ==
  ASSUME LocalInv, NEW p \in Writers, Acts(p)
  PROVE  SinksTyped' /\ HistoryTyped'
<1>1. /\ SinksTyped /\ HistoryTyped
      /\ recs[p] \in Seq(Records) /\ pos[p] \in Nat \ {0}
      /\ pc[p] = "encode" => pos[p] <= Len(recs[p])
  BY TypeParts DEF LocalInv, Local, TypeOK
<1>2. CASE Encode(p)
  <2>1. file' = file \/ file' = Append(file, recs[p][pos[p]])
    BY <1>2 DEF Encode
  <2>2. recs[p][pos[p]] \in Records
    BY <1>1, <1>2, LenProperties, ElementOfSeq DEF Encode
  <2>3. file' \in Seq(Records)
    <3>1. file \in Seq(Records)
      BY <1>1 DEF SinksTyped
    <3>2. Append(file, recs[p][pos[p]]) \in Seq(Records)
      BY <2>2, <3>1, AppendProperties
    <3>3. QED
      BY <2>1, <3>1, <3>2
  <2>4. failed' \subseteq {"file", "table"}
    BY <1>1, <1>2 DEF Encode, HistoryTyped
  <2>5. UNCHANGED <<fileState, dbState, table, accepted, refused, closed, stopping, panic>>
    BY <1>2 DEF Encode
  <2>6. QED
    BY <1>1, <2>3, <2>4, <2>5 DEF SinksTyped, HistoryTyped
<1>3. CASE Transact(p)
  <2>1. table' = table \/ table' = table \o recs[p]
    BY <1>3 DEF Transact
  <2>2. table' \in Seq(Records)
    <3>1. table \in Seq(Records) /\ recs[p] \in Seq(Records)
      BY <1>1 DEF SinksTyped
    <3>2. table \o recs[p] \in Seq(Records)
      BY <3>1, ConcatProperties
    <3>3. QED
      BY <2>1, <3>1, <3>2
  <2>3. failed' \subseteq {"file", "table"} /\ panic' \in BOOLEAN
    BY <1>1, <1>3 DEF Transact, HistoryTyped
  <2>4. UNCHANGED <<fileState, dbState, file, accepted, refused, closed, stopping>>
    BY <1>3 DEF Transact
  <2>5. QED
    BY <1>1, <2>2, <2>3, <2>4 DEF SinksTyped, HistoryTyped
<1>4. CASE Flush(p) \/ LoopReturns \/ CheckFile(p) \/ CheckPG(p) \/ WaitReturns(p)
  BY <1>1, <1>4 DEF Flush, LoopReturns, CheckFile, CheckPG, WaitReturns, sinks,
                    SinksTyped, HistoryTyped
<1>5. CASE Close(p)
  BY <1>1, <1>5 DEF Close, sinks, SinksTyped, HistoryTyped
<1>6. CASE StopFlusher(p)
  BY <1>1, <1>6 DEF StopFlusher, sinks, SinksTyped, HistoryTyped
<1>7. CASE CloseFile(p) \/ CloseDB(p)
  BY <1>1, <1>7 DEF CloseFile, CloseDB, SinksTyped, SinkStates, HistoryTyped
<1>8. QED
  BY <1>2, <1>3, <1>4, <1>5, <1>6, <1>7 DEF Acts, WriteAll, CloseStep

(* The shape of the batches before the first step. *)
LEMMA LocalInit == Init => LocalInv
<1> SUFFICES ASSUME Init PROVE LocalInv
  OBVIOUS
<1>1. <<>> \in Seq(Records)
  BY EmptySeq
<1>2. TypeOK
  <2>1. dbState \in SinkStates /\ fileState \in SinkStates
    BY DEF Init, SinkStates
  <2>2. /\ pc = [p \in Writers |-> "idle"] /\ recs = [p \in Writers |-> <<>>]
        /\ pos = [p \in Writers |-> 1]
    BY DEF Init
  <2>3. /\ pc \in [Writers -> PCs] /\ recs \in [Writers -> Seq(Records)]
        /\ pos \in [Writers -> Nat \ {0}]
    BY <1>1, <2>2 DEF PCs
  <2>4. QED
    BY <1>1, <2>1, <2>3 DEF Init, TypeOK
<1>3. \A p \in Writers : Local(p)
  BY DEF Init, Local, Writing
<1>4. QED
  BY <1>2, <1>3 DEF LocalInv

(* The types, and the shape of the batches, in every reachable state. *)
THEOREM LocalHolds == Spec => []LocalInv
<1>1. Init => LocalInv
  BY LocalInit
<1>2. LocalInv /\ [Next]_vars => LocalInv'
  <2> SUFFICES ASSUME LocalInv, [Next]_vars PROVE LocalInv'
    OBVIOUS
  <2>1. CASE UNCHANGED vars
    BY <2>1 DEF LocalInv, TypeOK, Local, vars, sinks
  <2>2. CASE \E r \in Records : Write(r)
    BY <2>2, WriteLocal
  <2>3. CASE \E p \in Writers : Acts(p)
    <3>1. PICK p \in Writers : Acts(p)
      BY <2>3
    <3>2. /\ \E a \in PCs, b \in Seq(Records), i \in Nat \ {0} :
               /\ pc' = [pc EXCEPT ![p] = a] /\ recs' = [recs EXCEPT ![p] = b]
               /\ pos' = [pos EXCEPT ![p] = i]
          /\ buf' \in Seq(Records)
          /\ Local(p)'
      BY <3>1, StepOfBatch
    <3>3. BatchesTyped' /\ \A q \in Writers \ {p} : Local(q)'
      BY <3>2, OwnBatch
    <3>4. SinksTyped' /\ HistoryTyped'
      BY <3>1, SinksStep
    <3>5. TypeOK'
      BY <3>3, <3>4 DEF TypeOK, SinksTyped, HistoryTyped, BatchesTyped
    <3>6. QED
      BY <3>2, <3>3, <3>5 DEF LocalInv
  <2>4. QED
    BY <2>1, <2>2, <2>3, Actors DEF Next
<1>3. QED
  BY <1>1, <1>2, PTL DEF Spec

(* The writer's state is well typed, whoever flushes and closes. *)
THEOREM WriterTyped == Spec => []TypeOK
<1>1. LocalInv => TypeOK
  BY DEF LocalInv
<1>2. QED
  BY <1>1, LocalHolds, PTL

-----------------------------------------------------------------------------
(* Close with the ticker as the only flusher *)

Active(p) == pc[p] \notin {"idle", "done"}

(* One Close at most is under way; what it does after flusherWG.Wait it    *)
(* does alone; it closes a sink after it has written its batch.            *)
ClosingInv ==
  /\ closed => buf = <<>>
  /\ stopping => closed
  /\ \A p \in Closers : Active(p) => closed
  /\ \A p, q \in Closers : Active(p) /\ Active(q) => p = q
  /\ \A p \in Closers : Active(p) /\ pc[p] # "wait" => pc[Ticker] = "done"
  /\ fileState # "open" =>
       /\ closed /\ pc[Ticker] = "done"
       /\ \A p \in Closers : pc[p] \notin Writing \cup {"wait", "closeFile"}
  /\ UsePG /\ dbState # "open" =>
       /\ closed /\ pc[Ticker] = "done"
       /\ \A p \in Closers :
            pc[p] \notin Writing \cup {"wait", "closeFile", "nilFile", "closeDB"}

(* The ticker is no closer, and it is the only flusher. *)
LEMMA TickerAlone ==
  ASSUME Flushers = {Ticker}
  PROVE  /\ Ticker \in Writers /\ Ticker \notin Closers
         /\ Writers = {Ticker} \cup Closers
         /\ \A p \in Closers : p \in Writers /\ p \notin Flushers
BY ProcAssumption DEF Writers

(* A step of one goroutine moves no other. *)
LEMMA OtherPCs ==
  ASSUME LocalInv, NEW p \in Writers, Acts(p)
  PROVE  /\ pc'[p] \in PCs /\ pc' \in [Writers -> PCs]
         /\ \A q \in Writers \ {p} : pc'[q] = pc[q]
<1>1. PICK a \in PCs, b \in Seq(Records), i \in Nat \ {0} :
        /\ pc' = [pc EXCEPT ![p] = a] /\ recs' = [recs EXCEPT ![p] = b]
        /\ pos' = [pos EXCEPT ![p] = i]
  BY StepOfBatch
<1>2. pc \in [Writers -> PCs]
  BY DEF LocalInv, TypeOK
<1>3. QED
  BY <1>1, <1>2

(* The ticker does not act after Close has waited for it. *)
LEMMA TickerStep ==
  ASSUME Flushers = {Ticker}, LocalInv, ClosingInv, Acts(Ticker)
  PROVE  /\ pc[Ticker] # "done"
         /\ UNCHANGED <<closed, stopping, fileState, dbState>>
         /\ buf' = buf \/ buf' = <<>>
         /\ pc'[Ticker] = "done" => stopping
<1>1. Ticker \notin Closers /\ pc \in [Writers -> PCs] /\ Ticker \in Writers
  BY TickerAlone DEF LocalInv, TypeOK
<1>2. CASE Flush(Ticker)
  BY <1>1, <1>2 DEF Flush, TakeBuffer, sinks
<1>3. CASE LoopReturns
  BY <1>1, <1>3 DEF LoopReturns, sinks
<1>4. CASE CheckFile(Ticker)
  BY <1>1, <1>4 DEF CheckFile, sinks
<1>5. CASE Encode(Ticker)
  <2>1. pc[Ticker] = "encode" /\ UNCHANGED <<closed, stopping, fileState, dbState, buf>>
    BY <1>5 DEF Encode
  <2>2. \/ pc' = [pc EXCEPT ![Ticker] = IF pos[Ticker] = Len(recs[Ticker]) THEN "pg" ELSE @]
        \/ pc' = [pc EXCEPT ![Ticker] = "pg"]
    BY <1>5 DEF Encode, AfterError
  <2>3. pc'[Ticker] # "done"
    BY <1>1, <2>1, <2>2
  <2>4. QED
    BY <2>1, <2>3
<1>6. CASE CheckPG(Ticker)
  <2>1. pc[Ticker] = "pg" /\ UNCHANGED <<closed, stopping, fileState, dbState, buf>>
    BY <1>6 DEF CheckPG, sinks
  <2>2. \/ pc' = [pc EXCEPT ![Ticker] = "idle"]
        \/ pc' = [pc EXCEPT ![Ticker] = "tx"]
    BY <1>1, <1>6 DEF CheckPG, Returned
  <2>3. QED
    BY <1>1, <2>1, <2>2
<1>7. CASE Transact(Ticker)
  BY <1>1, <1>7 DEF Transact, Returned
<1>8. QED
  BY <1>1, <1>2, <1>3, <1>4, <1>5, <1>6, <1>7 DEF Acts, WriteAll

(* What a step of Close does to the program counter and the sinks. *)
CloserMove(p) ==
  \/ /\ pc[p] = "idle" /\ closed /\ pc'[p] = "done"
     /\ UNCHANGED <<buf, closed, stopping, fileState, dbState>>
  \/ /\ pc[p] = "idle" /\ ~closed /\ pc'[p] = "wait"
     /\ buf' = <<>> /\ closed' = TRUE
     /\ UNCHANGED <<stopping, fileState, dbState>>
  \/ /\ pc[p] = "wait" /\ pc'[p] = "wait" /\ stopping' = TRUE
     /\ UNCHANGED <<buf, closed, fileState, dbState>>
  \/ /\ pc[p] = "wait" /\ pc[Ticker] = "done"
     /\ pc'[p] \in {"closeFile", "write"}
     /\ UNCHANGED <<buf, closed, stopping, fileState, dbState>>
  \/ /\ pc[p] \in Writing /\ pc'[p] \in Writing \cup {"closeFile"}
     /\ UNCHANGED <<buf, closed, stopping, fileState, dbState>>
  \/ /\ pc[p] = "closeFile" /\ fileState' = "closed" /\ pc'[p] = "nilFile"
     /\ UNCHANGED <<buf, closed, stopping, dbState>>
  \/ /\ pc[p] = "nilFile" /\ fileState' = "nil"
     /\ pc'[p] = IF dbState = "nil" THEN "done" ELSE "closeDB"
     /\ UNCHANGED <<buf, closed, stopping, dbState>>
  \/ /\ pc[p] = "closeDB" /\ dbState' = "closed" /\ pc'[p] = "nilDB"
     /\ UNCHANGED <<buf, closed, stopping, fileState>>
  \/ /\ pc[p] = "nilDB" /\ dbState' = "nil" /\ pc'[p] = "done"
     /\ UNCHANGED <<buf, closed, stopping, fileState>>

(* A step of a closer is one of the moves CloserMove lists. *)
LEMMA CloserMoves ==
  ASSUME Flushers = {Ticker}, LocalInv, NEW p \in Closers, Acts(p)
  PROVE  CloserMove(p)
<1>1. /\ p \in Writers /\ p # Ticker /\ p \notin Flushers /\ pc \in [Writers -> PCs]
  BY TickerAlone DEF LocalInv, TypeOK
<1>2. CASE Close(p)
  <2>1. CASE closed
    BY <1>1, <1>2, <2>1 DEF Close, sinks, CloserMove
  <2>2. CASE ~closed
    BY <1>1, <1>2, <2>2 DEF Close, TakeBuffer, sinks, CloserMove
  <2>3. QED
    BY <2>1, <2>2
<1>3. CASE StopFlusher(p)
  BY <1>1, <1>3 DEF StopFlusher, sinks, CloserMove
<1>4. CASE WaitReturns(p)
  <2>1. /\ pc[p] = "wait" /\ pc[Ticker] = "done"
        /\ UNCHANGED <<buf, closed, stopping, fileState, dbState>>
    BY <1>4 DEF WaitReturns, FlusherDone, sinks
  <2>2. pc'[p] \in {"closeFile", "write"}
    BY <1>1, <1>4 DEF WaitReturns
  <2>3. QED
    BY <2>1, <2>2 DEF CloserMove
<1>5. CASE WriteAll(p)
  <2>1. pc[p] \in Writing /\ UNCHANGED <<buf, closed, stopping, fileState, dbState>>
    BY <1>5 DEF WriteAll, CheckFile, Encode, CheckPG, Transact, Writing, sinks
  <2>2. pc'[p] \in Writing \cup {"closeFile"}
    <3>1. CASE CheckFile(p)
      BY <1>1, <3>1 DEF CheckFile, Writing
    <3>2. CASE Encode(p)
      <4>1. pc[p] = "encode"
        BY <3>2 DEF Encode
      <4>2. \/ pc' = [pc EXCEPT ![p] = IF pos[p] = Len(recs[p]) THEN "pg" ELSE @]
            \/ pc' = [pc EXCEPT ![p] = "pg"]
        BY <3>2 DEF Encode, AfterError
      <4>3. QED
        BY <1>1, <4>1, <4>2 DEF Writing
    <3>3. CASE CheckPG(p)
      <4>1. \/ pc' = [pc EXCEPT ![p] = "closeFile"]
            \/ pc' = [pc EXCEPT ![p] = "tx"]
        BY <1>1, <3>3 DEF CheckPG, Returned
      <4>2. QED
        BY <1>1, <4>1 DEF Writing
    <3>4. CASE Transact(p)
      BY <1>1, <3>4 DEF Transact, Returned
    <3>5. QED
      BY <1>5, <3>1, <3>2, <3>3, <3>4 DEF WriteAll
  <2>3. QED
    BY <2>1, <2>2 DEF CloserMove
<1>6. CASE CloseFile(p)
  <2>1. UNCHANGED <<buf, closed, stopping, dbState>>
    BY <1>6 DEF CloseFile
  <2>2. \/ pc[p] = "closeFile" /\ fileState' = "closed" /\ pc'[p] = "nilFile"
        \/ /\ pc[p] = "nilFile" /\ fileState' = "nil"
           /\ pc'[p] = IF dbState = "nil" THEN "done" ELSE "closeDB"
    BY <1>1, <1>6 DEF CloseFile
  <2>3. QED
    BY <2>1, <2>2 DEF CloserMove
<1>7. CASE CloseDB(p)
  BY <1>1, <1>7 DEF CloseDB, CloserMove
<1>8. QED
  BY <1>1, <1>2, <1>3, <1>4, <1>5, <1>6, <1>7 DEF Acts, CloseStep

(* Every step keeps the order of Close: stop, wait, write, close the sinks. *)
LEMMA ClosingStep ==
  ASSUME Flushers = {Ticker}, LocalInv, ClosingInv, [Next]_vars
  PROVE  ClosingInv'
<1>0. Ticker \notin Closers /\ Ticker \in Writers /\ \A p \in Closers : p \in Writers
  BY TickerAlone
<1>1. CASE UNCHANGED vars
  BY <1>1 DEF ClosingInv, Active, vars, sinks
<1>2. CASE \E r \in Records : Write(r)
  <2>1. PICK r \in Records : Write(r)
    BY <1>2
  <2>2. /\ UNCHANGED <<closed, stopping, pc, fileState, dbState>>
        /\ buf' = buf \/ ~closed
    BY <2>1 DEF Write, Refuses, sinks
  <2>3. QED
    BY <2>2 DEF ClosingInv, Active
<1>3. CASE Acts(Ticker)
  <2>1. /\ pc[Ticker] # "done"
        /\ UNCHANGED <<closed, stopping, fileState, dbState>>
        /\ buf' = buf \/ buf' = <<>>
    BY <1>3, TickerStep
  <2>2. \A p \in Closers : pc'[p] = pc[p]
    BY <1>0, <1>3, OtherPCs
  <2>3. QED
    BY <2>1, <2>2 DEF ClosingInv, Active
<1>4. CASE \E p \in Closers : Acts(p)
  <2>1. PICK p \in Closers : Acts(p)
    BY <1>4
  <2>2. CloserMove(p)
    BY <2>1, CloserMoves
  <2>3. pc'[Ticker] = pc[Ticker] /\ \A q \in Closers \ {p} : pc'[q] = pc[q]
    BY <1>0, <2>1, OtherPCs
  <2>4. ClosingInv'
    BY <2>2, <2>3 DEF ClosingInv, Active, CloserMove, Writing
  <2>5. QED
    BY <2>4
<1>5. QED
  BY <1>1, <1>2, <1>3, <1>4, Actors, TickerAlone

-----------------------------------------------------------------------------
(* Sequences *)

(* Taking the first n of a concatenation, when its first part has as many. *)
LEMMA HeadTurn ==
  ASSUME NEW S, NEW h \in Seq(S), NEW t \in Seq(S), NEW n \in 1 .. Len(h)
  PROVE  /\ n \in 1 .. Len(h \o t)
         /\ SubSeq(h \o t, 1, n) = SubSeq(h, 1, n)
         /\ SubSeq(h \o t, n + 1, Len(h \o t)) = SubSeq(h, n + 1, Len(h)) \o t
<1> DEFINE c == h \o t
           a == SubSeq(h, n + 1, Len(h))
           d == SubSeq(c, n + 1, Len(c))
<1>1. Len(h) \in Nat /\ Len(t) \in Nat /\ n \in Nat /\ n >= 1 /\ n <= Len(h)
  BY LenProperties
<1>2. /\ c \in Seq(S) /\ Len(c) = Len(h) + Len(t)
      /\ \A i \in 1 .. Len(c) : c[i] = IF i <= Len(h) THEN h[i] ELSE t[i - Len(h)]
  BY <1>1, ConcatProperties
<1>3. /\ \A i \in 1 .. Len(h) : h[i] \in S
      /\ \A i \in 1 .. Len(c) : c[i] \in S
  BY <1>2, ElementOfSeq
<1> HIDE DEF c
<1>4. SubSeq(c, 1, n) = SubSeq(h, 1, n)
  <2>1. /\ SubSeq(c, 1, n) \in Seq(S) /\ Len(SubSeq(c, 1, n)) = n
        /\ \A i \in 1 .. n : SubSeq(c, 1, n)[i] = c[i]
    <3>1. \A i \in 1 .. n : c[i] \in S
      BY <1>1, <1>2, <1>3
    <3>2. QED
      BY <1>1, <3>1, SubSeqProperties
  <2>2. /\ SubSeq(h, 1, n) \in Seq(S) /\ Len(SubSeq(h, 1, n)) = n
        /\ \A i \in 1 .. n : SubSeq(h, 1, n)[i] = h[i]
    <3>1. \A i \in 1 .. n : h[i] \in S
      BY <1>1, <1>3
    <3>2. QED
      BY <1>1, <3>1, SubSeqProperties
  <2>3. \A i \in 1 .. n : c[i] = h[i]
    BY <1>1, <1>2
  <2>4. QED
    BY <2>1, <2>2, <2>3, SeqEqual
<1>5. /\ a \in Seq(S) /\ Len(a) = Len(h) - n
      /\ \A i \in 1 .. Len(a) : a[i] = h[n + i]
  <2>1. \A i \in (n + 1) .. Len(h) : h[i] \in S
    BY <1>1, <1>3
  <2>2. /\ a \in Seq(S)
        /\ Len(a) = IF n + 1 <= Len(h) THEN Len(h) - (n + 1) + 1 ELSE 0
        /\ \A i \in 1 .. Len(h) - (n + 1) + 1 : a[i] = h[(n + 1) + i - 1]
    BY <1>1, <2>1, SubSeqProperties
  <2> HIDE DEF a
  <2>3. QED
    BY <1>1, <2>2
<1>6. /\ d \in Seq(S) /\ Len(d) = Len(c) - n
      /\ \A i \in 1 .. Len(d) : d[i] = c[n + i]
  <2>1. \A i \in (n + 1) .. Len(c) : c[i] \in S
    BY <1>1, <1>2, <1>3
  <2>2. /\ d \in Seq(S)
        /\ Len(d) = IF n + 1 <= Len(c) THEN Len(c) - (n + 1) + 1 ELSE 0
        /\ \A i \in 1 .. Len(c) - (n + 1) + 1 : d[i] = c[(n + 1) + i - 1]
    BY <1>1, <1>2, <2>1, SubSeqProperties, SMTT(30)
  <2> HIDE DEF d
  <2>3. Len(c) \in Nat /\ n \in Nat /\ n <= Len(c)
    BY <1>1, <1>2
  <2>4. Len(d) = Len(c) - n
    BY <2>2, <2>3
  <2>5. \A i \in 1 .. Len(c) - n : d[i] = c[n + i]
    <3>1. ASSUME NEW i \in 1 .. Len(c) - n PROVE d[i] = c[n + i]
      <4>1. i \in 1 .. Len(c) - (n + 1) + 1 /\ (n + 1) + i - 1 = n + i
        BY <2>3
      <4>2. QED
        BY <2>2, <4>1
    <3>2. QED
      BY <3>1
  <2>6. QED
    BY <2>2, <2>4, <2>5
<1> HIDE DEF a, d
<1>7. /\ a \o t \in Seq(S) /\ Len(a \o t) = Len(d)
      /\ \A i \in 1 .. Len(d) : (a \o t)[i] = IF i <= Len(a) THEN a[i] ELSE t[i - Len(a)]
  <2>1. /\ a \o t \in Seq(S) /\ Len(a \o t) = Len(a) + Len(t)
        /\ \A i \in 1 .. Len(a) + Len(t) :
             (a \o t)[i] = IF i <= Len(a) THEN a[i] ELSE t[i - Len(a)]
    BY <1>5, ConcatProperties
  <2>2. Len(d) = Len(a) + Len(t)
    BY <1>1, <1>2, <1>5, <1>6
  <2>3. QED
    BY <2>1, <2>2
<1>8. \A i \in 1 .. Len(d) : d[i] = (a \o t)[i]
  BY <1>1, <1>2, <1>5, <1>6, <1>7, SMTT(30)
<1>9. d = a \o t
  BY <1>6, <1>7, <1>8, SeqEqual
<1>10. n \in 1 .. Len(c)
  BY <1>1, <1>2
<1>11. QED
  BY <1>4, <1>9, <1>10 DEF a, d, c

(* The rest of a batch, from position i, begins with its i-th record. *)
LEMMA RestOfBatch ==
  ASSUME NEW S, NEW s \in Seq(S), NEW i \in 1 .. Len(s)
  PROVE  LET u == SubSeq(s, i, Len(s))
         IN  /\ u \in Seq(S) /\ 1 \in 1 .. Len(u)
             /\ SubSeq(u, 1, 1) = <<s[i]>>
             /\ SubSeq(u, 2, Len(u)) = SubSeq(s, i + 1, Len(s))
             /\ SubSeq(s, i + 1, Len(s)) \in Seq(S)
<1> DEFINE u == SubSeq(s, i, Len(s))
           v == SubSeq(s, i + 1, Len(s))
<1>1. Len(s) \in Nat /\ i \in Nat /\ i >= 1 /\ i <= Len(s)
      /\ \A j \in 1 .. Len(s) : s[j] \in S
  BY LenProperties, ElementOfSeq
<1>2. /\ u \in Seq(S) /\ Len(u) = Len(s) - i + 1
      /\ \A j \in 1 .. Len(s) - i + 1 : u[j] = s[i + j - 1]
  <2>1. \A j \in i .. Len(s) : s[j] \in S
    BY <1>1
  <2>2. QED
    BY <1>1, <2>1, SubSeqProperties
<1>3. /\ v \in Seq(S) /\ Len(v) = Len(s) - i
      /\ \A j \in 1 .. Len(s) - i : v[j] = s[i + j]
  <2>1. \A j \in (i + 1) .. Len(s) : s[j] \in S
    BY <1>1
  <2>2. /\ v \in Seq(S)
        /\ Len(v) = IF i + 1 <= Len(s) THEN Len(s) - (i + 1) + 1 ELSE 0
        /\ \A j \in 1 .. Len(s) - (i + 1) + 1 : v[j] = s[(i + 1) + j - 1]
    BY <1>1, <2>1, SubSeqProperties
  <2> HIDE DEF v
  <2>3. QED
    BY <1>1, <2>2
<1> HIDE DEF u, v
<1>4. 1 \in 1 .. Len(u) /\ Len(u) \in Nat /\ u[1] = s[i]
      /\ \A j \in 1 .. Len(u) : u[j] \in S
  BY <1>1, <1>2, ElementOfSeq
<1>5. SubSeq(u, 1, 1) = <<s[i]>>
  <2>1. \A j \in 1 .. 1 : u[j] \in S
    BY <1>4
  <2>2. /\ SubSeq(u, 1, 1) \in Seq(S) /\ Len(SubSeq(u, 1, 1)) = 1
        /\ \A j \in 1 .. 1 : SubSeq(u, 1, 1)[j] = u[j]
    BY <2>1, SubSeqProperties
  <2>3. <<s[i]>> \in Seq(S) /\ Len(<<s[i]>>) = 1 /\ <<s[i]>>[1] = s[i]
    BY <1>1
  <2>4. \A j \in 1 .. Len(SubSeq(u, 1, 1)) : SubSeq(u, 1, 1)[j] = <<s[i]>>[j]
    BY <1>4, <2>2, <2>3
  <2>5. QED
    BY <2>2, <2>3, <2>4, SeqEqual
<1>6. SubSeq(u, 2, Len(u)) = v
  <2> DEFINE w == SubSeq(u, 2, Len(u))
  <2>1. \A j \in 2 .. Len(u) : u[j] \in S
    BY <1>4
  <2>2. /\ w \in Seq(S)
        /\ Len(w) = IF 2 <= Len(u) THEN Len(u) - 2 + 1 ELSE 0
        /\ \A j \in 1 .. Len(u) - 2 + 1 : w[j] = u[2 + j - 1]
    BY <1>4, <2>1, SubSeqProperties
  <2> HIDE DEF w
  <2>3. Len(w) = Len(v) /\ \A j \in 1 .. Len(w) : w[j] = v[j]
    <3>1. /\ Len(u) \in Nat /\ Len(u) >= 1 /\ Len(v) = Len(u) - 1
          /\ Len(s) - i = Len(u) - 1
      BY <1>1, <1>2, <1>3
    <3>2. Len(w) = Len(v)
      BY <2>2, <3>1
    <3>3. ASSUME NEW j \in 1 .. Len(w) PROVE w[j] = v[j]
      <4>1. /\ j \in 1 .. Len(u) - 2 + 1 /\ 2 + j - 1 = j + 1
            /\ j + 1 \in 1 .. Len(s) - i + 1 /\ i + (j + 1) - 1 = i + j
            /\ j \in 1 .. Len(s) - i
        BY <1>1, <3>1, <3>2
      <4>2. w[j] = u[j + 1] /\ u[j + 1] = s[i + (j + 1) - 1] /\ v[j] = s[i + j]
        BY <1>2, <1>3, <2>2, <4>1
      <4>3. QED
        BY <4>1, <4>2
    <3>4. QED
      BY <3>2, <3>3
  <2>4. w = v
    BY <1>3, <2>2, <2>3, SeqEqual
  <2>5. QED
    BY <2>4 DEF w
<1>7. QED
  BY <1>2, <1>3, <1>4, <1>5, <1>6 DEF u, v

(* Appending is concatenating a sequence of one. *)
LEMMA AppendAsConcat ==
  ASSUME NEW S, NEW s \in Seq(S), NEW e \in S
  PROVE  Append(s, e) = s \o <<e>>
OBVIOUS

-----------------------------------------------------------------------------
(* What is due *)

DueOf(r, b) == r[Ticker] \o LastBatch(r) \o b

Batches == [Writers -> Seq(Records)]

(* The batch of Close is that of the one closer that has any. *)
LEMMA LastBatchOf ==
  ASSUME NEW r, NEW p \in Closers, \A q \in Closers \ {p} : r[q] = <<>>
  PROVE  LastBatch(r) = r[p]
<1> DEFINE c == {q \in Closers : r[q] # <<>>}
<1>1. LastBatch(r) = IF c = {} THEN <<>> ELSE r[CHOOSE q \in c : TRUE]
  BY DEF LastBatch
<1>2. CASE r[p] = <<>>
  <2>1. c = {}
    BY <1>2
  <2>2. QED
    BY <1>1, <1>2, <2>1
<1>3. CASE r[p] # <<>>
  <2>1. c = {p}
    BY <1>3
  <2>2. (CHOOSE q \in c : TRUE) = p
    BY <2>1
  <2>3. QED
    BY <1>1, <2>1, <2>2
<1>4. QED
  BY <1>2, <1>3

(* No closer has a batch. *)
LEMMA LastBatchNone ==
  ASSUME NEW r, \A q \in Closers : r[q] = <<>>
  PROVE  LastBatch(r) = <<>>
<1>1. {q \in Closers : r[q] # <<>>} = {}
  OBVIOUS
<1>2. QED
  BY <1>1 DEF LastBatch

(* It depends on the closers' batches only. *)
LEMMA LastBatchSame ==
  ASSUME NEW r, NEW s, \A q \in Closers : s[q] = r[q]
  PROVE  LastBatch(s) = LastBatch(r)
<1> DEFINE c == {q \in Closers : r[q] # <<>>}
           d == {q \in Closers : s[q] # <<>>}
<1>1. c = d
  OBVIOUS
<1>2. c # {} => (CHOOSE q \in c : TRUE) \in Closers
  OBVIOUS
<1>3. LastBatch(r) = IF c = {} THEN <<>> ELSE r[CHOOSE q \in c : TRUE]
  BY DEF LastBatch
<1>4. LastBatch(s) = IF d = {} THEN <<>> ELSE s[CHOOSE q \in d : TRUE]
  BY DEF LastBatch
<1> HIDE DEF c, d
<1>5. QED
  BY <1>1, <1>2, <1>3, <1>4

(* The batch of the closer that has one is a sequence of records. *)
LEMMA LastBatchType ==
  ASSUME NEW r \in Batches
  PROVE  LastBatch(r) \in Seq(Records)
<1> DEFINE c == {q \in Closers : r[q] # <<>>}
<1>1. LastBatch(r) = IF c = {} THEN <<>> ELSE r[CHOOSE q \in c : TRUE]
  BY DEF LastBatch
<1>2. CASE c = {}
  BY <1>1, <1>2, EmptySeq
<1>3. CASE c # {}
  <2>1. (CHOOSE q \in c : TRUE) \in Writers
    BY <1>3 DEF Writers
  <2>2. QED
    BY <1>1, <1>3, <2>1 DEF Batches
<1>4. QED
  BY <1>2, <1>3

(* The goroutine whose batch comes first. *)
First(r, p) ==
  \/ p = Ticker
  \/ p \in Closers /\ r[Ticker] = <<>> /\ \A q \in Closers \ {p} : r[q] = <<>>

(* The batch whose turn it is comes first among the due records. *)
LEMMA DueFirst ==
  ASSUME Flushers = {Ticker}, NEW r \in Batches, NEW b \in Seq(Records),
         NEW p \in Writers, First(r, p)
  PROVE  LET t == IF p = Ticker THEN LastBatch(r) \o b ELSE b
         IN  t \in Seq(Records) /\ DueOf(r, b) = r[p] \o t
<1>1. /\ r[Ticker] \in Seq(Records) /\ r[p] \in Seq(Records)
      /\ LastBatch(r) \in Seq(Records)
  BY TickerAlone, LastBatchType DEF Batches
<1>2. LastBatch(r) \o b \in Seq(Records)
  BY <1>1, ConcatProperties
<1>3. CASE p = Ticker
  <2>1. DueOf(r, b) = r[Ticker] \o (LastBatch(r) \o b)
    <3> DEFINE h == r[Ticker]
               l == LastBatch(r)
    <3>1. h \in Seq(Records) /\ l \in Seq(Records)
      BY <1>1
    <3>2. DueOf(r, b) = (h \o l) \o b
      BY DEF DueOf
    <3> HIDE DEF h, l
    <3>3. (h \o l) \o b = h \o (l \o b)
      BY <3>1, ConcatAssociative, SMTT(30)
    <3>4. QED
      BY <3>2, <3>3 DEF h, l
  <2>2. QED
    BY <1>2, <1>3, <2>1
<1>4. CASE p # Ticker
  <2>1. p \in Closers /\ r[Ticker] = <<>> /\ \A q \in Closers \ {p} : r[q] = <<>>
    BY <1>4 DEF First
  <2>2. LastBatch(r) = r[p]
    BY <2>1, LastBatchOf
  <2>3. <<>> \o r[p] = r[p]
    BY <1>1, ConcatEmptySeq
  <2>4. DueOf(r, b) = r[p] \o b
    BY <2>1, <2>2, <2>3 DEF DueOf
  <2>5. QED
    BY <1>4, <2>4
<1>5. QED
  BY <1>3, <1>4

(* When the first batch loses its first n records, so does what is due. *)
LEMMA DueTurns ==
  ASSUME Flushers = {Ticker}, NEW r \in Batches, NEW s \in Batches,
         NEW b \in Seq(Records), NEW p \in Writers, First(r, p),
         \A q \in Writers \ {p} : s[q] = r[q],
         NEW n \in 1 .. Len(r[p]), s[p] = SubSeq(r[p], n + 1, Len(r[p]))
  PROVE  /\ n \in 1 .. Len(DueOf(r, b))
         /\ SubSeq(DueOf(r, b), 1, n) = SubSeq(r[p], 1, n)
         /\ DueOf(s, b) = SubSeq(DueOf(r, b), n + 1, Len(DueOf(r, b)))
<1> DEFINE t == IF p = Ticker THEN LastBatch(r) \o b ELSE b
           u == IF p = Ticker THEN LastBatch(s) \o b ELSE b
<1>1. t \in Seq(Records) /\ DueOf(r, b) = r[p] \o t
  BY DueFirst
<1>2. First(s, p)
  BY TickerAlone DEF First
<1>3. DueOf(s, b) = s[p] \o u
  BY <1>2, DueFirst
<1>4. u = t
  <2>1. CASE p = Ticker
    <3>1. \A q \in Closers : s[q] = r[q]
      BY <2>1, TickerAlone
    <3>2. QED
      BY <3>1, LastBatchSame
  <2>2. CASE p # Ticker
    BY <2>2
  <2>3. QED
    BY <2>1, <2>2
<1>5. r[p] \in Seq(Records)
  BY DEF Batches
<1> HIDE DEF t, u
<1>6. /\ n \in 1 .. Len(r[p] \o t)
      /\ SubSeq(r[p] \o t, 1, n) = SubSeq(r[p], 1, n)
      /\ SubSeq(r[p] \o t, n + 1, Len(r[p] \o t))
           = SubSeq(r[p], n + 1, Len(r[p])) \o t
  BY <1>1, <1>5, HeadTurn
<1>7. DueOf(s, b) = SubSeq(r[p], n + 1, Len(r[p])) \o t
  BY <1>3, <1>4
<1>8. QED
  BY <1>1, <1>6, <1>7

(* A batch that is taken goes from the end of what is due to its place. *)
LEMMA DueFlushed ==
  ASSUME Flushers = {Ticker}, NEW r \in Batches, NEW s \in Batches,
         NEW b \in Seq(Records),
         r[Ticker] = <<>>, s[Ticker] = b, \A q \in Closers : s[q] = r[q],
         b = <<>> \/ \A q \in Closers : r[q] = <<>>
  PROVE  DueOf(s, <<>>) = DueOf(r, b)
<1>1. LastBatch(s) = LastBatch(r) /\ LastBatch(r) \in Seq(Records)
  BY LastBatchSame, LastBatchType
<1>2. CASE b = <<>>
  BY <1>1, <1>2 DEF DueOf
<1>3. CASE \A q \in Closers : r[q] = <<>>
  <2>1. LastBatch(r) = <<>>
    BY <1>3, LastBatchNone
  <2>2. <<>> \in Seq(Records) /\ b \o <<>> = b /\ <<>> \o b = b /\ <<>> \o <<>> = <<>>
    BY EmptySeq, ConcatEmptySeq
  <2>3. QED
    BY <1>1, <2>1, <2>2 DEF DueOf
<1>4. QED
  BY <1>2, <1>3

(* Close takes the buffer: the same records are due, in the same order. *)
LEMMA DueClosed ==
  ASSUME Flushers = {Ticker}, NEW r \in Batches, NEW s \in Batches,
         NEW b \in Seq(Records), NEW p \in Closers,
         \A q \in Closers : r[q] = <<>>,
         s[p] = b, \A q \in Writers \ {p} : s[q] = r[q]
  PROVE  DueOf(s, <<>>) = DueOf(r, b)
<1>1. LastBatch(r) = <<>>
  BY LastBatchNone
<1>2. LastBatch(s) = b
  BY LastBatchOf, TickerAlone
<1>3. s[Ticker] = r[Ticker] /\ r[Ticker] \in Seq(Records)
  BY TickerAlone DEF Batches
<1>4. r[Ticker] \o b \in Seq(Records)
  BY <1>3, ConcatProperties
<1>5. r[Ticker] \o <<>> = r[Ticker] /\ (r[Ticker] \o b) \o <<>> = r[Ticker] \o b
  BY <1>3, <1>4, ConcatEmptySeq
<1>6. QED
  BY <1>1, <1>2, <1>3, <1>5 DEF DueOf

(* An accepted record is the last that is due. *)
LEMMA DueAccepts ==
  ASSUME Flushers = {Ticker}, NEW r \in Batches, NEW b \in Seq(Records),
         NEW e \in Records
  PROVE  DueOf(r, Append(b, e)) = Append(DueOf(r, b), e)
<1> DEFINE h == r[Ticker] \o LastBatch(r)
<1>1. r[Ticker] \in Seq(Records) /\ LastBatch(r) \in Seq(Records)
  BY TickerAlone, LastBatchType DEF Batches
<1>2. h \in Seq(Records) /\ <<e>> \in Seq(Records)
  BY <1>1, ConcatProperties
<1>3. DueOf(r, Append(b, e)) = h \o Append(b, e) /\ DueOf(r, b) = h \o b
  BY DEF DueOf
<1> HIDE DEF h
<1>4. h \o b \in Seq(Records)
  BY <1>2, ConcatProperties
<1>5. Append(b, e) = b \o <<e>> /\ Append(h \o b, e) = (h \o b) \o <<e>>
  BY <1>4, AppendAsConcat
<1>6. (h \o b) \o <<e>> = h \o (b \o <<e>>)
  BY <1>2, ConcatAssociative, SMTT(30)
<1>7. QED
  BY <1>3, <1>5, <1>6

(* Nothing is due when all batches are empty. *)
LEMMA DueNothing ==
  ASSUME Flushers = {Ticker}, NEW r \in Batches, \A q \in Writers : r[q] = <<>>
  PROVE  DueOf(r, <<>>) = <<>>
<1>1. LastBatch(r) = <<>> /\ r[Ticker] = <<>>
  BY TickerAlone, LastBatchNone
<1>2. <<>> \in Seq(Records) /\ <<>> \o <<>> = <<>>
  BY EmptySeq, ConcatEmptySeq
<1>3. QED
  BY <1>1, <1>2 DEF DueOf

-----------------------------------------------------------------------------
(* The table is a log *)

WriterInv == LocalInv /\ ClosingInv

(* Who writes is first in what is due, and its sinks are open. *)
LEMMA WriterFirst ==
  ASSUME Flushers = {Ticker}, WriterInv, NEW p \in Writers, pc[p] \in Writing
  PROVE  /\ First(recs, p)
         /\ \/ p = Ticker
            \/ /\ p \in Closers /\ pc[Ticker] = "done"
               /\ \A q \in Closers \ {p} : ~Active(q)
         /\ fileState = "open"
         /\ UsePG => dbState = "open"
<1>1. /\ Ticker \in Writers /\ Writers = {Ticker} \cup Closers
      /\ \A q \in Writers : Local(q)
  BY TickerAlone DEF WriterInv, LocalInv
<1>2. CASE p = Ticker
  <2>1. pc[Ticker] # "done"
    BY <1>2 DEF Writing
  <2>2. QED
    BY <1>2, <2>1 DEF WriterInv, ClosingInv, First
<1>3. CASE p # Ticker
  <2>1. p \in Closers /\ Active(p) /\ pc[p] # "wait"
    BY <1>1, <1>3 DEF Active, Writing
  <2>2. pc[Ticker] = "done" /\ \A q \in Closers \ {p} : ~Active(q)
    BY <2>1 DEF WriterInv, ClosingInv
  <2>3. recs[Ticker] = <<>> /\ \A q \in Closers \ {p} : recs[q] = <<>>
    BY <1>1, <2>2 DEF Local, Writing, Active
  <2>4. QED
    BY <2>1, <2>2, <2>3 DEF WriterInv, ClosingInv, First
<1>4. QED
  BY <1>2, <1>3

(* The batches have not been committed until writeAll returns. *)
LEMMA UncommittedIs ==
  ASSUME LocalInv
  PROVE  Uncommitted = recs /\ recs \in Batches
<1>1. \A p \in Writers : Uncommitted[p] = recs[p]
  BY DEF Uncommitted, LocalInv, Local, Writing
<1>2. recs \in [Writers -> Seq(Records)]
  BY DEF LocalInv, TypeOK
<1>3. QED
  BY <1>1, <1>2 DEF Uncommitted, Batches

(* The uncommitted batches, after a step. *)
LEMMA UncommittedNext ==
  ASSUME LocalInv'
  PROVE  Uncommitted' = recs' /\ recs' \in Batches
<1>1. \A p \in Writers : Uncommitted'[p] = recs'[p]
  BY DEF Uncommitted, LocalInv, Local, Writing
<1>2. recs' \in [Writers -> Seq(Records)]
  BY DEF LocalInv, TypeOK
<1>3. QED
  BY <1>1, <1>2 DEF Uncommitted, Batches

TableSame == UNCHANGED <<accepted, table>> /\ dbState' = dbState /\ failed' = failed

(* A step that moves no record moves no record of the log. *)
LEMMA TableStutters ==
  ASSUME DueOf(recs', buf') = DueOf(recs, buf),
         Uncommitted = recs, Uncommitted' = recs',
         UNCHANGED <<accepted, table>>,
         UNCHANGED ("table" \in failed), UNCHANGED (dbState # "open")
  PROVE  UNCHANGED Table!vars
<1>1. UNCHANGED Due(Uncommitted)
  BY DEF Due, DueOf
<1>2. QED
  BY <1>1 DEF Table!vars

(* Write is an Accept of the table's log, or nothing to it. *)
LEMMA TableWrite ==
  ASSUME Flushers = {Ticker}, UsePG, WriterInv, LocalInv', NEW e \in Records, Write(e)
  PROVE  [Table!Next]_(Table!vars)
<1>1. /\ Uncommitted = recs /\ Uncommitted' = recs' /\ recs \in Batches
      /\ buf \in Seq(Records) /\ recs' = recs
      /\ UNCHANGED <<table, failed, dbState>>
  BY UncommittedIs, UncommittedNext DEF WriterInv, LocalInv, TypeOK, Write, sinks
<1>2. CASE Refuses
  <2>1. UNCHANGED <<buf, accepted>>
    BY <1>2 DEF Write
  <2>2. UNCHANGED Table!vars
    BY <1>1, <2>1, TableStutters
  <2>3. QED
    BY <2>2
<1>3. CASE ~Refuses
  <2>1. /\ buf' = Append(buf, e) /\ accepted' = Append(accepted, e)
        /\ e \notin Range(accepted)
    BY <1>3 DEF Write
  <2>2. dbState = "open"
    BY <1>3 DEF Refuses, WriterInv, ClosingInv
  <2>3. DueOf(recs', buf') = Append(DueOf(recs, buf), e)
    BY <1>1, <2>1, DueAccepts
  <2>4. Table!Accept(e)
    <3>1. Due(Uncommitted)' = Append(Due(Uncommitted), e)
      BY <1>1, <2>3 DEF Due, DueOf
    <3>2. e \notin Table!Range(accepted)
      BY <2>1 DEF Range, Table!Range
    <3>3. QED
      BY <1>1, <2>1, <2>2, <3>1, <3>2 DEF Table!Accept
  <2>5. QED
    BY <2>4 DEF Table!Next
<1>4. QED
  BY <1>2, <1>3

(* Flush and Close take the buffer to its place in what is due. *)
LEMMA BufferTaken ==
  ASSUME Flushers = {Ticker}, WriterInv, LocalInv', NEW p \in Writers, TakeBuffer(p),
         pc[p] = "idle", p = Ticker \/ (p \in Closers /\ ~closed)
  PROVE  DueOf(recs', buf') = DueOf(recs, buf)
<1>1. /\ recs \in Batches /\ recs' \in Batches /\ buf \in Seq(Records)
      /\ recs[p] = <<>> /\ buf' = <<>>
      /\ recs' = [recs EXCEPT ![p] = buf]
  BY UncommittedIs, UncommittedNext
  DEF WriterInv, LocalInv, TypeOK, Local, Writing, TakeBuffer
<1>2. recs'[p] = buf /\ \A q \in Writers \ {p} : recs'[q] = recs[q]
  BY <1>1 DEF Batches
<1>3. ~closed => \A q \in Closers : recs[q] = <<>>
  BY TickerAlone DEF WriterInv, ClosingInv, LocalInv, Local, Writing, Active
<1>4. CASE p = Ticker
  <2>1. buf = <<>> \/ \A q \in Closers : recs[q] = <<>>
    BY <1>3 DEF WriterInv, ClosingInv
  <2>2. \A q \in Closers : recs'[q] = recs[q]
    BY <1>2, <1>4, TickerAlone
  <2>3. DueOf(recs', <<>>) = DueOf(recs, buf)
    <3>1. recs[Ticker] = <<>> /\ recs'[Ticker] = buf
      BY <1>1, <1>2, <1>4
    <3>2. QED
      BY <1>1, <2>1, <2>2, <3>1, DueFlushed
  <2>4. QED
    BY <1>1, <2>3
<1>5. CASE p \in Closers /\ ~closed
  <2>1. DueOf(recs', <<>>) = DueOf(recs, buf)
    <3>1. /\ \A q \in Closers : recs[q] = <<>>
          /\ recs'[p] = buf /\ \A q \in Writers \ {p} : recs'[q] = recs[q]
      BY <1>2, <1>3, <1>5
    <3>2. recs \in Batches /\ recs' \in Batches /\ buf \in Seq(Records) /\ p \in Closers
      BY <1>1, <1>5
    <3> DEFINE s == recs'
    <3> HIDE DEF s
    <3>3. s \in Batches /\ s[p] = buf /\ \A q \in Writers \ {p} : s[q] = recs[q]
      BY <3>1, <3>2 DEF s
    <3>4. DueOf(s, <<>>) = DueOf(recs, buf)
      BY <3>1, <3>2, <3>3, DueClosed
    <3>5. QED
      BY <3>4 DEF s
  <2>2. QED
    BY <1>1, <2>1
<1>6. QED
  BY <1>4, <1>5

(* A transaction commits or loses the first batch. *)
LEMMA TableTransact ==
  ASSUME Flushers = {Ticker}, UsePG, WriterInv, LocalInv', NEW p \in Writers, Transact(p)
  PROVE  [Table!Next]_(Table!vars)
<1>1. /\ Uncommitted = recs /\ Uncommitted' = recs'
      /\ recs \in Batches /\ recs' \in Batches
      /\ buf \in Seq(Records) /\ recs[p] \in Seq(Records)
  BY UncommittedIs, UncommittedNext DEF WriterInv, LocalInv, TypeOK
<1>2. pc[p] = "tx" /\ recs' = [recs EXCEPT ![p] = <<>>]
      /\ UNCHANGED <<buf, accepted, dbState>>
  BY DEF Transact
<1>3. First(recs, p) /\ dbState = "open" /\ recs[p] # <<>>
  BY <1>2, WriterFirst DEF Writing, WriterInv, LocalInv, Local
<1> DEFINE n == Len(recs[p])
<1>4. n \in 1 .. Len(recs[p])
  <2>1. Len(recs[p]) \in Nat \ {0}
    BY <1>1, <1>3, EmptySeq
  <2>2. QED
    BY <2>1
<1>5. SubSeq(recs[p], n + 1, Len(recs[p])) = <<>> /\ SubSeq(recs[p], 1, n) = recs[p]
  <2>1. n \in Nat /\ n + 1 \in Int /\ n < n + 1
    BY <1>1, LenProperties
  <2>2. QED
    BY <1>1, <2>1, SubSeqEmpty, SubSeqFull
<1>6. recs'[p] = <<>> /\ \A q \in Writers \ {p} : recs'[q] = recs[q]
  BY <1>1, <1>2 DEF Batches
<1>7. recs'[p] = SubSeq(recs[p], n + 1, Len(recs[p]))
  BY <1>5, <1>6
<1> DEFINE D == DueOf(recs, buf)
           E == DueOf(recs', buf')
<1>8. n \in 1 .. Len(D) /\ SubSeq(D, 1, n) = recs[p] /\ E = SubSeq(D, n + 1, Len(D))
  <2> HIDE DEF n
  <2>1. /\ n \in 1 .. Len(DueOf(recs, buf))
        /\ SubSeq(DueOf(recs, buf), 1, n) = SubSeq(recs[p], 1, n)
        /\ DueOf(recs', buf) = SubSeq(DueOf(recs, buf), n + 1, Len(DueOf(recs, buf)))
    <3> HIDE DEF D, E
    <3> DEFINE s == recs'
               b == buf
    <3>1. /\ s \in Batches /\ b \in Seq(Records) /\ First(recs, p)
          /\ \A q \in Writers \ {p} : s[q] = recs[q]
          /\ n \in 1 .. Len(recs[p]) /\ s[p] = SubSeq(recs[p], n + 1, Len(recs[p]))
      BY <1>1, <1>3, <1>4, <1>6, <1>7
    <3>2. recs \in Batches
      BY <1>1
    <3> HIDE DEF s, b
    <3>3. /\ n \in 1 .. Len(DueOf(recs, b))
          /\ SubSeq(DueOf(recs, b), 1, n) = SubSeq(recs[p], 1, n)
          /\ DueOf(s, b) = SubSeq(DueOf(recs, b), n + 1, Len(DueOf(recs, b)))
      BY <3>1, <3>2, DueTurns
    <3>4. QED
      BY <3>3 DEF s, b
  <2>2. QED
    BY <1>2, <1>5, <2>1
<1>9. Due(Uncommitted) = D /\ Due(Uncommitted)' = E
  BY <1>1 DEF Due, DueOf
<1> HIDE DEF D, E, n
<1>10. CASE table' = table \o recs[p] /\ UNCHANGED failed
  <2>1. Table!Put(n)
    BY <1>2, <1>8, <1>9, <1>10 DEF Table!Put, Table!Turn
  <2>2. n \in 1 .. Len(Due(Uncommitted))
    BY <1>8, <1>9
  <2>3. QED
    BY <2>1, <2>2 DEF Table!Next
<1>11. CASE PGFails /\ failed' = failed \cup {"table"} /\ UNCHANGED table
  <2>1. Table!Lose(n)
    BY <1>2, <1>8, <1>9, <1>11 DEF Table!Lose, Table!Turn
  <2>2. n \in 1 .. Len(Due(Uncommitted))
    BY <1>8, <1>9
  <2>3. QED
    BY <2>1, <2>2 DEF Table!Next
<1>12. QED
  BY <1>3, <1>10, <1>11 DEF Transact

(* Closing the database seals the log when nothing is due. *)
LEMMA NothingDue ==
  ASSUME Flushers = {Ticker}, WriterInv, NEW p \in Closers, Active(p),
         pc[p] \notin Writing \cup {"wait"}
  PROVE  /\ buf = <<>> /\ \A q \in Writers : recs[q] = <<>>
         /\ DueOf(recs, buf) = <<>>
<1>1. /\ closed /\ buf = <<>> /\ pc[Ticker] = "done"
      /\ \A q \in Closers \ {p} : ~Active(q)
  BY DEF WriterInv, ClosingInv
<1>2. \A q \in Writers : recs[q] = <<>>
  BY <1>1, TickerAlone DEF WriterInv, LocalInv, Local, Writing, Active
<1>3. recs \in Batches
  BY UncommittedIs DEF WriterInv
<1>4. DueOf(recs, <<>>) = <<>>
  BY <1>2, <1>3, DueNothing
<1>5. QED
  BY <1>1, <1>2, <1>4

(* A step of a writer is a step of the table's log, or nothing to it. *)
LEMMA TableStep ==
  ASSUME Flushers = {Ticker}, UsePG, WriterInv, LocalInv', NEW p \in Writers, Acts(p)
  PROVE  [Table!Next]_(Table!vars)
<1>1. /\ Uncommitted = recs /\ Uncommitted' = recs'
      /\ recs \in Batches /\ recs' \in Batches
  BY UncommittedIs, UncommittedNext DEF WriterInv
<1>2. p = Ticker \/ (p \in Closers /\ p \notin Flushers)
  BY TickerAlone
<1>a. ASSUME UNCHANGED <<recs, buf, accepted, table>>,
             UNCHANGED ("table" \in failed), UNCHANGED (dbState # "open")
      PROVE  [Table!Next]_(Table!vars)
  <2>1. DueOf(recs', buf') = DueOf(recs, buf)
    BY <1>a
  <2>2. UNCHANGED Table!vars
    BY <1>1, <1>a, <2>1, TableStutters
  <2>3. QED
    BY <2>2
<1>3. CASE p \in Flushers /\ Flush(p)
  <2>1. /\ p = Ticker /\ TakeBuffer(p) /\ pc[p] = "idle"
        /\ UNCHANGED <<accepted, table, failed, dbState>>
    BY <1>3 DEF Flush, sinks
  <2>2. DueOf(recs', buf') = DueOf(recs, buf)
    BY <2>1, BufferTaken
  <2>3. UNCHANGED Table!vars
    BY <1>1, <2>1, <2>2, TableStutters
  <2>4. QED
    BY <2>3
<1>4. CASE p \in Closers /\ Close(p)
  <2>1. UNCHANGED <<accepted, table, failed, dbState>> /\ pc[p] = "idle"
    BY <1>4 DEF Close, sinks
  <2>2. CASE closed
    <3>1. UNCHANGED <<recs, buf>>
      BY <1>4, <2>2 DEF Close
    <3>2. QED
      BY <1>a, <2>1, <3>1
  <2>3. CASE ~closed
    <3>1. TakeBuffer(p)
      BY <1>4, <2>3 DEF Close
    <3>2. DueOf(recs', buf') = DueOf(recs, buf)
      BY <1>4, <2>1, <2>3, <3>1, BufferTaken
    <3>3. UNCHANGED Table!vars
      BY <1>1, <2>1, <3>2, TableStutters
    <3>4. QED
      BY <3>3
  <2>4. QED
    BY <2>2, <2>3
<1>5. CASE Transact(p)
  BY <1>5, TableTransact
<1>6. CASE Encode(p)
  <2>1. UNCHANGED <<recs, buf, accepted, table, dbState>>
    BY <1>6 DEF Encode
  <2>2. failed' = failed \/ failed' = failed \cup {"file"}
    BY <1>6 DEF Encode
  <2>3. UNCHANGED ("table" \in failed)
    BY <2>2
  <2>4. QED
    BY <1>a, <2>1, <2>3
<1>7. CASE CheckPG(p)
  <2>1. dbState = "open"
    BY <1>7, WriterFirst DEF CheckPG, Writing
  <2>2. UNCHANGED <<recs, buf, accepted, table, dbState, failed>>
    BY <1>7, <2>1 DEF CheckPG, sinks
  <2>3. QED
    BY <1>a, <2>2
<1>8. CASE LoopReturns \/ CheckFile(p) \/ StopFlusher(p) \/ WaitReturns(p)
  <2>1. UNCHANGED <<recs, buf, accepted, table, dbState, failed>>
    BY <1>8 DEF LoopReturns, CheckFile, StopFlusher, WaitReturns, sinks
  <2>2. QED
    BY <1>a, <2>1
<1>9. CASE CloseFile(p)
  <2>1. UNCHANGED <<recs, buf, accepted, table, dbState, failed>>
    BY <1>9 DEF CloseFile
  <2>2. QED
    BY <1>a, <2>1
<1>10. CASE p \in Closers /\ CloseDB(p)
  <2>1. UNCHANGED <<recs, buf, accepted, table, failed>>
    BY <1>10 DEF CloseDB
  <2>2. CASE pc[p] = "closeDB" /\ dbState' = "closed"
    <3>1. dbState = "open"
      BY <1>10, <2>2 DEF WriterInv, ClosingInv
    <3>2. DueOf(recs, buf) = <<>>
      <4>1. Active(p) /\ pc[p] \notin Writing \cup {"wait"}
        BY <2>2 DEF Active, Writing
      <4>2. QED
        BY <1>10, <4>1, NothingDue
    <3>3. Due(Uncommitted) = <<>> /\ Due(Uncommitted)' = Due(Uncommitted)
      BY <1>1, <2>1, <3>2 DEF Due, DueOf
    <3>4. Table!Seal
      BY <2>1, <2>2, <3>1, <3>3 DEF Table!Seal
    <3>5. QED
      BY <3>4 DEF Table!Next
  <2>3. CASE pc[p] = "nilDB" /\ dbState' = "nil"
    <3>1. CASE dbState # "open"
      <4>1. UNCHANGED (dbState # "open")
        BY <2>3, <3>1
      <4>2. QED
        BY <1>a, <2>1, <4>1
    <3>2. CASE dbState = "open"
      <4>1. DueOf(recs, buf) = <<>>
        <5>1. Active(p) /\ pc[p] \notin Writing \cup {"wait"}
          BY <2>3 DEF Active, Writing
        <5>2. QED
          BY <1>10, <5>1, NothingDue
      <4>2. Due(Uncommitted) = <<>> /\ Due(Uncommitted)' = Due(Uncommitted)
        BY <1>1, <2>1, <4>1 DEF Due, DueOf
      <4>3. Table!Seal
        BY <2>1, <2>3, <3>2, <4>2 DEF Table!Seal
      <4>4. QED
        BY <4>3 DEF Table!Next
    <3>3. QED
      BY <3>1, <3>2
  <2>4. QED
    BY <1>10, <2>2, <2>3 DEF CloseDB
<1>11. QED
  BY <1>3, <1>4, <1>5, <1>6, <1>7, <1>8, <1>9, <1>10 DEF Acts, WriteAll, CloseStep

(* The two invariants hold together. *)
LEMMA WriterInvInit == Init => WriterInv
<1> SUFFICES ASSUME Init PROVE WriterInv
  OBVIOUS
<1>1. LocalInv
  BY LocalInit
<1>2. /\ closed = FALSE /\ stopping = FALSE /\ fileState = "open"
      /\ UsePG => dbState = "open"
      /\ \A p \in Closers : pc[p] = "idle"
  BY DEF Init, Writers
<1>3. ClosingInv
  BY <1>2 DEF ClosingInv, Active
<1>4. QED
  BY <1>1, <1>3 DEF WriterInv

(* With the ticker as the only flusher, PostgreSQL's table is a Log.       *)
THEOREM TableRefines ==
  ASSUME Flushers = {Ticker}, UsePG
  PROVE  Spec => TableIsLog
<1>1. Init => Table!Init
  <2> SUFFICES ASSUME Init PROVE Table!Init
    OBVIOUS
  <2>1. WriterInv
    BY WriterInvInit
  <2>2. /\ Uncommitted = recs /\ recs \in Batches /\ buf = <<>>
        /\ \A p \in Writers : recs[p] = <<>>
    BY <2>1, UncommittedIs DEF WriterInv, Init
  <2>3. Due(Uncommitted) = <<>>
    <3>1. DueOf(recs, <<>>) = <<>>
      BY <2>2, DueNothing
    <3>2. QED
      BY <2>2, <3>1 DEF Due, DueOf
  <2>4. QED
    BY <2>3 DEF Init, Table!Init
<1>2. LocalInv /\ LocalInv' /\ ClosingInv /\ [Next]_vars => [Table!Next]_(Table!vars)
  <2> SUFFICES ASSUME LocalInv, LocalInv', ClosingInv, [Next]_vars
               PROVE  [Table!Next]_(Table!vars)
    OBVIOUS
  <2>1. WriterInv
    BY DEF WriterInv
  <2>2. CASE \E r \in Records : Write(r)
    BY <2>1, <2>2, TableWrite
  <2>3. CASE \E p \in Writers : Acts(p)
    BY <2>1, <2>3, TableStep
  <2>4. CASE UNCHANGED vars
    <3>1. /\ UNCHANGED <<recs, buf, accepted, table, dbState, failed>>
          /\ Uncommitted = recs /\ Uncommitted' = recs'
      BY <2>4, UncommittedIs, UncommittedNext DEF vars, sinks
    <3>2. DueOf(recs', buf') = DueOf(recs, buf)
      BY <3>1
    <3>3. UNCHANGED Table!vars
      BY <3>1, <3>2, TableStutters
    <3>4. QED
      BY <3>3
  <2>5. QED
    BY <2>2, <2>3, <2>4, Actors
<1>3. Init => ClosingInv
  BY WriterInvInit DEF WriterInv
<1>4. LocalInv /\ ClosingInv /\ [Next]_vars => ClosingInv'
  BY ClosingStep
<1>5. QED
  BY <1>1, <1>2, <1>3, <1>4, LocalHolds, PTL DEF Spec, TableIsLog, Table!Spec

-----------------------------------------------------------------------------
(* The file is a log *)

(* What is left of a batch, by where its goroutine is. *)
LEMMA UnwrittenIs ==
  ASSUME LocalInv
  PROVE  /\ Unwritten \in Batches
         /\ \A p \in Writers :
              /\ pc[p] \in {"wait", "write"} => Unwritten[p] = recs[p]
              /\ pc[p] = "encode" => Unwritten[p] = SubSeq(recs[p], pos[p], Len(recs[p]))
              /\ pc[p] \notin {"wait", "write", "encode"} => Unwritten[p] = <<>>
<1> SUFFICES ASSUME NEW p \in Writers
             PROVE  /\ Unwritten[p] \in Seq(Records)
                    /\ pc[p] \in {"wait", "write"} => Unwritten[p] = recs[p]
                    /\ pc[p] = "encode"
                         => Unwritten[p] = SubSeq(recs[p], pos[p], Len(recs[p]))
                    /\ pc[p] \notin {"wait", "write", "encode"} => Unwritten[p] = <<>>
  BY DEF Unwritten, Batches
<1>1. recs[p] \in Seq(Records) /\ pos[p] \in Nat \ {0} /\ Local(p)
  BY DEF LocalInv, TypeOK
<1>2. CASE pc[p] \in {"wait", "write"}
  <2>1. Unwritten[p] = SubSeq(recs[p], 1, Len(recs[p]))
    BY <1>1, <1>2 DEF Unwritten, Local
  <2>2. QED
    BY <1>1, <1>2, <2>1, SubSeqFull
<1>3. CASE pc[p] = "encode"
  <2>1. Unwritten[p] = SubSeq(recs[p], pos[p], Len(recs[p]))
    BY <1>3 DEF Unwritten
  <2>2. pos[p] \in 1 .. Len(recs[p])
    BY <1>1, <1>3, LenProperties DEF Local
  <2>3. SubSeq(recs[p], pos[p], Len(recs[p])) \in Seq(Records)
    BY <1>1, <2>2, RestOfBatch
  <2>4. QED
    BY <1>3, <2>1, <2>3
<1>4. CASE pc[p] \notin {"wait", "write", "encode"}
  BY <1>4, EmptySeq DEF Unwritten
<1>5. QED
  BY <1>2, <1>3, <1>4

(* The unwritten rests, after a step. *)
LEMMA UnwrittenNext ==
  ASSUME LocalInv'
  PROVE  /\ Unwritten' \in Batches
         /\ \A p \in Writers :
              /\ pc'[p] \in {"wait", "write"} => Unwritten'[p] = recs'[p]
              /\ pc'[p] = "encode"
                   => Unwritten'[p] = SubSeq(recs'[p], pos'[p], Len(recs'[p]))
              /\ pc'[p] \notin {"wait", "write", "encode"} => Unwritten'[p] = <<>>
<1> SUFFICES ASSUME NEW p \in Writers
             PROVE  /\ Unwritten'[p] \in Seq(Records)
                    /\ pc'[p] \in {"wait", "write"} => Unwritten'[p] = recs'[p]
                    /\ pc'[p] = "encode"
                         => Unwritten'[p] = SubSeq(recs'[p], pos'[p], Len(recs'[p]))
                    /\ pc'[p] \notin {"wait", "write", "encode"} => Unwritten'[p] = <<>>
  BY DEF Unwritten, Batches
<1>1. recs'[p] \in Seq(Records) /\ pos'[p] \in Nat \ {0} /\ Local(p)'
  BY DEF LocalInv, TypeOK
<1>2. CASE pc'[p] \in {"wait", "write"}
  <2>1. Unwritten'[p] = SubSeq(recs'[p], 1, Len(recs'[p]))
    BY <1>1, <1>2 DEF Unwritten, Local
  <2>2. QED
    BY <1>1, <1>2, <2>1, SubSeqFull
<1>3. CASE pc'[p] = "encode"
  <2>1. Unwritten'[p] = SubSeq(recs'[p], pos'[p], Len(recs'[p]))
    BY <1>3 DEF Unwritten
  <2>2. pos'[p] \in 1 .. Len(recs'[p])
    BY <1>1, <1>3, LenProperties DEF Local
  <2>3. SubSeq(recs'[p], pos'[p], Len(recs'[p])) \in Seq(Records)
    BY <1>1, <2>2, RestOfBatch
  <2>4. QED
    BY <1>3, <2>1, <2>3
<1>4. CASE pc'[p] \notin {"wait", "write", "encode"}
  BY <1>4, EmptySeq DEF Unwritten
<1>5. QED
  BY <1>2, <1>3, <1>4

(* A step changes what is left of its own batch only. *)
LEMMA OtherUnwritten ==
  ASSUME LocalInv, NEW p \in Writers, Acts(p)
  PROVE  \A q \in Writers \ {p} : Unwritten'[q] = Unwritten[q]
<1>1. PICK a \in PCs, b \in Seq(Records), i \in Nat \ {0} :
        /\ pc' = [pc EXCEPT ![p] = a] /\ recs' = [recs EXCEPT ![p] = b]
        /\ pos' = [pos EXCEPT ![p] = i]
  BY StepOfBatch
<1>2. /\ pc \in [Writers -> PCs] /\ recs \in [Writers -> Seq(Records)]
      /\ pos \in [Writers -> Nat \ {0}]
  BY DEF LocalInv, TypeOK
<1>3. \A q \in Writers \ {p} : pc'[q] = pc[q] /\ recs'[q] = recs[q] /\ pos'[q] = pos[q]
  BY <1>1, <1>2
<1>4. QED
  BY <1>3 DEF Unwritten

(* Who writes is first in what is left for the file, too. *)
LEMMA EncoderFirst ==
  ASSUME Flushers = {Ticker}, WriterInv, NEW p \in Writers, pc[p] \in Writing
  PROVE  First(Unwritten, p)
<1>1. \/ p = Ticker
      \/ /\ p \in Closers /\ pc[Ticker] = "done"
         /\ \A q \in Closers \ {p} : ~Active(q)
  BY WriterFirst
<1>2. \A q \in Writers : pc[q] \in {"idle", "done"} => Unwritten[q] = <<>>
  BY UnwrittenIs DEF WriterInv
<1>3. QED
  BY <1>1, <1>2, TickerAlone DEF First, Active

(* What leaves the file, its state and the due records alone is nothing to its log. *)
LEMMA FileStutters ==
  ASSUME DueOf(Unwritten', buf') = DueOf(Unwritten, buf),
         UNCHANGED <<accepted, file>>,
         UNCHANGED ("file" \in failed), UNCHANGED (fileState # "open")
  PROVE  UNCHANGED File!vars
<1>1. UNCHANGED Due(Unwritten)
  BY DEF Due, DueOf
<1>2. QED
  BY <1>1 DEF File!vars

(* Write is an Accept of the file's log, or nothing to it. *)
LEMMA FileWrite ==
  ASSUME Flushers = {Ticker}, WriterInv, NEW e \in Records, Write(e)
  PROVE  [File!Next]_(File!vars)
<1>1. /\ Unwritten \in Batches /\ Unwritten' = Unwritten
      /\ UNCHANGED <<file, failed, fileState>>
  BY UnwrittenIs DEF WriterInv, Write, sinks, Unwritten
<1>2. buf \in Seq(Records)
  BY DEF WriterInv, LocalInv, TypeOK
<1>3. CASE Refuses
  <2>1. UNCHANGED <<buf, accepted>>
    BY <1>3 DEF Write
  <2>2. UNCHANGED File!vars
    BY <1>1, <2>1, FileStutters
  <2>3. QED
    BY <2>2
<1>4. CASE ~Refuses
  <2>1. /\ buf' = Append(buf, e) /\ accepted' = Append(accepted, e)
        /\ e \notin Range(accepted)
    BY <1>4 DEF Write
  <2>2. fileState = "open"
    BY <1>4 DEF Refuses, WriterInv, ClosingInv
  <2>3. DueOf(Unwritten', buf') = Append(DueOf(Unwritten, buf), e)
    BY <1>1, <1>2, <2>1, DueAccepts
  <2>4. Due(Unwritten)' = Append(Due(Unwritten), e)
    BY <2>3 DEF Due, DueOf
  <2>5. e \notin File!Range(accepted)
    BY <2>1 DEF Range, File!Range
  <2>6. File!Accept(e)
    BY <1>1, <2>1, <2>2, <2>4, <2>5 DEF File!Accept
  <2>7. QED
    BY <2>6 DEF File!Next
<1>5. QED
  BY <1>3, <1>4

(* The buffer is taken to its place in what is left for the file. *)
LEMMA BufferLeft ==
  ASSUME Flushers = {Ticker}, WriterInv, LocalInv', NEW p \in Writers,
         Acts(p), TakeBuffer(p), pc[p] = "idle",
         Unwritten'[p] = buf, p = Ticker \/ (p \in Closers /\ ~closed)
  PROVE  DueOf(Unwritten', buf') = DueOf(Unwritten, buf)
<1>1. /\ Unwritten \in Batches /\ Unwritten' \in Batches /\ buf \in Seq(Records)
      /\ Unwritten[p] = <<>> /\ buf' = <<>>
  BY UnwrittenIs, UnwrittenNext DEF WriterInv, LocalInv, TypeOK, TakeBuffer
<1>2. \A q \in Writers \ {p} : Unwritten'[q] = Unwritten[q]
  BY OtherUnwritten DEF WriterInv
<1>3. ~closed => \A q \in Closers : Unwritten[q] = <<>>
  BY TickerAlone, UnwrittenIs DEF WriterInv, ClosingInv, Active
<1>4. CASE p = Ticker
  <2>1. buf = <<>> \/ \A q \in Closers : Unwritten[q] = <<>>
    BY <1>3 DEF WriterInv, ClosingInv
  <2>2. \A q \in Closers : Unwritten'[q] = Unwritten[q]
    BY <1>2, <1>4, TickerAlone
  <2>3. DueOf(Unwritten', <<>>) = DueOf(Unwritten, buf)
    <3>1. Unwritten[Ticker] = <<>> /\ Unwritten'[Ticker] = buf
      BY <1>1, <1>4
    <3>2. QED
      BY <1>1, <2>1, <2>2, <3>1, DueFlushed
  <2>4. QED
    BY <1>1, <2>3
<1>5. CASE p \in Closers /\ ~closed
  <2>1. DueOf(Unwritten', <<>>) = DueOf(Unwritten, buf)
    BY <1>1, <1>2, <1>3, <1>5, DueClosed
  <2>2. QED
    BY <1>1, <2>1
<1>6. QED
  BY <1>4, <1>5

(* One Encode writes the first record that is left, or loses the batch. *)
LEMMA FileEncode ==
  ASSUME Flushers = {Ticker}, WriterInv, LocalInv', NEW p \in Writers, Encode(p)
  PROVE  [File!Next]_(File!vars)
<1> DEFINE s == recs[p]
           i == pos[p]
           u == SubSeq(s, i, Len(s))
           D == DueOf(Unwritten, buf)
           E == DueOf(Unwritten', buf')
<1>1. /\ pc[p] = "encode" /\ fileState = "open"
      /\ UNCHANGED <<buf, recs, accepted, fileState>>
  BY WriterFirst DEF Encode, Writing
<1>2. /\ s \in Seq(Records) /\ i \in 1 .. Len(s) /\ buf \in Seq(Records)
      /\ file \in Seq(Records)
      /\ pc \in [Writers -> PCs] /\ pos \in [Writers -> Nat \ {0}]
  <2>1. /\ s \in Seq(Records) /\ i \in Nat \ {0} /\ i <= Len(s)
        /\ pc \in [Writers -> PCs] /\ pos \in [Writers -> Nat \ {0}]
        /\ buf \in Seq(Records) /\ file \in Seq(Records)
    BY <1>1 DEF WriterInv, LocalInv, Local, TypeOK
  <2>2. QED
    BY <2>1, LenProperties
<1>3. /\ Unwritten \in Batches /\ Unwritten' \in Batches
      /\ Unwritten[p] = u
      /\ pc'[p] = "encode" => Unwritten'[p] = SubSeq(s, pos'[p], Len(s))
      /\ pc'[p] = "pg" => Unwritten'[p] = <<>>
  BY <1>1, UnwrittenIs, UnwrittenNext DEF WriterInv
<1>4. First(Unwritten, p) /\ \A q \in Writers \ {p} : Unwritten'[q] = Unwritten[q]
  BY <1>1, EncoderFirst, OtherUnwritten DEF Writing, Acts, WriteAll, WriterInv
<1>5. /\ u \in Seq(Records) /\ 1 \in 1 .. Len(u)
      /\ SubSeq(u, 1, 1) = <<s[i]>>
      /\ SubSeq(u, 2, Len(u)) = SubSeq(s, i + 1, Len(s))
  BY <1>2, RestOfBatch
<1>6. Due(Unwritten) = D /\ Due(Unwritten)' = E
  BY DEF Due, DueOf
<1>t. ASSUME NEW n \in 1 .. Len(Unwritten[p]),
             Unwritten'[p] = SubSeq(Unwritten[p], n + 1, Len(Unwritten[p]))
      PROVE  /\ n \in 1 .. Len(D)
             /\ SubSeq(D, 1, n) = SubSeq(Unwritten[p], 1, n)
             /\ E = SubSeq(D, n + 1, Len(D))
  <2> DEFINE r == Unwritten
             v == Unwritten'
  <2>1. /\ r \in Batches /\ v \in Batches /\ buf \in Seq(Records) /\ buf' = buf
        /\ First(r, p) /\ \A q \in Writers \ {p} : v[q] = r[q]
        /\ n \in 1 .. Len(r[p]) /\ v[p] = SubSeq(r[p], n + 1, Len(r[p]))
    BY <1>1, <1>2, <1>3, <1>4, <1>t
  <2>2. D = DueOf(r, buf) /\ E = DueOf(v, buf)
    BY <2>1
  <2> HIDE DEF r, v, D, E
  <2>3. /\ n \in 1 .. Len(DueOf(r, buf))
        /\ SubSeq(DueOf(r, buf), 1, n) = SubSeq(r[p], 1, n)
        /\ DueOf(v, buf) = SubSeq(DueOf(r, buf), n + 1, Len(DueOf(r, buf)))
    BY <2>1, DueTurns
  <2>4. QED
    BY <2>2, <2>3 DEF r
<1>7. CASE /\ file' = Append(file, s[i])
           /\ pos' = [pos EXCEPT ![p] = @ + 1]
           /\ pc' = [pc EXCEPT ![p] = IF pos[p] = Len(recs[p]) THEN "pg" ELSE @]
           /\ UNCHANGED failed
  <2>1. Unwritten'[p] = SubSeq(s, i + 1, Len(s))
    <3>1. CASE i = Len(s)
      <4>1. pc'[p] = "pg"
        BY <1>2, <1>7, <3>1
      <4>2. SubSeq(s, i + 1, Len(s)) = <<>>
        <5>1. Len(s) \in Int /\ i + 1 \in Int /\ Len(s) < i + 1
          BY <1>2, <3>1, LenProperties
        <5>2. QED
          BY <5>1, SubSeqEmpty
      <4>3. QED
        BY <1>3, <4>1, <4>2
    <3>2. CASE i # Len(s)
      <4>1. pc'[p] = "encode" /\ pos'[p] = i + 1
        BY <1>1, <1>2, <1>7, <3>2
      <4>2. QED
        BY <1>3, <4>1
    <3>3. QED
      BY <3>1, <3>2
  <2>2. file' = file \o <<s[i]>>
    <3>1. s[i] \in Records
      BY <1>2, ElementOfSeq
    <3>2. QED
      BY <1>2, <1>7, <3>1, AppendAsConcat
  <2>3. /\ 1 \in 1 .. Len(Unwritten[p])
        /\ Unwritten'[p] = SubSeq(Unwritten[p], 1 + 1, Len(Unwritten[p]))
    <3> HIDE DEF u, s, i
    <3>1. 1 + 1 = 2
      OBVIOUS
    <3>2. SubSeq(u, 1 + 1, Len(u)) = SubSeq(s, i + 1, Len(s))
      BY <1>5, <3>1
    <3>3. QED
      BY <1>3, <1>5, <2>1, <3>2
  <2>4. 1 \in 1 .. Len(D) /\ SubSeq(D, 1, 1) = <<s[i]>> /\ E = SubSeq(D, 1 + 1, Len(D))
    <3> HIDE DEF u, s, i, D, E
    <3>1. /\ 1 \in 1 .. Len(D)
          /\ SubSeq(D, 1, 1) = SubSeq(Unwritten[p], 1, 1)
          /\ E = SubSeq(D, 1 + 1, Len(D))
      BY <1>t, <2>3
    <3>2. QED
      BY <1>3, <1>5, <3>1
  <2> HIDE DEF u, s, i
  <2>5. 1 \in 1 .. Len(D) /\ SubSeq(D, 1, 1) = <<s[i]>> /\ E = SubSeq(D, 1 + 1, Len(D))
    BY <2>4
  <2> HIDE DEF D, E
  <2>6. File!Put(1)
    BY <1>1, <1>6, <1>7, <2>2, <2>5 DEF File!Put, File!Turn
  <2>7. 1 \in 1 .. Len(Due(Unwritten))
    BY <1>6, <2>5
  <2>8. QED
    BY <2>6, <2>7 DEF File!Next
<1>8. CASE /\ FileFails /\ failed' = failed \cup {"file"}
           /\ pc' = [pc EXCEPT ![p] = AfterError(p)]
           /\ UNCHANGED <<file, pos>>
  <2> DEFINE n == Len(u)
  <2>1. pc'[p] = "pg"
    BY <1>2, <1>8 DEF AfterError
  <2>2. Unwritten'[p] = <<>>
    BY <1>3, <2>1
  <2>3. n \in 1 .. Len(Unwritten[p]) /\ SubSeq(u, n + 1, Len(u)) = <<>>
    <3> HIDE DEF u
    <3>1. u \in Seq(Records) /\ n \in Nat /\ n >= 1
      BY <1>5, LenProperties
    <3> HIDE DEF n
    <3>2. n = Len(u)
      BY DEF n
    <3>3. n \in 1 .. n /\ n + 1 \in Int /\ n \in Int /\ n < n + 1
      BY <3>1
    <3>4. n \in 1 .. Len(u) /\ SubSeq(u, n + 1, Len(u)) = <<>>
      BY <3>1, <3>2, <3>3, SubSeqEmpty
    <3>5. QED
      BY <1>3, <3>4
  <2> HIDE DEF n, u, s, i
  <2>4. Unwritten'[p] = SubSeq(Unwritten[p], n + 1, Len(Unwritten[p]))
    BY <1>3, <2>2, <2>3
  <2> HIDE DEF D, E
  <2>6. n \in 1 .. Len(D) /\ E = SubSeq(D, n + 1, Len(D))
    BY <1>t, <2>3, <2>4
  <2>7. File!Lose(n)
    BY <1>1, <1>6, <1>8, <2>6 DEF File!Lose, File!Turn
  <2>8. n \in 1 .. Len(Due(Unwritten))
    BY <1>6, <2>6
  <2>9. QED
    BY <2>7, <2>8 DEF File!Next
<1>9. QED
  BY <1>1, <1>7, <1>8 DEF Encode

(* A step of a writer is a step of the file's log, or nothing to it. *)
LEMMA FileStep ==
  ASSUME Flushers = {Ticker}, WriterInv, LocalInv', NEW p \in Writers, Acts(p)
  PROVE  [File!Next]_(File!vars)
<1>1. /\ Unwritten \in Batches /\ Unwritten' \in Batches
      /\ \A q \in Writers \ {p} : Unwritten'[q] = Unwritten[q]
      /\ pc \in [Writers -> PCs] /\ recs \in [Writers -> Seq(Records)]
      /\ Local(p)
  BY UnwrittenIs, UnwrittenNext, OtherUnwritten DEF WriterInv, LocalInv, TypeOK
<1>2. /\ pc[p] \in {"wait", "write"} => Unwritten[p] = recs[p]
      /\ pc'[p] \in {"wait", "write"} => Unwritten'[p] = recs'[p]
      /\ pc'[p] = "encode" => Unwritten'[p] = SubSeq(recs'[p], pos'[p], Len(recs'[p]))
      /\ pc[p] \notin {"wait", "write", "encode"} => Unwritten[p] = <<>>
      /\ pc'[p] \notin {"wait", "write", "encode"} => Unwritten'[p] = <<>>
  BY UnwrittenIs, UnwrittenNext DEF WriterInv
<1>3. p = Ticker \/ (p \in Closers /\ p \notin Flushers)
  BY TickerAlone
<1>a. ASSUME Unwritten'[p] = Unwritten[p], UNCHANGED <<buf, accepted, file>>,
             UNCHANGED ("file" \in failed), UNCHANGED (fileState # "open")
      PROVE  [File!Next]_(File!vars)
  <2>1. Unwritten' = Unwritten
    BY <1>1, <1>a DEF Batches
  <2>2. DueOf(Unwritten', buf') = DueOf(Unwritten, buf)
    BY <1>a, <2>1
  <2>3. UNCHANGED File!vars
    BY <1>a, <2>2, FileStutters
  <2>4. QED
    BY <2>3
<1>4. CASE p \in Flushers /\ Flush(p)
  <2>1. /\ p = Ticker /\ TakeBuffer(p) /\ pc[p] = "idle"
        /\ UNCHANGED <<accepted, file, failed, fileState>>
        /\ recs'[p] = buf
        /\ pc'[p] = IF buf = <<>> THEN "idle" ELSE "write"
    BY <1>1, <1>4 DEF Flush, TakeBuffer, sinks
  <2>2. Unwritten'[p] = buf
    BY <1>2, <2>1
  <2>3. DueOf(Unwritten', buf') = DueOf(Unwritten, buf)
    BY <2>1, <2>2, BufferLeft
  <2>4. UNCHANGED File!vars
    BY <2>1, <2>3, FileStutters
  <2>5. QED
    BY <2>4
<1>5. CASE p \in Closers /\ Close(p)
  <2>1. UNCHANGED <<accepted, file, failed, fileState>> /\ pc[p] = "idle"
    BY <1>5 DEF Close, sinks
  <2>2. CASE closed
    <3>1. UNCHANGED <<recs, buf>> /\ pc'[p] = "done"
      BY <1>1, <1>5, <2>2 DEF Close
    <3>2. Unwritten'[p] = Unwritten[p]
      BY <1>2, <2>1, <3>1
    <3>3. QED
      BY <1>a, <2>1, <3>1, <3>2
  <2>3. CASE ~closed
    <3>1. TakeBuffer(p) /\ pc'[p] = "wait" /\ recs'[p] = buf
      BY <1>1, <1>5, <2>3 DEF Close, TakeBuffer
    <3>2. Unwritten'[p] = buf
      BY <1>2, <3>1
    <3>3. DueOf(Unwritten', buf') = DueOf(Unwritten, buf)
      BY <1>5, <2>1, <2>3, <3>1, <3>2, BufferLeft
    <3>4. UNCHANGED File!vars
      BY <2>1, <3>3, FileStutters
    <3>5. QED
      BY <3>4
  <2>4. QED
    BY <2>2, <2>3
<1>6. CASE Encode(p)
  BY <1>6, FileEncode
<1>7. CASE CheckFile(p)
  <2>1. fileState = "open" /\ pc[p] = "write"
    BY <1>7, WriterFirst DEF CheckFile, Writing
  <2>2. UNCHANGED <<recs, pos, buf, accepted, file, failed, fileState>> /\ pc'[p] = "encode"
    BY <1>1, <1>7, <2>1 DEF CheckFile, sinks
  <2>3. SubSeq(recs[p], 1, Len(recs[p])) = recs[p] /\ pos[p] = 1
    BY <1>1, <2>1, SubSeqFull DEF Local
  <2>4. Unwritten'[p] = Unwritten[p]
    BY <1>2, <2>1, <2>2, <2>3
  <2>5. QED
    BY <1>a, <2>2, <2>4
<1>8. CASE CheckPG(p) \/ Transact(p)
  <2>1. UNCHANGED <<buf, accepted, file, fileState>> /\ pc[p] \in {"pg", "tx"}
    BY <1>8 DEF CheckPG, Transact, sinks
  <2>2. failed' = failed \/ failed' = failed \cup {"table"}
    BY <1>8 DEF CheckPG, Transact
  <2>3. UNCHANGED ("file" \in failed)
    BY <2>2
  <2>4. pc'[p] \in {"idle", "closeFile", "tx"}
    <3>1. \/ pc' = [pc EXCEPT ![p] = Returned(p)]
          \/ pc' = [pc EXCEPT ![p] = "tx"]
      BY <1>8 DEF CheckPG, Transact
    <3>2. QED
      BY <1>1, <3>1 DEF Returned
  <2>5. Unwritten'[p] = Unwritten[p]
    BY <1>2, <2>1, <2>4
  <2>6. QED
    BY <1>a, <2>1, <2>3, <2>5
<1>9. CASE p = Ticker /\ LoopReturns
  <2>1. /\ UNCHANGED <<buf, accepted, file, failed, fileState>>
        /\ pc[p] = "idle" /\ pc'[p] = "done"
    BY <1>1, <1>9 DEF LoopReturns, sinks
  <2>2. QED
    BY <1>a, <1>2, <2>1
<1>10. CASE StopFlusher(p)
  <2>1. UNCHANGED <<pc, recs, pos, buf, accepted, file, failed, fileState>>
    BY <1>10 DEF StopFlusher, sinks
  <2>2. Unwritten' = Unwritten
    BY <2>1 DEF Unwritten
  <2>3. QED
    BY <1>a, <2>1, <2>2
<1>11. CASE WaitReturns(p)
  <2>1. /\ UNCHANGED <<recs, buf, accepted, file, failed, fileState>>
        /\ pc[p] = "wait"
        /\ pc'[p] = IF recs[p] = <<>> THEN "closeFile" ELSE "write"
    BY <1>1, <1>11 DEF WaitReturns, sinks
  <2>2. Unwritten'[p] = Unwritten[p]
    BY <1>2, <2>1
  <2>3. QED
    BY <1>a, <2>1, <2>2
<1>12. CASE p \in Closers /\ CloseFile(p)
  <2>1. UNCHANGED <<buf, accepted, file, failed>> /\ pc[p] \in {"closeFile", "nilFile"}
    BY <1>12 DEF CloseFile
  <2>2. pc'[p] \in {"nilFile", "done", "closeDB"}
    BY <1>1, <1>12 DEF CloseFile
  <2>3. Unwritten'[p] = Unwritten[p]
    BY <1>2, <2>1, <2>2
  <2>4. fileState' # "open"
    BY <1>12 DEF CloseFile
  <2>5. CASE fileState # "open"
    <3>1. UNCHANGED (fileState # "open")
      BY <2>4, <2>5
    <3>2. QED
      BY <1>a, <2>1, <2>3, <3>1
  <2>6. CASE fileState = "open"
    <3>1. Active(p) /\ pc[p] \notin Writing \cup {"wait"}
      BY <2>1 DEF Active, Writing
    <3>2. /\ buf = <<>> /\ pc[Ticker] = "done"
          /\ \A q \in Closers \ {p} : ~Active(q)
      BY <1>12, <3>1, NothingDue DEF WriterInv, ClosingInv
    <3>3. \A q \in Writers : pc[q] \notin {"wait", "write", "encode"}
      BY <2>1, <3>2, TickerAlone DEF Active
    <3>4. \A q \in Writers : Unwritten[q] = <<>>
      BY <3>3, UnwrittenIs DEF WriterInv
    <3>5. DueOf(Unwritten, <<>>) = <<>>
      BY <1>1, <3>4, DueNothing
    <3>6. Unwritten' = Unwritten
      BY <1>1, <2>3 DEF Batches
    <3>7. Due(Unwritten) = <<>> /\ Due(Unwritten)' = Due(Unwritten)
      BY <2>1, <3>2, <3>5, <3>6 DEF Due, DueOf
    <3>8. File!Seal
      BY <2>1, <2>4, <2>6, <3>7 DEF File!Seal
    <3>9. QED
      BY <3>8 DEF File!Next
  <2>7. QED
    BY <2>5, <2>6
<1>13. CASE p \in Closers /\ CloseDB(p)
  <2>1. /\ UNCHANGED <<buf, accepted, file, failed, fileState>>
        /\ pc[p] \in {"closeDB", "nilDB"}
    BY <1>13 DEF CloseDB
  <2>2. pc'[p] \in {"nilDB", "done"}
    BY <1>1, <1>13 DEF CloseDB
  <2>3. Unwritten'[p] = Unwritten[p]
    BY <1>2, <2>1, <2>2
  <2>4. QED
    BY <1>a, <2>1, <2>3
<1>14. QED
  BY <1>4, <1>5, <1>6, <1>7, <1>8, <1>9, <1>10, <1>11, <1>12, <1>13
  DEF Acts, WriteAll, CloseStep

(* With the ticker as the only flusher, the JSONL file is a Log.           *)
THEOREM FileRefines ==
  ASSUME Flushers = {Ticker}
  PROVE  Spec => FileIsLog
<1>1. Init => File!Init
  <2> SUFFICES ASSUME Init PROVE File!Init
    OBVIOUS
  <2>1. LocalInv
    BY LocalInit
  <2>2. /\ Unwritten \in Batches /\ buf = <<>>
        /\ \A p \in Writers : Unwritten[p] = <<>>
    BY <2>1, UnwrittenIs DEF Init
  <2>3. Due(Unwritten) = <<>>
    <3>1. DueOf(Unwritten, <<>>) = <<>>
      BY <2>2, DueNothing
    <3>2. QED
      BY <2>2, <3>1 DEF Due, DueOf
  <2>4. QED
    BY <2>3 DEF Init, File!Init
<1>2. LocalInv /\ LocalInv' /\ ClosingInv /\ [Next]_vars => [File!Next]_(File!vars)
  <2> SUFFICES ASSUME LocalInv, LocalInv', ClosingInv, [Next]_vars
               PROVE  [File!Next]_(File!vars)
    OBVIOUS
  <2>1. WriterInv
    BY DEF WriterInv
  <2>2. CASE \E r \in Records : Write(r)
    BY <2>1, <2>2, FileWrite
  <2>3. CASE \E p \in Writers : Acts(p)
    BY <2>1, <2>3, FileStep
  <2>4. CASE UNCHANGED vars
    <3>1. /\ UNCHANGED <<pc, recs, pos, buf, accepted, file, fileState, failed>>
      BY <2>4 DEF vars, sinks
    <3>2. Unwritten' = Unwritten
      BY <3>1 DEF Unwritten
    <3>3. DueOf(Unwritten', buf') = DueOf(Unwritten, buf)
      BY <3>1, <3>2
    <3>4. UNCHANGED File!vars
      BY <3>1, <3>3, FileStutters
    <3>5. QED
      BY <3>4
  <2>5. QED
    BY <2>2, <2>3, <2>4, Actors
<1>3. Init => ClosingInv
  BY WriterInvInit DEF WriterInv
<1>4. LocalInv /\ ClosingInv /\ [Next]_vars => ClosingInv'
  BY ClosingStep
<1>5. QED
  BY <1>1, <1>2, <1>3, <1>4, LocalHolds, PTL DEF Spec, FileIsLog, File!Spec

-----------------------------------------------------------------------------
(* Nothing is lost *)

(* What the state of a Log says of its records: a sink that has not broken *)
(* holds, with what is due, all that was accepted; a sealed one has none   *)
(* due.                                                                    *)
Whole(a, d, l, broken, sealed) ==
  /\ a \in Seq(Records) /\ d \in Seq(Records) /\ l \in Seq(Records)
  /\ ~broken => l \o d = a
  /\ sealed => d = <<>>

(* An accepted record is due. *)
LEMMA WholeAccepts ==
  ASSUME NEW a, NEW d, NEW l, NEW b, NEW r \in Records, Whole(a, d, l, b, FALSE)
  PROVE  Whole(Append(a, r), Append(d, r), l, b, FALSE)
<1>1. a \in Seq(Records) /\ d \in Seq(Records) /\ l \in Seq(Records)
      /\ <<r>> \in Seq(Records)
  BY DEF Whole
<1>2. Append(a, r) \in Seq(Records) /\ Append(d, r) \in Seq(Records)
  BY <1>1, AppendProperties
<1>3. /\ Append(a, r) = a \o <<r>> /\ Append(d, r) = d \o <<r>>
  BY <1>1, AppendAsConcat
<1>4. (l \o d) \o <<r>> = l \o (d \o <<r>>)
  BY <1>1, ConcatAssociative, SMTT(30)
<1>5. ~b => l \o Append(d, r) = Append(a, r)
  BY <1>3, <1>4 DEF Whole
<1>6. QED
  BY <1>1, <1>2, <1>5 DEF Whole

(* A sequence is its first n elements and the rest. *)
LEMMA Parted ==
  ASSUME NEW S, NEW d \in Seq(S), NEW n \in 1 .. Len(d)
  PROVE  /\ d # <<>>
         /\ SubSeq(d, 1, n) \in Seq(S) /\ SubSeq(d, n + 1, Len(d)) \in Seq(S)
         /\ SubSeq(d, 1, n) \o SubSeq(d, n + 1, Len(d)) = d
<1>1. Len(d) \in Nat /\ n \in Nat /\ 1 <= n /\ n <= Len(d)
  BY LenProperties
<1>2. d # <<>>
  BY <1>1, EmptySeq
<1>3. \A i \in 1 .. Len(d) : d[i] \in S
  BY ElementOfSeq
<1>4. (\A i \in 1 .. n : d[i] \in S) /\ \A i \in (n + 1) .. Len(d) : d[i] \in S
  BY <1>1, <1>3
<1>5. SubSeq(d, 1, n) \in Seq(S) /\ SubSeq(d, n + 1, Len(d)) \in Seq(S)
  BY <1>1, <1>4, SubSeqProperties
<1>6. 1 \in 1 .. Len(d) + 1 /\ n \in (1 - 1) .. Len(d) /\ Len(d) \in n .. Len(d)
  BY <1>1
<1>7. SubSeq(d, 1, n) \o SubSeq(d, n + 1, Len(d)) = SubSeq(d, 1, Len(d))
  BY <1>6, ConcatAdjacentSubSeq
<1>8. QED
  BY <1>2, <1>5, <1>7, SubSeqFull

(* The first due records are logged. *)
LEMMA WholePuts ==
  ASSUME NEW a, NEW d, NEW l, NEW b, NEW s, Whole(a, d, l, b, s), NEW n \in 1 .. Len(d)
  PROVE  Whole(a, SubSeq(d, n + 1, Len(d)), l \o SubSeq(d, 1, n), b, s)
<1> DEFINE x == SubSeq(d, 1, n)
           y == SubSeq(d, n + 1, Len(d))
<1>1. a \in Seq(Records) /\ d \in Seq(Records) /\ l \in Seq(Records)
  BY DEF Whole
<1>2. x \in Seq(Records) /\ y \in Seq(Records) /\ x \o y = d /\ d # <<>>
  BY <1>1, Parted
<1> HIDE DEF x, y
<1>3. /\ l \in Seq(Records) /\ x \in Seq(Records) /\ y \in Seq(Records)
      /\ l \o x \in Seq(Records)
  BY <1>1, <1>2, ConcatProperties
<1>4. (l \o x) \o y = l \o (x \o y)
  BY <1>3, ConcatAssociative, SMTT(30)
<1>5. Whole(a, y, l \o x, b, s)
  BY <1>1, <1>2, <1>3, <1>4 DEF Whole
<1>6. QED
  BY <1>5 DEF x, y

(* The first due records are lost. *)
LEMMA WholeLoses ==
  ASSUME NEW a, NEW d, NEW l, NEW b, NEW s, Whole(a, d, l, b, s), NEW n \in 1 .. Len(d)
  PROVE  Whole(a, SubSeq(d, n + 1, Len(d)), l, TRUE, s)
<1>1. d \in Seq(Records)
  BY DEF Whole
<1>2. SubSeq(d, n + 1, Len(d)) \in Seq(Records) /\ d # <<>>
  BY <1>1, Parted
<1>3. QED
  BY <1>1, <1>2 DEF Whole

FileWhole == Whole(accepted, Due(Unwritten), file, "file" \in failed, fileState # "open")
TableWhole == Whole(accepted, Due(Uncommitted), table, "table" \in failed, dbState # "open")

(* Each step of the file's log keeps its records together. *)
LEMMA FileKeeps ==
  ASSUME FileWhole, [File!Next]_(File!vars)
  PROVE  FileWhole'
<1> DEFINE d == Due(Unwritten)
           b == "file" \in failed
           s == fileState # "open"
<1>1. Whole(accepted, d, file, b, s)
  BY DEF FileWhole
<1>2. SUFFICES Whole(accepted', d', file', b', s')
  BY DEF FileWhole
<1> HIDE DEF d, b, s
<1>3. CASE UNCHANGED File!vars
  <2>1. UNCHANGED <<accepted, d, file, b, s>>
    BY <1>3 DEF File!vars, d, b, s
  <2>2. QED
    BY <1>1, <2>1
<1>4. ASSUME NEW r \in Records, File!Accept(r) PROVE Whole(accepted', d', file', b', s')
  <2>1. /\ ~s /\ accepted' = Append(accepted, r) /\ d' = Append(d, r)
        /\ UNCHANGED <<file, b, s>>
    BY <1>4 DEF File!Accept, d, b, s
  <2>2. s = FALSE
    BY <2>1 DEF s
  <2>3. Whole(Append(accepted, r), Append(d, r), file, b, FALSE)
    BY <1>1, <2>2, WholeAccepts
  <2>4. QED
    BY <2>1, <2>2, <2>3
<1>5. ASSUME NEW n \in 1 .. Len(d), File!Put(n) PROVE Whole(accepted', d', file', b', s')
  <2>1. /\ d' = SubSeq(d, n + 1, Len(d)) /\ file' = file \o SubSeq(d, 1, n)
        /\ UNCHANGED <<accepted, b, s>>
    BY <1>5 DEF File!Put, File!Turn, d, b, s
  <2>2. Whole(accepted, SubSeq(d, n + 1, Len(d)), file \o SubSeq(d, 1, n), b, s)
    BY <1>1, WholePuts
  <2>3. QED
    BY <2>1, <2>2
<1>6. ASSUME NEW n \in 1 .. Len(d), File!Lose(n) PROVE Whole(accepted', d', file', b', s')
  <2>1. /\ d' = SubSeq(d, n + 1, Len(d)) /\ b' = TRUE /\ UNCHANGED <<accepted, file, s>>
    BY <1>6 DEF File!Lose, File!Turn, d, b, s
  <2>2. Whole(accepted, SubSeq(d, n + 1, Len(d)), file, TRUE, s)
    BY <1>1, WholeLoses
  <2>3. QED
    BY <2>1, <2>2
<1>7. CASE File!Seal
  <2>1. d = <<>> /\ UNCHANGED <<accepted, d, file, b>>
    BY <1>7 DEF File!Seal, d, b, s
  <2>2. QED
    BY <1>1, <2>1 DEF Whole
<1>8. CASE File!Next
  <2>1. \/ \E r \in Records : File!Accept(r)
        \/ \E n \in 1 .. Len(d) : File!Put(n) \/ File!Lose(n)
        \/ File!Seal
    BY <1>8 DEF File!Next, d
  <2>2. QED
    BY <2>1, <1>4, <1>5, <1>6, <1>7
<1>9. QED
  BY <1>3, <1>8

(* Each step of the table's log keeps its records together. *)
LEMMA TableKeeps ==
  ASSUME TableWhole, [Table!Next]_(Table!vars)
  PROVE  TableWhole'
<1> DEFINE d == Due(Uncommitted)
           b == "table" \in failed
           s == dbState # "open"
<1>1. Whole(accepted, d, table, b, s)
  BY DEF TableWhole
<1>2. SUFFICES Whole(accepted', d', table', b', s')
  BY DEF TableWhole
<1> HIDE DEF d, b, s
<1>3. CASE UNCHANGED Table!vars
  <2>1. UNCHANGED <<accepted, d, table, b, s>>
    BY <1>3 DEF Table!vars, d, b, s
  <2>2. QED
    BY <1>1, <2>1
<1>4. ASSUME NEW r \in Records, Table!Accept(r) PROVE Whole(accepted', d', table', b', s')
  <2>1. /\ ~s /\ accepted' = Append(accepted, r) /\ d' = Append(d, r)
        /\ UNCHANGED <<table, b, s>>
    BY <1>4 DEF Table!Accept, d, b, s
  <2>2. s = FALSE
    BY <2>1 DEF s
  <2>3. Whole(Append(accepted, r), Append(d, r), table, b, FALSE)
    BY <1>1, <2>2, WholeAccepts
  <2>4. QED
    BY <2>1, <2>2, <2>3
<1>5. ASSUME NEW n \in 1 .. Len(d), Table!Put(n) PROVE Whole(accepted', d', table', b', s')
  <2>1. /\ d' = SubSeq(d, n + 1, Len(d)) /\ table' = table \o SubSeq(d, 1, n)
        /\ UNCHANGED <<accepted, b, s>>
    BY <1>5 DEF Table!Put, Table!Turn, d, b, s
  <2>2. Whole(accepted, SubSeq(d, n + 1, Len(d)), table \o SubSeq(d, 1, n), b, s)
    BY <1>1, WholePuts
  <2>3. QED
    BY <2>1, <2>2
<1>6. ASSUME NEW n \in 1 .. Len(d), Table!Lose(n) PROVE Whole(accepted', d', table', b', s')
  <2>1. /\ d' = SubSeq(d, n + 1, Len(d)) /\ b' = TRUE /\ UNCHANGED <<accepted, table, s>>
    BY <1>6 DEF Table!Lose, Table!Turn, d, b, s
  <2>2. Whole(accepted, SubSeq(d, n + 1, Len(d)), table, TRUE, s)
    BY <1>1, WholeLoses
  <2>3. QED
    BY <2>1, <2>2
<1>7. CASE Table!Seal
  <2>1. d = <<>> /\ UNCHANGED <<accepted, d, table, b>>
    BY <1>7 DEF Table!Seal, d, b, s
  <2>2. QED
    BY <1>1, <2>1 DEF Whole
<1>8. CASE Table!Next
  <2>1. \/ \E r \in Records : Table!Accept(r)
        \/ \E n \in 1 .. Len(d) : Table!Put(n) \/ Table!Lose(n)
        \/ Table!Seal
    BY <1>8 DEF Table!Next, d
  <2>2. QED
    BY <2>1, <1>4, <1>5, <1>6, <1>7
<1>9. QED
  BY <1>3, <1>8

(* With the ticker as the only flusher the JSONL file holds, as long as it *)
(* had no error, the first records that Write accepted, in their order and *)
(* without a gap, and once Close has closed it, all of them                *)
(* (audit.go:201-263, 287-331).                                            *)
THEOREM FileComplete ==
  ASSUME Flushers = {Ticker}
  PROVE  Spec => [](/\ LogComplete
                    /\ "file" \notin failed =>
                         \E rest \in Seq(Records) : accepted = file \o rest)
<1>1. Init => FileWhole
  <2> SUFFICES ASSUME Init PROVE FileWhole
    OBVIOUS
  <2>1. LocalInv
    BY LocalInit
  <2>2. /\ Unwritten \in Batches /\ buf = <<>>
        /\ \A p \in Writers : Unwritten[p] = <<>>
    BY <2>1, UnwrittenIs DEF Init
  <2>3. Due(Unwritten) = <<>>
    <3>1. DueOf(Unwritten, <<>>) = <<>>
      BY <2>2, DueNothing
    <3>2. QED
      BY <2>2, <3>1 DEF Due, DueOf
  <2>4. <<>> \in Seq(Records) /\ <<>> \o <<>> = <<>>
    BY EmptySeq, ConcatEmptySeq
  <2>5. QED
    BY <2>3, <2>4 DEF Init, FileWhole, Whole
<1>2. FileWhole /\ [File!Next]_(File!vars) => FileWhole'
  BY FileKeeps
<1>3. FileWhole => /\ LogComplete
                   /\ "file" \notin failed =>
                        \E rest \in Seq(Records) : accepted = file \o rest
  <2> SUFFICES ASSUME FileWhole, "file" \notin failed
               PROVE  /\ fileState # "open" => file = accepted
                      /\ \E rest \in Seq(Records) : accepted = file \o rest
    BY DEF LogComplete
  <2>1. /\ Due(Unwritten) \in Seq(Records) /\ accepted = file \o Due(Unwritten)
        /\ file \in Seq(Records)
        /\ fileState # "open" => Due(Unwritten) = <<>>
    BY DEF FileWhole, Whole
  <2>2. file \o <<>> = file
    BY <2>1, ConcatEmptySeq
  <2>3. QED
    BY <2>1, <2>2
<1>4. Spec => FileIsLog
  BY FileRefines
<1>5. QED
  BY <1>1, <1>2, <1>3, <1>4, PTL DEF Spec, FileIsLog, File!Spec

(* PostgreSQL likewise: without an error of its own the table holds the    *)
(* first records that Write accepted, and once its handle is closed, all   *)
(* of them, whatever became of the JSONL file (audit.go:201-263, 296-371). *)
THEOREM TableComplete ==
  ASSUME Flushers = {Ticker}, UsePG
  PROVE  Spec => []("table" \notin failed =>
                      /\ dbState # "open" => table = accepted
                      /\ \E rest \in Seq(Records) : accepted = table \o rest)
<1>1. Init => TableWhole
  <2> SUFFICES ASSUME Init PROVE TableWhole
    OBVIOUS
  <2>1. WriterInv
    BY WriterInvInit
  <2>2. /\ Uncommitted = recs /\ recs \in Batches /\ buf = <<>>
        /\ \A p \in Writers : recs[p] = <<>>
    BY <2>1, UncommittedIs DEF WriterInv, Init
  <2>3. Due(Uncommitted) = <<>>
    <3>1. DueOf(recs, <<>>) = <<>>
      BY <2>2, DueNothing
    <3>2. QED
      BY <2>2, <3>1 DEF Due, DueOf
  <2>4. <<>> \in Seq(Records) /\ <<>> \o <<>> = <<>>
    BY EmptySeq, ConcatEmptySeq
  <2>5. QED
    BY <2>3, <2>4 DEF Init, TableWhole, Whole
<1>2. TableWhole /\ [Table!Next]_(Table!vars) => TableWhole'
  BY TableKeeps
<1>3. TableWhole => ("table" \notin failed =>
                       /\ dbState # "open" => table = accepted
                       /\ \E rest \in Seq(Records) : accepted = table \o rest)
  <2> SUFFICES ASSUME TableWhole, "table" \notin failed
               PROVE  /\ dbState # "open" => table = accepted
                      /\ \E rest \in Seq(Records) : accepted = table \o rest
    OBVIOUS
  <2>1. /\ Due(Uncommitted) \in Seq(Records) /\ accepted = table \o Due(Uncommitted)
        /\ table \in Seq(Records)
        /\ dbState # "open" => Due(Uncommitted) = <<>>
    BY DEF TableWhole, Whole
  <2>2. table \o <<>> = table
    BY <2>1, ConcatEmptySeq
  <2>3. QED
    BY <2>1, <2>2
<1>4. Spec => TableIsLog
  BY TableRefines
<1>5. QED
  BY <1>1, <1>2, <1>3, <1>4, PTL DEF Spec, TableIsLog, Table!Spec

-----------------------------------------------------------------------------
(* Nothing is written twice, whoever flushes and closes *)

(* A new element keeps a sequence without repetition. *)
LEMMA AppendOnce ==
  ASSUME NEW S, NEW s \in Seq(S), NEW e \in S
  PROVE  /\ Append(s, e) \in Seq(S)
         /\ Range(Append(s, e)) = Range(s) \cup {e}
         /\ IsInjective(s) /\ e \notin Range(s) => IsInjective(Append(s, e))
<1> DEFINE t == Append(s, e)
           n == Len(s)
<1>1. n \in Nat /\ DOMAIN s = 1 .. n
  BY LenProperties
<1>2. /\ t \in Seq(S) /\ Len(t) = n + 1 /\ t[n + 1] = e
      /\ \A i \in 1 .. n : t[i] = s[i]
  BY AppendProperties
<1>3. DOMAIN t = 1 .. n + 1
  BY <1>2, LenProperties
<1> HIDE DEF t, n
<1>4. 1 .. n + 1 = 1 .. n \cup {n + 1} /\ n + 1 \notin 1 .. n
  BY <1>1
<1>5. Range(t) = Range(s) \cup {e}
  BY <1>1, <1>2, <1>3, <1>4 DEF Range
<1>6. ASSUME IsInjective(s), e \notin Range(s) PROVE IsInjective(t)
  <2>1. \A i \in 1 .. n : s[i] \in Range(s)
    BY <1>1 DEF Range
  <2>2. \A i, j \in 1 .. n : s[i] = s[j] => i = j
    BY <1>1, <1>6 DEF IsInjective
  <2>3. \A i, j \in 1 .. n + 1 : t[i] = t[j] => i = j
    BY <1>2, <1>4, <1>6, <2>1, <2>2
  <2>4. QED
    BY <1>3, <2>3 DEF IsInjective
<1>7. QED
  BY <1>2, <1>5, <1>6 DEF t

(* So does a sequence without repetition that shares nothing with it. *)
LEMMA ConcatOnce ==
  ASSUME NEW S, NEW s \in Seq(S), NEW t \in Seq(S)
  PROVE  /\ s \o t \in Seq(S)
         /\ Range(s \o t) = Range(s) \cup Range(t)
         /\ IsInjective(s) /\ IsInjective(t) /\ Range(s) \cap Range(t) = {}
              => IsInjective(s \o t)
<1> DEFINE c == s \o t
           m == Len(s)
           n == Len(t)
<1>1. m \in Nat /\ n \in Nat /\ DOMAIN s = 1 .. m /\ DOMAIN t = 1 .. n
  BY LenProperties
<1>2. /\ c \in Seq(S) /\ Len(c) = m + n
      /\ \A i \in 1 .. m + n : c[i] = IF i <= m THEN s[i] ELSE t[i - m]
  BY ConcatProperties
<1>3. DOMAIN c = 1 .. m + n
  BY <1>2, LenProperties
<1> HIDE DEF c, m, n
<1>4. /\ \A i \in 1 .. m : i \in 1 .. m + n /\ c[i] = s[i]
      /\ \A i \in 1 .. n : i + m \in 1 .. m + n /\ c[i + m] = t[i]
  <2>1. \A i \in 1 .. m : i \in 1 .. m + n /\ i <= m
    BY <1>1
  <2>2. \A i \in 1 .. n : i + m \in 1 .. m + n /\ ~(i + m <= m) /\ (i + m) - m = i
    BY <1>1
  <2>3. QED
    BY <1>2, <2>1, <2>2
<1>5. \A k \in 1 .. m + n : \/ k \in 1 .. m
                            \/ \E i \in 1 .. n : k = i + m
  <2>1. \A k \in 1 .. m + n : k \in 1 .. m \/ (k - m \in 1 .. n /\ k = (k - m) + m)
    BY <1>1
  <2>2. QED
    BY <2>1
<1>6. Range(c) = Range(s) \cup Range(t)
  <2>1. Range(s) \cup Range(t) \subseteq Range(c)
    BY <1>1, <1>3, <1>4 DEF Range
  <2>2. \A k \in 1 .. m + n : c[k] \in Range(s) \cup Range(t)
    BY <1>1, <1>4, <1>5 DEF Range
  <2>3. Range(c) \subseteq Range(s) \cup Range(t)
    BY <1>3, <2>2 DEF Range
  <2>4. QED
    BY <2>1, <2>3
<1>7. ASSUME IsInjective(s), IsInjective(t), Range(s) \cap Range(t) = {}
      PROVE  IsInjective(c)
  <2>1. /\ \A i, j \in 1 .. m : s[i] = s[j] => i = j
        /\ \A i, j \in 1 .. n : t[i] = t[j] => i = j
        /\ \A i \in 1 .. m, j \in 1 .. n : s[i] # t[j]
    BY <1>1, <1>7 DEF IsInjective, Range
  <2>2. SUFFICES ASSUME NEW k \in 1 .. m + n, NEW l \in 1 .. m + n, c[k] = c[l]
                 PROVE  k = l
    BY <1>3 DEF IsInjective
  <2>3. CASE k \in 1 .. m /\ l \in 1 .. m
    BY <1>4, <2>1, <2>2, <2>3
  <2>4. CASE k \in 1 .. m /\ \E j \in 1 .. n : l = j + m
    BY <1>4, <2>1, <2>2, <2>4
  <2>5. CASE l \in 1 .. m /\ \E j \in 1 .. n : k = j + m
    BY <1>4, <2>1, <2>2, <2>5
  <2>6. CASE (\E i \in 1 .. n : k = i + m) /\ \E j \in 1 .. n : l = j + m
    <3>1. PICK i \in 1 .. n, j \in 1 .. n : k = i + m /\ l = j + m
      BY <2>6
    <3>2. c[k] = t[i] /\ c[l] = t[j]
      BY <1>4, <3>1
    <3>3. QED
      BY <2>1, <2>2, <3>1, <3>2
  <2>7. QED
    BY <1>5, <2>3, <2>4, <2>5, <2>6
<1>8. QED
  BY <1>2, <1>6, <1>7 DEF c

(* The records accepted (A) that one sink has to do with: those in the     *)
(* buffer (B), those it holds (l), and those that each goroutine has left  *)
(* to write to it (rest).  They are all apart, and as long as nothing was  *)
(* lost (whole), all of A is among them.                                   *)
Sink(A, B, l, rest, whole) ==
  /\ l \in Seq(Records) /\ IsInjective(l)
  /\ Range(l) \subseteq A /\ B \subseteq A /\ Range(l) \cap B = {}
  /\ \A p \in Writers : /\ rest[p] \subseteq A
                        /\ rest[p] \cap B = {} /\ rest[p] \cap Range(l) = {}
  /\ \A p, q \in Writers : p # q => rest[p] \cap rest[q] = {}
  /\ whole => \A e \in A : \/ e \in Range(l) \cup B
                           \/ \E p \in Writers : e \in rest[p]

(* A record that is new goes to the buffer. *)
LEMMA SinkAccepts ==
  ASSUME NEW A, NEW B, NEW l, NEW rest, NEW whole, Sink(A, B, l, rest, whole),
         NEW r, r \notin A
  PROVE  Sink(A \cup {r}, B \cup {r}, l, rest, whole)
BY DEF Sink

(* Records move between the buffer, one goroutine's rest and the sink. *)
LEMMA SinkMoves ==
  ASSUME NEW A, NEW B, NEW l, NEW rest, NEW whole, Sink(A, B, l, rest, whole),
         NEW p \in Writers, NEW C, NEW k, NEW left, NEW still,
         \A q \in Writers \ {p} : left[q] = rest[q],
         k \in Seq(Records), IsInjective(k),
         Range(k) \cap C = {}, Range(k) \cap left[p] = {}, left[p] \cap C = {},
         Range(k) \cup C \cup left[p] \subseteq Range(l) \cup B \cup rest[p],
         still => whole /\ Range(l) \cup B \cup rest[p] \subseteq Range(k) \cup C \cup left[p]
  PROVE  Sink(A, C, k, left, still)
<1> DEFINE L == Range(l)
           K == Range(k)
<1>1. /\ L \subseteq A /\ B \subseteq A
      /\ \A q \in Writers : rest[q] \subseteq A /\ rest[q] \cap B = {} /\ rest[q] \cap L = {}
      /\ \A q, o \in Writers : q # o => rest[q] \cap rest[o] = {}
      /\ whole => \A e \in A : e \in L \cup B \/ \E q \in Writers : e \in rest[q]
  BY DEF Sink
<1> HIDE DEF L, K
<1>2. K \cup C \cup left[p] \subseteq L \cup B \cup rest[p]
  BY DEF L, K
<1>3. K \subseteq A /\ C \subseteq A /\ left[p] \subseteq A
  BY <1>1, <1>2
<1>4. ASSUME NEW q \in Writers \ {p}
      PROVE  /\ left[q] = rest[q] /\ left[q] \subseteq A
             /\ left[q] \cap C = {} /\ left[q] \cap K = {} /\ left[q] \cap left[p] = {}
  <2>1. left[q] = rest[q] /\ rest[q] \cap rest[p] = {}
    BY <1>1
  <2>2. rest[q] \cap (L \cup B \cup rest[p]) = {}
    BY <1>1, <2>1
  <2>3. QED
    BY <1>1, <1>2, <2>1, <2>2
<1>5. \A q \in Writers : left[q] \subseteq A /\ left[q] \cap C = {} /\ left[q] \cap K = {}
  BY <1>3, <1>4 DEF K
<1>6. \A q, o \in Writers : q # o => left[q] \cap left[o] = {}
  BY <1>1, <1>4
<1>7. ASSUME still, NEW e \in A
      PROVE  e \in K \cup C \/ \E q \in Writers : e \in left[q]
  <2>1. whole /\ L \cup B \cup rest[p] \subseteq K \cup C \cup left[p]
    BY <1>7 DEF L, K
  <2>2. CASE e \in L \cup B \cup rest[p]
    BY <2>1, <2>2
  <2>3. CASE \E q \in Writers \ {p} : e \in rest[q]
    BY <1>4, <2>3
  <2>4. QED
    BY <1>1, <2>1, <2>2, <2>3
<1>8. QED
  BY <1>3, <1>5, <1>6, <1>7 DEF Sink, K

(* What each goroutine has left to write to the file, and to the table. *)
FileLeft == [p \in Writers |-> IF pc[p] \in {"wait", "write", "encode"}
                               THEN {recs[p][i] : i \in pos[p] .. Len(recs[p])}
                               ELSE {}]
TableLeft == [p \in Writers |-> Range(recs[p])]

FileOnce == Sink(Range(accepted), Range(buf), file, FileLeft,
                 fileState = "open" /\ "file" \notin failed)
TableOnce == Sink(Range(accepted), Range(buf), table, TableLeft,
                  dbState = "open" /\ "table" \notin failed)

(* The buffer and the batches have no record twice, and share none with    *)
(* each other or with what the sinks hold.                                 *)
OnceInv ==
  /\ IsInjective(buf)
  /\ \A p \in Writers : IsInjective(recs[p])
  /\ FileOnce /\ TableOnce

(* What is left of a batch that has not begun, and of one at position i. *)
LEMMA LeftOf ==
  ASSUME NEW S, NEW s \in Seq(S)
  PROVE  /\ {s[i] : i \in 1 .. Len(s)} = Range(s)
         /\ \A i \in 1 .. Len(s) :
              /\ {s[j] : j \in i .. Len(s)} = {s[i]} \cup {s[j] : j \in i + 1 .. Len(s)}
              /\ IsInjective(s) => s[i] \notin {s[j] : j \in i + 1 .. Len(s)}
         /\ {s[j] : j \in Len(s) + 1 .. Len(s)} = {}
<1>1. Len(s) \in Nat /\ DOMAIN s = 1 .. Len(s)
  BY LenProperties
<1>2. {s[i] : i \in 1 .. Len(s)} = Range(s)
  BY <1>1 DEF Range
<1>3. ASSUME NEW i \in 1 .. Len(s)
      PROVE  /\ {s[j] : j \in i .. Len(s)} = {s[i]} \cup {s[j] : j \in i + 1 .. Len(s)}
             /\ IsInjective(s) => s[i] \notin {s[j] : j \in i + 1 .. Len(s)}
  <2>1. /\ i .. Len(s) = {i} \cup (i + 1 .. Len(s))
        /\ \A j \in i + 1 .. Len(s) : j \in 1 .. Len(s) /\ j # i
    BY <1>1
  <2>2. {s[j] : j \in i .. Len(s)} = {s[i]} \cup {s[j] : j \in i + 1 .. Len(s)}
    BY <2>1
  <2>3. ASSUME IsInjective(s), NEW j \in i + 1 .. Len(s) PROVE s[i] # s[j]
    BY <1>1, <2>1, <2>3 DEF IsInjective
  <2>4. QED
    BY <2>2, <2>3
<1>4. Len(s) + 1 .. Len(s) = {}
  BY <1>1
<1>5. QED
  BY <1>2, <1>3, <1>4

(* What a step of p does to the records that p can reach. *)
Takes(p) == /\ recs'[p] = buf /\ buf' = <<>>
            /\ FileLeft[p] = {} /\ TableLeft[p] = {}
            /\ FileLeft'[p] = Range(buf) /\ TableLeft'[p] = Range(buf)
            /\ UNCHANGED <<file, table, fileState, dbState, failed>>

Holds(p) == /\ UNCHANGED buf /\ recs'[p] = recs[p]
            /\ TableLeft'[p] = TableLeft[p]

Keeps(p) == /\ Holds(p) /\ FileLeft'[p] = FileLeft[p]
            /\ UNCHANGED <<file, table, failed>>
            /\ fileState' = "open" => fileState = "open"
            /\ dbState' = "open" => dbState = "open"

Encodes(p) == /\ Holds(p) /\ UNCHANGED <<table, fileState, dbState, failed>>
              /\ \E e \in Records :
                   /\ file' = Append(file, e)
                   /\ FileLeft[p] = {e} \cup FileLeft'[p] /\ e \notin FileLeft'[p]

Drops(p) == /\ Holds(p) /\ FileLeft'[p] = {}
            /\ UNCHANGED <<file, table, fileState, dbState>>
            /\ fileState' # "open" \/ "file" \in failed'
            /\ "table" \in failed' <=> "table" \in failed

Ends(p) == /\ UNCHANGED <<buf, file, fileState, dbState>>
           /\ recs'[p] = <<>> /\ TableLeft'[p] = {}
           /\ FileLeft[p] = {} /\ FileLeft'[p] = {}
           /\ "file" \in failed' <=> "file" \in failed

Leaves(p) == /\ Ends(p) /\ UNCHANGED table
             /\ dbState' # "open" \/ "table" \in failed'

Commits(p) == Ends(p) /\ table' = table \o recs[p] /\ UNCHANGED failed

(* The two families of what is left, for the goroutine that acts. *)
LEMMA LeftAt ==
  ASSUME LocalInv, LocalInv', NEW p \in Writers
  PROVE  /\ TableLeft[p] = Range(recs[p]) /\ TableLeft'[p] = Range(recs'[p])
         /\ pc[p] \in {"wait", "write"} => FileLeft[p] = Range(recs[p])
         /\ pc'[p] \in {"wait", "write"} => FileLeft'[p] = Range(recs'[p])
         /\ pc[p] = "encode" => FileLeft[p] = {recs[p][i] : i \in pos[p] .. Len(recs[p])}
         /\ pc'[p] = "encode" =>
              FileLeft'[p] = {recs'[p][i] : i \in pos'[p] .. Len(recs'[p])}
         /\ pc[p] \notin {"wait", "write", "encode"} => FileLeft[p] = {}
         /\ pc'[p] \notin {"wait", "write", "encode"} => FileLeft'[p] = {}
<1>1. /\ recs[p] \in Seq(Records) /\ recs'[p] \in Seq(Records)
      /\ pc[p] \in {"wait", "write"} => pos[p] = 1
      /\ pc'[p] \in {"wait", "write"} => pos'[p] = 1
  BY DEF LocalInv, TypeOK, Local
<1>2. /\ {recs[p][i] : i \in 1 .. Len(recs[p])} = Range(recs[p])
      /\ {recs'[p][i] : i \in 1 .. Len(recs'[p])} = Range(recs'[p])
  BY <1>1, LeftOf
<1>3. /\ FileLeft[p] = IF pc[p] \in {"wait", "write", "encode"}
                       THEN {recs[p][i] : i \in pos[p] .. Len(recs[p])} ELSE {}
      /\ FileLeft'[p] = IF pc'[p] \in {"wait", "write", "encode"}
                        THEN {recs'[p][i] : i \in pos'[p] .. Len(recs'[p])} ELSE {}
      /\ TableLeft[p] = Range(recs[p]) /\ TableLeft'[p] = Range(recs'[p])
  BY DEF FileLeft, TableLeft
<1>4. QED
  BY <1>1, <1>2, <1>3

(* Nobody else's batch changes. *)
LEMMA LeftElsewhere ==
  ASSUME LocalInv, NEW p \in Writers, Acts(p)
  PROVE  \A q \in Writers \ {p} : /\ recs'[q] = recs[q]
                                  /\ FileLeft'[q] = FileLeft[q]
                                  /\ TableLeft'[q] = TableLeft[q]
<1>1. PICK a \in PCs, b \in Seq(Records), i \in Nat \ {0} :
        /\ pc' = [pc EXCEPT ![p] = a] /\ recs' = [recs EXCEPT ![p] = b]
        /\ pos' = [pos EXCEPT ![p] = i]
  BY StepOfBatch
<1>2. \A q \in Writers \ {p} : /\ pc'[q] = pc[q] /\ recs'[q] = recs[q]
                               /\ pos'[q] = pos[q]
  BY <1>1, StepOfBatch, OwnBatch
<1>3. ASSUME NEW q \in Writers \ {p} PROVE FileLeft'[q] = FileLeft[q]
  <2>1. /\ FileLeft[q] = IF pc[q] \in {"wait", "write", "encode"}
                         THEN {recs[q][j] : j \in pos[q] .. Len(recs[q])} ELSE {}
        /\ FileLeft'[q] = IF pc'[q] \in {"wait", "write", "encode"}
                          THEN {recs'[q][j] : j \in pos'[q] .. Len(recs'[q])} ELSE {}
    BY DEF FileLeft
  <2>2. pc'[q] = pc[q] /\ recs'[q] = recs[q] /\ pos'[q] = pos[q]
    BY <1>2
  <2>3. QED
    BY <2>1, <2>2, Zenon
<1>4. ASSUME NEW q \in Writers \ {p} PROVE TableLeft'[q] = TableLeft[q]
  BY <1>2 DEF TableLeft
<1>5. QED
  BY <1>2, <1>3, <1>4

(* Every step of a goroutine is one of these. *)
LEMMA StepMoves ==
  ASSUME LocalInv, LocalInv', \A q \in Writers : IsInjective(recs[q]),
         NEW p \in Writers, Acts(p)
  PROVE  \/ Takes(p) \/ Keeps(p) \/ Encodes(p) \/ Drops(p) \/ Leaves(p) \/ Commits(p)
<1>1. /\ pc \in [Writers -> PCs] /\ recs \in [Writers -> Seq(Records)]
      /\ pos \in [Writers -> Nat \ {0}]
      /\ recs[p] \in Seq(Records) /\ pos[p] \in Nat \ {0} /\ Len(recs[p]) \in Nat
      /\ Local(p)
  BY LenProperties DEF LocalInv, TypeOK
<1>2. /\ TableLeft[p] = Range(recs[p]) /\ TableLeft'[p] = Range(recs'[p])
      /\ pc[p] \in {"wait", "write"} => FileLeft[p] = Range(recs[p])
      /\ pc'[p] \in {"wait", "write"} => FileLeft'[p] = Range(recs'[p])
      /\ pc[p] = "encode" => FileLeft[p] = {recs[p][i] : i \in pos[p] .. Len(recs[p])}
      /\ pc'[p] = "encode" =>
           FileLeft'[p] = {recs'[p][i] : i \in pos'[p] .. Len(recs'[p])}
      /\ pc[p] \notin {"wait", "write", "encode"} => FileLeft[p] = {}
      /\ pc'[p] \notin {"wait", "write", "encode"} => FileLeft'[p] = {}
  BY LeftAt
<1>3. Range(<<>>) = {}
  BY DEF Range
<1>4. ASSUME UNCHANGED <<buf, recs, file, table, failed>>,
             FileLeft'[p] = FileLeft[p],
             fileState' = "open" => fileState = "open",
             dbState' = "open" => dbState = "open"
      PROVE  Keeps(p)
  BY <1>2, <1>4 DEF Keeps, Holds
<1>5. CASE p \in Flushers /\ Flush(p)
  <2>1. /\ pc[p] = "idle" /\ recs'[p] = buf /\ buf' = <<>> /\ recs[p] = <<>>
        /\ pc'[p] = IF buf = <<>> THEN "idle" ELSE "write"
        /\ UNCHANGED <<file, table, fileState, dbState, failed>>
    BY <1>1, <1>5 DEF Flush, TakeBuffer, sinks, Local, Writing
  <2>2. FileLeft[p] = {} /\ TableLeft[p] = {}
    BY <1>2, <1>3, <2>1
  <2>3. FileLeft'[p] = Range(buf) /\ TableLeft'[p] = Range(buf)
    BY <1>2, <1>3, <2>1
  <2>4. QED
    BY <2>1, <2>2, <2>3 DEF Takes
<1>6. CASE p \in Closers /\ Close(p)
  <2>1. pc[p] = "idle" /\ UNCHANGED <<file, table, fileState, dbState, failed>>
    BY <1>6 DEF Close, sinks
  <2>2. CASE closed
    <3>1. pc'[p] = "done" /\ UNCHANGED <<buf, recs>>
      BY <1>1, <1>6, <2>2 DEF Close
    <3>2. FileLeft'[p] = FileLeft[p]
      BY <1>2, <2>1, <3>1
    <3>3. QED
      BY <1>4, <2>1, <3>1, <3>2
  <2>3. CASE ~closed
    <3>1. pc'[p] = "wait" /\ recs'[p] = buf /\ buf' = <<>> /\ recs[p] = <<>>
      BY <1>1, <1>6, <2>1, <2>3 DEF Close, TakeBuffer, Local, Writing
    <3>2. FileLeft[p] = {} /\ TableLeft[p] = {}
      BY <1>2, <1>3, <2>1, <3>1
    <3>3. FileLeft'[p] = Range(buf) /\ TableLeft'[p] = Range(buf)
      BY <1>2, <3>1
    <3>4. QED
      BY <2>1, <3>1, <3>2, <3>3 DEF Takes
  <2>4. QED
    BY <2>2, <2>3
<1>7. CASE CheckFile(p)
  <2>1. /\ pc[p] = "write" /\ UNCHANGED <<recs, pos, buf, file, table, failed>>
        /\ UNCHANGED <<fileState, dbState>>
        /\ pc'[p] = IF fileState = "nil" THEN "pg" ELSE "encode"
    BY <1>1, <1>7 DEF CheckFile, sinks
  <2>2. CASE fileState = "nil"
    <3>1. FileLeft'[p] = {}
      BY <1>2, <2>1, <2>2
    <3>2. Drops(p)
      BY <1>2, <2>1, <2>2, <3>1 DEF Drops, Holds
    <3>3. QED
      BY <3>2
  <2>3. CASE fileState # "nil"
    <3>1. {recs[p][i] : i \in 1 .. Len(recs[p])} = Range(recs[p]) /\ pos[p] = 1
      BY <1>1, <2>1, LeftOf DEF Local
    <3>2. FileLeft'[p] = FileLeft[p]
      BY <1>2, <2>1, <2>3, <3>1, ZenonT(40)
    <3>3. QED
      BY <1>4, <2>1, <3>2
  <2>4. QED
    BY <2>2, <2>3
<1>8. CASE Encode(p)
  <2>1. /\ pc[p] = "encode" /\ UNCHANGED <<buf, recs, table, fileState, dbState>>
        /\ pos[p] \in 1 .. Len(recs[p])
    BY <1>1, <1>8 DEF Encode, Local
  <2>2. Holds(p)
    BY <1>2, <2>1 DEF Holds
  <2>3. CASE /\ file' = Append(file, recs[p][pos[p]])
             /\ pos' = [pos EXCEPT ![p] = @ + 1]
             /\ pc' = [pc EXCEPT ![p] = IF pos[p] = Len(recs[p]) THEN "pg" ELSE @]
             /\ UNCHANGED failed
    <3> DEFINE e == recs[p][pos[p]]
               after == {recs[p][j] : j \in pos[p] + 1 .. Len(recs[p])}
    <3>1. e \in Records /\ FileLeft[p] = {e} \cup after /\ e \notin after
      BY <1>1, <1>2, <2>1, LeftOf, ElementOfSeq
    <3>2. FileLeft'[p] = after
      <4>1. CASE pos[p] = Len(recs[p])
        <5>1. pc'[p] = "pg"
          BY <1>1, <2>3, <4>1
        <5>2. after = {}
          BY <1>1, <4>1, LeftOf
        <5>3. QED
          BY <1>2, <5>1, <5>2
      <4>2. CASE pos[p] # Len(recs[p])
        <5>1. pc'[p] = "encode" /\ pos'[p] = pos[p] + 1 /\ recs'[p] = recs[p]
          BY <1>1, <2>1, <2>3, <4>2
        <5>2. QED
          BY <1>2, <5>1
      <4>3. QED
        BY <4>1, <4>2
    <3> HIDE DEF e, after
    <3>3. file' = Append(file, e)
      BY <2>3 DEF e
    <3>4. Encodes(p)
      BY <2>1, <2>2, <2>3, <3>1, <3>2, <3>3 DEF Encodes
    <3>5. QED
      BY <3>4
  <2>4. CASE /\ failed' = IF fileState = "open" THEN failed \cup {"file"} ELSE failed
             /\ pc' = [pc EXCEPT ![p] = AfterError(p)]
             /\ UNCHANGED <<file, pos>>
    <3>1. pc'[p] = "pg"
      BY <1>1, <2>4 DEF AfterError
    <3>2. FileLeft'[p] = {}
      BY <1>2, <3>1
    <3>3. /\ fileState' # "open" \/ "file" \in failed'
          /\ "table" \in failed' <=> "table" \in failed
      BY <2>1, <2>4
    <3>4. Drops(p)
      BY <2>1, <2>2, <2>4, <3>2, <3>3 DEF Drops
    <3>5. QED
      BY <3>4
  <2>5. QED
    BY <1>8, <2>3, <2>4 DEF Encode
<1>9. CASE CheckPG(p)
  <2>1. /\ pc[p] = "pg" /\ UNCHANGED <<buf, file, table, fileState, dbState, failed>>
    BY <1>9 DEF CheckPG, sinks
  <2>2. CASE dbState = "nil"
    <3>1. pc'[p] \in {"idle", "closeFile"} /\ recs'[p] = <<>>
      BY <1>1, <1>9, <2>2 DEF CheckPG, Returned
    <3>2. FileLeft[p] = {} /\ FileLeft'[p] = {} /\ TableLeft'[p] = {}
      BY <1>2, <1>3, <2>1, <3>1
    <3>3. Leaves(p)
      BY <2>1, <2>2, <3>1, <3>2 DEF Leaves, Ends
    <3>4. QED
      BY <3>3
  <2>3. CASE dbState # "nil"
    <3>1. pc'[p] = "tx" /\ UNCHANGED recs
      BY <1>1, <1>9, <2>3 DEF CheckPG
    <3>2. FileLeft'[p] = FileLeft[p]
      BY <1>2, <2>1, <3>1
    <3>3. QED
      BY <1>4, <2>1, <3>1, <3>2
  <2>4. QED
    BY <2>2, <2>3
<1>10. CASE Transact(p)
  <2>1. /\ pc[p] = "tx" /\ UNCHANGED <<buf, file, fileState, dbState>>
        /\ pc'[p] \in {"idle", "closeFile"} /\ recs'[p] = <<>>
    BY <1>1, <1>10 DEF Transact, Returned
  <2>2. FileLeft[p] = {} /\ FileLeft'[p] = {} /\ TableLeft'[p] = {}
    BY <1>2, <1>3, <2>1
  <2>3. CASE table' = table \o recs[p] /\ UNCHANGED failed
    <3>1. Commits(p)
      BY <2>1, <2>2, <2>3 DEF Commits, Ends
    <3>2. QED
      BY <3>1
  <2>4. CASE /\ UNCHANGED table
             /\ \/ failed' = failed \cup {"table"}
                \/ UNCHANGED failed /\ dbState # "open"
    <3>1. /\ "file" \in failed' <=> "file" \in failed
          /\ dbState' # "open" \/ "table" \in failed'
      BY <2>1, <2>4
    <3>2. Leaves(p)
      BY <2>1, <2>2, <2>4, <3>1 DEF Leaves, Ends
    <3>3. QED
      BY <3>2
  <2>5. QED
    BY <1>10, <2>3, <2>4 DEF Transact
<1>11. CASE p = Ticker /\ LoopReturns
  <2>1. /\ UNCHANGED <<buf, recs, file, table, failed, fileState, dbState>>
        /\ pc[p] = "idle" /\ pc'[p] = "done"
    BY <1>1, <1>11 DEF LoopReturns, sinks
  <2>2. QED
    BY <1>2, <1>4, <2>1
<1>12. CASE StopFlusher(p)
  <2>1. UNCHANGED <<buf, pc, recs, pos, file, table, failed, fileState, dbState>>
    BY <1>12 DEF StopFlusher, sinks
  <2>2. FileLeft' = FileLeft
    BY <2>1 DEF FileLeft
  <2>3. QED
    BY <1>4, <2>1, <2>2
<1>13. CASE WaitReturns(p)
  <2>1. /\ UNCHANGED <<buf, recs, file, table, failed, fileState, dbState>>
        /\ pc[p] = "wait"
        /\ pc'[p] = IF recs[p] = <<>> THEN "closeFile" ELSE "write"
    BY <1>1, <1>13 DEF WaitReturns, sinks
  <2>2. FileLeft'[p] = FileLeft[p]
    BY <1>2, <1>3, <2>1
  <2>3. QED
    BY <1>4, <2>1, <2>2
<1>14. CASE CloseFile(p)
  <2>1. /\ UNCHANGED <<buf, recs, file, table, failed, dbState>>
        /\ pc[p] \in {"closeFile", "nilFile"} /\ fileState' # "open"
    BY <1>14 DEF CloseFile
  <2>2. pc'[p] \in {"nilFile", "done", "closeDB"}
    BY <1>1, <1>14 DEF CloseFile
  <2>3. FileLeft'[p] = FileLeft[p]
    BY <1>2, <2>1, <2>2
  <2>4. QED
    BY <1>4, <2>1, <2>3
<1>15. CASE CloseDB(p)
  <2>1. /\ UNCHANGED <<buf, recs, file, table, failed, fileState>>
        /\ pc[p] \in {"closeDB", "nilDB"} /\ dbState' # "open"
    BY <1>15 DEF CloseDB
  <2>2. pc'[p] \in {"nilDB", "done"}
    BY <1>1, <1>15 DEF CloseDB
  <2>3. FileLeft'[p] = FileLeft[p]
    BY <1>2, <2>1, <2>2
  <2>4. QED
    BY <1>4, <2>1, <2>3
<1>16. QED
  BY <1>5, <1>6, <1>7, <1>8, <1>9, <1>10, <1>11, <1>12, <1>13, <1>14, <1>15
  DEF Acts, WriteAll, CloseStep

(* A step of a goroutine moves records from the buffer to its batch and    *)
(* from there to the sinks, each once.                                     *)
LEMMA OnceStep ==
  ASSUME LocalInv, LocalInv', OnceInv, NEW p \in Writers, Acts(p)
  PROVE  OnceInv'
<1> DEFINE A == Range(accepted)
           B == Range(buf)
           fileWhole == fileState = "open" /\ "file" \notin failed
           tableWhole == dbState = "open" /\ "table" \notin failed
<1>1. /\ IsInjective(buf) /\ \A q \in Writers : IsInjective(recs[q])
      /\ Sink(A, B, file, FileLeft, fileWhole)
      /\ Sink(A, B, table, TableLeft, tableWhole)
  BY DEF OnceInv, FileOnce, TableOnce
<1>2. /\ \A q \in Writers \ {p} : /\ recs'[q] = recs[q]
                                  /\ FileLeft'[q] = FileLeft[q]
                                  /\ TableLeft'[q] = TableLeft[q]
      /\ TableLeft[p] = Range(recs[p])
  BY LeftElsewhere, LeftAt
<1>3. A' = A
  BY DEF Acts, Flush, LoopReturns, WriteAll, CheckFile, Encode, CheckPG, Transact,
         Close, CloseStep, StopFlusher, WaitReturns, CloseFile, CloseDB
<1>4. /\ file \in Seq(Records) /\ IsInjective(file) /\ table \in Seq(Records)
      /\ IsInjective(table) /\ recs[p] \in Seq(Records)
      /\ A = Range(accepted) /\ Range(file) \cap B = {} /\ Range(table) \cap B = {}
      /\ FileLeft[p] \cap B = {} /\ FileLeft[p] \cap Range(file) = {}
      /\ TableLeft[p] \cap B = {} /\ TableLeft[p] \cap Range(table) = {}
  BY <1>1 DEF Sink, LocalInv, TypeOK
<1>5. IsInjective(<<>>) /\ Range(<<>>) = {}
  BY DEF IsInjective, Range
<1> HIDE DEF A, B, fileWhole, tableWhole
<1>6. SUFFICES /\ IsInjective(buf') /\ IsInjective(recs'[p])
               /\ Sink(A, B', file', FileLeft', fileWhole')
               /\ Sink(A, B', table', TableLeft', tableWhole')
  <2>1. \A q \in Writers \ {p} : IsInjective(recs'[q])
    BY <1>1, <1>2
  <2>2. ASSUME IsInjective(recs'[p]) PROVE \A q \in Writers : IsInjective(recs'[q])
    BY <2>1, <2>2
  <2>3. /\ FileOnce' <=> Sink(A', B', file', FileLeft', fileWhole')
        /\ TableOnce' <=> Sink(A', B', table', TableLeft', tableWhole')
    BY DEF FileOnce, TableOnce, A, B, fileWhole, tableWhole
  <2>4. QED
    BY <1>3, <2>2, <2>3 DEF OnceInv
<1>a. ASSUME FileLeft'[p] \cap B' = {}, FileLeft'[p] \cap Range(file) = {}, file' = file,
             Range(file) \cap B' = {},
             B' \cup FileLeft'[p] \subseteq B \cup FileLeft[p],
             fileWhole' => fileWhole /\ B \cup FileLeft[p] \subseteq B' \cup FileLeft'[p]
      PROVE  Sink(A, B', file', FileLeft', fileWhole')
  BY <1>1, <1>2, <1>4, <1>a, SinkMoves
<1>b. ASSUME TableLeft'[p] \cap B' = {}, TableLeft'[p] \cap Range(table) = {},
             table' = table, Range(table) \cap B' = {},
             B' \cup TableLeft'[p] \subseteq B \cup TableLeft[p],
             tableWhole' => tableWhole /\ B \cup TableLeft[p] \subseteq B' \cup TableLeft'[p]
      PROVE  Sink(A, B', table', TableLeft', tableWhole')
  BY <1>1, <1>2, <1>4, <1>b, SinkMoves
<1>7. CASE Takes(p)
  <2>1. /\ IsInjective(buf') /\ IsInjective(recs'[p]) /\ B' = {}
        /\ FileLeft[p] = {} /\ TableLeft[p] = {} /\ FileLeft'[p] = B /\ TableLeft'[p] = B
        /\ file' = file /\ table' = table
        /\ fileWhole' = fileWhole /\ tableWhole' = tableWhole
    BY <1>1, <1>5, <1>7 DEF Takes, B, fileWhole, tableWhole
  <2>2. QED
    BY <1>4, <1>a, <1>b, <2>1
<1>8. CASE Keeps(p)
  <2>1. /\ IsInjective(buf') /\ IsInjective(recs'[p]) /\ B' = B
        /\ FileLeft'[p] = FileLeft[p] /\ TableLeft'[p] = TableLeft[p]
        /\ file' = file /\ table' = table
        /\ fileWhole' => fileWhole
        /\ tableWhole' => tableWhole
    BY <1>1, <1>8 DEF Keeps, Holds, B, fileWhole, tableWhole
  <2>2. QED
    BY <1>4, <1>a, <1>b, <2>1
<1>9. CASE Drops(p)
  <2>1. /\ IsInjective(buf') /\ IsInjective(recs'[p]) /\ B' = B
        /\ FileLeft'[p] = {} /\ TableLeft'[p] = TableLeft[p]
        /\ file' = file /\ table' = table
        /\ ~fileWhole' /\ tableWhole' = tableWhole
    BY <1>1, <1>9 DEF Drops, Holds, B, fileWhole, tableWhole
  <2>2. QED
    BY <1>4, <1>a, <1>b, <2>1
<1>10. CASE Leaves(p)
  <2>1. /\ IsInjective(buf') /\ IsInjective(recs'[p]) /\ B' = B
        /\ FileLeft[p] = {} /\ FileLeft'[p] = {} /\ TableLeft'[p] = {}
        /\ file' = file /\ table' = table
        /\ fileWhole' = fileWhole /\ ~tableWhole'
    BY <1>1, <1>5, <1>10 DEF Leaves, Ends, B, fileWhole, tableWhole
  <2>2. QED
    BY <1>4, <1>a, <1>b, <2>1
<1>11. CASE Encodes(p)
  <2>1. /\ IsInjective(buf') /\ IsInjective(recs'[p]) /\ B' = B
        /\ TableLeft'[p] = TableLeft[p] /\ table' = table
        /\ fileWhole' = fileWhole /\ tableWhole' = tableWhole
    BY <1>1, <1>11 DEF Encodes, Holds, B, fileWhole, tableWhole
  <2>2. PICK e \in Records : /\ file' = Append(file, e)
                             /\ FileLeft[p] = {e} \cup FileLeft'[p]
                             /\ e \notin FileLeft'[p]
    BY <1>11 DEF Encodes
  <2>3. e \notin Range(file) /\ e \notin B
    BY <1>4, <2>2
  <2>4. /\ file' \in Seq(Records) /\ Range(file') = Range(file) \cup {e}
        /\ IsInjective(file')
    BY <1>4, <2>2, <2>3, AppendOnce
  <2>5. /\ Range(file') \cap B' = {} /\ Range(file') \cap FileLeft'[p] = {}
        /\ FileLeft'[p] \cap B' = {}
        /\ Range(file') \cup B' \cup FileLeft'[p] = Range(file) \cup B \cup FileLeft[p]
    BY <1>4, <2>1, <2>2, <2>3, <2>4
  <2>6. Sink(A, B', file', FileLeft', fileWhole')
    BY <1>1, <1>2, <2>1, <2>4, <2>5, SinkMoves
  <2>7. QED
    BY <1>4, <1>b, <2>1, <2>6
<1>12. CASE Commits(p)
  <2>1. /\ IsInjective(buf') /\ IsInjective(recs'[p]) /\ B' = B
        /\ FileLeft[p] = {} /\ FileLeft'[p] = {} /\ TableLeft'[p] = {}
        /\ file' = file /\ table' = table \o recs[p]
        /\ fileWhole' = fileWhole /\ tableWhole' = tableWhole
    BY <1>1, <1>5, <1>12 DEF Commits, Ends, B, fileWhole, tableWhole
  <2>2. /\ table' \in Seq(Records) /\ Range(table') = Range(table) \cup TableLeft[p]
        /\ IsInjective(table')
    BY <1>1, <1>2, <1>4, <2>1, ConcatOnce
  <2>3. /\ Range(table') \cap B' = {} /\ Range(table') \cap TableLeft'[p] = {}
        /\ TableLeft'[p] \cap B' = {}
        /\ Range(table') \cup B' \cup TableLeft'[p] = Range(table) \cup B \cup TableLeft[p]
    BY <1>4, <2>1, <2>2
  <2>4. Sink(A, B', table', TableLeft', tableWhole')
    <3>1. /\ Sink(A, B, table, TableLeft, tableWhole)
          /\ \A q \in Writers \ {p} : TableLeft'[q] = TableLeft[q]
          /\ table' \in Seq(Records) /\ IsInjective(table')
      BY <1>1, <1>2, <2>2
    <3>2. tableWhole' => tableWhole
      BY <2>1
    <3>3. QED
      BY <2>3, <3>1, <3>2, SinkMoves
  <2>5. QED
    BY <1>4, <1>a, <2>1, <2>4
<1>13. QED
  BY <1>1, <1>7, <1>8, <1>9, <1>10, <1>11, <1>12, StepMoves

(* Write puts a record that is new into the buffer. *)
LEMMA OnceWrite ==
  ASSUME LocalInv, OnceInv, NEW r \in Records, Write(r)
  PROVE  OnceInv'
<1>1. /\ UNCHANGED <<pc, recs, pos, file, table, fileState, dbState, failed>>
      /\ buf \in Seq(Records) /\ accepted \in Seq(Records)
  BY DEF Write, sinks, LocalInv, TypeOK
<1>2. FileLeft' = FileLeft /\ TableLeft' = TableLeft
  BY <1>1 DEF FileLeft, TableLeft
<1>3. CASE Refuses
  <2>1. UNCHANGED <<buf, accepted>>
    BY <1>3 DEF Write
  <2>2. QED
    BY <1>1, <1>2, <2>1 DEF OnceInv, FileOnce, TableOnce
<1>4. CASE ~Refuses
  <2>1. /\ buf' = Append(buf, r) /\ accepted' = Append(accepted, r)
        /\ r \notin Range(accepted)
    BY <1>4 DEF Write
  <2>2. r \notin Range(buf)
    BY <2>1 DEF OnceInv, FileOnce, Sink
  <2>3. /\ Range(buf') = Range(buf) \cup {r} /\ IsInjective(buf')
        /\ Range(accepted') = Range(accepted) \cup {r}
    BY <1>1, <2>1, <2>2, AppendOnce DEF OnceInv
  <2>4. FileOnce'
    BY <1>1, <1>2, <2>1, <2>3, SinkAccepts DEF OnceInv, FileOnce
  <2>5. TableOnce'
    BY <1>1, <1>2, <2>1, <2>3, SinkAccepts DEF OnceInv, TableOnce
  <2>6. QED
    BY <1>1, <2>3, <2>4, <2>5 DEF OnceInv
<1>5. QED
  BY <1>3, <1>4

(* Before the first step there is no record. *)
LEMMA OnceInit == Init => OnceInv
<1> SUFFICES ASSUME Init PROVE OnceInv
  OBVIOUS
<1>1. /\ buf = <<>> /\ accepted = <<>> /\ file = <<>> /\ table = <<>>
      /\ \A p \in Writers : pc[p] = "idle" /\ recs[p] = <<>>
  BY DEF Init
<1>2. IsInjective(<<>>) /\ Range(<<>>) = {} /\ <<>> \in Seq(Records)
  BY EmptySeq DEF IsInjective, Range
<1>3. \A p \in Writers : FileLeft[p] = {} /\ TableLeft[p] = {}
  BY <1>1, <1>2 DEF FileLeft, TableLeft
<1>4. \A whole, rest : (\A p \in Writers : rest[p] = {}) => Sink({}, {}, <<>>, rest, whole)
  BY <1>2 DEF Sink
<1>5. FileOnce /\ TableOnce
  BY <1>1, <1>2, <1>3, <1>4 DEF FileOnce, TableOnce
<1>6. QED
  BY <1>1, <1>2, <1>5 DEF OnceInv

(* However many goroutines flush and close at the same time, no record is  *)
(* written twice to a sink, and no sink holds a record that Write did not  *)
(* accept; and as long as a sink is open and had no error of its own, each *)
(* accepted record that it does not hold is in the buffer or in a batch    *)
(* that some goroutine has not finished (audit.go:201-331, 337-371).       *)
THEOREM WrittenOnce ==
  Spec => [](/\ IsInjective(file) /\ IsInjective(table)
             /\ Range(file) \cup Range(table) \subseteq Range(accepted)
             /\ \A e \in Range(accepted) :
                  /\ fileState = "open" /\ "file" \notin failed =>
                       \/ e \in Range(file) \cup Range(buf)
                       \/ \E p \in Writers : e \in FileLeft[p]
                  /\ dbState = "open" /\ "table" \notin failed =>
                       \/ e \in Range(table) \cup Range(buf)
                       \/ \E p \in Writers : e \in Range(recs[p]))
<1> DEFINE Once == /\ IsInjective(file) /\ IsInjective(table)
                   /\ Range(file) \cup Range(table) \subseteq Range(accepted)
                   /\ \A e \in Range(accepted) :
                        /\ fileState = "open" /\ "file" \notin failed =>
                             \/ e \in Range(file) \cup Range(buf)
                             \/ \E p \in Writers : e \in FileLeft[p]
                        /\ dbState = "open" /\ "table" \notin failed =>
                             \/ e \in Range(table) \cup Range(buf)
                             \/ \E p \in Writers : e \in Range(recs[p])
<1>1. LocalInv /\ LocalInv' /\ OnceInv /\ [Next]_vars => OnceInv'
  <2> SUFFICES ASSUME LocalInv, LocalInv', OnceInv, [Next]_vars PROVE OnceInv'
    OBVIOUS
  <2>1. CASE UNCHANGED vars
    BY <2>1 DEF vars, sinks, OnceInv, FileOnce, TableOnce, FileLeft, TableLeft
  <2>2. CASE \E r \in Records : Write(r)
    BY <2>2, OnceWrite
  <2>3. CASE \E p \in Writers : Acts(p)
    BY <2>3, OnceStep
  <2>4. QED
    BY <2>1, <2>2, <2>3, Actors
<1>2. OnceInv => Once
  <2> SUFFICES ASSUME OnceInv PROVE Once
    OBVIOUS
  <2>1. \A p \in Writers : TableLeft[p] = Range(recs[p])
    BY DEF TableLeft
  <2>2. QED
    BY <2>1 DEF OnceInv, FileOnce, TableOnce, Sink
<1> HIDE DEF Once
<1>3. Spec => []Once
  BY <1>1, <1>2, OnceInit, LocalHolds, PTL DEF Spec
<1>4. QED
  BY <1>3 DEF Once

-----------------------------------------------------------------------------
(* No crash with the ticker alone *)

(* Without PostgreSQL nobody begins a transaction. *)
CrashInv == /\ ~panic
            /\ ~UsePG => /\ dbState = "nil"
                         /\ \A p \in Writers : pc[p] \notin {"tx", "closeDB", "nilDB"}

(* When the ticker alone flushes, no transaction finds a nil handle. *)
LEMMA CrashStep ==
  ASSUME Flushers = {Ticker}, WriterInv, CrashInv, NEW p \in Writers, Acts(p)
  PROVE  CrashInv'
<1>1. /\ pc'[p] \in PCs /\ \A q \in Writers \ {p} : pc'[q] = pc[q]
      /\ pc \in [Writers -> PCs]
  BY OtherPCs DEF WriterInv, LocalInv, TypeOK
<1>2. SUFFICES /\ ~panic'
               /\ ~UsePG => dbState' = "nil" /\ pc'[p] \notin {"tx", "closeDB", "nilDB"}
  BY <1>1 DEF CrashInv
<1>3. /\ ~panic
      /\ ~UsePG => dbState = "nil" /\ pc[p] \notin {"tx", "closeDB", "nilDB"}
  BY DEF CrashInv
<1>4. CASE Transact(p)
  <2>1. pc[p] = "tx" /\ UsePG
    BY <1>3, <1>4 DEF Transact
  <2>2. dbState = "open"
    BY <2>1, WriterFirst DEF Writing
  <2>3. QED
    BY <1>3, <1>4, <2>1, <2>2 DEF Transact
<1>5. CASE CheckPG(p)
  <2>1. UNCHANGED <<panic, dbState>>
    BY <1>5 DEF CheckPG, sinks
  <2>2. ~UsePG => pc'[p] \in {"idle", "closeFile"}
    BY <1>1, <1>3, <1>5 DEF CheckPG, Returned
  <2>3. QED
    BY <1>3, <2>1, <2>2
<1>6. CASE CloseFile(p)
  <2>1. UNCHANGED <<panic, dbState>>
    BY <1>6 DEF CloseFile
  <2>2. ~UsePG => pc'[p] \in {"nilFile", "done"}
    BY <1>1, <1>3, <1>6 DEF CloseFile
  <2>3. QED
    BY <1>3, <2>1, <2>2
<1>7. CASE CloseDB(p)
  <2>1. UNCHANGED panic /\ UsePG
    BY <1>3, <1>7 DEF CloseDB
  <2>2. QED
    BY <1>3, <2>1
<1>8. CASE Encode(p)
  <2>1. UNCHANGED <<panic, dbState>> /\ pc[p] = "encode"
    BY <1>8 DEF Encode
  <2>2. \/ pc' = [pc EXCEPT ![p] = IF pos[p] = Len(recs[p]) THEN "pg" ELSE @]
        \/ pc' = [pc EXCEPT ![p] = "pg"]
    BY <1>8 DEF Encode, AfterError
  <2>3. pc'[p] \in {"encode", "pg"}
    BY <1>1, <2>1, <2>2
  <2>4. QED
    BY <1>3, <2>1, <2>3
<1>9. CASE Flush(p) \/ LoopReturns \/ CheckFile(p) \/ Close(p) \/ WaitReturns(p)
  <2>1. UNCHANGED <<panic, dbState>>
    BY <1>9 DEF Flush, LoopReturns, CheckFile, Close, WaitReturns, sinks
  <2>2. \E q \in Writers, a \in {"idle", "write", "done", "pg", "encode", "wait", "closeFile"} :
          pc' = [pc EXCEPT ![q] = a]
    BY <1>9, TickerAlone DEF Flush, LoopReturns, CheckFile, Close, WaitReturns
  <2>3. pc'[p] = pc[p] \/ pc'[p] \notin {"tx", "closeDB", "nilDB"}
    BY <1>1, <2>2
  <2>4. QED
    BY <1>3, <2>1, <2>3
<1>10. CASE StopFlusher(p)
  BY <1>3, <1>10 DEF StopFlusher, sinks
<1>11. QED
  BY <1>4, <1>5, <1>6, <1>7, <1>8, <1>9, <1>10 DEF Acts, WriteAll, CloseStep

(* A nil database handle is used only when some other goroutine than the   *)
(* ticker flushes while Close runs: with the ticker alone the process does *)
(* not crash, however many goroutines call Close (audit.go:224-263, 308,   *)
(* 340).                                                                   *)
THEOREM TickerNeverCrashes ==
  ASSUME Flushers = {Ticker}
  PROVE  Spec => []FlushDuringCloseIsSafe
<1>1. Init => CrashInv
  BY DEF Init, CrashInv
<1>2. LocalInv /\ ClosingInv /\ CrashInv /\ [Next]_vars => CrashInv'
  <2> SUFFICES ASSUME LocalInv, ClosingInv, CrashInv, [Next]_vars PROVE CrashInv'
    OBVIOUS
  <2>1. CASE UNCHANGED vars
    BY <2>1 DEF vars, sinks, CrashInv
  <2>2. CASE \E r \in Records : Write(r)
    BY <2>2 DEF Write, sinks, CrashInv
  <2>3. CASE \E p \in Writers : Acts(p)
    BY <2>3, CrashStep DEF WriterInv
  <2>4. QED
    BY <2>1, <2>2, <2>3, Actors
<1>3. Init => ClosingInv
  BY WriterInvInit DEF WriterInv
<1>4. LocalInv /\ ClosingInv /\ [Next]_vars => ClosingInv'
  BY ClosingStep
<1>5. CrashInv => FlushDuringCloseIsSafe
  BY DEF CrashInv, FlushDuringCloseIsSafe
<1>6. QED
  BY <1>1, <1>2, <1>3, <1>4, <1>5, LocalHolds, PTL DEF Spec
=============================================================================
