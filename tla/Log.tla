--------------------------------- MODULE Log ---------------------------------
(***************************************************************************)
(* What one sink of the audit writer promises.  Records are accepted one   *)
(* by one; the sink logs them in that order, each once; it may lose        *)
(* records that have their turn only by breaking; it is sealed when none   *)
(* is due.                                                                 *)
(***************************************************************************)
EXTENDS Naturals, Sequences, Functions

CONSTANTS Records,  (* what may be logged *)
          Faulty    (* the sink may break *)

VARIABLES accepted, \* the records accepted so far, in order
          due,      \* those that have not had their turn
          log,      \* what the sink holds
          broken,   \* it has lost something
          sealed    \* it was closed

vars == <<accepted, due, log, broken, sealed>>

Init == /\ accepted = <<>> /\ due = <<>> /\ log = <<>>
        /\ broken = FALSE /\ sealed = FALSE

Accept(r) == /\ ~sealed /\ r \notin Range(accepted)
             /\ accepted' = Append(accepted, r)
             /\ due' = Append(due, r)
             /\ UNCHANGED <<log, broken, sealed>>

(* The first n due records have their turn. *)
Turn(n) == due' = SubSeq(due, n + 1, Len(due))

Put(n) == /\ Turn(n)
          /\ log' = log \o SubSeq(due, 1, n)
          /\ UNCHANGED <<accepted, broken, sealed>>

Lose(n) == /\ Faulty
           /\ Turn(n)
           /\ broken' = TRUE
           /\ UNCHANGED <<accepted, log, sealed>>

Seal == /\ due = <<>> /\ ~sealed
        /\ sealed' = TRUE
        /\ UNCHANGED <<accepted, due, log, broken>>

Next == \/ \E r \in Records : Accept(r)
        \/ \E n \in 1 .. Len(due) : Put(n) \/ Lose(n)
        \/ Seal

Spec == Init /\ [][Next]_vars
=============================================================================
