---------------------------- MODULE OrderedOutbox ----------------------------
(* What a call's outbox promises its turns (b2bua/src/router/outbox.rs, the  *)
(* module's doc): the effects the turns queue leave in the order they were   *)
(* queued, none starting before the one ahead of it is out. An entry is lost *)
(* only by a fault while it is sent; when the fault ends the task that sends *)
(* them, what that task holds is lost with it.                               *)
EXTENDS Naturals, Sequences

VARIABLES pending,   \* entries queued and not out yet, oldest first
          pushed,    \* entries queued so far: they are numbered in that order
          out,       \* entries sent, in the order they went out
          faults,    \* faults so far
          broken     \* the task sending the entries died

ordered == <<pending, pushed, out, faults, broken>>

OrderedInit ==
    /\ pending = <<>> /\ out = <<>>
    /\ pushed = 0 /\ faults = 0
    /\ broken = FALSE

QueueEntry ==
    /\ pushed' = pushed + 1
    /\ pending' = Append(pending, pushed')
    /\ UNCHANGED <<out, faults, broken>>

SendHead ==
    /\ pending # <<>>
    /\ pending' = Tail(pending)
    /\ out' = Append(out, Head(pending))
    /\ UNCHANGED <<pushed, faults, broken>>

\* The entry being sent, if any, is lost.
Fault ==
    /\ faults' = faults + 1
    /\ pending' = pending \/ (pending # <<>> /\ pending' = Tail(pending))
    /\ broken' \in {broken, TRUE}
    /\ UNCHANGED <<pushed, out>>

\* The dead task's entries go; one a turn is sending itself does not.
Abandon ==
    /\ broken /\ ~broken'
    /\ \E n \in {0, 1} : n <= Len(pending) /\ pending' = SubSeq(pending, 1, n)
    /\ UNCHANGED <<pushed, out, faults>>

OrderedNext == QueueEntry \/ SendHead \/ Fault \/ Abandon

OrderedSpec == OrderedInit /\ [][OrderedNext]_ordered

=============================================================================
