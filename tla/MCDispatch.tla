----------------------------- MODULE MCDispatch -----------------------------
(* Dispatch for TLC: the budgets of outside events, one scenario each, so    *)
(* that every hazard is reached without every combination of them.           *)
EXTENDS Dispatch, TLC

Budget(calls, invite, copy, request, cancelled, hang, panic, idle, halt) ==
    [calls |-> calls, invite |-> invite, copy |-> copy, request |-> request,
     cancelled |-> cancelled, hang |-> hang, panic |-> panic, idle |-> idle, halt |-> halt]

MCCalls == {1, 2}

\* A flood past the overflow ceiling, onto a body that hangs.
Flood == Budget({1}, 1, 0, 0, 5, 1, 0, 0, 0)
\* Two calls in turn on one reference, with CANCELs and a copy.
Reused == Budget({1}, 2, 0, 0, 2, 0, 0, 0, 0)
Copied == Budget({1}, 2, 1, 0, 0, 0, 1, 0, 0)
\* The lifetime cap crossed while a body panics.
Capped == Budget({1}, 1, 0, 3, 0, 0, 1, 0, 0)
\* A call that falls idle, its body hung or not.
Stale == Budget({1}, 1, 0, 1, 0, 1, 0, 1, 0)
\* A halt at any moment.
Halted == Budget({1}, 2, 0, 1, 0, 0, 0, 0, 1)
\* Two references and their share of the permits and queues.
Shared == Budget({1, 2}, 3, 0, 1, 0, 0, 0, 0, 0)

\* Two calls in turn on one reference, each with requests enough to be capped.
CappedInTurn == Budget({1}, 2, 0, 4, 0, 0, 0, 0, 0)

MCBudgets == {Flood, Reused, Copied, Capped, Stale, Halted, Shared, CappedInTurn}

\* The last of them alone.
CappedTwice == {CappedInTurn}

=============================================================================
