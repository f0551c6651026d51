----------------------------- MODULE MCLimiter -----------------------------
(* Instances of LimiterFlow for TLC: one id capped at one slot, and budgets   *)
(* that each put one kind of trouble together with the changes it can meet.   *)
EXTENDS LimiterFlow

CONSTANTS k1, k2

\* One list takes both slots of x; the other one is refused to a call that
\* holds none and granted to one that does.
MCEntry(n) == [id |-> "x", limit |-> n]
MCLists == {<<>>, <<MCEntry(2), MCEntry(2)>>, <<MCEntry(0)>>}

\* A budget for the calls of K and the steps `some' names only.
MCBudget(K, some) ==
    [s \in {"calls", "replace", "consult", "giveup", "trip", "restart", "crash"} |->
       IF s = "calls" THEN K ELSE IF s \in DOMAIN some THEN some[s] ELSE 0]

\* Two calls compete for x under a restart, a breaker trip or a lost request;
\* one call meets each pair of faults and changes of its set.
MCBudgets ==
    {MCBudget({k1, k2}, [restart |-> 1]), MCBudget({k1, k2}, [trip |-> 1]),
     MCBudget({k1}, [replace |-> 1, giveup |-> 2]),
     MCBudget({k1}, [consult |-> 1, giveup |-> 1]),
     MCBudget({k1}, [replace |-> 1, consult |-> 1]),
     MCBudget({k1}, [replace |-> 1, restart |-> 1]),
     MCBudget({k1}, [replace |-> 1, crash |-> 1])}

\* One call: what becomes of one key does not depend on another's.
MCLiveBudgets ==
    {MCBudget({k1}, [replace |-> 1, giveup |-> 1]),
     MCBudget({k1}, [replace |-> 1, restart |-> 1]),
     MCBudget({k1}, [trip |-> 1]),
     MCBudget({k1}, [crash |-> 1])}
=============================================================================
