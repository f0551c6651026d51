----------------------------- MODULE LimiterFlow -----------------------------
(* The call limiter end to end: the store (LimiterStore), the calls that ask *)
(* it for admission and follow what it states (call/src/model/limiter.rs),   *)
(* and the worker's side of it (b2bua/src/limiter): the admits awaited on or *)
(* off a call's turn, the release queue, the refresh batch and the breaker.  *)
(* Requests may be lost, answered late, or land after the worker gave up on  *)
(* them; the limiter may restart empty; the worker may crash, and its calls  *)
(* be materialised elsewhere from a copy that is behind.                     *)
EXTENDS LimiterStore

CONSTANTS
    Epoch,      \* CHANGE_EPOCH, scaled down
    Chain,      \* admits one failure consult may send (FAILURE_CHAIN)
    Cap,        \* entries the release queue and the refresh batch hold
    Budgets     \* bounds: what a behaviour may do, and how often

\* A behaviour is bounded in the calls it creates and in its steps of these
\* kinds: sets replaced by a service, failure consults, requests given up,
\* breaker trips, restarts of the limiter and crashes of the worker.
AllBudgets ==
    [calls : SUBSET Keys, replace : Nat, consult : Nat, giveup : Nat, trip : Nat,
     restart : Nat, crash : Nat]

ASSUME FlowAssumption ==
    /\ Epoch \in Nat \ {0} /\ Chain \in Nat \ {0} /\ Cap \in Nat \ {0}
    /\ Budgets \subseteq AllBudgets

VARIABLES
    call,       \* key -> the call and its limiter state (CallLimiterState)
    copy,       \* key -> the state the call's backup holds, or NoCall
    consult,    \* key -> the failure consult under way, or NoConsult
    reqs,       \* requests in flight, or answered and the answer on its way
    due,        \* refresh batch: key -> the entry waiting, or NoEntry
    flight,     \* refresh batch: key -> the entry of the request in flight
    queue,      \* release queue, oldest entry first
    open,       \* the limiter client's breaker is open
    budget,     \* how many of each bounded step are left
    recreated   \* ids a set was re-created on, with no cap check (history)

workerVars == <<call, copy, consult, due, flight, queue, open>>
vars == <<store, call, copy, consult, reqs, due, flight, queue, open, budget, recreated>>

-----------------------------------------------------------------------------
(* The call's limiter state. *)

\* CallLimiterState::uncounted, of a call in `stage'.
Uncounted(stage) ==
    [stage |-> stage, owed |-> FALSE, sent |-> FALSE, consults |-> 0,
     held |-> <<>>, heldChange |-> 0, change |-> 0]

NoCall == Uncounted("none")
NoConsult == [first |-> 0, depth |-> 0, held |-> NoHeld, mayHold |-> FALSE,
              phase |-> "none"]
NoEntry == [held |-> NoHeld, left |-> 0]

Counted(c) == c.held # <<>>
MayHold(c) == c.sent \/ c.consults > 0 \/ Counted(c)
HeldBy(c)  == [change |-> c.heldChange, entries |-> c.held]

\* reserve_changes: the call's counter after n more numbers.
Reserved(c, n) == [c EXCEPT !.change = @ + n]

\* The counter stays inside the holder's epoch.
RoomFor(c, n) == (c.change % Epoch) + n < Epoch

\* Variant: a call restored on another node goes on numbering where its copy was.
EnterEpoch_Stays(c) == c

EnterEpoch(c) == [c EXCEPT !.change = (@ \div Epoch + 1) * Epoch]

\* Variant: an older statement is taken too, under the newer number.
ApplyHeld_TakesOlder(c, held) ==
    [c EXCEPT !.change = Larger(@, held.change), !.held = held.entries,
              !.heldChange = Larger(@, held.change)]

\* apply_held: a statement not older than the one held came from.
ApplyHeld(c, held) ==
    LET n == [c EXCEPT !.change = Larger(@, held.change)]
    IN  IF held.change < c.heldChange THEN n
        ELSE [n EXCEPT !.heldChange = held.change, !.held = held.entries]

\* apply_admit of a report: what was asked under `change', and what came back.
ApplyAdmit(c, change, outcome, held) ==
    LET sent == outcome # "notsent"
        n == [c EXCEPT !.owed = @ \/ sent, !.sent = @ \/ sent, !.change = Larger(@, change)]
    IN  IF outcome \in {"admitted", "rejected", "superseded"} THEN ApplyHeld(n, held)
        ELSE IF outcome = "released" THEN [n EXCEPT !.held = <<>>]
        ELSE n

\* apply_fold: a route fold closes the consult it answers.
CloseConsult(c) == [c EXCEPT !.consults = IF @ > 0 THEN @ - 1 ELSE 0]

\* Variant: only a re-registration is taken from a refresh's answer.
ApplyRefresh_OnlyReregistered(c, outcome, held) ==
    IF outcome # "reregistered" \/ held.change < c.heldChange THEN c ELSE ApplyHeld(c, held)

\* apply_refresh: an answer older than held, or stating none, changes nothing.
ApplyRefresh(c, outcome, held) ==
    IF outcome = "released" \/ held.change < c.heldChange THEN c ELSE ApplyHeld(c, held)

-----------------------------------------------------------------------------
(* The release queue and the refresh batch. *)

\* expire: the entries are in queue order, so the ones given up lead.
Live(q) == SubSeq(q, Cardinality({i \in DOMAIN q : \A j \in 1..i : q[j].left = 0}) + 1, Len(q))

\* Variant: a full queue gives up nothing.
RoomForOne_Grows(q) == q

\* The last Cap - 1 entries: a push onto a full queue gives up the oldest.
RoomForOne(q) == IF Len(q) < Cap THEN q ELSE SubSeq(q, Len(q) - Cap + 2, Len(q))

\* ReleaseQueue::push: the entries past their lease go, and a key already
\* waiting stays one entry.
Pushed(q, k) ==
    LET l == Live(q)
    IN  IF \E i \in DOMAIN l : l[i].key = k THEN l
        ELSE Append(RoomForOne(l), [key |-> k, left |-> Lease, sending |-> FALSE])

\* LimiterWorker::release: the push tells the refresh batch to forget the key,
\* the entry in flight included.
Forgotten(entries, k) == [entries EXCEPT ![k] = NoEntry]

\* Variant: the entry in flight is not forgotten.
Release_KeepsFlight(k) ==
    /\ queue' = Pushed(queue, k)
    /\ due' = Forgotten(due, k)
    /\ UNCHANGED flight

Release(k) ==
    /\ queue' = Pushed(queue, k)
    /\ due' = Forgotten(due, k)
    /\ flight' = Forgotten(flight, k)

KeepQueues == UNCHANGED <<queue, due, flight>>

Waiting(entries) == {k \in Keys : entries[k] # NoEntry}

\* Entries given up after a lease.
Expired(entries) == [k \in Keys |-> IF entries[k].left = 0 THEN NoEntry ELSE entries[k]]

\* put_back: every entry in flight waits again, unless marked again meanwhile.
PutBack == [k \in Keys |-> IF due[k] # NoEntry THEN due[k] ELSE flight[k]]

-----------------------------------------------------------------------------
(* Requests. *)

AdmitReq(k, site, change, held, entries, ror) ==
    [op |-> "admit", key |-> k, site |-> site, change |-> change, held |-> held,
     entries |-> entries, ror |-> ror, waited |-> TRUE, phase |-> "out",
     outcome |-> "none", states |-> NoHeld]

RefreshReq(carried) ==
    [op |-> "refresh", carried |-> carried, waited |-> TRUE, phase |-> "out",
     outcomes |-> [k \in DOMAIN carried |-> "none"],
     states |-> [k \in DOMAIN carried |-> NoHeld]]

ReleaseReq(K) == [op |-> "release", keys |-> K, waited |-> TRUE, phase |-> "out"]

Awaited(op) == {m \in reqs : m.op = op /\ m.waited}

\* A call awaiting its initial admit runs no other turn.
AwaitingInitial(k) == \E m \in Awaited("admit") : m.key = k /\ m.site = "initial"

Runs(k) == call[k].stage = "active" /\ ~AwaitingInitial(k)

\* The task that awaited m stops: what has not landed yet still may.
Abandoned(m) ==
    (reqs \ {m}) \cup (IF m.phase = "out" THEN {[m EXCEPT !.waited = FALSE]} ELSE {})

Spend(step) == budget[step] > 0 /\ budget' = [budget EXCEPT ![step] = @ - 1]

\* Giving up on a request whose connection is lost is no fault of its own.
CountGiveUp(m) ==
    /\ IF m.phase = "dead" THEN UNCHANGED budget ELSE Spend("giveup")
    /\ reqs' = Abandoned(m)

-----------------------------------------------------------------------------
(* Admits. *)

FlowInit ==
    /\ StoreInit
    /\ call = [k \in Keys |-> NoCall]
    /\ copy = [k \in Keys |-> NoCall]
    /\ consult = [k \in Keys |-> NoConsult]
    /\ due = [k \in Keys |-> NoEntry]
    /\ flight = [k \in Keys |-> NoEntry]
    /\ queue = <<>>
    /\ open = FALSE
    /\ budget \in Budgets
    /\ reqs = {}
    /\ recreated = {}

\* An open breaker answers an admit itself: nothing leaves.
SendAdmit(m) == reqs' = IF open THEN reqs ELSE reqs \cup {m}

\* admit_route: the initial route's admit, awaited on the turn that creates
\* the call; a route stating no limiter sends none.
Initial(k, entries) ==
    LET c == Uncounted("active")
    IN  /\ call[k].stage = "none" /\ k \in budget.calls
        /\ IF entries = <<>>
           THEN call' = [call EXCEPT ![k] = c] /\ UNCHANGED reqs
           ELSE /\ call' = [call EXCEPT ![k] = Reserved(c, 1)]
                /\ SendAdmit(AdmitReq(k, "initial", c.change + 1, HeldBy(c), entries, FALSE))
        /\ KeepQueues /\ UNCHANGED <<store, copy, consult, open, budget, recreated>>

\* replace_set: a service replaces the call's set; nothing leaves when nothing
\* is asked and nothing can be held.
Replace(k, entries) ==
    LET c == call[k]
        n == Reserved(c, 1)
    IN  /\ Runs(k) /\ RoomFor(c, 1) /\ Spend("replace")
        /\ IF entries = <<>> /\ ~MayHold(c)
           THEN call' = [call EXCEPT ![k] = n] /\ UNCHANGED reqs
           ELSE /\ call' = [call EXCEPT ![k] = [n EXCEPT !.owed = TRUE, !.sent = TRUE]]
                /\ SendAdmit(AdmitReq(k, "service", n.change, HeldBy(c), entries, FALSE))
        /\ KeepQueues /\ UNCHANGED <<store, copy, consult, open, recreated>>

\* Variant: the release is owed only once the consult's admit is reported.
DispatchConsult_OwesNothing(k) ==
    LET c == call[k]
    IN  /\ Runs(k) /\ consult[k] = NoConsult /\ RoomFor(c, Chain) /\ Spend("consult")
        /\ call' = [call EXCEPT ![k] = [Reserved(c, Chain) EXCEPT !.consults = @ + 1]]
        /\ consult' = [consult EXCEPT ![k] =
                         [first |-> c.change + 1, depth |-> 0, held |-> HeldBy(c),
                          mayHold |-> MayHold(c), phase |-> "asking"]]
        /\ KeepQueues /\ UNCHANGED <<store, copy, reqs, open, recreated>>

\* owe_consult: the turn that dispatches a failure consult reserves one number
\* per admit its chain may send, and owes the release from then on.
DispatchConsult(k) ==
    LET c == call[k]
    IN  /\ Runs(k) /\ consult[k] = NoConsult /\ RoomFor(c, Chain) /\ Spend("consult")
        /\ call' = [call EXCEPT ![k] =
                      [Reserved(c, Chain) EXCEPT !.owed = TRUE, !.consults = @ + 1]]
        /\ consult' = [consult EXCEPT ![k] =
                         [first |-> c.change + 1, depth |-> 0, held |-> HeldBy(c),
                          mayHold |-> MayHold(c), phase |-> "asking"]]
        /\ KeepQueues /\ UNCHANGED <<store, copy, reqs, open, recreated>>

\* An admit's report reaches the router: applied on the call's turn; one no
\* call takes releases the key its admit may have counted, unless a node still
\* holds the call's record.
Report(k, fold, change, outcome, held) ==
    IF call[k].stage = "active"
    THEN /\ call' = [call EXCEPT ![k] =
                       ApplyAdmit(IF fold THEN CloseConsult(@) ELSE @, change, outcome, held)]
         /\ KeepQueues
    ELSE /\ UNCHANGED call
         /\ IF outcome # "notsent" /\ copy[k] = NoCall THEN Release(k) ELSE KeepQueues

\* The engine routes the failure: the route's admit carries the consult's held
\* set and drops the call's set if refused; a route stating no limiter sends
\* one only where the limiter may hold something.
Route(k, entries) ==
    LET c == consult[k]
        change == c.first + c.depth
        silent == (entries = <<>> /\ ~c.mayHold) \/ open
    IN  /\ c.phase = "asking"
        /\ IF silent
           THEN /\ consult' = [consult EXCEPT ![k] = NoConsult]
                /\ Report(k, TRUE, change, "notsent", NoHeld)
                /\ UNCHANGED reqs
           ELSE /\ consult' = [consult EXCEPT ![k].phase = "admitting"]
                /\ reqs' = reqs \cup {AdmitReq(k, "consult", change, c.held, entries, TRUE)}
                /\ KeepQueues /\ UNCHANGED call
        /\ UNCHANGED <<store, copy, open, budget, recreated>>

\* The engine answers no route: the fold carries the last refusal's report, or
\* none, and one carrying none closes nothing.
Resolve(k) ==
    LET c == consult[k]
    IN  /\ c.phase = "asking"
        /\ consult' = [consult EXCEPT ![k] = NoConsult]
        /\ IF c.depth = 0 THEN KeepQueues /\ UNCHANGED call
           ELSE Report(k, TRUE, c.first + c.depth - 1, "rejected", c.held)
        /\ UNCHANGED <<store, copy, reqs, open, budget, recreated>>

\* A refused route with a callback context: the engine is asked again.
FollowRefusal(m) ==
    LET c == consult[m.key]
    IN  /\ m.site = "consult" /\ c.phase = "admitting"
        /\ m.outcome = "rejected" /\ c.depth + 1 < Chain
        /\ consult' = [consult EXCEPT ![m.key] =
                         [c EXCEPT !.depth = @ + 1, !.held = m.states,
                                   !.mayHold = m.states.entries # <<>>, !.phase = "asking"]]
        /\ reqs' = reqs \ {m}
        /\ KeepQueues /\ UNCHANGED <<store, call, copy, open, budget, recreated>>

\* The consult's task ends with the admit it awaited.
EndConsult(m) ==
    consult' = IF m.site = "consult" THEN [consult EXCEPT ![m.key] = NoConsult] ELSE consult

AdmitAnswered(m) ==
    /\ EndConsult(m)
    /\ Report(m.key, m.site = "consult", m.change, m.outcome, m.states)
    /\ reqs' = reqs \ {m}
    /\ UNCHANGED <<store, copy, open, budget, recreated>>

\* The admit budget passes, or the connection is lost: it may have landed.
AdmitGivenUp(m) ==
    /\ CountGiveUp(m)
    /\ EndConsult(m)
    /\ Report(m.key, m.site = "consult", m.change, "unavailable", NoHeld)
    /\ UNCHANGED <<store, copy, open, recreated>>

\* The call ends: a key it owes is handed to the release queue on that turn.
End(k) ==
    /\ Runs(k)
    /\ call' = [call EXCEPT ![k].stage = "gone"]
    /\ IF call[k].owed THEN Release(k) ELSE KeepQueues
    /\ UNCHANGED <<store, copy, consult, reqs, open, budget, recreated>>

-----------------------------------------------------------------------------
(* Refreshes. *)

\* The waiting entries a mark of k may give up: the oldest.
Oldest(entries) ==
    {k \in Waiting(entries) : \A q \in Waiting(entries) : entries[k].left <= entries[q].left}

\* RefreshBatch::mark, on the call's LimiterRefresh turn: a key already due
\* takes the latest held set and keeps its place; a key in flight keeps its
\* first mark; a full batch gives up its oldest waiting entry, or this mark.
Mark(k) ==
    LET d     == Expired(due)
        held  == HeldBy(call[k])
        entry == [held |-> held, left |-> IF flight[k] # NoEntry THEN flight[k].left ELSE Lease]
        full  == Cardinality(Waiting(d)) + Cardinality(Waiting(flight)) >= Cap
    IN  /\ Runs(k) /\ Counted(call[k])
        /\ IF d[k] # NoEntry THEN due' = [d EXCEPT ![k].held = held]
           ELSE IF ~full THEN due' = [d EXCEPT ![k] = entry]
           ELSE IF Waiting(d) = {} THEN due' = d
           ELSE \E q \in Oldest(d) : due' = [d EXCEPT ![q] = NoEntry, ![k] = entry]
        /\ UNCHANGED <<store, call, copy, consult, reqs, flight, queue, open, budget, recreated>>

\* take: every key due leaves in one request.
TakeRefreshes ==
    LET d == Expired(due)
        K == Waiting(d)
    IN  /\ ~open /\ Awaited("refresh") = {} /\ K # {}
        /\ flight' = d
        /\ due' = [k \in Keys |-> NoEntry]
        /\ reqs' = reqs \cup {RefreshReq([k \in K |-> d[k].held])}
        /\ UNCHANGED <<store, call, copy, consult, queue, open, budget, recreated>>

\* settle, and each answer handed back applied on its call's turn: a forgotten
\* key's call ended, and an extension of the set sent concerns no call.
RefreshAnswered(m) ==
    LET handed(k) == /\ k \in DOMAIN m.carried /\ flight[k] # NoEntry
                     /\ ~(m.outcomes[k] = "extended" /\ m.states[k] = m.carried[k])
                     /\ call[k].stage = "active"
    IN  /\ call' = [k \in Keys |-> IF handed(k) THEN ApplyRefresh(call[k], m.outcomes[k], m.states[k])
                                    ELSE call[k]]
        /\ flight' = [k \in Keys |-> NoEntry]
        /\ reqs' = reqs \ {m}
        /\ UNCHANGED <<store, copy, consult, due, queue, open, budget, recreated>>

RefreshGivenUp(m) ==
    /\ CountGiveUp(m)
    /\ due' = PutBack
    /\ flight' = [k \in Keys |-> NoEntry]
    /\ UNCHANGED <<store, call, copy, consult, queue, open, recreated>>

-----------------------------------------------------------------------------
(* Releases. *)

\* step: every waiting key leaves in one request.
SendReleases ==
    LET q == Live(queue)
    IN  /\ ~open /\ Awaited("release") = {} /\ q # <<>>
        /\ queue' = [i \in DOMAIN q |-> [q[i] EXCEPT !.sending = TRUE]]
        /\ reqs' = reqs \cup {ReleaseReq({q[i].key : i \in DOMAIN q})}
        /\ UNCHANGED <<store, call, copy, consult, due, flight, open, budget, recreated>>

\* settle: an answered send removes the entries it carried, the oldest, and no
\* later one.
ReleaseAnswered(m) ==
    /\ queue' = SubSeq(queue, Cardinality({i \in DOMAIN queue : queue[i].sending}) + 1, Len(queue))
    /\ reqs' = reqs \ {m}
    /\ UNCHANGED <<store, call, copy, consult, due, flight, open, budget, recreated>>

ReleaseGivenUp(m) ==
    /\ CountGiveUp(m)
    /\ queue' = [i \in DOMAIN queue |-> [queue[i] EXCEPT !.sending = FALSE]]
    /\ UNCHANGED <<store, call, copy, consult, due, flight, open, recreated>>

\* Both senders wake at their first entry's deadline and give up what is past it.
GiveUpExpired ==
    /\ queue' = Live(queue)
    /\ due' = Expired(due)
    /\ <<queue', due'>> # <<queue, due>>
    /\ UNCHANGED <<store, call, copy, consult, reqs, flight, open, budget, recreated>>

-----------------------------------------------------------------------------
(* The limiter. *)

\* The ids of the sets a request re-created on the store st.
Recreated(K, carried) ==
    LET s    == Sweep(store)
        lost == {k \in K : Reregisters(s, k, carried[k].entries)}
    IN  UNION {{carried[k].entries[i].id : i \in DOMAIN carried[k].entries} : k \in lost}

\* The request is served: its task, when it still waits, gets the answer.
LandAdmit(m) ==
    LET a == AdmitCarrying(store, m.key, m.change, m.held, m.entries, m.ror)
    IN  /\ store' = a.store
        /\ recreated' = IF a.outcome \in {"admitted", "rejected"}
                        THEN recreated \cup Recreated({m.key}, [k \in {m.key} |-> m.held])
                        ELSE recreated
        /\ reqs' = (reqs \ {m}) \cup
                      (IF m.waited THEN {[m EXCEPT !.phase = "answered",
                                                   !.outcome = a.outcome, !.states = a.held]}
                       ELSE {})

LandRefresh(m) ==
    LET K == DOMAIN m.carried
        s == RefreshKeys(store, K, m.carried)
        outcomes == [k \in K |-> RefreshOutcome(store, k, m.carried[k])]
    IN  /\ store' = s
        /\ recreated' = recreated \cup Recreated(K, m.carried)
        /\ reqs' = (reqs \ {m}) \cup
                      (IF m.waited THEN {[m EXCEPT !.phase = "answered",
                                                   !.outcomes = outcomes,
                                                   !.states = [k \in K |-> HeldOf(s, k)]]}
                       ELSE {})

LandRelease(m) ==
    /\ store' = ReleaseKeys(store, m.keys)
    /\ UNCHANGED recreated
    /\ reqs' = (reqs \ {m}) \cup
                  (IF m.waited THEN {[m EXCEPT !.phase = "answered"]} ELSE {})

Land(m) ==
    /\ m.phase = "out"
    /\ CASE m.op = "admit"   -> LandAdmit(m)
         [] m.op = "refresh" -> LandRefresh(m)
         [] m.op = "release" -> LandRelease(m)
    /\ UNCHANGED <<workerVars, budget>>

\* A request nobody waits for any more may never arrive.
Vanish(m) ==
    /\ m.phase = "out" /\ ~m.waited
    /\ reqs' = reqs \ {m}
    /\ UNCHANGED <<store, workerVars, budget, recreated>>

\* The janitor, and every read of the gauges.
Janitor ==
    /\ Sweep(store) # store
    /\ StoreSweep
    /\ UNCHANGED <<workerVars, reqs, budget, recreated>>

\* The limiter restarts empty; what had not reached it is lost with its
\* connections.
Restart ==
    /\ Spend("restart") /\ store # EmptyStore
    /\ StoreRestart
    /\ reqs' = {m \in reqs : m.phase # "out"}
                  \cup {[m EXCEPT !.phase = "dead"] : m \in {r \in reqs : r.phase = "out" /\ r.waited}}
    /\ UNCHANGED <<workerVars, recreated>>

-----------------------------------------------------------------------------
(* Time, the breaker, replication, a crash. *)

\* A request lands or is lost within the tick it leaves in: the client's
\* budgets (150 ms to 2 s) are far below the lease.
Tick ==
    /\ ~\E m \in reqs : m.phase = "out"
    /\ StoreTick
    /\ queue' = [i \in DOMAIN queue |-> [queue[i] EXCEPT !.left = Nearer(@)]]
    /\ due' = [k \in Keys |-> [due[k] EXCEPT !.left = Nearer(@)]]
    /\ flight' = [k \in Keys |-> [flight[k] EXCEPT !.left = Nearer(@)]]
    /\ UNCHANGED <<call, copy, consult, reqs, open, budget, recreated>>

\* BreakerLimiter::apply: an open breaker holds the queue and the batch.
Breaker ==
    /\ IF open THEN UNCHANGED budget ELSE Spend("trip")
    /\ open' = ~open
    /\ KeepQueues /\ UNCHANGED <<store, call, copy, consult, reqs, recreated>>

\* The call's last write, or its removal, reaches the backup. A write that no
\* crash follows is never read.
Replicate(k) ==
    LET now == IF call[k].stage = "active" THEN call[k] ELSE NoCall
    IN  /\ call[k].stage \in {"active", "gone"} /\ ~AwaitingInitial(k) /\ copy[k] # now
        /\ budget.crash > 0 \/ now = NoCall
        /\ copy' = [copy EXCEPT ![k] = now]
        /\ KeepQueues /\ UNCHANGED <<store, call, consult, reqs, open, budget, recreated>>

\* The worker dies with its queue, its batch and its tasks.
Crash ==
    /\ Spend("crash")
    /\ call' = [k \in Keys |->
                  IF copy[k] # NoCall THEN [call[k] EXCEPT !.stage = "down"]
                  ELSE IF call[k].stage = "active" THEN [call[k] EXCEPT !.stage = "gone"]
                  ELSE call[k]]
    /\ consult' = [k \in Keys |-> NoConsult]
    /\ due' = [k \in Keys |-> NoEntry]
    /\ flight' = [k \in Keys |-> NoEntry]
    /\ queue' = <<>>
    /\ reqs' = {[m EXCEPT !.waited = FALSE] : m \in {r \in reqs : r.phase = "out"}}
    /\ UNCHANGED <<store, copy, open, recreated>>

\* materialize_if_absent: another node serves the call, in its next epoch.
Materialise(k) ==
    /\ call[k].stage = "down"
    /\ call' = [call EXCEPT ![k] = EnterEpoch(copy[k])]
    /\ KeepQueues /\ UNCHANGED <<store, copy, consult, reqs, open, budget, recreated>>

-----------------------------------------------------------------------------
(* The specification. *)

Answered(m) ==
    /\ m.waited /\ m.phase = "answered"
    /\ CASE m.op = "admit"   -> AdmitAnswered(m) \/ FollowRefusal(m)
         [] m.op = "refresh" -> RefreshAnswered(m)
         [] m.op = "release" -> ReleaseAnswered(m)

GivenUp(m) ==
    /\ m.waited
    /\ CASE m.op = "admit"   -> AdmitGivenUp(m)
         [] m.op = "refresh" -> RefreshGivenUp(m)
         [] m.op = "release" -> ReleaseGivenUp(m)

FlowNext ==
    \/ \E k \in Keys, entries \in Lists :
          Initial(k, entries) \/ Replace(k, entries) \/ Route(k, entries)
    \/ \E k \in Keys : DispatchConsult(k) \/ Resolve(k) \/ End(k)
    \/ \E k \in Keys : Mark(k) \/ Replicate(k) \/ Materialise(k)
    \/ TakeRefreshes
    \/ SendReleases
    \/ GiveUpExpired
    \/ \E m \in reqs : Answered(m) \/ GivenUp(m) \/ Land(m) \/ Vanish(m)
    \/ Janitor
    \/ Restart
    \/ Tick
    \/ Breaker
    \/ Crash

\* The senders, the limiter and the janitor keep running, time passes, a
\* counted call's refresh timer keeps firing and an open breaker's probe
\* closes it. The refresh sender is woken by the mark itself, so it does not
\* sleep through every lease (strong fairness). No fairness on calls, services,
\* give-ups or replication.
FlowFairness ==
    /\ WF_vars(Tick) /\ WF_vars(Janitor) /\ WF_vars(open /\ Breaker)
    /\ SF_vars(TakeRefreshes) /\ WF_vars(SendReleases) /\ WF_vars(GiveUpExpired)
    /\ WF_vars(\E m \in reqs : Land(m))
    /\ WF_vars(\E m \in reqs : Answered(m))
    /\ WF_vars(\E m \in reqs : m.phase = "dead" /\ GivenUp(m))
    /\ \A k \in Keys : WF_vars(Mark(k))

FlowSpec == FlowInit /\ [][FlowNext]_vars /\ FlowFairness

-----------------------------------------------------------------------------
(* Properties. *)

CallStates ==
    [stage : {"none", "active", "gone", "down"}, owed : BOOLEAN, sent : BOOLEAN,
     consults : Nat, held : Lists, heldChange : Nat, change : Nat]

Entries == [held : HeldSets, left : 0..Lease]

ConsultStates ==
    [first : Nat, depth : 0..(Chain - 1), held : HeldSets, mayHold : BOOLEAN,
     phase : {"none", "asking", "admitting"}]

AdmitReqs ==
    [op : {"admit"}, key : Keys, site : {"initial", "service", "consult"},
     change : Nat \ {0}, held : HeldSets, entries : Lists, ror : BOOLEAN, waited : BOOLEAN,
     phase : {"out", "answered", "dead"},
     outcome : {"none", "admitted", "rejected", "superseded", "released"}, states : HeldSets]

RefreshReqs(K) ==
    [op : {"refresh"}, carried : [K -> HeldSets], waited : BOOLEAN,
     phase : {"out", "answered", "dead"},
     outcomes : [K -> {"none", "extended", "reregistered", "dropped", "released"}],
     states : [K -> HeldSets]]

ReleaseReqs ==
    [op : {"release"}, keys : SUBSET Keys, waited : BOOLEAN,
     phase : {"out", "answered", "dead"}]

\* The store, the calls, the worker's queues and the requests are well formed.
FlowTypeOK ==
    /\ StoreTypeOK
    /\ call \in [Keys -> CallStates] /\ copy \in [Keys -> CallStates]
    /\ consult \in [Keys -> ConsultStates]
    /\ \A k \in Keys : consult[k] = NoConsult \/ consult[k].first > 0
    /\ due \in [Keys -> Entries] /\ flight \in [Keys -> Entries]
    /\ queue \in Seq([key : Keys, left : 0..Lease, sending : BOOLEAN])
    /\ Len(queue) <= Cap
    /\ open \in BOOLEAN /\ budget \in AllBudgets /\ recreated \subseteq Ids
    /\ \A m \in reqs : \/ m \in AdmitReqs \cup ReleaseReqs
                       \/ \E K \in SUBSET Keys : m \in RefreshReqs(K)

\* "The next admit is numbered above it" (call/src/model/limiter.rs:50-52):
\* the number a call gives its next admit is above every number the limiter
\* knows for its key and every number of its admits still in flight, its
\* previous holder's included.
NextAdmitIsNewer ==
    \A k \in Keys : call[k].stage = "active" =>
        /\ KnownChange(store, k) <= call[k].change
        /\ \A m \in reqs : m.op = "admit" /\ m.key = k => m.change <= call[k].change

\* A change number names one set: a call that holds a statement under the
\* number the limiter knows the key's set by holds that very set, however the
\* answers were lost or reordered.
SameNumberSameSet ==
    \A k \in Keys :
        (call[k].stage = "active" /\ Counted(call[k]) /\ HasSet(store, k)
         /\ call[k].heldChange = store.calls[k].change)
        => call[k].held = store.calls[k].entries

\* A call that sent an admit request releases its key (ADR-0040, decision 6):
\* while its first holder serves it, no set of the key can be at the limiter,
\* or on its way there off the call's turn, that the call does not owe.
SetIsOwed ==
    \A k \in Keys :
        (Runs(k) /\ call[k].change < Epoch
         /\ (HasSet(store, k) \/ \E m \in reqs : m.op = "admit" /\ m.key = k))
        => call[k].owed

\* An ended call's set is never refreshed after its release was queued
\* (refresh_batch.rs:25-26): the batch keeps no entry of it, and a request
\* that fails puts none back.
EndedNotRefreshed ==
    \A k \in Keys : call[k].stage = "gone" => due[k] = NoEntry /\ flight[k] = NoEntry

\* No sequence of admits, replacements, refusals, lapses and releases takes an
\* id past the highest cap stated for it; only a set re-created for a call
\* already admitted may.
CapHolds ==
    \A id \in Ids \ recreated :
        store.counts[id] > 0 => \E l \in Lists : \E i \in DOMAIN l :
                                  l[i].id = id /\ store.counts[id] <= l[i].limit

\* The lease is the backstop of every release the limiter never received: a
\* call no node serves any more ends up holding nothing, for good.
GoneIsFreed ==
    \A k \in Keys : <>[](call[k].stage \in {"gone", "down"}) => <>[](~HasSet(store, k))

\* "A landed admit whose answer was lost becomes the call's held set at the
\* next refresh at the latest" (ADR-0040, decision 6): the limiter never stays
\* ahead of a call that stays counted. It may stay behind it: a refresh marked
\* before the call's last change re-creates a lost set under its old number.
LostAnswerRepaired ==
    \A k \in Keys :
        <>[](call[k].stage = "active" /\ Counted(call[k]))
        => []<>(\/ HeldBy(call[k]) = HeldOf(store, k)
                \/ KnownChange(store, k) < call[k].heldChange)

=============================================================================
