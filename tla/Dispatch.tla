------------------------------- MODULE Dispatch -------------------------------
(* The per-call dispatcher of a worker and the call reaper that watches it:  *)
(* b2bua/src/dispatch (mod.rs, worker.rs), the turns of router/process.rs,   *)
(* initial_turn.rs and release.rs as far as they open, end and release a     *)
(* call, and b2bua/src/reaper.rs.                                            *)
(*                                                                           *)
(* A call reference c has at most one queue (slots), one worker task that    *)
(* runs its items one at a time, and one resident call (call). The router    *)
(* task offers events and the verdicts posted by the reaper; the reaper's    *)
(* ledgers are keyed by the call reference. A reference is used again: an    *)
(* INVITE that arrives once its call ended opens another call on it.         *)
EXTENDS CallQueue, FiniteSets

CONSTANTS Calls,         \* call references
          Concurrency,   \* shared permits: bodies that run at once
          NewCallShare,  \* permits of initial INVITEs
          QueueCap,      \* queues past which a bounded class opens none
          Headroom,      \* queues the initial INVITEs leave free below QueueCap
          SweepAhead,    \* bound: verdicts a sweep finds waiting on a queue that moves
          Budgets        \* bound: how often each outside event happens

ASSUME DispatchAssumption ==
    /\ IsFiniteSet(Calls)
    /\ Concurrency \in Nat \ {0} /\ NewCallShare \in 1..Concurrency
    /\ QueueCap \in Nat \ {0} /\ Headroom \in 0..(QueueCap - 1)

VARIABLES slots,    \* the queue of each call reference, or NoQueue
          worker,   \* its worker task
          ringing,  \* an entry was queued and the worker is yet to be woken
          call,     \* the call resident on the reference
          posted,   \* reaper verdicts in the router's re-entry channel
          ledger,   \* the reaper's ledgers
          halted,   \* InFlight::halted
          late,     \* bodies started since the halt (history)
          budget

vars == <<slots, worker, ringing, call, posted, ledger, halted, late, budget>>

-----------------------------------------------------------------------------
(* Items, calls, workers and ledgers. *)

NoQueue == [closed |-> TRUE]

\* An item: its dispatch class, what its turn does, and for a timer or a
\* stale verdict what it is checked against: the call it was armed for, or the
\* liveness stamp the sweep read.
Item(class, kind, check) == [class |-> class, kind |-> kind, check |-> check]
NoItem == Item("Internal", "none", 0)

VerdictKinds == {"fatal", "discharge", "overflow", "cap", "stale"}
Verdict(kind) == Item("Internal", kind, 0)

NoCall == [stage |-> "none", born |-> 0, stamp |-> 0, timer |-> FALSE, idle |-> FALSE]
Resident(c) == call[c].stage # "none"

NoWorker == [at |-> "none", item |-> NoItem, abort |-> FALSE, wake |-> FALSE]
InBody(c) == worker[c].at \in {"body", "hung", "ending"}
Open(c) == slots[c] # NoQueue

\* Notify::notify_one: a waiting task runs on, else the wake is kept.
Woken(w) ==
    IF w.at = "asleep" THEN [w EXCEPT !.at = "pop"] ELSE [w EXCEPT !.wake = w.at # "none"]

\* heard: no cap of the reference was in the ledger when its queue was capped,
\* and no report of an aborted body was held back since with the call not
\* condemned (history).
CleanLedger ==
    [strikes |-> 0, attempts |-> 0, condemned |-> FALSE, condemnedAttempts |-> 0,
     overflowAbort |-> FALSE, capped |-> FALSE, heard |-> FALSE]

\* An outside event happens to a call.
Spend(c, field) ==
    /\ c \in budget.calls /\ budget[field] > 0
    /\ budget' = [budget EXCEPT ![field] = @ - 1]

-----------------------------------------------------------------------------
(* The router task: offers, one at a time. *)

RouterFree == ~halted /\ \A c \in Calls : ~ringing[c]

\* Class::opens_queue_below.
Threshold(class) == IF class = "InitialInvite" THEN QueueCap - Headroom ELSE QueueCap

AtCap(c, class) ==
    ~Open(c) /\ Bounded(class) /\ Cardinality({d \in Calls : Open(d)}) >= Threshold(class)

\* An INVITE of the reference waits for its turn, admitted (ctx.unborn).
Unborn(c) ==
    \/ worker[c].item.kind = "invite"
    \/ Open(c) /\ \E i \in DOMAIN slots[c].entries :
          slots[c].entries[i] = Item("InitialInvite", "invite", 0)

\* PerCallDispatcher::offer, then Reaper::on_lifetime_cap and
\* on_overflow_ceiling; box is the re-entry channel the offer was taken from.
\* A queue opened starts its worker.
OfferTo(c, item, box) ==
    IF AtCap(c, item.class)
    THEN /\ posted' = [posted EXCEPT ![c] = box]
         /\ UNCHANGED <<slots, worker, ringing, ledger>>
    ELSE LET q       == IF Open(c) THEN slots[c] ELSE NewQueue
             o       == Offer(q, item)
             crossed == o.crossed /\ ~ledger[c].capped
             ceiling == o.why = "Ceiling" /\ ~ledger[c].condemned
         IN  /\ slots' = [slots EXCEPT ![c] = o.queue]
             /\ worker' = IF Open(c) THEN worker
                          ELSE [worker EXCEPT ![c] = [NoWorker EXCEPT !.at = "pop"]]
             /\ ringing' = [ringing EXCEPT ![c] = o.why = "none"]
             /\ ledger' = [ledger EXCEPT
                   ![c].capped = @ \/ crossed,
                   ![c].heard = IF o.queue.capped /\ ~q.capped THEN ~ledger[c].capped ELSE @,
                   ![c].condemned = @ \/ ceiling]
             /\ posted' = [posted EXCEPT
                   ![c] = box \o (IF crossed THEN <<Verdict("cap")>> ELSE <<>>)
                              \o (IF ceiling THEN <<Verdict("overflow")>> ELSE <<>>)]

Arrive(c, item) ==
    /\ RouterFree
    /\ OfferTo(c, item, posted[c])
    /\ UNCHANGED <<call, halted, late>>

\* An initial INVITE, and a copy of one of a call here or about to be.
Invite(c) == Spend(c, "invite") /\ Arrive(c, Item("InitialInvite", "invite", 0))
InviteCopy(c) ==
    /\ Resident(c) \/ Unborn(c)
    /\ Spend(c, "copy")
    /\ Arrive(c, Item("InitialInvite", "copy", 0))

\* A request inside the call, whether or not the call is still here.
Request(c) == Spend(c, "request") /\ Arrive(c, Item("OtherRequest", "request", 0))

\* The transaction layer's report of a CANCEL, of an INVITE it had taken.
Cancelled(c) ==
    /\ Unborn(c) \/ call[c].born > 0
    /\ Spend(c, "cancelled")
    /\ Arrive(c, Item("Cancelled", "cancelled", 0))

\* The TerminatingTimeout timer of a call fires.
TimerFires(c) ==
    /\ RouterFree
    /\ call[c].timer
    /\ OfferTo(c, Item("Timer", "timer", call[c].born), posted[c])
    /\ call' = [call EXCEPT ![c].timer = FALSE]
    /\ UNCHANGED <<halted, late, budget>>

\* The router takes a verdict from its re-entry channel.
TakeVerdict(c) ==
    /\ RouterFree
    /\ posted[c] # <<>>
    /\ OfferTo(c, Head(posted[c]), Tail(posted[c]))
    /\ UNCHANGED <<call, halted, late, budget>>

\* Variant: a wake with no worker waiting is dropped.
Ring_NotKept(c) ==
    /\ ringing[c]
    /\ ringing' = [ringing EXCEPT ![c] = FALSE]
    /\ worker' = [worker EXCEPT ![c].at = IF @ = "asleep" THEN "pop" ELSE @]
    /\ UNCHANGED <<slots, call, posted, ledger, halted, late, budget>>

\* Slot::wake, once the locks are dropped: a worker not waiting yet finds it at
\* its next wait. A worker that left meanwhile took its slot's wake with it.
Ring(c) ==
    /\ ringing[c]
    /\ ringing' = [ringing EXCEPT ![c] = FALSE]
    /\ worker' = [worker EXCEPT ![c] = Woken(@)]
    /\ UNCHANGED <<slots, call, posted, ledger, halted, late, budget>>

-----------------------------------------------------------------------------
(* The worker of a call: worker::run. *)

\* Nothing queued: the queue's lock is dropped before the worker waits, and a
\* wake kept since is taken at once.
FindsNone(c) ==
    /\ worker[c].at = "pop" /\ slots[c].entries = <<>>
    /\ worker' = [worker EXCEPT ![c].at = "empty"]
    /\ UNCHANGED <<slots, ringing, call, posted, ledger, halted, late, budget>>

Sleep(c) ==
    /\ worker[c].at = "empty"
    /\ worker' = [worker EXCEPT ![c].at = IF worker[c].wake THEN "pop" ELSE "asleep",
                               ![c].wake = FALSE]
    /\ UNCHANGED <<slots, ringing, call, posted, ledger, halted, late, budget>>

HeadIs(c, release) ==
    slots[c].entries # <<>> /\ (Head(slots[c].entries) = ReleaseEntry) = release

\* Variant: the slot leaves the map whatever waits behind the release.
TakeRelease_NeverReopens(c) ==
    /\ worker[c].at = "pop" /\ HeadIs(c, TRUE)
    /\ slots' = [slots EXCEPT ![c] = NoQueue]
    /\ worker' = [worker EXCEPT ![c] = NoWorker]
    /\ UNCHANGED <<ringing, call, posted, ledger, halted, late, budget>>

\* Under the map lock: what waits behind the release opens the next queue, or
\* the slot leaves the map and the worker exits.
TakeRelease(c) ==
    /\ worker[c].at = "pop" /\ HeadIs(c, TRUE)
    /\ LET q == Popped(slots[c])
       IN  IF q.entries # <<>>
           THEN slots' = [slots EXCEPT ![c] = Reopened(q)] /\ UNCHANGED worker
           ELSE /\ slots' = [slots EXCEPT ![c] = NoQueue]
                /\ worker' = [worker EXCEPT ![c] = NoWorker]
    /\ UNCHANGED <<ringing, call, posted, ledger, halted, late, budget>>

\* Variant: an item taken is run whether or not the node halted.
TakeItem_IgnoresHalt(c) ==
    /\ worker[c].at = "pop" /\ HeadIs(c, FALSE)
    /\ LET item == Head(slots[c].entries)
       IN  /\ slots' = [slots EXCEPT ![c] = Popped(@)]
           /\ worker' = [worker EXCEPT
                 ![c].at = IF item.class = "InitialInvite" THEN "share" ELSE "pool",
                 ![c].item = item]
    /\ UNCHANGED <<ringing, call, posted, ledger, halted, late, budget>>

\* An item taken: the worker of a halted node exits, the queue left in the
\* map; another waits for the permits of the item's pool.
TakeItem(c) ==
    /\ worker[c].at = "pop" /\ HeadIs(c, FALSE)
    /\ LET item == Head(slots[c].entries)
       IN  /\ slots' = [slots EXCEPT ![c] = Popped(@)]
           /\ worker' = [worker EXCEPT ![c] =
                 IF halted THEN NoWorker
                 ELSE [@ EXCEPT !.at = IF item.class = "InitialInvite" THEN "share" ELSE "pool",
                                !.item = item]]
    /\ UNCHANGED <<ringing, call, posted, ledger, halted, late, budget>>

\* Permits held for a body's whole run; a new call takes its share's first.
HoldsShare(c) ==
    worker[c].item.class = "InitialInvite" /\ (worker[c].at = "pool" \/ InBody(c))

\* Variant: the share is sized as the shared pool.
AcquireShare_Unshared(c) ==
    /\ worker[c].at = "share"
    /\ Cardinality({d \in Calls : HoldsShare(d)}) < Concurrency
    /\ worker' = [worker EXCEPT ![c].at = "pool"]
    /\ UNCHANGED <<slots, ringing, call, posted, ledger, halted, late, budget>>

AcquireShare(c) ==
    /\ worker[c].at = "share"
    /\ Cardinality({d \in Calls : HoldsShare(d)}) < NewCallShare
    /\ worker' = [worker EXCEPT ![c].at = "pool"]
    /\ UNCHANGED <<slots, ringing, call, posted, ledger, halted, late, budget>>

\* The shared permit; the body is spawned at once, and enters the bodies a
\* halt or the reaper can abort.
AcquirePool(c) ==
    /\ worker[c].at = "pool"
    /\ Cardinality({d \in Calls : InBody(d)}) < Concurrency
    /\ worker' = [worker EXCEPT ![c].at = "body"]
    /\ late' = [late EXCEPT ![c] = @ + IF halted THEN 1 ELSE 0]
    /\ UNCHANGED <<slots, ringing, call, posted, ledger, halted, budget>>

-----------------------------------------------------------------------------
(* The turns: how a body opens, keeps and ends the call. *)

\* Variant: the handle of a body that ended stays among those in flight.
Idle_KeepsHandle(c, w) == [w EXCEPT ![c].at = "pop", ![c].item = NoItem]

\* The body is done: the worker drops its permits and pops again.
Idle(c, w) == [w EXCEPT ![c].at = "pop", ![c].item = NoItem, ![c].abort = FALSE]

Returns(c) == worker' = Idle(c, worker)

\* CallState::touch: SIP was received, or sent by the turn. Only a stamp a
\* sweep may have read is told from the next.
Touched(k) == [k EXCEPT !.stamp = IF k.idle THEN @ + 1 ELSE @, !.idle = FALSE]

\* release_call under way: the call, if any, has left the map (drop_local), its
\* timers are cancelled and the queue's release is still to come.
Ends(c) ==
    /\ worker' = [worker EXCEPT ![c].at = "ending"]
    /\ call' = [call EXCEPT ![c] = [Touched(@) EXCEPT !.stage = "none", !.timer = FALSE]]

\* What is left of a call once its turn ran: as it was, or its teardown begun
\* on the wire with the TerminatingTimeout armed, or the call ended.
Stays(c, k) == call' = [call EXCEPT ![c] = k] /\ Returns(c)
TearsDown(c, k) ==
    /\ k.stage = "active"
    /\ Stays(c, [Touched(k) EXCEPT !.stage = "terminating", !.timer = TRUE])

\* initial_invite_turn: a call resident on the identity keeps its queue, a copy
\* with no call releases it, an INVITE is born or refused unborn.
InviteTurn(c) ==
    \/ Resident(c) /\ Stays(c, Touched(call[c]))
    \/ ~Resident(c) /\ Ends(c)
    \/ /\ ~Resident(c) /\ worker[c].item.kind = "invite"
       /\ Stays(c, [Touched(call[c]) EXCEPT !.stage = "active", !.born = @ + 1])

\* A request or a CANCEL report: with no call here the queue is released, else
\* the rules keep the call, tear it down or end it.
DialogTurn(c) ==
    LET k == IF worker[c].item.kind = "request" THEN Touched(call[c]) ELSE call[c]
    IN  \/ Resident(c) /\ (Stays(c, k) \/ TearsDown(c, k))
        \/ Ends(c)

\* The TerminatingTimeout ends its own call and no later one.
TimerTurn(c) ==
    IF Resident(c) /\ call[c].born # worker[c].item.check
    THEN Stays(c, call[c])
    ELSE Ends(c)

\* reaper::verdict_confirmed.
Confirmed(c, v) == Resident(c) /\ (v.kind = "stale" => v.check = call[c].stamp)

\* Variant: a verdict on a call that is gone leaves the queue it opened.
VerdictTurn_KeepsQueue(c) ==
    LET v == worker[c].item
    IN  IF ~Confirmed(c, v) THEN Stays(c, call[c])
        ELSE IF v.kind \in {"discharge", "stale"} THEN Ends(c)
        ELSE \/ TearsDown(c, call[c])
             \/ call[c].stage = "active" /\ Ends(c)
             \/ call[c].stage = "terminating" /\ v.kind # "overflow" /\ Ends(c)
             \/ call[c].stage = "terminating" /\ v.kind = "overflow" /\ Stays(c, call[c])

\* reaper_verdict_gate and the reaper rules. Not confirmed: nothing, or with
\* no call here the queue is released. A discharge and a stale verdict end the
\* call. The others tear an active call down, which ends it at once when no
\* leg has anything to be told; of a call already terminating, an overflow
\* verdict does nothing and the others end it.
VerdictTurn(c) ==
    LET v == worker[c].item
    IN  IF ~Resident(c) THEN Ends(c)
        ELSE IF ~Confirmed(c, v) THEN Stays(c, call[c])
        ELSE IF v.kind \in {"discharge", "stale"} THEN Ends(c)
        ELSE \/ TearsDown(c, call[c])
             \/ call[c].stage = "active" /\ Ends(c)
             \/ call[c].stage = "terminating" /\ v.kind # "overflow" /\ Ends(c)
             \/ call[c].stage = "terminating" /\ v.kind = "overflow" /\ Stays(c, call[c])

Turn(c) ==
    /\ worker[c].at = "body"
    /\ LET kind == worker[c].item.kind
       IN  \/ kind \in {"invite", "copy"} /\ InviteTurn(c)
           \/ kind \in {"request", "cancelled"} /\ DialogTurn(c)
           \/ kind = "timer" /\ TimerTurn(c)
           \/ kind \in VerdictKinds /\ VerdictTurn(c)
    /\ UNCHANGED <<slots, ringing, posted, ledger, halted, late, budget>>

\* release_call reaches PerCallDispatcher::release, and its turn returns.
QueueRelease(c) ==
    /\ worker[c].at = "ending"
    /\ slots' = [slots EXCEPT ![c] = Release(@)]
    /\ worker' = Idle(c, [worker EXCEPT ![c].wake = TRUE])
    /\ UNCHANGED <<ringing, call, posted, ledger, halted, late, budget>>

\* A resident call's body waits for something that never comes.
Hang(c) ==
    /\ worker[c].at = "body" /\ Resident(c)
    /\ Spend(c, "hang")
    /\ worker' = [worker EXCEPT ![c].at = "hung"]
    /\ UNCHANGED <<slots, ringing, call, posted, ledger, halted, late>>

-----------------------------------------------------------------------------
(* The reaper. *)

\* Reaper::failure_hook, of a strike: fatal-error first, then discharge.
Strikes(c) ==
    /\ ledger' = [ledger EXCEPT ![c].strikes = IF @ = 0 THEN 1 ELSE 2]
    /\ posted' = [posted EXCEPT ![c] = Append(@,
          Verdict(IF ledger[c].strikes = 0 THEN "fatal" ELSE "discharge"))]

\* A body panics; the worker survives it and reports it.
Panic(c) ==
    /\ worker[c].at \in {"body", "ending"}
    /\ Spend(c, "panic")
    /\ Strikes(c)
    /\ Returns(c)
    /\ UNCHANGED <<slots, ringing, call, halted, late>>

\* An abort takes effect: reported as a strike, unless the overflow ladder
\* asked for it.
Aborted(c) ==
    /\ InBody(c) /\ worker[c].abort
    /\ IF ledger[c].overflowAbort
       THEN /\ ledger' = [ledger EXCEPT ![c].overflowAbort = FALSE,
                                        ![c].heard = @ /\ ledger[c].condemned]
            /\ UNCHANGED posted
       ELSE Strikes(c)
    /\ Returns(c)
    /\ UNCHANGED <<slots, ringing, call, halted, late, budget>>

EscalateAbortAfter == 2
EscalateDischargeAfter == 4

\* One more attempt; past the last rung they are all alike.
Attempt(n) == IF n > EscalateDischargeAfter THEN n ELSE n + 1

\* Variant: the overflow ladder has no abort rung.
Climb_NoOverflowAbort(st, ladder, verdict, body) ==
    LET a        == Attempt(st.led[ladder])
        overflow == ladder = "condemnedAttempts"
        aborts   == a > EscalateAbortAfter /\ a <= EscalateDischargeAfter /\ ~overflow
    IN  [led   |-> [st.led EXCEPT ![ladder] = a],
         box   |-> Append(st.box, IF a > EscalateDischargeAfter
                                  THEN Verdict("discharge") ELSE verdict),
         abort |-> st.abort \/ (aborts /\ body)]

\* Reaper::climb, one rung of a ladder: the verdict, then the verdict and the
\* body in flight aborted, then the discharge alone. st is what the sweep
\* wrote so far; body: the call has one in flight.
Climb(st, ladder, verdict, body) ==
    LET a        == Attempt(st.led[ladder])
        overflow == ladder = "condemnedAttempts"
        aborts   == a > EscalateAbortAfter /\ a <= EscalateDischargeAfter
    IN  [led   |-> [st.led EXCEPT ![ladder] = a,
                                  !.overflowAbort = IF aborts /\ overflow THEN body ELSE @],
         box   |-> Append(st.box, IF a > EscalateDischargeAfter
                                  THEN Verdict("discharge") ELSE verdict),
         abort |-> st.abort \/ (aborts /\ body)]

\* The verdicts waiting on a call's queue.
Waiting(c) ==
    IF Open(c) THEN Cardinality({i \in DOMAIN slots[c].entries :
                                   slots[c].entries[i].class = "Internal"})
    ELSE 0

\* Bound: the period of the sweep, seconds, is long beside a turn. What the
\* last sweep posted and aborted is taken, and a body that is not hung has let
\* the queue move on; behind a hung one, each sweep past the ladder's last rung
\* adds one more discharge.
SweepDue(c) ==
    /\ posted[c] = <<>> /\ ~worker[c].abort
    /\ Waiting(c) <= SweepAhead + (IF worker[c].at = "hung" THEN EscalateDischargeAfter ELSE 0)

\* What a sweep finds of a call: the condemned ledger keeps active calls only.
StaysCondemned(c) == ledger[c].condemned /\ call[c].stage = "active"

Found(c) ==
    [led   |-> [ledger[c] EXCEPT !.condemned = StaysCondemned(c)],
     box   |-> posted[c],
     abort |-> worker[c].abort]

\* A stale call climbs its ladder, then a condemned one its own.
StaleClimbed(c) ==
    IF Resident(c) /\ call[c].idle
    THEN Climb(Found(c), "attempts", Item("Internal", "stale", call[c].stamp), InBody(c))
    ELSE Found(c)

Swept(c) ==
    IF StaysCondemned(c)
    THEN Climb(StaleClimbed(c), "condemnedAttempts", Verdict("overflow"), InBody(c))
    ELSE StaleClimbed(c)

\* Reaper::sweep_once, of one call; the ledgers of a call not resident are
\* pruned.
Sweep(c) ==
    /\ ~halted
    /\ SweepDue(c)
    /\ ledger' = [ledger EXCEPT ![c] = IF Resident(c) THEN Swept(c).led
                                       ELSE [CleanLedger EXCEPT !.heard = ledger[c].heard]]
    /\ posted' = [posted EXCEPT ![c] = Swept(c).box]
    /\ worker' = [worker EXCEPT ![c].abort = Swept(c).abort]
    /\ UNCHANGED <<slots, ringing, call, halted, late, budget>>

\* The call has seen no SIP for idle_max: stale until it does.
GoesIdle(c) ==
    /\ Resident(c) /\ ~call[c].idle /\ ~halted
    /\ Spend(c, "idle")
    /\ call' = [call EXCEPT ![c].idle = TRUE]
    /\ UNCHANGED <<slots, worker, ringing, posted, ledger, halted, late>>

\* The node's fence closes (stop_ctx): router and sweep stop, and InFlight::halt
\* aborts every body in flight.
Halt ==
    /\ ~halted
    /\ budget.halt > 0
    /\ budget' = [budget EXCEPT !.halt = @ - 1]
    /\ halted' = TRUE
    /\ worker' = [c \in Calls |-> [worker[c] EXCEPT !.abort = InBody(c)]]
    /\ UNCHANGED <<slots, ringing, call, posted, ledger, late>>

-----------------------------------------------------------------------------
(* The specification. *)

DispatchInit ==
    /\ slots = [c \in Calls |-> NoQueue]
    /\ worker = [c \in Calls |-> NoWorker]
    /\ ringing = [c \in Calls |-> FALSE]
    /\ call = [c \in Calls |-> NoCall]
    /\ posted = [c \in Calls |-> <<>>]
    /\ ledger = [c \in Calls |-> CleanLedger]
    /\ halted = FALSE
    /\ late = [c \in Calls |-> 0]
    /\ budget \in Budgets

Outside(c) ==
    \/ Invite(c) \/ InviteCopy(c) \/ Request(c) \/ Cancelled(c)
    \/ Hang(c) \/ Panic(c) \/ GoesIdle(c)

Router(c) == Ring(c) \/ TakeVerdict(c) \/ TimerFires(c)

Work(c) ==
    \/ FindsNone(c) \/ Sleep(c) \/ TakeRelease(c) \/ TakeItem(c)
    \/ AcquireShare(c) \/ AcquirePool(c)
    \/ Turn(c) \/ QueueRelease(c)

DispatchNext == Halt \/ \E c \in Calls : Outside(c) \/ Router(c) \/ Work(c) \/ Aborted(c) \/ Sweep(c)

\* Each task runs on: the router takes what is posted and due, a worker runs
\* its queue and a body that is not hung ends, an abort takes effect at the
\* body's next await, and the sweep is periodic.
DispatchFairness ==
    \A c \in Calls :
        /\ WF_vars(Ring(c)) /\ WF_vars(TakeVerdict(c)) /\ WF_vars(TimerFires(c))
        /\ WF_vars(Work(c)) /\ WF_vars(Aborted(c)) /\ WF_vars(Sweep(c))

DispatchSpec == DispatchInit /\ [][DispatchNext]_vars /\ DispatchFairness

-----------------------------------------------------------------------------
(* Properties. *)

Kinds == {"none", "invite", "copy", "request", "cancelled", "timer"} \cup VerdictKinds

Items ==
    {i \in [class : Classes, kind : Kinds, check : Nat] :
        i.kind \in VerdictKinds => i.class = "Internal"}

IsQueue(q) ==
    /\ DOMAIN q = DOMAIN NewQueue
    /\ \A i \in DOMAIN q.entries : q.entries[i] \in Items \cup {ReleaseEntry}
    /\ {q.released, q.nextCall, q.capped} \subseteq BOOLEAN
    /\ {q.waiting, q.offered, q.nextOffered} \subseteq Nat

\* Queues, workers, calls and ledgers have the shape of their types, a worker
\* has an item exactly while it waits for permits or runs a body, and only a
\* body in flight is aborted.
DispatchTypeOK ==
    \A c \in Calls :
        /\ Open(c) => IsQueue(slots[c])
        /\ worker[c].item \in Items /\ worker[c].wake \in BOOLEAN
        /\ worker[c].at \in {"none", "pop", "empty", "asleep"} <=> worker[c].item = NoItem
        /\ worker[c].abort => InBody(c)
        /\ \A i \in DOMAIN posted[c] : posted[c][i] \in Items /\ posted[c][i].kind \in VerdictKinds
        /\ call[c].stage \in {"none", "active", "terminating"}
        /\ call[c].timer => call[c].stage = "terminating"
        /\ ledger[c].attempts <= EscalateDischargeAfter + 1

\* The overflow is counted exactly: `waiting` is the past-bounds items behind
\* the queue proper through every offer, pop and release that moves an entry
\* across that line, and a release cutting in takes it at most one past the
\* ceiling. A drift would refuse CANCEL reports for ever or lift the ceiling.
WaitingExact ==
    \A c \in Calls : Open(c) =>
        /\ slots[c].waiting = Cardinality(Overflowing(slots[c]))
        /\ slots[c].waiting <= Depth + 1

\* What waits behind a release opens the next queue: a released queue holds
\* its release once, every new call is behind it, and directly behind it is a
\* new call or nothing (reopen's debug assertion). Otherwise the INVITE of the
\* next call would run on, or be discarded with, the ended one's queue.
ReleaseLeadsNewCalls ==
    \A c \in Calls : Open(c) =>
        LET q == slots[c]
        IN  /\ q.released <=> Cardinality(Releases(q)) = 1
            /\ \A r \in Releases(q) :
                  /\ \A i \in NewCalls(q) : i > r
                  /\ r < Len(q.entries) => IsNewCall(q.entries[r + 1].class)
                  /\ q.nextCall <=> r < Len(q.entries)

\* No entry is stranded while the node runs: a queue in the map has its
\* worker, and a worker that waits, or is about to, over a queued entry has a
\* wake kept for it or about to be rung.
NothingStranded ==
    ~halted => \A c \in Calls :
        /\ Open(c) <=> worker[c].at # "none"
        /\ worker[c].at \in {"empty", "asleep"} /\ slots[c].entries # <<>>
              => worker[c].wake \/ ringing[c]

\* Bodies run within the permits, and initial INVITEs hold at most their share
\* of them, so the rest stays free for calls already here however many new
\* ones wait.
NewCallsKeepToShare ==
    /\ Cardinality({c \in Calls : InBody(c)}) <= Concurrency
    /\ Cardinality({c \in Calls : InBody(c) /\ worker[c].item.class = "InitialInvite"})
          <= NewCallShare

\* Once the node halted, a worker starts at most the one item it had taken
\* before: halt's flag is read when an item is taken, not when its permits
\* come.
HaltRunsAtMostOne == \A c \in Calls : late[c] <= 1

\* What may still end an active call: a verdict other than a stale one on its
\* way or in its turn, or its place among the condemned.
Sentenced(c) ==
    LET ending(i) == i.class = "Internal" /\ i.kind \in VerdictKinds \ {"stale"}
    IN  \/ \E i \in DOMAIN posted[c] : ending(posted[c][i])
        \/ \E i \in DOMAIN slots[c].entries :
              slots[c].entries[i].class = "Internal" /\ ending(slots[c].entries[i])
        \/ ending(worker[c].item)
        \/ ledger[c].condemned

\* A call whose queue refuses its requests at the lifetime cap.
CappedCall(c) ==
    Open(c) /\ slots[c].capped /\ ~slots[c].released /\ call[c].stage = "active" /\ ~halted

\* A capped call the reaper heard of is on its way out: the crossing offer's
\* verdict is sent and never lost, whichever way that offer went and whatever
\* turn panics, hangs or is aborted in between. The reaper does not hear of a
\* call whose reference its ledger still holds from an earlier call.
CappedIsSentenced == \A c \in Calls : CappedCall(c) /\ ledger[c].heard => Sentenced(c)

\* Every capped call is on its way out: "its caller must end the call: nothing
\* else ends a capped call" (Dispatcher::with_lifetime_cap).
EveryCappedCallIsSentenced == \A c \in Calls : CappedCall(c) => Sentenced(c)

\* A queue leaves the map only when its release was its last entry: what an
\* offer queued behind the release is never dropped with the slot.
LeavesTheMapEmpty ==
    [][\A c \in Calls : Open(c) /\ slots'[c] = NoQueue => slots[c].entries = <<ReleaseEntry>>]_vars

\* A call that flooded its overflow past the ceiling stops being active, even
\* when its body hangs: the sweep's ladder aborts the body and its verdict
\* runs.
CondemnedCallEnds ==
    \A c \in Calls :
        (ledger[c].condemned /\ call[c].stage = "active") ~> (call[c].stage # "active" \/ halted)

\* A queue with no call does not stay: the turn of a verdict, a timer, a copy
\* or a request that finds its call gone releases the queue it was offered to.
QueueOfNoCallCloses ==
    \A c \in Calls : (Open(c) /\ ~Resident(c)) ~> (~Open(c) \/ Resident(c) \/ halted)

=============================================================================
