------------------------------ MODULE CallQueue ------------------------------
(* One call's dispatch queue (b2bua/src/dispatch/queue.rs and class.rs): the *)
(* events waiting for the call's worker, in FIFO order, with the depth, the  *)
(* overflow ceiling and the lifetime cap. An operation is a function from a  *)
(* queue to a queue.                                                         *)
(*                                                                           *)
(* An entry is the call's release or an item, told apart by its class; what  *)
(* an item carries is the dispatcher's (Dispatch). Metrics, and what a       *)
(* discard owes its sender, are left out.                                    *)
EXTENDS Naturals, Sequences

CONSTANTS Depth,        \* items the queue proper holds; also the overflow ceiling
          LifetimeCap   \* counted offers a call may receive over its life

ASSUME QueueAssumption == Depth \in Nat \ {0} /\ LifetimeCap \in Nat

Classes ==
    {"InitialInvite", "EmergencyInvite", "InDialogInvite", "Ack", "OtherRequest",
     "StrayCancel", "Response", "TxnOutcome", "Cancelled", "Timer", "Internal"}

\* The dispatch table: DispatchClass::row.
IsNewCall(class) == class \in {"InitialInvite", "EmergencyInvite"}
AlwaysRoom(class) == class \in {"TxnOutcome", "Timer", "Internal", "Release"}
PastBounds(class) == class = "Cancelled"
Bounded(class) == ~AlwaysRoom(class) /\ ~PastBounds(class)
CountsToCap(class) == class \notin {"Timer", "Internal"}
AdmittedWhenCapped(class) == AlwaysRoom(class) \/ class \in {"Response", "Cancelled"}

NewQueue ==
    [entries |-> <<>>, released |-> FALSE, nextCall |-> FALSE, waiting |-> 0,
     offered |-> 0, nextOffered |-> 0, capped |-> FALSE]

Full(q) == Len(q.entries) >= Depth

\* CallQueue::count, of a counted offer ahead of the release.
Crosses(q, class) ==
    CountsToCap(class) /\ ~q.released /\ ~q.capped /\ q.offered + 1 > LifetimeCap

\* A new call behind the release, and every offer after it, wait for the
\* call's next queue.
WaitsForNext(q, class) == q.released /\ (q.nextCall \/ IsNewCall(class))

\* One more counted offer; past the cap they are all alike.
CountOne(n) == IF n > LifetimeCap THEN n ELSE n + 1

\* The counters of an offer, whatever becomes of it.
Noted(q, class) ==
    [q EXCEPT !.offered = IF CountsToCap(class) /\ ~q.released THEN CountOne(@) ELSE @,
              !.capped = @ \/ Crosses(q, class),
              !.nextOffered = IF CountsToCap(class) /\ WaitsForNext(q, class)
                              THEN CountOne(@) ELSE @]

\* Why an offer is handed back unrun, read once its counters are noted.
Discard(n, class) ==
    IF ~WaitsForNext(n, class) /\ n.capped /\ ~AdmittedWhenCapped(class) THEN "Capped"
    ELSE IF ~WaitsForNext(n, class) /\ n.released THEN "Released"
    ELSE IF Full(n) /\ Bounded(class) THEN "QueueFull"
    ELSE IF Full(n) /\ PastBounds(class) /\ n.waiting >= Depth THEN "Ceiling"
    ELSE "none"

\* CallQueue::offer, of an item offered and not handed back.
Queued(n, item) ==
    [n EXCEPT !.entries = Append(@, item),
              !.nextCall = @ \/ WaitsForNext(n, item.class),
              !.waiting = IF Full(n) /\ PastBounds(item.class) THEN @ + 1 ELSE @]

\* Variant: a crossing offer that is itself handed back tells nobody.
Offer_QuietRefusal(q, item) ==
    LET n   == Noted(q, item.class)
        why == Discard(n, item.class)
    IN  [queue   |-> IF why = "none" THEN Queued(n, item) ELSE n,
         why     |-> why,
         crossed |-> why = "none" /\ Crosses(q, item.class)]

Offer(q, item) ==
    LET n   == Noted(q, item.class)
        why == Discard(n, item.class)
    IN  [queue   |-> IF why = "none" THEN Queued(n, item) ELSE n,
         why     |-> why,
         crossed |-> Crosses(q, item.class)]

ReleaseEntry == [class |-> "Release"]

NewCalls(q) == {i \in DOMAIN q.entries : IsNewCall(q.entries[i].class)}

\* VecDeque::insert.
InsertedAt(s, at, e) == SubSeq(s, 1, at - 1) \o <<e>> \o SubSeq(s, at, Len(s))

\* Variant: the release always goes last.
Release_AtTheBack(q) ==
    IF q.released THEN q
    ELSE [q EXCEPT !.released = TRUE, !.entries = Append(@, ReleaseEntry)]

\* Variant: a past-bounds item the release pushes into the overflow is not counted.
Release_MovesUncounted(q) ==
    IF q.released THEN q
    ELSE IF NewCalls(q) = {}
    THEN [q EXCEPT !.released = TRUE, !.entries = Append(@, ReleaseEntry)]
    ELSE LET at == CHOOSE i \in NewCalls(q) : \A j \in NewCalls(q) : i <= j
         IN  [q EXCEPT !.released = TRUE, !.nextCall = TRUE,
                       !.entries = InsertedAt(@, at, ReleaseEntry)]

\* CallQueue::release: behind every item queued, or in front of the first new
\* call, which waits behind it with every item after it. Cutting in can move
\* the last past-bounds entry of the queue proper into the overflow.
Release(q) ==
    IF q.released THEN q
    ELSE IF NewCalls(q) = {}
    THEN [q EXCEPT !.released = TRUE, !.entries = Append(@, ReleaseEntry)]
    ELSE LET at    == CHOOSE i \in NewCalls(q) : \A j \in NewCalls(q) : i <= j
             moves == at <= Depth /\ Full(q) /\ PastBounds(q.entries[Depth].class)
         IN  [q EXCEPT !.released = TRUE, !.nextCall = TRUE,
                       !.entries = InsertedAt(@, at, ReleaseEntry),
                       !.waiting = IF moves THEN @ + 1 ELSE @]

\* CallQueue::pop, of a queue with an entry: the overflow's oldest entry, if
\* any, moves into the queue proper.
Popped(q) ==
    LET rest == Tail(q.entries)
    IN  [q EXCEPT !.entries = rest,
                  !.waiting = IF Len(rest) >= Depth /\ PastBounds(rest[Depth].class)
                              THEN @ - 1 ELSE @]

\* CallQueue::reopen, of a queue whose release was taken and that is not empty.
Reopened(q) ==
    [q EXCEPT !.released = FALSE, !.nextCall = FALSE, !.capped = FALSE,
              !.offered = q.nextOffered, !.nextOffered = 0]

-----------------------------------------------------------------------------
(* What a queue keeps. *)

\* The past-bounds items of the overflow.
Overflowing(q) == {i \in (Depth + 1)..Len(q.entries) : PastBounds(q.entries[i].class)}

\* The places of the release.
Releases(q) == {i \in DOMAIN q.entries : q.entries[i].class = "Release"}

=============================================================================
