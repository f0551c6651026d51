---------------------------- MODULE LimiterStore ----------------------------
(* The call limiter's keyed store (crates/call-limiter/src/store.rs): per    *)
(* call key the set of entries the call holds, under the change number of    *)
(* the last admit answered for it and a lease; the live count of every       *)
(* limiter id; the fences and change markers that outlive a set by a lease;  *)
(* and the deadline heaps the sweep works from.                              *)
(*                                                                           *)
(* Instants are kept as the ticks left until them, so that time is unbounded *)
(* and the state finite: StoreTick brings every instant one tick nearer, and *)
(* an instant with no tick left is one `sweep' reads as at or before now.    *)
(* The sets' heap is a set: two equal deadlines of one key act as one. The   *)
(* heaps of the fences and the markers are left out: a fence's or a marker's *)
(* one deadline is the instant it lapses at, and a stale one is skipped.     *)
EXTENDS Integers, FiniteSets, Sequences

CONSTANTS
    Keys,       \* limiter keys, one per call and never reused
    Ids,        \* limiter ids
    Lists,      \* the lists of entries a call may ask for, the empty one included
    Lease       \* the lease, in ticks

ASSUME StoreAssumption ==
    /\ IsFiniteSet(Keys)
    /\ Lease \in Nat \ {0}
    /\ Lists \subseteq Seq([id : Ids, limit : Nat])
    /\ <<>> \in Lists

VARIABLE store

\* HeldSet: a set as an admit, a refresh or an answer states it.
HeldSets == [change : Nat, entries : Lists]

NoHeld == [change |-> 0, entries |-> <<>>]

\* A key holding no set has the empty list: insert_set is never given one.
NoSet == [entries |-> <<>>, change |-> 0, lease |-> 0, pending |-> 0]

NoFence == [why |-> "none", change |-> 0, lapses |-> 0]

\* Change numbers start at 1, so a marker under 0 is none.
NoMarker == [change |-> 0, lapses |-> 0]

EmptyStore ==
    [calls |-> [k \in Keys |-> NoSet], counts |-> [id \in Ids |-> 0],
     fences |-> [k \in Keys |-> NoFence], markers |-> [k \in Keys |-> NoMarker],
     setDeadlines |-> {}]

\* Inner: the store's state.
CallSets == [entries : Lists, change : Nat, lease : 0..Lease, pending : 0..Lease]
Fences   == [why : {"none", "released", "dropped"}, change : Nat, lapses : 0..Lease]
Markers  == [change : Nat, lapses : 0..Lease]

Stores ==
    [calls : [Keys -> CallSets], counts : [Ids -> Nat], fences : [Keys -> Fences],
     markers : [Keys -> Markers], setDeadlines : SUBSET (Nat \X Keys)]

HasSet(st, k) == st.calls[k].entries # <<>>

Larger(a, b) == IF a >= b THEN a ELSE b

-----------------------------------------------------------------------------
(* Counting. *)

\* The places of id in a list: the same id twice takes two slots.
Places(entries, id) == {i \in DOMAIN entries : entries[i].id = id}

\* The slots the sets of the keys K hold on id.
Slots(calls, K, id) == UNION {{k} \X Places(calls[k].entries, id) : k \in K}

Holds(calls, K, id) == Cardinality(Slots(calls, K, id))

\* Variant: the set goes and its holds stay counted.
DropSets_KeepsCounts(st, K) ==
    [st EXCEPT !.calls = [k \in Keys |-> IF k \in K THEN NoSet ELSE st.calls[k]]]

\* drop_set for every key of K: the sets go, and their holds leave the counts.
DropSets(st, K) ==
    [st EXCEPT !.calls = [k \in Keys |-> IF k \in K THEN NoSet ELSE st.calls[k]],
               !.counts = [id \in Ids |-> Larger(st.counts[id] - Holds(st.calls, K, id), 0)]]

\* insert_set for every key of K, none of which holds a set: its entries and
\* number are new[k]'s, its one pending deadline is its lease.
InsertSets(st, K, new) ==
    LET calls == [k \in Keys |->
                    IF k \in K
                    THEN [entries |-> new[k].entries, change |-> new[k].change,
                          lease |-> Lease, pending |-> Lease]
                    ELSE st.calls[k]]
    IN  [st EXCEPT !.calls = calls,
                   !.counts = [id \in Ids |-> st.counts[id] + Holds(calls, K, id)],
                   !.setDeadlines = st.setDeadlines \cup ({Lease} \X K)]

\* fence: K is fenced for `why' until one lease from now.
FenceKeys(st, K, why, change) ==
    [st EXCEPT !.fences = [k \in Keys |->
                             IF k \in K THEN [why |-> why, change |-> change, lapses |-> Lease]
                             ELSE st.fences[k]]]

DropMarkers(st, K) ==
    [st EXCEPT !.markers = [k \in Keys |-> IF k \in K THEN NoMarker ELSE st.markers[k]]]

-----------------------------------------------------------------------------
(* Lapsing. *)

\* The keys whose set's pending deadline the sweep pops.
DueSets(st) == {k \in Keys : HasSet(st, k) /\ st.calls[k].pending = 0
                             /\ <<0, k>> \in st.setDeadlines}

\* Variant: a popped deadline is not pushed again for a lease that moved on.
Sweep_PopsOnce(st) ==
    LET due == DueSets(st)
        s   == DropSets(st, {k \in due : st.calls[k].lease = 0})
    IN  [s EXCEPT
          !.setDeadlines = {d \in st.setDeadlines : d[1] > 0},
          !.fences = [k \in Keys |-> IF st.fences[k].lapses = 0 THEN NoFence ELSE st.fences[k]],
          !.markers = [k \in Keys |-> IF st.markers[k].lapses = 0 THEN NoMarker ELSE st.markers[k]]]

\* sweep: a popped deadline whose lease moved on is pushed again at the lease;
\* every other popped set, every fence and every marker past its lease goes.
Sweep(st) ==
    LET due  == DueSets(st)
        kept == {k \in due : st.calls[k].lease > 0}
        s    == DropSets(st, due \ kept)
    IN  [s EXCEPT
          !.calls = [k \in Keys |-> IF k \in kept
                                    THEN [s.calls[k] EXCEPT !.pending = s.calls[k].lease]
                                    ELSE s.calls[k]],
          !.setDeadlines = {d \in st.setDeadlines : d[1] > 0}
                           \cup {<<st.calls[k].lease, k>> : k \in kept},
          !.fences = [k \in Keys |-> IF st.fences[k].lapses = 0 THEN NoFence ELSE st.fences[k]],
          !.markers = [k \in Keys |-> IF st.markers[k].lapses = 0 THEN NoMarker ELSE st.markers[k]]]

Nearer(n) == IF n > 0 THEN n - 1 ELSE 0

\* One tick of the clock.
Aged(st) ==
    [st EXCEPT
          !.calls = [k \in Keys |-> [st.calls[k] EXCEPT !.lease = Nearer(@), !.pending = Nearer(@)]],
          !.fences = [k \in Keys |-> [st.fences[k] EXCEPT !.lapses = Nearer(@)]],
          !.markers = [k \in Keys |-> [st.markers[k] EXCEPT !.lapses = Nearer(@)]],
          !.setDeadlines = {<<Nearer(d[1]), d[2]>> : d \in @}]

-----------------------------------------------------------------------------
(* What the store knows of a key. *)

Fenced(st, k) == st.fences[k].why # "none"

\* known_change: the set's number, its drop fence's, or its marker's; 0 for none.
KnownChange(st, k) ==
    IF HasSet(st, k) THEN st.calls[k].change
    ELSE IF st.fences[k].why = "dropped" THEN st.fences[k].change
    ELSE st.markers[k].change

HeldOf(st, k) == [change |-> KnownChange(st, k), entries |-> st.calls[k].entries]

Reregisters(st, k, entries) == entries # <<>> /\ ~HasSet(st, k) /\ ~Fenced(st, k)

\* reregister, for every key of K: under the marker's number when it is higher.
ReregisterKeys(st, K, carried) ==
    InsertSets(DropMarkers(st, K), K,
               [k \in K |-> [entries |-> carried[k].entries,
                             change |-> Larger(st.markers[k].change, carried[k].change)]])

\* record_change: on the set, on its drop fence, or on a marker of one lease.
RecordChange(st, k, change) ==
    IF HasSet(st, k) THEN [st EXCEPT !.calls[k].change = change]
    ELSE IF st.fences[k].why = "dropped" THEN [st EXCEPT !.fences[k].change = change]
    ELSE [st EXCEPT !.markers[k] = [change |-> change, lapses |-> Lease]]

-----------------------------------------------------------------------------
(* The operations. Each returns the store it leaves and what it answers. *)

Answer(st, outcome, held) == [store |-> st, outcome |-> outcome, held |-> held]

\* Variant: one more call than the cap gets in.
Refuses_OffByOne(st, k, entries, e) ==
    LET old == Holds(st.calls, {k}, e.id)
        new == Cardinality(Places(entries, e.id))
    IN  new > old /\ st.counts[e.id] - old + new > e.limit + 1

\* An entry whose id the call adds slots to, past the cap the entry states.
Refuses(st, k, entries, e) ==
    LET old == Holds(st.calls, {k}, e.id)
        new == Cardinality(Places(entries, e.id))
    IN  new > old /\ st.counts[e.id] - old + new > e.limit

\* The admit's store once `held' is re-created where the key lost its set.
Carried(st, k, held) ==
    IF Reregisters(st, k, held.entries) THEN ReregisterKeys(st, {k}, [q \in {k} |-> held]) ELSE st

\* A cap refused the admit: the set stays under the admit's number, or goes
\* behind a drop fence when the admit asked for it.
Rejected(st, k, change, releaseOnRefusal) ==
    LET s == IF releaseOnRefusal
             THEN FenceKeys(DropMarkers(DropSets(st, {k}), {k}), {k}, "dropped", change)
             ELSE RecordChange(st, k, change)
    IN  Answer(s, "rejected", HeldOf(s, k))

\* The call's set becomes `entries': an empty list drops it behind a fence.
Admitted(st, k, change, entries) ==
    LET s == [DropMarkers(DropSets(st, {k}), {k}) EXCEPT !.fences[k] = NoFence]
    IN  Answer(IF entries = <<>> THEN FenceKeys(s, {k}, "dropped", change)
               ELSE InsertSets(s, {k}, [q \in {k} |-> [entries |-> entries, change |-> change]]),
               "admitted", [change |-> change, entries |-> entries])

\* admit_carrying, and the set its answer states (server.rs).
AdmitCarrying(st, k, change, held, entries, releaseOnRefusal) ==
    LET s == Sweep(st)
        c == Carried(s, k, held)
    IN  IF s.fences[k].why = "released" THEN Answer(s, "released", NoHeld)
        ELSE IF change <= KnownChange(s, k) THEN Answer(s, "superseded", HeldOf(s, k))
        ELSE IF \E i \in DOMAIN entries : Refuses(c, k, entries, entries[i])
        THEN Rejected(c, k, change, releaseOnRefusal)
        ELSE Admitted(c, k, change, entries)

\* release: every key of K not yet fenced by a release loses its set and its
\* marker, and is fenced for a lease.
ReleaseKeys(st, K) ==
    LET s   == Sweep(st)
        new == {k \in Keys : k \in K /\ s.fences[k].why # "released"}
    IN  FenceKeys(DropMarkers(DropSets(s, new), new), new, "released", 0)

\* refresh_all of the keys K, each carrying carried[k]: the lease of a held set
\* is extended (its deadline stays where it is), a lost set is re-created.
RefreshKeys(st, K, carried) ==
    LET s    == Sweep(st)
        lost == {k \in K : Reregisters(s, k, carried[k].entries)}
        x    == [s EXCEPT !.calls = [k \in Keys |->
                                       IF k \in K /\ HasSet(s, k)
                                       THEN [s.calls[k] EXCEPT !.lease = Lease] ELSE s.calls[k]]]
    IN  ReregisterKeys(x, lost, carried)

\* What refresh answers for k, read on the store before and after it.
RefreshOutcome(st, k, held) ==
    LET s == Sweep(st)
    IN  IF HasSet(s, k) THEN "extended"
        ELSE IF Reregisters(s, k, held.entries) THEN "reregistered"
        ELSE IF s.fences[k].why = "dropped" THEN "dropped" ELSE "released"

-----------------------------------------------------------------------------
(* The store as a component: any request, at any time, from anyone. *)

StoreInit == store = EmptyStore

StoreAdmit(k) ==
    \E change \in Nat \ {0}, held \in HeldSets, entries \in Lists, r \in BOOLEAN :
        store' = AdmitCarrying(store, k, change, held, entries, r).store

StoreRelease == \E K \in SUBSET Keys : store' = ReleaseKeys(store, K)

StoreRefresh ==
    \E K \in SUBSET Keys : \E carried \in [K -> HeldSets] : store' = RefreshKeys(store, K, carried)

\* sweep_now, and every read: the janitor, the gauges.
StoreSweep == store' = Sweep(store)

StoreTick == store' = Aged(store)

\* The limiter process restarts empty: nothing is persisted.
StoreRestart == store' = EmptyStore

StoreNext ==
    \/ \E k \in Keys : StoreAdmit(k)
    \/ StoreRelease
    \/ StoreRefresh
    \/ StoreSweep
    \/ StoreTick
    \/ StoreRestart

StoreSpec == StoreInit /\ [][StoreNext]_store

-----------------------------------------------------------------------------
(* Properties. *)

Exact(st) == \A id \in Ids : st.counts[id] = Holds(st.calls, Keys, id)

Lapsing(st) ==
    \A k \in Keys : HasSet(st, k) =>
        /\ <<st.calls[k].pending, k>> \in st.setDeadlines
        /\ st.calls[k].pending <= st.calls[k].lease

\* The store's state is well formed, the counts never negative.
StoreTypeOK == store \in Stores

\* The live counts are exact: each id counts every slot every call's set holds
\* on it, no more and no less, whatever was replaced, dropped or lapsed.
CountsExact == Exact(store)

\* Nothing outlives its lease: every set has its one pending deadline in the
\* heap, at or before its lease, so that the sweep reaches it, although a
\* refresh moves the lease and not the deadline.
EverySetLapses == Lapsing(store)

=============================================================================
