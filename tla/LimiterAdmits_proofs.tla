------------------------ MODULE LimiterAdmits_proofs ------------------------
(* What admission promises, for any calls, lists, lease, chain, queue bound  *)
(* and budget: no id goes past its cap, no set stands at the limiter that    *)
(* its call would not release, and the release queue keeps to its bound.     *)
EXTENDS LimiterFlow_proofs

-----------------------------------------------------------------------------
(* Caps. An admit moves a count past what it was only for an id it adds      *)
(* slots to, and then not past the cap its own entry states; everything else *)
(* but a re-creation takes slots away.                                       *)

\* Some list states a cap for id that n slots keep to.
Allowed(id, n) == \E l \in Lists : \E i \in DOMAIN l : l[i].id = id /\ n <= l[i].limit

Within(st, id) == st.counts[id] > 0 => Allowed(id, st.counts[id])

\* Caps are numbers.
LEMMA LimitsNat == \A l \in Lists : \A i \in DOMAIN l : l[i].limit \in Nat
<1> TAKE l \in Lists
<1> DEFINE R == [id : Ids, limit : Nat]
<1>1. l \in Seq(R)
  BY StoreAssumption, Zenon DEF StoreAssumption
<1>2. \A r \in R : r.limit \in Nat
  OBVIOUS
<1> HIDE DEF R
<1>3. \A i \in DOMAIN l : l[i] \in R
  BY <1>1
<1> QED BY <1>2, <1>3

\* A store whose count of id is no higher keeps to the caps where it did.
LEMMA WithinFewer ==
    ASSUME NEW st \in Stores, NEW t \in Stores, NEW id \in Ids,
           t.counts[id] <= st.counts[id], Within(st, id)
    PROVE  Within(t, id)
<1>1. st.counts[id] \in Nat /\ t.counts[id] \in Nat
  BY DEF Stores
<1>2. \A l \in Lists : \A i \in DOMAIN l : l[i].limit \in Nat
  BY LimitsNat
<1> QED BY <1>1, <1>2 DEF Within, Allowed

\* drop_set only lowers counts.
LEMMA DropSetsCounts ==
    ASSUME NEW st \in Stores, NEW K \in SUBSET Keys, NEW id \in Ids
    PROVE  /\ DropSets(st, K).counts[id] <= st.counts[id]
           /\ DropSets(st, K).counts[id] = Larger(st.counts[id] - Holds(st.calls, K, id), 0)
<1>1. st.calls \in [Keys -> CallSets] /\ st.counts \in [Ids -> Nat]
  BY DEF Stores
<1>2. Holds(st.calls, K, id) \in Nat
  BY <1>1, SlotsFinite
<1>3. DropSets(st, K).counts = [i \in Ids |-> Larger(st.counts[i] - Holds(st.calls, K, i), 0)]
  BY DEF DropSets, Stores
<1> QED BY <1>1, <1>2, <1>3 DEF Larger

\* Fences, markers and numbers count nothing.
LEMMA OthersCounts ==
    ASSUME NEW st \in Stores
    PROVE  /\ \A K, why, change : FenceKeys(st, K, why, change).counts = st.counts
           /\ \A K : DropMarkers(st, K).counts = st.counts
           /\ \A k : [st EXCEPT !.fences[k] = NoFence].counts = st.counts
           /\ \A k, change : RecordChange(st, k, change).counts = st.counts
           /\ Aged(st).counts = st.counts
<1>1. \A K, why, change : FenceKeys(st, K, why, change).counts = st.counts
  BY DEF FenceKeys, Stores
<1>2. \A K : DropMarkers(st, K).counts = st.counts
  BY DEF DropMarkers, Stores
<1>3. \A k : [st EXCEPT !.fences[k] = NoFence].counts = st.counts
  BY DEF Stores
<1>4. \A k, change : RecordChange(st, k, change).counts = st.counts
  BY DEF RecordChange, Stores
<1>5. Aged(st).counts = st.counts
  BY DEF Aged, Stores
<1> QED BY <1>1, <1>2, <1>3, <1>4, <1>5

\* sweep only lowers counts.
LEMMA SweepCounts ==
    ASSUME NEW st \in Stores, NEW id \in Ids
    PROVE  Sweep(st).counts[id] <= st.counts[id]
<1> DEFINE over == DueSets(st)
           kept == {k \in over : st.calls[k].lease > 0}
           s    == DropSets(st, over \ kept)
<1>1. (over \ kept) \in SUBSET Keys
  BY DEF DueSets
<1>2. s.counts[id] <= st.counts[id]
  <2> HIDE DEF over, kept
  <2> QED BY <1>1, DropSetsCounts
<1>3. Sweep(st).counts = s.counts
  <2>1. s = [st EXCEPT !.calls = s.calls, !.counts = s.counts]
    BY DEF DropSets, Stores
  <2> HIDE DEF s
  <2>2. \A a, b, c, d : [s EXCEPT !.calls = a, !.setDeadlines = b, !.fences = c, !.markers = d].counts
                          = s.counts
    BY <2>1 DEF Stores
  <2> QED BY <2>2 DEF Sweep, s
<1> QED BY <1>2, <1>3

\* A re-creation counts on the ids its sets name alone.
LEMMA ReregisterCounts ==
    ASSUME NEW st \in Stores, NEW K \in SUBSET Keys, NEW carried, NEW id \in Ids,
           \A k \in K : Places(carried[k].entries, id) = {}
    PROVE  ReregisterKeys(st, K, carried).counts[id] = st.counts[id]
<1> DEFINE m == DropMarkers(st, K)
           set(k) == [entries |-> carried[k].entries,
                      change |-> Larger(st.markers[k].change, carried[k].change)]
           new == [k \in K |-> set(k)]
           calls == [k \in Keys |->
                       IF k \in K THEN [entries |-> new[k].entries, change |-> new[k].change,
                                        lease |-> Lease, pending |-> Lease]
                       ELSE m.calls[k]]
<1>1. m.counts = st.counts /\ st.counts \in [Ids -> Nat]
  BY OthersCounts DEF Stores
<1>2. \A k \in K : calls[k].entries = carried[k].entries
  OBVIOUS
<1>3. Slots(calls, K, id) = {}
  <2> HIDE DEF calls
  <2> QED BY <1>2 DEF Slots
<1>4. Holds(calls, K, id) = 0
  BY <1>3, FS_EmptySet, Zenon DEF Holds
<1>5. InsertSets(m, K, new).counts = [i \in Ids |-> m.counts[i] + Holds(calls, K, i)]
  <2>1. DOMAIN m = {"calls", "counts", "fences", "markers", "setDeadlines"}
    BY DEF DropMarkers, Stores
  <2> HIDE DEF m, new
  <2> QED BY <2>1 DEF InsertSets
<1>6. ReregisterKeys(st, K, carried) = InsertSets(m, K, new)
  BY DEF ReregisterKeys
<1> HIDE DEF m, new, calls
<1> QED BY <1>1, <1>4, <1>5, <1>6

\* One key's set holds as many slots of id as its list has places for it.
LEMMA HoldsOne ==
    ASSUME NEW calls, NEW k, NEW entries \in Lists, calls[k].entries = entries, NEW id
    PROVE  /\ Holds(calls, {k}, id) = Cardinality(Places(entries, id))
           /\ Cardinality(Places(entries, id)) \in Nat
<1> DEFINE P == Places(entries, id)
<1>1. IsFiniteSet(P)
  BY PlacesFinite
<1>2. Slots(calls, {k}, id) = {k} \X P
  BY DEF Slots
<1> HIDE DEF P
<1>3. IsFiniteSet({k}) /\ Cardinality({k}) = 1
  BY FS_Singleton, Zenon
<1>4. Cardinality({k} \X P) = Cardinality({k}) * Cardinality(P)
  BY <1>1, <1>3, FS_Product
<1>5. Cardinality(P) \in Nat
  BY <1>1, FS_CardinalityType
<1> QED BY <1>2, <1>3, <1>4, <1>5 DEF Holds, P

\* An admitted change keeps every id to its caps: an id it adds slots to was
\* checked against the cap its own entry states.
LEMMA AdmittedWithin ==
    ASSUME NEW st, StoreOK(st), NEW k \in Keys, NEW change \in Nat, NEW entries \in Lists,
           \A i \in DOMAIN entries : ~Refuses(st, k, entries, entries[i]),
           NEW id \in Ids, Within(st, id)
    PROVE  Within(Admitted(st, k, change, entries).store, id)
<1> DEFINE s == DropSets(st, {k})
           d == DropMarkers(s, {k})
           u == [d EXCEPT !.fences[k] = NoFence]
           new == [q \in {k} |-> [entries |-> entries, change |-> change]]
           old == Holds(st.calls, {k}, id)
           adds == Cardinality(Places(entries, id))
           t == Admitted(st, k, change, entries).store
<1> SUFFICES Within(t, id)
  OBVIOUS
<1>1. st \in Stores /\ Exact(st) /\ Lapsing(st)
  BY DEF StoreOK
<1>2. StoreOK(t) /\ t \in Stores
  BY AdmittedOK DEF StoreOK
<1>3. /\ st.calls \in [Keys -> CallSets] /\ st.counts[id] \in Nat /\ t.counts[id] \in Nat
      /\ st.calls[k].entries \in Lists
  BY <1>1, <1>2 DEF Stores, CallSets
<1>4. /\ old \in Nat /\ adds \in Nat /\ old <= st.counts[id]
  <2>1. st.counts[id] = Holds(st.calls, Keys \ {k}, id) + Holds(st.calls, {k}, id)
    BY <1>1, <1>3, HoldsSplit DEF Exact
  <2>2. Holds(st.calls, Keys \ {k}, id) \in Nat /\ old \in Nat
    BY <1>3, SlotsFinite
  <2>3. adds \in Nat
    BY HoldsOne, PlacesFinite, FS_CardinalityType
  <2> QED BY <2>1, <2>2, <2>3
<1>5. s \in Stores /\ s.counts[id] = st.counts[id] - old
  <2>1. s \in Stores
    BY <1>1, DropSetsOK
  <2>2. s.counts[id] = Larger(st.counts[id] - old, 0)
    BY <1>1, DropSetsCounts
  <2> QED BY <1>3, <1>4, <2>1, <2>2 DEF Larger
<1>6. d \in Stores /\ d.counts = s.counts
  <2>1. StoreOK(s)
    BY <1>1, DropSetsOK DEF StoreOK
  <2> HIDE DEF s
  <2> QED BY <1>5, <2>1, DropMarkersOK, OthersCounts DEF StoreOK
<1>7. u \in Stores /\ u.counts = s.counts
  <2>1. NoFence \in Fences
    BY StoreAssumption DEF Fences, NoFence, StoreAssumption
  <2> HIDE DEF d, s
  <2>2. u.counts = d.counts
    BY <1>6, OthersCounts
  <2>3. u \in Stores
    BY <1>6, <2>1 DEF Stores
  <2> QED BY <1>6, <2>2, <2>3
<1>8. t = IF entries = <<>> THEN FenceKeys(u, {k}, "dropped", change)
          ELSE InsertSets(u, {k}, new)
  BY DEF Admitted, Answer
<1>9. CASE entries = <<>>
  <2>1. t.counts = u.counts
    <3> HIDE DEF u, t
    <3> QED BY <1>7, <1>8, <1>9, OthersCounts
  <2>2. t.counts[id] <= st.counts[id]
    <3> HIDE DEF t, u, s, old
    <3> QED BY <1>3, <1>4, <1>5, <1>7, <2>1
  <2> HIDE DEF t
  <2> QED BY <1>1, <1>2, <2>2, WithinFewer
<1>10. CASE entries # <<>>
  <2> DEFINE calls == [q \in Keys |->
                         IF q \in {k} THEN [entries |-> new[q].entries, change |-> new[q].change,
                                            lease |-> Lease, pending |-> Lease]
                         ELSE u.calls[q]]
  <2>1. calls[k].entries = entries
    OBVIOUS
  <2>2. Holds(calls, {k}, id) = adds
    <3> HIDE DEF calls
    <3> QED BY <2>1, HoldsOne, Zenon
  <2>3. t.counts[id] = s.counts[id] + adds
    <3>1. InsertSets(u, {k}, new).counts = [i \in Ids |-> u.counts[i] + Holds(calls, {k}, i)]
      <4> HIDE DEF u, new
      <4> QED BY <1>7 DEF InsertSets, Stores
    <3> HIDE DEF u, new, calls, t
    <3> QED BY <1>7, <1>8, <1>10, <2>2, <3>1, Zenon
  <2> HIDE DEF t, s, old, adds, calls, u, new
  <2>4. CASE adds > old
    <3>1. Places(entries, id) # {}
      BY <1>4, <2>4, FS_EmptySet DEF adds
    <3>2. PICK i \in DOMAIN entries : entries[i].id = id
      BY <3>1 DEF Places
    <3> DEFINE e == entries[i]
    <3>3. ~(adds > old /\ st.counts[id] - old + adds > e.limit)
      BY <3>2 DEF Refuses, old, adds
    <3>4. e.limit \in Nat
      BY <3>2, LimitsNat
    <3>5. t.counts[id] <= e.limit
      <4> HIDE DEF e
      <4> QED BY <1>3, <1>4, <1>5, <2>3, <2>4, <3>3, <3>4
    <3> QED BY <3>2, <3>5 DEF Within, Allowed
  <2>5. CASE ~(adds > old)
    <3>1. t.counts[id] <= st.counts[id]
      BY <1>3, <1>4, <1>5, <2>3, <2>5
    <3> QED BY <1>1, <1>2, <3>1, WithinFewer
  <2> QED BY <2>4, <2>5
<1> QED BY <1>9, <1>10

\* A refused one too: the set stays or goes.
LEMMA RejectedWithin ==
    ASSUME NEW st, StoreOK(st), NEW k \in Keys, NEW change \in Nat, NEW r \in BOOLEAN,
           NEW id \in Ids, Within(st, id)
    PROVE  Within(Rejected(st, k, change, r).store, id)
<1> DEFINE s == DropSets(st, {k})
           d == DropMarkers(s, {k})
           t == Rejected(st, k, change, r).store
<1> SUFFICES Within(t, id)
  OBVIOUS
<1>1. st \in Stores /\ Exact(st) /\ Lapsing(st) /\ t \in Stores
  BY RejectedOK DEF StoreOK
<1>2. t = IF r THEN FenceKeys(d, {k}, "dropped", change) ELSE RecordChange(st, k, change)
  BY DEF Rejected, Answer
<1>3. StoreOK(s) /\ s.counts[id] <= st.counts[id]
  BY <1>1, DropSetsOK, DropSetsCounts DEF StoreOK
<1>4. d \in Stores /\ d.counts = s.counts
  <2> HIDE DEF s
  <2> QED BY <1>3, DropMarkersOK, OthersCounts DEF StoreOK
<1> HIDE DEF t, d, s
<1>5. FenceKeys(d, {k}, "dropped", change).counts = d.counts
      /\ RecordChange(st, k, change).counts = st.counts
  BY <1>1, <1>4, OthersCounts
<1>6. st.counts[id] \in Nat
  BY <1>1 DEF Stores
<1>7. t.counts[id] <= st.counts[id]
  BY <1>2, <1>3, <1>4, <1>5, <1>6
<1> QED BY <1>1, <1>7, WithinFewer

\* admit_carrying keeps id to its caps, unless it re-creates a set on it.
LEMMA AdmitWithin ==
    ASSUME NEW st, StoreOK(st), NEW k \in Keys, NEW change \in Nat, NEW held \in HeldSets,
           NEW entries \in Lists, NEW r \in BOOLEAN, NEW id \in Ids, Within(st, id),
           AdmitCarrying(st, k, change, held, entries, r).outcome \in {"admitted", "rejected"}
             /\ Reregisters(Sweep(st), k, held.entries) => Places(held.entries, id) = {}
    PROVE  Within(AdmitCarrying(st, k, change, held, entries, r).store, id)
<1> DEFINE s == Sweep(st)
           c == Carried(s, k, held)
           a == AdmitCarrying(st, k, change, held, entries, r)
<1> SUFFICES Within(a.store, id)
  OBVIOUS
<1>1. StoreOK(s) /\ s \in Stores /\ st \in Stores
  BY SweepOK DEF StoreOK
<1>2. Within(s, id)
  BY <1>1, SweepCounts, WithinFewer
<1>3. StoreOK(c)
  <2> HIDE DEF s
  <2> QED BY <1>1, CarriedOK
<1>4. ASSUME a.outcome \in {"admitted", "rejected"} PROVE Within(c, id)
  <2>1. CASE Reregisters(s, k, held.entries)
    <3> DEFINE carried == [q \in {k} |-> held]
    <3>1. c = ReregisterKeys(s, {k}, carried)
      BY <2>1 DEF Carried
    <3>2. \A q \in {k} : Places(carried[q].entries, id) = {}
      BY <1>4, <2>1
    <3> HIDE DEF s, carried
    <3>3. ReregisterKeys(s, {k}, carried).counts[id] = s.counts[id]
      BY <1>1, <3>2, ReregisterCounts
    <3> HIDE DEF c
    <3>4. c \in Stores
      BY <1>3 DEF StoreOK
    <3>5. s.counts[id] \in Nat
      BY <1>1 DEF Stores
    <3>6. c.counts[id] = s.counts[id]
      BY <3>1, <3>3
    <3>7. c.counts[id] <= s.counts[id]
      BY <3>5, <3>6
    <3> QED BY <1>1, <1>2, <3>4, <3>7, WithinFewer
  <2>2. CASE ~Reregisters(s, k, held.entries)
    BY <1>2, <2>2 DEF Carried
  <2> QED BY <2>1, <2>2
<1> HIDE DEF s, c
<1>5. \/ a = Answer(s, "released", NoHeld) \/ a = Answer(s, "superseded", HeldOf(s, k))
      \/ a = Rejected(c, k, change, r)
      \/ /\ a = Admitted(c, k, change, entries)
         /\ \A i \in DOMAIN entries : ~Refuses(c, k, entries, entries[i])
  BY DEF AdmitCarrying, s, c
<1> HIDE DEF a
<1>6. CASE a = Answer(s, "released", NoHeld) \/ a = Answer(s, "superseded", HeldOf(s, k))
  BY <1>2, <1>6 DEF Answer
<1>7. CASE a = Rejected(c, k, change, r)
  <2>1. a.outcome = "rejected"
    BY <1>7 DEF Rejected, Answer
  <2> QED BY <1>3, <1>4, <1>7, <2>1, RejectedWithin
<1>8. CASE /\ a = Admitted(c, k, change, entries)
           /\ \A i \in DOMAIN entries : ~Refuses(c, k, entries, entries[i])
  <2>1. a.outcome = "admitted"
    BY <1>8 DEF Admitted, Answer
  <2> QED BY <1>3, <1>4, <1>8, <2>1, AdmittedWithin
<1> QED BY <1>5, <1>6, <1>7, <1>8

\* So does refresh.
LEMMA RefreshWithin ==
    ASSUME NEW st, StoreOK(st), NEW K \in SUBSET Keys, NEW carried \in [K -> HeldSets],
           NEW id \in Ids, Within(st, id),
           \A k \in K : Reregisters(Sweep(st), k, carried[k].entries)
                          => Places(carried[k].entries, id) = {}
    PROVE  Within(RefreshKeys(st, K, carried), id)
<1> DEFINE s     == Sweep(st)
           lost  == {k \in K : Reregisters(s, k, carried[k].entries)}
           calls == [k \in Keys |-> IF k \in K /\ HasSet(s, k)
                                   THEN [s.calls[k] EXCEPT !.lease = Lease] ELSE s.calls[k]]
           x     == [s EXCEPT !.calls = calls]
           t     == RefreshKeys(st, K, carried)
<1> SUFFICES Within(t, id)
  OBVIOUS
<1>1. StoreOK(s) /\ s \in Stores /\ st \in Stores /\ t \in Stores
  BY SweepOK, RefreshOK DEF StoreOK
<1>2. Within(s, id)
  BY <1>1, SweepCounts, WithinFewer
<1>3. lost \in SUBSET Keys /\ \A k \in lost : Places(carried[k].entries, id) = {}
  OBVIOUS
<1>4. t = ReregisterKeys(x, lost, carried)
  BY DEF RefreshKeys
<1> HIDE DEF s, t
<1>5. x \in Stores /\ x.counts = s.counts
  <2>1. \A c \in CallSets : [c EXCEPT !.lease = Lease] \in CallSets
    BY StoreAssumption DEF CallSets, StoreAssumption
  <2>2. calls \in [Keys -> CallSets]
    BY <1>1, <2>1 DEF Stores
  <2> HIDE DEF calls
  <2> QED BY <1>1, <2>2 DEF Stores
<1> HIDE DEF lost, x
<1>6. t.counts[id] = s.counts[id]
  BY <1>3, <1>4, <1>5, ReregisterCounts
<1>7. t.counts[id] <= s.counts[id]
  BY <1>1, <1>6 DEF Stores
<1> QED BY <1>1, <1>2, <1>7, WithinFewer

\* And release.
LEMMA ReleaseWithin ==
    ASSUME NEW st, StoreOK(st), NEW K, NEW id \in Ids, Within(st, id)
    PROVE  Within(ReleaseKeys(st, K), id)
<1> DEFINE s   == Sweep(st)
           new == {k \in Keys : k \in K /\ s.fences[k].why # "released"}
           d   == DropSets(s, new)
           e   == DropMarkers(d, new)
           t   == ReleaseKeys(st, K)
<1> SUFFICES Within(t, id)
  OBVIOUS
<1>1. StoreOK(s) /\ s \in Stores /\ st \in Stores /\ t \in Stores
  BY SweepOK, ReleaseOK DEF StoreOK
<1>2. Within(s, id)
  BY <1>1, SweepCounts, WithinFewer
<1>3. new \in SUBSET Keys
  OBVIOUS
<1>4. t = FenceKeys(e, new, "released", 0)
  BY DEF ReleaseKeys
<1> HIDE DEF s, new, t
<1>5. StoreOK(d) /\ d \in Stores /\ d.counts[id] <= s.counts[id]
  BY <1>1, <1>3, DropSetsOK, DropSetsCounts DEF StoreOK
<1> HIDE DEF d
<1>6. e \in Stores /\ e.counts = d.counts
  BY <1>3, <1>5, DropMarkersOK, OthersCounts DEF StoreOK
<1> HIDE DEF e
<1>7. t.counts[id] <= s.counts[id]
  BY <1>4, <1>5, <1>6, OthersCounts
<1> QED BY <1>1, <1>2, <1>7, WithinFewer

\* Only a request that lands, time, the janitor and a restart touch the store.
LEMMA WhoTouchesStore ==
    ASSUME ReqsTyped, [FlowNext]_vars
    PROVE  \/ UNCHANGED <<store, recreated>>
           \/ \E m \in reqs : Land(m)
           \/ Janitor \/ Restart \/ Tick
<1>1. ASSUME NEW k \in Keys, NEW entries \in Lists,
             Initial(k, entries) \/ Replace(k, entries) \/ Route(k, entries)
      PROVE  UNCHANGED <<store, recreated>>
  BY <1>1, Zenon DEF Initial, Replace, Route
<1>2. ASSUME NEW k \in Keys, DispatchConsult(k) \/ Resolve(k) \/ End(k)
      PROVE  UNCHANGED <<store, recreated>>
  BY <1>2, Zenon DEF DispatchConsult, Resolve, End
<1>3. ASSUME NEW k \in Keys, Mark(k) \/ Replicate(k) \/ Materialise(k)
      PROVE  UNCHANGED <<store, recreated>>
  BY <1>3 DEF Mark, Replicate, Materialise
<1>4. CASE TakeRefreshes \/ SendReleases \/ GiveUpExpired \/ Breaker \/ Crash
  BY <1>4 DEF TakeRefreshes, SendReleases, GiveUpExpired, Breaker, Crash
<1>5. ASSUME NEW m \in reqs, Answered(m) \/ GivenUp(m) \/ Vanish(m)
      PROVE  UNCHANGED <<store, recreated>>
  <2>1. m.op \in {"admit", "refresh", "release"}
    BY OpTellsKind DEF ReqsTyped
  <2> QED BY <1>5, <2>1, Zenon DEF Answered, GivenUp, Vanish, AdmitAnswered, FollowRefusal, RefreshAnswered,
                    ReleaseAnswered, AdmitGivenUp, RefreshGivenUp, ReleaseGivenUp
<1>6. CASE UNCHANGED vars
  BY <1>6 DEF vars
<1> QED BY <1>1, <1>2, <1>3, <1>4, <1>5, <1>6 DEF FlowNext

\* A set re-created on id is remembered.
LEMMA RecreatedOn ==
    ASSUME NEW K, NEW carried, NEW k \in K, Reregisters(Sweep(store), k, carried[k].entries),
           NEW id, id \notin Recreated(K, carried)
    PROVE  Places(carried[k].entries, id) = {}
BY DEF Recreated, Places

\* A request that lands keeps every id to its caps, but those of a set it re-creates.
LEMMA LandWithin ==
    ASSUME FlowInv, NEW m \in reqs, Land(m), NEW id \in Ids \ recreated', Within(store, id)
    PROVE  id \notin recreated /\ Within(store', id)
<1>1. ReqTyped(m) /\ StoreOK(store)
  BY DEF FlowInv, ReqsTyped
<1>2. CASE m \in AdmitReqs
  <2> DEFINE a == AdmitCarrying(store, m.key, m.change, m.held, m.entries, m.ror)
             carried == [k \in {m.key} |-> m.held]
  <2>1. LandAdmit(m)
    BY <1>2, Zenon DEF Land, AdmitReqs
  <2>2. /\ m.key \in Keys /\ m.change \in Nat /\ m.held \in HeldSets
        /\ m.entries \in Lists /\ m.ror \in BOOLEAN
    BY <1>2 DEF AdmitReqs
  <2>3. store' = a.store
    BY <2>1 DEF LandAdmit
  <2>4. recreated' = IF a.outcome \in {"admitted", "rejected"}
                     THEN recreated \cup Recreated({m.key}, carried) ELSE recreated
    BY <2>1 DEF LandAdmit
  <2>5. ASSUME a.outcome \in {"admitted", "rejected"}, Reregisters(Sweep(store), m.key, m.held.entries)
        PROVE  Places(m.held.entries, id) = {}
    <3>1. id \notin Recreated({m.key}, carried) /\ carried[m.key] = m.held
      BY <2>4, <2>5
    <3> HIDE DEF carried
    <3> QED BY <2>5, <3>1, RecreatedOn, Zenon
  <2>6. Within(a.store, id)
    BY <1>1, <2>2, <2>5, AdmitWithin
  <2> HIDE DEF a
  <2> QED BY <2>3, <2>4, <2>6
<1>3. ASSUME NEW K \in SUBSET Keys, m \in RefreshReqs(K)
      PROVE  id \notin recreated /\ Within(store', id)
  <2>1. LandRefresh(m)
    BY <1>3, Zenon DEF Land, RefreshReqs
  <2>2. m.carried \in [K -> HeldSets] /\ DOMAIN m.carried = K
    BY <1>3 DEF RefreshReqs
  <2>3. store' = RefreshKeys(store, K, m.carried) /\ recreated' = recreated \cup Recreated(K, m.carried)
    BY <2>1, <2>2, Zenon DEF LandRefresh
  <2>4. \A k \in K : Reregisters(Sweep(store), k, m.carried[k].entries)
                       => Places(m.carried[k].entries, id) = {}
    BY <2>3, RecreatedOn
  <2>5. Within(RefreshKeys(store, K, m.carried), id)
    BY <1>1, <2>2, <2>4, RefreshWithin
  <2> QED BY <2>3, <2>5
<1>4. ASSUME NEW K, m \in ReleaseOf(K) PROVE id \notin recreated /\ Within(store', id)
  <2>1. LandRelease(m)
    BY <1>4 DEF Land, ReleaseOf
  <2>2. store' = ReleaseKeys(store, m.keys) /\ recreated' = recreated
    BY <2>1 DEF LandRelease
  <2>3. Within(ReleaseKeys(store, m.keys), id)
    BY <1>1, ReleaseWithin
  <2> QED BY <2>2, <2>3
<1> QED BY <1>1, <1>2, <1>3, <1>4 DEF ReqTyped

\* No sequence of admits, replacements, refusals, lapses, losses, restarts and
\* crashes takes an id past the highest cap stated for it, for any number of
\* calls and ids: only a set re-created for a call already admitted may.
THEOREM CapsHold == FlowSpec => []CapHolds
<1> DEFINE I == \A id \in Ids \ recreated : Within(store, id)
<1>1. I <=> CapHolds
  BY DEF CapHolds, Within, Allowed
<1>2. FlowInit => I
  BY DEF FlowInit, StoreInit, EmptyStore, Within
<1>3. ASSUME FlowInv, I, [FlowNext]_vars PROVE I'
  <2> SUFFICES ASSUME NEW id \in Ids \ recreated' PROVE Within(store', id)
    BY DEF Within, Allowed
  <2>1. StoreOK(store) /\ store \in Stores
    BY <1>3 DEF FlowInv, StoreOK
  <2>2. CASE UNCHANGED <<store, recreated>>
    BY <1>3, <2>2
  <2>3. ASSUME NEW m \in reqs, Land(m) PROVE Within(store', id)
    <3>0. m.op \in {"admit", "refresh", "release"}
      BY <1>3, OpTellsKind DEF FlowInv, ReqsTyped
    <3>1. id \notin recreated
      BY <2>3, <3>0, Zenon DEF Land, LandAdmit, LandRefresh, LandRelease
    <3>2. Within(store, id)
      BY <1>3, <3>1
    <3> QED BY <1>3, <2>3, <3>2, LandWithin
  <2>4. CASE Janitor \/ Tick
    <3>1. id \notin recreated
      BY <2>4 DEF Janitor, Tick
    <3>2. store' = Sweep(store) \/ store' = Aged(store)
      BY <2>4 DEF Janitor, Tick, StoreSweep, StoreTick
    <3>3. Sweep(store) \in Stores /\ Aged(store) \in Stores
      BY <2>1, SweepOK, AgedOK DEF StoreOK
    <3>4. store.counts[id] \in Nat
      BY <2>1 DEF Stores
    <3>5. Sweep(store).counts[id] <= store.counts[id] /\ Aged(store).counts[id] <= store.counts[id]
      BY <2>1, <3>4, SweepCounts, OthersCounts
    <3> QED BY <1>3, <2>1, <3>1, <3>2, <3>3, <3>5, WithinFewer
  <2>5. CASE Restart
    BY <2>5 DEF Restart, StoreRestart, EmptyStore, Within
  <2> QED BY <1>3, <2>2, <2>3, <2>4, <2>5, WhoTouchesStore DEF FlowInv
<1> HIDE DEF I
<1> QED BY <1>1, <1>2, <1>3, FlowInvKept, PTL DEF FlowSpec

-----------------------------------------------------------------------------
(* What a call owes. Every admit of a call is sent on a turn that owes the   *)
(* release from then on, but the initial one, which its own turn awaits: so  *)
(* in its first holder's hands no set of a call is, or is on its way to, the *)
(* limiter that the call does not owe.                                       *)

Touched(k) ==
    HasSet(store, k) \/ consult[k].phase # "none" \/ \E m \in reqs : Concerns(m, k)

\* What is at the limiter, or on its way there, is owed in the first epoch.
OwedAt(k) ==
    /\ call[k].stage = "active" /\ call[k].change < Epoch /\ Touched(k)
         => call[k].owed = TRUE \/ \E m \in reqs : Awaits(m, k)
    /\ call[k].stage = "none" => ~Touched(k)
    /\ copy[k] = NoCall \/ copy[k].stage = "active"
    /\ call[k].stage = "down" => copy[k].stage = "active"

\* The inductive invariant, beside FlowInv and BatchInv.
OwedInv == \A k \in Keys : OwedAt(k)

\* Nothing new of k comes to the limiter or on its way there, and what the call
\* awaits is still awaited.
Quiet(k) ==
    /\ HasSet(store', k) => HasSet(store, k)
    /\ consult'[k].phase # "none" => Touched(k)
    /\ \A r \in reqs' : Concerns(r, k) => Touched(k)
    /\ (\E m \in reqs : Awaits(m, k)) => \E m \in reqs' : Awaits(m, k)

\* A step that is quiet for k keeps what k owes.
LEMMA OwedFrame ==
    ASSUME WorkerTyped, WorkerTyped', NEW k \in Keys, OwedAt(k), Onward(k), Quiet(k),
           copy'[k] = copy[k]
    PROVE  OwedAt(k)'
<1>1. call[k].change \in Nat /\ call'[k].change \in Nat /\ Epoch \in Nat
  BY FlowAssumption DEF WorkerTyped, CallsTyped, CallStates, FlowAssumption
<1>2. Touched(k)' => Touched(k)
  BY DEF Quiet, Touched, HasSet
<1> QED BY <1>1, <1>2 DEF OwedAt, Onward, Quiet

\* A call that owes its release, or has left its first epoch, or has ended.
LEMMA OwedOwn ==
    ASSUME NEW k \in Keys, OwedAt(k), copy'[k] = copy[k],
           \/ call'[k].stage = "active" /\ call'[k].owed = TRUE
           \/ call'[k].stage = "active" /\ \E m \in reqs' : Awaits(m, k)
           \/ call'[k].stage = "gone"
    PROVE  OwedAt(k)'
BY DEF OwedAt

\* A step of one call's turn leaves the others alone.
LEMMA OthersOwed ==
    ASSUME WorkerTyped, WorkerTyped', OwedInv, NEW j \in Keys, OwedAt(j)', UNCHANGED store,
           \A k \in Keys \ {j} : /\ call'[k] = call[k] /\ copy'[k] = copy[k]
                                 /\ consult'[k] = consult[k],
           \A r \in reqs' : \A k \in Keys \ {j} :
              Concerns(r, k) => \E m \in reqs : Concerns(m, k),
           \A m \in reqs : \A k \in Keys \ {j} : Awaits(m, k) => m \in reqs'
    PROVE  OwedInv'
<1> SUFFICES ASSUME NEW k \in Keys \ {j} PROVE OwedAt(k)'
  BY DEF OwedInv
<1>1. call[k].change \in Nat
  BY DEF WorkerTyped, CallsTyped, CallStates
<1>2. Onward(k)
  BY <1>1 DEF Onward
<1>3. Quiet(k)
  BY DEF Quiet, Touched
<1> QED BY <1>2, <1>3, OwedFrame DEF OwedInv

\* A call awaits its initial admit when some request says so.
LEMMA AwaitsIt ==
    ASSUME ReqsTyped, NEW k \in Keys
    PROVE  AwaitingInitial(k) <=> \E m \in reqs : Awaits(m, k)
<1>1. \A m \in reqs : m.op = "admit" => m.waited \in BOOLEAN
  BY OpTellsKind DEF ReqsTyped, AdmitReqs
<1> QED BY <1>1 DEF AwaitingInitial, Awaited, Awaits

\* A request left over concerns what it was about.
LEMMA SameConcerns ==
    ASSUME NEW r, NEW m, SameReq(r, m), NEW k, Concerns(r, k)
    PROVE  Concerns(m, k)
BY DEF SameReq, Concerns

\* A call's own turns.
LEMMA TurnsOwed ==
    ASSUME WorkerTyped, WorkerTyped', OwedInv, NEW k \in Keys, NEW entries \in Lists,
           Initial(k, entries) \/ Replace(k, entries) \/ DispatchConsult(k)
    PROVE  OwedInv'
<1>1. call[k] \in CallStates /\ call \in [Keys -> CallStates] /\ call[k].change \in Nat /\ OwedAt(k)
  BY DEF WorkerTyped, CallsTyped, CallStates, OwedInv
<1>2. ASSUME NEW m, reqs' = reqs \/ reqs' = reqs \cup {m}, \A j \in Keys : Concerns(m, j) => j = k,
             \A j \in Keys \ {k} : call'[j] = call[j] /\ consult'[j] = consult[j],
             UNCHANGED <<store, copy>>, OwedAt(k)'
      PROVE  OwedInv'
  BY <1>2, OthersOwed
<1>3. CASE Initial(k, entries)
  <2> DEFINE c == Uncounted("active")
             m == AdmitReq(k, "initial", c.change + 1, HeldBy(c), entries, FALSE)
  <2>1. /\ call[k].stage = "none" /\ UNCHANGED <<store, copy, consult>>
        /\ \/ call' = [call EXCEPT ![k] = c] /\ UNCHANGED reqs
           \/ /\ call' = [call EXCEPT ![k] = Reserved(c, 1)]
              /\ reqs' = reqs \/ reqs' = reqs \cup {m}
    BY <1>3, Zenon DEF Initial, SendAdmit
  <2>2. c.stage = "active" /\ Reserved(c, 1).stage = "active"
    BY DEF Uncounted, Reserved
  <2>3. Awaits(m, k) /\ \A j \in Keys : Concerns(m, j) => j = k
    BY DEF AdmitReq, Awaits, Concerns
  <2> HIDE DEF c, m
  <2>4. ~Touched(k)
    BY <1>1, <2>1 DEF OwedAt
  <2>5. OwedAt(k)'
    <3>1. call'[k].stage = "active" /\ copy'[k] = copy[k]
      BY <1>1, <2>1, <2>2
    <3>2. CASE reqs' = reqs
      <4>1. ~Touched(k)'
        BY <2>1, <2>4, <3>2 DEF Touched, HasSet
      <4> QED BY <1>1, <3>1, <4>1 DEF OwedAt
    <3>3. CASE reqs' = reqs \cup {m}
      BY <1>1, <2>3, <3>1, <3>3, OwedOwn, Zenon
    <3> QED BY <2>1, <3>2, <3>3
  <2> QED BY <1>1, <1>2, <2>1, <2>3, <2>5
<1>4. CASE Replace(k, entries)
  <2> DEFINE n == Reserved(call[k], 1)
             o == [n EXCEPT !.owed = TRUE, !.sent = TRUE]
             m == AdmitReq(k, "service", n.change, HeldBy(call[k]), entries, FALSE)
  <2>1. /\ call[k].stage = "active" /\ UNCHANGED <<store, copy, consult>>
        /\ \/ call' = [call EXCEPT ![k] = n] /\ UNCHANGED reqs
           \/ /\ call' = [call EXCEPT ![k] = o]
              /\ reqs' = reqs \/ reqs' = reqs \cup {m}
    BY <1>4, Zenon DEF Replace, SendAdmit, Runs
  <2>2. /\ n.stage = call[k].stage /\ n.owed = call[k].owed /\ n.change = call[k].change + 1
        /\ o.stage = call[k].stage /\ o.owed = TRUE
    BY <1>1 DEF Reserved, CallStates
  <2>3. \A j \in Keys : Concerns(m, j) => j = k
    BY DEF AdmitReq, Concerns
  <2> HIDE DEF n, o, m
  <2>4. CASE call' = [call EXCEPT ![k] = n] /\ UNCHANGED reqs
    <3>1. Onward(k) /\ copy'[k] = copy[k]
      BY <1>1, <2>1, <2>2, <2>4 DEF Onward
    <3>2. Quiet(k)
      BY <2>1, <2>4, Zenon DEF Quiet, Touched, HasSet
    <3> QED BY <1>1, <1>2, <2>1, <2>3, <2>4, <3>1, <3>2, OwedFrame, Zenon
  <2>5. CASE call' = [call EXCEPT ![k] = o]
    <3>1. call'[k].stage = "active" /\ call'[k].owed = TRUE /\ copy'[k] = copy[k]
      BY <1>1, <2>1, <2>2, <2>5
    <3> QED BY <1>1, <1>2, <2>1, <2>3, <2>5, <3>1, OwedOwn, Zenon
  <2> QED BY <2>1, <2>4, <2>5
<1>5. CASE DispatchConsult(k)
  <2> DEFINE e == Reserved(call[k], Chain)
             n == [e EXCEPT !.owed = TRUE, !.consults = @ + 1]
  <2>1. n.stage = call[k].stage /\ n.owed = TRUE
    BY <1>1 DEF Reserved, CallStates
  <2>2. /\ call' = [call EXCEPT ![k] = n] /\ call[k].stage = "active"
        /\ UNCHANGED <<store, copy, reqs>> /\ \E d : consult' = [consult EXCEPT ![k] = d]
    BY <1>5, Zenon DEF DispatchConsult, Runs
  <2> HIDE DEF n
  <2>3. OwedAt(k)'
    BY <1>1, <2>1, <2>2, OwedOwn, Zenon
  <2>4. \A j \in Keys \ {k} : call'[j] = call[j] /\ consult'[j] = consult[j]
    BY <1>1, <2>2 DEF WorkerTyped, ConsultsTyped
  <2> QED BY <2>2, <2>3, <2>4, OthersOwed
<1> QED BY <1>3, <1>4, <1>5

\* The engine's answers to a failure consult.
LEMMA EngineOwed ==
    ASSUME WorkerTyped, WorkerTyped', OwedInv, NEW k \in Keys, NEW entries \in Lists,
           Route(k, entries) \/ Resolve(k)
    PROVE  OwedInv'
<1> DEFINE c == consult[k]
<1>1. c \in ConsultStates /\ (c = NoConsult \/ c.first > 0) /\ c.phase = "asking" /\ OwedAt(k)
  BY Zenon DEF WorkerTyped, ConsultsTyped, OwedInv, Route, Resolve
<1>2. /\ c.first \in Nat \ {0} /\ c.depth \in Nat /\ c.held \in HeldSets
      /\ c.first + c.depth \in Nat /\ c.first + c.depth - 1 \in Nat
  BY <1>1, FlowAssumption DEF ConsultStates, NoConsult, FlowAssumption
<1>3. /\ UNCHANGED <<store, copy>> /\ \E d : consult' = [consult EXCEPT ![k] = d]
      /\ \/ reqs' = reqs
         \/ reqs' = reqs \cup {AdmitReq(k, "consult", c.first + c.depth, c.held, entries, TRUE)}
      /\ \/ UNCHANGED call
         \/ Report(k, TRUE, c.first + c.depth, "notsent", NoHeld)
         \/ Report(k, TRUE, c.first + c.depth - 1, "rejected", c.held)
  <2>1. CASE Route(k, entries)
    BY <2>1, Zenon DEF Route
  <2>2. CASE Resolve(k)
    BY <2>2, Zenon DEF Resolve
  <2> QED BY <2>1, <2>2, Zenon
<1>4. \A j \in Keys \ {k} : consult'[j] = consult[j]
  BY <1>3 DEF WorkerTyped, ConsultsTyped
<1>5. Touched(k)
  BY <1>1 DEF Touched
<1> HIDE DEF c
<1>6. Onward(k) /\ \A j \in Keys \ {k} : call'[j] = call[j]
  <2>1. CASE UNCHANGED call
    <3>1. call[k].change \in Nat
      BY DEF WorkerTyped, CallsTyped, CallStates
    <3> QED BY <2>1, <3>1 DEF Onward
  <2>2. CASE \/ Report(k, TRUE, c.first + c.depth, "notsent", NoHeld)
             \/ Report(k, TRUE, c.first + c.depth - 1, "rejected", c.held)
    BY <1>2, <2>2, NoneTyped, ReportOwes, Zenon
  <2> QED BY <1>3, <2>1, <2>2, Zenon
<1>7. Quiet(k)
  <2>1. \A m \in reqs : m \in reqs'
    BY <1>3, Zenon
  <2> QED BY <1>3, <1>5, <2>1 DEF Quiet
<1>8. OwedAt(k)'
  BY <1>1, <1>3, <1>6, <1>7, OwedFrame, Zenon
<1>9. \A r \in reqs' : \A j \in Keys \ {k} : Concerns(r, j) => \E m \in reqs : Concerns(m, j)
  <2>1. PICK a : a = AdmitReq(k, "consult", c.first + c.depth, c.held, entries, TRUE)
    OBVIOUS
  <2>2. \A j : Concerns(a, j) => j = k
    BY <2>1 DEF Concerns, AdmitReq
  <2>3. \A r \in reqs' : r \in reqs \/ r = a
    BY <1>3, <2>1, Zenon
  <2> QED BY <2>2, <2>3
<1>10. \A m \in reqs : m \in reqs'
  BY <1>3
<1> QED BY <1>3, <1>4, <1>6, <1>8, <1>9, <1>10, OthersOwed

\* An admit's answer or the end of its wait.
LEMMA AnswersOwed ==
    ASSUME WorkerTyped, WorkerTyped', OwedInv, NEW m \in reqs, m \in AdmitReqs,
           FollowRefusal(m) \/ AdmitAnswered(m) \/ AdmitGivenUp(m)
    PROVE  OwedInv'
<1> DEFINE k == m.key
<1>1. /\ k \in Keys /\ m.change \in Nat /\ m.states \in HeldSets /\ m.op = "admit"
      /\ (m.site = "consult") \in BOOLEAN /\ OwedAt(k) /\ m.outcome # "notsent"
  BY DEF AdmitReqs, OwedInv
<1>2. Touched(k)
  BY <1>1 DEF Touched, Concerns
<1>3. UNCHANGED <<store, copy>> /\ \A j \in Keys \ {k} : consult'[j] = consult[j]
  BY <1>1 DEF FollowRefusal, AdmitAnswered, AdmitGivenUp, EndConsult, WorkerTyped, ConsultsTyped
<1>4. /\ \A r \in reqs' : \E q \in reqs : SameReq(r, q)
      /\ \A r \in reqs : r # m => r \in reqs'
  <2>1. reqs' = reqs \ {m} \/ reqs' = Abandoned(m)
    BY DEF FollowRefusal, AdmitAnswered, AdmitGivenUp, CountGiveUp
  <2> QED BY <2>1, AbandonedSame, EditedSame DEF WorkerTyped, ReqsTyped
<1>5. \A r \in reqs' : \A j \in Keys : Concerns(r, j) => \E q \in reqs : Concerns(q, j)
  BY <1>4, SameConcerns
<1>6. \A r \in reqs : \A j \in Keys \ {k} : Awaits(r, j) => r \in reqs'
  BY <1>4 DEF Awaits
<1> HIDE DEF k
<1>7. CASE FollowRefusal(m)
  <2>1. UNCHANGED call /\ call[k].change \in Nat /\ m.site = "consult"
    BY <1>1, <1>7 DEF FollowRefusal, WorkerTyped, CallsTyped, CallStates
  <2>2. Onward(k)
    BY <2>1 DEF Onward
  <2>3. Quiet(k)
    BY <1>2, <1>3, <1>4, <2>1, Zenon DEF Quiet, Awaits
  <2>4. OwedAt(k)'
    BY <1>1, <1>3, <2>2, <2>3, OwedFrame
  <2> QED BY <1>1, <1>3, <1>5, <1>6, <2>1, <2>4, OthersOwed
<1>8. ASSUME NEW outcome, NEW held \in HeldSets, outcome # "notsent",
             Report(k, m.site = "consult", m.change, outcome, held)
      PROVE  OwedInv'
  <2>1. /\ Onward(k) /\ \A j \in Keys \ {k} : call'[j] = call[j]
        /\ call[k].stage = "active" => call'[k].owed = TRUE
    <3>1. PICK fold \in BOOLEAN : fold = (m.site = "consult")
      BY <1>1, Zenon
    <3>2. PICK n \in Nat : n = m.change
      BY <1>1
    <3>3. Report(k, fold, n, outcome, held)
      BY <1>8, <3>1, <3>2
    <3>4. /\ Onward(k) /\ \A j \in Keys \ {k} : call'[j] = call[j]
          /\ call[k].stage = "active" /\ outcome # "notsent" => call'[k].owed = TRUE
      BY <1>1, <1>8, <3>3, ReportOwes, Zenon
    <3> QED BY <1>8, <3>4, Zenon
  <2>2. OwedAt(k)'
    <3>1. CASE call[k].stage = "active"
      BY <1>1, <1>3, <2>1, <3>1, OwedOwn, Zenon DEF Onward
    <3>2. CASE call[k].stage # "active"
      <4>1. call[k].stage # "none"
        BY <1>1, <1>2 DEF OwedAt
      <4> QED BY <1>1, <1>3, <2>1, <3>2, <4>1, Zenon DEF OwedAt, Onward
    <3> QED BY <3>1, <3>2
  <2> QED BY <1>1, <1>3, <1>5, <1>6, <2>1, <2>2, OthersOwed, Zenon
<1>9. CASE AdmitAnswered(m)
  BY <1>1, <1>8, <1>9 DEF AdmitAnswered, k
<1>10. CASE AdmitGivenUp(m)
  BY <1>1, <1>8, <1>10, NoneTyped DEF AdmitGivenUp, k
<1> QED BY <1>7, <1>9, <1>10

\* Ending, marking, replicating and materialising a call.
LEMMA CallStepsOwed ==
    ASSUME WorkerTyped, WorkerTyped', OwedInv, NEW k \in Keys,
           End(k) \/ Mark(k) \/ Replicate(k) \/ Materialise(k)
    PROVE  OwedInv'
<1>1. /\ call \in [Keys -> CallStates] /\ copy \in [Keys -> CallStates] /\ OwedAt(k)
      /\ call[k] \in CallStates /\ copy[k] \in CallStates
  BY DEF WorkerTyped, CallsTyped, OwedInv
<1>2. UNCHANGED <<store, consult, reqs>>
  BY DEF End, Mark, Replicate, Materialise
<1>3. Touched(k)' <=> Touched(k)
  BY <1>2 DEF Touched, HasSet
<1>4. ASSUME \A j \in Keys \ {k} : call'[j] = call[j] /\ copy'[j] = copy[j], OwedAt(k)'
      PROVE  OwedInv'
  BY <1>2, <1>4, OthersOwed
<1>5. CASE End(k)
  <2>1. call' = [call EXCEPT ![k].stage = "gone"] /\ UNCHANGED copy
    BY <1>5 DEF End
  <2>2. call'[k].stage = "gone"
    BY <1>1, <2>1 DEF CallStates
  <2> QED BY <1>1, <1>4, <2>1, <2>2, OwedOwn, Zenon
<1>6. CASE Mark(k)
  <2>1. UNCHANGED <<call, copy>>
    BY <1>6 DEF Mark
  <2> QED BY <1>1, <1>2, <1>3, <1>4, <2>1, Zenon DEF OwedAt
<1>7. CASE Replicate(k)
  <2>1. /\ UNCHANGED call /\ call[k].stage \in {"active", "gone"}
        /\ \/ copy' = [copy EXCEPT ![k] = call[k]] /\ call[k].stage = "active"
           \/ copy' = [copy EXCEPT ![k] = NoCall]
    BY <1>7, Zenon DEF Replicate
  <2> QED BY <1>1, <1>2, <1>3, <1>4, <2>1, Zenon DEF OwedAt
<1>8. CASE Materialise(k)
  <2> DEFINE c == EnterEpoch(copy[k])
  <2>1. call' = [call EXCEPT ![k] = c] /\ UNCHANGED copy /\ call[k].stage = "down"
    BY <1>8 DEF Materialise
  <2>2. c.change >= Epoch /\ c.stage = "active" /\ c.change \in Nat /\ Epoch \in Nat
    BY <1>1, <2>1, EpochPassed, EnterEpochTyped, FlowAssumption DEF OwedAt, CallStates, FlowAssumption
  <2> HIDE DEF c
  <2>3. ~(c.change < Epoch)
    BY <2>2
  <2>4. call'[k] = c /\ \A j \in Keys \ {k} : call'[j] = call[j] /\ copy'[j] = copy[j]
    BY <1>1, <2>1
  <2>5. OwedAt(k)'
    BY <1>1, <2>1, <2>2, <2>3, <2>4 DEF OwedAt
  <2> QED BY <1>4, <2>4, <2>5
<1> QED BY <1>5, <1>6, <1>7, <1>8

\* Calls untouched, or moved onward by what the limiter states.
LEMMA AllOnward ==
    ASSUME WorkerTyped, WorkerTyped', OwedInv, UNCHANGED copy,
           \A k \in Keys : Onward(k) /\ Quiet(k)
    PROVE  OwedInv'
BY OwedFrame DEF OwedInv

\* A call left alone goes neither way.
LEMMA StillOnward == ASSUME WorkerTyped, UNCHANGED call PROVE \A k \in Keys : Onward(k)
<1>1. \A k \in Keys : call[k].change \in Nat
  BY DEF WorkerTyped, CallsTyped, CallStates
<1> QED BY <1>1 DEF Onward

\* The senders, the breaker: a refresh is sent of calls that owe.
LEMMA SendersOwed ==
    ASSUME WorkerTyped, WorkerTyped', BatchInv, OwedInv,
           TakeRefreshes \/ SendReleases \/ GiveUpExpired \/ Breaker
    PROVE  OwedInv'
<1>1. UNCHANGED <<store, call, copy, consult>>
  BY DEF TakeRefreshes, SendReleases, GiveUpExpired, Breaker
<1>2. \A k \in Keys : Onward(k)
  BY <1>1, StillOnward
<1>3. CASE TakeRefreshes
  <2> SUFFICES ASSUME NEW k \in Keys PROVE OwedAt(k)'
    BY DEF OwedInv
  <2> DEFINE d == Expired(due)
             K == Waiting(d)
             m == RefreshReq([j \in K |-> d[j].held])
  <2>1. reqs' = reqs \cup {m}
    BY <1>3 DEF TakeRefreshes
  <2>2. Concerns(m, k) => k \in K
    BY Zenon DEF Concerns, RefreshReq
  <2>3. k \in K => due[k] # NoEntry
    BY DEF Waiting, Expired
  <2> HIDE DEF m, K
  <2>4. CASE k \in K
    BY <1>1, <2>3, <2>4, OwedOwn, Zenon DEF BatchInv, InBatch, OwedInv
  <2>5. CASE k \notin K
    <3>1. Quiet(k)
      BY <1>1, <2>1, <2>2, <2>5 DEF Quiet, Touched
    <3> QED BY <1>1, <1>2, <3>1, OwedFrame DEF OwedInv
  <2> QED BY <2>4, <2>5
<1>4. CASE SendReleases \/ GiveUpExpired \/ Breaker
  <2>1. \E K : reqs' = reqs \/ reqs' = reqs \cup {ReleaseReq(K)}
    BY <1>4, Zenon DEF SendReleases, GiveUpExpired, Breaker
  <2>2. \A K : \A k \in Keys : ~Concerns(ReleaseReq(K), k)
    BY DEF Concerns, ReleaseReq
  <2>3. \A r \in reqs' : r \in reqs \/ \A k \in Keys : ~Concerns(r, k)
    BY <2>1, <2>2, Zenon
  <2>4. reqs \subseteq reqs'
    BY <2>1, Zenon
  <2>5. \A k \in Keys : Quiet(k)
    BY <1>1, <2>3, <2>4 DEF Quiet, Touched
  <2> QED BY <1>1, <1>2, <2>5, AllOnward
<1> QED BY <1>3, <1>4

\* A refresh or a release answered, given up or lost.
LEMMA SentOwed ==
    ASSUME WorkerTyped, WorkerTyped', OwedInv, NEW m \in reqs,
           \/ m.op = "release" /\ (ReleaseAnswered(m) \/ ReleaseGivenUp(m))
           \/ m.op = "refresh" /\ (RefreshAnswered(m) \/ RefreshGivenUp(m))
           \/ Vanish(m)
    PROVE  OwedInv'
<1>1. UNCHANGED <<store, copy, consult>>
  BY DEF ReleaseAnswered, ReleaseGivenUp, RefreshAnswered, RefreshGivenUp, Vanish, workerVars
<1>2. ReqTyped(m)
  BY DEF WorkerTyped, ReqsTyped
<1>3. \A k \in Keys : ~Awaits(m, k)
  BY DEF Awaits, Vanish
<1>4. reqs' = reqs \ {m} \/ reqs' = Abandoned(m)
  BY DEF ReleaseAnswered, ReleaseGivenUp, RefreshAnswered, RefreshGivenUp, Vanish, CountGiveUp
<1>5. /\ \A r \in reqs' : \E q \in reqs : SameReq(r, q)
      /\ \A r \in reqs : r # m => r \in reqs'
  BY <1>4, AbandonedSame, EditedSame DEF WorkerTyped, ReqsTyped
<1>6. \A k \in Keys : Quiet(k)
  <2>1. \A r \in reqs' : \A k \in Keys : Concerns(r, k) => \E q \in reqs : Concerns(q, k)
    BY <1>5, SameConcerns
  <2> QED BY <1>1, <1>3, <1>5, <2>1, Zenon DEF Quiet, Touched
<1>7. \A k \in Keys : Onward(k)
  <2>1. CASE m.op = "refresh" /\ RefreshAnswered(m)
    <3> SUFFICES ASSUME NEW k \in Keys PROVE Onward(k)
      OBVIOUS
    <3>1. PICK K \in SUBSET Keys : m \in RefreshReqs(K)
      BY <1>2, <2>1, OpTellsKind
    <3>2. call[k] \in CallStates /\ call[k].change \in Nat
      BY DEF WorkerTyped, CallsTyped, CallStates
    <3>3. \/ call'[k] = call[k]
          \/ k \in DOMAIN m.carried /\ call'[k] = ApplyRefresh(call[k], m.outcomes[k], m.states[k])
      BY <2>1, Zenon DEF RefreshAnswered
    <3>4. CASE call'[k] = call[k]
      BY <3>2, <3>4 DEF Onward
    <3>5. CASE k \in DOMAIN m.carried /\ call'[k] = ApplyRefresh(call[k], m.outcomes[k], m.states[k])
      <4>1. m.states[k] \in HeldSets
        BY <3>1, <3>5 DEF RefreshReqs
      <4>2. call'[k] = call[k] \/ call'[k] = ApplyHeld(call[k], m.states[k])
        BY <3>5 DEF ApplyRefresh
      <4> QED BY <3>2, <3>4, <4>1, <4>2, AppliesOnward, Zenon DEF Onward
    <3> QED BY <3>3, <3>4, <3>5
  <2>2. CASE ~(m.op = "refresh" /\ RefreshAnswered(m))
    <3>1. UNCHANGED call
      BY <2>2 DEF ReleaseAnswered, ReleaseGivenUp, RefreshGivenUp, Vanish, workerVars
    <3> QED BY <3>1, StillOnward
  <2> QED BY <2>1, <2>2
<1> QED BY <1>1, <1>6, <1>7, AllOnward

\* A request that lands puts at the limiter a set it concerns, or none.
LEMMA LandOwed ==
    ASSUME FlowInv, FlowInv', OwedInv, NEW m \in reqs, Land(m)
    PROVE  OwedInv'
<1>1. ReqTyped(m) /\ StoreOK(store) /\ WorkerTyped /\ WorkerTyped'
  BY DEF FlowInv, ReqsTyped, WorkerTyped
<1>2. UNCHANGED <<call, copy, consult>>
  BY DEF Land, workerVars
<1>3. ASSUME NEW b, reqs' = (reqs \ {m}) \cup (IF m.waited THEN {b} ELSE {}),
             \A k \in Keys : Concerns(b, k) => Concerns(m, k),
             \A k \in Keys : Awaits(m, k) => Awaits(b, k),
             \A k \in Keys : HasSet(store', k) => HasSet(store, k) \/ Concerns(m, k)
      PROVE  OwedInv'
  <2> SUFFICES ASSUME NEW k \in Keys PROVE OwedAt(k)'
    BY DEF OwedInv
  <2>1. (\E r \in reqs : Awaits(r, k)) => \E r \in reqs' : Awaits(r, k)
    <3>1. ASSUME NEW r \in reqs, Awaits(r, k) PROVE \E q \in reqs' : Awaits(q, k)
      <4>1. CASE r = m
        BY <1>3, <3>1, <4>1 DEF Awaits
      <4>2. CASE r # m
        BY <1>3, <3>1, <4>2
      <4> QED BY <4>1, <4>2
    <3> QED BY <3>1
  <2>2. \A r \in reqs' : Concerns(r, k) => Touched(k)
    BY <1>3 DEF Touched
  <2>3. Touched(k)' => Touched(k)
    BY <1>2, <1>3, <2>2 DEF Touched, HasSet
  <2> QED BY <1>2, <2>1, <2>3 DEF OwedInv, OwedAt
<1>4. CASE m \in AdmitReqs
  <2> DEFINE a == AdmitCarrying(store, m.key, m.change, m.held, m.entries, m.ror)
             b == [m EXCEPT !.phase = "answered", !.outcome = a.outcome, !.states = a.held]
  <2>1. LandAdmit(m)
    BY <1>4, Zenon DEF Land, AdmitReqs
  <2>2. store' = a.store /\ reqs' = (reqs \ {m}) \cup (IF m.waited THEN {b} ELSE {})
    BY <2>1 DEF LandAdmit
  <2>3. /\ m.key \in Keys /\ m.change \in Nat /\ m.held \in HeldSets
        /\ m.entries \in Lists /\ m.ror \in BOOLEAN /\ m.op = "admit"
    BY <1>4 DEF AdmitReqs
  <2>4. \A k \in Keys : k # m.key => KeyKept(store, a.store, k)
    BY <1>1, <2>3, AdmitKey
  <2> HIDE DEF a
  <2>5. \A k \in Keys : (Concerns(b, k) => Concerns(m, k)) /\ (Awaits(m, k) => Awaits(b, k))
    BY <1>4 DEF Concerns, Awaits, AdmitReqs
  <2> HIDE DEF b
  <2>6. \A k \in Keys : HasSet(store', k) => HasSet(store, k) \/ Concerns(m, k)
    <3> SUFFICES ASSUME NEW k \in Keys, k # m.key, HasSet(store', k) PROVE HasSet(store, k)
      BY <2>3 DEF Concerns
    <3>1. SetOf(store', k) = SetOf(store, k)
      BY <2>2, <2>4, KeptNumbers DEF HasSet
    <3>2. SetOf(store', k).entries = store'.calls[k].entries /\ SetOf(store, k).entries = store.calls[k].entries
      BY DEF SetOf
    <3> QED BY <3>1, <3>2 DEF HasSet
  <2> QED BY <1>3, <2>2, <2>5, <2>6
<1>5. ASSUME NEW K \in SUBSET Keys, m \in RefreshReqs(K) PROVE OwedInv'
  <2> DEFINE s == RefreshKeys(store, K, m.carried)
             outcomes == [k \in K |-> RefreshOutcome(store, k, m.carried[k])]
             states == [k \in K |-> HeldOf(s, k)]
             b == [m EXCEPT !.phase = "answered", !.outcomes = outcomes, !.states = states]
  <2>1. LandRefresh(m) /\ m.op = "refresh" /\ DOMAIN m.carried = K
    BY <1>5, Zenon DEF Land, RefreshReqs
  <2>2. store' = s /\ reqs' = (reqs \ {m}) \cup (IF m.waited THEN {b} ELSE {})
    BY <2>1, Zenon DEF LandRefresh
  <2>3. \A k \in Keys : KeyKept(store, s, k) \/ k \in K
    BY <1>1, RefreshKey
  <2> HIDE DEF s, outcomes, states
  <2>4. \A k \in Keys : (Concerns(b, k) => Concerns(m, k)) /\ (Awaits(m, k) => Awaits(b, k))
    BY <1>5, <2>1 DEF Concerns, Awaits, RefreshReqs
  <2> HIDE DEF b
  <2>5. \A k \in Keys : HasSet(store', k) => HasSet(store, k) \/ Concerns(m, k)
    <3> SUFFICES ASSUME NEW k \in Keys, k \notin K, HasSet(store', k) PROVE HasSet(store, k)
      BY <2>1 DEF Concerns
    <3>1. SetOf(store', k) = SetOf(store, k)
      BY <2>2, <2>3, KeptNumbers DEF HasSet
    <3>2. SetOf(store', k).entries = store'.calls[k].entries /\ SetOf(store, k).entries = store.calls[k].entries
      BY DEF SetOf
    <3> QED BY <3>1, <3>2 DEF HasSet
  <2> QED BY <1>3, <2>2, <2>4, <2>5
<1>6. ASSUME NEW K, m \in ReleaseOf(K) PROVE OwedInv'
  <2> DEFINE b == [m EXCEPT !.phase = "answered"]
  <2>1. LandRelease(m) /\ m.op = "release"
    BY <1>6 DEF Land, ReleaseOf
  <2>2. store' = ReleaseKeys(store, m.keys) /\ reqs' = (reqs \ {m}) \cup (IF m.waited THEN {b} ELSE {})
    BY <2>1 DEF LandRelease
  <2>3. \A k \in Keys : ~Concerns(b, k) /\ ~Awaits(m, k)
    BY <1>6 DEF Concerns, Awaits, ReleaseOf
  <2> HIDE DEF b
  <2>4. \A k \in Keys : HasSet(store', k) => HasSet(store, k)
    <3> SUFFICES ASSUME NEW k \in Keys, HasSet(store', k) PROVE HasSet(store, k)
      OBVIOUS
    <3>1. SetOf(store', k) \in {SetOf(store, k), NoHeld}
      BY <1>1, <2>2, ReleaseKey, Zenon
    <3>2. SetOf(store', k).entries = store'.calls[k].entries /\ SetOf(store, k).entries = store.calls[k].entries
          /\ NoHeld.entries = <<>>
      BY DEF SetOf, NoHeld
    <3> QED BY <3>1, <3>2 DEF HasSet
  <2> QED BY <1>3, <2>2, <2>3, <2>4
<1> QED BY <1>1, <1>4, <1>5, <1>6 DEF ReqTyped

\* The janitor and time put no set at the limiter, a restart takes all away.
LEMMA StoreStepsOwed ==
    ASSUME FlowInv, FlowInv', OwedInv, Janitor \/ Restart \/ Tick
    PROVE  OwedInv'
<1>1. WorkerTyped /\ WorkerTyped' /\ StoreOK(store) /\ ReqsTyped
  BY DEF FlowInv, WorkerTyped
<1>2. UNCHANGED <<call, copy, consult>>
  BY DEF Janitor, Restart, Tick, workerVars
<1>3. \A k \in Keys : Onward(k)
  BY <1>1, <1>2, StillOnward
<1>4. \A k \in Keys : HasSet(store', k) => HasSet(store, k)
  <2> SUFFICES ASSUME NEW k \in Keys, HasSet(store', k) PROVE HasSet(store, k)
    OBVIOUS
  <2>1. SetOf(store', k) \in {SetOf(store, k), NoHeld}
    <3>1. CASE Janitor
      BY <1>1, <3>1, SweepKey DEF Janitor, StoreSweep, KeyKept
    <3>2. CASE Restart
      BY <3>2 DEF Restart, StoreRestart, EmptyStore, SetOf, NoSet, NoHeld
    <3>3. CASE Tick
      BY <1>1, <3>3, AgedKey DEF Tick, StoreTick
    <3> QED BY <3>1, <3>2, <3>3
  <2>2. SetOf(store', k).entries = store'.calls[k].entries /\ SetOf(store, k).entries = store.calls[k].entries
        /\ NoHeld.entries = <<>>
    BY DEF SetOf, NoHeld
  <2> QED BY <2>1, <2>2 DEF HasSet
<1>5. \A r \in reqs' : \E m \in reqs : SameReq(r, m)
  <2>1. \A m \in reqs : SameReq(m, m) /\ SameReq([m EXCEPT !.phase = "dead"], m)
    BY <1>1, EditedSame DEF ReqsTyped
  <2>2. CASE Janitor \/ Tick
    BY <2>1, <2>2, Zenon DEF Janitor, Tick
  <2>3. CASE Restart
    <3>1. \A r \in reqs' : \E m \in reqs : r = m \/ r = [m EXCEPT !.phase = "dead"]
      BY <2>3, Zenon DEF Restart
    <3> QED BY <2>1, <3>1, Zenon
  <2> QED BY <2>2, <2>3
<1>6. \A k \in Keys : (\E m \in reqs : Awaits(m, k)) => \E m \in reqs' : Awaits(m, k)
  <2> SUFFICES ASSUME NEW k \in Keys, NEW m \in reqs, Awaits(m, k) PROVE \E r \in reqs' : Awaits(r, k)
    OBVIOUS
  <2>1. CASE Janitor \/ Tick
    BY <2>1 DEF Janitor, Tick
  <2>2. CASE Restart
    <3>1. m.phase # "out" => m \in reqs'
      BY <2>2 DEF Restart
    <3>2. m.phase = "out" => [m EXCEPT !.phase = "dead"] \in reqs'
      BY <2>2 DEF Restart, Awaits
    <3>3. Awaits([m EXCEPT !.phase = "dead"], k)
      BY <1>1, EditedSame, Zenon DEF ReqsTyped
    <3> QED BY <3>1, <3>2, <3>3
  <2> QED BY <2>1, <2>2
<1>7. \A k \in Keys : Quiet(k)
  <2>1. \A r \in reqs' : \A k \in Keys : Concerns(r, k) => \E q \in reqs : Concerns(q, k)
    BY <1>5, SameConcerns
  <2> QED BY <1>2, <1>4, <1>6, <2>1 DEF Quiet, Touched
<1> QED BY <1>1, <1>2, <1>3, <1>7, AllOnward

\* A crash leaves no call in its first holder's hands.
LEMMA CrashOwed == ASSUME WorkerTyped, OwedInv, Crash PROVE OwedInv'
<1> SUFFICES ASSUME NEW k \in Keys PROVE OwedAt(k)'
  BY DEF OwedInv
<1>1. OwedAt(k) /\ call[k] \in CallStates /\ copy[k] \in CallStates /\ ReqsTyped
  BY DEF OwedInv, WorkerTyped, CallsTyped
<1>2. call'[k] = IF copy[k] # NoCall THEN [call[k] EXCEPT !.stage = "down"]
                 ELSE IF call[k].stage = "active" THEN [call[k] EXCEPT !.stage = "gone"]
                 ELSE call[k]
  BY DEF Crash
<1>3. /\ call'[k].stage # "active"
      /\ call'[k].stage = "none" => call[k].stage = "none"
      /\ call'[k].stage = "down" => copy[k] # NoCall
  <2>1. NoCall.stage = "none"
    BY DEF NoCall, Uncounted
  <2>2. [call[k] EXCEPT !.stage = "down"].stage = "down" /\ [call[k] EXCEPT !.stage = "gone"].stage = "gone"
    BY <1>1 DEF CallStates
  <2> QED BY <1>1, <1>2, <2>1, <2>2 DEF OwedAt
<1>4. UNCHANGED <<store, copy>> /\ consult'[k] = NoConsult
  BY DEF Crash
<1>5. \A r \in reqs' : \E m \in reqs : SameReq(r, m)
  BY <1>1, EditedSame, Zenon DEF ReqsTyped, Crash
<1>6. \A r \in reqs' : Concerns(r, k) => \E q \in reqs : Concerns(q, k)
  BY <1>5, SameConcerns
<1>7. Touched(k)' => Touched(k)
  <2>1. NoConsult.phase = "none"
    BY DEF NoConsult
  <2> QED BY <1>4, <1>6, <2>1 DEF Touched, HasSet
<1> QED BY <1>1, <1>3, <1>4, <1>7 DEF OwedAt

\* The steps of a request in flight.
LEMMA RequestsOwed ==
    ASSUME FlowInv, FlowInv', OwedInv, NEW m \in reqs,
           Answered(m) \/ GivenUp(m) \/ Land(m) \/ Vanish(m)
    PROVE  OwedInv'
<1>1. WorkerTyped /\ WorkerTyped' /\ ReqTyped(m)
  BY DEF FlowInv, WorkerTyped, ReqsTyped
<1>2. CASE Land(m)
  BY <1>2, LandOwed
<1>3. CASE Vanish(m)
  BY <1>1, <1>3, SentOwed
<1>4. CASE Answered(m) \/ GivenUp(m)
  <2>1. CASE m.op = "admit"
    <3>1. FollowRefusal(m) \/ AdmitAnswered(m) \/ AdmitGivenUp(m)
      BY <1>4, <2>1 DEF Answered, GivenUp
    <3> QED BY <1>1, <2>1, <3>1, OpTellsKind, AnswersOwed
  <2>2. CASE m.op = "refresh"
    <3>1. RefreshAnswered(m) \/ RefreshGivenUp(m)
      BY <1>4, <2>2 DEF Answered, GivenUp
    <3> QED BY <1>1, <2>2, <3>1, SentOwed
  <2>3. CASE m.op = "release"
    <3>1. ReleaseAnswered(m) \/ ReleaseGivenUp(m)
      BY <1>4, <2>3 DEF Answered, GivenUp
    <3> QED BY <1>1, <2>3, <3>1, SentOwed
  <2> QED BY <1>1, <2>1, <2>2, <2>3, OpTellsKind
<1> QED BY <1>2, <1>3, <1>4

\* No step leaves a set at the limiter, or on its way there, that its call's
\* first holder does not owe.
LEMMA OwedInvKept ==
    /\ FlowInit => OwedInv
    /\ FlowInv /\ FlowInv' /\ BatchInv /\ OwedInv /\ [FlowNext]_vars => OwedInv'
<1>1. ASSUME FlowInit PROVE OwedInv
  <2> SUFFICES ASSUME NEW k \in Keys PROVE OwedAt(k)
    BY DEF OwedInv
  <2>1. call[k] = NoCall /\ copy[k] = NoCall /\ consult[k] = NoConsult /\ reqs = {}
        /\ store.calls[k] = NoSet
    BY <1>1 DEF FlowInit, StoreInit, EmptyStore
  <2>2. NoCall.stage = "none" /\ NoConsult.phase = "none" /\ NoSet.entries = <<>>
    BY DEF NoCall, Uncounted, NoConsult, NoSet
  <2> QED BY <2>1, <2>2 DEF OwedAt, Touched, HasSet
<1>2. ASSUME FlowInv, FlowInv', BatchInv, OwedInv, [FlowNext]_vars PROVE OwedInv'
  <2>1. WorkerTyped /\ WorkerTyped'
    BY <1>2 DEF FlowInv, WorkerTyped
  <2>2. ASSUME NEW k \in Keys, NEW entries \in Lists,
               \/ Initial(k, entries) \/ Replace(k, entries) \/ Route(k, entries)
               \/ DispatchConsult(k) \/ Resolve(k)
        PROVE  OwedInv'
    BY <1>2, <2>1, <2>2, TurnsOwed, EngineOwed
  <2>3. ASSUME NEW k \in Keys, End(k) \/ Mark(k) \/ Replicate(k) \/ Materialise(k)
        PROVE  OwedInv'
    BY <1>2, <2>1, <2>3, CallStepsOwed
  <2>4. CASE TakeRefreshes \/ SendReleases \/ GiveUpExpired \/ Breaker
    BY <1>2, <2>1, <2>4, SendersOwed
  <2>5. ASSUME NEW m \in reqs, Answered(m) \/ GivenUp(m) \/ Land(m) \/ Vanish(m)
        PROVE  OwedInv'
    BY <1>2, <2>5, RequestsOwed
  <2>6. CASE Janitor \/ Restart \/ Tick
    BY <1>2, <2>6, StoreStepsOwed
  <2>7. CASE Crash
    BY <1>2, <2>1, <2>7, CrashOwed
  <2>8. CASE UNCHANGED vars
    BY <1>2, <2>8, Zenon DEF vars, OwedInv, OwedAt, Touched, HasSet
  <2>9. <<>> \in Lists
    BY StoreAssumption DEF StoreAssumption
  <2> QED BY <1>2, <2>2, <2>3, <2>4, <2>5, <2>6, <2>7, <2>8, <2>9 DEF FlowNext
<1> QED BY <1>1, <1>2

\* "A call that sent an admit request releases its key": while a call's first
\* holder serves it, no set of its key is at the limiter, or on its way there
\* off the call's turn, that the call does not owe a release for. It holds
\* whatever is lost, late, abandoned or restarted.
THEOREM SetsAreOwed == FlowSpec => []SetIsOwed
<1>1. FlowInit => FlowInv /\ BatchInv /\ OwedInv
  BY FlowInvKept, BatchInvKept, OwedInvKept
<1>2. FlowInv /\ BatchInv /\ OwedInv /\ [FlowNext]_vars => (FlowInv /\ BatchInv /\ OwedInv)'
  <2> SUFFICES ASSUME FlowInv, BatchInv, OwedInv, [FlowNext]_vars
               PROVE  FlowInv' /\ BatchInv' /\ OwedInv'
    OBVIOUS
  <2>1. FlowInv'
    BY FlowInvKept
  <2>2. WorkerTyped
    BY DEF FlowInv, WorkerTyped
  <2> QED BY <2>1, <2>2, BatchInvKept, OwedInvKept
<1>3. FlowInv /\ OwedInv => SetIsOwed
  <2> SUFFICES ASSUME FlowInv, OwedInv, NEW k \in Keys, Runs(k), call[k].change < Epoch,
                      HasSet(store, k) \/ \E m \in reqs : m.op = "admit" /\ m.key = k
               PROVE  call[k].owed
    BY DEF SetIsOwed
  <2>1. Touched(k)
    BY DEF Touched, Concerns
  <2>2. ~\E m \in reqs : Awaits(m, k)
    BY AwaitsIt DEF Runs, FlowInv
  <2> QED BY <2>1, <2>2 DEF OwedInv, OwedAt, Runs
<1> QED BY <1>1, <1>2, <1>3, PTL DEF FlowSpec

-----------------------------------------------------------------------------
(* Types: the queue keeps to its bound. *)

\* An entry of the release queue.
QueueEntries == [key : Keys, left : 0..Lease, sending : BOOLEAN]

\* The queue is one of entries, within its bound.
QueueOK(q) == q \in Seq(QueueEntries) /\ Len(q) <= Cap

\* The end of a queue is a queue, no longer than it.
LEMMA SuffixOK ==
    ASSUME NEW q \in Seq(QueueEntries), NEW n \in 1..Len(q) + 1
    PROVE  SubSeq(q, n, Len(q)) \in Seq(QueueEntries) /\ Len(SubSeq(q, n, Len(q))) = Len(q) - n + 1
BY SMTT(30)

\* A part of a queue has no more places than the queue.
LEMMA PartOf ==
    ASSUME NEW q \in Seq(QueueEntries), NEW T \in SUBSET DOMAIN q
    PROVE  Cardinality(T) + 1 \in 1..Len(q) + 1
<1>1. DOMAIN q = 1..Len(q) /\ Len(q) \in Nat
  OBVIOUS
<1>2. IsFiniteSet(1..Len(q)) /\ Cardinality(1..Len(q)) = Len(q)
  <2>1. Len(q) \in Int /\ 1 \in Int
    BY <1>1
  <2>2. /\ IsFiniteSet(1..Len(q))
        /\ Cardinality(1..Len(q)) = IF 1 > Len(q) THEN 0 ELSE Len(q) - 1 + 1
    BY <2>1, FS_Interval
  <2> QED BY <1>1, <2>2
<1>3. IsFiniteSet(T) /\ Cardinality(T) <= Len(q)
  BY <1>1, <1>2, FS_Subset
<1>4. Cardinality(T) \in Nat
  BY <1>3, FS_CardinalityType
<1> QED BY <1>1, <1>3, <1>4

\* What has not lapsed of a queue is one.
LEMMA LiveOK == ASSUME NEW q, QueueOK(q) PROVE QueueOK(Live(q)) /\ Len(Live(q)) <= Len(q)
<1> DEFINE T == {i \in DOMAIN q : \A j \in 1..i : q[j].left = 0}
           n == Cardinality(T) + 1
<1>1. q \in Seq(QueueEntries) /\ Len(q) \in Nat /\ Len(q) <= Cap /\ Cap \in Nat
  BY FlowAssumption DEF QueueOK, FlowAssumption
<1>2. n \in 1..Len(q) + 1
  BY <1>1, PartOf
<1>3. Live(q) = SubSeq(q, n, Len(q))
  BY DEF Live
<1> HIDE DEF n
<1>4. Live(q) \in Seq(QueueEntries) /\ Len(Live(q)) = Len(q) - n + 1
  BY <1>1, <1>2, <1>3, SuffixOK
<1> QED BY <1>1, <1>2, <1>4 DEF QueueOK

\* A push onto a full queue gives up the oldest entry.
LEMMA PushedOK == ASSUME NEW q, QueueOK(q), NEW k \in Keys PROVE QueueOK(Pushed(q, k))
<1> DEFINE l == Live(q)
           r == RoomForOne(l)
           e == [key |-> k, left |-> Lease, sending |-> FALSE]
<1>1. Cap \in Nat \ {0} /\ Lease \in Nat
  BY FlowAssumption, StoreAssumption DEF FlowAssumption, StoreAssumption
<1>2. l \in Seq(QueueEntries) /\ Len(l) \in Nat /\ Len(l) <= Cap /\ QueueOK(l)
  BY LiveOK DEF QueueOK
<1>3. Pushed(q, k) = IF \E i \in DOMAIN l : l[i].key = k THEN l ELSE Append(r, e)
  BY DEF Pushed
<1>4. e \in QueueEntries
  BY <1>1 DEF QueueEntries
<1>5. r \in Seq(QueueEntries) /\ Len(r) + 1 <= Cap
  <2> HIDE DEF l
  <2>1. CASE Len(l) < Cap
    BY <1>1, <1>2, <2>1 DEF RoomForOne
  <2>2. CASE ~(Len(l) < Cap)
    <3>1. r = SubSeq(l, Len(l) - Cap + 2, Len(l)) /\ Len(l) = Cap
      BY <1>1, <1>2, <2>2 DEF RoomForOne
    <3>2. Len(l) - Cap + 2 \in 1..Len(l) + 1
      BY <1>1, <1>2, <3>1
    <3>3. r \in Seq(QueueEntries) /\ Len(r) = Len(l) - (Len(l) - Cap + 2) + 1
      BY <1>2, <3>1, <3>2, SuffixOK
    <3> QED BY <1>1, <1>2, <3>1, <3>3
  <2> QED BY <2>1, <2>2
<1> HIDE DEF l, r, e
<1>6. Append(r, e) \in Seq(QueueEntries) /\ Len(Append(r, e)) = Len(r) + 1
  BY <1>4, <1>5
<1>7. QueueOK(Append(r, e))
  BY <1>5, <1>6 DEF QueueOK
<1> QED BY <1>2, <1>3, <1>7

\* A queue whose entries are edited in place is one.
LEMMA EditedOK ==
    ASSUME NEW q, QueueOK(q)
    PROVE  /\ \A b \in BOOLEAN : QueueOK([i \in DOMAIN q |-> [q[i] EXCEPT !.sending = b]])
           /\ QueueOK([i \in DOMAIN q |-> [q[i] EXCEPT !.left = Nearer(@)]])
<1>1. q \in Seq(QueueEntries) /\ Len(q) \in Nat /\ Len(q) <= Cap /\ DOMAIN q = 1..Len(q)
  BY DEF QueueOK
<1>2. Lease \in Nat
  BY StoreAssumption DEF StoreAssumption
<1>3. \A i \in DOMAIN q : q[i] \in QueueEntries
  BY <1>1
<1>4. \A s \in QueueEntries : /\ \A b \in BOOLEAN : [s EXCEPT !.sending = b] \in QueueEntries
                       /\ [s EXCEPT !.left = Nearer(@)] \in QueueEntries
  BY <1>2 DEF QueueEntries, Nearer
<1>5. ASSUME NEW f \in [1..Len(q) -> QueueEntries] PROVE QueueOK(f)
  <2>1. f \in Seq(QueueEntries) /\ Len(f) = Len(q)
    BY <1>1
  <2> QED BY <1>1, <2>1 DEF QueueOK
<1>6. \A b \in BOOLEAN : [i \in DOMAIN q |-> [q[i] EXCEPT !.sending = b]] \in [1..Len(q) -> QueueEntries]
  BY <1>1, <1>3, <1>4, Zenon
<1>7. [i \in DOMAIN q |-> [q[i] EXCEPT !.left = Nearer(@)]] \in [1..Len(q) -> QueueEntries]
  BY <1>1, <1>3, <1>4
<1> QED BY <1>5, <1>6, <1>7

\* A report hands the queue at most the key it is about.
LEMMA ReportQueue ==
    ASSUME NEW k \in Keys, NEW fold, NEW n, NEW outcome, NEW held,
           Report(k, fold, n, outcome, held), QueueOK(queue)
    PROVE  QueueOK(queue')
<1>1. queue' = queue \/ queue' = Pushed(queue, k)
  BY DEF Report, KeepQueues, Release
<1> QED BY <1>1, PushedOK

\* Every step keeps the queue within its bound.
LEMMA QueueKept ==
    ASSUME ReqsTyped, QueueOK(queue), [FlowNext]_vars PROVE QueueOK(queue')
<1>1. ASSUME NEW k \in Keys, NEW entries \in Lists,
             Initial(k, entries) \/ Replace(k, entries) \/ Route(k, entries)
      PROVE  QueueOK(queue')
  <2>1. CASE UNCHANGED queue
    BY <2>1
  <2>2. CASE Report(k, TRUE, consult[k].first + consult[k].depth, "notsent", NoHeld)
    BY <2>2, ReportQueue, Zenon
  <2> QED BY <1>1, <2>1, <2>2, Zenon DEF Initial, Replace, Route, KeepQueues
<1>2. ASSUME NEW k \in Keys, DispatchConsult(k) \/ Resolve(k) \/ End(k) PROVE QueueOK(queue')
  <2>1. CASE UNCHANGED queue \/ queue' = Pushed(queue, k)
    BY <2>1, PushedOK
  <2>2. CASE Report(k, TRUE, consult[k].first + consult[k].depth - 1, "rejected", consult[k].held)
    BY <2>2, ReportQueue, Zenon
  <2> QED BY <1>2, <2>1, <2>2, Zenon DEF DispatchConsult, Resolve, End, KeepQueues, Release
<1>3. ASSUME NEW k \in Keys, Mark(k) \/ Replicate(k) \/ Materialise(k) PROVE QueueOK(queue')
  BY <1>3 DEF Mark, Replicate, Materialise, KeepQueues
<1>4. CASE TakeRefreshes \/ Breaker \/ Janitor \/ Restart
  BY <1>4 DEF TakeRefreshes, Breaker, KeepQueues, Janitor, Restart, workerVars
<1>5. CASE SendReleases
  <2>1. QueueOK(Live(queue))
    BY LiveOK
  <2>2. \A q : QueueOK(q) => QueueOK([i \in DOMAIN q |-> [q[i] EXCEPT !.sending = TRUE]])
    BY EditedOK, Zenon
  <2> QED BY <1>5, <2>1, <2>2 DEF SendReleases
<1>6. CASE GiveUpExpired
  BY <1>6, LiveOK DEF GiveUpExpired
<1>7. ASSUME NEW m \in reqs, Answered(m) \/ GivenUp(m) \/ Land(m) \/ Vanish(m)
      PROVE  QueueOK(queue')
  <2>1. ReqTyped(m) /\ m.op \in {"admit", "refresh", "release"}
    BY OpTellsKind DEF ReqsTyped
  <2>2. CASE UNCHANGED queue
    BY <2>2
  <2>3. CASE m.op = "admit" /\ ~UNCHANGED queue
    <3>1. m.key \in Keys
      BY <2>1, <2>3, OpTellsKind DEF AdmitReqs
    <3>2. AdmitAnswered(m) \/ AdmitGivenUp(m)
      BY <1>7, <2>3 DEF Answered, GivenUp, FollowRefusal, KeepQueues, Land, Vanish, workerVars
    <3> QED BY <3>1, <3>2, ReportQueue DEF AdmitAnswered, AdmitGivenUp
  <2>4. CASE m.op = "refresh"
    BY <1>7, <2>2, <2>4 DEF Answered, GivenUp, RefreshAnswered, RefreshGivenUp, Land, Vanish, workerVars
  <2>5. CASE m.op = "release" /\ ~UNCHANGED queue
    <3> DEFINE T == {i \in DOMAIN queue : queue[i].sending}
               s == Cardinality(T) + 1
    <3>1. CASE ReleaseAnswered(m)
      <4>1. queue \in Seq(QueueEntries) /\ Len(queue) \in Nat /\ Len(queue) <= Cap /\ Cap \in Nat
        BY FlowAssumption DEF QueueOK, FlowAssumption
      <4>2. s \in 1..Len(queue) + 1
        BY <4>1, PartOf
      <4>3. queue' = SubSeq(queue, s, Len(queue))
        BY <3>1 DEF ReleaseAnswered
      <4> HIDE DEF s
      <4>4. queue' \in Seq(QueueEntries) /\ Len(queue') = Len(queue) - s + 1
        BY <4>1, <4>2, <4>3, SuffixOK
      <4> QED BY <4>1, <4>2, <4>4 DEF QueueOK
    <3>2. CASE ReleaseGivenUp(m)
      <4>1. \A q : QueueOK(q) => QueueOK([i \in DOMAIN q |-> [q[i] EXCEPT !.sending = FALSE]])
        BY EditedOK, Zenon
      <4> QED BY <3>2, <4>1 DEF ReleaseGivenUp
    <3> QED BY <1>7, <2>5, <3>1, <3>2 DEF Answered, GivenUp, Land, Vanish, workerVars
  <2> QED BY <2>1, <2>2, <2>3, <2>4, <2>5
<1>8. CASE Tick
  <2>1. \A q : QueueOK(q) => QueueOK([i \in DOMAIN q |-> [q[i] EXCEPT !.left = Nearer(@)]])
    BY EditedOK
  <2> QED BY <1>8, <2>1 DEF Tick
<1>9. CASE Crash
  <2>1. queue' = <<>>
    BY <1>9 DEF Crash
  <2>2. <<>> \in Seq(QueueEntries) /\ Len(<<>>) = 0 /\ 0 <= Cap
    BY FlowAssumption DEF FlowAssumption
  <2> QED BY <2>1, <2>2 DEF QueueOK
<1>10. CASE UNCHANGED vars
  BY <1>10 DEF vars
<1> QED BY <1>1, <1>2, <1>3, <1>4, <1>5, <1>6, <1>7, <1>8, <1>9, <1>10 DEF FlowNext

\* The breaker, the bounds, the history and the releases are of their kinds.
RestOK ==
    /\ open \in BOOLEAN /\ budget \in AllBudgets /\ recreated \subseteq Ids
    /\ \A m \in reqs : m.op = "release" => m.keys \subseteq Keys

\* A step spends from one bound.
LEMMA SpendOK ==
    ASSUME budget \in AllBudgets,
           NEW step \in {"replace", "consult", "giveup", "trip", "restart", "crash"}, Spend(step)
    PROVE  budget' \in AllBudgets
BY DEF Spend, AllBudgets

\* No edit of a request changes what a release names.
LEMMA ReleaseEdits ==
    ASSUME NEW m, ReqTyped(m), m.op = "release" => m.keys \subseteq Keys
    PROVE  /\ LET r == [m EXCEPT !.waited = FALSE] IN r.op = "release" => r.keys \subseteq Keys
           /\ LET r == [m EXCEPT !.phase = "dead"] IN r.op = "release" => r.keys \subseteq Keys
           /\ LET r == [m EXCEPT !.phase = "answered"] IN r.op = "release" => r.keys \subseteq Keys
<1>1. CASE m.op = "release"
  <2>1. PICK K : m \in ReleaseOf(K)
    BY <1>1 DEF ReqTyped, AdmitReqs, RefreshReqs
  <2> QED BY <1>1, <2>1 DEF ReleaseOf
<1>2. CASE m \in AdmitReqs
  BY <1>2 DEF AdmitReqs
<1>3. ASSUME NEW K \in SUBSET Keys, m \in RefreshReqs(K)
      PROVE  /\ [m EXCEPT !.waited = FALSE].op = "refresh"
             /\ [m EXCEPT !.phase = "dead"].op = "refresh"
             /\ [m EXCEPT !.phase = "answered"].op = "refresh"
  BY <1>3 DEF RefreshReqs
<1> QED BY <1>1, <1>2, <1>3, OpTellsKind DEF ReqTyped

\* A release in flight names keys.
LEMMA ReleasesNameKeys ==
    ASSUME ReqsTyped, QueueOK(queue), RestOK, [FlowNext]_vars
    PROVE  \A m \in reqs' : m.op = "release" => m.keys \subseteq Keys
<1> DEFINE Names(m) == m.op = "release" => m.keys \subseteq Keys
<1> SUFFICES \A m \in reqs' : Names(m)
  OBVIOUS
<1>0. \A m \in reqs : ReqTyped(m) /\ Names(m)
  BY DEF RestOK, ReqsTyped
<1>1. ASSUME NEW m \in reqs PROVE \A r \in Abandoned(m) : Names(r)
  BY <1>0, ReleaseEdits, Zenon DEF Abandoned
<1>2. ASSUME NEW m, m.op # "release", reqs' \subseteq reqs \cup {m} PROVE \A r \in reqs' : Names(r)
  BY <1>0, <1>2
<1>3. CASE reqs' \subseteq reqs
  BY <1>0, <1>3
<1>4. ASSUME NEW k \in Keys, NEW entries \in Lists,
             Initial(k, entries) \/ Replace(k, entries) \/ Route(k, entries)
      PROVE  \A r \in reqs' : Names(r)
  <2>1. \A j, site, n, held, l, ror : AdmitReq(j, site, n, held, l, ror).op # "release"
    BY DEF AdmitReq
  <2> DEFINE a(site, n, held, ror) == AdmitReq(k, site, n, held, entries, ror)
  <2>2. CASE Initial(k, entries)
    <3>1. reqs' \subseteq reqs \cup {a("initial", Uncounted("active").change + 1,
                                      HeldBy(Uncounted("active")), FALSE)}
      BY <2>2, Zenon DEF Initial, SendAdmit
    <3> QED BY <1>2, <2>1, <3>1, Zenon
  <2>3. CASE Replace(k, entries)
    <3>1. reqs' \subseteq reqs \cup {a("service", Reserved(call[k], 1).change, HeldBy(call[k]), FALSE)}
      BY <2>3, Zenon DEF Replace, SendAdmit
    <3> QED BY <1>2, <2>1, <3>1, Zenon
  <2>4. CASE Route(k, entries)
    <3>1. reqs' \subseteq reqs \cup {a("consult", consult[k].first + consult[k].depth,
                                      consult[k].held, TRUE)}
      BY <2>4, Zenon DEF Route
    <3> QED BY <1>2, <2>1, <3>1, Zenon
  <2> QED BY <1>4, <2>2, <2>3, <2>4
<1>5. CASE \/ \E k \in Keys : DispatchConsult(k) \/ Resolve(k) \/ End(k)
           \/ \E k \in Keys : Mark(k) \/ Replicate(k) \/ Materialise(k)
           \/ GiveUpExpired \/ Breaker \/ Janitor \/ Tick
  BY <1>3, <1>5, Zenon DEF DispatchConsult, Resolve, End, Mark, Replicate, Materialise, GiveUpExpired,
                    Breaker, Janitor, Tick
<1>6. CASE TakeRefreshes
  <2>1. \A f : RefreshReq(f).op # "release"
    BY DEF RefreshReq
  <2> QED BY <1>2, <1>6, <2>1 DEF TakeRefreshes
<1>7. CASE SendReleases
  <2>1. Live(queue) \in Seq(QueueEntries)
    BY LiveOK DEF QueueOK
  <2>2. \A i \in DOMAIN Live(queue) : Live(queue)[i].key \in Keys
    <3>1. PICK q : q = Live(queue)
      OBVIOUS
    <3>2. \A i \in DOMAIN q : q[i] \in QueueEntries
      BY <2>1, <3>1
    <3> QED BY <3>1, <3>2 DEF QueueEntries
  <2>3. \A K : ReleaseReq(K).keys = K
    BY DEF ReleaseReq
  <2>4. Names(ReleaseReq({Live(queue)[i].key : i \in DOMAIN Live(queue)}))
    BY <2>2, <2>3
  <2> QED BY <1>0, <1>7, <2>4 DEF SendReleases
<1>8. ASSUME NEW m \in reqs, Answered(m) \/ GivenUp(m) \/ Land(m) \/ Vanish(m)
      PROVE  \A r \in reqs' : Names(r)
  <2>1. ReqTyped(m) /\ m.op \in {"admit", "refresh", "release"} /\ Names(m)
    BY <1>0, OpTellsKind DEF ReqsTyped
  <2>2. CASE Vanish(m) \/ Answered(m)
    <3>1. reqs' = reqs \ {m}
      BY <2>1, <2>2, Zenon DEF Vanish, Answered, AdmitAnswered, FollowRefusal, RefreshAnswered, ReleaseAnswered
    <3> QED BY <1>3, <3>1
  <2>3. CASE GivenUp(m)
    <3>1. reqs' = Abandoned(m)
      BY <2>1, <2>3, Zenon DEF GivenUp, AdmitGivenUp, RefreshGivenUp, ReleaseGivenUp, CountGiveUp
    <3> QED BY <1>1, <3>1
  <2>4. CASE Land(m)
    <3>1. CASE m.op = "admit"
      <4> DEFINE a == AdmitCarrying(store, m.key, m.change, m.held, m.entries, m.ror)
                 r == [m EXCEPT !.phase = "answered", !.outcome = a.outcome, !.states = a.held]
      <4>1. reqs' \subseteq reqs \cup {r}
        BY <2>4, <3>1 DEF Land, LandAdmit
      <4>2. r.op = m.op
        BY <2>1, <3>1, OpTellsKind DEF AdmitReqs
      <4> QED BY <1>2, <3>1, <4>1, <4>2, Zenon
    <3>2. CASE m.op = "refresh"
      <4> DEFINE K == DOMAIN m.carried
                 s == RefreshKeys(store, K, m.carried)
                 r == [m EXCEPT !.phase = "answered",
                                !.outcomes = [k \in K |-> RefreshOutcome(store, k, m.carried[k])],
                                !.states = [k \in K |-> HeldOf(s, k)]]
      <4>1. reqs' \subseteq reqs \cup {r}
        BY <2>4, <3>2, Zenon DEF Land, LandRefresh
      <4>2. PICK J \in SUBSET Keys : m \in RefreshReqs(J)
        BY <2>1, <3>2, OpTellsKind
      <4>3. r.op = m.op
        BY <4>2 DEF RefreshReqs
      <4> QED BY <1>2, <3>2, <4>1, <4>3, Zenon
    <3>3. CASE m.op = "release"
      <4> DEFINE r == [m EXCEPT !.phase = "answered"]
      <4>1. reqs' \subseteq reqs \cup {r}
        BY <2>4, <3>3 DEF Land, LandRelease
      <4>2. Names(r)
        BY <2>1, ReleaseEdits
      <4> QED BY <1>0, <4>1, <4>2, Zenon
    <3> QED BY <2>1, <3>1, <3>2, <3>3
  <2> QED BY <1>8, <2>2, <2>3, <2>4
<1>9. CASE Restart
  <2>1. \A m \in reqs : Names([m EXCEPT !.phase = "dead"])
    BY <1>0, ReleaseEdits
  <2> QED BY <1>0, <1>9, <2>1, Zenon DEF Restart
<1>10. CASE Crash
  <2>1. \A m \in reqs : Names([m EXCEPT !.waited = FALSE])
    BY <1>0, ReleaseEdits
  <2> QED BY <1>10, <2>1, Zenon DEF Crash
<1>11. CASE UNCHANGED vars
  BY <1>3, <1>11 DEF vars
<1> QED BY <1>4, <1>5, <1>6, <1>7, <1>8, <1>9, <1>10, <1>11, Zenon DEF FlowNext

\* What a refresh or an admit re-creates counts ids.
LEMMA RecreatedIds ==
    ASSUME NEW K, NEW f \in [K -> HeldSets] PROVE Recreated(K, f) \subseteq Ids
<1>1. ASSUME NEW l \in Lists PROVE \A i \in DOMAIN l : l[i].id \in Ids
  <2> DEFINE R == [id : Ids, limit : Nat]
  <2>1. l \in Seq(R)
    BY StoreAssumption, Zenon DEF StoreAssumption
  <2>2. \A r \in R : r.id \in Ids
    OBVIOUS
  <2> HIDE DEF R
  <2>3. \A i \in DOMAIN l : l[i] \in R
    BY <2>1
  <2> QED BY <2>2, <2>3
<1>2. \A k \in K : f[k].entries \in Lists
  BY DEF HeldSets
<1> QED BY <1>1, <1>2 DEF Recreated

\* Every step keeps the rest of its kind.
LEMMA RestKept ==
    ASSUME ReqsTyped, QueueOK(queue), RestOK, [FlowNext]_vars
    PROVE  RestOK'
<1>1. \A m \in reqs' : m.op = "release" => m.keys \subseteq Keys
  BY ReleasesNameKeys
<1>2. open' \in BOOLEAN /\ budget' \in AllBudgets /\ recreated' \subseteq Ids
  <2>0. open \in BOOLEAN /\ budget \in AllBudgets /\ recreated \subseteq Ids
    BY DEF RestOK
  <2>1. CASE UNCHANGED <<open, budget, recreated>>
    BY <2>0, <2>1
  <2>2. ASSUME UNCHANGED <<open, recreated>>,
               NEW step \in {"replace", "consult", "giveup", "trip", "restart", "crash"}, Spend(step)
        PROVE  open' \in BOOLEAN /\ budget' \in AllBudgets /\ recreated' \subseteq Ids
    BY <2>0, <2>2, SpendOK
  <2>3. ASSUME NEW k \in Keys, NEW entries \in Lists,
               Initial(k, entries) \/ Replace(k, entries) \/ Route(k, entries)
        PROVE  open' \in BOOLEAN /\ budget' \in AllBudgets /\ recreated' \subseteq Ids
    BY <2>1, <2>2, <2>3, Zenon DEF Initial, Replace, Route
  <2>4. ASSUME NEW k \in Keys, DispatchConsult(k) \/ Resolve(k) \/ End(k)
        PROVE  open' \in BOOLEAN /\ budget' \in AllBudgets /\ recreated' \subseteq Ids
    BY <2>1, <2>2, <2>4, Zenon DEF DispatchConsult, Resolve, End
  <2>5. ASSUME NEW k \in Keys, Mark(k) \/ Replicate(k) \/ Materialise(k)
        PROVE  open' \in BOOLEAN /\ budget' \in AllBudgets /\ recreated' \subseteq Ids
    BY <2>1, <2>5 DEF Mark, Replicate, Materialise
  <2>6. CASE TakeRefreshes \/ SendReleases \/ GiveUpExpired \/ Janitor \/ Tick
    BY <2>1, <2>6 DEF TakeRefreshes, SendReleases, GiveUpExpired, Janitor, Tick, workerVars
  <2>7. CASE Restart \/ Crash
    BY <2>2, <2>7 DEF Restart, Crash, workerVars
  <2>8. CASE Breaker
    <3>1. open' \in BOOLEAN /\ recreated' \subseteq Ids
      BY <2>0, <2>8 DEF Breaker
    <3>2. budget' = budget \/ Spend("trip")
      BY <2>8 DEF Breaker
    <3> QED BY <2>0, <3>1, <3>2, SpendOK
  <2>9. ASSUME NEW m \in reqs, Answered(m) \/ GivenUp(m) \/ Land(m) \/ Vanish(m)
        PROVE  open' \in BOOLEAN /\ budget' \in AllBudgets /\ recreated' \subseteq Ids
    <3>1. ReqTyped(m) /\ m.op \in {"admit", "refresh", "release"}
      BY OpTellsKind DEF ReqsTyped
    <3>2. CASE Answered(m) \/ Vanish(m)
      <4>1. UNCHANGED <<open, budget, recreated>>
        BY <3>1, <3>2, Zenon DEF Vanish, workerVars, Answered, AdmitAnswered, FollowRefusal, RefreshAnswered,
                          ReleaseAnswered
      <4> QED BY <2>1, <4>1
    <3>3. CASE GivenUp(m)
      <4>1. UNCHANGED <<open, recreated>> /\ (UNCHANGED budget \/ Spend("giveup"))
        BY <3>1, <3>3, Zenon DEF GivenUp, AdmitGivenUp, RefreshGivenUp, ReleaseGivenUp, CountGiveUp
      <4> QED BY <2>1, <2>2, <4>1
    <3>4. CASE Land(m)
      <4>1. UNCHANGED <<open, budget>>
        BY <3>4 DEF Land, workerVars
      <4>2. CASE m.op = "admit"
        <5> DEFINE f == [k \in {m.key} |-> m.held]
        <5>1. m.held \in HeldSets
          BY <3>1, <4>2, OpTellsKind DEF AdmitReqs
        <5>2. Recreated({m.key}, f) \subseteq Ids
          BY <5>1, RecreatedIds
        <5>3. recreated' \subseteq recreated \cup Recreated({m.key}, f)
          BY <3>4, <4>2 DEF Land, LandAdmit
        <5> QED BY <2>0, <4>1, <5>2, <5>3
      <4>3. CASE m.op = "refresh"
        <5>1. PICK K \in SUBSET Keys : m \in RefreshReqs(K)
          BY <3>1, <4>3, OpTellsKind
        <5>2. m.carried \in [K -> HeldSets] /\ DOMAIN m.carried = K
          BY <5>1 DEF RefreshReqs
        <5>3. recreated' = recreated \cup Recreated(K, m.carried)
          BY <3>4, <4>3, <5>2, Zenon DEF Land, LandRefresh
        <5> QED BY <2>0, <4>1, <5>2, <5>3, RecreatedIds
      <4>4. CASE m.op = "release"
        BY <2>0, <3>4, <4>1, <4>4 DEF Land, LandRelease
      <4> QED BY <3>1, <4>2, <4>3, <4>4
    <3> QED BY <2>9, <3>2, <3>3, <3>4
  <2>10. CASE UNCHANGED vars
    BY <2>1, <2>10 DEF vars
  <2> QED BY <2>3, <2>4, <2>5, <2>6, <2>7, <2>8, <2>9, <2>10 DEF FlowNext
<1> QED BY <1>1, <1>2 DEF RestOK

\* The calls, the consults, the requests, the refresh batch and the release
\* queue stay well formed, and the release queue never holds more than its
\* bound, whatever ends, lapses, is answered or given up.
THEOREM FlowTyped == FlowSpec => []FlowTypeOK
<1>1. FlowInit => QueueOK(queue) /\ RestOK
  <2> SUFFICES ASSUME FlowInit PROVE QueueOK(queue) /\ RestOK
    OBVIOUS
  <2>1. /\ queue = <<>> /\ open = FALSE /\ budget \in Budgets /\ reqs = {} /\ recreated = {}
        /\ Budgets \subseteq AllBudgets /\ Cap \in Nat
    BY FlowAssumption DEF FlowInit, FlowAssumption
  <2>2. <<>> \in Seq(QueueEntries) /\ Len(<<>>) = 0
    OBVIOUS
  <2>3. QueueOK(queue)
    BY <2>1, <2>2 DEF QueueOK
  <2> QED BY <2>1, <2>3, Zenon DEF RestOK
<1>2. FlowInv /\ QueueOK(queue) /\ RestOK /\ [FlowNext]_vars => QueueOK(queue)' /\ RestOK'
  BY QueueKept, RestKept DEF FlowInv
<1>3. FlowInv /\ QueueOK(queue) /\ RestOK => FlowTypeOK
  <2> SUFFICES ASSUME FlowInv, QueueOK(queue), RestOK PROVE FlowTypeOK
    OBVIOUS
  <2>1. StoreTypeOK
    BY DEF FlowInv, StoreOK, StoreTypeOK
  <2>2. ASSUME NEW m \in reqs
        PROVE  m \in AdmitReqs \cup ReleaseReqs \/ \E K \in SUBSET Keys : m \in RefreshReqs(K)
    <3>1. ReqTyped(m) /\ (m.op = "release" => m.keys \subseteq Keys)
      BY DEF FlowInv, ReqsTyped, RestOK
    <3>2. ASSUME NEW K, m \in ReleaseOf(K) PROVE m \in ReleaseReqs
      <4>1. m.op = "release" /\ m.keys = K /\ m.keys \subseteq Keys
        BY <3>1, <3>2 DEF ReleaseOf
      <4> QED BY <3>2, <4>1 DEF ReleaseOf, ReleaseReqs
    <3> QED BY <3>1, <3>2 DEF ReqTyped
  <2> QED BY <2>1, <2>2, Zenon DEF FlowTypeOK, FlowInv, CallsTyped, ConsultsTyped, BatchTyped, QueueOK,
                            QueueEntries, RestOK
<1> QED BY <1>1, <1>2, <1>3, FlowInvKept, PTL DEF FlowSpec
=============================================================================
