------------------------- MODULE LimiterFlow_proofs -------------------------
(* The limiter's store and the flow of requests to it, for any keys, lists,  *)
(* lease, chain and queue bound.                                             *)
(*                                                                           *)
(* The store's counts are exact and every set it holds lapses, whatever      *)
(* requests it is sent, in whatever order. The argument follows the code:    *)
(* drop_set and insert_set keep the counts equal to the slots held, and      *)
(* everything else is built from the two. The slots of disjoint sets of keys *)
(* add up, which is where counting comes in.                                 *)
(*                                                                           *)
(* The flow of requests implements the store as a component: whatever the    *)
(* calls, the queues, the breaker and the faults do, each step of the whole  *)
(* is a step of LimiterStore's specification or leaves the store alone, so   *)
(* what is proved of the store holds in the whole system. A request lands as *)
(* it was sent, so the argument is one of types: every request in flight     *)
(* carries a key, a number and sets of the right kind, because the calls,    *)
(* the consults and the refresh batch do.                                    *)
EXTENDS LimiterFlow, FiniteSetTheorems, TLAPS

-----------------------------------------------------------------------------
(* Slots. *)

\* A list has finitely many places for an id.
LEMMA PlacesFinite ==
    ASSUME NEW entries \in Lists, NEW id
    PROVE  IsFiniteSet(Places(entries, id))
<1>1. PICK S : entries \in Seq(S)
  BY StoreAssumption DEF StoreAssumption
<1>2. Len(entries) \in Nat /\ DOMAIN entries = 1..Len(entries)
  BY <1>1
<1>3. IsFiniteSet(1..Len(entries))
  BY <1>2, FS_Interval
<1>4. Places(entries, id) \in SUBSET (1..Len(entries))
  BY <1>2 DEF Places
<1> QED
  BY <1>3, <1>4, FS_Subset

\* The slots held by the sets of the store's keys are finitely many.
LEMMA SlotsFinite ==
    ASSUME NEW calls \in [Keys -> CallSets], NEW K \in SUBSET Keys, NEW id
    PROVE  IsFiniteSet(Slots(calls, K, id)) /\ Holds(calls, K, id) \in Nat
<1> DEFINE f == [k \in K |-> {k} \X Places(calls[k].entries, id)]
           T == {{k} \X Places(calls[k].entries, id) : k \in K}
<1>1. IsFiniteSet(K)
  BY StoreAssumption, FS_Subset DEF StoreAssumption
<1>2. f \in Surjection(K, T)
  BY Zenon DEF Surjection
<1>3. IsFiniteSet(T)
  <2> HIDE DEF f, T
  <2> QED BY <1>1, <1>2, FS_Surjection
<1>4. \A k \in K : IsFiniteSet({k} \X Places(calls[k].entries, id))
  <2> TAKE k \in K
  <2>1. IsFiniteSet({k})
    BY FS_Singleton, Zenon
  <2>2. calls[k].entries \in Lists
    BY DEF CallSets
  <2>3. IsFiniteSet(Places(calls[k].entries, id))
    BY <2>2, PlacesFinite
  <2> QED BY <2>1, <2>3, FS_Product
<1>5. \A t \in T : IsFiniteSet(t)
  BY <1>4
<1>6. IsFiniteSet(UNION T)
  <2> HIDE DEF T
  <2> QED BY <1>3, <1>5, FS_UNION
<1>7. IsFiniteSet(Slots(calls, K, id))
  BY <1>6 DEF Slots
<1> QED
  BY <1>7, FS_CardinalityType DEF Holds

\* The holds of a set of keys and of the other keys add up.
LEMMA HoldsSplit ==
    ASSUME NEW calls \in [Keys -> CallSets], NEW K \in SUBSET Keys, NEW id
    PROVE  Holds(calls, Keys, id) = Holds(calls, Keys \ K, id) + Holds(calls, K, id)
<1> DEFINE A == Slots(calls, Keys \ K, id)
           B == Slots(calls, K, id)
<1>1. IsFiniteSet(A) /\ IsFiniteSet(B) /\ Cardinality(A) \in Nat /\ Cardinality(B) \in Nat
  BY SlotsFinite DEF Holds
<1>2. Slots(calls, Keys, id) = A \cup B
  BY DEF Slots
<1>3. A \cap B = {}
  BY DEF Slots
<1>4. Cardinality(A \cup B) = Cardinality(A) + Cardinality(B) - Cardinality(A \cap B)
  <2> HIDE DEF A, B
  <2> QED BY <1>1, FS_Union
<1>5. Cardinality(A \cap B) = 0
  BY <1>3, FS_EmptySet
<1> HIDE DEF A, B
<1>6. Cardinality(A \cup B) = Cardinality(A) + Cardinality(B)
  BY <1>1, <1>4, <1>5
<1> QED
  BY <1>2, <1>6 DEF Holds, A, B

\* What a set of keys holds depends on their entries alone.
LEMMA HoldsSame ==
    ASSUME NEW calls, NEW other, NEW K, NEW id,
           \A k \in K : calls[k].entries = other[k].entries
    PROVE  Holds(calls, K, id) = Holds(other, K, id)
BY DEF Holds, Slots

\* Keys without a set hold nothing.
LEMMA HoldsNone ==
    ASSUME NEW calls, NEW K, NEW id, \A k \in K : calls[k].entries = <<>>
    PROVE  Holds(calls, K, id) = 0
<1>1. \A k \in K : Places(calls[k].entries, id) = {}
  BY DEF Places
<1>2. Slots(calls, K, id) = {}
  BY <1>1 DEF Slots
<1> QED
  BY <1>2, FS_EmptySet DEF Holds

-----------------------------------------------------------------------------
(* The two operations that move the counts. *)

\* drop_set keeps the store well formed, its counts exact and its sets lapsing.
LEMMA DropSetsOK ==
    ASSUME NEW st \in Stores, NEW K \in SUBSET Keys, Exact(st), Lapsing(st)
    PROVE  LET d == DropSets(st, K)
           IN  /\ d \in Stores /\ Exact(d) /\ Lapsing(d)
               /\ \A k \in K : ~HasSet(d, k)
               /\ \A k \in Keys \ K : d.calls[k] = st.calls[k]
               /\ d.fences = st.fences /\ d.markers = st.markers
               /\ d.setDeadlines = st.setDeadlines
<1> DEFINE d == DropSets(st, K)
           left(id) == Larger(st.counts[id] - Holds(st.calls, K, id), 0)
<1>1. st.calls \in [Keys -> CallSets] /\ st.counts \in [Ids -> Nat]
  BY DEF Stores
<1>2. NoSet \in CallSets
  BY StoreAssumption DEF NoSet, CallSets, StoreAssumption
<1>3. \A id \in Ids : left(id) = Holds(st.calls, Keys \ K, id) /\ left(id) \in Nat
  <2> TAKE id \in Ids
  <2>1. /\ Holds(st.calls, K, id) \in Nat
        /\ Holds(st.calls, Keys \ K, id) \in Nat
    BY <1>1, SlotsFinite
  <2>2. st.counts[id] = Holds(st.calls, Keys \ K, id) + Holds(st.calls, K, id)
    BY <1>1, HoldsSplit DEF Exact
  <2> QED BY <2>1, <2>2 DEF Larger
<1>4. /\ d.calls = [k \in Keys |-> IF k \in K THEN NoSet ELSE st.calls[k]]
      /\ d.counts = [id \in Ids |-> left(id)]
      /\ d.fences = st.fences /\ d.markers = st.markers
      /\ d.setDeadlines = st.setDeadlines
      /\ d = [calls |-> d.calls, counts |-> d.counts, fences |-> d.fences,
               markers |-> d.markers, setDeadlines |-> d.setDeadlines]
  <2> DEFINE calls  == [k \in Keys |-> IF k \in K THEN NoSet ELSE st.calls[k]]
             counts == [id \in Ids |-> left(id)]
  <2>1. d = [st EXCEPT !.calls = calls, !.counts = counts]
    BY DEF DropSets
  <2> HIDE DEF calls, counts, d
  <2>2. /\ d.calls = calls /\ d.counts = counts
        /\ d.fences = st.fences /\ d.markers = st.markers
        /\ d.setDeadlines = st.setDeadlines
        /\ d = [calls |-> d.calls, counts |-> d.counts, fences |-> d.fences,
                 markers |-> d.markers, setDeadlines |-> d.setDeadlines]
    BY <2>1, Zenon DEF Stores
  <2> QED BY <2>2 DEF calls, counts
<1> HIDE DEF d, left
<1>5. d.calls \in [Keys -> CallSets]
  BY <1>1, <1>2, <1>4
<1>6. d \in Stores
  BY <1>3, <1>4, <1>5 DEF Stores
<1>7. Exact(d)
  <2> SUFFICES ASSUME NEW id \in Ids
               PROVE  d.counts[id] = Holds(d.calls, Keys, id)
    BY DEF Exact
  <2>1. Holds(d.calls, Keys, id) = Holds(d.calls, Keys \ K, id) + Holds(d.calls, K, id)
    BY <1>5, HoldsSplit
  <2>2. \A k \in K : d.calls[k].entries = <<>>
    BY <1>4 DEF NoSet
  <2>3. Holds(d.calls, K, id) = 0
    BY <2>2, HoldsNone
  <2>4. \A k \in Keys \ K : d.calls[k].entries = st.calls[k].entries
    BY <1>4
  <2>5. Holds(d.calls, Keys \ K, id) = Holds(st.calls, Keys \ K, id)
    BY <2>4, HoldsSame
  <2> QED BY <1>3, <1>4, <2>1, <2>3, <2>5
<1>8. \A k \in K : ~HasSet(d, k)
  BY <1>4 DEF HasSet, NoSet
<1>9. Lapsing(d)
  BY <1>4, <1>8 DEF Lapsing, HasSet
<1> QED
  BY <1>4, <1>6, <1>7, <1>8, <1>9 DEF d

\* insert_set, of keys without a set, does too.
LEMMA InsertSetsOK ==
    ASSUME NEW st \in Stores, NEW K \in SUBSET Keys, NEW new \in [K -> HeldSets],
           Exact(st), Lapsing(st), \A k \in K : ~HasSet(st, k)
    PROVE  LET i == InsertSets(st, K, new)
           IN  i \in Stores /\ Exact(i) /\ Lapsing(i)
<1> DEFINE i == InsertSets(st, K, new)
           set(k) == [entries |-> new[k].entries, change |-> new[k].change,
                      lease |-> Lease, pending |-> Lease]
           calls == [k \in Keys |-> IF k \in K THEN set(k) ELSE st.calls[k]]
<1>1. /\ st.calls \in [Keys -> CallSets] /\ st.counts \in [Ids -> Nat]
      /\ st.setDeadlines \in SUBSET (Nat \X Keys)
  BY DEF Stores
<1>2. \A k \in K : set(k) \in CallSets
  BY StoreAssumption DEF HeldSets, CallSets, StoreAssumption
<1>3. calls \in [Keys -> CallSets]
  <2> HIDE DEF set
  <2> QED BY <1>1, <1>2
<1>4. /\ i.calls = calls
      /\ i.counts = [id \in Ids |-> st.counts[id] + Holds(calls, K, id)]
      /\ i.setDeadlines = st.setDeadlines \cup ({Lease} \X K)
      /\ i.fences = st.fences /\ i.markers = st.markers
      /\ i = [calls |-> i.calls, counts |-> i.counts, fences |-> i.fences,
               markers |-> i.markers, setDeadlines |-> i.setDeadlines]
  <2> DEFINE counts == [id \in Ids |-> st.counts[id] + Holds(calls, K, id)]
             deadlines == st.setDeadlines \cup ({Lease} \X K)
  <2>1. i = [st EXCEPT !.calls = calls, !.counts = counts, !.setDeadlines = deadlines]
    BY DEF InsertSets
  <2> HIDE DEF calls, counts, deadlines, i
  <2>2. /\ i.calls = calls /\ i.counts = counts /\ i.setDeadlines = deadlines
        /\ i.fences = st.fences /\ i.markers = st.markers
        /\ i = [calls |-> i.calls, counts |-> i.counts, fences |-> i.fences,
                 markers |-> i.markers, setDeadlines |-> i.setDeadlines]
    BY <2>1, Zenon DEF Stores
  <2> QED BY <2>2 DEF counts, deadlines
<1> HIDE DEF i
<1>5. /\ \A k \in Keys \ K : calls[k] = st.calls[k]
      /\ \A k \in K : calls[k] = set(k)
  OBVIOUS
<1>6. \A id \in Ids : /\ Holds(calls, K, id) \in Nat
                      /\ st.counts[id] + Holds(calls, K, id) = Holds(calls, Keys, id)
  <2> HIDE DEF calls, set
  <2> TAKE id \in Ids
  <2>1. Holds(calls, Keys, id) = Holds(calls, Keys \ K, id) + Holds(calls, K, id)
    BY <1>3, HoldsSplit
  <2>2. Holds(st.calls, Keys, id) = Holds(st.calls, Keys \ K, id) + Holds(st.calls, K, id)
    BY <1>1, HoldsSplit
  <2>3. Holds(st.calls, K, id) = 0
    BY HoldsNone DEF HasSet
  <2>4. Holds(calls, Keys \ K, id) = Holds(st.calls, Keys \ K, id)
    BY <1>5, HoldsSame
  <2>5. st.counts[id] = Holds(st.calls, Keys, id)
    BY DEF Exact
  <2>6. Holds(calls, K, id) \in Nat /\ Holds(st.calls, Keys \ K, id) \in Nat
    BY <1>1, <1>3, SlotsFinite
  <2> QED BY <2>1, <2>2, <2>3, <2>4, <2>5, <2>6
<1>7. i \in Stores
  <2> HIDE DEF calls
  <2>1. i.counts \in [Ids -> Nat]
    BY <1>1, <1>4, <1>6
  <2>2. i.setDeadlines \in SUBSET (Nat \X Keys)
    BY <1>1, <1>4, StoreAssumption DEF StoreAssumption
  <2> QED BY <1>3, <1>4, <2>1, <2>2 DEF Stores
<1>8. Exact(i)
  <2> HIDE DEF calls
  <2> QED BY <1>4, <1>6 DEF Exact
<1>9. Lapsing(i)
  <2> SUFFICES ASSUME NEW k \in Keys, HasSet(i, k)
               PROVE  /\ <<i.calls[k].pending, k>> \in i.setDeadlines
                      /\ i.calls[k].pending <= i.calls[k].lease
    BY DEF Lapsing
  <2>1. CASE k \in K
    <3>1. i.calls[k].pending = Lease /\ i.calls[k].lease = Lease
      BY <1>4, <1>5, <2>1
    <3> QED BY <1>4, <2>1, <3>1, StoreAssumption DEF StoreAssumption
  <2>2. CASE k \notin K
    <3>1. i.calls[k] = st.calls[k]
      BY <1>4, <1>5, <2>2
    <3> QED BY <1>4, <3>1 DEF Lapsing, HasSet
  <2> QED BY <2>1, <2>2
<1> QED
  BY <1>7, <1>8, <1>9 DEF i

-----------------------------------------------------------------------------
(* The store is in order: the inductive invariant. *)

StoreOK(st) == st \in Stores /\ Exact(st) /\ Lapsing(st)

\* Fences, markers, numbers and leases move no count: a store that differs in
\* them alone, with its deadlines kept at or before its leases, is in order.
LEMMA SameSetsOK ==
    ASSUME NEW st, StoreOK(st), NEW t \in Stores, t.counts = st.counts,
           \A k \in Keys : t.calls[k].entries = st.calls[k].entries,
           Lapsing(t)
    PROVE  StoreOK(t)
<1>1. \A id \in Ids : Holds(t.calls, Keys, id) = Holds(st.calls, Keys, id)
  BY HoldsSame
<1> QED
  BY <1>1 DEF StoreOK, Exact

\* fence moves no set.
LEMMA FenceKeysOK ==
    ASSUME NEW st, StoreOK(st), NEW K \in SUBSET Keys,
           NEW why \in {"released", "dropped"}, NEW change \in Nat
    PROVE  LET f == FenceKeys(st, K, why, change)
           IN  StoreOK(f) /\ f.calls = st.calls
<1> DEFINE f == FenceKeys(st, K, why, change)
           fence == [why |-> why, change |-> change, lapses |-> Lease]
           fences == [k \in Keys |-> IF k \in K THEN fence ELSE st.fences[k]]
<1>1. st \in Stores
  BY DEF StoreOK
<1>2. fence \in Fences
  BY StoreAssumption DEF Fences, StoreAssumption
<1>3. fences \in [Keys -> Fences]
  <2> HIDE DEF fence
  <2> QED BY <1>1, <1>2 DEF Stores
<1>4. f = [st EXCEPT !.fences = fences]
  BY DEF FenceKeys
<1> HIDE DEF f, fences
<1>5. f \in Stores /\ f.calls = st.calls /\ f.counts = st.counts
      /\ f.setDeadlines = st.setDeadlines
  BY <1>1, <1>3, <1>4 DEF Stores
<1>6. Lapsing(f)
  BY <1>5 DEF StoreOK, Lapsing, HasSet
<1>7. StoreOK(f)
  BY <1>5, <1>6, SameSetsOK
<1> QED
  BY <1>5, <1>7 DEF f

\* Dropping markers moves no set.
LEMMA DropMarkersOK ==
    ASSUME NEW st, StoreOK(st), NEW K \in SUBSET Keys
    PROVE  LET m == DropMarkers(st, K)
           IN  StoreOK(m) /\ m.calls = st.calls /\ m.fences = st.fences
<1> DEFINE m == DropMarkers(st, K)
           markers == [k \in Keys |-> IF k \in K THEN NoMarker ELSE st.markers[k]]
<1>1. st \in Stores
  BY DEF StoreOK
<1>2. NoMarker \in Markers
  BY StoreAssumption DEF Markers, NoMarker, StoreAssumption
<1>3. markers \in [Keys -> Markers]
  BY <1>1, <1>2 DEF Stores
<1>4. m = [st EXCEPT !.markers = markers]
  BY DEF DropMarkers
<1> HIDE DEF m, markers
<1>5. m \in Stores /\ m.calls = st.calls /\ m.counts = st.counts
      /\ m.setDeadlines = st.setDeadlines /\ m.fences = st.fences
  BY <1>1, <1>3, <1>4 DEF Stores
<1>6. Lapsing(m)
  BY <1>5 DEF StoreOK, Lapsing, HasSet
<1>7. StoreOK(m)
  BY <1>5, <1>6, SameSetsOK
<1> QED
  BY <1>5, <1>7 DEF m

\* An admitted change lifts the key's fence.
LEMMA UnfencedOK ==
    ASSUME NEW st, StoreOK(st), NEW k \in Keys
    PROVE  LET u == [st EXCEPT !.fences[k] = NoFence]
           IN  StoreOK(u) /\ u.calls = st.calls
<1> DEFINE u == [st EXCEPT !.fences[k] = NoFence]
<1>1. st \in Stores
  BY DEF StoreOK
<1>2. NoFence \in Fences
  BY StoreAssumption DEF Fences, NoFence, StoreAssumption
<1>3. u \in Stores /\ u.calls = st.calls /\ u.counts = st.counts
      /\ u.setDeadlines = st.setDeadlines
  BY <1>1, <1>2 DEF Stores
<1> HIDE DEF u
<1>4. Lapsing(u)
  BY <1>3 DEF StoreOK, Lapsing, HasSet
<1>5. StoreOK(u)
  BY <1>3, <1>4, SameSetsOK
<1> QED
  BY <1>3, <1>5 DEF u

\* record_change moves a number and nothing else.
LEMMA RecordChangeOK ==
    ASSUME NEW st, StoreOK(st), NEW k \in Keys, NEW change \in Nat
    PROVE  StoreOK(RecordChange(st, k, change))
<1>1. st \in Stores
  BY DEF StoreOK
<1>2. CASE HasSet(st, k)
  <2> DEFINE r == [st EXCEPT !.calls[k].change = change]
             calls == [st.calls EXCEPT ![k].change = change]
  <2>1. RecordChange(st, k, change) = r
    BY <1>2 DEF RecordChange
  <2>2. r = [st EXCEPT !.calls = calls]
    BY <1>1 DEF Stores
  <2>3. st.calls \in [Keys -> CallSets]
    BY <1>1 DEF Stores
  <2>4. calls \in [Keys -> CallSets]
    BY <2>3 DEF CallSets
  <2>5. \A q \in Keys : /\ calls[q].entries = st.calls[q].entries
                        /\ calls[q].pending = st.calls[q].pending
                        /\ calls[q].lease = st.calls[q].lease
    BY <2>3 DEF CallSets
  <2> HIDE DEF r, calls
  <2>6. r \in Stores /\ r.calls = calls /\ r.counts = st.counts
        /\ r.setDeadlines = st.setDeadlines
    BY <1>1, <2>2, <2>4 DEF Stores
  <2>7. Lapsing(r)
    BY <2>5, <2>6 DEF StoreOK, Lapsing, HasSet
  <2> QED BY <2>1, <2>5, <2>6, <2>7, SameSetsOK
<1>3. CASE ~HasSet(st, k) /\ st.fences[k].why = "dropped"
  <2> DEFINE r == [st EXCEPT !.fences[k].change = change]
             fences == [st.fences EXCEPT ![k].change = change]
  <2>1. RecordChange(st, k, change) = r
    BY <1>3 DEF RecordChange
  <2>2. r = [st EXCEPT !.fences = fences]
    BY <1>1 DEF Stores
  <2>3. st.fences \in [Keys -> Fences]
    BY <1>1 DEF Stores
  <2>4. fences \in [Keys -> Fences]
    BY <2>3 DEF Fences
  <2> HIDE DEF r, fences
  <2>5. r \in Stores /\ r.calls = st.calls /\ r.counts = st.counts
        /\ r.setDeadlines = st.setDeadlines
    BY <1>1, <2>2, <2>4 DEF Stores
  <2>6. Lapsing(r)
    BY <2>5 DEF StoreOK, Lapsing, HasSet
  <2> QED BY <2>1, <2>5, <2>6, SameSetsOK
<1>4. CASE ~HasSet(st, k) /\ st.fences[k].why # "dropped"
  <2> DEFINE marker == [change |-> change, lapses |-> Lease]
             r == [st EXCEPT !.markers[k] = marker]
  <2>1. RecordChange(st, k, change) = r
    BY <1>4 DEF RecordChange
  <2>2. marker \in Markers
    BY StoreAssumption DEF Markers, StoreAssumption
  <2> HIDE DEF marker
  <2>3. r \in Stores /\ r.calls = st.calls /\ r.counts = st.counts
        /\ r.setDeadlines = st.setDeadlines
    BY <1>1, <2>2 DEF Stores
  <2> HIDE DEF r
  <2>4. Lapsing(r)
    BY <2>3 DEF StoreOK, Lapsing, HasSet
  <2> QED BY <2>1, <2>3, <2>4, SameSetsOK
<1> QED
  BY <1>2, <1>3, <1>4

-----------------------------------------------------------------------------
(* Time. *)

\* sweep drops exactly the sets past their lease, and gives each one it keeps
\* its next deadline.
LEMMA SweepOK ==
    ASSUME NEW st, StoreOK(st)
    PROVE  StoreOK(Sweep(st))
<1> DEFINE over == DueSets(st)
           kept == {k \in over : st.calls[k].lease > 0}
           s    == DropSets(st, over \ kept)
           calls == [k \in Keys |-> IF k \in kept
                                   THEN [s.calls[k] EXCEPT !.pending = s.calls[k].lease]
                                   ELSE s.calls[k]]
           deadlines == {d \in st.setDeadlines : d[1] > 0}
                          \cup {<<st.calls[k].lease, k>> : k \in kept}
           fences == [k \in Keys |-> IF st.fences[k].lapses = 0 THEN NoFence ELSE st.fences[k]]
           markers == [k \in Keys |-> IF st.markers[k].lapses = 0 THEN NoMarker ELSE st.markers[k]]
           t == Sweep(st)
<1>1. st \in Stores /\ Exact(st) /\ Lapsing(st)
  BY DEF StoreOK
<1>2. over \in SUBSET Keys /\ kept \in SUBSET Keys /\ (over \ kept) \in SUBSET Keys
  BY DEF DueSets
<1>3. t = [s EXCEPT !.calls = calls, !.setDeadlines = deadlines,
                    !.fences = fences, !.markers = markers]
  BY DEF Sweep
<1>4. /\ s \in Stores /\ Exact(s) /\ Lapsing(s)
      /\ \A k \in over \ kept : ~HasSet(s, k)
      /\ \A k \in Keys \ (over \ kept) : s.calls[k] = st.calls[k]
  <2> HIDE DEF over, kept
  <2> QED BY <1>1, <1>2, DropSetsOK
<1>5. StoreOK(s)
  BY <1>4 DEF StoreOK
<1>6. /\ st.calls \in [Keys -> CallSets] /\ st.fences \in [Keys -> Fences]
      /\ st.markers \in [Keys -> Markers] /\ st.setDeadlines \in SUBSET (Nat \X Keys)
      /\ s.calls \in [Keys -> CallSets]
  BY <1>1, <1>4 DEF Stores
<1>7. calls \in [Keys -> CallSets] /\ \A k \in Keys : calls[k].entries = s.calls[k].entries
  <2> HIDE DEF kept, s
  <2> QED BY <1>6 DEF CallSets
<1>8. \A k \in kept : calls[k].pending = st.calls[k].lease /\ calls[k].lease = st.calls[k].lease
  <2> HIDE DEF s, over
  <2>1. \A k \in kept : k \in over /\ k \in Keys /\ s.calls[k] = st.calls[k]
    BY <1>2, <1>4
  <2> HIDE DEF kept
  <2> QED BY <1>2, <1>6, <2>1 DEF CallSets
<1>9. \A k \in Keys \ kept : calls[k] = s.calls[k]
  OBVIOUS
<1>10. fences \in [Keys -> Fences]
  <2>1. NoFence \in Fences
    BY StoreAssumption DEF Fences, NoFence, StoreAssumption
  <2> QED BY <1>6, <2>1
<1>11. markers \in [Keys -> Markers]
  <2>1. NoMarker \in Markers
    BY StoreAssumption DEF Markers, NoMarker, StoreAssumption
  <2> QED BY <1>6, <2>1
<1>12. deadlines \in SUBSET (Nat \X Keys)
  <2>1. \A k \in kept : k \in Keys /\ st.calls[k].lease \in Nat
    BY <1>2, <1>6, StoreAssumption DEF CallSets, StoreAssumption
  <2> HIDE DEF kept
  <2> QED BY <1>6, <2>1
<1>13. \A k \in Keys : HasSet(s, k) =>
          <<calls[k].pending, k>> \in deadlines /\ calls[k].pending <= calls[k].lease
  <2> SUFFICES ASSUME NEW k \in Keys, HasSet(s, k)
               PROVE  <<calls[k].pending, k>> \in deadlines /\ calls[k].pending <= calls[k].lease
    BY Zenon
  <2>1. CASE k \in kept
    <3>1. st.calls[k].lease \in Nat
      BY <1>6, StoreAssumption DEF CallSets, StoreAssumption
    <3> HIDE DEF kept, calls
    <3> QED BY <1>8, <2>1, <3>1
  <2>2. CASE k \notin kept
    <3>1. s.calls[k] = st.calls[k] /\ k \notin over
      BY <1>4, <2>2
    <3>2. HasSet(st, k)
      BY <3>1 DEF HasSet
    <3>3. <<st.calls[k].pending, k>> \in st.setDeadlines
          /\ st.calls[k].pending <= st.calls[k].lease
      BY <1>1, <3>2 DEF Lapsing
    <3>4. st.calls[k].pending # 0
      BY <3>1, <3>2, <3>3 DEF DueSets
    <3>5. st.calls[k].pending \in Nat
      BY <1>6, StoreAssumption DEF CallSets, StoreAssumption
    <3>6. <<st.calls[k].pending, k>> \in deadlines
      <4> HIDE DEF kept
      <4> QED BY <3>3, <3>4, <3>5
    <3>7. calls[k] = st.calls[k]
      BY <1>9, <2>2, <3>1
    <3> HIDE DEF deadlines, calls
    <3> QED BY <3>3, <3>6, <3>7
  <2> QED BY <2>1, <2>2, Zenon
<1> HIDE DEF over, kept, s, calls, deadlines, fences, markers, t
<1>14. t \in Stores /\ t.calls = calls /\ t.counts = s.counts /\ t.setDeadlines = deadlines
  BY <1>3, <1>4, <1>7, <1>10, <1>11, <1>12, Zenon DEF Stores
<1>15. Lapsing(t)
  BY <1>7, <1>13, <1>14 DEF Lapsing, HasSet
<1>16. StoreOK(t)
  BY <1>5, <1>7, <1>14, <1>15, SameSetsOK
<1> QED
  BY <1>16 DEF t

\* A tick brings a deadline and its lease nearer together.
LEMMA AgedOK ==
    ASSUME NEW st, StoreOK(st)
    PROVE  StoreOK(Aged(st))
<1> DEFINE older(c) == [c EXCEPT !.lease = Nearer(@), !.pending = Nearer(@)]
           calls == [k \in Keys |-> older(st.calls[k])]
           fences == [k \in Keys |-> [st.fences[k] EXCEPT !.lapses = Nearer(@)]]
           markers == [k \in Keys |-> [st.markers[k] EXCEPT !.lapses = Nearer(@)]]
           deadlines == {<<Nearer(d[1]), d[2]>> : d \in st.setDeadlines}
           t == Aged(st)
<1>1. st \in Stores /\ Lapsing(st)
  BY DEF StoreOK
<1>2. /\ st.calls \in [Keys -> CallSets] /\ st.fences \in [Keys -> Fences]
      /\ st.markers \in [Keys -> Markers] /\ st.setDeadlines \in SUBSET (Nat \X Keys)
  BY <1>1 DEF Stores
<1>3. \A n \in 0..Lease : Nearer(n) \in 0..Lease
  BY StoreAssumption DEF Nearer, StoreAssumption
<1>4. \A c \in CallSets :
          /\ older(c) \in CallSets /\ older(c).entries = c.entries
          /\ older(c).pending = Nearer(c.pending) /\ older(c).lease = Nearer(c.lease)
  BY <1>3, Zenon DEF CallSets
<1>5. calls \in [Keys -> CallSets] /\ \A k \in Keys : calls[k] = older(st.calls[k])
  <2> HIDE DEF older
  <2> QED BY <1>2, <1>4
<1>6. fences \in [Keys -> Fences]
  BY <1>2, <1>3 DEF Fences
<1>7. markers \in [Keys -> Markers]
  BY <1>2, <1>3 DEF Markers
<1>8. deadlines \in SUBSET (Nat \X Keys)
  BY <1>2 DEF Nearer
<1>9. t = [st EXCEPT !.calls = calls, !.fences = fences, !.markers = markers,
                     !.setDeadlines = deadlines]
  BY DEF Aged
<1>10. \A k \in Keys : HasSet(st, k) =>
          <<calls[k].pending, k>> \in deadlines /\ calls[k].pending <= calls[k].lease
  <2> SUFFICES ASSUME NEW k \in Keys, HasSet(st, k)
               PROVE  <<calls[k].pending, k>> \in deadlines /\ calls[k].pending <= calls[k].lease
    BY Zenon
  <2>1. <<st.calls[k].pending, k>> \in st.setDeadlines
        /\ st.calls[k].pending <= st.calls[k].lease
    BY <1>1 DEF Lapsing
  <2>2. calls[k].pending = Nearer(st.calls[k].pending) /\ calls[k].lease = Nearer(st.calls[k].lease)
    <3> HIDE DEF older, calls
    <3> QED BY <1>2, <1>4, <1>5
  <2>3. <<Nearer(st.calls[k].pending), k>> \in deadlines
    BY <2>1
  <2>4. st.calls[k].pending \in Nat /\ st.calls[k].lease \in Nat
    BY <1>2, StoreAssumption DEF CallSets, StoreAssumption
  <2>5. Nearer(st.calls[k].pending) <= Nearer(st.calls[k].lease)
    BY <2>1, <2>4 DEF Nearer
  <2> HIDE DEF calls, deadlines
  <2> QED BY <2>2, <2>3, <2>5
<1>11. \A k \in Keys : calls[k].entries = st.calls[k].entries
  <2> HIDE DEF older, calls
  <2> QED BY <1>2, <1>4, <1>5
<1> HIDE DEF older, calls, fences, markers, deadlines, t
<1>12. t \in Stores /\ t.calls = calls /\ t.counts = st.counts /\ t.setDeadlines = deadlines
  BY <1>1, <1>5, <1>6, <1>7, <1>8, <1>9, Zenon DEF Stores
<1>13. Lapsing(t)
  BY <1>10, <1>11, <1>12 DEF Lapsing, HasSet
<1>14. StoreOK(t)
  BY <1>11, <1>12, <1>13, SameSetsOK
<1> QED
  BY <1>14 DEF t

-----------------------------------------------------------------------------
(* The requests. *)

\* What the store knows of a key is a number.
LEMMA KnownChangeNat ==
    ASSUME NEW st \in Stores, NEW k \in Keys
    PROVE  KnownChange(st, k) \in Nat /\ HeldOf(st, k) \in HeldSets
<1>1. st.calls[k] \in CallSets /\ st.fences[k] \in Fences /\ st.markers[k] \in Markers
  BY DEF Stores
<1>2. KnownChange(st, k) \in Nat
  BY <1>1 DEF KnownChange, CallSets, Fences, Markers
<1> QED
  BY <1>1, <1>2 DEF HeldOf, HeldSets, CallSets

\* reregister inserts sets only where none is held.
LEMMA ReregisterOK ==
    ASSUME NEW st, StoreOK(st), NEW K \in SUBSET Keys, NEW carried \in [K -> HeldSets],
           \A k \in K : ~HasSet(st, k)
    PROVE  StoreOK(ReregisterKeys(st, K, carried))
<1> DEFINE m == DropMarkers(st, K)
           set(k) == [entries |-> carried[k].entries,
                      change |-> Larger(st.markers[k].change, carried[k].change)]
           new == [k \in K |-> set(k)]
<1>1. st \in Stores
  BY DEF StoreOK
<1>2. m \in Stores /\ Exact(m) /\ Lapsing(m) /\ m.calls = st.calls
  BY DropMarkersOK DEF StoreOK
<1>3. \A k \in K : ~HasSet(m, k)
  <2> HIDE DEF m
  <2> QED BY <1>2 DEF HasSet
<1>4. \A k \in K : set(k) \in HeldSets
  <2> TAKE k \in K
  <2>1. st.markers[k].change \in Nat
    BY <1>1 DEF Stores, Markers
  <2>2. carried[k].change \in Nat /\ carried[k].entries \in Lists
    BY DEF HeldSets
  <2> QED BY <2>1, <2>2 DEF Larger, HeldSets
<1>5. new \in [K -> HeldSets]
  <2> HIDE DEF set
  <2> QED BY <1>4
<1> HIDE DEF m, new
<1>6. StoreOK(InsertSets(m, K, new))
  BY <1>2, <1>3, <1>5, InsertSetsOK DEF StoreOK
<1> QED
  BY <1>6 DEF ReregisterKeys, m, new

\* An admit's carried set is re-created only where none is held.
LEMMA CarriedOK ==
    ASSUME NEW st, StoreOK(st), NEW k \in Keys, NEW held \in HeldSets
    PROVE  StoreOK(Carried(st, k, held))
<1> DEFINE carried == [q \in {k} |-> held]
<1>1. carried \in [{k} -> HeldSets] /\ {k} \in SUBSET Keys
  OBVIOUS
<1> HIDE DEF carried
<1>2. CASE Reregisters(st, k, held.entries)
  <2>1. \A q \in {k} : ~HasSet(st, q)
    BY <1>2 DEF Reregisters
  <2>2. StoreOK(ReregisterKeys(st, {k}, carried))
    BY <1>1, <2>1, ReregisterOK
  <2> QED BY <1>2, <2>2 DEF Carried, carried
<1>3. CASE ~Reregisters(st, k, held.entries)
  BY <1>3 DEF Carried
<1> QED
  BY <1>2, <1>3

\* drop_set, with the key's markers gone too.
LEMMA DroppedOK ==
    ASSUME NEW st, StoreOK(st), NEW K \in SUBSET Keys
    PROVE  LET d == DropMarkers(DropSets(st, K), K)
           IN  StoreOK(d) /\ \A k \in K : ~HasSet(d, k)
<1> DEFINE s == DropSets(st, K)
<1>1. StoreOK(s) /\ \A k \in K : ~HasSet(s, k)
  BY DropSetsOK DEF StoreOK
<1> HIDE DEF s
<1>2. StoreOK(DropMarkers(s, K)) /\ DropMarkers(s, K).calls = s.calls
  BY <1>1, DropMarkersOK
<1> QED
  BY <1>1, <1>2 DEF s, HasSet

\* A refused admit leaves the store in order, the set kept or dropped.
LEMMA RejectedOK ==
    ASSUME NEW st, StoreOK(st), NEW k \in Keys, NEW change \in Nat, NEW r \in BOOLEAN
    PROVE  StoreOK(Rejected(st, k, change, r).store)
<1> DEFINE d == DropMarkers(DropSets(st, {k}), {k})
<1>1. StoreOK(d)
  BY DroppedOK
<1> HIDE DEF d
<1>2. StoreOK(FenceKeys(d, {k}, "dropped", change))
  BY <1>1, FenceKeysOK
<1>3. StoreOK(RecordChange(st, k, change))
  BY RecordChangeOK
<1> QED
  BY <1>2, <1>3 DEF Rejected, Answer, d

\* An admitted change replaces the key's set.
LEMMA AdmittedOK ==
    ASSUME NEW st, StoreOK(st), NEW k \in Keys, NEW change \in Nat, NEW entries \in Lists
    PROVE  StoreOK(Admitted(st, k, change, entries).store)
<1> DEFINE d == DropMarkers(DropSets(st, {k}), {k})
           u == [d EXCEPT !.fences[k] = NoFence]
           new == [q \in {k} |-> [entries |-> entries, change |-> change]]
<1>1. StoreOK(d) /\ \A q \in {k} : ~HasSet(d, q)
  BY DroppedOK
<1>2. StoreOK(u) /\ u.calls = d.calls
  <2> HIDE DEF d
  <2> QED BY <1>1, UnfencedOK
<1>3. new \in [{k} -> HeldSets]
  BY DEF HeldSets
<1> HIDE DEF d, new
<1>4. \A q \in {k} : ~HasSet(u, q)
  BY <1>1, <1>2 DEF HasSet
<1>5. Admitted(st, k, change, entries).store =
        IF entries = <<>> THEN FenceKeys(u, {k}, "dropped", change)
        ELSE InsertSets(u, {k}, new)
  BY DEF Admitted, Answer, d, new
<1> HIDE DEF u
<1>6. StoreOK(FenceKeys(u, {k}, "dropped", change))
  BY <1>2, FenceKeysOK
<1>7. StoreOK(InsertSets(u, {k}, new))
  BY <1>2, <1>3, <1>4, InsertSetsOK DEF StoreOK
<1> QED
  BY <1>5, <1>6, <1>7

\* admit_carrying keeps the store in order, whatever it answers.
LEMMA AdmitOK ==
    ASSUME NEW st, StoreOK(st), NEW k \in Keys, NEW change \in Nat, NEW held \in HeldSets,
           NEW entries \in Lists, NEW r \in BOOLEAN
    PROVE  StoreOK(AdmitCarrying(st, k, change, held, entries, r).store)
<1> DEFINE s == Sweep(st)
           c == Carried(s, k, held)
<1>1. StoreOK(s)
  BY SweepOK
<1>2. StoreOK(c)
  <2> HIDE DEF s
  <2> QED BY <1>1, CarriedOK
<1> HIDE DEF s, c
<1>3. StoreOK(Rejected(c, k, change, r).store) /\ StoreOK(Admitted(c, k, change, entries).store)
  BY <1>2, RejectedOK, AdmittedOK
<1> QED
  BY <1>1, <1>3 DEF AdmitCarrying, Answer, s, c

\* release keeps the store in order.
LEMMA ReleaseOK ==
    ASSUME NEW st, StoreOK(st), NEW K
    PROVE  StoreOK(ReleaseKeys(st, K))
<1> DEFINE s   == Sweep(st)
           new == {k \in Keys : k \in K /\ s.fences[k].why # "released"}
           d   == DropMarkers(DropSets(s, new), new)
<1>1. StoreOK(s)
  BY SweepOK
<1>2. new \in SUBSET Keys
  OBVIOUS
<1> HIDE DEF s, new
<1>3. StoreOK(d)
  BY <1>1, <1>2, DroppedOK
<1> HIDE DEF d
<1>4. StoreOK(FenceKeys(d, new, "released", 0))
  BY <1>2, <1>3, FenceKeysOK
<1> QED
  BY <1>4 DEF ReleaseKeys, s, new, d

\* A refresh moves the lease of a held set further out, never its deadline.
LEMMA RefreshOK ==
    ASSUME NEW st, StoreOK(st), NEW K \in SUBSET Keys, NEW carried \in [K -> HeldSets]
    PROVE  StoreOK(RefreshKeys(st, K, carried))
<1> DEFINE s     == Sweep(st)
           lost  == {k \in K : Reregisters(s, k, carried[k].entries)}
           calls == [k \in Keys |-> IF k \in K /\ HasSet(s, k)
                                   THEN [s.calls[k] EXCEPT !.lease = Lease] ELSE s.calls[k]]
           x     == [s EXCEPT !.calls = calls]
<1>1. StoreOK(s)
  BY SweepOK
<1> HIDE DEF s
<1>2. s \in Stores /\ Lapsing(s) /\ s.calls \in [Keys -> CallSets]
  BY <1>1 DEF StoreOK, Stores
<1>3. /\ calls \in [Keys -> CallSets]
      /\ \A k \in Keys : /\ calls[k].entries = s.calls[k].entries
                          /\ calls[k].pending = s.calls[k].pending
                          /\ calls[k].lease \in {s.calls[k].lease, Lease}
  <2>1. \A c \in CallSets : LET e == [c EXCEPT !.lease = Lease]
                           IN  /\ e \in CallSets /\ e.entries = c.entries
                               /\ e.pending = c.pending /\ e.lease = Lease
    BY StoreAssumption DEF CallSets, StoreAssumption
  <2>2. \A k \in Keys : s.calls[k] \in CallSets
    BY <1>2
  <2> QED BY <2>1, <2>2
<1> HIDE DEF calls
<1>4. x \in Stores /\ x.calls = calls /\ x.counts = s.counts /\ x.setDeadlines = s.setDeadlines
  BY <1>2, <1>3 DEF Stores
<1> HIDE DEF x
<1>5. Lapsing(x)
  <2> SUFFICES ASSUME NEW k \in Keys, HasSet(x, k)
               PROVE  /\ <<x.calls[k].pending, k>> \in x.setDeadlines
                      /\ x.calls[k].pending <= x.calls[k].lease
    BY DEF Lapsing
  <2>1. HasSet(s, k)
    BY <1>3, <1>4 DEF HasSet
  <2>2. <<s.calls[k].pending, k>> \in s.setDeadlines /\ s.calls[k].pending <= s.calls[k].lease
    BY <1>2, <2>1 DEF Lapsing
  <2>3. s.calls[k].pending \in 0..Lease
    BY <1>2 DEF CallSets
  <2> QED BY <1>3, <1>4, <2>2, <2>3, StoreAssumption DEF StoreAssumption
<1>6. StoreOK(x)
  BY <1>1, <1>3, <1>4, <1>5, SameSetsOK
<1>7. lost \in SUBSET Keys /\ \A k \in lost : ~HasSet(s, k)
  BY DEF Reregisters
<1>8. \A k \in lost : ~HasSet(x, k)
  <2> HIDE DEF lost
  <2> QED BY <1>3, <1>4, <1>7 DEF HasSet
<1> DEFINE carriedLost == [k \in lost |-> carried[k]]
<1>9. carriedLost \in [lost -> HeldSets]
  OBVIOUS
<1>10. ReregisterKeys(x, lost, carried) = ReregisterKeys(x, lost, carriedLost)
  BY DEF ReregisterKeys
<1> HIDE DEF lost, carriedLost
<1>11. StoreOK(ReregisterKeys(x, lost, carriedLost))
  BY <1>6, <1>7, <1>8, <1>9, ReregisterOK
<1> QED
  BY <1>10, <1>11 DEF RefreshKeys, s, lost, calls, x

-----------------------------------------------------------------------------
(* The store, whatever it is asked. *)

\* A limiter that starts, or restarts, empty is in order.
LEMMA EmptyStoreOK == StoreOK(EmptyStore)
<1>1. NoSet \in CallSets /\ NoFence \in Fences /\ NoMarker \in Markers
  BY StoreAssumption
     DEF NoSet, NoFence, NoMarker, CallSets, Fences, Markers, StoreAssumption
<1>2. EmptyStore \in Stores
  BY <1>1 DEF EmptyStore, Stores
<1>3. \A k \in Keys : EmptyStore.calls[k].entries = <<>>
  BY DEF EmptyStore, NoSet
<1>4. \A id \in Ids : Holds(EmptyStore.calls, Keys, id) = 0
  BY <1>3, HoldsNone
<1>5. Exact(EmptyStore)
  BY <1>4 DEF Exact, EmptyStore
<1>6. Lapsing(EmptyStore)
  BY <1>3 DEF Lapsing, HasSet
<1> QED
  BY <1>2, <1>5, <1>6 DEF StoreOK

\* No step of the store takes it out of order.
LEMMA StoreNextOK ==
    ASSUME StoreOK(store), [StoreNext]_store
    PROVE  StoreOK(store')
<1>1. ASSUME NEW k \in Keys, StoreAdmit(k) PROVE StoreOK(store')
  BY <1>1, AdmitOK DEF StoreAdmit
<1>2. ASSUME StoreRelease PROVE StoreOK(store')
  BY <1>2, ReleaseOK DEF StoreRelease
<1>3. ASSUME StoreRefresh PROVE StoreOK(store')
  BY <1>3, RefreshOK DEF StoreRefresh
<1>4. ASSUME StoreSweep PROVE StoreOK(store')
  BY <1>4, SweepOK DEF StoreSweep
<1>5. ASSUME StoreTick PROVE StoreOK(store')
  BY <1>5, AgedOK DEF StoreTick
<1>6. ASSUME StoreRestart PROVE StoreOK(store')
  BY <1>6, EmptyStoreOK DEF StoreRestart
<1> QED
  BY <1>1, <1>2, <1>3, <1>4, <1>5, <1>6 DEF StoreNext

\* For any calls, lists and lease, and any order of admits, releases, refreshes,
\* lapses and restarts: the counts are the slots held (store.rs, drop_set and
\* insert_set), and every set lapses unless refreshed (sweep).
THEOREM StoreCorrect == StoreSpec => [](StoreTypeOK /\ CountsExact /\ EverySetLapses)
<1>1. StoreInit => StoreOK(store)
  BY EmptyStoreOK DEF StoreInit
<1>2. StoreOK(store) /\ [StoreNext]_store => StoreOK(store)'
  BY StoreNextOK DEF StoreOK, Exact, Lapsing, HasSet
<1>3. StoreOK(store) => StoreTypeOK /\ CountsExact /\ EverySetLapses
  BY DEF StoreOK, StoreTypeOK, CountsExact, EverySetLapses
<1> QED
  BY <1>1, <1>2, <1>3, PTL DEF StoreSpec

-----------------------------------------------------------------------------
(* One key of the store, operation by operation. *)

\* A store's fields.
Shaped(st) == DOMAIN st = {"calls", "counts", "fences", "markers", "setDeadlines"}

\* Every store has the fields of one.
LEMMA StoreShaped == \A st \in Stores : Shaped(st)
BY DEF Stores, Shaped

\* Dropping sets leaves fences and markers alone.
LEMMA DropFields ==
    ASSUME NEW st, Shaped(st), NEW K
    PROVE  LET d == DropSets(st, K)
           IN  /\ Shaped(d) /\ d.fences = st.fences /\ d.markers = st.markers
               /\ \A k \in Keys : d.calls[k] = IF k \in K THEN NoSet ELSE st.calls[k]
BY DEF DropSets, Shaped

\* So does inserting them.
LEMMA InsertFields ==
    ASSUME NEW st, Shaped(st), NEW K, NEW new
    PROVE  LET i == InsertSets(st, K, new)
           IN  /\ Shaped(i) /\ i.fences = st.fences /\ i.markers = st.markers
               /\ \A k \in Keys : i.calls[k] =
                     IF k \in K THEN [entries |-> new[k].entries, change |-> new[k].change,
                                      lease |-> Lease, pending |-> Lease]
                     ELSE st.calls[k]
BY DEF InsertSets, Shaped

\* A fence touches no set and no marker.
LEMMA FenceFields ==
    ASSUME NEW st, Shaped(st), NEW K, NEW why, NEW change
    PROVE  LET f == FenceKeys(st, K, why, change)
           IN  /\ Shaped(f) /\ f.calls = st.calls /\ f.markers = st.markers
               /\ \A k \in Keys : f.fences[k] =
                     IF k \in K THEN [why |-> why, change |-> change, lapses |-> Lease]
                     ELSE st.fences[k]
BY DEF FenceKeys, Shaped

\* Dropping markers touches no set and no fence.
LEMMA MarkerFields ==
    ASSUME NEW st, Shaped(st), NEW K
    PROVE  LET d == DropMarkers(st, K)
           IN  /\ Shaped(d) /\ d.calls = st.calls /\ d.fences = st.fences
               /\ \A k \in Keys : d.markers[k] = IF k \in K THEN NoMarker ELSE st.markers[k]
BY DEF DropMarkers, Shaped

\* A key's set, but for its lease.
SetOf(st, k) == [change |-> st.calls[k].change, entries |-> st.calls[k].entries]

\* What t knows of k is what st knew of it, or lapsed.
KeyKept(st, t, k) ==
    /\ SetOf(t, k) \in {SetOf(st, k), NoHeld}
    /\ t.fences[k] \in {st.fences[k], NoFence}
    /\ t.markers[k] \in {st.markers[k], NoMarker}

\* The sweep takes nothing but what lapsed.
LEMMA SweepKey ==
    ASSUME NEW st, StoreOK(st), NEW k \in Keys
    PROVE  KeyKept(st, Sweep(st), k) /\ Shaped(Sweep(st))
<1> DEFINE over == DueSets(st)
           kept == {j \in over : st.calls[j].lease > 0}
           s    == DropSets(st, over \ kept)
           calls == [j \in Keys |-> IF j \in kept
                                   THEN [s.calls[j] EXCEPT !.pending = s.calls[j].lease]
                                   ELSE s.calls[j]]
           deadlines == {d \in st.setDeadlines : d[1] > 0}
                          \cup {<<st.calls[j].lease, j>> : j \in kept}
           fences == [j \in Keys |-> IF st.fences[j].lapses = 0 THEN NoFence ELSE st.fences[j]]
           markers == [j \in Keys |-> IF st.markers[j].lapses = 0 THEN NoMarker ELSE st.markers[j]]
           t    == Sweep(st)
<1> SUFFICES KeyKept(st, t, k) /\ Shaped(t)
  OBVIOUS
<1>1. st \in Stores /\ st.calls[k] \in CallSets /\ Shaped(st)
  BY StoreShaped DEF StoreOK, Stores
<1>2. /\ s.calls[k] \in {NoSet, st.calls[k]} /\ Shaped(s)
  <2> HIDE DEF over, kept
  <2> QED BY <1>1, DropFields
<1>3. t = [s EXCEPT !.calls = calls, !.setDeadlines = deadlines,
                    !.fences = fences, !.markers = markers]
  BY DEF Sweep
<1>4. Shaped(t) /\ t.calls = calls /\ t.fences = fences /\ t.markers = markers
  <2> HIDE DEF s, t, calls, deadlines, fences, markers
  <2> QED BY <1>2, <1>3 DEF Shaped
<1> HIDE DEF s, t, kept
<1>5. t.calls[k].entries = s.calls[k].entries /\ t.calls[k].change = s.calls[k].change
  <2>1. t.calls[k] \in {s.calls[k], [s.calls[k] EXCEPT !.pending = s.calls[k].lease]}
    BY <1>4
  <2>2. s.calls[k] \in CallSets \cup {NoSet}
    BY <1>1, <1>2
  <2> QED BY <2>1, <2>2 DEF CallSets, NoSet
<1>6. SetOf(t, k) = SetOf(s, k)
  BY <1>5 DEF SetOf
<1>7. SetOf(s, k) \in {SetOf(st, k), NoHeld}
  BY <1>2 DEF SetOf, NoSet, NoHeld
<1> QED BY <1>4, <1>6, <1>7 DEF KeyKept

\* Time changes no number and no set.
LEMMA AgedKey ==
    ASSUME NEW st, StoreOK(st), NEW k \in Keys
    PROVE  /\ SetOf(Aged(st), k) = SetOf(st, k)
           /\ Aged(st).fences[k].change = st.fences[k].change
           /\ Aged(st).markers[k].change = st.markers[k].change
<1>1. st \in Stores /\ st.calls[k] \in CallSets /\ st.fences[k] \in Fences /\ st.markers[k] \in Markers
  BY DEF StoreOK, Stores
<1>2. /\ Aged(st).calls[k] = [st.calls[k] EXCEPT !.lease = Nearer(@), !.pending = Nearer(@)]
      /\ Aged(st).fences[k] = [st.fences[k] EXCEPT !.lapses = Nearer(@)]
      /\ Aged(st).markers[k] = [st.markers[k] EXCEPT !.lapses = Nearer(@)]
  BY <1>1 DEF Aged, Stores
<1> QED BY <1>1, <1>2 DEF CallSets, Fences, Markers, SetOf

\* A re-creation gives the keys of K, and no other, the sets carried, each under
\* the higher of its number and the marker's.
LEMMA ReregisterKey ==
    ASSUME NEW st, Shaped(st), NEW K, NEW carried, NEW k \in Keys
    PROVE  LET t == ReregisterKeys(st, K, carried)
           IN  /\ Shaped(t) /\ t.fences[k] = st.fences[k]
               /\ k \in K => /\ SetOf(t, k) = [change |-> Larger(st.markers[k].change, carried[k].change),
                                              entries |-> carried[k].entries]
                             /\ t.markers[k] = NoMarker
               /\ k \notin K => SetOf(t, k) = SetOf(st, k) /\ t.markers[k] = st.markers[k]
<1> DEFINE m == DropMarkers(st, K)
           set(q) == [entries |-> carried[q].entries,
                      change |-> Larger(st.markers[q].change, carried[q].change)]
           new == [q \in K |-> set(q)]
           t == ReregisterKeys(st, K, carried)
<1> SUFFICES /\ Shaped(t) /\ t.fences[k] = st.fences[k]
             /\ k \in K => /\ SetOf(t, k) = [change |-> Larger(st.markers[k].change, carried[k].change),
                                            entries |-> carried[k].entries]
                           /\ t.markers[k] = NoMarker
             /\ k \notin K => SetOf(t, k) = SetOf(st, k) /\ t.markers[k] = st.markers[k]
  OBVIOUS
<1>1. /\ Shaped(m) /\ m.calls = st.calls /\ m.fences = st.fences
      /\ m.markers[k] = IF k \in K THEN NoMarker ELSE st.markers[k]
  BY MarkerFields
<1>2. t = InsertSets(m, K, new)
  BY DEF ReregisterKeys
<1>3. k \in K => new[k] = set(k)
  OBVIOUS
<1>4. k \in K => /\ new[k].entries = carried[k].entries
                 /\ new[k].change = Larger(st.markers[k].change, carried[k].change)
  BY <1>3
<1> HIDE DEF m, new, t
<1>5. /\ Shaped(t) /\ t.fences = m.fences /\ t.markers = m.markers
      /\ t.calls[k] = IF k \in K THEN [entries |-> new[k].entries, change |-> new[k].change,
                                       lease |-> Lease, pending |-> Lease]
                      ELSE m.calls[k]
  BY <1>1, <1>2, InsertFields
<1> QED BY <1>1, <1>4, <1>5 DEF SetOf

\* record_change writes the number where the key is known, and a marker of it
\* only where it has no set.
LEMMA RecordKey ==
    ASSUME NEW st \in Stores, NEW k \in Keys, NEW n \in Nat, NEW q \in Keys
    PROVE  LET t == RecordChange(st, k, n)
           IN  /\ q # k => /\ SetOf(t, q) = SetOf(st, q)
                           /\ t.fences[q] = st.fences[q] /\ t.markers[q] = st.markers[q]
               /\ t.calls[k].entries = st.calls[k].entries
               /\ IF HasSet(st, k)
                  THEN t.calls[k].change = n /\ t.fences[k] = st.fences[k] /\ t.markers[k] = st.markers[k]
                  ELSE /\ t.calls[k].change = st.calls[k].change
                       /\ IF st.fences[k].why = "dropped"
                          THEN /\ t.fences[k].change = n /\ t.fences[k].why = "dropped"
                               /\ t.markers[k] = st.markers[k]
                          ELSE t.fences[k] = st.fences[k] /\ t.markers[k].change = n
<1> DEFINE t == RecordChange(st, k, n)
<1>1. /\ st.calls \in [Keys -> CallSets] /\ st.fences \in [Keys -> Fences]
      /\ st.markers \in [Keys -> Markers] /\ Shaped(st)
  BY StoreShaped DEF Stores
<1>2. CASE HasSet(st, k)
  <2> DEFINE calls == [st.calls EXCEPT ![k].change = n]
  <2>1. t.calls = calls /\ t.fences = st.fences /\ t.markers = st.markers
    <3>1. t = [st EXCEPT !.calls = calls]
      BY <1>2 DEF RecordChange
    <3> HIDE DEF calls, t
    <3> QED BY <1>1, <3>1 DEF Shaped
  <2>2. /\ q # k => calls[q] = st.calls[q]
        /\ calls[k].entries = st.calls[k].entries /\ calls[k].change = n
    BY <1>1 DEF CallSets
  <2> HIDE DEF calls, t
  <2> QED BY <1>2, <2>1, <2>2 DEF SetOf, t
<1>3. CASE ~HasSet(st, k) /\ st.fences[k].why = "dropped"
  <2> DEFINE fences == [st.fences EXCEPT ![k].change = n]
  <2>1. t.fences = fences /\ t.calls = st.calls /\ t.markers = st.markers
    <3>1. t = [st EXCEPT !.fences = fences]
      BY <1>3 DEF RecordChange
    <3> HIDE DEF fences, t
    <3> QED BY <1>1, <3>1 DEF Shaped
  <2>2. /\ q # k => fences[q] = st.fences[q]
        /\ fences[k].change = n /\ fences[k].why = "dropped"
    BY <1>1, <1>3 DEF Fences
  <2> HIDE DEF fences, t
  <2> QED BY <1>3, <2>1, <2>2 DEF SetOf, t
<1>4. CASE ~HasSet(st, k) /\ st.fences[k].why # "dropped"
  <2> DEFINE markers == [st.markers EXCEPT ![k] = [change |-> n, lapses |-> Lease]]
  <2>1. t.markers = markers /\ t.calls = st.calls /\ t.fences = st.fences
    <3>1. t = [st EXCEPT !.markers = markers]
      BY <1>4 DEF RecordChange
    <3> HIDE DEF markers, t
    <3> QED BY <1>1, <3>1 DEF Shaped
  <2>2. /\ q # k => markers[q] = st.markers[q]
        /\ markers[k].change = n
    BY <1>1
  <2> HIDE DEF markers, t
  <2> QED BY <1>4, <2>1, <2>2 DEF SetOf, t
<1> QED BY <1>2, <1>3, <1>4, Zenon

\* The admit numbered n took effect on k: what the store holds of it, and what
\* the answer states, bear that number.
Lands(st, a, k, n) ==
    /\ a.held = [change |-> n, entries |-> a.store.calls[k].entries]
    /\ a.store.calls[k].entries # <<>> => a.store.calls[k].change = n
    /\ a.store.calls[k].change \in {st.calls[k].change, 0, n}
    /\ a.store.fences[k].change \in {st.fences[k].change, 0, n}
    /\ \/ a.store.markers[k].change \in {st.markers[k].change, 0}
       \/ a.store.markers[k].change = n /\ a.store.calls[k].entries = <<>>

\* What a store kept of k after a sweep, in numbers.
LEMMA KeptNumbers ==
    ASSUME NEW st, NEW s, NEW k, KeyKept(st, s, k)
    PROVE  /\ s.calls[k].change \in {st.calls[k].change, 0}
           /\ s.fences[k].change \in {st.fences[k].change, 0}
           /\ s.markers[k].change \in {st.markers[k].change, 0}
           /\ s.calls[k].entries # <<>> => SetOf(s, k) = SetOf(st, k)
<1>1. SetOf(s, k).change = s.calls[k].change /\ SetOf(s, k).entries = s.calls[k].entries
      /\ SetOf(st, k).change = st.calls[k].change /\ NoHeld.change = 0 /\ NoHeld.entries = <<>>
  BY DEF SetOf, NoHeld
<1> QED BY <1>1 DEF KeyKept, NoFence, NoMarker

\* What is kept of a key that has none of them.
LEMMA NoneNumbers ==
    NoSet.entries = <<>> /\ NoSet.change = 0 /\ NoMarker.change = 0 /\ NoFence.change = 0
BY DEF NoSet, NoMarker, NoFence

\* An admit that is refused lands on its key alone.
LEMMA RejectedKey ==
    ASSUME NEW st, NEW s, StoreOK(s), NEW k \in Keys, NEW n \in Nat, NEW r \in BOOLEAN,
           NEW held \in HeldSets, NEW q \in Keys, \A j \in Keys : KeyKept(st, s, j)
    PROVE  LET a == Rejected(Carried(s, k, held), k, n, r)
           IN  (q # k => KeyKept(st, a.store, q)) /\ Lands(st, a, k, n)
<1> DEFINE c == Carried(s, k, held)
           carried == [j \in {k} |-> held]
           a == Rejected(c, k, n, r)
           t == a.store
<1> SUFFICES (q # k => KeyKept(st, t, q)) /\ Lands(st, a, k, n)
  OBVIOUS
<1>1. StoreOK(c) /\ c \in Stores /\ Shaped(c) /\ Shaped(s)
  BY CarriedOK, StoreShaped DEF StoreOK
<1>2. /\ q # k => SetOf(c, q) = SetOf(s, q) /\ c.fences[q] = s.fences[q] /\ c.markers[q] = s.markers[q]
      /\ c.fences[k] = s.fences[k] /\ c.markers[k] \in {s.markers[k], NoMarker}
      /\ c.calls[k].entries = <<>> => SetOf(c, k) = SetOf(s, k)
  <2>1. CASE Reregisters(s, k, held.entries)
    <3>1. c = ReregisterKeys(s, {k}, carried) /\ carried[k] = held /\ held.entries # <<>>
      BY <2>1 DEF Carried, Reregisters
    <3> HIDE DEF c, carried
    <3>2. SetOf(c, k).entries = c.calls[k].entries
      BY DEF SetOf
    <3>3. /\ SetOf(c, k) = [change |-> Larger(s.markers[k].change, carried[k].change),
                            entries |-> carried[k].entries]
          /\ c.markers[k] = NoMarker /\ c.fences[k] = s.fences[k]
      BY <1>1, <3>1, ReregisterKey
    <3>4. q # k => SetOf(c, q) = SetOf(s, q) /\ c.fences[q] = s.fences[q] /\ c.markers[q] = s.markers[q]
      BY <1>1, <3>1, ReregisterKey
    <3>5. SetOf(c, k).entries = carried[k].entries
      BY <3>3
    <3> QED BY <3>1, <3>2, <3>3, <3>4, <3>5, Zenon
  <2>2. CASE ~Reregisters(s, k, held.entries)
    BY <2>2 DEF Carried
  <2> QED BY <2>1, <2>2, Zenon
<1> HIDE DEF c
<1>3. c.markers[k].change \in {st.markers[k].change, 0} /\ c.fences[k].change \in {st.fences[k].change, 0}
  <2>1. s.markers[k].change \in {st.markers[k].change, 0} /\ s.fences[k].change \in {st.fences[k].change, 0}
    BY KeptNumbers, Zenon
  <2> QED BY <1>2, <2>1, NoneNumbers
<1>4. c.calls[k].entries = <<>> => c.calls[k].change \in {st.calls[k].change, 0}
  <2>1. c.calls[k].entries = <<>> => c.calls[k].change = s.calls[k].change
    <3>1. SetOf(c, k).change = c.calls[k].change /\ SetOf(s, k).change = s.calls[k].change
      BY DEF SetOf
    <3> QED BY <1>2, <3>1
  <2> QED BY <2>1, KeptNumbers
<1>5. ASSUME q # k PROVE KeyKept(st, c, q)
  BY <1>2, <1>5 DEF KeyKept
<1>6. CASE r
  <2> DEFINE d == DropSets(c, {k})
             e == DropMarkers(d, {k})
  <2>1. t = FenceKeys(e, {k}, "dropped", n) /\ a.held = HeldOf(t, k)
    BY <1>6 DEF Rejected, Answer
  <2>2. /\ Shaped(d) /\ d.fences = c.fences /\ d.markers = c.markers
        /\ d.calls[k] = NoSet /\ (q # k => d.calls[q] = c.calls[q])
    BY <1>1, DropFields
  <2> HIDE DEF a, t, d
  <2>3. /\ Shaped(e) /\ e.calls = d.calls /\ e.fences = d.fences
        /\ e.markers[k] = NoMarker /\ (q # k => e.markers[q] = d.markers[q])
    BY <2>2, MarkerFields
  <2> HIDE DEF e
  <2>4. /\ t.calls = e.calls /\ t.markers = e.markers
        /\ t.fences[k] = [why |-> "dropped", change |-> n, lapses |-> Lease]
        /\ (q # k => t.fences[q] = e.fences[q])
    BY <2>1, <2>3, FenceFields
  <2>5. q # k => KeyKept(st, t, q)
    BY <1>5, <2>2, <2>3, <2>4 DEF KeyKept, SetOf
  <2>6. t.calls[k] = NoSet /\ t.markers[k] = NoMarker
    BY <2>2, <2>3, <2>4
  <2>7. t.calls[k].entries = <<>> /\ t.calls[k].change = 0 /\ t.markers[k].change = 0
        /\ t.fences[k].change = n /\ t.fences[k].why = "dropped"
    <3>1. t.fences[k].change = n /\ t.fences[k].why = "dropped"
      BY <2>4
    <3> QED BY <2>6, <3>1, NoneNumbers, Zenon
  <2>8. a.held = [change |-> n, entries |-> <<>>]
    BY <2>1, <2>7 DEF HeldOf, KnownChange, HasSet
  <2> QED BY <2>5, <2>7, <2>8 DEF Lands, t
<1>7. CASE ~r
  <2> DEFINE u == RecordChange(c, k, n)
  <2>1. t = u /\ a.held = HeldOf(t, k)
    BY <1>7 DEF Rejected, Answer
  <2>r. /\ q # k => /\ SetOf(u, q) = SetOf(c, q)
                    /\ u.fences[q] = c.fences[q] /\ u.markers[q] = c.markers[q]
        /\ u.calls[k].entries = c.calls[k].entries
        /\ IF HasSet(c, k)
           THEN u.calls[k].change = n /\ u.fences[k] = c.fences[k] /\ u.markers[k] = c.markers[k]
           ELSE /\ u.calls[k].change = c.calls[k].change
                /\ IF c.fences[k].why = "dropped"
                   THEN /\ u.fences[k].change = n /\ u.fences[k].why = "dropped"
                        /\ u.markers[k] = c.markers[k]
                   ELSE u.fences[k] = c.fences[k] /\ u.markers[k].change = n
    BY <1>1, RecordKey, Zenon
  <2> HIDE DEF a, t, u
  <2>2. q # k => /\ SetOf(t, q) = SetOf(c, q)
                 /\ t.fences[q] = c.fences[q] /\ t.markers[q] = c.markers[q]
    BY <2>1, <2>r
  <2>3. /\ t.calls[k].entries = c.calls[k].entries
        /\ IF HasSet(c, k)
           THEN t.calls[k].change = n /\ t.fences[k] = c.fences[k] /\ t.markers[k] = c.markers[k]
           ELSE /\ t.calls[k].change = c.calls[k].change
                /\ IF c.fences[k].why = "dropped"
                   THEN /\ t.fences[k].change = n /\ t.fences[k].why = "dropped"
                        /\ t.markers[k] = c.markers[k]
                   ELSE t.fences[k] = c.fences[k] /\ t.markers[k].change = n
    BY <2>1, <2>r
  <2>4. q # k => KeyKept(st, t, q)
    BY <1>5, <2>2 DEF KeyKept
  <2>5. KnownChange(t, k) = n
    BY <2>3 DEF KnownChange, HasSet
  <2>6. a.held = [change |-> n, entries |-> t.calls[k].entries]
    BY <2>1, <2>5 DEF HeldOf
  <2> QED BY <1>3, <1>4, <2>3, <2>4, <2>6, Zenon DEF Lands, t, HasSet
<1> QED BY <1>6, <1>7

\* So does one that is admitted.
LEMMA AdmittedKey ==
    ASSUME NEW st, NEW s, StoreOK(s), NEW k \in Keys, NEW n \in Nat, NEW entries \in Lists,
           NEW held \in HeldSets, NEW q \in Keys, \A j \in Keys : KeyKept(st, s, j)
    PROVE  LET a == Admitted(Carried(s, k, held), k, n, entries)
           IN  (q # k => KeyKept(st, a.store, q)) /\ Lands(st, a, k, n)
<1> DEFINE c == Carried(s, k, held)
           carried == [j \in {k} |-> held]
           new == [j \in {k} |-> [entries |-> entries, change |-> n]]
           d == DropSets(c, {k})
           e == DropMarkers(d, {k})
           u == [e EXCEPT !.fences[k] = NoFence]
           a == Admitted(c, k, n, entries)
           t == a.store
<1> SUFFICES (q # k => KeyKept(st, t, q)) /\ Lands(st, a, k, n)
  OBVIOUS
<1>1. StoreOK(c) /\ c \in Stores /\ Shaped(c) /\ Shaped(s)
  BY CarriedOK, StoreShaped DEF StoreOK
<1>2. q # k => SetOf(c, q) = SetOf(s, q) /\ c.fences[q] = s.fences[q] /\ c.markers[q] = s.markers[q]
  <2>1. CASE Reregisters(s, k, held.entries)
    <3>1. c = ReregisterKeys(s, {k}, carried)
      BY <2>1 DEF Carried
    <3> HIDE DEF c, carried
    <3> QED BY <1>1, <3>1, ReregisterKey
  <2>2. CASE ~Reregisters(s, k, held.entries)
    BY <2>2 DEF Carried
  <2> QED BY <2>1, <2>2
<1>3. /\ t = IF entries = <<>> THEN FenceKeys(u, {k}, "dropped", n) ELSE InsertSets(u, {k}, new)
      /\ a.held = [change |-> n, entries |-> entries]
  BY DEF Admitted, Answer
<1> HIDE DEF c, a, t
<1>4. /\ Shaped(d) /\ d.fences = c.fences /\ d.markers = c.markers
      /\ d.calls[k] = NoSet /\ (q # k => d.calls[q] = c.calls[q])
  BY <1>1, DropFields
<1>5. d.fences \in [Keys -> Fences]
  BY <1>1, <1>4, Zenon DEF Stores
<1> HIDE DEF d
<1>6. /\ Shaped(e) /\ e.calls = d.calls /\ e.fences = d.fences
      /\ e.markers[k] = NoMarker /\ (q # k => e.markers[q] = d.markers[q])
  BY <1>4, MarkerFields
<1> HIDE DEF e
<1>7. /\ Shaped(u) /\ u.calls = e.calls /\ u.markers = e.markers
      /\ u.fences[k] = NoFence /\ (q # k => u.fences[q] = e.fences[q])
  <2>1. u.fences = [e.fences EXCEPT ![k] = NoFence] /\ u.calls = e.calls /\ u.markers = e.markers
        /\ Shaped(u)
    BY <1>6 DEF Shaped
  <2>2. e.fences \in [Keys -> Fences]
    BY <1>5, <1>6
  <2> HIDE DEF u
  <2>3. u.fences[k] = NoFence /\ (q # k => u.fences[q] = e.fences[q])
    BY <2>1, <2>2
  <2> QED BY <2>1, <2>3
<1> HIDE DEF u
<1>8. q # k => KeyKept(st, u, q)
  <2>1. q # k => SetOf(u, q) = SetOf(c, q)
    BY <1>4, <1>6, <1>7 DEF SetOf
  <2> QED BY <1>2, <1>4, <1>6, <1>7, <2>1 DEF KeyKept
<1>9. u.calls[k].entries = <<>> /\ u.calls[k].change = 0 /\ u.markers[k].change = 0 /\ u.fences[k].change = 0
  <2>1. u.calls[k] = NoSet /\ u.markers[k] = NoMarker /\ u.fences[k] = NoFence
    BY <1>4, <1>6, <1>7
  <2> QED BY <2>1, NoneNumbers, Zenon
<1>10. CASE entries = <<>>
  <2>1. /\ t.calls = u.calls /\ t.markers = u.markers
        /\ t.fences[k] = [why |-> "dropped", change |-> n, lapses |-> Lease]
        /\ (q # k => t.fences[q] = u.fences[q])
    BY <1>3, <1>7, <1>10, FenceFields
  <2>2. q # k => KeyKept(st, t, q)
    BY <1>8, <2>1 DEF KeyKept, SetOf
  <2>3. /\ t.calls[k].entries = <<>> /\ t.calls[k].change = 0 /\ t.markers[k].change = 0
        /\ t.fences[k].change = n
    <3>1. t.fences[k].change = n
      BY <2>1
    <3> QED BY <1>9, <2>1, <3>1, Zenon
  <2>4. a.held = [change |-> n, entries |-> t.calls[k].entries]
    BY <1>3, <1>10, <2>3
  <2> QED BY <2>2, <2>3, <2>4 DEF Lands, t
<1>11. CASE entries # <<>>
  <2>1. new[k].entries = entries /\ new[k].change = n
    OBVIOUS
  <2> HIDE DEF new
  <2>0. t = InsertSets(u, {k}, new)
    BY <1>3, <1>11
  <2>2. /\ t.fences = u.fences /\ t.markers = u.markers
        /\ \A j \in Keys : t.calls[j] =
              IF j \in {k} THEN [entries |-> new[j].entries, change |-> new[j].change,
                                 lease |-> Lease, pending |-> Lease]
              ELSE u.calls[j]
    BY <1>7, <2>0, InsertFields
  <2>3. q # k => KeyKept(st, t, q)
    BY <1>8, <2>2, Zenon DEF KeyKept, SetOf
  <2>4. t.calls[k].entries = entries /\ t.calls[k].change = n
    <3>1. t.calls[k] = [entries |-> new[k].entries, change |-> new[k].change,
                        lease |-> Lease, pending |-> Lease]
      BY <2>2, Zenon
    <3> QED BY <2>1, <3>1
  <2> QED BY <1>3, <1>9, <1>11, <2>2, <2>3, <2>4, Zenon DEF Lands, t
<1> QED BY <1>10, <1>11

\* admit_carrying changes its own key alone, past what lapsed: the admit lands,
\* or it is stale and its answer states what the store knows.
LEMMA AdmitKey ==
    ASSUME NEW st, StoreOK(st), NEW k \in Keys, NEW n \in Nat, NEW held \in HeldSets,
           NEW entries \in Lists, NEW r \in BOOLEAN, NEW q \in Keys
    PROVE  LET a == AdmitCarrying(st, k, n, held, entries, r)
           IN  /\ q # k => KeyKept(st, a.store, q)
               /\ \/ KeyKept(st, a.store, k) /\ a.held \in {NoHeld, HeldOf(a.store, k)}
                  \/ Lands(st, a, k, n)
<1> DEFINE s == Sweep(st)
           a == AdmitCarrying(st, k, n, held, entries, r)
<1> SUFFICES /\ q # k => KeyKept(st, a.store, q)
             /\ \/ KeyKept(st, a.store, k) /\ a.held \in {NoHeld, HeldOf(a.store, k)}
                \/ Lands(st, a, k, n)
  OBVIOUS
<1>1. StoreOK(s) /\ \A j \in Keys : KeyKept(st, s, j)
  BY SweepOK, SweepKey
<1>2. \/ a = Answer(s, "released", NoHeld) \/ a = Answer(s, "superseded", HeldOf(s, k))
      \/ a = Rejected(Carried(s, k, held), k, n, r)
      \/ a = Admitted(Carried(s, k, held), k, n, entries)
  BY Zenon DEF AdmitCarrying
<1> HIDE DEF s, a
<1>3. CASE a = Answer(s, "released", NoHeld) \/ a = Answer(s, "superseded", HeldOf(s, k))
  BY <1>1, <1>3 DEF Answer
<1>4. CASE a = Rejected(Carried(s, k, held), k, n, r)
  BY <1>1, <1>4, RejectedKey
<1>5. CASE a = Admitted(Carried(s, k, held), k, n, entries)
  BY <1>1, <1>5, AdmittedKey
<1> QED BY <1>2, <1>3, <1>4, <1>5

\* A refresh re-creates lost sets of the keys it carries, and changes nothing else.
LEMMA RefreshKey ==
    ASSUME NEW st, StoreOK(st), NEW K \in SUBSET Keys, NEW carried, NEW q \in Keys
    PROVE  LET t == RefreshKeys(st, K, carried)
           IN  \/ KeyKept(st, t, q)
               \/ /\ q \in K
                  /\ SetOf(t, q) = [change |-> Larger(Sweep(st).markers[q].change, carried[q].change),
                                    entries |-> carried[q].entries]
                  /\ t.markers[q] = NoMarker /\ t.fences[q] \in {st.fences[q], NoFence}
<1> DEFINE s     == Sweep(st)
           lost  == {k \in K : Reregisters(s, k, carried[k].entries)}
           calls == [k \in Keys |-> IF k \in K /\ HasSet(s, k)
                                   THEN [s.calls[k] EXCEPT !.lease = Lease] ELSE s.calls[k]]
           x     == [s EXCEPT !.calls = calls]
           t     == RefreshKeys(st, K, carried)
<1> SUFFICES \/ KeyKept(st, t, q)
             \/ /\ q \in K
                /\ SetOf(t, q) = [change |-> Larger(s.markers[q].change, carried[q].change),
                                  entries |-> carried[q].entries]
                /\ t.markers[q] = NoMarker /\ t.fences[q] \in {st.fences[q], NoFence}
  OBVIOUS
<1>1. StoreOK(s) /\ s \in Stores /\ Shaped(s) /\ KeyKept(st, s, q)
  BY SweepOK, SweepKey DEF StoreOK
<1>2. t = ReregisterKeys(x, lost, carried)
  BY DEF RefreshKeys
<1>3. q \in lost => q \in K
  OBVIOUS
<1> HIDE DEF s, t, lost
<1>4. s.calls[q] \in CallSets
  BY <1>1 DEF Stores
<1>5. calls[q].entries = s.calls[q].entries /\ calls[q].change = s.calls[q].change
  <2>1. calls[q] \in {s.calls[q], [s.calls[q] EXCEPT !.lease = Lease]}
    OBVIOUS
  <2> HIDE DEF calls
  <2> QED BY <1>4, <2>1 DEF CallSets
<1> HIDE DEF calls
<1>6. Shaped(x) /\ x.calls = calls /\ x.fences = s.fences /\ x.markers = s.markers
  BY <1>1 DEF Shaped
<1> HIDE DEF x
<1>7. SetOf(x, q) = SetOf(s, q)
  BY <1>5, <1>6 DEF SetOf
<1>8. /\ t.fences[q] = x.fences[q]
      /\ q \in lost => /\ SetOf(t, q) = [change |-> Larger(x.markers[q].change, carried[q].change),
                                        entries |-> carried[q].entries]
                       /\ t.markers[q] = NoMarker
      /\ q \notin lost => SetOf(t, q) = SetOf(x, q) /\ t.markers[q] = x.markers[q]
  BY <1>2, <1>6, ReregisterKey
<1> QED BY <1>1, <1>3, <1>6, <1>7, <1>8 DEF KeyKept

\* A release drops sets and markers, and fences without a number.
LEMMA ReleaseKey ==
    ASSUME NEW st, StoreOK(st), NEW K, NEW q \in Keys
    PROVE  LET t == ReleaseKeys(st, K)
           IN  /\ SetOf(t, q) \in {SetOf(st, q), NoHeld}
               /\ t.fences[q].change \in {st.fences[q].change, 0}
               /\ t.markers[q] \in {st.markers[q], NoMarker}
<1> DEFINE s   == Sweep(st)
           new == {k \in Keys : k \in K /\ s.fences[k].why # "released"}
           d   == DropSets(s, new)
           e   == DropMarkers(d, new)
           t   == ReleaseKeys(st, K)
<1> SUFFICES /\ SetOf(t, q) \in {SetOf(st, q), NoHeld}
             /\ t.fences[q].change \in {st.fences[q].change, 0}
             /\ t.markers[q] \in {st.markers[q], NoMarker}
  OBVIOUS
<1>1. Shaped(s) /\ KeyKept(st, s, q)
  BY SweepKey
<1>2. t = FenceKeys(e, new, "released", 0)
  BY DEF ReleaseKeys
<1> HIDE DEF s, t, new
<1>3. /\ Shaped(d) /\ d.fences = s.fences /\ d.markers = s.markers
      /\ d.calls[q] \in {NoSet, s.calls[q]}
  BY <1>1, DropFields
<1> HIDE DEF d
<1>4. /\ Shaped(e) /\ e.calls = d.calls /\ e.fences = d.fences
      /\ e.markers[q] \in {NoMarker, d.markers[q]}
  BY <1>3, MarkerFields
<1> HIDE DEF e
<1>5. /\ t.calls = e.calls /\ t.markers = e.markers
      /\ t.fences[q] = IF q \in new THEN [why |-> "released", change |-> 0, lapses |-> Lease]
                       ELSE e.fences[q]
  BY <1>2, <1>4, FenceFields
<1>6. SetOf(t, q) \in {SetOf(s, q), NoHeld}
  BY <1>3, <1>4, <1>5 DEF SetOf, NoSet, NoHeld
<1> QED BY <1>1, <1>3, <1>4, <1>5, <1>6 DEF KeyKept, NoFence

-----------------------------------------------------------------------------
(* The flow of requests: types. *)

\* A release of K, whatever K is.
ReleaseOf(K) ==
    [op : {"release"}, keys : {K}, waited : BOOLEAN, phase : {"out", "answered", "dead"}]

ReqTyped(m) ==
    \/ m \in AdmitReqs
    \/ \E K \in SUBSET Keys : m \in RefreshReqs(K)
    \/ \E K : m \in ReleaseOf(K)

CallsTyped == call \in [Keys -> CallStates] /\ copy \in [Keys -> CallStates]

ConsultsTyped ==
    /\ consult \in [Keys -> ConsultStates]
    /\ \A k \in Keys : consult[k] = NoConsult \/ consult[k].first > 0

BatchTyped == due \in [Keys -> Entries] /\ flight \in [Keys -> Entries]

ReqsTyped == \A m \in reqs : ReqTyped(m)

\* The inductive invariant.
FlowInv == StoreOK(store) /\ CallsTyped /\ ConsultsTyped /\ BatchTyped /\ ReqsTyped

-----------------------------------------------------------------------------
(* The call's limiter state. *)

\* The empty set and the empty entry are of their kinds.
LEMMA NoneTyped ==
    NoHeld \in HeldSets /\ NoEntry \in Entries /\ NoConsult \in ConsultStates
    /\ NoCall \in CallStates /\ Uncounted("active") \in CallStates
<1>1. NoHeld \in HeldSets
  BY StoreAssumption DEF NoHeld, HeldSets, StoreAssumption
<1>2. NoEntry \in Entries
  BY <1>1, StoreAssumption DEF NoEntry, Entries, StoreAssumption
<1>3. NoConsult \in ConsultStates
  BY <1>1, FlowAssumption DEF NoConsult, ConsultStates, FlowAssumption
<1>4. NoCall \in CallStates /\ Uncounted("active") \in CallStates
  BY StoreAssumption DEF NoCall, Uncounted, CallStates, StoreAssumption
<1> QED BY <1>1, <1>2, <1>3, <1>4

\* Applying what the limiter states keeps a call's state well formed.
LEMMA CallOpsTyped ==
    ASSUME NEW c \in CallStates
    PROVE  /\ HeldBy(c) \in HeldSets
           /\ \A n \in Nat : Reserved(c, n) \in CallStates
           /\ CloseConsult(c) \in CallStates
           /\ \A held \in HeldSets : ApplyHeld(c, held) \in CallStates
<1>1. HeldBy(c) \in HeldSets
  BY DEF HeldBy, HeldSets, CallStates
<1>2. \A n \in Nat : Reserved(c, n) \in CallStates
  BY DEF Reserved, CallStates
<1>3. CloseConsult(c) \in CallStates
  BY DEF CloseConsult, CallStates
<1>4. \A held \in HeldSets : ApplyHeld(c, held) \in CallStates
  BY Zenon DEF ApplyHeld, HeldSets, CallStates, Larger
<1> QED BY <1>1, <1>2, <1>3, <1>4

\* apply_admit keeps a call's state well formed.
LEMMA ApplyAdmitTyped ==
    ASSUME NEW c \in CallStates, NEW change \in Nat, NEW outcome, NEW held \in HeldSets
    PROVE  ApplyAdmit(c, change, outcome, held) \in CallStates
<1> DEFINE sent == outcome # "notsent"
           n == [c EXCEPT !.owed = @ \/ sent, !.sent = @ \/ sent, !.change = Larger(@, change)]
<1>1. n \in CallStates
  BY Zenon DEF CallStates, Larger
<1>2. ApplyAdmit(c, change, outcome, held) =
        IF outcome \in {"admitted", "rejected", "superseded"} THEN ApplyHeld(n, held)
        ELSE IF outcome = "released" THEN [n EXCEPT !.held = <<>>] ELSE n
  BY DEF ApplyAdmit
<1> HIDE DEF n
<1>3. ApplyHeld(n, held) \in CallStates
  BY <1>1, CallOpsTyped, Zenon
<1>4. [n EXCEPT !.held = <<>>] \in CallStates
  BY <1>1, StoreAssumption, Zenon DEF CallStates, StoreAssumption
<1> QED BY <1>1, <1>2, <1>3, <1>4

\* enter_epoch yields a number.
LEMMA EnterEpochTyped ==
    ASSUME NEW c \in CallStates
    PROVE  EnterEpoch(c) \in CallStates
<1>1. c.change \in Nat /\ Epoch \in Nat \ {0}
  BY FlowAssumption DEF CallStates, FlowAssumption
<1>2. c.change \div Epoch \in Nat
  BY <1>1
<1>3. (c.change \div Epoch + 1) * Epoch \in Nat
  BY <1>1, <1>2
<1> QED BY <1>3 DEF EnterEpoch, CallStates

-----------------------------------------------------------------------------
(* The worker's actions leave the store alone and keep the rest well formed. *)

WorkerTyped == CallsTyped /\ ConsultsTyped /\ BatchTyped /\ ReqsTyped

\* A consult that asks has its number.
LEMMA AskingTyped ==
    ASSUME NEW c \in ConsultStates, c = NoConsult \/ c.first > 0, c.phase = "asking"
    PROVE  c.first \in Nat \ {0} /\ c.depth \in Nat /\ c.held \in HeldSets
<1>1. c.first \in Nat /\ c.depth \in 0..(Chain - 1) /\ c.held \in HeldSets
  BY DEF ConsultStates
<1>2. c # NoConsult
  BY DEF NoConsult
<1> QED BY <1>1, <1>2, FlowAssumption DEF FlowAssumption

\* A request's operation tells its kind.
LEMMA OpTellsKind ==
    ASSUME NEW m, ReqTyped(m)
    PROVE  /\ m.op = "admit" => m \in AdmitReqs
           /\ m.op = "refresh" => \E K \in SUBSET Keys : m \in RefreshReqs(K)
           /\ m.op \in {"admit", "refresh", "release"}
BY DEF ReqTyped, AdmitReqs, RefreshReqs, ReleaseOf

-----------------------------------------------------------------------------
(* The steps that change the store. *)

\* Every step of the flow is a step of the store, or leaves it alone.
LEMMA FlowNextOK ==
    FlowInv /\ [FlowNext]_vars => WorkerTyped' /\ [StoreNext]_store
\* A report applied to its call, or releasing the key no call takes, keeps the
\* calls and the batch well formed.
<1>ReportTyped.
    ASSUME CallsTyped, BatchTyped, NEW k \in Keys, NEW fold \in BOOLEAN, NEW change \in Nat,
           NEW outcome, NEW held \in HeldSets, Report(k, fold, change, outcome, held)
    PROVE  call' \in [Keys -> CallStates] /\ BatchTyped'
  <2> USE <1>ReportTyped
  <2>1. call[k] \in CallStates
    BY DEF CallsTyped
  <2>2. CASE call[k].stage = "active"
    <3> DEFINE c == IF fold THEN CloseConsult(call[k]) ELSE call[k]
    <3>1. c \in CallStates
      BY <2>1, CallOpsTyped
    <3>2. call' = [call EXCEPT ![k] = ApplyAdmit(c, change, outcome, held)] /\ KeepQueues
      BY <2>2 DEF Report
    <3> HIDE DEF c
    <3>3. ApplyAdmit(c, change, outcome, held) \in CallStates
      BY <3>1, ApplyAdmitTyped
    <3> QED BY <3>2, <3>3 DEF CallsTyped, BatchTyped, KeepQueues
  <2>3. CASE call[k].stage # "active"
    BY <2>3, NoneTyped DEF Report, Release, Forgotten, KeepQueues, CallsTyped, BatchTyped
  <2> QED BY <2>2, <2>3
\* A task that stops leaves well-formed requests behind.
<1>EditedReqTyped.
    ASSUME NEW m, ReqTyped(m)
    PROVE  /\ ReqTyped([m EXCEPT !.waited = FALSE])
           /\ ReqTyped([m EXCEPT !.phase = "dead"])
  <2> USE <1>EditedReqTyped
  <2>1. CASE m \in AdmitReqs
    BY <2>1, Zenon DEF ReqTyped, AdmitReqs
  <2>2. ASSUME NEW K \in SUBSET Keys, m \in RefreshReqs(K)
        PROVE  /\ ReqTyped([m EXCEPT !.waited = FALSE])
               /\ ReqTyped([m EXCEPT !.phase = "dead"])
    <3>1. [m EXCEPT !.waited = FALSE] \in RefreshReqs(K)
      BY <2>2, Zenon DEF RefreshReqs
    <3>2. [m EXCEPT !.phase = "dead"] \in RefreshReqs(K)
      BY <2>2 DEF RefreshReqs
    <3> QED BY <3>1, <3>2, Zenon DEF ReqTyped
  <2>3. ASSUME NEW K, m \in ReleaseOf(K)
        PROVE  /\ ReqTyped([m EXCEPT !.waited = FALSE])
               /\ ReqTyped([m EXCEPT !.phase = "dead"])
    <3>1. [m EXCEPT !.waited = FALSE] \in ReleaseOf(K)
      BY <2>3, Zenon DEF ReleaseOf
    <3>2. [m EXCEPT !.phase = "dead"] \in ReleaseOf(K)
      BY <2>3 DEF ReleaseOf
    <3> QED BY <3>1, <3>2, Zenon DEF ReqTyped
  <2> QED BY <2>1, <2>2, <2>3, Zenon DEF ReqTyped
\* What a stopped task leaves in flight is well formed.
<1>AbandonedTyped.
    ASSUME ReqsTyped, NEW m \in reqs
    PROVE  \A r \in Abandoned(m) : ReqTyped(r)
  BY <1>AbandonedTyped, <1>EditedReqTyped, Zenon DEF ReqsTyped, Abandoned
\* The requests the calls and the batch send are well formed.
<1>AdmitReqTyped.
    ASSUME NEW k \in Keys, NEW site \in {"initial", "service", "consult"},
           NEW change \in Nat \ {0}, NEW held \in HeldSets, NEW entries \in Lists,
           NEW ror \in BOOLEAN
    PROVE  ReqTyped(AdmitReq(k, site, change, held, entries, ror))
  BY <1>AdmitReqTyped, NoneTyped DEF ReqTyped, AdmitReqs, AdmitReq
\* The refresh request of the keys due is well formed.
<1>RefreshReqTyped.
    ASSUME NEW K \in SUBSET Keys, NEW carried \in [K -> HeldSets]
    PROVE  ReqTyped(RefreshReq(carried))
  <2> USE <1>RefreshReqTyped
  <2>1. RefreshReq(carried) \in RefreshReqs(K)
    BY NoneTyped DEF RefreshReq, RefreshReqs
  <2> QED BY <2>1 DEF ReqTyped
\* So is a release request.
<1>ReleaseReqTyped. ASSUME NEW K PROVE ReqTyped(ReleaseReq(K))
  <2> USE <1>ReleaseReqTyped
  <2>1. ReleaseReq(K) \in ReleaseOf(K)
    BY DEF ReleaseReq, ReleaseOf
  <2> QED BY <2>1 DEF ReqTyped
\* An admit's answer states a set of the right kind.
<1>AdmitAnswerTyped.
    ASSUME NEW st, StoreOK(st), NEW k \in Keys, NEW change \in Nat, NEW held \in HeldSets,
           NEW entries \in Lists, NEW r \in BOOLEAN
    PROVE  LET a == AdmitCarrying(st, k, change, held, entries, r)
           IN  /\ a.outcome \in {"admitted", "rejected", "superseded", "released"}
               /\ a.held \in HeldSets
  <2> USE <1>AdmitAnswerTyped
  <2> DEFINE s == Sweep(st)
             c == Carried(s, k, held)
             j == Rejected(c, k, change, r)
             d == Admitted(c, k, change, entries)
  <2>1. StoreOK(s)
    BY SweepOK
  <2>2. StoreOK(c)
    <3> HIDE DEF s
    <3> QED BY <2>1, CarriedOK
  <2> HIDE DEF s, c
  <2>3. StoreOK(j.store)
    BY <2>2, RejectedOK
  <2>4. j.outcome = "rejected" /\ j.held = HeldOf(j.store, k)
    BY DEF Rejected, Answer
  <2>5. d.outcome = "admitted" /\ d.held = [change |-> change, entries |-> entries]
    BY DEF Admitted, Answer
  <2> HIDE DEF j, d
  <2>6. HeldOf(s, k) \in HeldSets /\ j.held \in HeldSets
    BY <2>1, <2>3, <2>4, KnownChangeNat DEF StoreOK
  <2>7. d.held \in HeldSets
    BY <2>5 DEF HeldSets
  <2>8. AdmitCarrying(st, k, change, held, entries, r) \in
          {Answer(s, "released", NoHeld), Answer(s, "superseded", HeldOf(s, k)), j, d}
    BY DEF AdmitCarrying, s, c, j, d
  <2>9. /\ Answer(s, "released", NoHeld).held = NoHeld /\ Answer(s, "superseded", HeldOf(s, k)).held = HeldOf(s, k)
        /\ Answer(s, "released", NoHeld).outcome = "released" /\ Answer(s, "superseded", HeldOf(s, k)).outcome = "superseded"
    BY DEF Answer
  <2> HIDE DEF s, j, d
  <2> QED
    BY <2>4, <2>5, <2>6, <2>7, <2>8, <2>9, NoneTyped
\* An admit that lands is a step of the store, and its answer is well formed.
<1>LandAdmitOK.
    ASSUME StoreOK(store), ReqsTyped, NEW m \in reqs, m \in AdmitReqs, LandAdmit(m)
    PROVE  StoreNext /\ ReqsTyped'
  <2> USE <1>LandAdmitOK
  <2> DEFINE a == AdmitCarrying(store, m.key, m.change, m.held, m.entries, m.ror)
             b == [m EXCEPT !.phase = "answered", !.outcome = a.outcome, !.states = a.held]
  <2>1. /\ m.key \in Keys /\ m.change \in Nat \ {0} /\ m.held \in HeldSets
        /\ m.entries \in Lists /\ m.ror \in BOOLEAN
    BY DEF AdmitReqs
  <2>2. /\ a.outcome \in {"admitted", "rejected", "superseded", "released"}
        /\ a.held \in HeldSets
    BY <2>1, <1>AdmitAnswerTyped
  <2>3. store' = a.store /\ reqs' \in SUBSET (reqs \cup {b})
    BY DEF LandAdmit
  <2>4. StoreAdmit(m.key)
    BY <2>1, <2>3 DEF StoreAdmit
  <2> HIDE DEF a
  <2>5. b \in AdmitReqs
    BY <2>2, Zenon DEF AdmitReqs
  <2> HIDE DEF b
  <2>6. ReqsTyped'
    BY <2>3, <2>5 DEF ReqsTyped, ReqTyped
  <2> QED BY <2>1, <2>4, <2>6 DEF StoreNext
\* A refresh that lands is a step of the store, and its answers are well formed.
<1>LandRefreshOK.
    ASSUME StoreOK(store), ReqsTyped, NEW m \in reqs, NEW K \in SUBSET Keys,
           m \in RefreshReqs(K), LandRefresh(m)
    PROVE  StoreNext /\ ReqsTyped'
  <2> USE <1>LandRefreshOK
  <2> DEFINE s == RefreshKeys(store, K, m.carried)
             outcomes == [k \in K |-> RefreshOutcome(store, k, m.carried[k])]
             states == [k \in K |-> HeldOf(s, k)]
             b == [m EXCEPT !.phase = "answered", !.outcomes = outcomes, !.states = states]
  <2>1. m.carried \in [K -> HeldSets] /\ DOMAIN m.carried = K
    BY DEF RefreshReqs
  <2>2. StoreOK(s)
    BY <2>1, RefreshOK
  <2>3. store' = s /\ reqs' \in SUBSET (reqs \cup {b})
    <3>1. /\ store' = s
          /\ reqs' = (reqs \ {m}) \cup (IF m.waited THEN {b} ELSE {})
      BY <2>1, Zenon DEF LandRefresh
    <3> HIDE DEF b
    <3> QED BY <3>1
  <2>4. StoreRefresh
    BY <2>1, <2>3, Zenon DEF StoreRefresh
  <2> HIDE DEF s
  <2>5. states \in [K -> HeldSets]
    BY <2>2, KnownChangeNat DEF StoreOK
  <2>6. outcomes \in [K -> {"none", "extended", "reregistered", "dropped", "released"}]
    <3>1. \A k \in K : RefreshOutcome(store, k, m.carried[k])
                        \in {"none", "extended", "reregistered", "dropped", "released"}
      BY DEF RefreshOutcome
    <3> QED BY <3>1
  <2> HIDE DEF states, outcomes
  <2>7. b \in RefreshReqs(K)
    BY <2>5, <2>6, Zenon DEF RefreshReqs
  <2> HIDE DEF b
  <2>8. ReqsTyped'
    BY <2>3, <2>7 DEF ReqsTyped, ReqTyped
  <2> QED BY <2>4, <2>8 DEF StoreNext
\* So is a release.
<1>LandReleaseOK.
    ASSUME StoreOK(store), ReqsTyped, NEW m \in reqs, NEW K, m \in ReleaseOf(K), LandRelease(m)
    PROVE  StoreNext /\ ReqsTyped'
  <2> USE <1>LandReleaseOK
  <2> DEFINE b == [m EXCEPT !.phase = "answered"]
  <2>1. m.keys = K
    BY DEF ReleaseOf
  <2>2. store' = ReleaseKeys(store, K) /\ reqs' \in SUBSET (reqs \cup {b})
    BY <2>1 DEF LandRelease
  <2>3. ReleaseKeys(store, K) = ReleaseKeys(store, K \cap Keys)
    <3> DEFINE s == Sweep(store)
    <3>1. {k \in Keys : k \in K /\ s.fences[k].why # "released"}
            = {k \in Keys : k \in K \cap Keys /\ s.fences[k].why # "released"}
      OBVIOUS
    <3> QED BY <3>1, Zenon DEF ReleaseKeys
  <2>4. StoreRelease
    BY <2>2, <2>3 DEF StoreRelease
  <2>5. b \in ReleaseOf(K)
    BY DEF ReleaseOf
  <2> HIDE DEF b
  <2>6. ReqsTyped'
    BY <2>2, <2>5 DEF ReqsTyped, ReqTyped
  <2> QED BY <2>4, <2>6 DEF StoreNext
\* Every request that lands is a step of the store.
<1>LandOK.
    ASSUME FlowInv, NEW m \in reqs, Land(m)
    PROVE  StoreNext /\ ReqsTyped'
  <2> USE <1>LandOK
  <2>1. ReqTyped(m) /\ ReqsTyped /\ StoreOK(store)
    BY DEF FlowInv, ReqsTyped
  <2>2. CASE m \in AdmitReqs
    <3>1. m.op = "admit"
      BY <2>2 DEF AdmitReqs
    <3>2. LandAdmit(m)
      BY <3>1 DEF Land
    <3> QED BY <2>1, <2>2, <3>2, <1>LandAdmitOK
  <2>3. ASSUME NEW K \in SUBSET Keys, m \in RefreshReqs(K) PROVE StoreNext /\ ReqsTyped'
    <3>1. m.op = "refresh"
      BY <2>3 DEF RefreshReqs
    <3>2. LandRefresh(m)
      BY <3>1 DEF Land
    <3> QED BY <2>1, <2>3, <3>2, <1>LandRefreshOK
  <2>4. ASSUME NEW K, m \in ReleaseOf(K) PROVE StoreNext /\ ReqsTyped'
    <3>1. m.op = "release"
      BY <2>4 DEF ReleaseOf
    <3>2. LandRelease(m)
      BY <3>1 DEF Land
    <3> QED BY <2>1, <2>4, <3>2, <1>LandReleaseOK
  <2> QED BY <2>1, <2>2, <2>3, <2>4 DEF ReqTyped
\* The admits of a call's turn.
<1>TurnsTyped.
    ASSUME WorkerTyped, NEW k \in Keys, NEW entries \in Lists,
           Initial(k, entries) \/ Replace(k, entries) \/ DispatchConsult(k)
    PROVE  WorkerTyped' /\ UNCHANGED store
  <2> USE <1>TurnsTyped
  <2>1. call[k] \in CallStates /\ call[k].change \in Nat
    BY DEF WorkerTyped, CallsTyped, CallStates
  <2>2. CASE Initial(k, entries)
    <3> DEFINE c == Uncounted("active")
               m == AdmitReq(k, "initial", c.change + 1, HeldBy(c), entries, FALSE)
    <3>1. c \in CallStates /\ c.change \in Nat /\ HeldBy(c) \in HeldSets /\ Reserved(c, 1) \in CallStates
      BY NoneTyped, CallOpsTyped, Zenon DEF CallStates
    <3> HIDE DEF c
    <3>2. ReqTyped(m)
      <4>1. c.change + 1 \in Nat \ {0}
        BY <3>1
      <4> QED BY <3>1, <4>1, <1>AdmitReqTyped, Zenon
    <3> HIDE DEF m
    <3>3. /\ call' \in {[call EXCEPT ![k] = c], [call EXCEPT ![k] = Reserved(c, 1)]}
          /\ reqs' \in SUBSET (reqs \cup {m})
          /\ UNCHANGED <<store, copy, consult, due, flight>>
      BY <2>2, Zenon DEF Initial, SendAdmit, KeepQueues, c, m
    <3>4. CallsTyped'
      BY <3>1, <3>3 DEF WorkerTyped, CallsTyped
    <3>5. ReqsTyped'
      BY <3>2, <3>3 DEF WorkerTyped, ReqsTyped
    <3> QED BY <3>3, <3>4, <3>5 DEF WorkerTyped, ConsultsTyped, BatchTyped
  <2>3. CASE Replace(k, entries)
    <3> DEFINE n == Reserved(call[k], 1)
               o == [n EXCEPT !.owed = TRUE, !.sent = TRUE]
               m == AdmitReq(k, "service", n.change, HeldBy(call[k]), entries, FALSE)
    <3>1. n \in CallStates /\ n.change = call[k].change + 1
      BY <2>1, CallOpsTyped, Zenon DEF Reserved, CallStates
    <3>2. n.change \in Nat \ {0} /\ HeldBy(call[k]) \in HeldSets
      BY <2>1, <3>1, CallOpsTyped
    <3> HIDE DEF n
    <3>3. o \in CallStates
      BY <3>1, Zenon DEF CallStates
    <3>4. ReqTyped(m)
      BY <3>2, <1>AdmitReqTyped, Zenon
    <3> HIDE DEF o, m
    <3>5. /\ call' \in {[call EXCEPT ![k] = n], [call EXCEPT ![k] = o]}
          /\ reqs' \in SUBSET (reqs \cup {m})
          /\ UNCHANGED <<store, copy, consult, due, flight>>
      BY <2>3, Zenon DEF Replace, SendAdmit, KeepQueues, n, o, m
    <3>6. CallsTyped'
      BY <3>1, <3>3, <3>5 DEF WorkerTyped, CallsTyped
    <3>7. ReqsTyped'
      BY <3>4, <3>5 DEF WorkerTyped, ReqsTyped
    <3> QED BY <3>5, <3>6, <3>7 DEF WorkerTyped, ConsultsTyped, BatchTyped
  <2>4. CASE DispatchConsult(k)
    <3> DEFINE c == call[k]
               n == [Reserved(c, Chain) EXCEPT !.owed = TRUE, !.consults = @ + 1]
               d == [first |-> c.change + 1, depth |-> 0, held |-> HeldBy(c),
                     mayHold |-> MayHold(c), phase |-> "asking"]
    <3>1. n \in CallStates
      <4>1. Chain \in Nat
        BY FlowAssumption DEF FlowAssumption
      <4>2. Reserved(c, Chain) \in CallStates
        BY <2>1, <4>1, CallOpsTyped, Zenon
      <4> DEFINE e == Reserved(c, Chain)
      <4>3. e.consults + 1 \in Nat
        BY <4>2 DEF CallStates
      <4>4. e \in CallStates
        BY <4>2
      <4> HIDE DEF e
      <4>5. [e EXCEPT !.owed = TRUE, !.consults = @ + 1] \in CallStates
        BY <4>3, <4>4, Zenon DEF CallStates
      <4> QED BY <4>5 DEF e
    <3>2. d \in ConsultStates /\ d.first > 0
      <4>1. MayHold(c) \in BOOLEAN /\ HeldBy(c) \in HeldSets
        BY <2>1, CallOpsTyped DEF MayHold, Counted, CallStates
      <4>2. c.change + 1 \in Nat /\ c.change + 1 > 0
        BY <2>1 DEF CallStates
      <4>3. 0 \in 0..(Chain - 1)
        BY FlowAssumption DEF FlowAssumption
      <4> QED BY <4>1, <4>2, <4>3 DEF ConsultStates
    <3> HIDE DEF n, d
    <3>3. /\ call' = [call EXCEPT ![k] = n] /\ consult' = [consult EXCEPT ![k] = d]
          /\ UNCHANGED <<store, copy, reqs, due, flight>>
      BY <2>4 DEF DispatchConsult, KeepQueues, n, d
    <3>4. CallsTyped'
      BY <3>1, <3>3 DEF WorkerTyped, CallsTyped
    <3>5. ConsultsTyped'
      BY <3>2, <3>3 DEF WorkerTyped, ConsultsTyped
    <3> QED BY <3>3, <3>4, <3>5 DEF WorkerTyped, BatchTyped, ReqsTyped
  <2> QED BY <2>2, <2>3, <2>4
\* The engine's answers to a failure consult.
<1>ConsultsKept.
    ASSUME WorkerTyped, NEW k \in Keys, NEW entries \in Lists,
           Route(k, entries) \/ Resolve(k)
    PROVE  WorkerTyped' /\ UNCHANGED store
  <2> USE <1>ConsultsKept
  <2> DEFINE c == consult[k]
  <2>1. c \in ConsultStates /\ CallsTyped /\ BatchTyped /\ (c = NoConsult \/ c.first > 0)
    BY DEF WorkerTyped, ConsultsTyped
  <2>2. c.phase = "asking"
    BY Zenon DEF Route, Resolve
  <2>3. c.first \in Nat \ {0} /\ c.depth \in Nat /\ c.held \in HeldSets
    BY <2>1, <2>2, AskingTyped
  <2>4. ASSUME consult' = [consult EXCEPT ![k] = NoConsult] PROVE ConsultsTyped'
    BY <2>4, NoneTyped DEF WorkerTyped, ConsultsTyped
  <2>5. CASE Route(k, entries)
    <3> DEFINE change == c.first + c.depth
               m == AdmitReq(k, "consult", change, c.held, entries, TRUE)
               silent == (entries = <<>> /\ ~c.mayHold) \/ open
    <3>1. change \in Nat \ {0} /\ change \in Nat
      BY <2>3
    <3>2. UNCHANGED <<store, copy>>
      BY <2>5 DEF Route
    <3> HIDE DEF c, change
    <3>3. CASE silent
      <4>1. /\ consult' = [consult EXCEPT ![k] = NoConsult]
            /\ Report(k, TRUE, change, "notsent", NoHeld) /\ UNCHANGED reqs
        BY <2>5, <3>3, Zenon DEF Route, c, change
      <4>2. call' \in [Keys -> CallStates] /\ BatchTyped'
        BY <2>1, <3>1, <4>1, NoneTyped, <1>ReportTyped, Zenon
      <4> QED BY <2>4, <3>2, <4>1, <4>2 DEF WorkerTyped, CallsTyped, ReqsTyped
    <3>4. CASE ~silent
      <4>1. /\ consult' = [consult EXCEPT ![k].phase = "admitting"]
            /\ reqs' = reqs \cup {m} /\ UNCHANGED <<call, due, flight>>
        BY <2>5, <3>4, Zenon DEF Route, KeepQueues, c, change
      <4>2. ReqTyped(m)
        BY <2>3, <3>1, <1>AdmitReqTyped, Zenon
      <4> HIDE DEF m
      <4>3. ReqsTyped'
        BY <4>1, <4>2 DEF WorkerTyped, ReqsTyped
      <4>4. ConsultsTyped'
        <5> DEFINE d == [c EXCEPT !.phase = "admitting"]
        <5>1. d \in ConsultStates /\ d.first = c.first
          BY <2>1 DEF ConsultStates
        <5>2. consult' = [consult EXCEPT ![k] = d]
          BY <4>1 DEF c
        <5> HIDE DEF d
        <5> QED BY <2>3, <5>1, <5>2 DEF WorkerTyped, ConsultsTyped
      <4> QED BY <3>2, <4>1, <4>3, <4>4 DEF WorkerTyped, CallsTyped, BatchTyped
    <3> QED BY <3>3, <3>4
  <2>6. CASE Resolve(k)
    <3>1. /\ consult' = [consult EXCEPT ![k] = NoConsult] /\ UNCHANGED <<store, copy, reqs>>
      BY <2>6 DEF Resolve
    <3>2. CASE c.depth = 0
      <4>1. UNCHANGED <<call, due, flight>>
        BY <2>6, <3>2 DEF Resolve, KeepQueues
      <4> QED BY <2>4, <3>1, <4>1 DEF WorkerTyped, CallsTyped, BatchTyped, ReqsTyped
    <3>3. CASE c.depth # 0
      <4> DEFINE change == c.first + c.depth - 1
      <4>1. Report(k, TRUE, change, "rejected", c.held)
        BY <2>6, <3>3, Zenon DEF Resolve
      <4>2. change \in Nat
        BY <2>3
      <4> HIDE DEF c, change
      <4>3. call' \in [Keys -> CallStates] /\ BatchTyped'
        BY <2>1, <2>3, <4>1, <4>2, <1>ReportTyped, Zenon
      <4> QED BY <2>4, <3>1, <4>3 DEF WorkerTyped, CallsTyped, ReqsTyped
    <3> QED BY <3>2, <3>3
  <2> QED BY <2>5, <2>6
\* What an admit's answer, or the end of its wait, leaves: the report, or the
\* engine asked again.
<1>FollowTyped.
    ASSUME WorkerTyped, NEW m \in reqs, m \in AdmitReqs,
           FollowRefusal(m) \/ AdmitAnswered(m) \/ AdmitGivenUp(m)
    PROVE  WorkerTyped' /\ UNCHANGED store
  <2> USE <1>FollowTyped
  <2>1. /\ m.key \in Keys /\ m.change \in Nat /\ m.states \in HeldSets
        /\ (m.site = "consult") \in BOOLEAN
    BY DEF AdmitReqs
  <2>2. CallsTyped /\ ConsultsTyped /\ BatchTyped /\ ReqsTyped
    BY DEF WorkerTyped
  <2>3. ASSUME EndConsult(m) PROVE ConsultsTyped'
    BY <2>1, <2>2, <2>3, NoneTyped DEF EndConsult, ConsultsTyped
  <2>4. CASE FollowRefusal(m)
    <3> DEFINE c == consult[m.key]
               d == [c EXCEPT !.depth = @ + 1, !.held = m.states,
                              !.mayHold = m.states.entries # <<>>, !.phase = "asking"]
    <3>1. c \in ConsultStates /\ c.first > 0 /\ c.depth + 1 < Chain
      BY <2>1, <2>2, <2>4 DEF ConsultsTyped, FollowRefusal, NoConsult
    <3>2. d \in ConsultStates /\ d.first = c.first
      <4>1. c.depth + 1 \in 0..(Chain - 1)
        BY <3>1, FlowAssumption DEF ConsultStates, FlowAssumption
      <4> QED BY <2>1, <3>1, <4>1, Zenon DEF ConsultStates
    <3>3. d.first > 0
      BY <3>1, <3>2
    <3>4. consult' = [consult EXCEPT ![m.key] = d] /\ reqs' = reqs \ {m}
          /\ UNCHANGED <<store, call, copy, due, flight>>
      BY <2>4 DEF FollowRefusal, KeepQueues
    <3> HIDE DEF d
    <3>5. ConsultsTyped'
      BY <2>1, <2>2, <3>2, <3>3, <3>4 DEF ConsultsTyped
    <3> QED BY <2>2, <3>4, <3>5 DEF WorkerTyped, CallsTyped, BatchTyped, ReqsTyped
  <2>5. CASE AdmitAnswered(m)
    <3>1. /\ EndConsult(m) /\ Report(m.key, m.site = "consult", m.change, m.outcome, m.states)
          /\ reqs' = reqs \ {m} /\ UNCHANGED <<store, copy>>
      BY <2>5 DEF AdmitAnswered
    <3>2. call' \in [Keys -> CallStates] /\ BatchTyped'
      BY <2>1, <2>2, <3>1, <1>ReportTyped, Zenon
    <3> QED BY <2>2, <2>3, <3>1, <3>2 DEF WorkerTyped, CallsTyped, ReqsTyped
  <2>6. CASE AdmitGivenUp(m)
    <3>1. /\ EndConsult(m) /\ Report(m.key, m.site = "consult", m.change, "unavailable", NoHeld)
          /\ reqs' = Abandoned(m) /\ UNCHANGED <<store, copy>>
      BY <2>6 DEF AdmitGivenUp, CountGiveUp
    <3>2. call' \in [Keys -> CallStates] /\ BatchTyped'
      BY <2>1, <2>2, <3>1, NoneTyped, <1>ReportTyped, Zenon
    <3>3. ReqsTyped'
      BY <2>2, <3>1, <1>AbandonedTyped DEF ReqsTyped
    <3> QED BY <2>2, <2>3, <3>1, <3>2, <3>3 DEF WorkerTyped, CallsTyped
  <2> QED BY <2>4, <2>5, <2>6
\* Ending, marking, replicating and materialising a call.
<1>CallStepsTyped.
    ASSUME WorkerTyped, NEW k \in Keys, End(k) \/ Mark(k) \/ Replicate(k) \/ Materialise(k)
    PROVE  WorkerTyped' /\ UNCHANGED store
  <2> USE <1>CallStepsTyped
  <2>1. call[k] \in CallStates /\ copy[k] \in CallStates
    BY DEF WorkerTyped, CallsTyped
  <2>2. CASE End(k)
    <3> DEFINE c == [call[k] EXCEPT !.stage = "gone"]
    <3>1. c \in CallStates
      BY <2>1 DEF CallStates
    <3>2. /\ call' = [call EXCEPT ![k] = c] /\ UNCHANGED <<store, copy, consult, reqs>>
          /\ Release(k) \/ KeepQueues
      BY <2>2 DEF End
    <3> HIDE DEF c
    <3>3. CallsTyped'
      BY <3>1, <3>2 DEF WorkerTyped, CallsTyped
    <3>4. BatchTyped'
      BY <3>2, NoneTyped DEF WorkerTyped, BatchTyped, Release, Forgotten, KeepQueues
    <3> QED BY <3>2, <3>3, <3>4 DEF WorkerTyped, ConsultsTyped, ReqsTyped
  <2>3. CASE Mark(k)
    <3> DEFINE d == Expired(due)
               held == HeldBy(call[k])
               entry == [held |-> held, left |-> IF flight[k] # NoEntry THEN flight[k].left ELSE Lease]
    <3>1. d \in [Keys -> Entries]
      BY NoneTyped DEF WorkerTyped, BatchTyped, Expired
    <3>2. held \in HeldSets /\ entry \in Entries
      <4>1. held \in HeldSets
        BY <2>1, CallOpsTyped
      <4>2. flight[k] \in Entries
        BY DEF WorkerTyped, BatchTyped
      <4>3. entry.left \in 0..Lease
        BY <4>2, StoreAssumption DEF Entries, StoreAssumption
      <4> QED BY <4>1, <4>3 DEF Entries
    <3>3. \/ due' = [d EXCEPT ![k] = [d[k] EXCEPT !.held = held]]
          \/ due' = [d EXCEPT ![k] = entry]
          \/ due' = d
          \/ \E q \in Keys : due' = [d EXCEPT ![q] = NoEntry, ![k] = entry]
      BY <2>3 DEF Mark, Oldest, Waiting
    <3>4. UNCHANGED <<store, call, copy, consult, reqs, flight>>
      BY <2>3 DEF Mark
    <3> HIDE DEF d, held, entry
    <3>5. [d[k] EXCEPT !.held = held] \in Entries
      BY <3>1, <3>2 DEF Entries
    <3>6. due' \in [Keys -> Entries]
      BY <3>1, <3>2, <3>3, <3>5, NoneTyped
    <3> QED BY <3>4, <3>6 DEF WorkerTyped, CallsTyped, ConsultsTyped, BatchTyped, ReqsTyped
  <2>4. CASE Replicate(k)
    <3>1. /\ copy' \in {[copy EXCEPT ![k] = call[k]], [copy EXCEPT ![k] = NoCall]}
          /\ UNCHANGED <<store, call, consult, reqs, due, flight>>
      BY <2>4, Zenon DEF Replicate, KeepQueues
    <3> QED BY <2>1, <3>1, NoneTyped
            DEF WorkerTyped, CallsTyped, ConsultsTyped, BatchTyped, ReqsTyped
  <2>5. CASE Materialise(k)
    <3>1. /\ call' = [call EXCEPT ![k] = EnterEpoch(copy[k])]
          /\ UNCHANGED <<store, copy, consult, reqs, due, flight>>
      BY <2>5 DEF Materialise, KeepQueues
    <3>2. EnterEpoch(copy[k]) \in CallStates
      BY <2>1, EnterEpochTyped, Zenon
    <3> QED BY <3>1, <3>2 DEF WorkerTyped, CallsTyped, ConsultsTyped, BatchTyped, ReqsTyped
  <2> QED BY <2>2, <2>3, <2>4, <2>5
\* The refresh and release senders.
<1>SendersTyped.
    ASSUME WorkerTyped, TakeRefreshes \/ SendReleases \/ GiveUpExpired
    PROVE  WorkerTyped' /\ UNCHANGED store
  <2> USE <1>SendersTyped
  <2>1. Expired(due) \in [Keys -> Entries]
    BY NoneTyped DEF WorkerTyped, BatchTyped, Expired
  <2>2. CASE TakeRefreshes
    <3> DEFINE d == Expired(due)
               K == Waiting(d)
               carried == [k \in K |-> d[k].held]
    <3>1. K \in SUBSET Keys /\ \A k \in K : d[k].held \in HeldSets
      BY <2>1 DEF Waiting, Entries
    <3>2. carried \in [K -> HeldSets]
      BY <3>1
    <3>3. /\ flight' = d /\ due' = [k \in Keys |-> NoEntry]
          /\ reqs' = reqs \cup {RefreshReq(carried)}
          /\ UNCHANGED <<store, call, copy, consult>>
      BY <2>2 DEF TakeRefreshes
    <3> HIDE DEF K, carried
    <3>4. ReqTyped(RefreshReq(carried))
      BY <3>1, <3>2, <1>RefreshReqTyped
    <3>5. ReqsTyped'
      BY <3>3, <3>4 DEF WorkerTyped, ReqsTyped
    <3>6. BatchTyped'
      BY <2>1, <3>3, NoneTyped DEF BatchTyped
    <3> QED BY <3>3, <3>5, <3>6 DEF WorkerTyped, CallsTyped, ConsultsTyped
  <2>3. CASE SendReleases
    <3> DEFINE q == Live(queue)
               m == ReleaseReq({q[i].key : i \in DOMAIN q})
    <3>1. ReqTyped(m)
      BY <1>ReleaseReqTyped
    <3>2. reqs' = reqs \cup {m} /\ UNCHANGED <<store, call, copy, consult, due, flight>>
      BY <2>3 DEF SendReleases
    <3> HIDE DEF m
    <3> QED BY <3>1, <3>2 DEF WorkerTyped, CallsTyped, ConsultsTyped, BatchTyped, ReqsTyped
  <2>4. CASE GiveUpExpired
    <3>1. due' = Expired(due) /\ UNCHANGED <<store, call, copy, consult, reqs, flight>>
      BY <2>4 DEF GiveUpExpired
    <3> QED BY <2>1, <3>1 DEF WorkerTyped, CallsTyped, ConsultsTyped, BatchTyped, ReqsTyped
  <2> QED BY <2>2, <2>3, <2>4
\* An answered, given-up or lost request of the senders.
<1>SentTyped.
    ASSUME WorkerTyped, NEW m \in reqs,
           \/ RefreshGivenUp(m) \/ ReleaseAnswered(m) \/ ReleaseGivenUp(m) \/ Vanish(m)
           \/ \E K \in SUBSET Keys : m \in RefreshReqs(K) /\ RefreshAnswered(m)
    PROVE  WorkerTyped' /\ UNCHANGED store
  <2> USE <1>SentTyped
  <2>1. \A r \in Abandoned(m) : ReqTyped(r)
    BY <1>AbandonedTyped DEF WorkerTyped
  <2>2. CASE RefreshGivenUp(m)
    <3>1. /\ due' = PutBack /\ flight' = [k \in Keys |-> NoEntry] /\ reqs' = Abandoned(m)
          /\ UNCHANGED <<store, call, copy, consult>>
      BY <2>2 DEF RefreshGivenUp, CountGiveUp
    <3>2. BatchTyped'
      BY <3>1, NoneTyped DEF WorkerTyped, BatchTyped, PutBack
    <3> QED BY <2>1, <3>1, <3>2 DEF WorkerTyped, CallsTyped, ConsultsTyped, ReqsTyped
  <2>3. CASE ReleaseAnswered(m) \/ Vanish(m)
    <3>1. reqs' = reqs \ {m} /\ UNCHANGED <<store, call, copy, consult, due, flight>>
      BY <2>3 DEF ReleaseAnswered, Vanish, workerVars
    <3> QED BY <3>1 DEF WorkerTyped, CallsTyped, ConsultsTyped, BatchTyped, ReqsTyped
  <2>4. CASE ReleaseGivenUp(m)
    <3>1. reqs' = Abandoned(m) /\ UNCHANGED <<store, call, copy, consult, due, flight>>
      BY <2>4 DEF ReleaseGivenUp, CountGiveUp
    <3> QED BY <2>1, <3>1 DEF WorkerTyped, CallsTyped, ConsultsTyped, BatchTyped, ReqsTyped
  <2>5. ASSUME NEW K \in SUBSET Keys, m \in RefreshReqs(K), RefreshAnswered(m)
        PROVE  WorkerTyped' /\ UNCHANGED store
    <3> DEFINE handed(k) == /\ k \in DOMAIN m.carried /\ flight[k] # NoEntry
                            /\ ~(m.outcomes[k] = "extended" /\ m.states[k] = m.carried[k])
                            /\ call[k].stage = "active"
               after(k) == IF handed(k) THEN ApplyRefresh(call[k], m.outcomes[k], m.states[k])
                           ELSE call[k]
    <3>1. /\ call' = [k \in Keys |-> after(k)] /\ flight' = [k \in Keys |-> NoEntry]
          /\ reqs' = reqs \ {m} /\ UNCHANGED <<store, copy, consult, due>>
      BY <2>5, Zenon DEF RefreshAnswered
    <3>2. ASSUME NEW k \in Keys PROVE after(k) \in CallStates
      <4>1. call[k] \in CallStates
        BY DEF WorkerTyped, CallsTyped
      <4>2. CASE handed(k)
        <5>1. m.states[k] \in HeldSets
          BY <2>5, <4>2 DEF RefreshReqs
        <5>2. ApplyRefresh(call[k], m.outcomes[k], m.states[k]) \in CallStates
          BY <4>1, <5>1, CallOpsTyped, Zenon DEF ApplyRefresh
        <5> QED BY <4>2, <5>2, Zenon
      <4>3. CASE ~handed(k)
        BY <4>1, <4>3, Zenon
      <4> QED BY <4>2, <4>3, Zenon
    <3> HIDE DEF after
    <3>3. CallsTyped'
      BY <3>1, <3>2 DEF WorkerTyped, CallsTyped
    <3>4. BatchTyped'
      BY <3>1, NoneTyped DEF WorkerTyped, BatchTyped
    <3> QED BY <3>1, <3>3, <3>4 DEF WorkerTyped, ConsultsTyped, ReqsTyped
  <2> QED BY <2>2, <2>3, <2>4, <2>5
\* A crash of the worker, and its breaker.
<1>WorkerFaultsTyped.
    ASSUME WorkerTyped, Breaker \/ Crash
    PROVE  WorkerTyped' /\ UNCHANGED store
  <2> USE <1>WorkerFaultsTyped
  <2>1. CASE Breaker
    BY <2>1 DEF Breaker, KeepQueues, WorkerTyped, CallsTyped, ConsultsTyped, BatchTyped, ReqsTyped
  <2>2. CASE Crash
    <3> DEFINE after(k) == IF copy[k] # NoCall THEN [call[k] EXCEPT !.stage = "down"]
                           ELSE IF call[k].stage = "active" THEN [call[k] EXCEPT !.stage = "gone"]
                           ELSE call[k]
               left == {[m EXCEPT !.waited = FALSE] : m \in {r \in reqs : r.phase = "out"}}
    <3>1. /\ call' = [k \in Keys |-> after(k)] /\ consult' = [k \in Keys |-> NoConsult]
          /\ due' = [k \in Keys |-> NoEntry] /\ flight' = [k \in Keys |-> NoEntry]
          /\ reqs' = left /\ UNCHANGED <<store, copy>>
      BY <2>2 DEF Crash
    <3>2. \A k \in Keys : after(k) \in CallStates
      BY DEF WorkerTyped, CallsTyped, CallStates
    <3>3. \A r \in left : ReqTyped(r)
      BY <1>EditedReqTyped, Zenon DEF WorkerTyped, ReqsTyped
    <3> HIDE DEF after, left
    <3>4. CallsTyped'
      BY <3>1, <3>2 DEF WorkerTyped, CallsTyped
    <3>5. ConsultsTyped' /\ BatchTyped'
      BY <3>1, NoneTyped DEF ConsultsTyped, BatchTyped
    <3> QED BY <3>1, <3>3, <3>4, <3>5 DEF WorkerTyped, ReqsTyped
  <2> QED BY <2>1, <2>2
\* Time, the janitor and a restart of the limiter are the store's own steps.
<1>StoreStepsTyped.
    ASSUME WorkerTyped, Janitor \/ Restart \/ Tick
    PROVE  WorkerTyped' /\ StoreNext
  <2> USE <1>StoreStepsTyped
  <2>1. CASE Janitor
    BY <2>1 DEF Janitor, StoreNext, workerVars, WorkerTyped, CallsTyped, ConsultsTyped,
                BatchTyped, ReqsTyped
  <2>2. CASE Restart
    <3> DEFINE dead == {[m EXCEPT !.phase = "dead"] : m \in {r \in reqs : r.phase = "out" /\ r.waited}}
    <3>1. \A r \in dead : ReqTyped(r)
      BY <1>EditedReqTyped, Zenon DEF WorkerTyped, ReqsTyped
    <3> HIDE DEF dead
    <3>2. /\ StoreNext /\ reqs' = {m \in reqs : m.phase # "out"} \cup dead
          /\ UNCHANGED <<call, copy, consult, due, flight>>
      BY <2>2 DEF Restart, StoreNext, workerVars, dead
    <3> QED BY <3>1, <3>2 DEF WorkerTyped, CallsTyped, ConsultsTyped, BatchTyped, ReqsTyped
  <2>3. CASE Tick
    <3>1. ASSUME NEW e \in Entries PROVE [e EXCEPT !.left = Nearer(@)] \in Entries
      BY <3>1, StoreAssumption DEF Entries, Nearer, StoreAssumption
    <3>2. /\ due' = [k \in Keys |-> [due[k] EXCEPT !.left = Nearer(@)]]
          /\ flight' = [k \in Keys |-> [flight[k] EXCEPT !.left = Nearer(@)]]
          /\ StoreNext /\ UNCHANGED <<call, copy, consult, reqs>>
      BY <2>3 DEF Tick, StoreNext
    <3>3. \A k \in Keys : /\ [due[k] EXCEPT !.left = Nearer(@)] \in Entries
                          /\ [flight[k] EXCEPT !.left = Nearer(@)] \in Entries
      BY <3>1 DEF WorkerTyped, BatchTyped
    <3>4. BatchTyped'
      BY <3>2, <3>3 DEF BatchTyped
    <3> QED BY <3>2, <3>4 DEF WorkerTyped, CallsTyped, ConsultsTyped, ReqsTyped
  <2> QED BY <2>1, <2>2, <2>3
\* A request served, answered, given up or lost.
<1>RequestSteps.
    ASSUME FlowInv, NEW m \in reqs, Answered(m) \/ GivenUp(m) \/ Land(m) \/ Vanish(m)
    PROVE  WorkerTyped' /\ [StoreNext]_store
  <2> USE <1>RequestSteps
  <2>1. WorkerTyped /\ ReqTyped(m)
    BY DEF FlowInv, WorkerTyped, ReqsTyped
  <2>2. /\ m.op = "admit" => m \in AdmitReqs
        /\ m.op = "refresh" => \E K \in SUBSET Keys : m \in RefreshReqs(K)
        /\ m.op \in {"admit", "refresh", "release"}
    BY <2>1, OpTellsKind
  <2>3. CASE Land(m)
    <3>1. StoreNext /\ ReqsTyped'
      BY <2>3, <1>LandOK
    <3>2. UNCHANGED <<call, copy, consult, due, flight>>
      BY <2>3 DEF Land, workerVars
    <3> QED BY <2>1, <3>1, <3>2 DEF WorkerTyped, CallsTyped, ConsultsTyped, BatchTyped
  <2>4. CASE Answered(m)
    BY <2>1, <2>2, <2>4, <1>FollowTyped, <1>SentTyped, Zenon DEF Answered
  <2>5. CASE GivenUp(m)
    BY <2>1, <2>2, <2>5, <1>FollowTyped, <1>SentTyped, Zenon DEF GivenUp
  <2>6. CASE Vanish(m)
    BY <2>1, <2>6, <1>SentTyped
  <2> QED BY <2>3, <2>4, <2>5, <2>6
\* Every step, one action at a time.
<1> SUFFICES ASSUME FlowInv, [FlowNext]_vars PROVE WorkerTyped' /\ [StoreNext]_store
  OBVIOUS
<1>1. WorkerTyped
  BY DEF FlowInv, WorkerTyped
<1>2. ASSUME NEW k \in Keys, NEW entries \in Lists,
             Initial(k, entries) \/ Replace(k, entries) \/ Route(k, entries)
      PROVE  WorkerTyped' /\ [StoreNext]_store
  BY <1>1, <1>2, <1>TurnsTyped, <1>ConsultsKept
<1>3. ASSUME NEW k \in Keys, DispatchConsult(k) \/ Resolve(k) \/ End(k)
      PROVE  WorkerTyped' /\ [StoreNext]_store
  <2>1. <<>> \in Lists
    BY StoreAssumption DEF StoreAssumption
  <2> QED BY <1>1, <1>3, <2>1, <1>TurnsTyped, <1>ConsultsKept, <1>CallStepsTyped
<1>4. ASSUME NEW k \in Keys, Mark(k) \/ Replicate(k) \/ Materialise(k)
      PROVE  WorkerTyped' /\ [StoreNext]_store
  BY <1>1, <1>4, <1>CallStepsTyped
<1>5. CASE TakeRefreshes \/ SendReleases \/ GiveUpExpired
  BY <1>1, <1>5, <1>SendersTyped
<1>6. ASSUME NEW m \in reqs, Answered(m) \/ GivenUp(m) \/ Land(m) \/ Vanish(m)
      PROVE  WorkerTyped' /\ [StoreNext]_store
  BY <1>6, <1>RequestSteps
<1>7. CASE Janitor \/ Restart \/ Tick
  BY <1>1, <1>7, <1>StoreStepsTyped
<1>8. CASE Breaker \/ Crash
  BY <1>1, <1>8, <1>WorkerFaultsTyped
<1>9. CASE UNCHANGED vars
  BY <1>1, <1>9 DEF vars, WorkerTyped, CallsTyped, ConsultsTyped, BatchTyped, ReqsTyped
<1> QED BY <1>2, <1>3, <1>4, <1>5, <1>6, <1>7, <1>8, <1>9 DEF FlowNext

\* The inductive invariant starts true and is kept.
LEMMA FlowInvKept ==
    /\ FlowInit => FlowInv
    /\ FlowInv /\ [FlowNext]_vars => FlowInv' /\ [StoreNext]_store
<1>1. FlowInit => FlowInv
  BY EmptyStoreOK, NoneTyped
  DEF FlowInit, StoreInit, FlowInv, CallsTyped, ConsultsTyped, BatchTyped, ReqsTyped
<1>2. ASSUME FlowInv, [FlowNext]_vars PROVE FlowInv' /\ [StoreNext]_store
  <2>1. WorkerTyped' /\ [StoreNext]_store
    BY <1>2, FlowNextOK
  <2>2. StoreOK(store')
    BY <1>2, <2>1, StoreNextOK DEF FlowInv
  <2>3. StoreOK(store)'
    BY <2>2, Zenon DEF StoreOK, Exact, Lapsing, HasSet
  <2> QED BY <2>1, <2>3 DEF FlowInv, WorkerTyped
<1> QED BY <1>1, <1>2

\* The whole system implements the store's specification: no order of turns,
\* consults, refreshes, releases, losses, restarts and crashes makes the store
\* take a step its own four operations, time and a restart do not allow.
THEOREM FlowImplementsStore == FlowSpec => StoreSpec
<1>1. FlowInit => StoreInit
  BY DEF FlowInit
<1> QED BY <1>1, FlowInvKept, PTL DEF FlowSpec, StoreSpec

\* What the store promises therefore holds in the whole system, for any calls,
\* lists, lease, epoch, chain and queue bound.
THEOREM FlowKeepsStore == FlowSpec => [](CountsExact /\ EverySetLapses)
<1>1. FlowInv => CountsExact /\ EverySetLapses
  BY DEF FlowInv, StoreOK, CountsExact, EverySetLapses
<1> QED BY <1>1, FlowInvKept, PTL DEF FlowSpec

-----------------------------------------------------------------------------
(* An ended call is not refreshed. A refresh is marked for a counted call, a *)
(* counted call owes its release, and the turn that ends a call owing one    *)
(* tells the batch to forget the key: so the batch holds entries of calls    *)
(* that run and owe alone.                                                   *)

Owing(c) == Counted(c) => c.owed = TRUE

\* What the batch holds is of a call that runs and owes.
InBatch(k) == due[k] # NoEntry \/ flight[k] # NoEntry

BatchInv ==
    /\ \A k \in Keys : Owing(call[k]) /\ Owing(copy[k])
    /\ \A k \in Keys : InBatch(k) => call[k].stage = "active" /\ call[k].owed = TRUE

\* BatchInv starts true and is kept.
LEMMA BatchInvKept ==
    /\ FlowInit => BatchInv
    /\ WorkerTyped /\ BatchInv /\ [FlowNext]_vars => BatchInv'
\* No report, refresh answer or reservation takes an obligation away, and only
\* a call that owes comes to hold a set.
<1>OwingOps.
    ASSUME NEW c \in CallStates, Owing(c)
    PROVE  /\ \A n \in Nat : /\ Owing(Reserved(c, n))
                             /\ Reserved(c, n).stage = c.stage /\ Reserved(c, n).owed = c.owed
           /\ \A held \in HeldSets :
                 /\ c.owed = TRUE => Owing(ApplyHeld(c, held))
                 /\ ApplyHeld(c, held).stage = c.stage /\ ApplyHeld(c, held).owed = c.owed
           /\ /\ Owing(CloseConsult(c))
              /\ CloseConsult(c).stage = c.stage /\ CloseConsult(c).owed = c.owed
  <2> USE <1>OwingOps
  <2>1. \A n \in Nat : /\ Owing(Reserved(c, n))
                       /\ Reserved(c, n).stage = c.stage /\ Reserved(c, n).owed = c.owed
    BY DEF Reserved, CallStates, Owing, Counted
  <2>2. \A held \in HeldSets :
           ApplyHeld(c, held).stage = c.stage /\ ApplyHeld(c, held).owed = c.owed
    BY DEF ApplyHeld, CallStates
  <2>3. /\ Owing(CloseConsult(c))
        /\ CloseConsult(c).stage = c.stage /\ CloseConsult(c).owed = c.owed
    BY DEF CloseConsult, CallStates, Owing, Counted
  <2> QED BY <2>1, <2>2, <2>3 DEF Owing
\* A report that states a set came of a request sent, so the call owes.
<1>OwingApplyAdmit.
    ASSUME NEW c \in CallStates, Owing(c), NEW change \in Nat, NEW outcome, NEW held \in HeldSets
    PROVE  LET a == ApplyAdmit(c, change, outcome, held)
           IN  Owing(a) /\ a.stage = c.stage /\ (c.owed = TRUE => a.owed = TRUE)
  <2> USE <1>OwingApplyAdmit
  <2> DEFINE sent == outcome # "notsent"
             n == [c EXCEPT !.owed = @ \/ sent, !.sent = @ \/ sent, !.change = Larger(@, change)]
             a == ApplyAdmit(c, change, outcome, held)
  <2> SUFFICES Owing(a) /\ a.stage = c.stage /\ (c.owed = TRUE => a.owed = TRUE)
    OBVIOUS
  <2>1. /\ n \in CallStates /\ n.stage = c.stage /\ n.held = c.held
        /\ c.owed = TRUE => n.owed = TRUE
        /\ sent => n.owed = TRUE
    BY Zenon DEF CallStates, Larger
  <2>2. a = IF outcome \in {"admitted", "rejected", "superseded"} THEN ApplyHeld(n, held)
            ELSE IF outcome = "released" THEN [n EXCEPT !.held = <<>>] ELSE n
    BY DEF ApplyAdmit
  <2>3. Owing(n)
    BY <2>1 DEF Owing, Counted
  <2> HIDE DEF n, a
  <2>4. CASE outcome \in {"admitted", "rejected", "superseded"}
    BY <2>1, <2>2, <2>3, <2>4, <1>OwingOps, Zenon
  <2>5. CASE outcome = "released"
    <3>1. a = [n EXCEPT !.held = <<>>]
      BY <2>2, <2>5
    <3> QED BY <2>1, <3>1 DEF CallStates, Owing, Counted
  <2>6. CASE outcome \notin {"admitted", "rejected", "superseded", "released"}
    BY <2>1, <2>2, <2>3, <2>6
  <2> QED BY <2>4, <2>5, <2>6, Zenon
\* A step that changes one call's state, keeping what it owes, and adds nothing
\* to the batch.
<1>OneCallKept.
    ASSUME WorkerTyped, BatchInv, NEW k \in Keys, NEW c,
           call' = [call EXCEPT ![k] = c], Owing(c), UNCHANGED <<copy, due, flight>>,
           InBatch(k) => c.stage = "active" /\ c.owed = TRUE
    PROVE  BatchInv'
  BY <1>OneCallKept DEF BatchInv, InBatch, WorkerTyped, CallsTyped
\* A release forgets the key, in flight or not; nothing else of the batch changes.
<1>ReleaseForgets.
    ASSUME WorkerTyped, NEW k \in Keys, Release(k)
    PROVE  ~InBatch(k)' /\ \A j \in Keys : InBatch(j)' => InBatch(j)
  BY <1>ReleaseForgets DEF Release, Forgotten, InBatch, WorkerTyped, BatchTyped
\* A report keeps the batch to calls that run and owe.
<1>ReportKept.
    ASSUME WorkerTyped, BatchInv, NEW k \in Keys, NEW fold \in BOOLEAN, NEW change \in Nat,
           NEW outcome, NEW held \in HeldSets, Report(k, fold, change, outcome, held),
           UNCHANGED copy
    PROVE  BatchInv'
  <2> USE <1>ReportKept
  <2>1. call[k] \in CallStates /\ Owing(call[k])
    BY DEF WorkerTyped, CallsTyped, BatchInv
  <2>2. CASE call[k].stage = "active"
    <3> DEFINE c == IF fold THEN CloseConsult(call[k]) ELSE call[k]
               a == ApplyAdmit(c, change, outcome, held)
    <3>1. c \in CallStates /\ Owing(c) /\ c.stage = "active" /\ c.owed = call[k].owed
      BY <2>1, <2>2, CallOpsTyped, <1>OwingOps, Zenon
    <3>2. call' = [call EXCEPT ![k] = a] /\ UNCHANGED <<due, flight>>
      BY <2>2, Zenon DEF Report, KeepQueues
    <3> HIDE DEF c
    <3>3. Owing(a) /\ a.stage = "active" /\ (call[k].owed = TRUE => a.owed = TRUE)
      BY <3>1, <1>OwingApplyAdmit, Zenon
    <3> HIDE DEF a
    <3> QED BY <3>2, <3>3, <1>OneCallKept, Zenon DEF BatchInv
  <2>3. CASE call[k].stage # "active"
    <3>1. UNCHANGED <<call, copy>> /\ (Release(k) \/ UNCHANGED <<due, flight>>)
      BY <2>3 DEF Report, KeepQueues
    <3>2. \A j \in Keys : InBatch(j)' => InBatch(j)
      BY <3>1, <1>ReleaseForgets DEF InBatch
    <3> QED BY <3>1, <3>2, Zenon DEF BatchInv
  <2> QED BY <2>2, <2>3
\* A call's own turns.
<1>TurnsKept.
    ASSUME WorkerTyped, BatchInv, NEW k \in Keys, NEW entries \in Lists,
           Initial(k, entries) \/ Replace(k, entries) \/ DispatchConsult(k)
    PROVE  BatchInv'
  <2> USE <1>TurnsKept
  <2>1. call[k] \in CallStates /\ Owing(call[k])
    BY DEF WorkerTyped, CallsTyped, BatchInv
  <2>2. CASE Initial(k, entries)
    <3> DEFINE c == Uncounted("active")
    <3>1. c \in CallStates /\ c.held = <<>>
      BY NoneTyped DEF Uncounted
    <3>2. Owing(c) /\ Owing(Reserved(c, 1))
      BY <3>1, <1>OwingOps, Zenon DEF Owing, Counted
    <3>3. /\ call' \in {[call EXCEPT ![k] = c], [call EXCEPT ![k] = Reserved(c, 1)]}
          /\ UNCHANGED <<copy, due, flight>> /\ ~InBatch(k)
      BY <2>2, Zenon DEF Initial, KeepQueues, BatchInv
    <3> HIDE DEF c
    <3> QED BY <3>2, <3>3, <1>OneCallKept, Zenon
  <2>3. CASE Replace(k, entries)
    <3> DEFINE n == Reserved(call[k], 1)
               o == [n EXCEPT !.owed = TRUE, !.sent = TRUE]
    <3>1. n \in CallStates /\ Owing(n) /\ n.stage = call[k].stage /\ n.owed = call[k].owed
      BY <2>1, CallOpsTyped, <1>OwingOps, Zenon
    <3> HIDE DEF n
    <3>2. Owing(o) /\ o.stage = n.stage /\ o.owed = TRUE
      BY <3>1 DEF CallStates, Owing
    <3>3. /\ call' \in {[call EXCEPT ![k] = n], [call EXCEPT ![k] = o]}
          /\ UNCHANGED <<copy, due, flight>> /\ call[k].stage = "active"
      BY <2>3, Zenon DEF Replace, KeepQueues, Runs, n, o
    <3> HIDE DEF o
    <3> QED BY <3>1, <3>2, <3>3, <1>OneCallKept, Zenon DEF BatchInv
  <2>4. CASE DispatchConsult(k)
    <3> DEFINE e == Reserved(call[k], Chain)
               n == [e EXCEPT !.owed = TRUE, !.consults = @ + 1]
    <3>1. Chain \in Nat
      BY FlowAssumption DEF FlowAssumption
    <3>2. e \in CallStates /\ e.stage = call[k].stage
      BY <2>1, <3>1, CallOpsTyped, <1>OwingOps, Zenon
    <3> HIDE DEF e
    <3>3. Owing(n) /\ n.stage = e.stage /\ n.owed = TRUE
      BY <3>2 DEF CallStates, Owing
    <3>4. /\ call' = [call EXCEPT ![k] = n]
          /\ UNCHANGED <<copy, due, flight>> /\ call[k].stage = "active"
      BY <2>4 DEF DispatchConsult, KeepQueues, Runs, n, e
    <3> HIDE DEF n
    <3> QED BY <3>2, <3>3, <3>4, <1>OneCallKept, Zenon
  <2> QED BY <2>2, <2>3, <2>4
\* The engine's answers and the admits' answers.
<1>ReportsKept.
    ASSUME WorkerTyped, BatchInv,
           \/ \E k \in Keys, entries \in Lists : Route(k, entries) \/ Resolve(k)
           \/ \E m \in reqs : m \in AdmitReqs
                              /\ (FollowRefusal(m) \/ AdmitAnswered(m) \/ AdmitGivenUp(m))
    PROVE  BatchInv'
  <2> USE <1>ReportsKept
  <2>0. ASSUME UNCHANGED <<call, copy, due, flight>> PROVE BatchInv'
    BY <2>0, Zenon DEF BatchInv, InBatch
  <2>1. ASSUME NEW k \in Keys, NEW entries \in Lists, Route(k, entries) \/ Resolve(k)
        PROVE  BatchInv'
    <3> DEFINE c == consult[k]
    <3>0. c.phase = "asking"
      BY <2>1, Zenon DEF Route, Resolve
    <3>1. c \in ConsultStates /\ (c = NoConsult \/ c.first > 0) /\ c.phase = "asking"
      BY <2>1, <3>0 DEF WorkerTyped, ConsultsTyped
    <3>2. /\ c.first \in Nat \ {0} /\ c.depth \in Nat /\ c.held \in HeldSets
          /\ c.first + c.depth \in Nat /\ c.first + c.depth - 1 \in Nat
      <4>1. c.first \in Nat \ {0} /\ c.depth \in Nat /\ c.held \in HeldSets
        BY <3>1, AskingTyped
      <4> HIDE DEF c
      <4> QED BY <4>1
    <3>3. \/ UNCHANGED <<call, copy, due, flight>>
          \/ UNCHANGED copy /\ Report(k, TRUE, c.first + c.depth, "notsent", NoHeld)
          \/ UNCHANGED copy /\ Report(k, TRUE, c.first + c.depth - 1, "rejected", c.held)
      BY <2>1, Zenon DEF Route, Resolve, KeepQueues
    <3> HIDE DEF c
    <3> QED BY <2>0, <3>2, <3>3, NoneTyped, <1>ReportKept, Zenon
  <2>2. ASSUME NEW m \in reqs, m \in AdmitReqs,
               FollowRefusal(m) \/ AdmitAnswered(m) \/ AdmitGivenUp(m)
        PROVE  BatchInv'
    <3>1. /\ m.key \in Keys /\ m.change \in Nat /\ m.states \in HeldSets
          /\ (m.site = "consult") \in BOOLEAN
      BY <2>2 DEF AdmitReqs
    <3>2. \/ UNCHANGED <<call, copy, due, flight>>
          \/ UNCHANGED copy /\ Report(m.key, m.site = "consult", m.change, m.outcome, m.states)
          \/ UNCHANGED copy /\ Report(m.key, m.site = "consult", m.change, "unavailable", NoHeld)
      BY <2>2, Zenon DEF FollowRefusal, AdmitAnswered, AdmitGivenUp, KeepQueues
    <3> QED BY <2>0, <3>1, <3>2, NoneTyped, <1>ReportKept, Zenon
  <2> QED BY <2>1, <2>2
\* Ending, marking, replicating and materialising a call.
<1>CallStepsKept.
    ASSUME WorkerTyped, BatchInv, NEW k \in Keys,
           End(k) \/ Mark(k) \/ Replicate(k) \/ Materialise(k)
    PROVE  BatchInv'
  <2> USE <1>CallStepsKept
  <2>1. /\ call[k] \in CallStates /\ copy[k] \in CallStates
        /\ Owing(call[k]) /\ Owing(copy[k])
    BY DEF WorkerTyped, CallsTyped, BatchInv
  <2>2. CASE End(k)
    <3> DEFINE c == [call[k] EXCEPT !.stage = "gone"]
    <3>1. Owing(c)
      BY <2>1 DEF CallStates, Owing, Counted
    <3>2. call' = [call EXCEPT ![k] = c] /\ UNCHANGED copy
      BY <2>2 DEF End
    <3>3. IF call[k].owed = TRUE THEN Release(k) ELSE UNCHANGED <<due, flight>>
      BY <2>1, <2>2 DEF End, KeepQueues, CallStates
    <3> HIDE DEF c
    <3>4. ~InBatch(k)' /\ \A j \in Keys : InBatch(j)' => InBatch(j)
      BY <3>3, <1>ReleaseForgets, Zenon DEF InBatch, BatchInv
    <3> QED BY <3>1, <3>2, <3>4 DEF BatchInv, WorkerTyped, CallsTyped
  <2>3. CASE Mark(k)
    <3> DEFINE d == Expired(due)
    <3>1. /\ call[k].stage = "active" /\ Counted(call[k])
          /\ UNCHANGED <<call, copy, flight>>
      BY <2>3 DEF Mark, Runs
    <3>2. call[k].owed = TRUE
      BY <2>1, <3>1 DEF Owing
    <3>3. \A j \in Keys : j # k => due'[j] = d[j] \/ due'[j] = NoEntry
      <4>1. d \in [Keys -> Entries]
        BY NoneTyped DEF WorkerTyped, BatchTyped, Expired
      <4>2. \/ \E e : due' = [d EXCEPT ![k] = e]
            \/ due' = d
            \/ \E q \in Keys : \E e : due' = [d EXCEPT ![q] = NoEntry, ![k] = e]
        BY <2>3 DEF Mark, Oldest, Waiting
      <4> HIDE DEF d
      <4> QED BY <4>1, <4>2
    <3>4. \A j \in Keys : j # k /\ InBatch(j)' => InBatch(j)
      BY <3>1, <3>3 DEF InBatch, Expired
    <3> QED BY <3>1, <3>2, <3>4 DEF BatchInv
  <2>4. CASE Replicate(k)
    <3>1. /\ copy' \in {[copy EXCEPT ![k] = call[k]], [copy EXCEPT ![k] = NoCall]}
          /\ UNCHANGED <<call, due, flight>>
      BY <2>4, Zenon DEF Replicate, KeepQueues
    <3>2. Owing(NoCall)
      BY DEF Owing, Counted, NoCall, Uncounted
    <3> QED BY <2>1, <3>1, <3>2, Zenon DEF BatchInv, InBatch, WorkerTyped, CallsTyped
  <2>5. CASE Materialise(k)
    <3> DEFINE c == EnterEpoch(copy[k])
    <3>1. Owing(c)
      BY <2>1 DEF EnterEpoch, Owing, Counted, CallStates
    <3>2. /\ call' = [call EXCEPT ![k] = c] /\ UNCHANGED <<copy, due, flight>>
          /\ ~InBatch(k)
      BY <2>5 DEF Materialise, KeepQueues, BatchInv
    <3> HIDE DEF c
    <3> QED BY <3>1, <3>2, <1>OneCallKept, Zenon
  <2> QED BY <2>2, <2>3, <2>4, <2>5
\* The senders move entries between what is due and what is in flight; time, the
\* breaker and the limiter add none.
<1>SendersKept.
    ASSUME WorkerTyped, BatchInv,
           TakeRefreshes \/ SendReleases \/ GiveUpExpired \/ Janitor \/ Restart \/ Tick \/ Breaker
    PROVE  BatchInv'
  <2> USE <1>SendersKept
  <2>1. UNCHANGED <<call, copy>>
    BY DEF TakeRefreshes, SendReleases, GiveUpExpired, Janitor, Restart, Tick, Breaker, workerVars
  <2>2. \A j \in Keys : InBatch(j)' => InBatch(j)
    <3>1. CASE TakeRefreshes
      BY <3>1, Zenon DEF TakeRefreshes, InBatch, Expired
    <3>2. CASE GiveUpExpired
      BY <3>2 DEF GiveUpExpired, InBatch, Expired
    <3>3. CASE Tick
      <4>1. [NoEntry EXCEPT !.left = Nearer(@)] = NoEntry
        BY DEF NoEntry, Nearer
      <4>2. \A j \in Keys : /\ due'[j] = [due[j] EXCEPT !.left = Nearer(@)]
                            /\ flight'[j] = [flight[j] EXCEPT !.left = Nearer(@)]
        BY <3>3 DEF Tick
      <4> QED BY <4>1, <4>2 DEF InBatch
    <3>4. CASE SendReleases \/ Janitor \/ Restart \/ Breaker
      BY <3>4 DEF SendReleases, Janitor, Restart, Breaker, KeepQueues, workerVars, InBatch
    <3> QED BY <3>1, <3>2, <3>3, <3>4
  <2> QED BY <2>1, <2>2 DEF BatchInv
\* A request served, answered, given up or lost.
<1>RequestsKept.
    ASSUME WorkerTyped, BatchInv, NEW m \in reqs,
           Answered(m) \/ GivenUp(m) \/ Land(m) \/ Vanish(m)
    PROVE  BatchInv'
  <2> USE <1>RequestsKept
  <2>1. /\ m.op = "admit" => m \in AdmitReqs
        /\ m.op = "refresh" => \E K \in SUBSET Keys : m \in RefreshReqs(K)
        /\ m.op \in {"admit", "refresh", "release"}
    BY OpTellsKind DEF WorkerTyped, ReqsTyped
  <2>2. ASSUME UNCHANGED <<call, copy, due, flight>> PROVE BatchInv'
    BY <2>2 DEF BatchInv, InBatch
  <2>3. CASE Land(m) \/ Vanish(m) \/ ReleaseAnswered(m) \/ ReleaseGivenUp(m)
    BY <2>2, <2>3, Zenon DEF Land, Vanish, ReleaseAnswered, ReleaseGivenUp, workerVars
  <2>4. CASE m.op = "admit" /\ (FollowRefusal(m) \/ AdmitAnswered(m) \/ AdmitGivenUp(m))
    BY <2>1, <2>4, <1>ReportsKept
  <2>5. CASE RefreshGivenUp(m)
    <3>1. UNCHANGED <<call, copy>> /\ due' = PutBack /\ flight' = [k \in Keys |-> NoEntry]
      BY <2>5 DEF RefreshGivenUp
    <3> QED BY <3>1, Zenon DEF BatchInv, InBatch, PutBack
  <2>6. ASSUME NEW K \in SUBSET Keys, m \in RefreshReqs(K), RefreshAnswered(m) PROVE BatchInv'
    <3> DEFINE handed(k) == /\ k \in DOMAIN m.carried /\ flight[k] # NoEntry
                            /\ ~(m.outcomes[k] = "extended" /\ m.states[k] = m.carried[k])
                            /\ call[k].stage = "active"
               after(k) == IF handed(k) THEN ApplyRefresh(call[k], m.outcomes[k], m.states[k])
                           ELSE call[k]
    <3>1. /\ call' = [k \in Keys |-> after(k)] /\ flight' = [k \in Keys |-> NoEntry]
          /\ UNCHANGED <<copy, due>>
      BY <2>6, Zenon DEF RefreshAnswered
    <3>2. ASSUME NEW k \in Keys
          PROVE  /\ Owing(after(k))
                 /\ after(k).stage = call[k].stage /\ after(k).owed = call[k].owed
      <4>1. call[k] \in CallStates /\ Owing(call[k])
        BY DEF WorkerTyped, CallsTyped, BatchInv
      <4>2. CASE handed(k)
        <5>1. m.states[k] \in HeldSets /\ call[k].owed = TRUE
          BY <2>6, <4>2 DEF RefreshReqs, BatchInv, InBatch
        <5>2. after(k) = call[k] \/ after(k) = ApplyHeld(call[k], m.states[k])
          BY <4>2, Zenon DEF ApplyRefresh
        <5> HIDE DEF after
        <5> QED BY <4>1, <5>1, <5>2, <1>OwingOps, Zenon
      <4>3. CASE ~handed(k)
        BY <4>1, <4>3, Zenon
      <4> QED BY <4>2, <4>3, Zenon
    <3> HIDE DEF after
    <3> QED BY <3>1, <3>2 DEF BatchInv, InBatch
  <2> QED BY <2>1, <2>3, <2>4, <2>5, <2>6, Zenon DEF Answered, GivenUp
\* A crash empties the batch.
<1>CrashKept. ASSUME WorkerTyped, BatchInv, Crash PROVE BatchInv'
  <2> USE <1>CrashKept
  <2> DEFINE after(k) == IF copy[k] # NoCall THEN [call[k] EXCEPT !.stage = "down"]
                         ELSE IF call[k].stage = "active" THEN [call[k] EXCEPT !.stage = "gone"]
                         ELSE call[k]
  <2>1. /\ call' = [k \in Keys |-> after(k)] /\ UNCHANGED copy
        /\ due' = [k \in Keys |-> NoEntry] /\ flight' = [k \in Keys |-> NoEntry]
    BY DEF Crash
  <2>2. \A k \in Keys : Owing(after(k))
    BY DEF BatchInv, Owing, Counted, WorkerTyped, CallsTyped, CallStates
  <2> HIDE DEF after
  <2> QED BY <2>1, <2>2, Zenon DEF BatchInv, InBatch
\* Every step, one action at a time.
<1>1. FlowInit => BatchInv
  BY DEF FlowInit, BatchInv, InBatch, Owing, Counted, NoCall, Uncounted
<1>2. ASSUME WorkerTyped, BatchInv, [FlowNext]_vars PROVE BatchInv'
  <2>1. ASSUME NEW k \in Keys, NEW entries \in Lists,
               Initial(k, entries) \/ Replace(k, entries) \/ Route(k, entries)
        PROVE  BatchInv'
    BY <1>2, <2>1, <1>TurnsKept, <1>ReportsKept
  <2>2. ASSUME NEW k \in Keys, DispatchConsult(k) \/ Resolve(k) \/ End(k)
        PROVE  BatchInv'
    <3>1. <<>> \in Lists
      BY StoreAssumption DEF StoreAssumption
    <3> QED BY <1>2, <2>2, <3>1, <1>TurnsKept, <1>ReportsKept, <1>CallStepsKept
  <2>3. ASSUME NEW k \in Keys, Mark(k) \/ Replicate(k) \/ Materialise(k) PROVE BatchInv'
    BY <1>2, <2>3, <1>CallStepsKept
  <2>4. ASSUME NEW m \in reqs, Answered(m) \/ GivenUp(m) \/ Land(m) \/ Vanish(m)
        PROVE  BatchInv'
    BY <1>2, <2>4, <1>RequestsKept
  <2>5. CASE UNCHANGED vars
    BY <1>2, <2>5, Zenon DEF vars, BatchInv, InBatch
  <2> QED BY <1>2, <2>1, <2>2, <2>3, <2>4, <2>5, <1>SendersKept, <1>CrashKept DEF FlowNext
<1> QED BY <1>1, <1>2

\* "An ended call is never refreshed after its release was queued"
\* (refresh_batch.rs): for any number of calls, no order of marks, sends,
\* answers, give-ups and late reports leaves an entry of an ended call.
THEOREM EndedNeverRefreshed == FlowSpec => []EndedNotRefreshed
<1>1. FlowInv => WorkerTyped
  BY DEF FlowInv, WorkerTyped
<1>2. BatchInv => EndedNotRefreshed
  BY DEF BatchInv, InBatch, EndedNotRefreshed
<1> QED BY <1>1, <1>2, FlowInvKept, BatchInvKept, PTL DEF FlowSpec

-----------------------------------------------------------------------------
(* Requests, and the calls they are about. *)

\* m concerns the set of k.
Concerns(m, k) ==
    \/ m.op = "admit" /\ m.key = k
    \/ m.op = "refresh" /\ k \in DOMAIN m.carried

\* The call k's initial admit, awaited on its turn.
Awaits(m, k) == m.op = "admit" /\ m.waited = TRUE /\ m.key = k /\ m.site = "initial"

\* r is m, or what is left of m once its task stopped or its connection is lost.
SameReq(r, m) ==
    /\ r.op = m.op
    /\ m.op = "admit" => /\ r.key = m.key /\ r.site = m.site /\ r.change = m.change
                         /\ r.held = m.held /\ r.states = m.states
    /\ m.op = "refresh" => r.carried = m.carried /\ r.states = m.states
    /\ r.phase = "out" => m.phase = "out"

\* What is left of a request concerns the same calls, under the same numbers.
LEMMA EditedSame ==
    ASSUME NEW m, ReqTyped(m)
    PROVE  /\ SameReq(m, m)
           /\ SameReq([m EXCEPT !.waited = FALSE], m)
           /\ SameReq([m EXCEPT !.phase = "dead"], m)
           /\ [m EXCEPT !.waited = FALSE].phase = m.phase
           /\ [m EXCEPT !.phase = "dead"].phase = "dead"
           /\ \A k : Awaits(m, k) => Awaits([m EXCEPT !.phase = "dead"], k)
<1>1. SameReq(m, m)
  BY DEF SameReq
<1>2. CASE m \in AdmitReqs
  BY <1>1, <1>2 DEF SameReq, AdmitReqs, Awaits
<1>3. ASSUME NEW K \in SUBSET Keys, m \in RefreshReqs(K)
      PROVE  /\ SameReq([m EXCEPT !.waited = FALSE], m)
             /\ SameReq([m EXCEPT !.phase = "dead"], m)
             /\ [m EXCEPT !.waited = FALSE].phase = m.phase
             /\ [m EXCEPT !.phase = "dead"].phase = "dead"
             /\ m.op # "admit"
  BY <1>3 DEF SameReq, RefreshReqs
<1>4. ASSUME NEW K, m \in ReleaseOf(K)
      PROVE  /\ SameReq([m EXCEPT !.waited = FALSE], m)
             /\ SameReq([m EXCEPT !.phase = "dead"], m)
             /\ [m EXCEPT !.waited = FALSE].phase = m.phase
             /\ [m EXCEPT !.phase = "dead"].phase = "dead"
             /\ m.op # "admit"
  BY <1>4 DEF SameReq, ReleaseOf
<1> QED BY <1>1, <1>2, <1>3, <1>4, Zenon DEF ReqTyped, Awaits

\* A task that stops leaves its request, and every other one, as they were.
LEMMA AbandonedSame ==
    ASSUME ReqsTyped, NEW m \in reqs
    PROVE  /\ \A r \in Abandoned(m) : \E q \in reqs : SameReq(r, q)
           /\ \A r \in reqs : r # m => r \in Abandoned(m)
BY EditedSame, Zenon DEF ReqsTyped, Abandoned

-----------------------------------------------------------------------------
(* What a report leaves of a call. *)

\* The call k keeps what it owes, and neither goes back in its numbers.
Onward(k) ==
    /\ call'[k].stage = call[k].stage
    /\ call[k].owed = TRUE => call'[k].owed = TRUE
    /\ call[k].change <= call'[k].change

\* Applying what the limiter states never takes back what a call owes, nor a number.
LEMMA AppliesOnward ==
    ASSUME NEW c \in CallStates, NEW held \in HeldSets
    PROVE  LET a == ApplyHeld(c, held)
           IN  a \in CallStates /\ a.stage = c.stage /\ a.owed = c.owed /\ c.change <= a.change
<1>1. ApplyHeld(c, held) \in CallStates
  BY CallOpsTyped
<1> QED BY <1>1 DEF ApplyHeld, CallStates, HeldSets, Larger

\* Nor does a report; one of an admit that left makes the call owe.
LEMMA ReportsOnward ==
    ASSUME NEW c \in CallStates, NEW n \in Nat, NEW outcome, NEW held \in HeldSets
    PROVE  LET a == ApplyAdmit(c, n, outcome, held)
           IN  /\ a \in CallStates /\ a.stage = c.stage /\ (c.owed = TRUE => a.owed = TRUE)
               /\ c.change <= a.change
               /\ outcome # "notsent" => a.owed = TRUE
<1> DEFINE sent == outcome # "notsent"
           x == [c EXCEPT !.owed = @ \/ sent, !.sent = @ \/ sent, !.change = Larger(@, n)]
           a == ApplyAdmit(c, n, outcome, held)
<1> SUFFICES /\ a \in CallStates /\ a.stage = c.stage /\ (c.owed = TRUE => a.owed = TRUE)
             /\ c.change <= a.change
             /\ sent => a.owed = TRUE
  OBVIOUS
<1>2. a \in CallStates
  BY ApplyAdmitTyped
<1>3. /\ x \in CallStates /\ x.stage = c.stage /\ (c.owed = TRUE => x.owed = TRUE)
      /\ (sent => x.owed = TRUE)
  BY Zenon DEF CallStates, Larger
<1>4. c.change <= x.change
  BY DEF CallStates, Larger
<1>5. a = IF outcome \in {"admitted", "rejected", "superseded"} THEN ApplyHeld(x, held)
          ELSE IF outcome = "released" THEN [x EXCEPT !.held = <<>>] ELSE x
  BY DEF ApplyAdmit
<1> HIDE DEF x, a
<1>6. [x EXCEPT !.held = <<>>].stage = x.stage /\ [x EXCEPT !.held = <<>>].owed = x.owed
      /\ [x EXCEPT !.held = <<>>].change = x.change
  BY <1>3 DEF CallStates
<1>7. ApplyHeld(x, held).stage = x.stage /\ ApplyHeld(x, held).owed = x.owed
      /\ x.change <= ApplyHeld(x, held).change
  BY <1>3, AppliesOnward
<1>8. a.stage = x.stage /\ a.owed = x.owed
  BY <1>5, <1>6, <1>7
<1>9. c.change <= a.change
  <2>1. c.change \in Nat /\ x.change \in Nat /\ a.change \in Nat
    BY <1>2, <1>3 DEF CallStates
  <2> QED BY <1>4, <1>5, <1>6, <1>7, <2>1
<1> QED BY <1>2, <1>3, <1>8, <1>9

\* A report keeps what its call owes, and of an admit that left makes it owe.
LEMMA ReportOwes ==
    ASSUME WorkerTyped, NEW k \in Keys, NEW fold \in BOOLEAN, NEW n \in Nat, NEW outcome,
           NEW held \in HeldSets, Report(k, fold, n, outcome, held)
    PROVE  /\ Onward(k) /\ \A j \in Keys \ {k} : call'[j] = call[j]
           /\ call[k].stage = "active" /\ outcome # "notsent" => call'[k].owed = TRUE
<1>1. call[k] \in CallStates /\ call \in [Keys -> CallStates] /\ call[k].change \in Nat
  BY DEF WorkerTyped, CallsTyped, CallStates
<1>2. CASE call[k].stage = "active"
  <2> DEFINE c == IF fold THEN CloseConsult(call[k]) ELSE call[k]
             a == ApplyAdmit(c, n, outcome, held)
  <2>1. call' = [call EXCEPT ![k] = a]
    BY <1>2 DEF Report
  <2>2. /\ a.stage = call[k].stage /\ (call[k].owed = TRUE => a.owed = TRUE)
        /\ call[k].change <= a.change
        /\ outcome # "notsent" => a.owed = TRUE
    <3>1. /\ c \in CallStates /\ c.stage = call[k].stage /\ c.owed = call[k].owed
          /\ c.change = call[k].change
      BY <1>1, CallOpsTyped DEF CloseConsult, CallStates
    <3> HIDE DEF c
    <3>2. /\ a \in CallStates /\ a.stage = c.stage /\ (c.owed = TRUE => a.owed = TRUE)
          /\ c.change <= a.change
          /\ outcome # "notsent" => a.owed = TRUE
      BY <3>1, ReportsOnward, Zenon
    <3> QED BY <3>1, <3>2, Zenon
  <2> HIDE DEF a
  <2> QED BY <1>1, <2>1, <2>2 DEF Onward
<1>3. CASE call[k].stage # "active"
  <2>1. UNCHANGED call
    BY <1>3 DEF Report
  <2> QED BY <1>1, <1>3, <2>1 DEF Onward
<1> QED BY <1>2, <1>3, Zenon

\* Materialising a call takes it past its first epoch.
LEMMA EpochPassed ==
    ASSUME NEW c \in CallStates
    PROVE  EnterEpoch(c).change >= Epoch /\ EnterEpoch(c).stage = c.stage
<1>1. c.change \in Nat /\ Epoch \in Nat \ {0}
  BY FlowAssumption DEF CallStates, FlowAssumption
<1>2. c.change \div Epoch \in Nat
  BY <1>1
<1>3. (c.change \div Epoch + 1) * Epoch >= Epoch
  <2> DEFINE d == c.change \div Epoch
  <2>1. d \in Nat
    BY <1>2
  <2> HIDE DEF d
  <2>2. d * Epoch \in Nat
    BY <1>1, <2>1
  <2>3. (d + 1) * Epoch = d * Epoch + Epoch
    BY <1>1, <2>1
  <2> QED BY <1>1, <2>2, <2>3 DEF d
<1> QED BY <1>3 DEF EnterEpoch, CallStates
=============================================================================
