------------------------ MODULE LimiterNewest_proofs ------------------------
(* Change numbers, second part: the senders, the limiter and the faults keep *)
(* the invariant, and what it says of the flow of requests.                  *)
EXTENDS LimiterNumbers_proofs

-----------------------------------------------------------------------------
(* The senders, and what becomes of the requests. *)

\* A refresh carries what the batch states.
LEMMA TakeNum == ASSUME FlowInv, NumInv, TakeRefreshes PROVE NumInv'
<1> DEFINE d == Expired(due)
           K == Waiting(d)
           m == RefreshReq([k \in K |-> d[k].held])
<1>1. /\ UNCHANGED <<store, call, copy, consult, budget>> /\ reqs' = reqs \cup {m} /\ flight' = d
      /\ due' = [k \in Keys |-> NoEntry]
  BY DEF TakeRefreshes
<1>2. /\ \A k \in Keys : d[k].held \in {due[k].held, NoHeld}
  BY DEF Expired, NoEntry
<1>3. \A k \in Keys : \A s : Says(m, k, s) => s \in {d[k].held, NoHeld}
  <2> HIDE DEF K, d
  <2> SUFFICES ASSUME NEW k \in Keys, NEW s, Says(m, k, s) PROVE s \in {d[k].held, NoHeld}
    OBVIOUS
  <2> QED BY RefreshSays
<1>4. \A k : ~AdmitOf(m, k)
  BY DEF AdmitOf, RefreshReq
<1> HIDE DEF m, d
<1> SUFFICES ASSUME NEW k \in Keys PROVE NumAt(k)' /\ EpochAt(k)'
  BY <1>1 DEF NumInv, CrashesLeft
<1>5. NumAt(k) /\ EpochAt(k) /\ Top(k) \in Nat /\ ConsultsTyped
  BY DEF NumInv, FlowInv, CallsTyped, CallStates, Top
<1>6. Top(k)' = Top(k)
  BY <1>1 DEF Top
<1>7. NothingNew(k)
  <2>1. /\ Known(HeldBy(call[k]), k) /\ Known(HeldBy(copy[k]), k) /\ Known(consult[k].held, k)
        /\ Known(due[k].held, k) /\ Known(NoHeld, k) /\ Known(NoEntry.held, k)
        /\ \A r \in reqs : \A s : Says(r, k, s) => Known(s, k)
    BY <1>5, <1>6, StatedKnown
  <2>2. Known(d[k].held, k)
    BY <1>2, <2>1
  <2>3. \A r \in reqs' : \A s : Says(r, k, s) => Known(s, k)
    BY <1>1, <1>3, <2>1, <2>2
  <2>4. due'[k] = NoEntry /\ flight'[k] = d[k]
    BY <1>1
  <2> QED BY <1>1, <2>1, <2>2, <2>3, <2>4 DEF NothingNew
<1>8. OneOut(k)' /\ \A n : Out(n, k)' => Out(n, k)
  BY <1>1, <1>4, <1>5 DEF NumAt, OneOut, Out, OutAdmit
<1>9. \A n : Kept(n, k)' <=> Kept(n, k)
  BY <1>1 DEF Kept
<1>10. ClaimsMove(k)
  BY <1>8, <1>9 DEF ClaimsMove
<1>11. WithinTop(k)
  BY <1>1, <1>4, <1>5, <1>6 DEF WithinTop, NumAt, BelowTop
<1>12. StoreKept(k)
  BY <1>1, StoreStill
<1>13. EpochAt(k)'
  BY <1>1, <1>5, EpochFrame DEF EpochStill
<1> QED BY <1>5, <1>7, <1>8, <1>10, <1>11, <1>12, <1>13, NumFrame

\* Steps that leave the calls, their copies and consults alone.
LEMMA CallsStillNum ==
    ASSUME FlowInv, NumInv, UNCHANGED <<call, copy, consult>>,
           budget' \in AllBudgets, budget'.crash = budget.crash,
           \A k \in Keys : /\ due'[k].held \in {due[k].held, flight[k].held, NoHeld}
                           /\ flight'[k].held \in {flight[k].held, NoHeld}
                           /\ ReqsQuiet(k) /\ StoreKept(k)
    PROVE  NumInv'
<1>1. \A k \in Keys : CallQuiet(k)
  BY StillQuiet DEF NumInv
<1>2. \A k \in Keys : Top(k)' \in Nat
  BY DEF Top, FlowInv, CallsTyped, CallStates
<1>3. \A k \in Keys : BatchQuiet(k)
  BY <1>2, BatchMoves
<1> QED BY <1>1, <1>3, AllQuiet

\* The release sender, the deadlines and the breaker.
LEMMA SendersNum ==
    ASSUME FlowInv, NumInv, SendReleases \/ GiveUpExpired \/ Breaker
    PROVE  NumInv'
<1>1. /\ UNCHANGED <<store, call, copy, consult, flight>>
      /\ UNCHANGED budget \/ Spend("trip")
      /\ due' = due \/ due' = Expired(due)
  BY DEF SendReleases, GiveUpExpired, Breaker, KeepQueues
<1>2. \A k \in Keys : due'[k].held \in {due[k].held, NoHeld}
  BY <1>1 DEF Expired, NoEntry
<1>3. budget' \in AllBudgets /\ budget'.crash = budget.crash
  BY <1>1, SpendKeeps DEF NumInv, CrashesLeft
<1>4. \E K : reqs' \subseteq reqs \cup {ReleaseReq(K)}
  BY Zenon DEF SendReleases, GiveUpExpired, Breaker
<1>5. \A K : \A k \in Keys : ~Concerns(ReleaseReq(K), k)
  BY DEF Concerns, ReleaseReq
<1>6. \A k \in Keys : ReqsQuiet(k) /\ StoreKept(k)
  BY <1>1, <1>4, <1>5, OtherQuiet, StoreStill DEF NumInv, NumAt
<1> QED BY <1>1, <1>2, <1>3, <1>6, CallsStillNum

\* A refresh or a release answered, given up or lost.
LEMMA SentNum ==
    ASSUME FlowInv, NumInv, NEW m \in reqs,
           \/ m.op = "release" /\ (ReleaseAnswered(m) \/ ReleaseGivenUp(m))
           \/ m.op = "refresh" /\ (RefreshAnswered(m) \/ RefreshGivenUp(m))
           \/ Vanish(m)
    PROVE  NumInv'
<1>1. /\ UNCHANGED <<store, copy, consult>> /\ (UNCHANGED budget \/ Spend("giveup"))
      /\ reqs' = reqs \ {m} \/ reqs' = Abandoned(m)
  BY DEF ReleaseAnswered, ReleaseGivenUp, RefreshAnswered, RefreshGivenUp, Vanish, workerVars, CountGiveUp
<1>2. ReqTyped(m) /\ ReqsTyped /\ \A k \in Keys : NumAt(k) /\ OneOut(k)
  BY DEF FlowInv, ReqsTyped, NumInv, NumAt
<1>3. budget' \in AllBudgets /\ budget'.crash = budget.crash
  BY <1>1, SpendKeeps DEF NumInv, CrashesLeft
<1>4. \A k \in Keys : ReqsQuiet(k) /\ StoreKept(k)
  BY <1>1, <1>2, FewerQuiet, AbandonedQuiet, StoreStill
<1>5. NoEntry.held = NoHeld
  BY DEF NoEntry
<1>6. CASE m.op = "refresh" /\ RefreshAnswered(m)
  <2>1. UNCHANGED due /\ flight' = [k \in Keys |-> NoEntry]
    BY <1>6 DEF RefreshAnswered
  <2>2. PICK K \in SUBSET Keys : m \in RefreshReqs(K)
    BY <1>2, <1>6, OpTellsKind
  <2>3. \A k \in Keys : /\ call'[k].stage = call[k].stage /\ Top(k)' = Top(k)
                        /\ Known(HeldBy(call'[k]), k)
    <3> SUFFICES ASSUME NEW k \in Keys
                 PROVE  /\ call'[k].stage = call[k].stage /\ Top(k)' = Top(k)
                        /\ Known(HeldBy(call'[k]), k)
      OBVIOUS
    <3>1. call[k] \in CallStates /\ Top(k) = call[k].change /\ Top(k) \in Nat
      BY DEF FlowInv, CallsTyped, CallStates, Top
    <3>2. \/ call'[k] = call[k]
          \/ k \in DOMAIN m.carried /\ call'[k] = ApplyRefresh(call[k], m.outcomes[k], m.states[k])
      BY <1>6 DEF RefreshAnswered
    <3>3. CASE call'[k] = call[k]
      BY <3>1, <3>3, StatedKnown DEF Top
    <3>4. CASE k \in DOMAIN m.carried /\ call'[k] = ApplyHeld(call[k], m.states[k])
      <4>1. m.states[k] \in HeldSets
        BY <2>2, <3>4 DEF RefreshReqs
      <4>2. Says(m, k, m.states[k])
        BY <1>6, <3>4 DEF Says
      <4>3. m.states[k].change <= call[k].change
        BY <1>2, <3>1, <4>2 DEF NumAt, BelowTop, Stated
      <4>4. /\ call'[k].change = call[k].change /\ HeldBy(call'[k]) \in {HeldBy(call[k]), m.states[k]}
            /\ call'[k].stage = call[k].stage
        BY <3>1, <3>4, <4>1, <4>3, ApplyHeldNum, AppliesOnward
      <4>5. Top(k)' = Top(k)
        BY <3>1, <4>4 DEF Top
      <4>6. Known(HeldBy(call[k]), k) /\ Known(m.states[k], k)
        BY <3>1, <4>2, <4>5, StatedKnown
      <4> QED BY <4>4, <4>5, <4>6
    <3> QED BY <3>2, <3>3, <3>4 DEF ApplyRefresh
  <2>4. \A k \in Keys : Top(k)' \in Nat
    BY <2>3 DEF Top, FlowInv, CallsTyped, CallStates
  <2>5. \A k \in Keys : CallQuiet(k)
    <3> SUFFICES ASSUME NEW k \in Keys PROVE CallQuiet(k)
      OBVIOUS
    <3>1. \A n : Kept(n, k)' => Kept(n, k)
      BY <1>1 DEF Kept
    <3>2. consult'[k].phase # "none" => consult'[k].first + Chain - 1 <= Top(k)
      BY <1>1, <1>2 DEF NumAt, BelowTop
    <3> QED BY <1>1, <2>3, <2>4, <3>1, <3>2, StatedKnown DEF CallQuiet
  <2>6. \A k \in Keys : BatchQuiet(k)
    BY <1>5, <2>1, <2>4, BatchMoves
  <2> QED BY <1>1, <1>3, <1>4, <2>3, <2>5, <2>6, AllQuiet
<1>7. CASE ~(m.op = "refresh" /\ RefreshAnswered(m))
  <2>1. /\ UNCHANGED call /\ (due' = due \/ due' = PutBack)
        /\ flight' = flight \/ flight' = [k \in Keys |-> NoEntry]
    BY <1>7 DEF ReleaseAnswered, ReleaseGivenUp, RefreshGivenUp, Vanish, workerVars
  <2>2. \A k \in Keys : /\ due'[k].held \in {due[k].held, flight[k].held, NoHeld}
                        /\ flight'[k].held \in {flight[k].held, NoHeld}
    BY <1>5, <2>1 DEF PutBack
  <2> QED BY <1>1, <1>3, <1>4, <2>1, <2>2, CallsStillNum
<1> QED BY <1>6, <1>7

\* The sweep, time and a restart.
LEMMA StoreStepsNum ==
    ASSUME FlowInv, NumInv, Janitor \/ Restart \/ Tick
    PROVE  NumInv'
<1>1. /\ UNCHANGED <<call, copy, consult>> /\ (UNCHANGED budget \/ Spend("restart"))
      /\ StoreOK(store) /\ ReqsTyped /\ \A k \in Keys : OneOut(k)
  BY DEF Janitor, Restart, Tick, workerVars, FlowInv, NumInv, NumAt
<1>2. budget' \in AllBudgets /\ budget'.crash = budget.crash
  BY <1>1, SpendKeeps DEF NumInv, CrashesLeft
<1>3. \A k \in Keys : ReqsQuiet(k)
  <2>1. CASE Restart
    BY <1>1, <2>1, RestartQuiet
  <2>2. CASE Janitor \/ Tick
    <3>1. UNCHANGED reqs
      BY <2>2 DEF Janitor, Tick
    <3> QED BY <1>1, <3>1, FewerQuiet
  <2> QED BY <2>1, <2>2
<1>4. \A k \in Keys : due'[k].held = due[k].held /\ flight'[k].held = flight[k].held
  <2>1. CASE Janitor \/ Restart
    BY <2>1 DEF Janitor, Restart, workerVars
  <2>2. CASE Tick
    <3>1. due \in [Keys -> Entries] /\ flight \in [Keys -> Entries]
      BY DEF FlowInv, BatchTyped
    <3>2. \A k \in Keys : /\ due'[k] = [due[k] EXCEPT !.left = Nearer(@)]
                          /\ flight'[k] = [flight[k] EXCEPT !.left = Nearer(@)]
      BY <2>2 DEF Tick
    <3>3. \A e \in Entries : [e EXCEPT !.left = Nearer(@)].held = e.held
      BY DEF Entries
    <3> QED BY <3>1, <3>2, <3>3, Zenon
  <2> QED BY <2>1, <2>2
<1>5. \A k \in Keys : StoreKept(k)
  <2> SUFFICES ASSUME NEW k \in Keys PROVE StoreKept(k)
    OBVIOUS
  <2>1. CASE Janitor
    <3>1. KeyKept(store, store', k)
      BY <1>1, <2>1, SweepKey DEF Janitor, StoreSweep
    <3> QED BY <3>1, KeptNumbers DEF KeyKept, StoreKept
  <2>2. CASE Restart
    <3>1. store'.calls[k] = NoSet /\ store'.fences[k] = NoFence /\ store'.markers[k] = NoMarker
      BY <2>2 DEF Restart, StoreRestart, EmptyStore
    <3> QED BY <3>1 DEF StoreKept, SetOf, NoSet, NoHeld, NoFence, NoMarker
  <2>3. CASE Tick
    BY <1>1, <2>3, AgedKey DEF Tick, StoreTick, StoreKept
  <2> QED BY <2>1, <2>2, <2>3
<1> QED BY <1>1, <1>2, <1>3, <1>4, <1>5, CallsStillNum

-----------------------------------------------------------------------------
(* Requests that land. *)

\* What an answer states of a key: its set, or no entries under a number the
\* store knows.
LEMMA HeldOfKey ==
    ASSUME NEW st, NEW k
    PROVE  \/ HeldOf(st, k) = SetOf(st, k)
           \/ /\ HeldOf(st, k).entries = <<>>
              /\ HeldOf(st, k).change \in {st.fences[k].change, st.markers[k].change}
BY DEF HeldOf, SetOf, KnownChange, HasSet

\* A request leaves for its answer, which states known sets only.
LEMMA LandsQuiet ==
    ASSUME FlowInv, NEW k \in Keys, NumAt(k), NEW m \in reqs, NEW b,
           reqs' \subseteq (reqs \ {m}) \cup {b}, b.phase # "out",
           \A s : Says(b, k, s) => Known(s, k),
           AdmitOf(b, k) => AdmitOf(m, k) /\ b.change = m.change,
           UNCHANGED workerVars, StoreKept(k)
    PROVE  NumAt(k)'
<1>1. Top(k) \in Nat /\ ConsultsTyped /\ UNCHANGED <<call, copy, consult, due, flight>>
  BY DEF FlowInv, CallsTyped, CallStates, Top, workerVars
<1>2. Top(k)' = Top(k)
  BY <1>1 DEF Top
<1>3. NothingNew(k)
  <2>1. /\ Known(HeldBy(call[k]), k) /\ Known(HeldBy(copy[k]), k) /\ Known(consult[k].held, k)
        /\ Known(due[k].held, k) /\ Known(flight[k].held, k)
        /\ \A r \in reqs : \A s : Says(r, k, s) => Known(s, k)
    BY <1>1, <1>2, StatedKnown
  <2>2. \A r \in reqs' : \A s : Says(r, k, s) => Known(s, k)
    BY <2>1
  <2> QED BY <1>1, <2>1, <2>2 DEF NothingNew
<1>4. OneOut(k)' /\ \A n : Out(n, k)' => Out(n, k)
  BY DEF NumAt, OneOut, Out, OutAdmit
<1>5. \A n : Kept(n, k)' <=> Kept(n, k)
  BY <1>1 DEF Kept
<1>6. ClaimsMove(k)
  BY <1>4, <1>5 DEF ClaimsMove
<1>7. WithinTop(k)
  <2>1. \A r \in reqs : AdmitOf(r, k) => r.change \in 0..Top(k)'
    BY <1>2 DEF NumAt, BelowTop
  <2>2. \A r \in reqs' : AdmitOf(r, k) => r.change \in 0..Top(k)'
    BY <2>1
  <2> QED BY <1>1, <1>2, <2>2 DEF WithinTop, NumAt, BelowTop
<1> QED BY <1>1, <1>3, <1>4, <1>6, <1>7, NumFrame

\* A request lands on a key the store keeps: the answer states what is held.
LEMMA KeptStates ==
    ASSUME FlowInv, NEW k \in Keys, NumAt(k), Top(k)' = Top(k), KeyKept(store, store', k)
    PROVE  StoreKept(k) /\ Known(HeldOf(store', k), k) /\ Known(NoHeld, k)
<1>1. Top(k) \in Nat
  BY DEF FlowInv, CallsTyped, CallStates, Top
<1>2. StoreKept(k)
  BY KeptNumbers, Zenon DEF KeyKept, StoreKept
<1>3. Known(SetOf(store, k), k) /\ Known(NoHeld, k)
  BY <1>1, StatedKnown
<1>4. Known(SetOf(store', k), k)
  BY <1>3 DEF KeyKept
<1>5. store'.fences[k].change \in 0..Top(k)' /\ store'.markers[k].change \in 0..Top(k)'
  BY <1>1, <1>2 DEF StoreKept, NumAt, BelowTop
<1>6. Known(HeldOf(store', k), k)
  <2>1. \/ HeldOf(store', k) = SetOf(store', k)
        \/ /\ HeldOf(store', k).entries = <<>>
           /\ HeldOf(store', k).change \in {store'.fences[k].change, store'.markers[k].change}
    BY HeldOfKey
  <2> QED BY <1>4, <1>5, <2>1 DEF Known
<1> QED BY <1>2, <1>3, <1>6

\* The numbers of k's fence and marker.
LEMMA StoreBounds ==
    ASSUME NEW k, NumAt(k), Top(k) \in Nat
    PROVE  /\ store.fences[k].change \in 0..Top(k) /\ store.markers[k].change \in 0..Top(k)
           /\ 0 \in 0..Top(k)
<1>1. store.fences[k].change \in 0..Top(k) /\ store.markers[k].change \in 0..Top(k)
  BY Zenon DEF NumAt, BelowTop
<1>2. 0 \in 0..Top(k)
  OBVIOUS
<1> QED BY <1>1, <1>2

\* A step of the limiter moves neither the call's numbers nor its consult's.
LEMMA WithinSame ==
    ASSUME FlowInv, NEW k \in Keys, NumAt(k), UNCHANGED <<call, consult>>,
           \A r \in reqs' : AdmitOf(r, k) => r.change \in 0..Top(k)'
    PROVE  WithinTop(k)
<1>1. Top(k)' = Top(k)
  BY Zenon DEF Top
<1>2. Top(k) \in Nat /\ (consult[k].phase # "none" => consult[k].first + Chain - 1 <= Top(k))
  BY ConsultBounds, Zenon
<1>3. Top(k)' \in Nat /\ Top(k) <= Top(k)'
  BY <1>1, <1>2
<1>4. consult'[k].phase # "none" => consult'[k].first + Chain - 1 <= Top(k)'
  BY <1>1, <1>2, Zenon
<1> QED BY <1>2, <1>3, <1>4, Zenon DEF WithinTop

\* An admit that lands under its own number n, on its own key.
LEMMA AdmitLands ==
    ASSUME FlowInv, NEW k \in Keys, NumAt(k), NEW m \in reqs, OutAdmit(m, k), NEW a, NEW b,
           Lands(store, a, k, m.change), store' = a.store, UNCHANGED workerVars,
           reqs' \subseteq (reqs \ {m}) \cup {b}, b.phase # "out", b.change = m.change,
           \A s : Says(b, k, s) => s \in {m.held, a.held}
    PROVE  NumAt(k)'
<1>1. Top(k) \in Nat /\ ConsultsTyped /\ UNCHANGED <<call, copy, consult, due, flight>>
  BY Zenon DEF FlowInv, CallsTyped, CallStates, Top, workerVars
<1>2. Top(k)' = Top(k)
  BY <1>1 DEF Top
<1>3. PICK n, e : n = m.change /\ e = a.store.calls[k].entries
  OBVIOUS
<1>4. Out(n, k) /\ n \in 0..Top(k)
  BY <1>3 DEF Out, OutAdmit, NumAt, BelowTop
<1>5. \A r \in reqs : AdmitOf(r, k) => r.change \in 0..Top(k)
  BY DEF NumAt, BelowTop
<1>6. /\ OneOut(k)' /\ ~Out(n, k)' /\ \A x : Out(x, k)' => Out(x, k)
  <2>1. OneOut(k)
    BY DEF NumAt
  <2>2. \A r \in reqs' : OutAdmit(r, k) => r \in reqs /\ r # m
    BY DEF OutAdmit
  <2>3. ~Out(n, k)'
    BY <1>3, <2>1, <2>2 DEF Out, OneOut
  <2>4. \A x : Out(x, k)' => Out(x, k)
    BY <2>2 DEF Out
  <2> QED BY <2>1, <2>2, <2>3, <2>4 DEF OneOut
<1>7. WithinTop(k)
  <2>1. \A r \in reqs' : AdmitOf(r, k) => r.change \in 0..Top(k)'
    BY <1>2, <1>3, <1>4, <1>5
  <2> QED BY <1>1, <2>1, WithinSame, Zenon
<1>8. /\ a.held = [change |-> n, entries |-> e]
      /\ e # <<>> => store'.calls[k].change = n
      /\ store'.calls[k].entries = e
      /\ store'.calls[k].change \in {store.calls[k].change, 0, n}
      /\ store'.fences[k].change \in {store.fences[k].change, 0, n}
      /\ \/ store'.markers[k].change \in {store.markers[k].change, 0}
         \/ store'.markers[k].change = n /\ e = <<>>
  BY <1>3, Zenon DEF Lands
<1>9. SetOf(store', k).change = store'.calls[k].change /\ SetOf(store', k).entries = e
  BY <1>8, Zenon DEF SetOf
<1>10. NewUnder(n, e, k)
  <2>1. /\ Known(HeldBy(call[k]), k) /\ Known(HeldBy(copy[k]), k) /\ Known(consult[k].held, k)
        /\ Known(due[k].held, k) /\ Known(flight[k].held, k)
        /\ \A r \in reqs : \A s : Says(r, k, s) => Known(s, k)
    BY <1>1, <1>2, StatedKnown, Zenon
  <2>2. Known(m.held, k)
    BY <2>1, Zenon DEF OutAdmit, AdmitOf, Says
  <2>3. a.held.change = n /\ a.held.entries = e
    <3>1. a.held = [change |-> n, entries |-> e]
      BY <1>8, Zenon
    <3> QED BY <3>1
  <2>4. Known(SetOf(store', k), k) \/ (SetOf(store', k).change = n /\ SetOf(store', k).entries = e)
    <3>1. CASE e # <<>>
      BY <1>8, <1>9, <3>1, Zenon
    <3>2. CASE e = <<>>
      <4>1. store.calls[k].change \in 0..Top(k)
        <5>1. SetOf(store, k).change = store.calls[k].change
          BY DEF SetOf
        <5> QED BY <5>1 DEF NumAt, BelowTop, Stated
      <4>2. store'.calls[k].change \in 0..Top(k)'
        <5>1. store'.calls[k].change \in {store.calls[k].change, 0, n}
          BY <1>8, Zenon
        <5>2. 0 \in 0..Top(k)
          BY <1>1
        <5> QED BY <1>2, <1>4, <4>1, <5>1, <5>2
      <4> QED BY <1>9, <3>2, <4>2 DEF Known
    <3> QED BY <3>1, <3>2
  <2>5. \A r \in reqs' : \A s : Says(r, k, s) => Known(s, k) \/ (s.change = n /\ s.entries = e)
    BY <2>1, <2>2, <2>3
  <2>6. \A s : Stated(s, k)' => \/ s = HeldBy(call[k]) \/ s = HeldBy(copy[k]) \/ s = consult[k].held
                               \/ s = due[k].held \/ s = flight[k].held \/ s = SetOf(store', k)
                               \/ \E r \in reqs' : Says(r, k, s)
    BY <1>1 DEF Stated, HeldBy, SetOf
  <2> QED BY <2>1, <2>4, <2>5, <2>6, Zenon DEF NewUnder
<1>11. Marked(n, k)' => e = <<>>
  <2>1. ~Marked(n, k)
    BY <1>4 DEF NumAt, OneClaim
  <2>2. ~(n > 0 /\ n = 0)
    BY <1>4
  <2>3. \/ store'.markers[k].change \in {store.markers[k].change, 0}
        \/ store'.markers[k].change = n /\ e = <<>>
    BY <1>8, Zenon
  <2> QED BY <2>1, <2>2, <2>3, Zenon DEF Marked
<1>12. store'.markers[k].change \in {store.markers[k].change, 0, n}
  BY <1>8, Zenon
<1> QED BY <1>1, <1>4, <1>6, <1>7, <1>8, <1>10, <1>11, <1>12, NumLands, Zenon

\* A set re-created by a refresh is the one carried, or takes the number of the
\* marker that goes with it.
LEMMA RefreshLands ==
    ASSUME FlowInv, NEW k \in Keys, NumAt(k), NEW m \in reqs, NEW b, NEW c, m.op # "admit",
           reqs' \subseteq (reqs \ {m}) \cup {b}, b.phase # "out", ~AdmitOf(b, k),
           UNCHANGED workerVars, Says(m, k, c), c \in HeldSets,
           SetOf(store', k) = [change |-> Larger(Sweep(store).markers[k].change, c.change),
                               entries |-> c.entries],
           store'.markers[k] = NoMarker, store'.fences[k] \in {store.fences[k], NoFence},
           \A s : Says(b, k, s) => s \in {c, HeldOf(store', k)}
    PROVE  NumAt(k)'
<1>1. Top(k) \in Nat /\ ConsultsTyped /\ UNCHANGED <<call, copy, consult, due, flight>>
      /\ StoreOK(store) /\ store \in Stores
  BY DEF FlowInv, CallsTyped, CallStates, Top, workerVars, StoreOK
<1>2. Top(k)' = Top(k)
  BY <1>1, Zenon DEF Top
<1>3. PICK n : n = Sweep(store).markers[k].change
  OBVIOUS
<1>4. n \in {store.markers[k].change, 0} /\ n \in 0..Top(k) /\ n \in Nat
  <2>1. KeyKept(store, Sweep(store), k)
    BY <1>1, SweepKey
  <2>2. n \in {store.markers[k].change, 0}
    BY <1>3, <2>1, KeptNumbers, Zenon
  <2>3. store.markers[k].change \in 0..Top(k) /\ 0 \in 0..Top(k)
    BY <1>1, StoreBounds, Zenon
  <2> QED BY <2>2, <2>3
<1>5. c.change \in Nat /\ c = [change |-> c.change, entries |-> c.entries]
  BY Zenon DEF HeldSets
<1>6. Known(c, k) /\ \A r \in reqs : \A s : Says(r, k, s) => Known(s, k)
  BY <1>1, <1>2, StatedKnown, Zenon
<1>7. /\ store'.fences[k].change \in {store.fences[k].change, 0}
      /\ store'.markers[k].change = 0
  <2>1. NoFence.change = 0 /\ NoMarker.change = 0
    BY DEF NoFence, NoMarker
  <2> QED BY <2>1, Zenon
<1>8. store'.fences[k].change \in 0..Top(k)' /\ store'.markers[k].change \in 0..Top(k)'
  <2>1. store.fences[k].change \in 0..Top(k) /\ 0 \in 0..Top(k)
    BY <1>1, StoreBounds, Zenon
  <2> QED BY <1>2, <1>7, <2>1, Zenon
<1>9. HeldOf(store', k) = SetOf(store', k) \/ Known(HeldOf(store', k), k)
  <2>1. \/ HeldOf(store', k) = SetOf(store', k)
        \/ /\ HeldOf(store', k).entries = <<>>
           /\ HeldOf(store', k).change \in {store'.fences[k].change, store'.markers[k].change}
    BY HeldOfKey
  <2> QED BY <1>8, <2>1 DEF Known
<1>10. CASE c.change >= n
  <2>1. SetOf(store', k) = c
    <3>1. Larger(n, c.change) = c.change
      BY <1>4, <1>5, <1>10 DEF Larger
    <3> QED BY <1>3, <1>5, <3>1, Zenon
  <2>2. StoreKept(k)
    BY <1>7, <2>1 DEF StoreKept
  <2>3. \A s : Says(b, k, s) => Known(s, k)
    BY <1>6, <1>9, <2>1
  <2> QED BY <2>2, <2>3, LandsQuiet
<1>11. CASE ~(c.change >= n)
  <2>1. SetOf(store', k).change = n /\ SetOf(store', k).entries = c.entries /\ n > 0
        /\ n = store.markers[k].change
    <3>1. Larger(n, c.change) = n /\ n > 0 /\ n = store.markers[k].change
      BY <1>4, <1>5, <1>11 DEF Larger
    <3>2. SetOf(store', k) = [change |-> n, entries |-> c.entries]
      BY <1>3, <3>1, Zenon
    <3> QED BY <3>1, <3>2
  <2>2. Marked(n, k)
    BY <2>1, Zenon DEF Marked
  <2>3. ~Out(n, k)
    BY <2>2, Zenon DEF NumAt, OneClaim
  <2>4. OneOut(k)' /\ \A x : Out(x, k)' => Out(x, k)
    BY DEF NumAt, OneOut, Out, OutAdmit
  <2>5. WithinTop(k)
    <3>1. \A r \in reqs : AdmitOf(r, k) => r.change \in 0..Top(k)'
      BY <1>2, Zenon DEF NumAt, BelowTop
    <3>2. \A r \in reqs' : AdmitOf(r, k) => r.change \in 0..Top(k)'
      BY <3>1, Zenon
    <3> QED BY <1>1, <3>2, WithinSame, Zenon
  <2>6. PICK e : e = c.entries
    BY Zenon
  <2>7. NewUnder(n, e, k)
    <3>1. /\ Known(HeldBy(call[k]), k) /\ Known(HeldBy(copy[k]), k) /\ Known(consult[k].held, k)
          /\ Known(due[k].held, k) /\ Known(flight[k].held, k)
      BY <1>1, <1>2, StatedKnown, Zenon
    <3>2. \A r \in reqs' : \A s : Says(r, k, s) => Known(s, k) \/ (s.change = n /\ s.entries = e)
      BY <1>6, <1>9, <2>1, <2>6
    <3>3. \A s : Stated(s, k)' => \/ s = HeldBy(call[k]) \/ s = HeldBy(copy[k]) \/ s = consult[k].held
                                 \/ s = due[k].held \/ s = flight[k].held \/ s = SetOf(store', k)
                                 \/ \E r \in reqs' : Says(r, k, s)
      BY <1>1, Zenon DEF Stated, HeldBy, SetOf
    <3> QED BY <2>1, <2>6, <3>1, <3>2, <3>3, Zenon DEF NewUnder
  <2>8. ~Marked(n, k)'
    BY <1>7, <2>1 DEF Marked
  <2>9. ~Out(n, k)'
    BY <2>3, <2>4
  <2>10. /\ store'.fences[k].change \in {store.fences[k].change, 0, n}
         /\ store'.markers[k].change \in {store.markers[k].change, 0, n}
    BY <1>7, Zenon
  <2> QED BY <1>1, <2>2, <2>4, <2>5, <2>7, <2>8, <2>9, <2>10, NumLands, Zenon
<1> QED BY <1>10, <1>11

\* A request that lands.
LEMMA LandNum == ASSUME FlowInv, NumInv, NEW m \in reqs, Land(m) PROVE NumInv'
<1>1. /\ ReqTyped(m) /\ StoreOK(store) /\ m.phase = "out" /\ UNCHANGED <<workerVars, budget>>
      /\ UNCHANGED <<call, copy>>
  BY DEF FlowInv, ReqsTyped, Land, workerVars
<1>2. \A k \in Keys : EpochAt(k)'
  BY <1>1, EpochFrame DEF EpochStill, NumInv
<1>3. CrashesLeft'
  BY <1>1 DEF NumInv, CrashesLeft
<1> SUFFICES ASSUME NEW k \in Keys PROVE NumAt(k)'
  BY <1>2, <1>3 DEF NumInv
<1>4. NumAt(k) /\ Top(k)' = Top(k)
  BY <1>1 DEF NumInv, Top
<1>5. CASE m \in AdmitReqs
  <2> DEFINE a == AdmitCarrying(store, m.key, m.change, m.held, m.entries, m.ror)
             b == [m EXCEPT !.phase = "answered", !.outcome = a.outcome, !.states = a.held]
  <2>1. store' = a.store /\ reqs' \subseteq (reqs \ {m}) \cup {b}
    BY <1>5, Zenon DEF Land, AdmitReqs, LandAdmit
  <2>2. /\ m.key \in Keys /\ m.change \in Nat /\ m.held \in HeldSets
        /\ m.entries \in Lists /\ m.ror \in BOOLEAN /\ m.op = "admit"
    BY <1>5 DEF AdmitReqs
  <2>3. /\ k # m.key => KeyKept(store, a.store, k)
        /\ \/ KeyKept(store, a.store, m.key) /\ a.held \in {NoHeld, HeldOf(a.store, m.key)}
           \/ Lands(store, a, m.key, m.change)
    BY <1>1, <2>2, AdmitKey
  <2> HIDE DEF a
  <2>4. /\ b.op = "admit" /\ b.key = m.key /\ b.phase = "answered" /\ b.change = m.change
        /\ b.held = m.held /\ b.states = a.held
    BY <1>5 DEF AdmitReqs
  <2> HIDE DEF b
  <2>5. /\ \A s : Says(b, k, s) => k = m.key /\ s \in {m.held, a.held}
        /\ AdmitOf(b, k) => AdmitOf(m, k) /\ b.change = m.change
        /\ b.phase # "out"
    BY <2>2, <2>4 DEF Says, AdmitOf
  <2>6. m.key = k => Says(m, k, m.held) /\ OutAdmit(m, k)
    BY <1>1, <2>2 DEF Says, OutAdmit, AdmitOf
  <2>7. CASE KeyKept(store, store', k) /\ (k = m.key => a.held \in {NoHeld, HeldOf(store', k)})
    <3>1. StoreKept(k) /\ Known(HeldOf(store', k), k) /\ Known(NoHeld, k)
      BY <1>4, <2>7, KeptStates
    <3>2. k = m.key => Known(m.held, k)
      BY <2>6 DEF Known, Stated
    <3>3. \A s : Says(b, k, s) => Known(s, k)
      BY <2>5, <2>7, <3>1, <3>2
    <3> QED BY <1>1, <1>4, <2>1, <2>5, <3>1, <3>3, LandsQuiet
  <2>8. CASE k = m.key /\ Lands(store, a, k, m.change)
    <3>1. \A s : Says(b, k, s) => s \in {m.held, a.held}
      BY <2>5
    <3> QED BY <1>1, <1>4, <2>1, <2>4, <2>5, <2>6, <2>8, <3>1, AdmitLands, Zenon
  <2> QED BY <2>1, <2>3, <2>7, <2>8
<1>6. ASSUME NEW K \in SUBSET Keys, m \in RefreshReqs(K) PROVE NumAt(k)'
  <2> DEFINE s == RefreshKeys(store, K, m.carried)
             outcomes == [j \in K |-> RefreshOutcome(store, j, m.carried[j])]
             states == [j \in K |-> HeldOf(s, j)]
             b == [m EXCEPT !.phase = "answered", !.outcomes = outcomes, !.states = states]
  <2>1. LandRefresh(m) /\ m.op = "refresh" /\ DOMAIN m.carried = K /\ m.carried \in [K -> HeldSets]
    BY <1>6, Zenon DEF Land, RefreshReqs
  <2>2. store' = s /\ reqs' \subseteq (reqs \ {m}) \cup {b}
    <3>1. store' = s /\ reqs' = (reqs \ {m}) \cup (IF m.waited THEN {b} ELSE {})
      BY <2>1, Zenon DEF LandRefresh
    <3> HIDE DEF b, s
    <3> QED BY <3>1
  <2>3. \/ KeyKept(store, s, k)
        \/ /\ k \in K
           /\ SetOf(s, k) = [change |-> Larger(Sweep(store).markers[k].change, m.carried[k].change),
                             entries |-> m.carried[k].entries]
           /\ s.markers[k] = NoMarker /\ s.fences[k] \in {store.fences[k], NoFence}
    BY <1>1, RefreshKey, Zenon
  <2>4. k \in K => states[k] = HeldOf(store', k)
    BY <2>2, Zenon
  <2> HIDE DEF s, outcomes, states
  <2>5. b.op = "refresh" /\ b.phase = "answered" /\ b.carried = m.carried /\ b.states = states
    BY <1>6 DEF RefreshReqs
  <2> HIDE DEF b
  <2>6. /\ \A x : Says(b, k, x) => k \in K /\ x \in {m.carried[k], HeldOf(store', k)}
        /\ ~AdmitOf(b, k) /\ b.phase # "out" /\ m.op # "admit"
    BY <2>1, <2>4, <2>5 DEF Says, AdmitOf
  <2>7. k \in K => Says(m, k, m.carried[k]) /\ m.carried[k] \in HeldSets
    BY <2>1 DEF Says
  <2>8. CASE KeyKept(store, store', k)
    <3>1. StoreKept(k) /\ Known(HeldOf(store', k), k)
      BY <1>4, <2>8, KeptStates
    <3>2. k \in K => Known(m.carried[k], k)
      BY <2>7 DEF Known, Stated
    <3>3. \A x : Says(b, k, x) => Known(x, k)
      BY <2>6, <3>1, <3>2
    <3> QED BY <1>1, <1>4, <2>2, <2>6, <3>1, <3>3, LandsQuiet
  <2>9. CASE ~KeyKept(store, store', k)
    <3>1. /\ k \in K
          /\ SetOf(store', k) = [change |-> Larger(Sweep(store).markers[k].change, m.carried[k].change),
                                 entries |-> m.carried[k].entries]
          /\ store'.markers[k] = NoMarker /\ store'.fences[k] \in {store.fences[k], NoFence}
      BY <2>2, <2>3, <2>9, Zenon
    <3>2. PICK c : c = m.carried[k]
      OBVIOUS
    <3>3. /\ Says(m, k, c) /\ c \in HeldSets
          /\ SetOf(store', k) = [change |-> Larger(Sweep(store).markers[k].change, c.change),
                                 entries |-> c.entries]
          /\ \A x : Says(b, k, x) => x \in {c, HeldOf(store', k)}
      BY <2>6, <2>7, <3>1, <3>2, Zenon
    <3> QED BY <1>1, <1>4, <2>2, <2>6, <3>1, <3>3, RefreshLands, Zenon
  <2> QED BY <2>8, <2>9
<1>7. ASSUME NEW K, m \in ReleaseOf(K) PROVE NumAt(k)'
  <2> DEFINE b == [m EXCEPT !.phase = "answered"]
  <2>1. LandRelease(m) /\ m.op = "release"
    BY <1>7 DEF Land, ReleaseOf
  <2>2. store' = ReleaseKeys(store, m.keys) /\ reqs' \subseteq (reqs \ {m}) \cup {b}
    BY <2>1 DEF LandRelease
  <2>3. b.op = "release" /\ b.phase = "answered"
    BY <1>7 DEF ReleaseOf
  <2> HIDE DEF b
  <2>4. (\A s : ~Says(b, k, s)) /\ ~AdmitOf(b, k) /\ b.phase # "out"
    BY <2>3 DEF Says, AdmitOf
  <2>5. StoreKept(k)
    <3>1. /\ SetOf(store', k) \in {SetOf(store, k), NoHeld}
          /\ store'.fences[k].change \in {store.fences[k].change, 0}
          /\ store'.markers[k] \in {store.markers[k], NoMarker}
      BY <1>1, <2>2, ReleaseKey
    <3> QED BY <3>1 DEF StoreKept, NoMarker
  <2> QED BY <1>1, <1>4, <2>2, <2>4, <2>5, LandsQuiet
<1> QED BY <1>1, <1>5, <1>6, <1>7 DEF ReqTyped

\* The steps of a request in flight.
LEMMA RequestsNum ==
    ASSUME FlowInv, NumInv, NEW m \in reqs, Answered(m) \/ GivenUp(m) \/ Land(m) \/ Vanish(m)
    PROVE  NumInv'
<1>1. ReqTyped(m)
  BY DEF FlowInv, ReqsTyped
<1>2. CASE Land(m)
  BY <1>2, LandNum
<1>3. CASE Vanish(m)
  BY <1>3, SentNum
<1>4. CASE Answered(m) \/ GivenUp(m)
  <2>1. CASE m.op = "admit"
    <3>1. FollowRefusal(m) \/ AdmitAnswered(m) \/ AdmitGivenUp(m)
      BY <1>4, <2>1 DEF Answered, GivenUp
    <3> QED BY <1>1, <2>1, <3>1, OpTellsKind, AnswersNum
  <2>2. CASE m.op = "refresh"
    <3>1. RefreshAnswered(m) \/ RefreshGivenUp(m)
      BY <1>4, <2>2 DEF Answered, GivenUp
    <3> QED BY <2>2, <3>1, SentNum
  <2>3. CASE m.op = "release"
    <3>1. ReleaseAnswered(m) \/ ReleaseGivenUp(m)
      BY <1>4, <2>3 DEF Answered, GivenUp
    <3> QED BY <2>3, <3>1, SentNum
  <2> QED BY <1>1, <2>1, <2>2, <2>3, OpTellsKind
<1> QED BY <1>2, <1>3, <1>4

\* The hypothesis of ADR-0040, decision 8: no call is materialised from a write
\* older than its holder's entering its epoch. The model crashes a worker whose
\* copies are of its own epoch when it crashes one at most.
OneTakeover == \A b \in Budgets : b.crash <= 1

\* No call has a number before the first step.
LEMMA InitNum == ASSUME OneTakeover, FlowInit PROVE NumInv
<1>1. CrashesLeft
  <2>1. budget \in AllBudgets /\ budget.crash <= 1
    BY FlowAssumption DEF FlowInit, OneTakeover, FlowAssumption
  <2> QED BY <2>1 DEF CrashesLeft, AllBudgets
<1> SUFFICES ASSUME NEW k \in Keys PROVE NumAt(k) /\ EpochAt(k)
  BY <1>1 DEF NumInv
<1>2. /\ call[k] = NoCall /\ copy[k] = NoCall /\ consult[k] = NoConsult /\ reqs = {}
      /\ due[k] = NoEntry /\ flight[k] = NoEntry
      /\ store.calls[k] = NoSet /\ store.fences[k] = NoFence /\ store.markers[k] = NoMarker
  BY DEF FlowInit, StoreInit, EmptyStore
<1>3. /\ NoCall.stage = "none" /\ NoCall.change = 0 /\ HeldBy(NoCall) = NoHeld
      /\ NoConsult.phase = "none" /\ NoConsult.held = NoHeld /\ NoEntry.held = NoHeld
      /\ NoFence.change = 0 /\ NoMarker.change = 0
  BY DEF NoCall, Uncounted, HeldBy, NoHeld, NoConsult, NoEntry, NoFence, NoMarker
<1>4. SetOf(store, k) = NoHeld
  BY <1>2 DEF SetOf, NoSet, NoHeld
<1>5. \A s : Stated(s, k) => s = NoHeld
  BY <1>2, <1>3, <1>4 DEF Stated
<1>6. Top(k) = 0 /\ NoHeld.change = 0 /\ NoHeld.entries = <<>>
  BY <1>2, <1>3 DEF Top, NoHeld
<1>7. BelowTop(k)
  <2>1. 0 \in 0..Top(k)
    BY <1>6
  <2> QED BY <1>2, <1>3, <1>5, <1>6, <2>1 DEF BelowTop
<1>8. OneSet(k) /\ OneOut(k)
  BY <1>2, <1>5, <1>6 DEF OneSet, OneOut
<1>9. OneClaim(k)
  <2>1. \A n : ~Out(n, k) /\ ~Kept(n, k)
    BY <1>2, <1>3 DEF Out, Kept
  <2>2. \A n : Unused(n, k)
    BY <1>5, <1>6 DEF Unused
  <2> QED BY <2>1, <2>2 DEF OneClaim
<1>10. EpochAt(k)
  BY <1>2, <1>3 DEF EpochAt
<1> QED BY <1>7, <1>8, <1>9, <1>10 DEF NumAt

\* Every step keeps a number one set's.
LEMMA NumInvKept == ASSUME FlowInv, NumInv, [FlowNext]_vars PROVE NumInv'
<1>1. ASSUME NEW k \in Keys, NEW entries \in Lists,
             Initial(k, entries) \/ Replace(k, entries) \/ Route(k, entries)
      PROVE  NumInv'
  BY <1>1, InitialNum, ReplaceNum, RouteNum
<1>2. ASSUME NEW k \in Keys, DispatchConsult(k) \/ Resolve(k) \/ End(k) PROVE NumInv'
  BY <1>2, ConsultNum, ResolveNum, EndMarkNum
<1>3. ASSUME NEW k \in Keys, Mark(k) \/ Replicate(k) \/ Materialise(k) PROVE NumInv'
  BY <1>3, EndMarkNum, ReplicateNum, MaterialiseNum
<1>4. CASE TakeRefreshes \/ SendReleases \/ GiveUpExpired \/ Breaker
  BY <1>4, TakeNum, SendersNum
<1>5. ASSUME NEW m \in reqs, Answered(m) \/ GivenUp(m) \/ Land(m) \/ Vanish(m) PROVE NumInv'
  BY <1>5, RequestsNum
<1>6. CASE Janitor \/ Restart \/ Tick
  BY <1>6, StoreStepsNum
<1>7. CASE Crash
  BY <1>7, CrashNum
<1>8. CASE UNCHANGED vars
  <2>1. /\ UNCHANGED <<call, copy, consult, due, flight, store, reqs, budget>>
        /\ budget' \in AllBudgets /\ budget'.crash = budget.crash
    BY <1>8 DEF vars, NumInv, CrashesLeft
  <2>2. \A k \in Keys : ReqsQuiet(k) /\ StoreKept(k)
    BY <2>1, FewerQuiet, StoreStill DEF NumInv, NumAt
  <2> QED BY <2>1, <2>2, CallsStillNum
<1> QED BY <1>1, <1>2, <1>3, <1>4, <1>5, <1>6, <1>7, <1>8 DEF FlowNext

\* The invariants of the flow hold together.
LEMMA NumSafe ==
    ASSUME OneTakeover
    PROVE  FlowSpec => [](FlowInv /\ NumInv)
<1>1. FlowInit => FlowInv /\ NumInv
  BY FlowInvKept, InitNum
<1>2. FlowInv /\ NumInv /\ [FlowNext]_vars => FlowInv' /\ NumInv'
  BY FlowInvKept, NumInvKept
<1> QED BY <1>1, <1>2, PTL DEF FlowSpec

\* "The next admit is numbered above it": the number a call gives its next
\* admit is above every number the limiter knows for its key and every number
\* of its admits in flight, its previous holder's included.
THEOREM NextIsNewer == OneTakeover => (FlowSpec => []NextAdmitIsNewer)
<1> SUFFICES ASSUME OneTakeover PROVE FlowSpec => []NextAdmitIsNewer
  OBVIOUS
<1>1. FlowInv /\ NumInv => NextAdmitIsNewer
  <2> SUFFICES ASSUME FlowInv, NumInv, NEW k \in Keys
               PROVE  /\ KnownChange(store, k) <= call[k].change
                      /\ \A m \in reqs : m.op = "admit" /\ m.key = k => m.change <= call[k].change
    BY DEF NextAdmitIsNewer
  <2>1. BelowTop(k) /\ Top(k) = call[k].change /\ Top(k) \in Nat
    BY DEF NumInv, NumAt, Top, FlowInv, CallsTyped, CallStates
  <2>2. \A m \in reqs : m.op = "admit" /\ m.key = k => m.change <= call[k].change
    BY <2>1 DEF BelowTop, AdmitOf
  <2>3. store.calls[k].change \in 0..Top(k)
    <3>1. SetOf(store, k).change = store.calls[k].change
      BY DEF SetOf
    <3> QED BY <2>1, <3>1 DEF BelowTop, Stated
  <2>4. KnownChange(store, k) \in 0..Top(k)
    BY <2>1, <2>3 DEF KnownChange, BelowTop
  <2> QED BY <2>1, <2>2, <2>4
<1> QED BY <1>1, NumSafe, PTL

\* A change number names one set: a call that holds a statement under the
\* number the limiter knows the key's set by holds that very set, however the
\* answers were lost, reordered or repeated.
THEOREM NumberNamesOneSet == OneTakeover => (FlowSpec => []SameNumberSameSet)
<1> SUFFICES ASSUME OneTakeover PROVE FlowSpec => []SameNumberSameSet
  OBVIOUS
<1>1. NumInv => SameNumberSameSet
  <2> SUFFICES ASSUME NumInv, NEW k \in Keys, Counted(call[k]), HasSet(store, k),
                      call[k].heldChange = store.calls[k].change
               PROVE  call[k].held = store.calls[k].entries
    BY DEF SameNumberSameSet
  <2>1. OneSet(k) /\ Stated(HeldBy(call[k]), k) /\ Stated(SetOf(store, k), k)
    BY Zenon DEF NumInv, NumAt, Stated
  <2>2. /\ HeldBy(call[k]).change = call[k].heldChange /\ HeldBy(call[k]).entries = call[k].held
        /\ SetOf(store, k).change = store.calls[k].change
        /\ SetOf(store, k).entries = store.calls[k].entries
    BY Zenon DEF HeldBy, SetOf
  <2> QED BY <2>1, <2>2 DEF OneSet, Counted, HasSet
<1> QED BY <1>1, NumSafe, PTL
=============================================================================
