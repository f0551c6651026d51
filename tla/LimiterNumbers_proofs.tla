----------------------- MODULE LimiterNumbers_proofs ------------------------
(* Change numbers, first part: the invariant that makes a number name one    *)
(* set, and the calls' own steps. A call numbers its admits upward; every    *)
(* number the system knows of is at or below its counter, and a number not   *)
(* used yet has one taker: an admit in flight, a consult's reserve or a      *)
(* store's marker. A successor starts above every number its predecessor can *)
(* have given out, because its copy is of the predecessor's epoch.           *)
EXTENDS LimiterFlow_proofs

-----------------------------------------------------------------------------
(* Change numbers. A number is given to one admit of the call, and whatever  *)
(* becomes of the admit, of its answer and of the store, a number that names *)
(* a set names no other one. The set is stated by the call, by its copy, by  *)
(* the consult under way, by the refresh batch, by the store and by requests *)
(* and their answers; a number not stated yet is claimed: by an admit that   *)
(* may still land, by the consult that will send under it, by a marker that  *)
(* a re-creation takes its number from.                                      *)

\* m states the set s for k.
Says(m, k, s) ==
    \/ m.op = "admit" /\ m.key = k /\ (s = m.held \/ s = m.states)
    \/ m.op = "refresh" /\ k \in DOMAIN m.carried /\ (s = m.carried[k] \/ s = m.states[k])

\* s is stated for k, somewhere.
Stated(s, k) ==
    \/ s = HeldBy(call[k]) \/ s = HeldBy(copy[k]) \/ s = consult[k].held
    \/ s = due[k].held \/ s = flight[k].held \/ s = SetOf(store, k)
    \/ \E m \in reqs : Says(m, k, s)

\* m is an admit of k; one that may still land.
AdmitOf(m, k) == m.op = "admit" /\ m.key = k
OutAdmit(m, k) == AdmitOf(m, k) /\ m.phase = "out"

\* The first number the consult c may still send under.
Upcoming(c) == IF c.phase = "admitting" THEN c.first + c.depth + 1 ELSE c.first + c.depth

\* The claims on n: an admit that may land, a consult's reserve, a marker.
Out(n, k) == \E m \in reqs : OutAdmit(m, k) /\ m.change = n
Kept(n, k) == /\ consult[k].phase # "none" /\ n \in Nat
              /\ Upcoming(consult[k]) <= n /\ n <= consult[k].first + Chain - 1
Marked(n, k) == n > 0 /\ n = store.markers[k].change

\* The last number the call gave out.
Top(k) == call[k].change

\* No number known of k is above the call's counter.
BelowTop(k) ==
    /\ \A s : Stated(s, k) => s.change \in 0..Top(k)
    /\ store.fences[k].change \in 0..Top(k) /\ store.markers[k].change \in 0..Top(k)
    /\ \A m \in reqs : AdmitOf(m, k) => m.change \in 0..Top(k)
    /\ consult[k].phase # "none" => consult[k].first + Chain - 1 <= Top(k)

\* A number names one set.
OneSet(k) ==
    \A s, t : Stated(s, k) /\ Stated(t, k) /\ s.entries # <<>> /\ t.entries # <<>>
              /\ s.change = t.change => s.entries = t.entries

\* No set is named n.
Unused(n, k) == \A s : Stated(s, k) /\ s.entries # <<>> => s.change # n

\* Two admits that may land have two numbers.
OneOut(k) ==
    \A m, r \in reqs : OutAdmit(m, k) /\ OutAdmit(r, k) /\ m.change = r.change => m = r

\* A claimed number names no set yet, and is claimed once.
OneClaim(k) ==
    \A n : /\ Out(n, k) \/ Kept(n, k) \/ Marked(n, k) => Unused(n, k)
           /\ ~(Out(n, k) /\ Kept(n, k)) /\ ~(Out(n, k) /\ Marked(n, k))
           /\ ~(Kept(n, k) /\ Marked(n, k))

\* The numbers of k.
NumAt(k) == BelowTop(k) /\ OneSet(k) /\ OneClaim(k) /\ OneOut(k)

-----------------------------------------------------------------------------
(* Steps that put no new set under a number. *)

\* s was stated before the step, or states no entries.
Known(s, k) == Stated(s, k) \/ (s.entries = <<>> /\ s.change \in 0..Top(k)')

\* Everything stated after the step is known.
NothingNew(k) ==
    /\ Known(HeldBy(call'[k]), k) /\ Known(HeldBy(copy'[k]), k) /\ Known(consult'[k].held, k)
    /\ Known(due'[k].held, k) /\ Known(flight'[k].held, k)
    /\ \A r \in reqs' : \A s : Says(r, k, s) => Known(s, k)

\* The claims after the step were claims, or are of new numbers; a consult's
\* admit takes its number from the consult's reserve.
ClaimsMove(k) ==
    \A n : /\ Kept(n, k)' => Kept(n, k) \/ n > Top(k)
           /\ Out(n, k)' => Out(n, k) \/ ((n > Top(k) \/ Kept(n, k)) /\ ~Kept(n, k)')

\* The numbers of k in the store stay or go, and so does its set, unless it is
\* one a request carries.
StoreKept(k) ==
    /\ \/ SetOf(store', k) \in {SetOf(store, k), NoHeld}
       \/ \E m \in reqs : Says(m, k, SetOf(store', k))
    /\ store'.fences[k].change \in {store.fences[k].change, 0}
    /\ store'.markers[k].change \in {store.markers[k].change, 0}

\* The counter only grows, and stays above what the call gives out.
WithinTop(k) ==
    /\ Top(k) \in Nat /\ Top(k)' \in Nat /\ Top(k) <= Top(k)'
    /\ \A m \in reqs' : AdmitOf(m, k) => m.change \in 0..Top(k)'
    /\ consult'[k].phase # "none" => consult'[k].first + Chain - 1 <= Top(k)'

\* Such a step keeps every number one set's.
LEMMA NumFrame ==
    ASSUME NEW k \in Keys, NumAt(k), NothingNew(k), ClaimsMove(k), StoreKept(k), WithinTop(k),
           OneOut(k)', ConsultsTyped
    PROVE  NumAt(k)'
<1>1. \A s : Stated(s, k)' => Known(s, k)
  <2>1. Known(SetOf(store', k), k)
    <3>1. Stated(SetOf(store, k), k) /\ NoHeld.entries = <<>> /\ NoHeld.change = 0
      BY DEF Stated, NoHeld
    <3>2. 0 \in 0..Top(k)'
      BY DEF WithinTop
    <3>3. Known(SetOf(store, k), k) /\ Known(NoHeld, k)
      BY <3>1, <3>2 DEF Known
    <3>4. (\E m \in reqs : Says(m, k, SetOf(store', k))) => Known(SetOf(store', k), k)
      BY DEF Known, Stated
    <3> QED BY <3>3, <3>4 DEF StoreKept
  <2>2. \A s : Stated(s, k)' => \/ s = HeldBy(call'[k]) \/ s = HeldBy(copy'[k]) \/ s = consult'[k].held
                               \/ s = due'[k].held \/ s = flight'[k].held \/ s = SetOf(store', k)
                               \/ \E m \in reqs' : Says(m, k, s)
    BY DEF Stated, HeldBy, SetOf
  <2> QED BY <2>1, <2>2 DEF NothingNew
<1>2. \A s : Stated(s, k)' /\ s.entries # <<>> => Stated(s, k)
  BY <1>1 DEF Known
<1>3. \A n : Marked(n, k)' => Marked(n, k)
  BY DEF Marked, StoreKept, WithinTop, NumAt, BelowTop
<1>4. /\ \A s : Stated(s, k) => s.change \in 0..Top(k)
      /\ \A n : Out(n, k) \/ Kept(n, k) \/ Marked(n, k) => ~(n > Top(k))
  <2>1. \A n : Out(n, k) => ~(n > Top(k))
    BY DEF Out, OutAdmit, NumAt, BelowTop, WithinTop
  <2>2. \A n : Kept(n, k) => ~(n > Top(k))
    <3>1. consult[k].first \in Nat /\ Chain \in Nat
      BY FlowAssumption DEF ConsultsTyped, ConsultStates, FlowAssumption
    <3> QED BY <3>1 DEF Kept, NumAt, BelowTop, WithinTop
  <2>3. \A n : Marked(n, k) => ~(n > Top(k))
    BY DEF Marked, NumAt, BelowTop, WithinTop
  <2> QED BY <2>1, <2>2, <2>3 DEF NumAt, BelowTop
<1>5. BelowTop(k)'
  <2>1. \A s : Stated(s, k)' => s.change \in 0..Top(k)'
    BY <1>1, <1>4 DEF Known, WithinTop
  <2>2. store'.fences[k].change \in 0..Top(k)' /\ store'.markers[k].change \in 0..Top(k)'
    BY DEF StoreKept, WithinTop, NumAt, BelowTop
  <2> QED BY <2>1, <2>2 DEF BelowTop, WithinTop
<1>6. OneSet(k)'
  <2>1. OneSet(k)
    BY DEF NumAt
  <2> QED BY <1>2, <2>1 DEF OneSet
<1>7. OneClaim(k)'
  <2> SUFFICES ASSUME NEW n
               PROVE  /\ Out(n, k)' \/ Kept(n, k)' \/ Marked(n, k)' => Unused(n, k)'
                      /\ ~(Out(n, k)' /\ Kept(n, k)') /\ ~(Out(n, k)' /\ Marked(n, k)')
                      /\ ~(Kept(n, k)' /\ Marked(n, k)')
    BY DEF OneClaim
  <2>1. /\ Out(n, k) \/ Kept(n, k) \/ Marked(n, k) => Unused(n, k)
        /\ ~(Out(n, k) /\ Kept(n, k)) /\ ~(Out(n, k) /\ Marked(n, k))
        /\ ~(Kept(n, k) /\ Marked(n, k))
    BY DEF NumAt, OneClaim
  <2>2. /\ Kept(n, k)' => Kept(n, k) \/ n > Top(k)
        /\ Out(n, k)' => Out(n, k) \/ ((n > Top(k) \/ Kept(n, k)) /\ ~Kept(n, k)')
    BY DEF ClaimsMove
  <2>3. Unused(n, k) => Unused(n, k)'
    BY <1>2 DEF Unused
  <2>4. n > Top(k) => Unused(n, k)'
    <3> SUFFICES ASSUME n > Top(k), NEW s, Stated(s, k)', s.entries # <<>>, s.change = n PROVE FALSE
      BY DEF Unused
    <3>1. s.change \in 0..Top(k) /\ Top(k) \in Nat
      BY <1>2, <1>4 DEF WithinTop
    <3> QED BY <3>1
  <2> QED BY <1>3, <1>4, <2>1, <2>2, <2>3, <2>4
<1> QED BY <1>5, <1>6, <1>7 DEF NumAt

-----------------------------------------------------------------------------
(* Steps that put a set under a number claimed for it. *)

\* The step puts a set of the entries e under n: what it states besides was
\* stated before, or states no entries.
NewUnder(n, e, k) ==
    \A s : Stated(s, k)' => Known(s, k) \/ (s.change = n /\ s.entries = e)

\* An admit that lands takes its own number, a re-creation its marker's.
LEMMA NumLands ==
    ASSUME NEW k \in Keys, NumAt(k), NEW n, NEW e, Out(n, k) \/ Marked(n, k), ~Out(n, k)',
           NewUnder(n, e, k), WithinTop(k), OneOut(k)', ConsultsTyped,
           UNCHANGED <<call, consult>>,
           \A x : Out(x, k)' => Out(x, k),
           store'.fences[k].change \in {store.fences[k].change, 0, n},
           store'.markers[k].change \in {store.markers[k].change, 0, n},
           Marked(n, k)' => e = <<>>
    PROVE  NumAt(k)'
<1>1. /\ Top(k)' = Top(k) /\ Top(k) \in Nat
      /\ \A x : Kept(x, k)' <=> Kept(x, k)
  BY DEF Top, Kept, WithinTop
<1>2. n \in 0..Top(k) /\ Unused(n, k) /\ ~Kept(n, k)
  BY DEF NumAt, OneClaim, BelowTop, Out, OutAdmit, Marked
<1>3. \A s : Stated(s, k)' /\ s.entries # <<>> => Stated(s, k) \/ (s.change = n /\ s.entries = e)
  BY DEF NewUnder, Known
<1>4. \A s : Stated(s, k) /\ s.entries # <<>> => s.change # n
  BY <1>2 DEF Unused
<1>5. \A x : Marked(x, k)' => Marked(x, k) \/ x = n
  BY <1>1 DEF Marked, NumAt, BelowTop
<1>6. BelowTop(k)'
  <2>1. \A s : Stated(s, k)' => s.change \in 0..Top(k)'
    BY <1>1, <1>2 DEF NewUnder, Known, NumAt, BelowTop
  <2>2. store'.fences[k].change \in 0..Top(k)' /\ store'.markers[k].change \in 0..Top(k)'
    <3>1. /\ store.fences[k].change \in 0..Top(k) /\ store.markers[k].change \in 0..Top(k)
          /\ 0 \in 0..Top(k)
      BY <1>1 DEF NumAt, BelowTop
    <3> QED BY <1>1, <1>2, <3>1
  <2> QED BY <2>1, <2>2 DEF BelowTop, WithinTop
<1>7. OneSet(k)'
  <2>1. OneSet(k)
    BY DEF NumAt
  <2> QED BY <1>3, <1>4, <2>1 DEF OneSet
<1>8. OneClaim(k)'
  <2> SUFFICES ASSUME NEW x
               PROVE  /\ Out(x, k)' \/ Kept(x, k)' \/ Marked(x, k)' => Unused(x, k)'
                      /\ ~(Out(x, k)' /\ Kept(x, k)') /\ ~(Out(x, k)' /\ Marked(x, k)')
                      /\ ~(Kept(x, k)' /\ Marked(x, k)')
    BY DEF OneClaim
  <2>1. /\ Out(x, k) \/ Kept(x, k) \/ Marked(x, k) => Unused(x, k)
        /\ ~(Out(x, k) /\ Kept(x, k)) /\ ~(Out(x, k) /\ Marked(x, k))
        /\ ~(Kept(x, k) /\ Marked(x, k))
    BY DEF NumAt, OneClaim
  <2>2. Unused(x, k) /\ (x = n => e = <<>>) => Unused(x, k)'
    BY <1>3 DEF Unused
  <2> QED BY <1>1, <1>2, <1>5, <2>1, <2>2
<1> QED BY <1>6, <1>7, <1>8 DEF NumAt

-----------------------------------------------------------------------------
(* What requests state. *)

\* A request states sets, and claims numbers, of the keys it concerns alone.
LEMMA SaysConcerns ==
    ASSUME NEW m, NEW k
    PROVE  (\A s : Says(m, k, s) => Concerns(m, k)) /\ (AdmitOf(m, k) => Concerns(m, k))
BY DEF Says, AdmitOf, Concerns

\* What a refresh states as it leaves.
LEMMA RefreshSays ==
    ASSUME NEW carried, NEW k, NEW s, Says(RefreshReq(carried), k, s)
    PROVE  k \in DOMAIN carried /\ s \in {carried[k], NoHeld}
BY DEF Says, RefreshReq

\* What is left of a request states what it stated.
LEMMA SameSays ==
    ASSUME NEW r, NEW m, SameReq(r, m), NEW k
    PROVE  /\ \A s : Says(r, k, s) => Says(m, k, s)
           /\ AdmitOf(r, k) => AdmitOf(m, k) /\ m.change = r.change
           /\ OutAdmit(r, k) => OutAdmit(m, k)
BY DEF SameReq, Says, AdmitOf, OutAdmit

\* The requests after a step state and claim nothing of k they did not before.
ReqsQuiet(k) ==
    /\ \A r \in reqs' : \A s : Says(r, k, s) => \E m \in reqs : Says(m, k, s)
    /\ \A r \in reqs' : AdmitOf(r, k) => \E m \in reqs : AdmitOf(m, k) /\ m.change = r.change
    /\ \A n : Out(n, k)' => Out(n, k)
    /\ OneOut(k)'

\* Requests go, or one comes that does not concern k.
LEMMA FewerQuiet ==
    ASSUME NEW k, OneOut(k), reqs' \subseteq reqs
    PROVE  ReqsQuiet(k)
BY DEF ReqsQuiet, Out, OneOut

\* A request of other calls states nothing of k.
LEMMA OtherQuiet ==
    ASSUME NEW k, OneOut(k), NEW b, reqs' \subseteq reqs \cup {b}, ~Concerns(b, k)
    PROVE  ReqsQuiet(k)
BY SaysConcerns DEF ReqsQuiet, Out, OneOut, OutAdmit

\* Requests are left without a task, without a connection, or not at all.
LEMMA LeftQuiet ==
    ASSUME NEW k, OneOut(k)', \A r \in reqs' : \E m \in reqs : SameReq(r, m)
    PROVE  ReqsQuiet(k)
<1>1. \A r \in reqs' : \A s : Says(r, k, s) => \E m \in reqs : Says(m, k, s)
  BY SameSays
<1>2. \A r \in reqs' : AdmitOf(r, k) => \E m \in reqs : AdmitOf(m, k) /\ m.change = r.change
  BY SameSays
<1>3. \A r \in reqs' : OutAdmit(r, k) => \E m \in reqs : OutAdmit(m, k) /\ m.change = r.change
  BY SameSays DEF OutAdmit
<1>4. \A n : Out(n, k)' => Out(n, k)
  BY <1>3 DEF Out
<1> QED BY <1>1, <1>2, <1>4 DEF ReqsQuiet

\* Giving up on a request states nothing new.
LEMMA AbandonedQuiet ==
    ASSUME ReqsTyped, NEW k, OneOut(k), NEW m \in reqs, reqs' = Abandoned(m)
    PROVE  ReqsQuiet(k)
<1> DEFINE e == [m EXCEPT !.waited = FALSE]
<1>1. SameReq(e, m)
  BY EditedSame, Zenon DEF ReqsTyped
<1>2. \A r \in reqs' : (r \in reqs /\ r # m) \/ r = e
  BY DEF Abandoned
<1> HIDE DEF e
<1>3. OneOut(k)'
  <2> SUFFICES ASSUME NEW p \in reqs', NEW r \in reqs', OutAdmit(p, k), OutAdmit(r, k),
                      p.change = r.change
               PROVE  p = r
    BY DEF OneOut
  <2>1. OutAdmit(e, k) => OutAdmit(m, k) /\ m.change = e.change
    BY <1>1, SameSays DEF OutAdmit
  <2> QED BY <1>2, <2>1 DEF OneOut
<1>4. \A r \in reqs' : \E q \in reqs : SameReq(r, q)
  BY AbandonedSame
<1> QED BY <1>3, <1>4, LeftQuiet

\* Nor does a crash, of the requests it leaves behind.
LEMMA CrashQuiet ==
    ASSUME ReqsTyped, NEW k, OneOut(k), Crash
    PROVE  ReqsQuiet(k)
<1>1. \A r \in reqs' : \E m \in reqs : r = [m EXCEPT !.waited = FALSE] /\ SameReq(r, m)
  BY EditedSame, Zenon DEF ReqsTyped, Crash
<1>2. OneOut(k)'
  <2> SUFFICES ASSUME NEW p \in reqs', NEW r \in reqs', OutAdmit(p, k), OutAdmit(r, k),
                      p.change = r.change
               PROVE  p = r
    BY DEF OneOut
  <2>1. PICK a \in reqs : p = [a EXCEPT !.waited = FALSE] /\ SameReq(p, a)
    BY <1>1
  <2>2. PICK b \in reqs : r = [b EXCEPT !.waited = FALSE] /\ SameReq(r, b)
    BY <1>1
  <2>3. OutAdmit(a, k) /\ a.change = p.change /\ OutAdmit(b, k) /\ b.change = r.change
    BY <2>1, <2>2, SameSays DEF OutAdmit
  <2>4. a = b
    BY <2>3 DEF OneOut
  <2> QED BY <2>1, <2>2, <2>4
<1> QED BY <1>1, <1>2, LeftQuiet

\* Nor does a restart, of the requests it cuts.
LEMMA RestartQuiet ==
    ASSUME ReqsTyped, NEW k, Restart
    PROVE  ReqsQuiet(k)
<1>1. \A m \in reqs : SameReq(m, m) /\ SameReq([m EXCEPT !.phase = "dead"], m)
                      /\ [m EXCEPT !.phase = "dead"].phase = "dead"
  BY EditedSame DEF ReqsTyped
<1>2. \A r \in reqs' : \E m \in reqs : (r = m /\ m.phase # "out") \/ r = [m EXCEPT !.phase = "dead"]
  BY Zenon DEF Restart
<1>3. \A r \in reqs' : r.phase # "out"
  BY <1>1, <1>2, Zenon
<1>4. OneOut(k)'
  BY <1>3 DEF OneOut, OutAdmit
<1>5. \A r \in reqs' : \E m \in reqs : SameReq(r, m)
  BY <1>1, <1>2, Zenon
<1> QED BY <1>4, <1>5, LeftQuiet

-----------------------------------------------------------------------------
(* Quiet steps. *)

\* What was stated is known, and so is the empty set.
LEMMA StatedKnown ==
    ASSUME NEW k, Top(k)' \in Nat
    PROVE  /\ Known(HeldBy(call[k]), k) /\ Known(HeldBy(copy[k]), k) /\ Known(consult[k].held, k)
           /\ Known(due[k].held, k) /\ Known(flight[k].held, k) /\ Known(SetOf(store, k), k)
           /\ \A m \in reqs : \A s : Says(m, k, s) => Known(s, k)
           /\ Known(NoHeld, k) /\ Known(NoEntry.held, k) /\ Known(NoConsult.held, k)
<1>1. /\ Known(HeldBy(call[k]), k) /\ Known(HeldBy(copy[k]), k) /\ Known(consult[k].held, k)
      /\ Known(due[k].held, k) /\ Known(flight[k].held, k) /\ Known(SetOf(store, k), k)
      /\ \A m \in reqs : \A s : Says(m, k, s) => Known(s, k)
  BY DEF Known, Stated
<1>2. Known(NoHeld, k)
  BY DEF Known, NoHeld
<1>3. NoEntry.held = NoHeld /\ NoConsult.held = NoHeld
  BY DEF NoEntry, NoConsult
<1> QED BY <1>1, <1>2, <1>3

\* A call's consult, with the numbers it keeps in reserve.
LEMMA ConsultBounds ==
    ASSUME FlowInv, NEW k \in Keys, NumAt(k)
    PROVE  /\ consult[k] \in ConsultStates /\ Chain \in Nat /\ Top(k) \in Nat
           /\ consult[k].first \in Nat /\ consult[k].depth \in Nat
           /\ consult[k].depth <= Chain - 1 /\ consult[k].held \in HeldSets
           /\ consult[k].phase # "none" => consult[k].first + Chain - 1 <= Top(k)
<1>1. consult[k] \in ConsultStates /\ call[k] \in CallStates
  BY Zenon DEF FlowInv, ConsultsTyped, CallsTyped
<1>2. Chain \in Nat
  BY FlowAssumption DEF FlowAssumption
<1>3. Top(k) \in Nat
  BY <1>1 DEF Top, CallStates
<1>4. /\ consult[k].first \in Nat /\ consult[k].depth \in Nat
      /\ consult[k].depth <= Chain - 1 /\ consult[k].held \in HeldSets
  BY <1>1, <1>2 DEF ConsultStates
<1>5. consult[k].phase # "none" => consult[k].first + Chain - 1 <= Top(k)
  BY Zenon DEF NumAt, BelowTop
<1> QED BY <1>1, <1>2, <1>3, <1>4, <1>5

\* The worker's side of k after a quiet step.
CallQuiet(k) ==
    /\ Top(k)' = Top(k) /\ Known(HeldBy(call'[k]), k) /\ Known(HeldBy(copy'[k]), k)
    /\ Known(consult'[k].held, k)
    /\ consult'[k].phase # "none" => consult'[k].first + Chain - 1 <= Top(k)
    /\ \A n : Kept(n, k)' => Kept(n, k)

BatchQuiet(k) == Known(due'[k].held, k) /\ Known(flight'[k].held, k)

\* A quiet step of k keeps its numbers.
LEMMA QuietNum ==
    ASSUME FlowInv, NEW k \in Keys, NumAt(k), CallQuiet(k), BatchQuiet(k), StoreKept(k), ReqsQuiet(k)
    PROVE  NumAt(k)'
<1>1. Top(k) \in Nat /\ ConsultsTyped
  BY DEF Top, FlowInv, CallsTyped, CallStates
<1>2. Top(k)' \in Nat
  BY <1>1 DEF CallQuiet
<1>3. NothingNew(k)
  <2>1. \A m \in reqs : \A s : Says(m, k, s) => Known(s, k)
    BY <1>2, StatedKnown
  <2>2. \A r \in reqs' : \A s : Says(r, k, s) => Known(s, k)
    BY <2>1 DEF ReqsQuiet
  <2> QED BY <2>2 DEF NothingNew, CallQuiet, BatchQuiet
<1>4. ClaimsMove(k)
  BY DEF ClaimsMove, CallQuiet, ReqsQuiet
<1>5. WithinTop(k)
  <2>1. \A m \in reqs' : AdmitOf(m, k) => m.change \in 0..Top(k)'
    BY DEF ReqsQuiet, NumAt, BelowTop, CallQuiet
  <2> QED BY <1>1, <2>1 DEF WithinTop, CallQuiet
<1> QED BY <1>1, <1>3, <1>4, <1>5, NumFrame DEF ReqsQuiet

\* A key whose call, copy and consult a step leaves alone.
LEMMA StillQuiet ==
    ASSUME FlowInv, NEW k \in Keys, NumAt(k),
           call'[k] = call[k], copy'[k] = copy[k], consult'[k] = consult[k]
    PROVE  CallQuiet(k)
<1>1. Top(k)' = Top(k) /\ Top(k)' \in Nat
  BY DEF Top, FlowInv, CallsTyped, CallStates
<1>2. \A n : Kept(n, k)' => Kept(n, k)
  BY DEF Kept
<1>3. consult'[k].phase # "none" => consult'[k].first + Chain - 1 <= Top(k)
  BY DEF NumAt, BelowTop
<1> QED BY <1>1, <1>2, <1>3, StatedKnown DEF CallQuiet

\* The entries of k stay, leave for the flight, come back, or go.
LEMMA BatchMoves ==
    ASSUME FlowInv, NEW k \in Keys, Top(k)' \in Nat,
           due'[k].held \in {due[k].held, flight[k].held, HeldBy(call[k]), NoHeld},
           flight'[k].held \in {due[k].held, flight[k].held, NoHeld}
    PROVE  BatchQuiet(k)
BY StatedKnown DEF BatchQuiet

\* A step that leaves the store alone keeps its numbers.
LEMMA StoreStill ==
    ASSUME FlowInv, NEW k \in Keys, UNCHANGED store
    PROVE  StoreKept(k)
BY DEF StoreKept

-----------------------------------------------------------------------------
(* Epochs. The numbers a crashed holder gave out are below the epoch its     *)
(* successor enters, because its copy was made in the holder's own epoch.    *)

\* The copy of k is of its holder's epoch, while the holder may still crash.
EpochAt(k) ==
    /\ copy[k] # NoCall => copy[k].stage = "active"
    /\ (budget.crash > 0 \/ call[k].stage = "down") /\ copy[k] # NoCall
         => call[k].change \div Epoch = copy[k].change \div Epoch
    /\ call[k].stage = "down" => copy[k] # NoCall /\ budget.crash = 0
    /\ call[k].stage = "none" => call[k].change = 0 /\ copy[k] = NoCall

\* Once the successor serves the call, it does not crash in turn.
CrashesLeft == budget \in AllBudgets /\ budget.crash \in 0..1

\* The inductive invariant, beside FlowInv.
NumInv == CrashesLeft /\ \A k \in Keys : NumAt(k) /\ EpochAt(k)

\* A step counted elsewhere leaves the crashes as they were.
LEMMA SpendKeeps ==
    ASSUME budget \in AllBudgets,
           \/ UNCHANGED budget \/ Spend("replace") \/ Spend("consult") \/ Spend("giveup")
           \/ Spend("trip") \/ Spend("restart")
    PROVE  budget' \in AllBudgets /\ budget'.crash = budget.crash
BY DEF Spend, AllBudgets

\* The call k keeps its stage and its counter, its copy stays.
EpochStill(k) ==
    /\ call'[k].stage = call[k].stage /\ call'[k].change = call[k].change
    /\ copy'[k] = copy[k] /\ budget'.crash = budget.crash

\* Such a step keeps the call in its epoch.
LEMMA EpochFrame ==
    ASSUME NEW k \in Keys, EpochAt(k), EpochStill(k)
    PROVE  EpochAt(k)'
BY DEF EpochAt, EpochStill

\* A number inside an epoch, and the first one of the next.
LEMMA EpochArith ==
    ASSUME NEW c \in Nat, NEW d \in Nat
    PROVE  /\ \A n \in Nat : (c % Epoch) + n < Epoch => (c + n) \div Epoch = c \div Epoch
           /\ c \div Epoch = d \div Epoch => c < (d \div Epoch + 1) * Epoch
<1>1. Epoch \in Nat /\ Epoch > 0
  BY FlowAssumption DEF FlowAssumption
<1> DEFINE q == c \div Epoch
           r == c % Epoch
<1>2. q \in Nat /\ r \in 0..(Epoch - 1) /\ c = Epoch * q + r
  BY <1>1
<1>3. ASSUME NEW n \in Nat, r + n < Epoch PROVE (c + n) \div Epoch = q
  <2> DEFINE p == (c + n) \div Epoch
             t == (c + n) % Epoch
  <2>1. p \in Nat /\ t \in 0..(Epoch - 1) /\ c + n = Epoch * p + t
    BY <1>1
  <2> HIDE DEF p, t, q, r
  <2>2. Epoch * p + t = Epoch * q + (r + n)
    BY <1>1, <1>2, <2>1
  <2>3. ~(p > q)
    <3> SUFFICES ASSUME p > q PROVE FALSE
      OBVIOUS
    <3>1. p - q \in Nat /\ p - q >= 1
      BY <1>2, <2>1
    <3>2. Epoch * (p - q) >= Epoch
      BY <1>1, <3>1
    <3>3. Epoch * p = Epoch * q + Epoch * (p - q)
      BY <1>1, <1>2, <2>1
    <3> QED BY <1>1, <1>2, <1>3, <2>1, <2>2, <3>2, <3>3
  <2>4. ~(q > p)
    <3> SUFFICES ASSUME q > p PROVE FALSE
      OBVIOUS
    <3>1. q - p \in Nat /\ q - p >= 1
      BY <1>2, <2>1
    <3>2. Epoch * (q - p) >= Epoch
      BY <1>1, <3>1
    <3>3. Epoch * q = Epoch * p + Epoch * (q - p)
      BY <1>1, <1>2, <2>1
    <3> QED BY <1>1, <1>2, <1>3, <2>1, <2>2, <3>2, <3>3
  <2>5. p = q
    BY <1>2, <2>1, <2>3, <2>4
  <2> QED BY <2>5 DEF p
<1>4. c < (q + 1) * Epoch
  <2> HIDE DEF q, r
  <2>1. (q + 1) * Epoch = Epoch * q + Epoch
    BY <1>1, <1>2
  <2> QED BY <1>1, <1>2, <2>1
<1> QED BY <1>3, <1>4

-----------------------------------------------------------------------------
(* The call, as statements are applied to it. *)

\* apply_held takes a statement, or keeps the one held.
LEMMA ApplyHeldNum ==
    ASSUME NEW c \in CallStates, NEW held \in HeldSets, held.change <= c.change
    PROVE  LET a == ApplyHeld(c, held)
           IN  a.change = c.change /\ HeldBy(a) \in {HeldBy(c), held}
<1> DEFINE n == [c EXCEPT !.change = Larger(@, held.change)]
           a == ApplyHeld(c, held)
<1>1. c.change \in Nat /\ held.change \in Nat
  BY DEF CallStates, HeldSets
<1>2. n.change = c.change /\ n.held = c.held /\ n.heldChange = c.heldChange /\ n \in CallStates
  BY <1>1 DEF Larger, CallStates
<1>3. \/ a = n
      \/ a = [n EXCEPT !.heldChange = held.change, !.held = held.entries]
  BY DEF ApplyHeld
<1>4. held = [change |-> held.change, entries |-> held.entries]
  BY DEF HeldSets
<1> HIDE DEF n
<1>5. CASE a = n
  BY <1>2, <1>5 DEF HeldBy
<1>6. CASE a = [n EXCEPT !.heldChange = held.change, !.held = held.entries]
  <2>1. a.change = n.change /\ a.held = held.entries /\ a.heldChange = held.change
    BY <1>2, <1>6 DEF CallStates
  <2> QED BY <1>2, <1>4, <2>1 DEF HeldBy
<1> QED BY <1>3, <1>5, <1>6

\* apply_admit takes what the report states, drops what is held, or keeps it.
LEMMA ApplyAdmitNum ==
    ASSUME NEW c \in CallStates, NEW n \in Nat, n <= c.change, NEW outcome, NEW held \in HeldSets,
           held.change <= c.change
    PROVE  LET a == ApplyAdmit(c, n, outcome, held)
           IN  /\ a.change = c.change
               /\ HeldBy(a) \in {HeldBy(c), held, [change |-> c.heldChange, entries |-> <<>>]}
<1> DEFINE sent == outcome # "notsent"
           x == [c EXCEPT !.owed = @ \/ sent, !.sent = @ \/ sent, !.change = Larger(@, n)]
           a == ApplyAdmit(c, n, outcome, held)
<1>1. a = IF outcome \in {"admitted", "rejected", "superseded"} THEN ApplyHeld(x, held)
          ELSE IF outcome = "released" THEN [x EXCEPT !.held = <<>>] ELSE x
  BY DEF ApplyAdmit
<1>2. x \in CallStates /\ x.held = c.held /\ x.heldChange = c.heldChange
  BY Zenon DEF CallStates, Larger
<1>3. x.change = c.change
  BY DEF CallStates, Larger
<1> HIDE DEF x
<1>4. HeldBy(x) = HeldBy(c)
  BY <1>2 DEF HeldBy
<1>5. CASE a = ApplyHeld(x, held)
  BY <1>2, <1>3, <1>4, <1>5, ApplyHeldNum
<1>6. CASE a = [x EXCEPT !.held = <<>>]
  BY <1>2, <1>3, <1>6 DEF HeldBy, CallStates
<1>7. CASE a = x
  BY <1>3, <1>4, <1>7
<1> QED BY <1>1, <1>5, <1>6, <1>7

\* The queues after a key is handed to release, or none is.
LEMMA QueuesNum ==
    ASSUME FlowInv, NEW k \in Keys, Release(k) \/ KeepQueues, NEW j \in Keys
    PROVE  due'[j].held \in {due[j].held, NoHeld} /\ flight'[j].held \in {flight[j].held, NoHeld}
<1>1. NoEntry.held = NoHeld
  BY DEF NoEntry
<1>2. due'[j] \in {due[j], NoEntry} /\ flight'[j] \in {flight[j], NoEntry}
  BY DEF FlowInv, BatchTyped, Release, KeepQueues, Forgotten
<1> QED BY <1>1, <1>2

\* A report of a known statement, under a number given out, is a quiet step.
LEMMA ReportNum ==
    ASSUME FlowInv, NEW k \in Keys, NumAt(k), NEW fold \in BOOLEAN, NEW n \in 0..Top(k),
           NEW outcome, NEW held \in HeldSets, Stated(held, k) \/ held = NoHeld,
           Report(k, fold, n, outcome, held)
    PROVE  /\ \A j \in Keys \ {k} : call'[j] = call[j]
           /\ call'[k].stage = call[k].stage /\ Top(k)' = Top(k) /\ Known(HeldBy(call'[k]), k)
           /\ \A j \in Keys : /\ due'[j].held \in {due[j].held, NoHeld}
                              /\ flight'[j].held \in {flight[j].held, NoHeld}
<1>1. WorkerTyped /\ call[k] \in CallStates /\ Top(k) \in Nat /\ n \in Nat
  BY DEF FlowInv, WorkerTyped, CallsTyped, CallStates, Top
<1>2. /\ \A j \in Keys \ {k} : call'[j] = call[j]
      /\ call'[k].stage = call[k].stage
  BY <1>1, ReportOwes, Zenon DEF Onward
<1>3. Release(k) \/ KeepQueues
  BY DEF Report
<1>4. held.change <= Top(k)
  <2>1. CASE Stated(held, k)
    BY <1>1, <2>1 DEF NumAt, BelowTop
  <2>2. CASE held = NoHeld
    BY <1>1, <2>2 DEF NoHeld
  <2> QED BY <2>1, <2>2
<1>5. Top(k)' = Top(k) /\ Known(HeldBy(call'[k]), k)
  <2>1. CASE call[k].stage = "active"
    <3> DEFINE c == IF fold THEN CloseConsult(call[k]) ELSE call[k]
               a == ApplyAdmit(c, n, outcome, held)
    <3>1. call'[k] = a
      BY <1>1, <2>1 DEF Report, FlowInv, CallsTyped
    <3>2. c \in CallStates /\ c.change = Top(k) /\ HeldBy(c) = HeldBy(call[k])
      BY <1>1 DEF CloseConsult, CallStates, HeldBy, Top
    <3> HIDE DEF c
    <3>3. /\ a.change = c.change
          /\ HeldBy(a) \in {HeldBy(c), held, [change |-> c.heldChange, entries |-> <<>>]}
      BY <1>1, <1>4, <3>2, ApplyAdmitNum
    <3> HIDE DEF a
    <3>4. Top(k)' = Top(k)
      BY <3>1, <3>2, <3>3 DEF Top
    <3>5. Known(HeldBy(c), k) /\ Known(held, k)
      BY <1>1, <3>2, <3>4, StatedKnown DEF Known
    <3>6. Known([change |-> c.heldChange, entries |-> <<>>], k)
      <4>1. c.heldChange = HeldBy(call[k]).change
        BY <3>2 DEF HeldBy
      <4>2. c.heldChange \in 0..Top(k)
        BY <4>1 DEF NumAt, BelowTop, Stated
      <4> QED BY <3>4, <4>2 DEF Known
    <3> QED BY <3>1, <3>3, <3>4, <3>5, <3>6
  <2>2. CASE call[k].stage # "active"
    <3>1. UNCHANGED call
      BY <2>2 DEF Report
    <3>2. Top(k)' = Top(k)
      BY <3>1 DEF Top
    <3> QED BY <1>1, <3>1, <3>2, StatedKnown
  <2> QED BY <2>1, <2>2
<1> QED BY <1>2, <1>3, <1>5, QueuesNum

\* Steps that leave every call's numbers, or only quiet ones.
LEMMA AllQuiet ==
    ASSUME FlowInv, NumInv, budget' \in AllBudgets, budget'.crash = budget.crash,
           \A k \in Keys : /\ CallQuiet(k) /\ BatchQuiet(k) /\ StoreKept(k) /\ ReqsQuiet(k)
                           /\ call'[k].stage = call[k].stage /\ copy'[k] = copy[k]
    PROVE  NumInv'
<1> SUFFICES ASSUME NEW k \in Keys PROVE NumAt(k)' /\ EpochAt(k)'
  BY DEF NumInv, CrashesLeft
<1>1. EpochStill(k)
  BY DEF EpochStill, CallQuiet, Top
<1> QED BY <1>1, QuietNum, EpochFrame DEF NumInv

\* Steps of one call, the others quiet.
LEMMA OneCallNum ==
    ASSUME FlowInv, NumInv, budget' \in AllBudgets, budget'.crash = budget.crash,
           NEW j \in Keys, NumAt(j)', EpochAt(j)', UNCHANGED store,
           \A k \in Keys \ {j} :
              /\ call'[k] = call[k] /\ copy'[k] = copy[k] /\ consult'[k] = consult[k]
              /\ due'[k].held \in {due[k].held, NoHeld}
              /\ flight'[k].held \in {flight[k].held, NoHeld}
              /\ ReqsQuiet(k)
    PROVE  NumInv'
<1> SUFFICES ASSUME NEW k \in Keys \ {j} PROVE NumAt(k)' /\ EpochAt(k)'
  BY DEF NumInv, CrashesLeft
<1>1. CallQuiet(k)
  BY StillQuiet DEF NumInv
<1>2. Top(k)' \in Nat
  BY <1>1 DEF CallQuiet, Top, FlowInv, CallsTyped, CallStates
<1>3. BatchQuiet(k) /\ StoreKept(k)
  BY <1>2, BatchMoves, StoreStill
<1>4. EpochStill(k)
  BY DEF EpochStill
<1> QED BY <1>1, <1>3, <1>4, QuietNum, EpochFrame DEF NumInv

-----------------------------------------------------------------------------
(* A call's own turns. *)

\* m is an admit of k alone, under n, carrying held.
Asks(m, k, n, held) ==
    /\ m.change = n
    /\ \A s : Says(m, k, s) => s \in {held, NoHeld}
    /\ \A j \in Keys : Concerns(m, j) => j = k

\* An admit as it leaves is one.
LEMMA AdmitAsks ==
    ASSUME NEW k, NEW site, NEW n, NEW held, NEW e, NEW ror
    PROVE  Asks(AdmitReq(k, site, n, held, e, ror), k, n, held)
<1> DEFINE m == AdmitReq(k, site, n, held, e, ror)
<1>1. m.change = n /\ \A j \in Keys : Concerns(m, j) => j = k
  BY DEF AdmitReq, Concerns
<1>2. \A s : Says(m, k, s) => s \in {held, NoHeld}
  BY DEF AdmitReq, Says
<1> HIDE DEF m
<1>3. Asks(m, k, n, held)
  BY <1>1, <1>2 DEF Asks
<1> QED BY <1>3 DEF m

\* An admit leaves, under a number no other one has.
LEMMA AdmitSent ==
    ASSUME NEW k \in Keys, NumAt(k), Top(k)' \in Nat, NEW m, NEW n, NEW held,
           Asks(m, k, n, held), reqs' \subseteq reqs \cup {m}, ~Out(n, k), Known(held, k)
    PROVE  /\ \A r \in reqs' : \A s : Says(r, k, s) => Known(s, k)
           /\ \A r \in reqs' : AdmitOf(r, k) => r \in reqs \/ r.change = n
           /\ \A x : Out(x, k)' => Out(x, k) \/ x = n
           /\ OneOut(k)'
           /\ \A j \in Keys \ {k} : OneOut(j) => ReqsQuiet(j)
<1>1. /\ m.change = n
      /\ \A s : Says(m, k, s) => s \in {held, NoHeld}
      /\ \A j \in Keys : Concerns(m, j) => j = k
  BY DEF Asks
<1>2. reqs' \subseteq reqs \cup {m}
  OBVIOUS
<1>3. \A r \in reqs' : \A s : Says(r, k, s) => Known(s, k)
  <2>1. Known(NoHeld, k) /\ \A r \in reqs : \A s : Says(r, k, s) => Known(s, k)
    BY StatedKnown
  <2> QED BY <1>1, <1>2, <2>1
<1>4. \A r \in reqs' : AdmitOf(r, k) => r \in reqs \/ r.change = n
  BY <1>1, <1>2
<1>5. \A x : Out(x, k)' => Out(x, k) \/ x = n
  BY <1>1, <1>2 DEF Out
<1>6. OneOut(k)'
  <2> SUFFICES ASSUME NEW p \in reqs', NEW r \in reqs', OutAdmit(p, k), OutAdmit(r, k),
                      p.change = r.change
               PROVE  p = r
    BY DEF OneOut
  <2>1. OneOut(k)
    BY DEF NumAt
  <2> QED BY <1>1, <1>2, <2>1 DEF OneOut, Out
<1>7. \A j \in Keys \ {k} : OneOut(j) => ReqsQuiet(j)
  BY <1>1, <1>2, OtherQuiet
<1> QED BY <1>3, <1>4, <1>5, <1>6, <1>7

\* No number above the counter is claimed.
LEMMA FreshUnclaimed ==
    ASSUME FlowInv, NEW k \in Keys, NumAt(k)
    PROVE  \A n : Out(n, k) \/ Kept(n, k) => ~(n > Top(k))
<1>1. Top(k) \in Nat /\ consult[k].first \in Nat /\ Chain \in Nat
  BY FlowAssumption DEF FlowInv, CallsTyped, CallStates, ConsultsTyped, ConsultStates, Top, FlowAssumption
<1>2. \A n : Out(n, k) => ~(n > Top(k))
  BY <1>1 DEF Out, OutAdmit, NumAt, BelowTop
<1>3. \A n : Kept(n, k) => ~(n > Top(k))
  BY <1>1 DEF Kept, NumAt, BelowTop
<1> QED BY <1>2, <1>3

\* A turn of k that takes new numbers, or passes one on.
Takes(k) ==
    /\ Top(k)' \in Nat /\ Top(k) <= Top(k)' /\ UNCHANGED <<store, copy, due, flight>>
    /\ Known(HeldBy(call'[k]), k) /\ Known(consult'[k].held, k)
    /\ consult'[k].phase # "none" => consult'[k].first + Chain - 1 <= Top(k)'
    /\ \A x : Kept(x, k)' => Kept(x, k) \/ x > Top(k)

\* Such a turn leaves the store, the copy and the batch with what they stated.
LEMMA TakesFrame ==
    ASSUME FlowInv, NEW k \in Keys, NumAt(k), Takes(k)
    PROVE  /\ Top(k) \in Nat /\ ConsultsTyped /\ StoreKept(k)
           /\ Known(HeldBy(copy'[k]), k) /\ Known(due'[k].held, k) /\ Known(flight'[k].held, k)
           /\ \A m \in reqs : AdmitOf(m, k) => m.change \in 0..Top(k)'
<1>1. Top(k) \in Nat /\ ConsultsTyped
  BY DEF FlowInv, CallsTyped, CallStates, Top
<1>2. StoreKept(k)
  BY StoreStill DEF Takes
<1>3. Known(HeldBy(copy'[k]), k) /\ Known(due'[k].held, k) /\ Known(flight'[k].held, k)
  BY StatedKnown DEF Takes
<1>4. \A m \in reqs : AdmitOf(m, k) => m.change \in 0..Top(k)'
  <2>1. \A m \in reqs : AdmitOf(m, k) => m.change \in 0..Top(k)
    BY Zenon DEF NumAt, BelowTop
  <2>2. \A x \in 0..Top(k) : x \in 0..Top(k)'
    BY <1>1 DEF Takes
  <2> QED BY <2>1, <2>2, Zenon
<1> QED BY <1>1, <1>2, <1>3, <1>4

\* No request leaves.
LEMMA TakesStill ==
    ASSUME FlowInv, NEW k \in Keys, NumAt(k), Takes(k), UNCHANGED reqs
    PROVE  NumAt(k)' /\ \A j \in Keys \ {k} : OneOut(j) => ReqsQuiet(j)
<1>1. /\ Top(k) \in Nat /\ ConsultsTyped /\ StoreKept(k)
      /\ Known(HeldBy(copy'[k]), k) /\ Known(due'[k].held, k) /\ Known(flight'[k].held, k)
      /\ \A m \in reqs : AdmitOf(m, k) => m.change \in 0..Top(k)'
  BY TakesFrame
<1>2. OneOut(k)' /\ \A x : Out(x, k)' => Out(x, k)
  BY DEF NumAt, OneOut, Out
<1>3. NothingNew(k)
  BY <1>1, StatedKnown, Zenon DEF NothingNew, Takes
<1>4. ClaimsMove(k) /\ WithinTop(k)
  BY <1>1, <1>2, Zenon DEF ClaimsMove, WithinTop, Takes
<1>5. \A j \in Keys \ {k} : OneOut(j) => ReqsQuiet(j)
  BY FewerQuiet
<1> QED BY <1>1, <1>2, <1>3, <1>4, <1>5, NumFrame

\* An admit leaves, under a new number or one the consult kept for it.
LEMMA TakesSends ==
    ASSUME FlowInv, NEW k \in Keys, NumAt(k), Takes(k),
           NEW m, NEW n, NEW held, Asks(m, k, n, held), reqs' \subseteq reqs \cup {m},
           Known(held, k), n \in 0..Top(k)', ~Out(n, k),
           n > Top(k) \/ Kept(n, k), ~Kept(n, k)'
    PROVE  NumAt(k)' /\ \A j \in Keys \ {k} : OneOut(j) => ReqsQuiet(j)
<1>1. /\ Top(k) \in Nat /\ ConsultsTyped /\ StoreKept(k)
      /\ Known(HeldBy(copy'[k]), k) /\ Known(due'[k].held, k) /\ Known(flight'[k].held, k)
      /\ \A r \in reqs : AdmitOf(r, k) => r.change \in 0..Top(k)'
  BY TakesFrame
<1>2. /\ \A r \in reqs' : \A s : Says(r, k, s) => Known(s, k)
      /\ \A r \in reqs' : AdmitOf(r, k) => r \in reqs \/ r.change = n
      /\ \A x : Out(x, k)' => Out(x, k) \/ x = n
      /\ OneOut(k)'
      /\ \A j \in Keys \ {k} : OneOut(j) => ReqsQuiet(j)
  BY AdmitSent, Zenon DEF Takes
<1>3. NothingNew(k)
  BY <1>1, <1>2, Zenon DEF NothingNew, Takes
<1>4. ClaimsMove(k)
  <2> SUFFICES ASSUME NEW x
               PROVE  /\ Kept(x, k)' => Kept(x, k) \/ x > Top(k)
                      /\ Out(x, k)' => Out(x, k) \/ ((x > Top(k) \/ Kept(x, k)) /\ ~Kept(x, k)')
    BY DEF ClaimsMove
  <2>1. Kept(x, k)' => Kept(x, k) \/ x > Top(k)
    BY DEF Takes
  <2>2. Out(x, k)' => Out(x, k) \/ x = n
    BY <1>2
  <2> QED BY <2>1, <2>2
<1>5. WithinTop(k)
  BY <1>1, <1>2, Zenon DEF WithinTop, Takes
<1> QED BY <1>1, <1>2, <1>3, <1>4, <1>5, NumFrame, Zenon

\* The initial route's admit.
LEMMA InitialNum ==
    ASSUME FlowInv, NumInv, NEW k \in Keys, NEW entries \in Lists, Initial(k, entries)
    PROVE  NumInv'
<1> DEFINE u == Uncounted("active")
<1>1. /\ NumAt(k) /\ EpochAt(k) /\ call[k].stage = "none" /\ Top(k) = 0 /\ copy[k] = NoCall
      /\ call \in [Keys -> CallStates]
  BY DEF NumInv, Initial, EpochAt, Top, FlowInv, CallsTyped
<1>2. /\ u \in CallStates /\ u.change = 0 /\ HeldBy(u) = NoHeld /\ u.stage = "active"
  BY NoneTyped DEF Uncounted, HeldBy, NoHeld
<1>3. /\ Reserved(u, 1) \in CallStates /\ Reserved(u, 1).change = 1
      /\ HeldBy(Reserved(u, 1)) = NoHeld /\ Reserved(u, 1).stage = "active"
  BY <1>2 DEF Reserved, CallStates, HeldBy
<1>4. UNCHANGED <<store, copy, consult, due, flight, queue, budget>>
  BY Zenon DEF Initial, KeepQueues
<1>5. \/ call' = [call EXCEPT ![k] = u] /\ UNCHANGED reqs
      \/ /\ call' = [call EXCEPT ![k] = Reserved(u, 1)]
         /\ reqs' \in {reqs, reqs \cup {AdmitReq(k, "initial", 1, NoHeld, entries, FALSE)}}
  <2>1. \/ call' = [call EXCEPT ![k] = u] /\ UNCHANGED reqs
        \/ /\ call' = [call EXCEPT ![k] = Reserved(u, 1)]
           /\ SendAdmit(AdmitReq(k, "initial", u.change + 1, HeldBy(u), entries, FALSE))
    BY Zenon DEF Initial
  <2>2. u.change + 1 = 1
    BY <1>2
  <2> HIDE DEF u
  <2> QED BY <1>2, <2>1, <2>2, Zenon DEF SendAdmit
<1> HIDE DEF u
<1>6. /\ \/ call'[k] = u /\ UNCHANGED reqs
         \/ /\ call'[k] = Reserved(u, 1)
            /\ reqs' \in {reqs, reqs \cup {AdmitReq(k, "initial", 1, NoHeld, entries, FALSE)}}
      /\ \A j \in Keys \ {k} : call'[j] = call[j]
  BY <1>1, <1>5, Zenon
<1>7. /\ HeldBy(call'[k]) = NoHeld /\ call'[k].stage = "active" /\ Top(k)' \in 0..1
  <2>1. Top(k)' = call'[k].change
    BY DEF Top
  <2>2. 0 \in 0..1 /\ 1 \in 0..1
    OBVIOUS
  <2>3. call'[k] \in {u, Reserved(u, 1)}
    BY <1>6, Zenon
  <2> QED BY <1>2, <1>3, <2>1, <2>2, <2>3
<1>8. Takes(k)
  <2>0. Top(k)' \in Nat
    BY <1>7
  <2>1. Known(NoHeld, k) /\ Known(consult[k].held, k)
    BY <2>0, StatedKnown, Zenon
  <2>2. \A x : Kept(x, k)' <=> Kept(x, k)
    BY <1>4 DEF Kept
  <2>3. consult'[k].phase # "none" => consult'[k].first + Chain - 1 <= Top(k)'
    <3>1. /\ consult[k].first \in Nat /\ Chain \in Nat /\ Top(k) \in Nat
          /\ consult[k].phase # "none" => consult[k].first + Chain - 1 <= Top(k)
      BY <1>1, ConsultBounds, Zenon
    <3> QED BY <1>1, <1>4, <1>7, <3>1
  <2>4. Top(k)' \in Nat /\ Top(k) <= Top(k)'
    BY <1>1, <1>7
  <2> QED BY <1>4, <1>7, <2>1, <2>2, <2>3, <2>4 DEF Takes
<1>9. NumAt(k)' /\ \A j \in Keys \ {k} : OneOut(j) => ReqsQuiet(j)
  <2>1. CASE UNCHANGED reqs
    BY <1>1, <1>8, <2>1, TakesStill
  <2>2. CASE call'[k] = Reserved(u, 1)
                /\ reqs' \in {reqs, reqs \cup {AdmitReq(k, "initial", 1, NoHeld, entries, FALSE)}}
    <3>1. ~Out(1, k) /\ ~Kept(1, k) /\ 1 > Top(k)
      BY <1>1, FreshUnclaimed
    <3>2. ~Kept(1, k)' /\ 1 \in 0..Top(k)'
      <4>1. Kept(1, k)' <=> Kept(1, k)
        BY <1>4, Zenon DEF Kept
      <4>2. Top(k)' = 1
        BY <1>3, <2>2, Zenon DEF Top
      <4>3. 1 \in 0..1
        OBVIOUS
      <4> QED BY <3>1, <4>1, <4>2, <4>3, Zenon
    <3>3. Known(NoHeld, k)
      <4>1. Top(k)' \in Nat
        BY <1>7
      <4> QED BY <4>1, StatedKnown, Zenon
    <3> DEFINE m == AdmitReq(k, "initial", 1, NoHeld, entries, FALSE)
    <3>4. Asks(m, k, 1, NoHeld) /\ reqs' \subseteq reqs \cup {m}
      BY <2>2, AdmitAsks, Zenon
    <3> HIDE DEF m
    <3> QED BY <1>1, <1>8, <3>1, <3>2, <3>3, <3>4, TakesSends
  <2> QED BY <1>6, <2>1, <2>2, Zenon
<1>10. EpochAt(k)'
  BY <1>1, <1>4, <1>7 DEF EpochAt
<1>11. \A j \in Keys \ {k} : ReqsQuiet(j)
  BY <1>9 DEF NumInv, NumAt
<1> QED BY <1>4, <1>6, <1>9, <1>10, <1>11, OneCallNum DEF NumInv, CrashesLeft

\* Numbers reserved with room for them stay inside the epoch.
LEMMA ReservedEpoch ==
    ASSUME FlowInv, NEW k \in Keys, EpochAt(k), NEW n \in Nat, RoomFor(call[k], n),
           call[k].stage = "active", call'[k].stage = "active",
           call'[k].change = call[k].change + n, copy'[k] = copy[k], budget'.crash = budget.crash
    PROVE  EpochAt(k)'
<1>1. call[k].change \in Nat
  BY DEF FlowInv, CallsTyped, CallStates
<1>2. (call[k].change + n) \div Epoch = call[k].change \div Epoch
  BY <1>1, EpochArith DEF RoomFor
<1> QED BY <1>2 DEF EpochAt

\* A service replaces the set of a call.
LEMMA ReplaceNum ==
    ASSUME FlowInv, NumInv, NEW k \in Keys, NEW entries \in Lists, Replace(k, entries)
    PROVE  NumInv'
<1> DEFINE c == call[k]
           n == Reserved(c, 1)
           o == [n EXCEPT !.owed = TRUE, !.sent = TRUE]
           m == AdmitReq(k, "service", n.change, HeldBy(c), entries, FALSE)
<1>1. /\ NumAt(k) /\ EpochAt(k) /\ c.stage = "active" /\ RoomFor(c, 1)
      /\ call \in [Keys -> CallStates] /\ c \in CallStates /\ Spend("replace") /\ budget \in AllBudgets
  BY DEF NumInv, Replace, Runs, FlowInv, CallsTyped, CrashesLeft
<1>2. UNCHANGED <<store, copy, consult, due, flight>>
  BY DEF Replace, KeepQueues
<1>3. budget' \in AllBudgets /\ budget'.crash = budget.crash
  BY <1>1, SpendKeeps
<1>4. /\ call' = [call EXCEPT ![k] = n] \/ call' = [call EXCEPT ![k] = o]
      /\ reqs' \subseteq reqs \cup {m}
  BY Zenon DEF Replace, SendAdmit
<1>5. n.change = c.change + 1 /\ HeldBy(n) = HeldBy(c) /\ n.stage = c.stage
      /\ o.change = c.change + 1 /\ HeldBy(o) = HeldBy(c) /\ o.stage = c.stage
  BY <1>1 DEF Reserved, CallStates, HeldBy
<1>6. Asks(m, k, n.change, HeldBy(c))
  BY AdmitAsks, Zenon
<1>7. c.change = Top(k) /\ Top(k) \in Nat
  BY <1>1 DEF Top, CallStates
<1> HIDE DEF m, o, n
<1>8. /\ call'[k].change = Top(k) + 1 /\ HeldBy(call'[k]) = HeldBy(c) /\ call'[k].stage = "active"
      /\ \A j \in Keys \ {k} : call'[j] = call[j]
  <2>1. call'[k] \in {n, o} /\ \A j \in Keys \ {k} : call'[j] = call[j]
    BY <1>1, <1>4
  <2> HIDE DEF c
  <2> QED BY <1>1, <1>5, <1>7, <2>1
<1>9. Top(k)' = Top(k) + 1
  BY <1>8 DEF Top
<1>10. Known(HeldBy(c), k) /\ Known(consult[k].held, k)
  <2>1. Top(k)' \in Nat
    BY <1>7, <1>9
  <2> QED BY <2>1, StatedKnown, Zenon
<1>11. Takes(k)
  <2>1. \A x : Kept(x, k)' <=> Kept(x, k)
    BY <1>2 DEF Kept
  <2>2. consult'[k].phase # "none" => consult'[k].first + Chain - 1 <= Top(k)'
    <3>1. /\ consult[k].first \in Nat /\ Chain \in Nat /\ Top(k) \in Nat
          /\ consult[k].phase # "none" => consult[k].first + Chain - 1 <= Top(k)
      BY <1>1, ConsultBounds, Zenon
    <3> QED BY <1>2, <1>9, <3>1
  <2>3. Top(k)' \in Nat /\ Top(k) <= Top(k)'
    BY <1>7, <1>9
  <2> QED BY <1>2, <1>8, <1>10, <2>1, <2>2, <2>3 DEF Takes
<1>12. NumAt(k)' /\ \A j \in Keys \ {k} : OneOut(j) => ReqsQuiet(j)
  <2>1. PICK x : x = n.change
    OBVIOUS
  <2>2. x \in 0..Top(k)' /\ x > Top(k)
    BY <1>5, <1>7, <1>9, <2>1
  <2>3. ~Out(x, k) /\ ~Kept(x, k)
    BY <1>1, <2>2, FreshUnclaimed
  <2>4. ~Kept(x, k)'
    BY <1>2, <2>3 DEF Kept
  <2>5. Asks(m, k, x, HeldBy(c))
    BY <1>6, <2>1
  <2> HIDE DEF c
  <2> QED BY <1>1, <1>4, <1>10, <1>11, <2>2, <2>3, <2>4, <2>5, TakesSends
<1>13. EpochAt(k)'
  BY <1>1, <1>2, <1>3, <1>7, <1>8, ReservedEpoch
<1>14. \A j \in Keys \ {k} : ReqsQuiet(j)
  BY <1>12 DEF NumInv, NumAt
<1> QED BY <1>2, <1>3, <1>8, <1>12, <1>13, <1>14, OneCallNum, Zenon

\* A failure consult reserves the numbers of its chain.
LEMMA ConsultNum ==
    ASSUME FlowInv, NumInv, NEW k \in Keys, DispatchConsult(k)
    PROVE  NumInv'
<1> DEFINE c == call[k]
           o == [Reserved(c, Chain) EXCEPT !.owed = TRUE, !.consults = @ + 1]
           t == [first |-> c.change + 1, depth |-> 0, held |-> HeldBy(c),
                 mayHold |-> MayHold(c), phase |-> "asking"]
<1>1. /\ NumAt(k) /\ EpochAt(k) /\ c.stage = "active" /\ RoomFor(c, Chain)
      /\ call \in [Keys -> CallStates] /\ c \in CallStates /\ Spend("consult") /\ budget \in AllBudgets
      /\ consult \in [Keys -> ConsultStates]
  BY DEF NumInv, DispatchConsult, Runs, FlowInv, CallsTyped, ConsultsTyped, CrashesLeft
<1>2. UNCHANGED <<store, copy, due, flight, reqs>>
  BY DEF DispatchConsult, KeepQueues
<1>3. budget' \in AllBudgets /\ budget'.crash = budget.crash
  BY <1>1, SpendKeeps
<1>4. Chain \in Nat /\ Chain > 0
  BY FlowAssumption DEF FlowAssumption
<1>5. call' = [call EXCEPT ![k] = o] /\ consult' = [consult EXCEPT ![k] = t]
  BY DEF DispatchConsult
<1>6. o.change = c.change + Chain /\ HeldBy(o) = HeldBy(c) /\ o.stage = c.stage
  BY <1>1, <1>4 DEF Reserved, CallStates, HeldBy
<1>7. t.first = c.change + 1 /\ t.depth = 0 /\ t.held = HeldBy(c) /\ t.phase = "asking"
  OBVIOUS
<1>8. c.change = Top(k) /\ Top(k) \in Nat
  BY <1>1 DEF Top, CallStates
<1> HIDE DEF o, t
<1>9. /\ call'[k] = o /\ consult'[k] = t
      /\ \A j \in Keys \ {k} : call'[j] = call[j] /\ consult'[j] = consult[j]
  BY <1>1, <1>5
<1>10. Top(k)' = Top(k) + Chain
  BY <1>6, <1>8, <1>9 DEF Top
<1>11. Known(HeldBy(c), k)
  BY <1>4, <1>8, <1>10, StatedKnown
<1>12. Takes(k)
  <2>1. \A x : Kept(x, k)' => x > Top(k)
    <3> SUFFICES ASSUME NEW x, Kept(x, k)' PROVE x > Top(k)
      OBVIOUS
    <3>1. x \in Nat /\ Upcoming(t) <= x
      BY <1>9 DEF Kept
    <3>2. Upcoming(t) = Top(k) + 1
      <4>1. Upcoming(t) = Top(k) + 1 + 0
        BY <1>7, <1>8, Zenon DEF Upcoming
      <4> QED BY <1>8, <4>1
    <3>3. Top(k) + 1 <= x
      BY <3>1, <3>2, Zenon
    <3> QED BY <1>8, <3>1, <3>3
  <2>2. consult'[k].first + Chain - 1 <= Top(k)'
    BY <1>4, <1>7, <1>8, <1>9, <1>10
  <2>3. Top(k)' \in Nat /\ Top(k) <= Top(k)'
    BY <1>4, <1>8, <1>10
  <2> QED BY <1>2, <1>6, <1>7, <1>9, <1>11, <2>1, <2>2, <2>3, Zenon DEF Takes
<1>13. NumAt(k)' /\ \A j \in Keys \ {k} : OneOut(j) => ReqsQuiet(j)
  BY <1>1, <1>2, <1>12, TakesStill
<1>14. EpochAt(k)'
  BY <1>1, <1>2, <1>3, <1>4, <1>6, <1>9, ReservedEpoch
<1>15. \A j \in Keys \ {k} : ReqsQuiet(j)
  BY <1>13 DEF NumInv, NumAt
<1> QED BY <1>2, <1>3, <1>9, <1>13, <1>14, <1>15, OneCallNum, Zenon

\* A report to the call of k, and perhaps the end of its consult.
LEMMA ReportStep ==
    ASSUME FlowInv, NumInv, NEW k \in Keys, NEW fold \in BOOLEAN, NEW n \in 0..Top(k),
           NEW outcome, NEW held \in HeldSets, Stated(held, k) \/ held = NoHeld,
           Report(k, fold, n, outcome, held), UNCHANGED <<store, copy>>,
           consult' \in {consult, [consult EXCEPT ![k] = NoConsult]},
           \A j \in Keys : ReqsQuiet(j), budget' \in AllBudgets, budget'.crash = budget.crash
    PROVE  NumInv'
<1>1. NumAt(k) /\ consult \in [Keys -> ConsultStates]
  BY Zenon DEF NumInv, FlowInv, ConsultsTyped
<1>2. /\ \A j \in Keys \ {k} : call'[j] = call[j]
      /\ call'[k].stage = call[k].stage /\ Top(k)' = Top(k) /\ Known(HeldBy(call'[k]), k)
      /\ \A j \in Keys : /\ due'[j].held \in {due[j].held, NoHeld}
                         /\ flight'[j].held \in {flight[j].held, NoHeld}
  BY <1>1, ReportNum, Zenon
<1>3. Top(k)' \in Nat
  BY <1>2, Zenon DEF Top, FlowInv, CallsTyped, CallStates
<1>4. CallQuiet(k)
  <2>1. consult'[k] \in {consult[k], NoConsult}
    BY <1>1
  <2>2. Known(consult'[k].held, k) /\ Known(HeldBy(copy'[k]), k)
    BY <1>3, <2>1, StatedKnown, Zenon
  <2>3. NoConsult.phase = "none"
    BY DEF NoConsult
  <2>4. consult'[k].phase # "none" => consult'[k] = consult[k]
    BY <2>1, <2>3
  <2>5. consult'[k].phase # "none" => consult'[k].first + Chain - 1 <= Top(k)
    BY <1>1, <2>4, Zenon DEF NumAt, BelowTop
  <2>6. \A x : Kept(x, k)' => Kept(x, k)
    BY <2>4 DEF Kept
  <2> QED BY <1>2, <2>2, <2>5, <2>6, Zenon DEF CallQuiet
<1>5. BatchQuiet(k) /\ StoreKept(k)
  BY <1>2, <1>3, BatchMoves, StoreStill, Zenon
<1>6. NumAt(k)'
  BY <1>1, <1>4, <1>5, QuietNum, Zenon
<1>7. EpochAt(k)'
  <2>1. EpochStill(k)
    BY <1>2, Zenon DEF EpochStill, Top
  <2> QED BY <2>1, EpochFrame DEF NumInv
<1>8. \A j \in Keys \ {k} : consult'[j] = consult[j]
  BY <1>1
<1> QED BY <1>2, <1>6, <1>7, <1>8, OneCallNum, Zenon

\* The engine routes a failure: silently, or by an admit under the next number
\* the consult keeps.
LEMMA RouteNum ==
    ASSUME FlowInv, NumInv, NEW k \in Keys, NEW entries \in Lists, Route(k, entries)
    PROVE  NumInv'
<1> DEFINE c == consult[k]
<1>1. /\ NumAt(k) /\ EpochAt(k) /\ c \in ConsultStates /\ consult \in [Keys -> ConsultStates]
      /\ c.phase = "asking" /\ Top(k) \in Nat /\ Chain \in Nat
  BY FlowAssumption DEF NumInv, FlowInv, ConsultsTyped, Route, Top, CallsTyped, CallStates, FlowAssumption
<1>2. UNCHANGED <<store, copy, budget>> /\ budget \in AllBudgets
  BY DEF Route, NumInv, CrashesLeft
<1>3. /\ c.first \in Nat /\ c.depth \in Nat /\ c.depth <= Chain - 1
      /\ c.first + Chain - 1 <= Top(k) /\ c.held \in HeldSets
  BY <1>1, ConsultBounds, Zenon
<1>4. PICK n : n = c.first + c.depth
  OBVIOUS
<1>5. n \in 0..Top(k) /\ n \in Nat
  BY <1>1, <1>3, <1>4
<1>6. NoHeld \in HeldSets
  BY NoneTyped
<1>7. CASE /\ consult' = [consult EXCEPT ![k] = NoConsult]
           /\ Report(k, TRUE, n, "notsent", NoHeld) /\ UNCHANGED reqs
  <2>1. \A j \in Keys : ReqsQuiet(j)
    BY <1>7, FewerQuiet DEF NumInv, NumAt
  <2> QED BY <1>2, <1>5, <1>6, <1>7, <2>1, ReportStep, Zenon
<1>8. CASE /\ consult' = [consult EXCEPT ![k].phase = "admitting"]
           /\ reqs' = reqs \cup {AdmitReq(k, "consult", n, c.held, entries, TRUE)}
           /\ KeepQueues /\ UNCHANGED call
  <2> DEFINE m == AdmitReq(k, "consult", n, c.held, entries, TRUE)
             d == [c EXCEPT !.phase = "admitting"]
  <2>1. Asks(m, k, n, c.held) /\ reqs' \subseteq reqs \cup {m}
    BY <1>8, AdmitAsks, Zenon
  <2>2. d.phase = "admitting" /\ d.first = c.first /\ d.depth = c.depth /\ d.held = c.held
    BY <1>1 DEF ConsultStates
  <2>3. consult'[k] = d /\ \A j \in Keys \ {k} : consult'[j] = consult[j]
    BY <1>1, <1>8
  <2> HIDE DEF m, d
  <2>4. Top(k)' = Top(k) /\ UNCHANGED <<due, flight, call>>
    BY <1>8 DEF Top, KeepQueues
  <2>5. Known(HeldBy(call[k]), k) /\ Known(c.held, k)
    BY <1>1, <2>4, StatedKnown, Zenon
  <2>6. \A x : Kept(x, k)' => Kept(x, k) /\ x # n
    <3> SUFFICES ASSUME NEW x, Kept(x, k)' PROVE Kept(x, k) /\ x # n
      OBVIOUS
    <3>1. x \in Nat /\ Upcoming(d) <= x /\ x <= d.first + Chain - 1
      BY <2>3 DEF Kept
    <3>2. Upcoming(d) = n + 1 /\ Upcoming(c) = n
      BY <1>1, <1>3, <1>4, <2>2, Zenon DEF Upcoming
    <3> QED BY <1>1, <1>5, <2>2, <3>1, <3>2 DEF Kept
  <2>7. Takes(k)
    <3>1. consult'[k].first + Chain - 1 <= Top(k)' /\ Top(k)' \in Nat /\ Top(k) <= Top(k)'
      BY <1>1, <1>3, <2>2, <2>3, <2>4
    <3>2. consult'[k].held = c.held
      BY <2>2, <2>3
    <3> QED BY <1>2, <2>4, <2>5, <2>6, <3>1, <3>2, Zenon DEF Takes
  <2>8. Kept(n, k)
    <3>1. Upcoming(c) = n
      BY <1>1, <1>4 DEF Upcoming
    <3> QED BY <1>1, <1>3, <1>4, <1>5, <3>1 DEF Kept
  <2>9. ~Out(n, k)
    BY <1>1, <2>8 DEF NumAt, OneClaim
  <2>10. NumAt(k)' /\ \A j \in Keys \ {k} : OneOut(j) => ReqsQuiet(j)
    BY <1>1, <1>5, <2>1, <2>4, <2>5, <2>6, <2>7, <2>8, <2>9, TakesSends
  <2>11. EpochAt(k)'
    BY <1>1, <1>2, <2>4, EpochFrame, Zenon DEF EpochStill
  <2>12. \A j \in Keys \ {k} : ReqsQuiet(j)
    BY <2>10 DEF NumInv, NumAt
  <2> QED BY <1>2, <2>3, <2>4, <2>10, <2>11, <2>12, OneCallNum
<1> QED BY <1>4, <1>7, <1>8, Zenon DEF Route

\* The engine answers no route.
LEMMA ResolveNum ==
    ASSUME FlowInv, NumInv, NEW k \in Keys, Resolve(k)
    PROVE  NumInv'
<1> DEFINE c == consult[k]
<1>1. /\ NumAt(k) /\ c \in ConsultStates /\ consult \in [Keys -> ConsultStates]
      /\ c.phase = "asking" /\ Top(k) \in Nat /\ Chain \in Nat
  BY FlowAssumption DEF NumInv, FlowInv, ConsultsTyped, Resolve, Top, CallsTyped, CallStates, FlowAssumption
<1>2. UNCHANGED <<store, copy, budget, reqs>> /\ budget \in AllBudgets
      /\ consult' = [consult EXCEPT ![k] = NoConsult]
  BY DEF Resolve, NumInv, CrashesLeft
<1>3. /\ c.first \in Nat /\ c.depth \in Nat /\ c.depth <= Chain - 1
      /\ c.first + Chain - 1 <= Top(k) /\ c.held \in HeldSets
  BY <1>1, ConsultBounds, Zenon
<1>4. \A j \in Keys : ReqsQuiet(j)
  BY <1>2, FewerQuiet DEF NumInv, NumAt
<1>5. CASE c.depth = 0
  <2>1. UNCHANGED <<call, due, flight>>
    BY <1>5 DEF Resolve, KeepQueues
  <2>2. Top(k)' = Top(k)
    BY <2>1 DEF Top
  <2>3. \A j \in Keys \ {k} : consult'[j] = consult[j]
    BY <1>1, <1>2
  <2>4. NumAt(k)'
    <3>1. CallQuiet(k)
      <4>1. consult'[k] = NoConsult /\ NoConsult.phase = "none"
        BY <1>1, <1>2 DEF NoConsult
      <4>2. \A x : ~Kept(x, k)'
        BY <4>1 DEF Kept
      <4> QED BY <1>1, <1>2, <2>1, <2>2, <4>1, <4>2, StatedKnown, Zenon DEF CallQuiet
    <3>2. BatchQuiet(k) /\ StoreKept(k)
      BY <1>1, <1>2, <2>1, <2>2, BatchMoves, StoreStill, Zenon
    <3> QED BY <1>1, <1>4, <3>1, <3>2, QuietNum
  <2>5. EpochAt(k)'
    BY <1>2, <2>1, EpochFrame, Zenon DEF EpochStill, NumInv
  <2> QED BY <1>2, <1>4, <2>1, <2>3, <2>4, <2>5, OneCallNum
<1>6. CASE c.depth # 0
  <2>1. PICK n : n = c.first + c.depth - 1
    OBVIOUS
  <2>2. Report(k, TRUE, n, "rejected", c.held)
    BY <1>6, <2>1, Zenon DEF Resolve
  <2>3. n \in 0..Top(k)
    BY <1>1, <1>3, <1>6, <2>1
  <2>4. Stated(c.held, k)
    BY DEF Stated
  <2> QED BY <1>2, <1>3, <1>4, <2>2, <2>3, <2>4, ReportStep, Zenon
<1> QED BY <1>5, <1>6

\* An admit answered, refused or given up.
LEMMA AnswersNum ==
    ASSUME FlowInv, NumInv, NEW m \in reqs, m \in AdmitReqs,
           FollowRefusal(m) \/ AdmitAnswered(m) \/ AdmitGivenUp(m)
    PROVE  NumInv'
<1> DEFINE k == m.key
<1>1. /\ k \in Keys /\ m.op = "admit" /\ m.states \in HeldSets /\ (m.site = "consult") \in BOOLEAN
  BY DEF AdmitReqs
<1>2. /\ NumAt(k) /\ EpochAt(k) /\ budget \in AllBudgets /\ Top(k) \in Nat
      /\ consult \in [Keys -> ConsultStates] /\ ReqsTyped /\ \A j \in Keys : OneOut(j)
  BY <1>1 DEF NumInv, NumAt, CrashesLeft, FlowInv, CallsTyped, CallStates, ConsultsTyped, Top
<1>3. m.change \in 0..Top(k) /\ Stated(m.states, k) /\ Says(m, k, m.states)
  BY <1>1, <1>2, Zenon DEF NumAt, BelowTop, AdmitOf, Stated, Says
<1>4. UNCHANGED <<store, copy>>
  BY DEF FollowRefusal, AdmitAnswered, AdmitGivenUp
<1>5. CASE FollowRefusal(m)
  <2> DEFINE c == consult[k]
             d == [c EXCEPT !.depth = @ + 1, !.held = m.states,
                            !.mayHold = m.states.entries # <<>>, !.phase = "asking"]
  <2>1. c.phase = "admitting" /\ c \in ConsultStates /\ c.first \in Nat /\ c.depth \in Nat
    BY <1>1, <1>2, <1>5 DEF FollowRefusal, ConsultStates
  <2>2. d.phase = "asking" /\ d.first = c.first /\ d.depth = c.depth + 1 /\ d.held = m.states
    BY <2>1 DEF ConsultStates
  <2>3. /\ consult' = [consult EXCEPT ![k] = d] /\ reqs' = reqs \ {m}
        /\ UNCHANGED <<call, due, flight, budget>>
    BY <1>5 DEF FollowRefusal, KeepQueues
  <2> HIDE DEF d
  <2>4. consult'[k] = d /\ \A j \in Keys \ {k} : consult'[j] = consult[j]
    BY <1>1, <1>2, <2>3
  <2>5. \A j \in Keys : ReqsQuiet(j)
    BY <1>2, <2>3, FewerQuiet
  <2>6. Top(k)' = Top(k)
    BY <2>3 DEF Top
  <2>7. CallQuiet(k)
    <3>1. \A x : Kept(x, k)' => Kept(x, k)
      <4>1. Upcoming(d) = Upcoming(c)
        BY <2>1, <2>2 DEF Upcoming
      <4> QED BY <2>1, <2>2, <2>4, <4>1 DEF Kept
    <3>2. consult'[k].first + Chain - 1 <= Top(k)
      BY <1>2, <2>1, <2>2, <2>4, Zenon DEF NumAt, BelowTop
    <3>3. Known(HeldBy(call'[k]), k) /\ Known(HeldBy(copy'[k]), k) /\ Known(m.states, k)
      BY <1>2, <1>3, <1>4, <2>3, <2>6, StatedKnown, Zenon
    <3>4. Known(consult'[k].held, k)
      BY <2>2, <2>4, <3>3, Zenon
    <3> QED BY <2>6, <3>1, <3>2, <3>3, <3>4, Zenon DEF CallQuiet
  <2>8. BatchQuiet(k) /\ StoreKept(k)
    BY <1>1, <1>2, <1>4, <2>3, <2>6, BatchMoves, StoreStill, Zenon
  <2>9. NumAt(k)'
    BY <1>1, <1>2, <2>5, <2>7, <2>8, QuietNum
  <2>10. EpochAt(k)'
    BY <1>1, <1>2, <1>4, <2>3, EpochFrame DEF EpochStill
  <2> QED BY <1>1, <1>2, <1>4, <2>3, <2>4, <2>5, <2>9, <2>10, OneCallNum, Zenon
<1>6. CASE AdmitAnswered(m)
  <2>1. /\ Report(k, m.site = "consult", m.change, m.outcome, m.states)
        /\ reqs' = reqs \ {m} /\ UNCHANGED budget
        /\ consult' \in {consult, [consult EXCEPT ![k] = NoConsult]}
    BY <1>6 DEF AdmitAnswered, EndConsult
  <2>2. \A j \in Keys : ReqsQuiet(j)
    BY <1>2, <2>1, FewerQuiet
  <2> QED BY <1>1, <1>2, <1>3, <1>4, <2>1, <2>2, ReportStep, Zenon
<1>7. CASE AdmitGivenUp(m)
  <2>1. /\ Report(k, m.site = "consult", m.change, "unavailable", NoHeld)
        /\ reqs' = Abandoned(m) /\ (UNCHANGED budget \/ Spend("giveup"))
        /\ consult' \in {consult, [consult EXCEPT ![k] = NoConsult]}
    BY <1>7 DEF AdmitGivenUp, EndConsult, CountGiveUp
  <2>2. \A j \in Keys : ReqsQuiet(j)
    BY <1>2, <2>1, AbandonedQuiet
  <2>3. budget' \in AllBudgets /\ budget'.crash = budget.crash /\ NoHeld \in HeldSets
    BY <1>2, <2>1, SpendKeeps, NoneTyped
  <2> QED BY <1>1, <1>2, <1>3, <1>4, <2>1, <2>2, <2>3, ReportStep, Zenon
<1> QED BY <1>5, <1>6, <1>7

\* A call that ends, or is marked.
LEMMA EndMarkNum ==
    ASSUME FlowInv, NumInv, NEW k \in Keys, End(k) \/ Mark(k)
    PROVE  NumInv'
<1>1. /\ UNCHANGED <<store, copy, consult, reqs, budget>> /\ budget \in AllBudgets
      /\ call \in [Keys -> CallStates] /\ NumAt(k) /\ EpochAt(k) /\ call[k].stage = "active"
      /\ due \in [Keys -> Entries]
  BY DEF End, Mark, Runs, NumInv, CrashesLeft, FlowInv, CallsTyped, BatchTyped
<1>2. \A j \in Keys : ReqsQuiet(j)
  BY <1>1, FewerQuiet DEF NumInv, NumAt
<1>3. CASE End(k)
  <2>1. call' = [call EXCEPT ![k].stage = "gone"] /\ (Release(k) \/ KeepQueues)
    BY <1>3 DEF End
  <2>2. /\ call'[k].change = call[k].change /\ HeldBy(call'[k]) = HeldBy(call[k])
        /\ call'[k].stage = "gone" /\ \A j \in Keys \ {k} : call'[j] = call[j]
    BY <1>1, <2>1 DEF HeldBy, CallStates
  <2>3. Top(k)' = Top(k) /\ Top(k)' \in Nat
    BY <1>1, <2>2, Zenon DEF Top, CallStates
  <2>4. \A j \in Keys : due'[j].held \in {due[j].held, NoHeld} /\ flight'[j].held \in {flight[j].held, NoHeld}
    BY <2>1, QueuesNum
  <2>5. CallQuiet(k)
    <3>1. \A x : Kept(x, k)' => Kept(x, k)
      BY <1>1 DEF Kept
    <3>2. consult'[k].phase # "none" => consult'[k].first + Chain - 1 <= Top(k)
      BY <1>1, Zenon DEF NumAt, BelowTop
    <3> QED BY <1>1, <2>2, <2>3, <3>1, <3>2, StatedKnown, Zenon DEF CallQuiet
  <2>6. BatchQuiet(k) /\ StoreKept(k)
    BY <1>1, <2>3, <2>4, BatchMoves, StoreStill, Zenon
  <2>7. NumAt(k)'
    BY <1>1, <1>2, <2>5, <2>6, QuietNum
  <2>8. EpochAt(k)'
    BY <1>1, <2>2, Zenon DEF EpochAt
  <2> QED BY <1>1, <1>2, <2>2, <2>4, <2>7, <2>8, OneCallNum, Zenon
<1>4. CASE Mark(k)
  <2> DEFINE d     == Expired(due)
             held  == HeldBy(call[k])
             entry == [held |-> held, left |-> IF flight[k] # NoEntry THEN flight[k].left ELSE Lease]
  <2>1. /\ UNCHANGED <<call, flight>>
        /\ \/ due' = [d EXCEPT ![k].held = held]
           \/ due' = [d EXCEPT ![k] = entry]
           \/ due' = d
           \/ \E q \in Oldest(d) : due' = [d EXCEPT ![q] = NoEntry, ![k] = entry]
    BY <1>4 DEF Mark
  <2>2. d \in [Keys -> Entries] /\ \A j \in Keys : d[j].held \in {due[j].held, NoHeld}
    BY <1>1, NoneTyped DEF Expired, NoEntry
  <2>3. entry.held = held
    OBVIOUS
  <2>4. \A j \in Keys : due'[j].held \in {d[j].held, held, NoHeld} /\ (j # k => due'[j].held \in {d[j].held, NoHeld})
    <3> HIDE DEF d, held, entry
    <3>1. NoEntry.held = NoHeld /\ [d[k] EXCEPT !.held = held].held = held
      BY <2>2 DEF NoEntry, Entries
    <3>2. \A j \in Keys : \/ due'[j] = d[j]
                          \/ due'[j] = NoEntry
                          \/ j = k /\ due'[j] \in {entry, [d[k] EXCEPT !.held = held]}
      BY <2>1, <2>2 DEF Oldest, Waiting
    <3> QED BY <2>3, <3>1, <3>2, Zenon
  <2>5. \A j \in Keys : BatchQuiet(j) /\ CallQuiet(j) /\ StoreKept(j)
    <3> SUFFICES ASSUME NEW j \in Keys PROVE BatchQuiet(j) /\ CallQuiet(j) /\ StoreKept(j)
      OBVIOUS
    <3>1. Top(j)' \in Nat
      BY <1>1, <2>1 DEF Top, CallStates
    <3>2. due'[j].held \in {due[j].held, flight[j].held, HeldBy(call[j]), NoHeld}
      BY <2>2, <2>4
    <3> QED BY <1>1, <2>1, <3>1, <3>2, BatchMoves, StillQuiet, StoreStill DEF NumInv
  <2> QED BY <1>1, <1>2, <2>1, <2>5, AllQuiet
<1> QED BY <1>3, <1>4

-----------------------------------------------------------------------------
(* Replication, takeover, a crash. *)

\* A copy is made of the call as it is.
LEMMA ReplicateNum ==
    ASSUME FlowInv, NumInv, NEW k \in Keys, Replicate(k)
    PROVE  NumInv'
<1>1. /\ UNCHANGED <<store, call, consult, reqs, budget, due, flight>> /\ budget \in AllBudgets
      /\ copy \in [Keys -> CallStates] /\ NumAt(k) /\ EpochAt(k) /\ call[k].stage \in {"active", "gone"}
      /\ Top(k) \in Nat
  BY DEF Replicate, KeepQueues, NumInv, CrashesLeft, FlowInv, CallsTyped, CallStates, Top
<1>2. /\ copy'[k] = NoCall \/ (copy'[k] = call[k] /\ call[k].stage = "active")
      /\ \A j \in Keys \ {k} : copy'[j] = copy[j]
  BY <1>1, Zenon DEF Replicate
<1>3. \A j \in Keys : ReqsQuiet(j)
  BY <1>1, FewerQuiet, Zenon DEF NumInv, NumAt
<1>4. Top(k)' = Top(k) /\ Top(k)' \in Nat
  BY <1>1 DEF Top
<1>5. CallQuiet(k)
  <2>1. HeldBy(NoCall) = NoHeld
    BY DEF HeldBy, NoCall, Uncounted, NoHeld
  <2>2. Known(HeldBy(copy'[k]), k) /\ Known(HeldBy(call'[k]), k) /\ Known(consult'[k].held, k)
    BY <1>1, <1>2, <1>4, <2>1, StatedKnown, Zenon
  <2>3. \A x : Kept(x, k)' => Kept(x, k)
    BY <1>1 DEF Kept
  <2>4. consult'[k].phase # "none" => consult'[k].first + Chain - 1 <= Top(k)
    BY <1>1, Zenon DEF NumAt, BelowTop
  <2> QED BY <1>4, <2>2, <2>3, <2>4 DEF CallQuiet
<1>6. BatchQuiet(k) /\ StoreKept(k)
  BY <1>1, <1>4, BatchMoves, StoreStill, Zenon
<1>7. NumAt(k)'
  BY <1>1, <1>3, <1>5, <1>6, QuietNum, Zenon
<1>8. EpochAt(k)'
  BY <1>1, <1>2, Zenon DEF EpochAt
<1> QED BY <1>1, <1>2, <1>3, <1>7, <1>8, OneCallNum, Zenon

\* The successor's first number is above every one its predecessor gave out.
LEMMA MaterialiseNum ==
    ASSUME FlowInv, NumInv, NEW k \in Keys, Materialise(k)
    PROVE  NumInv'
<1> DEFINE c == EnterEpoch(copy[k])
<1>1. /\ UNCHANGED <<store, copy, consult, reqs, budget, due, flight>> /\ budget \in AllBudgets
      /\ call \in [Keys -> CallStates] /\ NumAt(k) /\ EpochAt(k) /\ call[k].stage = "down"
      /\ Top(k) \in Nat /\ copy[k] \in CallStates /\ call' = [call EXCEPT ![k] = c]
  BY DEF Materialise, KeepQueues, NumInv, CrashesLeft, FlowInv, CallsTyped, CallStates, Top
<1>2. /\ copy[k] # NoCall /\ copy[k].stage = "active" /\ budget.crash = 0
      /\ Top(k) \div Epoch = copy[k].change \div Epoch
  BY <1>1, Zenon DEF EpochAt, Top
<1>3. /\ c.change = (copy[k].change \div Epoch + 1) * Epoch /\ c \in CallStates
      /\ HeldBy(c) = HeldBy(copy[k]) /\ c.stage = "active"
  <2>1. c \in CallStates /\ c.stage = "active"
    BY <1>1, <1>2, EnterEpochTyped, EpochPassed, Zenon
  <2> QED BY <1>1, <2>1 DEF EnterEpoch, CallStates, HeldBy
<1>4. copy[k].change \in Nat /\ c.change \in Nat
  BY <1>1, <1>3, Zenon DEF CallStates
<1>5. Top(k) < c.change
  BY <1>1, <1>2, <1>3, <1>4, EpochArith, Zenon
<1> HIDE DEF c
<1>6. call'[k] = c /\ \A j \in Keys \ {k} : call'[j] = call[j]
  BY <1>1
<1>7. Top(k)' = c.change
  BY <1>6 DEF Top
<1>8. Takes(k)
  <2>1. Known(HeldBy(call'[k]), k) /\ Known(consult'[k].held, k)
    BY <1>1, <1>3, <1>4, <1>6, <1>7, StatedKnown, Zenon
  <2>2. \A x : Kept(x, k)' => Kept(x, k)
    BY <1>1 DEF Kept
  <2>3. consult'[k].phase # "none" => consult'[k].first + Chain - 1 <= Top(k)'
    <3>1. /\ consult[k].first \in Nat /\ Chain \in Nat /\ Top(k) \in Nat
          /\ consult[k].phase # "none" => consult[k].first + Chain - 1 <= Top(k)
      BY <1>1, ConsultBounds, Zenon
    <3> QED BY <1>1, <1>4, <1>5, <1>7, <3>1
  <2>4. Top(k)' \in Nat /\ Top(k) <= Top(k)'
    BY <1>1, <1>4, <1>5, <1>7
  <2> QED BY <1>1, <2>1, <2>2, <2>3, <2>4, Zenon DEF Takes
<1>9. NumAt(k)' /\ \A j \in Keys \ {k} : OneOut(j) => ReqsQuiet(j)
  BY <1>1, <1>8, TakesStill
<1>10. EpochAt(k)'
  <2>1. /\ call'[k].stage = "active" /\ copy'[k] = copy[k] /\ copy[k].stage = "active"
        /\ budget'.crash = 0
    BY <1>1, <1>2, <1>3, <1>6, Zenon
  <2>2. ~(budget'.crash > 0) /\ "active" # "down" /\ "active" # "none"
    BY <2>1
  <2> QED BY <2>1, <2>2, Zenon DEF EpochAt
<1>11. \A j \in Keys \ {k} : ReqsQuiet(j)
  BY <1>9 DEF NumInv, NumAt
<1> QED BY <1>1, <1>6, <1>9, <1>10, <1>11, OneCallNum, Zenon

\* A crash leaves what was stated in the copies, the store and the requests.
LEMMA CrashNum == ASSUME FlowInv, NumInv, Crash PROVE NumInv'
<1>1. /\ UNCHANGED <<store, copy>> /\ budget \in AllBudgets /\ budget.crash \in 0..1 /\ Spend("crash")
      /\ call \in [Keys -> CallStates] /\ ReqsTyped
  BY DEF Crash, NumInv, CrashesLeft, FlowInv, CallsTyped
<1>2. budget' \in AllBudgets /\ budget.crash > 0 /\ budget'.crash = 0
  BY <1>1 DEF Spend, AllBudgets
<1> SUFFICES ASSUME NEW k \in Keys PROVE NumAt(k)' /\ EpochAt(k)'
  BY <1>2 DEF NumInv, CrashesLeft
<1>3. NumAt(k) /\ EpochAt(k) /\ call[k] \in CallStates /\ OneOut(k) /\ Top(k) \in Nat
  BY <1>1 DEF NumInv, NumAt, Top, CallStates
<1>4. call'[k] = IF copy[k] # NoCall THEN [call[k] EXCEPT !.stage = "down"]
                 ELSE IF call[k].stage = "active" THEN [call[k] EXCEPT !.stage = "gone"]
                 ELSE call[k]
  BY DEF Crash
<1>5. /\ call'[k].change = call[k].change /\ HeldBy(call'[k]) = HeldBy(call[k])
      /\ IF copy[k] # NoCall THEN call'[k].stage = "down" ELSE call'[k].stage \in {"gone", call[k].stage}
  <2>1. \A g \in {"down", "gone"} : /\ [call[k] EXCEPT !.stage = g].change = call[k].change
                                    /\ HeldBy([call[k] EXCEPT !.stage = g]) = HeldBy(call[k])
                                    /\ [call[k] EXCEPT !.stage = g].stage = g
    BY <1>3 DEF CallStates, HeldBy
  <2> QED BY <1>4, <2>1
<1>6. Top(k)' = Top(k)
  BY <1>5 DEF Top
<1>7. consult'[k] = NoConsult /\ due'[k] = NoEntry /\ flight'[k] = NoEntry
  BY DEF Crash
<1>8. NoConsult.phase = "none" /\ NoConsult.held = NoHeld /\ NoEntry.held = NoHeld
  BY DEF NoConsult, NoEntry
<1>9. CallQuiet(k)
  <2>1. \A x : ~Kept(x, k)'
    BY <1>7, <1>8 DEF Kept
  <2> QED BY <1>1, <1>3, <1>5, <1>6, <1>7, <1>8, <2>1, StatedKnown, Zenon DEF CallQuiet
<1>10. BatchQuiet(k) /\ StoreKept(k)
  BY <1>1, <1>3, <1>6, <1>7, <1>8, BatchMoves, StoreStill, Zenon
<1>11. ReqsQuiet(k)
  BY <1>1, <1>3, CrashQuiet
<1>12. NumAt(k)'
  BY <1>3, <1>9, <1>10, <1>11, QuietNum
<1>13. EpochAt(k)'
  BY <1>1, <1>2, <1>3, <1>5 DEF EpochAt
<1> QED BY <1>12, <1>13
=============================================================================
