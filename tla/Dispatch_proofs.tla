--------------------------- MODULE Dispatch_proofs ---------------------------
(* Proofs about Dispatch, for any set of calls, any bounds and any budget of *)
(* outside events: the release of a queue leads the calls behind it, no      *)
(* queued entry is stranded, the overflow is counted exactly, initial        *)
(* INVITEs keep to their share, a halt lets a worker start at most the item  *)
(* it had taken, and the verdict on a capped call is never lost.             *)
(*                                                                           *)
(* First what the operations of CallQueue keep of the queue of one reference, *)
(* for any depth and any lifetime cap. The rest of the invariant relates      *)
(* queue, worker, wake and halt, one reference at a time. Only the permits    *)
(* couple references.                                                         *)
EXTENDS Dispatch, FiniteSetTheorems, TLAPS

-----------------------------------------------------------------------------
(* The queue of one reference. *)

\* A queue over the entries E.
QueueRecs(E) ==
    [entries : Seq(E), released : BOOLEAN, nextCall : BOOLEAN, waiting : Int,
     offered : Nat, nextOffered : Nat, capped : BOOLEAN]

IsRelease(e) == e.class = "Release"

\* The place of the release among the entries, of one queued or not.
Led(s, released, next) ==
    /\ (released = TRUE) <=> \E r \in 1..Len(s) : IsRelease(s[r])
    /\ (released = FALSE) => next = FALSE
    /\ \A r \in 1..Len(s) : IsRelease(s[r]) =>
          /\ \A i \in 1..Len(s) : IsRelease(s[i]) => i = r
          /\ \A i \in 1..Len(s) : IsNewCall(s[i].class) => i > r
          /\ r < Len(s) => IsNewCall(s[r + 1].class)
          /\ (next = TRUE) <=> r < Len(s)

LedQueue(q) == Led(q.entries, q.released, q.nextCall)

\* An entry added at the back of the entries.
LEMMA AppendFacts ==
    ASSUME NEW E, NEW s \in Seq(E), NEW e \in E
    PROVE  /\ Append(s, e) \in Seq(E) /\ Len(Append(s, e)) = Len(s) + 1 /\ Len(s) \in Nat
           /\ Append(s, e)[Len(s) + 1] = e
           /\ \A i \in 1..Len(s) : Append(s, e)[i] = s[i]
OBVIOUS

\* The entries behind the oldest.
LEMMA TailFacts ==
    ASSUME NEW E, NEW s \in Seq(E), s # <<>>
    PROVE  /\ Tail(s) \in Seq(E) /\ Len(Tail(s)) = Len(s) - 1 /\ Len(s) \in Nat \ {0}
           /\ \A i \in 1..Len(s) - 1 : Tail(s)[i] = s[i + 1]
           /\ Head(s) = s[1] /\ Head(s) \in E
OBVIOUS

\* The entries of a queue of one.
LEMMA OneEntry ==
    ASSUME NEW E, NEW e \in E, NEW s \in Seq(E), Len(s) = 1, s[1] = e
    PROVE  s = <<e>>
OBVIOUS

-----------------------------------------------------------------------------
(* The operations. *)

\* The entries a queue may hold: the release is told from an item by its class.
Holds(E) == ReleaseEntry \in E

\* What an offer's counters leave of a queue.
LEMMA NotedKeeps ==
    ASSUME NEW E, NEW q \in QueueRecs(E), NEW class
    PROVE  /\ Noted(q, class) \in QueueRecs(E)
           /\ Noted(q, class).entries = q.entries
           /\ Noted(q, class).released = q.released
           /\ Noted(q, class).nextCall = q.nextCall
<1> DEFINE o == IF CountsToCap(class) /\ ~q.released THEN CountOne(q.offered) ELSE q.offered
           k == q.capped \/ Crosses(q, class)
           m == IF CountsToCap(class) /\ WaitsForNext(q, class)
                THEN CountOne(q.nextOffered) ELSE q.nextOffered
<1>1. o \in Nat /\ m \in Nat /\ k \in BOOLEAN
  BY DEF QueueRecs, CountOne
<1>2. Noted(q, class) = [q EXCEPT !.offered = o, !.capped = k, !.nextOffered = m]
  BY DEF Noted, QueueRecs
<1> HIDE DEF o, k, m
<1> QED BY <1>1, <1>2, Zenon DEF QueueRecs

\* What the place of the release means for the whole queue.
LEMMA LedMeans ==
    ASSUME NEW E, NEW q \in QueueRecs(E), LedQueue(q)
    PROVE  /\ q.released => \E r \in DOMAIN q.entries : Releases(q) = {r}
           /\ ~q.released => Releases(q) = {}
           /\ \A r \in Releases(q) :
                 /\ \A i \in NewCalls(q) : i > r
                 /\ r < Len(q.entries) => IsNewCall(q.entries[r + 1].class)
                 /\ q.nextCall <=> r < Len(q.entries)
<1> DEFINE s == q.entries
<1>1. /\ s \in Seq(E) /\ DOMAIN s = 1..Len(s) /\ Led(s, q.released, q.nextCall)
      /\ q.released \in BOOLEAN /\ q.nextCall \in BOOLEAN
  BY DEF QueueRecs, LedQueue
<1>2. /\ Releases(q) = {i \in 1..Len(s) : IsRelease(s[i])}
      /\ NewCalls(q) = {i \in 1..Len(s) : IsNewCall(s[i].class)}
  BY <1>1 DEF Releases, NewCalls, IsRelease
<1> HIDE DEF s
<1>3. ASSUME q.released = TRUE PROVE \E r \in DOMAIN s : Releases(q) = {r}
  <2>1. PICK r \in 1..Len(s) : IsRelease(s[r])
    BY <1>1, <1>3 DEF Led
  <2>2. \A i \in 1..Len(s) : IsRelease(s[i]) => i = r
    BY <1>1, <2>1 DEF Led
  <2>3. Releases(q) = {r}
    BY <1>2, <2>1, <2>2
  <2> QED BY <1>1, <2>3
<1>4. q.released = FALSE => Releases(q) = {}
  BY <1>1, <1>2 DEF Led
<1>5. ASSUME NEW r \in Releases(q)
      PROVE  /\ \A i \in NewCalls(q) : i > r
             /\ r < Len(s) => IsNewCall(s[r + 1].class)
             /\ (q.nextCall = TRUE) <=> r < Len(s)
  BY <1>1, <1>2, <1>5 DEF Led
<1> QED BY <1>1, <1>3, <1>4, <1>5, Zenon DEF s

-----------------------------------------------------------------------------
(* The overflow is counted. *)

\* The past-bounds items behind the first Depth entries.
Over(s) == {i \in (Depth + 1)..Len(s) : PastBounds(s[i].class)}

\* What `waiting` counts, and how far: one past the ceiling only while the item a
\* release pushed over the line is still the first behind it.
Counted(s, n, released) ==
    /\ n = Cardinality(Over(s))
    /\ n <= Depth \/ /\ n <= Depth + 1 /\ released = TRUE
                     /\ Len(s) > Depth /\ PastBounds(s[Depth + 1].class)

CountedQueue(q) == Counted(q.entries, q.waiting, q.released)

\* The overflow is a finite set of places.
LEMMA OverFinite ==
    ASSUME NEW E, NEW s \in Seq(E)
    PROVE  IsFiniteSet(Over(s)) /\ Cardinality(Over(s)) \in Nat /\ Depth \in Nat \ {0} /\ Len(s) \in Nat
<1>1. Depth \in Nat \ {0} /\ Len(s) \in Nat
  BY QueueAssumption DEF QueueAssumption
<1>2. IsFiniteSet((Depth + 1)..Len(s))
  BY <1>1, FS_Interval
<1>3. Over(s) \subseteq (Depth + 1)..Len(s)
  BY DEF Over
<1>4. IsFiniteSet(Over(s))
  BY <1>2, <1>3, FS_Subset, Zenon
<1> QED BY <1>1, <1>4, FS_CardinalityType

-----------------------------------------------------------------------------
(* The operations count it. *)

\* What a queue keeps: its release leads, and its overflow is counted.
Sound(q) == LedQueue(q) /\ CountedQueue(q)

-----------------------------------------------------------------------------
\* Every operation of a queue keeps it sound: the release in its place, and
\* `waiting` the number of past-bounds items in the overflow.
LEMMA OperationsSound ==
    \A E : Holds(E) => \A q \in QueueRecs(E) : Sound(q) =>
        /\ \A item \in E : ~IsRelease(item) =>
              /\ Offer(q, item).queue \in QueueRecs(E) /\ Sound(Offer(q, item).queue)
              /\ Offer(q, item).queue.entries =
                    IF Offer(q, item).why = "none" THEN Append(q.entries, item) ELSE q.entries
        /\ Release(q) \in QueueRecs(E) /\ Sound(Release(q))
        /\ q.entries # <<>> /\ ~IsRelease(Head(q.entries)) =>
              /\ Popped(q) \in QueueRecs(E) /\ Sound(Popped(q))
              /\ Popped(q).entries = Tail(q.entries)
        /\ q.entries # <<>> /\ IsRelease(Head(q.entries)) =>
              /\ Reopened(Popped(q)) \in QueueRecs(E) /\ Sound(Reopened(Popped(q)))
              /\ Popped(q).entries = Tail(q.entries)
\* A set of natural numbers that is not empty has its smallest.
<1>Smallest.
    ASSUME NEW T, T \subseteq Nat, T # {}
    PROVE  \E m \in T : \A k \in T : m <= k
  <2> USE <1>Smallest
  <2>1. PICK m \in T : \A k \in T : ~(<<k, m>> \in OpToRel(<, Nat))
    BY WFMin, NatLessThanWellFounded, Zenon
  <2>2. \A k \in T : ~(k < m)
    <3> SUFFICES ASSUME NEW k \in T, k < m PROVE FALSE
      OBVIOUS
    <3>1. <<k, m>> \in Nat \X Nat /\ k < m
      OBVIOUS
    <3>2. <<k, m>> \in OpToRel(<, Nat)
      BY <3>1, Zenon DEF OpToRel
    <3> QED BY <2>1, <3>2, Zenon
  <2> QED BY <2>2
\* Entries put behind others.
<1>ConcatFacts.
    ASSUME NEW E, NEW s \in Seq(E), NEW t \in Seq(E)
    PROVE  /\ s \o t \in Seq(E) /\ Len(s \o t) = Len(s) + Len(t)
           /\ \A i \in 1..Len(s) + Len(t) : (s \o t)[i] = IF i <= Len(s) THEN s[i] ELSE t[i - Len(s)]
  BY <1>ConcatFacts
\* An entry cut in at a place among the entries.
<1>InsertFacts.
    ASSUME NEW E, NEW s \in Seq(E), NEW e \in E, NEW at \in 1..Len(s)
    PROVE  /\ InsertedAt(s, at, e) \in Seq(E) /\ Len(InsertedAt(s, at, e)) = Len(s) + 1
           /\ InsertedAt(s, at, e)[at] = e
           /\ \A i \in 1..(at - 1) : InsertedAt(s, at, e)[i] = s[i]
           /\ \A i \in at..Len(s) : InsertedAt(s, at, e)[i + 1] = s[i]
  <2> USE <1>InsertFacts
  <2> DEFINE a == SubSeq(s, 1, at - 1)
             b == SubSeq(s, at, Len(s))
  <2>0. Len(s) \in Nat /\ at \in Nat \ {0} /\ at <= Len(s)
    OBVIOUS
  <2>1. a \in Seq(E) /\ Len(a) = at - 1 /\ \A i \in 1..(at - 1) : a[i] = s[i]
    BY <2>0
  <2>2. b \in Seq(E) /\ Len(b) = Len(s) - at + 1 /\ \A i \in 1..(Len(s) - at + 1) : b[i] = s[at + i - 1]
    BY <2>0
  <2> HIDE DEF a, b
  <2>3. /\ a \o <<e>> \in Seq(E) /\ Len(a \o <<e>>) = at /\ (a \o <<e>>)[at] = e
        /\ \A i \in 1..(at - 1) : (a \o <<e>>)[i] = s[i]
    BY <2>0, <2>1
  <2> DEFINE c == a \o <<e>>
  <2> HIDE DEF c
  <2>4. /\ c \in Seq(E) /\ Len(c) = at /\ c[at] = e /\ \A i \in 1..(at - 1) : c[i] = s[i]
    BY <2>3 DEF c
  <2>5. /\ c \o b \in Seq(E) /\ Len(c \o b) = Len(s) + 1
        /\ \A i \in 1..at : (c \o b)[i] = c[i]
        /\ \A i \in at + 1..Len(s) + 1 : (c \o b)[i] = b[i - at]
    <3>1. /\ c \o b \in Seq(E) /\ Len(c \o b) = Len(c) + Len(b)
          /\ \A i \in 1..Len(c) + Len(b) :
                (c \o b)[i] = IF i <= Len(c) THEN c[i] ELSE b[i - Len(c)]
      BY <2>2, <2>4, <1>ConcatFacts, Zenon
    <3>2. Len(c) + Len(b) = Len(s) + 1
      BY <2>0, <2>2, <2>4
    <3> QED BY <2>0, <2>4, <3>1, <3>2
  <2>6. \A i \in at..Len(s) : (c \o b)[i + 1] = s[i]
    BY <2>0, <2>2, <2>5
  <2>7. InsertedAt(s, at, e) = c \o b
    BY DEF InsertedAt, a, b, c
  <2> QED BY <2>0, <2>4, <2>5, <2>6, <2>7
\* An offer behind the release goes in only behind a new call waiting there.
<1>LedOffer.
    ASSUME NEW E, NEW s \in Seq(E), NEW e \in E, ~IsRelease(e),
           NEW released \in BOOLEAN, NEW next \in BOOLEAN, Led(s, released, next),
           released = TRUE => next = TRUE \/ IsNewCall(e.class),
           NEW next1 \in BOOLEAN,
           (next1 = TRUE) <=> (next = TRUE \/ released = TRUE)
    PROVE  Led(Append(s, e), released, next1)
  <2> USE <1>LedOffer
  <2> DEFINE t == Append(s, e)
             n == Len(s)
  <2>1. /\ Len(t) = n + 1 /\ n \in Nat /\ t[n + 1] = e
        /\ \A i \in 1..n : t[i] = s[i]
    BY AppendFacts
  <2>2. \A i \in 1..n + 1 : IsRelease(t[i]) <=> i \in 1..n /\ IsRelease(s[i])
    BY <2>1
  <2>3. \A i \in 1..n + 1 :
           IsNewCall(t[i].class) <=> (i \in 1..n /\ IsNewCall(s[i].class)) \/ (i = n + 1 /\ IsNewCall(e.class))
    BY <2>1
  <2> HIDE DEF t, n
  <2>5. Led(s, released, next) /\ n = Len(s)
    BY DEF n
  <2>4. Led(t, released, next1)
    <3>1. (released = TRUE) <=> \E r \in 1..Len(t) : IsRelease(t[r])
      BY <2>1, <2>2, <2>5 DEF Led
    <3>2. (released = FALSE) => next1 = FALSE
      BY <2>5 DEF Led
    <3>3. ASSUME NEW r \in 1..Len(t), IsRelease(t[r])
          PROVE  /\ \A i \in 1..Len(t) : IsRelease(t[i]) => i = r
                 /\ \A i \in 1..Len(t) : IsNewCall(t[i].class) => i > r
                 /\ r < Len(t) => IsNewCall(t[r + 1].class)
                 /\ (next1 = TRUE) <=> r < Len(t)
      <4>1. r \in 1..n /\ IsRelease(s[r]) /\ released = TRUE
        BY <2>1, <2>2, <2>5, <3>3 DEF Led
      <4>2. \A i \in 1..Len(t) : IsRelease(t[i]) => i = r
        BY <2>1, <2>2, <2>5, <4>1 DEF Led
      <4>3. \A i \in 1..Len(t) : IsNewCall(t[i].class) => i > r
        BY <2>1, <2>3, <2>5, <4>1 DEF Led
      <4>4. r < Len(t) => IsNewCall(t[r + 1].class)
        BY <2>1, <2>3, <2>5, <4>1 DEF Led
      <4>5. (next1 = TRUE) <=> r < Len(t)
        BY <2>1, <4>1
      <4> QED BY <4>2, <4>3, <4>4, <4>5
    <3> QED BY <3>1, <3>2, <3>3, Zenon DEF Led
  <2> QED BY <2>4 DEF t
\* A release queued behind every entry, none of them a new call.
<1>LedReleaseLast.
    ASSUME NEW E, NEW s \in Seq(E), NEW e \in E, IsRelease(e), ~IsNewCall(e.class),
           NEW next \in BOOLEAN, Led(s, FALSE, next),
           \A i \in 1..Len(s) : ~IsNewCall(s[i].class)
    PROVE  Led(Append(s, e), TRUE, next)
  <2> USE <1>LedReleaseLast
  <2> DEFINE t == Append(s, e)
             n == Len(s)
  <2>1. /\ Len(t) = n + 1 /\ n \in Nat /\ t[n + 1] = e
        /\ \A i \in 1..n : t[i] = s[i]
    BY AppendFacts
  <2>2. /\ \A i \in 1..n : ~IsRelease(s[i])
        /\ next = FALSE
    BY DEF Led
  <2>3. \A i \in 1..n + 1 : ~IsNewCall(t[i].class)
    BY <2>1
  <2> HIDE DEF t, n
  <2>4. \A i \in 1..n + 1 : IsRelease(t[i]) <=> i = n + 1
    BY <2>1, <2>2 DEF n
  <2>5. Led(t, TRUE, next)
    BY <2>1, <2>2, <2>3, <2>4 DEF Led
  <2> QED BY <2>5, Zenon DEF t
\* A release cut in at the first new call.
<1>LedReleaseCutsIn.
    ASSUME NEW E, NEW s \in Seq(E), NEW e \in E, IsRelease(e), ~IsNewCall(e.class),
           NEW next, Led(s, FALSE, next),
           NEW at \in 1..Len(s), IsNewCall(s[at].class),
           \A i \in 1..Len(s) : IsNewCall(s[i].class) => at <= i
    PROVE  Led(InsertedAt(s, at, e), TRUE, TRUE)
  <2> USE <1>LedReleaseCutsIn
  <2> DEFINE t == InsertedAt(s, at, e)
             n == Len(s)
  <2>1. /\ Len(t) = n + 1 /\ n \in Nat /\ at \in 1..n /\ t[at] = e
        /\ \A i \in 1..(at - 1) : t[i] = s[i]
        /\ \A i \in at..n : t[i + 1] = s[i]
    <3>1. Len(t) = n + 1 /\ n \in Nat /\ at \in 1..n /\ t[at] = e
      BY <1>InsertFacts
    <3>2. \A i \in 1..(at - 1) : t[i] = s[i]
      BY <1>InsertFacts
    <3>3. \A i \in at..n : t[i + 1] = s[i]
      BY <1>InsertFacts
    <3> QED BY <3>1, <3>2, <3>3
  <2>2. \A i \in 1..n : ~IsRelease(s[i])
    BY DEF Led
  <2>3. \A i \in 1..n : IsNewCall(s[i].class) => at <= i
    OBVIOUS
  <2>4. IsNewCall(s[at].class)
    OBVIOUS
  <2> HIDE DEF t, n
  <2>5. \A i \in 1..n + 1 : i = at \/ (i \in 1..(at - 1) /\ t[i] = s[i])
                                  \/ (i - 1 \in at..n /\ t[i] = s[i - 1])
    <3> SUFFICES ASSUME NEW i \in 1..n + 1, i > at PROVE i - 1 \in at..n /\ t[i] = s[i - 1]
      BY <2>1
    <3>1. i - 1 \in at..n /\ (i - 1) + 1 = i
      BY <2>1
    <3> QED BY <2>1, <3>1
  <2>6. \A i \in 1..n + 1 : IsRelease(t[i]) <=> i = at
    BY <2>1, <2>2, <2>5
  <2>7. \A i \in 1..n + 1 : IsNewCall(t[i].class) => i > at
    <3> SUFFICES ASSUME NEW i \in 1..n + 1, IsNewCall(t[i].class), ~(i > at) PROVE FALSE
      OBVIOUS
    <3>1. CASE i = at
      BY <2>1, <3>1
    <3>2. CASE i # at
      <4>1. i \in 1..(at - 1) /\ i \in 1..n
        BY <2>1, <3>2
      <4>2. t[i] = s[i]
        BY <2>1, <4>1
      <4> QED BY <2>1, <2>3, <4>1, <4>2
    <3> QED BY <3>1, <3>2
  <2>8. at + 1 <= n + 1 /\ IsNewCall(t[at + 1].class)
    BY <2>1, <2>4
  <2>9. Led(t, TRUE, TRUE)
    BY <2>1, <2>6, <2>7, <2>8 DEF Led
  <2> QED BY <2>9, Zenon DEF t
\* An item taken: the release, if any, is one nearer.
<1>LedPopItem.
    ASSUME NEW E, NEW s \in Seq(E), s # <<>>, ~IsRelease(s[1]),
           NEW released, NEW next, Led(s, released, next)
    PROVE  Led(Tail(s), released, next)
  <2> USE <1>LedPopItem
  <2> DEFINE t == Tail(s)
             n == Len(s)
  <2>1. /\ Len(t) = n - 1 /\ n \in Nat \ {0}
        /\ \A i \in 1..n - 1 : t[i] = s[i + 1]
    BY TailFacts
  <2>2. Led(s, released, next) /\ n = Len(s) /\ ~IsRelease(s[1])
    OBVIOUS
  <2> HIDE DEF t, n
  <2>3. Led(t, released, next)
    <3>1. (released = TRUE) <=> \E r \in 1..Len(t) : IsRelease(t[r])
      <4>1. ASSUME NEW r \in 1..n, IsRelease(s[r]) PROVE r - 1 \in 1..Len(t) /\ IsRelease(t[r - 1])
        BY <2>1, <2>2, <4>1
      <4>2. ASSUME NEW r \in 1..Len(t), IsRelease(t[r]) PROVE r + 1 \in 1..n /\ IsRelease(s[r + 1])
        BY <2>1, <4>2
      <4> QED BY <2>2, <4>1, <4>2 DEF Led
    <3>2. (released = FALSE) => next = FALSE
      BY <2>2 DEF Led
    <3>3. ASSUME NEW r \in 1..Len(t), IsRelease(t[r])
          PROVE  /\ \A i \in 1..Len(t) : IsRelease(t[i]) => i = r
                 /\ \A i \in 1..Len(t) : IsNewCall(t[i].class) => i > r
                 /\ r < Len(t) => IsNewCall(t[r + 1].class)
                 /\ (next = TRUE) <=> r < Len(t)
      <4>1. r + 1 \in 1..n /\ IsRelease(s[r + 1])
        BY <2>1, <3>3
      <4>2. /\ \A i \in 1..n : IsRelease(s[i]) => i = r + 1
            /\ \A i \in 1..n : IsNewCall(s[i].class) => i > r + 1
            /\ r + 1 < n => IsNewCall(s[r + 2].class)
            /\ (next = TRUE) <=> r + 1 < n
        BY <2>2, <4>1 DEF Led
      <4>3. \A i \in 1..Len(t) : i + 1 \in 1..n /\ t[i] = s[i + 1]
        BY <2>1
      <4>4. \A i \in 1..Len(t) : IsRelease(t[i]) => i = r
        BY <2>1, <4>2, <4>3
      <4>5. \A i \in 1..Len(t) : IsNewCall(t[i].class) => i > r
        BY <2>1, <4>2, <4>3
      <4>6. r < Len(t) => IsNewCall(t[r + 1].class)
        BY <2>1, <4>1, <4>2, <4>3
      <4> QED BY <2>1, <4>1, <4>2, <4>4, <4>5, <4>6
    <3> QED BY <3>1, <3>2, <3>3, Zenon DEF Led
  <2> QED BY <2>3 DEF t
\* The release taken: none is left behind it, and the first entry there, if
\* any, is a new call.
<1>LedPopRelease.
    ASSUME NEW E, NEW s \in Seq(E), s # <<>>, IsRelease(s[1]),
           NEW released, NEW next, Led(s, released, next)
    PROVE  /\ Led(Tail(s), FALSE, FALSE)
           /\ Tail(s) # <<>> => next = TRUE /\ IsNewCall(Tail(s)[1].class)
  <2> USE <1>LedPopRelease
  <2> DEFINE t == Tail(s)
             n == Len(s)
  <2>1. /\ Len(t) = n - 1 /\ n \in Nat \ {0} /\ t \in Seq(E)
        /\ \A i \in 1..n - 1 : t[i] = s[i + 1]
    BY TailFacts
  <2>2. /\ \A i \in 1..n : IsRelease(s[i]) => i = 1
        /\ 1 < n => IsNewCall(s[1 + 1].class)
        /\ (next = TRUE) <=> 1 < n
    BY <2>1 DEF Led
  <2> HIDE DEF t, n
  <2>3. \A i \in 1..Len(t) : ~IsRelease(t[i])
    BY <2>1, <2>2
  <2>4. Led(t, FALSE, FALSE)
    BY <2>3 DEF Led
  <2>5. t # <<>> => 1 < n
    BY <2>1
  <2>6. 1 < n => IsNewCall(t[1].class)
    BY <2>1, <2>2
  <2> QED BY <2>2, <2>4, <2>5, <2>6, Zenon DEF t
\* CallQueue::offer keeps the queue's shape and the release's place, and a queue
\* an item is not handed back from holds it last.
<1>OfferKeeps.
    ASSUME NEW E, NEW q \in QueueRecs(E), LedQueue(q),
           NEW item \in E, ~IsRelease(item)
    PROVE  /\ Offer(q, item).queue \in QueueRecs(E) /\ LedQueue(Offer(q, item).queue)
           /\ Offer(q, item).queue.entries =
                 IF Offer(q, item).why = "none" THEN Append(q.entries, item) ELSE q.entries
  <2> USE <1>OfferKeeps
  <2> DEFINE n == Noted(q, item.class)
             why == Discard(n, item.class)
  <2>1. /\ n \in QueueRecs(E) /\ n.entries = q.entries
        /\ n.released = q.released /\ n.nextCall = q.nextCall
    BY NotedKeeps
  <2>2. /\ Offer(q, item).why = why
        /\ why = "none" => Offer(q, item).queue = Queued(n, item)
        /\ why # "none" => Offer(q, item).queue = n
    BY DEF Offer
  <2>3. LedQueue(n)
    BY <2>1 DEF LedQueue
  <2>4. why = "none" /\ n.released = TRUE => n.nextCall = TRUE \/ IsNewCall(item.class)
    BY <2>1 DEF Discard, WaitsForNext, QueueRecs
  <2> HIDE DEF n, why
  <2>5. CASE why # "none"
    BY <2>1, <2>2, <2>3, <2>5
  <2>6. CASE why = "none"
    <3> DEFINE x == n.nextCall \/ WaitsForNext(n, item.class)
               w == IF Full(n) /\ PastBounds(item.class) THEN n.waiting + 1 ELSE n.waiting
               s == Append(n.entries, item)
    <3>1. x \in BOOLEAN /\ w \in Int /\ s \in Seq(E)
      BY <2>1, AppendFacts DEF QueueRecs
    <3>2. (x = TRUE) <=> (n.nextCall = TRUE \/ n.released = TRUE)
      BY <2>1, <2>4, <2>6 DEF WaitsForNext, QueueRecs
    <3>3. Queued(n, item) = [n EXCEPT !.entries = s, !.nextCall = x, !.waiting = w]
      BY <2>1 DEF Queued, QueueRecs
    <3>4. Led(s, n.released, x)
      <4>1. /\ n.entries \in Seq(E) /\ n.released \in BOOLEAN /\ n.nextCall \in BOOLEAN
            /\ Led(n.entries, n.released, n.nextCall)
        BY <2>1, <2>3 DEF QueueRecs, LedQueue
      <4> HIDE DEF x
      <4> QED BY <2>4, <2>6, <3>1, <3>2, <4>1, <1>LedOffer, Zenon
    <3>5. s = Append(q.entries, item)
      BY <2>1
    <3> HIDE DEF x, w, s
    <3>6. /\ Queued(n, item) \in QueueRecs(E) /\ Queued(n, item).entries = s
          /\ Queued(n, item).released = n.released /\ Queued(n, item).nextCall = x
      BY <2>1, <3>1, <3>3, Zenon DEF QueueRecs
    <3> QED BY <2>2, <2>6, <3>4, <3>5, <3>6, Zenon DEF LedQueue
  <2> QED BY <2>5, <2>6
\* The first new call among the entries.
<1>FirstNewCall.
    ASSUME NEW E, NEW q \in QueueRecs(E), NewCalls(q) # {},
           NEW at, at = CHOOSE i \in NewCalls(q) : \A j \in NewCalls(q) : i <= j
    PROVE  /\ at \in 1..Len(q.entries) /\ IsNewCall(q.entries[at].class)
           /\ \A i \in 1..Len(q.entries) : IsNewCall(q.entries[i].class) => at <= i
  <2> USE <1>FirstNewCall
  <2> DEFINE s == q.entries
             N == NewCalls(q)
  <2>1. N = {i \in DOMAIN s : IsNewCall(s[i].class)} /\ N # {} /\ s \in Seq(E)
    BY DEF NewCalls, QueueRecs
  <2>2. at = CHOOSE i \in N : \A j \in N : i <= j
    OBVIOUS
  <2> HIDE DEF s, N
  <2>3. DOMAIN s = 1..Len(s) /\ N \subseteq Nat
    BY <2>1
  <2>4. \E m \in N : \A k \in N : m <= k
    BY <2>1, <2>3, <1>Smallest, Zenon
  <2>5. at \in N /\ \A j \in N : at <= j
    BY <2>2, <2>4, Zenon
  <2>6. /\ at \in 1..Len(s) /\ IsNewCall(s[at].class)
        /\ \A i \in 1..Len(s) : IsNewCall(s[i].class) => at <= i
    BY <2>1, <2>3, <2>5
  <2> QED BY <2>6 DEF s
\* CallQueue::release keeps the queue's shape and puts the release ahead of
\* every new call.
<1>ReleaseKeeps.
    ASSUME NEW E, Holds(E), NEW q \in QueueRecs(E), LedQueue(q)
    PROVE  Release(q) \in QueueRecs(E) /\ LedQueue(Release(q))
  <2> USE <1>ReleaseKeeps
  <2>1. CASE q.released = TRUE
    BY <2>1 DEF Release
  <2>2. CASE q.released = FALSE
    <3>0. ReleaseEntry \in E /\ IsRelease(ReleaseEntry) /\ ~IsNewCall(ReleaseEntry.class)
      BY DEF Holds, IsRelease, ReleaseEntry, IsNewCall
    <3> DEFINE s == q.entries
    <3>1. /\ s \in Seq(E) /\ q.nextCall \in BOOLEAN /\ Led(s, FALSE, q.nextCall)
          /\ DOMAIN s = 1..Len(s)
      <4>1. s \in Seq(E) /\ q.nextCall \in BOOLEAN /\ DOMAIN s = 1..Len(s)
        BY DEF QueueRecs
      <4>2. Led(s, FALSE, q.nextCall)
        BY <2>2, Zenon DEF LedQueue
      <4> QED BY <4>1, <4>2, Zenon
    <3>2. CASE NewCalls(q) = {}
      <4>1. \A i \in 1..Len(s) : ~IsNewCall(s[i].class)
        BY <3>1, <3>2 DEF NewCalls
      <4>2. Release(q) = [q EXCEPT !.released = TRUE, !.entries = Append(s, ReleaseEntry)]
        BY <2>2, <3>2 DEF Release, QueueRecs
      <4> HIDE DEF s
      <4>3. Led(Append(s, ReleaseEntry), TRUE, q.nextCall)
        BY <3>0, <3>1, <4>1, <1>LedReleaseLast, Zenon
      <4>4. Append(s, ReleaseEntry) \in Seq(E)
        BY <3>0, <3>1, AppendFacts
      <4> DEFINE t == Append(s, ReleaseEntry)
      <4> HIDE DEF t
      <4>5. Release(q) = [q EXCEPT !.released = TRUE, !.entries = t] /\ t \in Seq(E)
        BY <4>2, <4>4 DEF t
      <4>6. /\ Release(q) \in QueueRecs(E) /\ Release(q).entries = t /\ Release(q).released = TRUE
            /\ Release(q).nextCall = q.nextCall
        BY <4>5, Zenon DEF QueueRecs
      <4> QED BY <4>3, <4>6, Zenon DEF LedQueue, t
    <3>3. CASE NewCalls(q) # {}
      <4> DEFINE at == CHOOSE i \in NewCalls(q) : \A j \in NewCalls(q) : i <= j
                 moves == at <= Depth /\ Full(q) /\ PastBounds(q.entries[Depth].class)
                 w == IF moves THEN q.waiting + 1 ELSE q.waiting
                 t == InsertedAt(s, at, ReleaseEntry)
      <4>1. Release(q) = [q EXCEPT !.released = TRUE, !.nextCall = TRUE, !.entries = t, !.waiting = w]
        BY <2>2, <3>3 DEF Release, QueueRecs
      <4>2. w \in Int
        BY DEF QueueRecs
      <4>3. /\ at \in 1..Len(s) /\ IsNewCall(s[at].class)
            /\ \A i \in 1..Len(s) : IsNewCall(s[i].class) => at <= i
        BY <3>3, <1>FirstNewCall
      <4> HIDE DEF s, at, w
      <4>4. t \in Seq(E)
        BY <3>0, <3>1, <4>3, <1>InsertFacts
      <4>5. Led(t, TRUE, TRUE)
        BY <3>0, <3>1, <4>3, <1>LedReleaseCutsIn, Zenon
      <4> HIDE DEF t
      <4>6. /\ Release(q) \in QueueRecs(E) /\ Release(q).entries = t /\ Release(q).released = TRUE
            /\ Release(q).nextCall = TRUE
        BY <4>1, <4>2, <4>4, Zenon DEF QueueRecs
      <4> QED BY <4>5, <4>6, Zenon DEF LedQueue
    <3> QED BY <3>2, <3>3
  <2> QED BY <2>1, <2>2, Zenon DEF QueueRecs
\* CallQueue::pop and reopen keep the queue's shape and the release's place; when
\* the release is taken, what is left is a new call and what follows it.
<1>PopKeeps.
    ASSUME NEW E, NEW q \in QueueRecs(E), LedQueue(q), q.entries # <<>>
    PROVE  /\ Popped(q) \in QueueRecs(E) /\ Popped(q).entries = Tail(q.entries)
           /\ ~IsRelease(Head(q.entries)) => LedQueue(Popped(q))
           /\ IsRelease(Head(q.entries)) =>
                 /\ Reopened(Popped(q)) \in QueueRecs(E) /\ LedQueue(Reopened(Popped(q)))
                 /\ Popped(q).entries # <<>> =>
                       q.nextCall = TRUE /\ IsNewCall(Popped(q).entries[1].class)
  <2> USE <1>PopKeeps
  <2> DEFINE s == q.entries
             t == Tail(s)
             w == IF Len(t) >= Depth /\ PastBounds(t[Depth].class) THEN q.waiting - 1 ELSE q.waiting
  <2>1. /\ s \in Seq(E) /\ s # <<>> /\ t \in Seq(E) /\ Head(s) = s[1]
        /\ Led(s, q.released, q.nextCall)
    BY TailFacts DEF QueueRecs, LedQueue
  <2>2. w \in Int
    BY DEF QueueRecs
  <2>3. Popped(q) = [q EXCEPT !.entries = t, !.waiting = w]
    BY DEF Popped, QueueRecs
  <2> HIDE DEF s, t, w
  <2>4. /\ Popped(q) \in QueueRecs(E) /\ Popped(q).entries = t
        /\ Popped(q).released = q.released /\ Popped(q).nextCall = q.nextCall
    BY <2>1, <2>2, <2>3, Zenon DEF QueueRecs
  <2>5. ~IsRelease(s[1]) => Led(t, q.released, q.nextCall)
    BY <2>1, <1>LedPopItem DEF t
  <2>6. IsRelease(s[1]) => Led(t, FALSE, FALSE) /\ (t # <<>> => q.nextCall = TRUE /\ IsNewCall(t[1].class))
    BY <2>1, <1>LedPopRelease, Zenon DEF t
  <2> DEFINE p == Popped(q)
  <2>7. p \in QueueRecs(E) /\ p.entries = t
    BY <2>4
  <2> HIDE DEF p
  <2>8. /\ Reopened(p) \in QueueRecs(E) /\ Reopened(p).entries = t
        /\ Reopened(p).released = FALSE /\ Reopened(p).nextCall = FALSE
    BY <2>7, Zenon DEF Reopened, QueueRecs
  <2> QED BY <2>1, <2>4, <2>5, <2>6, <2>8, Zenon DEF LedQueue, p, t, s
\* Places moved one by one are as many.
<1>MovedCount.
    ASSUME NEW S, NEW T, IsFiniteSet(S), NEW f \in [S -> T],
           \A x, y \in S : f[x] = f[y] => x = y,
           \A y \in T : \E x \in S : f[x] = y
    PROVE  Cardinality(T) = Cardinality(S)
  <2> USE <1>MovedCount
  <2>1. f \in Bijection(S, T)
    BY Zenon DEF Bijection, Injection, Surjection, IsInjective
  <2>2. ExistsBijection(S, T)
    BY <2>1 DEF ExistsBijection
  <2> QED BY <2>2, FS_Bijection
\* An entry queued at the back is counted when it is a past-bounds item behind
\* the first Depth entries.
<1>OverAppend.
    ASSUME NEW E, NEW s \in Seq(E), NEW e \in E
    PROVE  Cardinality(Over(Append(s, e))) =
              Cardinality(Over(s)) + (IF Len(s) >= Depth /\ PastBounds(e.class) THEN 1 ELSE 0)
  <2> USE <1>OverAppend
  <2> DEFINE t == Append(s, e)
             n == Len(s)
  <2>1. /\ Len(t) = n + 1 /\ n \in Nat /\ t[n + 1] = e
        /\ \A i \in 1..n : t[i] = s[i]
    BY AppendFacts
  <2>2. IsFiniteSet(Over(s)) /\ Depth \in Nat \ {0} /\ Cardinality(Over(s)) \in Nat
    BY OverFinite
  <2>3. Over(s) = {i \in (Depth + 1)..n : PastBounds(s[i].class)}
    BY DEF Over
  <2> HIDE DEF t, n
  <2>4. \A i \in (Depth + 1)..n : i \in 1..n /\ t[i] = s[i]
    BY <2>1, <2>2
  <2>5. CASE n >= Depth /\ PastBounds(e.class)
    <3>1. Over(t) = Over(s) \cup {n + 1}
      BY <2>1, <2>2, <2>3, <2>4, <2>5 DEF Over
    <3>2. n + 1 \notin Over(s)
      BY <2>1, <2>3
    <3>3. Cardinality(Over(t)) = Cardinality(Over(s)) + 1
      BY <2>2, <3>1, <3>2, FS_AddElement, Zenon
    <3> QED BY <2>5, <3>3 DEF t, n
  <2>6. CASE ~(n >= Depth /\ PastBounds(e.class))
    <3>1. Over(t) = Over(s)
      BY <2>1, <2>2, <2>3, <2>4, <2>6 DEF Over
    <3> QED BY <2>2, <2>6, <3>1 DEF t, n
  <2> QED BY <2>5, <2>6
\* An entry that is no past-bounds item cut in: one entry is pushed over the line
\* when it goes in ahead of it.
<1>OverInsert.
    ASSUME NEW E, NEW s \in Seq(E), NEW e \in E, ~PastBounds(e.class), NEW at \in 1..Len(s)
    PROVE  Cardinality(Over(InsertedAt(s, at, e))) =
              Cardinality(Over(s))
                + (IF at <= Depth /\ Len(s) >= Depth /\ PastBounds(s[Depth].class) THEN 1 ELSE 0)
  <2> USE <1>OverInsert
  <2> DEFINE t == InsertedAt(s, at, e)
             n == Len(s)
             f == [i \in Over(s) |-> IF i >= at THEN i + 1 ELSE i]
  <2>1. /\ Len(t) = n + 1 /\ n \in Nat /\ at \in 1..n /\ t[at] = e
        /\ \A i \in 1..(at - 1) : t[i] = s[i]
        /\ \A i \in at..n : t[i + 1] = s[i]
    BY <1>InsertFacts
  <2>2. IsFiniteSet(Over(s)) /\ Depth \in Nat \ {0} /\ Cardinality(Over(s)) \in Nat
    BY OverFinite
  <2>3. Over(s) = {i \in (Depth + 1)..n : PastBounds(s[i].class)}
    BY DEF Over
  <2>4. Over(t) = {i \in (Depth + 1)..(n + 1) : PastBounds(t[i].class)}
    BY <2>1 DEF Over
  <2>5. \A i \in Over(s) : i \in (Depth + 1)..n /\ i \in Nat
    BY <2>1, <2>2, <2>3
  <2> HIDE DEF t, n
  <2> DEFINE moves == at <= Depth /\ n >= Depth /\ PastBounds(s[Depth].class)
             T == IF moves THEN Over(t) \ {Depth + 1} ELSE Over(t)
  <2>6. f \in [Over(s) -> T]
    <3> SUFFICES ASSUME NEW i \in Over(s) PROVE (IF i >= at THEN i + 1 ELSE i) \in T
      OBVIOUS
    <3>1. i \in (Depth + 1)..n /\ PastBounds(s[i].class)
      BY <2>3
    <3>2. CASE i >= at
      <4>1. i \in at..n /\ t[i + 1] = s[i]
        BY <2>1, <2>2, <3>1, <3>2
      <4>2. i + 1 \in (Depth + 1)..(n + 1) /\ i + 1 # Depth + 1
        BY <2>1, <2>2, <3>1
      <4> QED BY <2>4, <3>1, <3>2, <4>1, <4>2
    <3>3. CASE ~(i >= at)
      <4>1. i \in 1..(at - 1) /\ t[i] = s[i]
        BY <2>1, <2>2, <3>1, <3>3
      <4>2. i \in (Depth + 1)..(n + 1) /\ ~moves
        BY <2>1, <2>2, <3>1, <3>3
      <4> QED BY <2>4, <3>1, <3>3, <4>1, <4>2
    <3> QED BY <3>2, <3>3
  <2>7. \A x, y \in Over(s) : f[x] = f[y] => x = y
    BY <2>1, <2>5
  <2>8. \A y \in T : \E x \in Over(s) : f[x] = y
    <3> SUFFICES ASSUME NEW y \in T PROVE \E x \in Over(s) : f[x] = y
      OBVIOUS
    <3>1. y \in (Depth + 1)..(n + 1) /\ PastBounds(t[y].class) /\ (moves => y # Depth + 1)
      BY <2>4
    <3>2. y # at
      BY <2>1, <3>1
    <3>3. CASE y < at
      <4>1. y \in 1..(at - 1) /\ t[y] = s[y] /\ y \in (Depth + 1)..n
        BY <2>1, <2>2, <3>1, <3>3
      <4>2. y \in Over(s)
        BY <2>3, <3>1, <4>1
      <4>3. f[y] = y
        BY <2>1, <3>1, <3>3, <4>2
      <4> QED BY <4>2, <4>3
    <3>4. CASE y > at
      <4> DEFINE x == y - 1
      <4>1. x \in at..n /\ x + 1 = y /\ x >= Depth
        BY <2>1, <2>2, <3>1, <3>4
      <4>2. t[x + 1] = s[x]
        BY <2>1, <4>1
      <4>3. PastBounds(s[x].class)
        BY <3>1, <4>1, <4>2
      <4>4. x # Depth
        <5>1. x = Depth => at <= Depth /\ n >= Depth /\ PastBounds(s[Depth].class) /\ y = Depth + 1
          BY <2>1, <2>2, <4>1, <4>3
        <5> QED BY <3>1, <5>1
      <4>5. x \in (Depth + 1)..n
        BY <2>1, <2>2, <4>1, <4>4
      <4>6. x \in Over(s)
        BY <2>3, <4>3, <4>5
      <4>7. f[x] = y
        BY <2>1, <4>1, <4>6
      <4> QED BY <4>6, <4>7
    <3> QED BY <2>1, <2>2, <3>1, <3>2, <3>3, <3>4
  <2>9. Cardinality(T) = Cardinality(Over(s))
    <3> HIDE DEF f, T
    <3> QED BY <2>2, <2>6, <2>7, <2>8, <1>MovedCount
  <2>10. CASE moves
    <3>1. t[Depth + 1] = s[Depth] /\ Depth + 1 \in (Depth + 1)..(n + 1)
      BY <2>1, <2>2, <2>10
    <3>2. Depth + 1 \in Over(t)
      BY <2>4, <2>10, <3>1
    <3>3. t \in Seq(E)
      BY <1>InsertFacts DEF t
    <3>4. IsFiniteSet(Over(t)) /\ Cardinality(Over(t)) \in Nat
      BY <3>3, OverFinite
    <3>5. Cardinality(Over(t) \ {Depth + 1}) = Cardinality(Over(t)) - 1
      BY <3>2, <3>4, FS_RemoveElement, Zenon
    <3>6. Cardinality(Over(t)) = Cardinality(Over(s)) + 1
      BY <2>2, <2>9, <2>10, <3>4, <3>5
    <3> QED BY <2>10, <3>6 DEF t, n
  <2>11. CASE ~moves
    <3>1. Cardinality(Over(t)) = Cardinality(Over(s))
      BY <2>9, <2>11
    <3> QED BY <2>2, <2>11, <3>1 DEF t, n
  <2> QED BY <2>10, <2>11
\* The oldest entry taken: the first entry behind the line moves ahead of it.
<1>OverTail.
    ASSUME NEW E, NEW s \in Seq(E), s # <<>>
    PROVE  LET out == Len(Tail(s)) >= Depth /\ PastBounds(Tail(s)[Depth].class)
           IN  /\ Cardinality(Over(Tail(s))) = Cardinality(Over(s)) - (IF out THEN 1 ELSE 0)
               /\ out <=> Len(s) > Depth /\ PastBounds(s[Depth + 1].class)
  <2> USE <1>OverTail
  <2> DEFINE t == Tail(s)
             n == Len(s)
             S == Over(s) \ {Depth + 1}
             f == [i \in S |-> i - 1]
             out == Len(t) >= Depth /\ PastBounds(t[Depth].class)
  <2>1. /\ Len(t) = n - 1 /\ n \in Nat \ {0}
        /\ \A i \in 1..n - 1 : t[i] = s[i + 1]
    BY TailFacts
  <2>2. IsFiniteSet(Over(s)) /\ Depth \in Nat \ {0} /\ Cardinality(Over(s)) \in Nat
    BY OverFinite
  <2>3. Over(s) = {i \in (Depth + 1)..n : PastBounds(s[i].class)}
    BY DEF Over
  <2>4. Over(t) = {i \in (Depth + 1)..(n - 1) : PastBounds(t[i].class)}
    BY <2>1, Zenon DEF Over
  <2>5. out <=> n > Depth /\ PastBounds(s[Depth + 1].class)
    BY <2>1, <2>2
  <2>6. out <=> Depth + 1 \in Over(s)
    BY <2>1, <2>2, <2>3, <2>5
  <2> HIDE DEF t, n, out
  <2>7. f \in [S -> Over(t)]
    <3> SUFFICES ASSUME NEW i \in S PROVE i - 1 \in Over(t)
      OBVIOUS
    <3>1. i \in (Depth + 2)..n /\ PastBounds(s[i].class)
      BY <2>1, <2>2, <2>3
    <3>2. i - 1 \in (Depth + 1)..(n - 1) /\ i - 1 \in 1..n - 1 /\ (i - 1) + 1 = i
      BY <2>1, <2>2, <3>1
    <3>3. t[i - 1] = s[i]
      BY <2>1, <3>2
    <3> QED BY <2>4, <3>1, <3>2, <3>3
  <2>8. \A x, y \in S : f[x] = f[y] => x = y
    BY <2>1, <2>2, <2>3
  <2>9. \A y \in Over(t) : \E x \in S : f[x] = y
    <3> SUFFICES ASSUME NEW y \in Over(t) PROVE \E x \in S : f[x] = y
      OBVIOUS
    <3>1. y \in (Depth + 1)..(n - 1) /\ PastBounds(t[y].class)
      BY <2>4
    <3>2. y + 1 \in (Depth + 1)..n /\ y + 1 # Depth + 1 /\ y \in 1..n - 1
      BY <2>1, <2>2, <3>1
    <3>3. t[y] = s[y + 1]
      BY <2>1, <3>2
    <3>4. y + 1 \in S
      BY <2>3, <3>1, <3>2, <3>3
    <3>5. f[y + 1] = y
      BY <2>2, <3>1, <3>4
    <3> QED BY <3>4, <3>5
  <2>10. IsFiniteSet(S)
    BY <2>2, FS_Subset
  <2>11. Cardinality(Over(t)) = Cardinality(S)
    <3> HIDE DEF f, S
    <3> QED BY <2>7, <2>8, <2>9, <2>10, <1>MovedCount
  <2>12. Cardinality(S) = IF out THEN Cardinality(Over(s)) - 1 ELSE Cardinality(Over(s))
    BY <2>2, <2>6, FS_RemoveElement, Zenon
  <2>13. Cardinality(Over(t)) = Cardinality(Over(s)) - (IF out THEN 1 ELSE 0)
    BY <2>2, <2>11, <2>12
  <2> QED BY <2>5, <2>13, Zenon DEF t, n, out
\* CallQueue::offer: an item that would go past the ceiling is handed back.
<1>OfferCounts.
    ASSUME NEW E, NEW q \in QueueRecs(E), CountedQueue(q), NEW item \in E
    PROVE  CountedQueue(Offer(q, item).queue)
  <2> USE <1>OfferCounts
  <2> DEFINE n == Noted(q, item.class)
             why == Discard(n, item.class)
             s == q.entries
  <2>1. /\ n \in QueueRecs(E) /\ n.entries = s /\ n.released = q.released /\ n.waiting = q.waiting
    <3>1. n \in QueueRecs(E)
      BY NotedKeeps, Zenon
    <3>2. n.entries = s /\ n.released = q.released /\ n.waiting = q.waiting
      BY DEF Noted, QueueRecs
    <3> QED BY <3>1, <3>2
  <2>2. /\ why = "none" => Offer(q, item).queue = Queued(n, item)
        /\ why # "none" => Offer(q, item).queue = n
    BY DEF Offer
  <2>3. s \in Seq(E) /\ q.waiting \in Int /\ Counted(s, q.waiting, q.released)
    BY DEF QueueRecs, CountedQueue
  <2>4. why = "none" => ~(Len(s) >= Depth /\ PastBounds(item.class) /\ q.waiting >= Depth)
    BY <2>1 DEF Discard, Full
  <2> DEFINE w == IF Len(s) >= Depth /\ PastBounds(item.class) THEN q.waiting + 1 ELSE q.waiting
             t == Append(s, item)
             x == n.nextCall \/ WaitsForNext(n, item.class)
  <2>5. Queued(n, item) = [n EXCEPT !.entries = t, !.nextCall = x, !.waiting = w]
    BY <2>1 DEF Queued, QueueRecs, Full
  <2> HIDE DEF n, why, s, x
  <2>6. CASE why # "none"
    BY <2>1, <2>2, <2>3, <2>6 DEF CountedQueue
  <2>7. CASE why = "none"
    <3>1. /\ Cardinality(Over(t)) = Cardinality(Over(s)) + (IF Len(s) >= Depth /\ PastBounds(item.class) THEN 1 ELSE 0)
          /\ Cardinality(Over(s)) \in Nat /\ Depth \in Nat \ {0} /\ Len(s) \in Nat
          /\ Len(t) = Len(s) + 1 /\ \A i \in 1..Len(s) : t[i] = s[i]
      BY <2>3, <1>OverAppend, OverFinite, AppendFacts
    <3> HIDE DEF t
    <3>2. w = Cardinality(Over(t))
      BY <2>3, <3>1 DEF Counted
    <3>3. w <= Depth \/ /\ w <= Depth + 1 /\ q.released = TRUE
                        /\ Len(t) > Depth /\ PastBounds(t[Depth + 1].class)
      <4>1. CASE q.waiting <= Depth
        BY <2>3, <2>4, <2>7, <3>1, <4>1
      <4>2. CASE ~(q.waiting <= Depth)
        <5>1. /\ q.waiting <= Depth + 1 /\ q.released = TRUE
              /\ Len(s) > Depth /\ PastBounds(s[Depth + 1].class)
          BY <2>3, <4>2 DEF Counted
        <5>2. Depth + 1 \in 1..Len(s)
          BY <3>1, <5>1
        <5>3. t[Depth + 1] = s[Depth + 1]
          BY <3>1, <5>2
        <5>4. w = q.waiting
          BY <2>3, <2>4, <2>7, <3>1, <4>2
        <5> QED BY <3>1, <5>1, <5>3, <5>4
      <4> QED BY <4>1, <4>2, Zenon
    <3> HIDE DEF w
    <3>4. /\ Queued(n, item).entries = t /\ Queued(n, item).waiting = w
          /\ Queued(n, item).released = q.released
      BY <2>1, <2>5 DEF QueueRecs
    <3> QED BY <2>2, <2>7, <3>2, <3>3, <3>4 DEF CountedQueue, Counted
  <2> QED BY <2>6, <2>7
\* CallQueue::release counts the item it pushes over the line.
<1>ReleaseCounts.
    ASSUME NEW E, Holds(E), NEW q \in QueueRecs(E), CountedQueue(q)
    PROVE  CountedQueue(Release(q))
  <2> USE <1>ReleaseCounts
  <2> DEFINE s == q.entries
  <2>0. /\ s \in Seq(E) /\ DOMAIN s = 1..Len(s) /\ q.waiting \in Int /\ q.released \in BOOLEAN
        /\ Counted(s, q.waiting, q.released)
        /\ ReleaseEntry \in E /\ ~PastBounds(ReleaseEntry.class)
    BY DEF QueueRecs, CountedQueue, Holds, ReleaseEntry, PastBounds
  <2>1. /\ Cardinality(Over(s)) \in Nat /\ Depth \in Nat \ {0} /\ Len(s) \in Nat
    BY <2>0, OverFinite
  <2>2. CASE q.released = TRUE
    BY <2>2 DEF Release
  <2>3. CASE q.released = FALSE
    <3>0. q.waiting = Cardinality(Over(s)) /\ q.waiting <= Depth
      BY <2>0, <2>3 DEF Counted
    <3>1. CASE NewCalls(q) = {}
      <4> DEFINE t == Append(s, ReleaseEntry)
      <4>1. Release(q) = [q EXCEPT !.released = TRUE, !.entries = t]
        BY <2>3, <3>1 DEF Release, QueueRecs
      <4>2. Cardinality(Over(t)) = Cardinality(Over(s)) + 0
        BY <2>0, <1>OverAppend
      <4> HIDE DEF s, t
      <4>3. Release(q).entries = t /\ Release(q).waiting = q.waiting
        BY <4>1 DEF QueueRecs
      <4> QED BY <2>1, <3>0, <4>2, <4>3 DEF CountedQueue, Counted
    <3>2. CASE NewCalls(q) # {}
      <4> DEFINE at == CHOOSE i \in NewCalls(q) : \A j \in NewCalls(q) : i <= j
                 moves == at <= Depth /\ Full(q) /\ PastBounds(s[Depth].class)
                 w == IF moves THEN q.waiting + 1 ELSE q.waiting
                 t == InsertedAt(s, at, ReleaseEntry)
      <4>1. Release(q) = [q EXCEPT !.released = TRUE, !.nextCall = TRUE, !.entries = t, !.waiting = w]
        BY <2>3, <3>2 DEF Release, QueueRecs
      <4>2. at \in 1..Len(s)
        BY <2>0, <3>2, <1>FirstNewCall
      <4>3. moves <=> at <= Depth /\ Len(s) >= Depth /\ PastBounds(s[Depth].class)
        BY DEF Full
      <4> HIDE DEF at, moves, s
      <4>4. /\ Cardinality(Over(t)) = Cardinality(Over(s)) + (IF moves THEN 1 ELSE 0)
            /\ t \in Seq(E) /\ Len(t) = Len(s) + 1 /\ \A i \in at..Len(s) : t[i + 1] = s[i]
        <5>1. Cardinality(Over(t)) = Cardinality(Over(s))
                 + (IF at <= Depth /\ Len(s) >= Depth /\ PastBounds(s[Depth].class) THEN 1 ELSE 0)
          BY <2>0, <4>2, <1>OverInsert, Zenon
        <5>2. t \in Seq(E) /\ Len(t) = Len(s) + 1 /\ \A i \in at..Len(s) : t[i + 1] = s[i]
          BY <2>0, <4>2, <1>InsertFacts
        <5> QED BY <4>3, <5>1, <5>2
      <4> HIDE DEF t
      <4>5. w = Cardinality(Over(t))
        BY <2>1, <3>0, <4>4
      <4>6. w <= Depth \/ (w <= Depth + 1 /\ Len(t) > Depth /\ PastBounds(t[Depth + 1].class))
        <5>1. CASE moves
          <6>1. Depth \in at..Len(s) /\ PastBounds(s[Depth].class)
            BY <2>1, <4>2, <4>3, <5>1
          <6>2. t[Depth + 1] = s[Depth]
            BY <4>4, <6>1
          <6> QED BY <2>1, <3>0, <4>3, <4>4, <5>1, <6>1, <6>2
        <5>2. CASE ~moves
          BY <3>0, <5>2
        <5> QED BY <5>1, <5>2
      <4> HIDE DEF w
      <4>7. Release(q).entries = t /\ Release(q).waiting = w /\ Release(q).released = TRUE
        BY <4>1 DEF QueueRecs
      <4> QED BY <4>5, <4>6, <4>7 DEF CountedQueue, Counted
    <3> QED BY <3>1, <3>2
  <2> QED BY <2>0, <2>2, <2>3, Zenon
\* CallQueue::pop and reopen: one taken brings the count back below the ceiling.
<1>PopCounts.
    ASSUME NEW E, NEW q \in QueueRecs(E), CountedQueue(q), q.entries # <<>>
    PROVE  CountedQueue(Popped(q)) /\ CountedQueue(Reopened(Popped(q)))
  <2> USE <1>PopCounts
  <2> DEFINE s == q.entries
             t == Tail(s)
             out == Len(t) >= Depth /\ PastBounds(t[Depth].class)
             w == IF out THEN q.waiting - 1 ELSE q.waiting
  <2>1. s \in Seq(E) /\ s # <<>> /\ q.waiting \in Int /\ Counted(s, q.waiting, q.released)
    BY DEF QueueRecs, CountedQueue
  <2>2. Popped(q) = [q EXCEPT !.entries = t, !.waiting = w]
    BY DEF Popped, QueueRecs
  <2>3. t \in Seq(E) /\ Depth \in Nat \ {0} /\ Cardinality(Over(s)) \in Nat
    BY <2>1, TailFacts, OverFinite
  <2>4. /\ Cardinality(Over(t)) = Cardinality(Over(s)) - (IF out THEN 1 ELSE 0)
        /\ out <=> Len(s) > Depth /\ PastBounds(s[Depth + 1].class)
    BY <2>1, <1>OverTail, Zenon
  <2> HIDE DEF s, t, out
  <2>5. w = Cardinality(Over(t)) /\ w <= Depth
    BY <2>1, <2>3, <2>4 DEF Counted
  <2> HIDE DEF w
  <2> DEFINE p == Popped(q)
  <2>6. p.entries = t /\ p.waiting = w
    BY <2>2 DEF QueueRecs
  <2>7. p \in [entries : {t}, released : BOOLEAN, nextCall : BOOLEAN, waiting : {w},
                offered : Nat, nextOffered : Nat, capped : BOOLEAN]
    BY <2>2, Zenon DEF QueueRecs
  <2> HIDE DEF p
  <2>8. Reopened(p).entries = t /\ Reopened(p).waiting = w
    BY <2>7 DEF Reopened
  <2> QED BY <2>5, <2>6, <2>8 DEF CountedQueue, Counted, p
\* The operations, from what each keeps.
<1> SUFFICES
    ASSUME NEW E, Holds(E), NEW q \in QueueRecs(E), Sound(q)
    PROVE  /\ \A item \in E : ~IsRelease(item) =>
                 /\ Offer(q, item).queue \in QueueRecs(E) /\ Sound(Offer(q, item).queue)
                 /\ Offer(q, item).queue.entries =
                       IF Offer(q, item).why = "none" THEN Append(q.entries, item) ELSE q.entries
           /\ Release(q) \in QueueRecs(E) /\ Sound(Release(q))
           /\ q.entries # <<>> /\ ~IsRelease(Head(q.entries)) =>
                 /\ Popped(q) \in QueueRecs(E) /\ Sound(Popped(q))
                 /\ Popped(q).entries = Tail(q.entries)
           /\ q.entries # <<>> /\ IsRelease(Head(q.entries)) =>
                 /\ Reopened(Popped(q)) \in QueueRecs(E) /\ Sound(Reopened(Popped(q)))
                 /\ Popped(q).entries = Tail(q.entries)
  OBVIOUS
<1>1. LedQueue(q) /\ CountedQueue(q)
  BY DEF Sound
<1>2. ASSUME NEW item \in E, ~IsRelease(item)
      PROVE  /\ Offer(q, item).queue \in QueueRecs(E) /\ Sound(Offer(q, item).queue)
             /\ Offer(q, item).queue.entries =
                   IF Offer(q, item).why = "none" THEN Append(q.entries, item) ELSE q.entries
  BY <1>1, <1>2, <1>OfferKeeps, <1>OfferCounts DEF Sound
<1>3. Release(q) \in QueueRecs(E) /\ Sound(Release(q))
  BY <1>1, <1>ReleaseKeeps, <1>ReleaseCounts DEF Sound
<1>4. ASSUME q.entries # <<>>
      PROVE  /\ Popped(q) \in QueueRecs(E) /\ Popped(q).entries = Tail(q.entries)
             /\ ~IsRelease(Head(q.entries)) => Sound(Popped(q))
             /\ IsRelease(Head(q.entries)) =>
                   Reopened(Popped(q)) \in QueueRecs(E) /\ Sound(Reopened(Popped(q)))
  BY <1>1, <1>4, <1>PopKeeps, <1>PopCounts, Zenon DEF Sound
<1> QED BY <1>2, <1>3, <1>4

-----------------------------------------------------------------------------

\* An item: a verdict is internal, and an INVITE a new call.
ItemRecs ==
    {i \in [class : Classes, kind : Kinds \ {"none"}, check : Nat] :
        /\ i.kind \in VerdictKinds => i.class = "Internal"
        /\ i.kind \in {"invite", "copy"} => IsNewCall(i.class)}

VerdictRecs == {i \in ItemRecs : i.kind \in VerdictKinds}

\* What a queue holds.
QueueEntries == ItemRecs \cup {ReleaseEntry}

Queues == QueueRecs(QueueEntries) \cup {NoQueue}

Resting == {"none", "pop", "empty", "asleep"}
Bodies == {"body", "hung", "ending"}

\* A worker has an item while it waits for permits or runs a body, and only a
\* body is aborted.
WorkerRecs ==
    {w \in [at : Resting \cup {"share", "pool"} \cup Bodies, item : ItemRecs \cup {NoItem},
            abort : BOOLEAN, wake : BOOLEAN] :
        /\ w.at \in Resting <=> w.item = NoItem
        /\ w.abort = TRUE => w.at \in Bodies}

CallRecs ==
    {k \in [stage : {"none", "active", "terminating"}, born : Nat, stamp : Nat,
            timer : BOOLEAN, idle : BOOLEAN] :
        k.timer = TRUE => k.stage = "terminating"}

Rungs == 0..(EscalateDischargeAfter + 1)

LedgerRecs ==
    [strikes : {0, 1, 2}, attempts : Rungs, condemned : BOOLEAN, condemnedAttempts : Rungs,
     overflowAbort : BOOLEAN, capped : BOOLEAN, heard : BOOLEAN]

\* One reference: its queue q, worker w, the wake b about to be rung, the bodies
\* l started since the halt, and whether the node halted.
OneOK(q, w, b, l, h) ==
    /\ q # NoQueue => Sound(q)
    /\ w.at # "none" => q # NoQueue
    /\ h = FALSE => /\ q # NoQueue => w.at # "none"
                    /\ w.at \in {"empty", "asleep"} /\ q.entries # <<>> => w.wake = TRUE \/ b = TRUE
                    /\ l = 0
    /\ l = 1 => w.at \notin {"share", "pool"}

OK(c) == OneOK(slots[c], worker[c], ringing[c], late[c], halted)

DispatchTyped ==
    /\ slots \in [Calls -> Queues] /\ worker \in [Calls -> WorkerRecs]
    /\ ringing \in [Calls -> BOOLEAN] /\ late \in [Calls -> {0, 1}]
    /\ halted \in BOOLEAN
    /\ posted \in [Calls -> Seq(VerdictRecs)] /\ call \in [Calls -> CallRecs]
    /\ ledger \in [Calls -> LedgerRecs]

Sharing ==
    /\ Cardinality({c \in Calls : InBody(c)}) <= Concurrency
    /\ Cardinality({c \in Calls : HoldsShare(c)}) <= NewCallShare

DispatchInv == DispatchTyped /\ (\A c \in Calls : OK(c)) /\ Sharing

\* What a step on one reference leaves of it and of the others.
Effect(c) ==
    /\ slots' \in [Calls -> Queues] /\ worker' \in [Calls -> WorkerRecs]
    /\ ringing' \in [Calls -> BOOLEAN] /\ late' \in [Calls -> {0, 1}]
    /\ halted' = halted
    /\ \A d \in Calls \ {c} :
          slots'[d] = slots[d] /\ worker'[d] = worker[d] /\ ringing'[d] = ringing[d] /\ late'[d] = late[d]
    /\ OneOK(slots'[c], worker'[c], ringing'[c], late'[c], halted)
    /\ slots[c] # NoQueue /\ slots'[c] = NoQueue => slots[c].entries = <<ReleaseEntry>>

\* What it leaves of the calls, of the verdicts posted and of the ledgers.
Leaves(c) ==
    /\ call' \in [Calls -> CallRecs] /\ posted' \in [Calls -> Seq(VerdictRecs)]
    /\ ledger' \in [Calls -> LedgerRecs]
    /\ \A d \in Calls \ {c} : call'[d] = call[d] /\ posted'[d] = posted[d] /\ ledger'[d] = ledger[d]

\* The step takes no permit.
NoMore(c) == (InBody(c)' => InBody(c)) /\ (HoldsShare(c)' => HoldsShare(c))

-----------------------------------------------------------------------------
(* Shapes. *)

\* A queue is told from no queue, and an item from the release.
LEMMA Shapes ==
    /\ \A q \in QueueRecs(QueueEntries) : q # NoQueue
    /\ Holds(QueueEntries)
    /\ \A e \in ItemRecs : ~IsRelease(e) /\ e # ReleaseEntry
    /\ IsRelease(ReleaseEntry)
    /\ NewQueue \in QueueRecs(QueueEntries) /\ Sound(NewQueue) /\ NewQueue.entries = <<>>
    /\ NoItem \notin ItemRecs /\ NoWorker \in WorkerRecs
    /\ NoWorker.at = "none" /\ NoWorker.item = NoItem
    /\ \A k \in VerdictKinds, n \in Nat : Item("Internal", k, n) \in VerdictRecs
    /\ \A k \in VerdictKinds : Verdict(k) \in VerdictRecs
    /\ VerdictRecs \subseteq ItemRecs
<1>1. ASSUME NEW q \in QueueRecs(QueueEntries) PROVE q # NoQueue
  <2>1. "entries" \in DOMAIN q
    BY DEF QueueRecs
  <2>2. "entries" \notin DOMAIN NoQueue
    BY DEF NoQueue
  <2> QED BY <2>1, <2>2
<1>2. Holds(QueueEntries)
  BY DEF Holds, QueueEntries
<1>3. ASSUME NEW e \in ItemRecs PROVE ~IsRelease(e) /\ e # ReleaseEntry
  BY DEF ItemRecs, IsRelease, ReleaseEntry, Classes
<1>4. IsRelease(ReleaseEntry)
  BY DEF IsRelease, ReleaseEntry
<1>5. NewQueue \in QueueRecs(QueueEntries) /\ NewQueue.entries = <<>>
  BY DEF NewQueue, QueueRecs
<1>6. Sound(NewQueue)
  <2>1. LedQueue(NewQueue)
    BY DEF LedQueue, Led, NewQueue
  <2>2. Over(<<>>) = {} /\ Depth \in Nat
    BY QueueAssumption DEF Over, QueueAssumption
  <2>3. Counted(<<>>, 0, FALSE)
    BY <2>2, FS_EmptySet DEF Counted
  <2>4. CountedQueue(NewQueue)
    BY <2>3, Zenon DEF CountedQueue, NewQueue
  <2> QED BY <2>1, <2>4 DEF Sound
<1>7. NoItem \notin ItemRecs
  BY DEF NoItem, Item, ItemRecs
<1>8. NoWorker \in WorkerRecs /\ NoWorker.at = "none" /\ NoWorker.item = NoItem
  BY DEF NoWorker, WorkerRecs, Resting
<1>9. ASSUME NEW k \in VerdictKinds, NEW n \in Nat PROVE Item("Internal", k, n) \in VerdictRecs
  BY DEF Item, VerdictRecs, ItemRecs, Classes, Kinds, VerdictKinds
<1>10. \A k \in VerdictKinds : Verdict(k) \in VerdictRecs
  BY <1>9 DEF Verdict
<1>11. VerdictRecs \subseteq ItemRecs
  BY DEF VerdictRecs
<1> QED BY <1>1, <1>2, <1>3, <1>4, <1>5, <1>6, <1>7, <1>8, <1>9, <1>10, <1>11

\* A step that gives one reference another call, verdicts or ledger, or none.
LEMMA LeavesOne ==
    ASSUME DispatchInv, NEW c \in Calls, NEW k \in CallRecs, NEW p \in Seq(VerdictRecs), NEW l \in LedgerRecs,
           call' = [call EXCEPT ![c] = k], posted' = [posted EXCEPT ![c] = p],
           ledger' = [ledger EXCEPT ![c] = l]
    PROVE  Leaves(c) /\ call'[c] = k /\ posted'[c] = p /\ ledger'[c] = l
<1>1. /\ call \in [Calls -> CallRecs] /\ posted \in [Calls -> Seq(VerdictRecs)]
      /\ ledger \in [Calls -> LedgerRecs]
  BY DEF DispatchInv, DispatchTyped
<1> QED BY <1>1 DEF Leaves

\* What the invariant says of one reference's call, verdicts and ledger, and a
\* step that leaves them.
LEMMA LeavesSame ==
    ASSUME DispatchInv, NEW c \in Calls
    PROVE  /\ call[c] \in CallRecs /\ posted[c] \in Seq(VerdictRecs) /\ ledger[c] \in LedgerRecs
           /\ call' = call => call' = [call EXCEPT ![c] = call[c]]
           /\ posted' = posted => posted' = [posted EXCEPT ![c] = posted[c]]
           /\ ledger' = ledger => ledger' = [ledger EXCEPT ![c] = ledger[c]]
           /\ UNCHANGED <<call, posted, ledger>> => Leaves(c)
<1>1. /\ call \in [Calls -> CallRecs] /\ posted \in [Calls -> Seq(VerdictRecs)]
      /\ ledger \in [Calls -> LedgerRecs]
  BY DEF DispatchInv, DispatchTyped
<1> QED BY <1>1 DEF Leaves

\* The queue of a reference with a worker.
LEMMA WorkerHasQueue ==
    ASSUME DispatchInv, NEW c \in Calls, worker[c].at # "none"
    PROVE  slots[c] \in QueueRecs(QueueEntries) /\ Sound(slots[c])
<1>1. slots[c] \in Queues /\ slots[c] # NoQueue /\ Sound(slots[c])
  BY DEF DispatchInv, DispatchTyped, OK, OneOK
<1> QED BY <1>1 DEF Queues

-----------------------------------------------------------------------------
(* Turns, failures and sweeps. *)

\* A call touched is a call.
LEMMA TouchedRec ==
    ASSUME NEW k \in CallRecs
    PROVE  Touched(k) \in CallRecs /\ Touched(k).stage = k.stage /\ Touched(k).timer = k.timer
<1> DEFINE n == IF k.idle THEN k.stamp + 1 ELSE k.stamp
<1>1. n \in Nat
  BY DEF CallRecs
<1>2. Touched(k) = [k EXCEPT !.stamp = n, !.idle = FALSE]
  BY DEF Touched, CallRecs
<1> HIDE DEF n
<1> QED BY <1>1, <1>2, Zenon DEF CallRecs

\* A rung of a ladder adds its verdict, and may ask for the abort of a body.
LEMMA ClimbRec ==
    ASSUME NEW st, st.led \in LedgerRecs, st.box \in Seq(VerdictRecs), st.abort \in BOOLEAN,
           NEW ladder \in {"attempts", "condemnedAttempts"}, NEW v \in VerdictRecs, NEW body \in BOOLEAN,
           st.abort = TRUE => body = TRUE
    PROVE  LET on == Climb(st, ladder, v, body)
           IN  /\ on.led \in LedgerRecs /\ on.box \in Seq(VerdictRecs) /\ on.abort \in BOOLEAN
               /\ on.abort = TRUE => body = TRUE
               /\ on.led.heard = st.led.heard /\ on.led.condemned = st.led.condemned
<1> DEFINE a == Attempt(st.led[ladder])
           x == IF a > EscalateDischargeAfter THEN Verdict("discharge") ELSE v
           aborts == a > EscalateAbortAfter /\ a <= EscalateDischargeAfter
           o == IF aborts /\ ladder = "condemnedAttempts" THEN body ELSE st.led.overflowAbort
           l == [st.led EXCEPT ![ladder] = a, !.overflowAbort = o]
<1>1. x \in VerdictRecs
  BY Shapes DEF VerdictKinds
<1>2. /\ Climb(st, ladder, v, body).box = Append(st.box, x)
      /\ Climb(st, ladder, v, body).abort = (st.abort \/ (aborts /\ body))
  BY DEF Climb
<1>3. a \in Rungs /\ o \in BOOLEAN
  <2>1. st.led[ladder] \in Rungs /\ st.led.overflowAbort \in BOOLEAN
    BY DEF LedgerRecs
  <2> QED BY <2>1 DEF Attempt, Rungs, EscalateDischargeAfter
<1>4. Climb(st, ladder, v, body).led = l
  BY DEF Climb, LedgerRecs
<1> HIDE DEF x, aborts, a, o
<1>5. l \in LedgerRecs /\ l.heard = st.led.heard /\ l.condemned = st.led.condemned
  BY <1>3 DEF LedgerRecs
<1>6. Append(st.box, x) \in Seq(VerdictRecs)
  BY <1>1
<1>7. (st.abort \/ (aborts /\ body)) \in BOOLEAN /\ ((st.abort \/ (aborts /\ body)) = TRUE => body = TRUE)
  OBVIOUS
<1> QED BY <1>2, <1>4, <1>5, <1>6, <1>7

\* A sweep asks for an abort or not, posts verdicts and keeps the ledgers.
LEMMA SweptRec ==
    ASSUME DispatchInv, NEW c \in Calls
    PROVE  /\ Swept(c).led \in LedgerRecs /\ Swept(c).box \in Seq(VerdictRecs)
           /\ Swept(c).abort \in BOOLEAN /\ (Swept(c).abort = TRUE => InBody(c))
           /\ Swept(c).led.heard = ledger[c].heard
           /\ (Swept(c).led.condemned = TRUE) <=> (ledger[c].condemned = TRUE /\ call[c].stage = "active")
<1> DEFINE Kept(st) == /\ st.led \in LedgerRecs /\ st.box \in Seq(VerdictRecs)
                       /\ st.abort \in BOOLEAN /\ (st.abort = TRUE => InBody(c) = TRUE)
                       /\ st.led.heard = ledger[c].heard
                       /\ st.led.condemned = StaysCondemned(c)
<1>0. /\ worker[c] \in WorkerRecs /\ posted[c] \in Seq(VerdictRecs)
      /\ call[c] \in CallRecs /\ ledger[c] \in LedgerRecs
  BY LeavesSame DEF DispatchInv, DispatchTyped
<1>b. InBody(c) \in BOOLEAN /\ StaysCondemned(c) \in BOOLEAN
  BY <1>0 DEF InBody, StaysCondemned, LedgerRecs
<1>1. Kept(Found(c))
  <2> DEFINE x == StaysCondemned(c)
             l == [ledger[c] EXCEPT !.condemned = x]
  <2>1. x \in BOOLEAN /\ Found(c) = [led |-> l, box |-> posted[c], abort |-> worker[c].abort]
    BY <1>b DEF Found
  <2> HIDE DEF x
  <2>2. l \in LedgerRecs /\ l.heard = ledger[c].heard /\ l.condemned = x
    BY <1>0, <2>1 DEF LedgerRecs
  <2>3. worker[c].abort \in BOOLEAN /\ (worker[c].abort = TRUE => InBody(c) = TRUE)
    BY <1>0, <1>b DEF WorkerRecs, InBody, Bodies
  <2> HIDE DEF l
  <2>4. /\ Found(c).led = l /\ Found(c).box = posted[c] /\ Found(c).abort = worker[c].abort
    BY <2>1
  <2> QED BY <1>0, <2>2, <2>3, <2>4 DEF x
<1>2. ASSUME NEW st, Kept(st), NEW ladder \in {"attempts", "condemnedAttempts"}, NEW v \in VerdictRecs
      PROVE  Kept(Climb(st, ladder, v, InBody(c)))
  <2> DEFINE b == InBody(c)
             on == Climb(st, ladder, v, b)
  <2>1. b \in BOOLEAN /\ (st.abort = TRUE => b = TRUE)
    BY <1>2, <1>b
  <2> HIDE DEF b
  <2>2. /\ on.led \in LedgerRecs /\ on.box \in Seq(VerdictRecs) /\ on.abort \in BOOLEAN
        /\ on.abort = TRUE => b = TRUE
        /\ on.led.heard = st.led.heard /\ on.led.condemned = st.led.condemned
    BY <1>2, <2>1, ClimbRec, Zenon
  <2> QED BY <1>2, <2>2 DEF b
<1> HIDE DEF Kept
<1>3. Kept(StaleClimbed(c))
  <2>1. Item("Internal", "stale", call[c].stamp) \in VerdictRecs
    BY <1>0, Shapes DEF VerdictKinds, CallRecs
  <2> QED BY <1>1, <1>2, <2>1 DEF StaleClimbed
<1>4. Kept(Swept(c))
  <2>1. Verdict("overflow") \in VerdictRecs
    BY Shapes DEF VerdictKinds
  <2> QED BY <1>2, <1>3, <2>1 DEF Swept
<1>5. (StaysCondemned(c) = TRUE) <=> (ledger[c].condemned = TRUE /\ call[c].stage = "active")
  BY <1>0 DEF StaysCondemned, LedgerRecs
<1> QED BY <1>4, <1>5, <1>b DEF Kept

\* A fresh ledger, and the call of an unused reference.
LEMMA CleanRec == CleanLedger \in LedgerRecs /\ NoCall \in CallRecs
<1>1. 0 \in Rungs
  BY DEF Rungs, EscalateDischargeAfter
<1> QED BY <1>1 DEF CleanLedger, LedgerRecs, NoCall, CallRecs

-----------------------------------------------------------------------------
(* The invariant. *)

\* Every step on one reference keeps the others, its queue and its worker.
LEMMA AnyEffect ==
    DispatchInv => \A c \in Calls :
        Outside(c) \/ Router(c) \/ Work(c) \/ Aborted(c) \/ Sweep(c)
            => Effect(c) /\ Leaves(c) /\ (NoMore(c) \/ AcquireShare(c) \/ AcquirePool(c))
\* PerCallDispatcher::offer: an entry queued is about to be rung for; an item
\* handed back leaves the entries as they were.
<1>OfferEffect.
    ASSUME DispatchInv, NEW c \in Calls, NEW item \in ItemRecs, NEW box \in Seq(VerdictRecs),
           RouterFree, OfferTo(c, item, box), UNCHANGED <<halted, late>>
    PROVE  /\ Effect(c) /\ NoMore(c)
           /\ \E p \in Seq(VerdictRecs) : posted' = [posted EXCEPT ![c] = p]
           /\ \E l \in LedgerRecs : ledger' = [ledger EXCEPT ![c] = l]
  <2> USE <1>OfferEffect
  <2>0. /\ DispatchTyped /\ OK(c) /\ halted = FALSE /\ \A d \in Calls : ringing[d] = FALSE
    BY DEF DispatchInv, DispatchTyped, RouterFree
  <2>1. CASE AtCap(c, item.class)
    <3>1. /\ posted' = [posted EXCEPT ![c] = box]
          /\ UNCHANGED <<slots, worker, ringing, ledger, late, halted>>
      BY <2>1 DEF OfferTo
    <3>2. Effect(c)
      BY <2>0, <3>1 DEF Effect, OK, DispatchTyped
    <3>3. NoMore(c)
      BY <3>1 DEF NoMore, InBody, HoldsShare
    <3> QED BY <3>1, <3>2, <3>3, LeavesSame, Zenon
  <2>2. CASE ~AtCap(c, item.class)
    <3> DEFINE q0 == IF Open(c) THEN slots[c] ELSE NewQueue
               o == Offer(q0, item)
               crossed == o.crossed /\ ~ledger[c].capped
               ceiling == o.why = "Ceiling" /\ ~ledger[c].condemned
               w == IF Open(c) THEN worker[c] ELSE [NoWorker EXCEPT !.at = "pop"]
               led == [ledger[c] EXCEPT
                         !.capped = @ \/ crossed,
                         !.heard = IF o.queue.capped /\ ~q0.capped THEN ~ledger[c].capped ELSE @,
                         !.condemned = @ \/ ceiling]
               box1 == box \o (IF crossed THEN <<Verdict("cap")>> ELSE <<>>)
                           \o (IF ceiling THEN <<Verdict("overflow")>> ELSE <<>>)
    <3>1. q0 \in QueueRecs(QueueEntries) /\ Sound(q0)
      <4>1. CASE Open(c)
        BY <2>0, <4>1 DEF Open, OK, OneOK, DispatchTyped, Queues
      <4>2. CASE ~Open(c)
        BY <4>2, Shapes
      <4> QED BY <4>1, <4>2
    <3>2. item \in QueueEntries /\ ~IsRelease(item)
      BY Shapes DEF QueueEntries
    <3>3. /\ slots' = [slots EXCEPT ![c] = o.queue]
          /\ ringing' = [ringing EXCEPT ![c] = o.why = "none"]
          /\ posted' = [posted EXCEPT ![c] = box1]
          /\ ledger' = [ledger EXCEPT ![c] = led]
      BY <2>2, Zenon DEF OfferTo
    <3>4. worker' = [worker EXCEPT ![c] = w]
      <4>1. CASE Open(c)
        BY <2>0, <2>2, <4>1 DEF OfferTo, DispatchTyped
      <4>2. CASE ~Open(c)
        BY <2>2, <4>2 DEF OfferTo
      <4> QED BY <4>1, <4>2
    <3>5. box1 \in Seq(VerdictRecs)
      <4>1. Verdict("cap") \in VerdictRecs /\ Verdict("overflow") \in VerdictRecs
        BY Shapes DEF VerdictKinds
      <4> DEFINE a == IF crossed THEN <<Verdict("cap")>> ELSE <<>>
                 b == IF ceiling THEN <<Verdict("overflow")>> ELSE <<>>
      <4> HIDE DEF crossed, ceiling
      <4>2. a \in Seq(VerdictRecs)
        BY <4>1
      <4>3. b \in Seq(VerdictRecs)
        BY <4>1
      <4> HIDE DEF a, b
      <4>4. (box \o a) \o b \in Seq(VerdictRecs)
        BY <4>2, <4>3
      <4> QED BY <4>4 DEF a, b
    <3>l. led \in LedgerRecs
      <4> DEFINE x == ledger[c].capped \/ crossed
                 y == IF o.queue.capped /\ ~q0.capped THEN ~ledger[c].capped ELSE ledger[c].heard
                 z == ledger[c].condemned \/ ceiling
      <4>1. ledger[c] \in LedgerRecs
        BY LeavesSame
      <4>2. x \in BOOLEAN /\ y \in BOOLEAN /\ z \in BOOLEAN
        BY <4>1, Zenon DEF LedgerRecs
      <4>3. led = [ledger[c] EXCEPT !.capped = x, !.heard = y, !.condemned = z]
        BY <4>1 DEF LedgerRecs
      <4> HIDE DEF led, x, y, z
      <4> QED BY <4>1, <4>2, <4>3, Zenon DEF LedgerRecs
    <3>6. w \in WorkerRecs /\ w.at # "none" /\ (Open(c) => w = worker[c]) /\ (~Open(c) => w.at = "pop")
      <4>1. CASE Open(c)
        BY <2>0, <4>1 DEF DispatchTyped, OK, OneOK, Open
      <4>2. CASE ~Open(c)
        BY <4>2, Shapes, Zenon DEF NoWorker, WorkerRecs, Resting
      <4> QED BY <4>1, <4>2
    <3> HIDE DEF q0, w, box1, led
    <3>7. /\ o.queue \in QueueRecs(QueueEntries) /\ Sound(o.queue)
          /\ o.queue.entries = IF o.why = "none" THEN Append(q0.entries, item) ELSE q0.entries
      <4>1. Holds(QueueEntries)
        BY Shapes
      <4>2. \A i \in QueueEntries : ~IsRelease(i) =>
               /\ Offer(q0, i).queue \in QueueRecs(QueueEntries) /\ Sound(Offer(q0, i).queue)
               /\ Offer(q0, i).queue.entries =
                     IF Offer(q0, i).why = "none" THEN Append(q0.entries, i) ELSE q0.entries
        BY <3>1, <4>1, OperationsSound, Zenon
      <4> QED BY <3>2, <4>2, Zenon
    <3> HIDE DEF o
    <3>8. o.queue # NoQueue /\ o.queue \in Queues
      BY <3>7, Shapes DEF Queues
    <3>9. /\ slots'[c] = o.queue /\ worker'[c] = w /\ ringing'[c] = (o.why = "none") /\ late' = late
          /\ \A d \in Calls \ {c} :
                slots'[d] = slots[d] /\ worker'[d] = worker[d] /\ ringing'[d] = ringing[d]
      BY <2>0, <3>3, <3>4 DEF DispatchTyped
    <3>10. /\ slots' \in [Calls -> Queues] /\ worker' \in [Calls -> WorkerRecs]
           /\ ringing' \in [Calls -> BOOLEAN]
      BY <2>0, <3>3, <3>4, <3>6, <3>8 DEF DispatchTyped
    <3>11. OneOK(o.queue, w, o.why = "none", late[c], halted)
      <4>1. ASSUME w.at \in {"empty", "asleep"}, o.queue.entries # <<>>, o.why # "none"
            PROVE  w.wake = TRUE
        <5>1. Open(c) /\ w = worker[c]
          BY <3>6, <4>1
        <5>2. slots[c].entries # <<>>
          BY <3>7, <4>1, <5>1 DEF q0
        <5> QED BY <2>0, <4>1, <5>1, <5>2 DEF OK, OneOK
      <4>2. late[c] = 0
        BY <2>0 DEF OK, OneOK
      <4> DEFINE q == o.queue
                 b == (o.why = "none")
                 l == late[c]
      <4>3. w.at \in {"empty", "asleep"} /\ q.entries # <<>> => w.wake = TRUE \/ b = TRUE
        BY <4>1, Zenon
      <4>4. Sound(q) /\ q # NoQueue /\ w.at # "none" /\ l = 0
        BY <3>6, <3>7, <3>8, <4>2
      <4> HIDE DEF q, b, l
      <4>5. OneOK(q, w, b, l, halted)
        BY <4>3, <4>4 DEF OneOK
      <4> QED BY <4>5 DEF q, b, l
    <3>12. Effect(c)
      BY <2>0, <3>8, <3>9, <3>10, <3>11 DEF Effect, DispatchTyped
    <3>13. NoMore(c)
      <4>1. CASE Open(c)
        <5>1. worker'[c] = worker[c]
          BY <3>6, <3>9, <4>1
        <5> QED BY <5>1 DEF NoMore, InBody, HoldsShare
      <4>2. CASE ~Open(c)
        <5>1. worker'[c].at = "pop"
          BY <3>6, <3>9, <4>2
        <5> QED BY <5>1 DEF NoMore, InBody, HoldsShare
      <4> QED BY <4>1, <4>2
    <3> QED BY <3>3, <3>5, <3>12, <3>13, <3>l, Zenon
  <2> QED BY <2>1, <2>2
\* Every event of the router is an offer.
<1>RouterEffect.
    ASSUME DispatchInv, NEW c \in Calls,
           Invite(c) \/ InviteCopy(c) \/ Request(c) \/ Cancelled(c) \/ TimerFires(c) \/ TakeVerdict(c)
    PROVE  Effect(c) /\ NoMore(c) /\ Leaves(c)
  <2> USE <1>RouterEffect
  <2>0. /\ posted[c] \in Seq(VerdictRecs) /\ call[c] \in CallRecs
        /\ call' = call => call' = [call EXCEPT ![c] = call[c]]
    BY LeavesSame
  <2>a. ASSUME NEW item \in ItemRecs, NEW box \in Seq(VerdictRecs), NEW k \in CallRecs,
               RouterFree, OfferTo(c, item, box), UNCHANGED <<halted, late>>,
               call' = [call EXCEPT ![c] = k]
        PROVE  Effect(c) /\ NoMore(c) /\ Leaves(c)
    <3>1. /\ Effect(c) /\ NoMore(c)
          /\ \E p \in Seq(VerdictRecs) : posted' = [posted EXCEPT ![c] = p]
          /\ \E l \in LedgerRecs : ledger' = [ledger EXCEPT ![c] = l]
      BY <2>a, <1>OfferEffect
    <3>2. PICK p \in Seq(VerdictRecs) : posted' = [posted EXCEPT ![c] = p]
      BY <3>1, Zenon
    <3>3. PICK l \in LedgerRecs : ledger' = [ledger EXCEPT ![c] = l]
      BY <3>1, Zenon
    <3> QED BY <2>a, <3>1, <3>2, <3>3, LeavesOne, Zenon
  <2>1. ASSUME NEW item \in ItemRecs, Arrive(c, item)
        PROVE  Effect(c) /\ NoMore(c) /\ Leaves(c)
    BY <2>0, <2>1, <2>a DEF Arrive
  <2> USE DEF Item, ItemRecs, Classes, Kinds, VerdictKinds, IsNewCall
  <2>2. CASE Invite(c)
    BY <2>1, <2>2 DEF Invite
  <2>3. CASE InviteCopy(c)
    BY <2>1, <2>3 DEF InviteCopy
  <2>4. CASE Request(c)
    BY <2>1, <2>4 DEF Request
  <2>5. CASE Cancelled(c)
    BY <2>1, <2>5 DEF Cancelled
  <2>6. CASE TimerFires(c)
    <3> DEFINE i == Item("Timer", "timer", call[c].born)
    <3>1. i \in ItemRecs
      BY <2>0 DEF CallRecs
    <3>2. RouterFree /\ OfferTo(c, i, posted[c]) /\ UNCHANGED <<halted, late>>
      BY <2>6 DEF TimerFires
    <3> DEFINE k == [call[c] EXCEPT !.timer = FALSE]
    <3>3. k \in CallRecs
      BY <2>0, Zenon DEF CallRecs
    <3>4. call' = [call EXCEPT ![c] = k]
      BY <2>6 DEF TimerFires
    <3> HIDE DEF i, k, Item, ItemRecs, Classes, Kinds, VerdictKinds, IsNewCall
    <3> QED BY <2>0, <2>a, <3>1, <3>2, <3>3, <3>4, Zenon
  <2>7. CASE TakeVerdict(c)
    <3> HIDE DEF Item, ItemRecs, Classes, Kinds, VerdictKinds, IsNewCall
    <3>1. /\ RouterFree /\ posted[c] # <<>> /\ UNCHANGED <<halted, late, call>>
          /\ OfferTo(c, Head(posted[c]), Tail(posted[c]))
      BY <2>7 DEF TakeVerdict
    <3>2. Head(posted[c]) \in VerdictRecs /\ Tail(posted[c]) \in Seq(VerdictRecs)
      BY <2>0, <3>1
    <3>3. Head(posted[c]) \in ItemRecs
      BY <3>2, Shapes
    <3> QED BY <2>0, <2>a, <3>1, <3>2, <3>3, Zenon
  <2> QED BY <2>2, <2>3, <2>4, <2>5, <2>6, <2>7
\* A step that gives the worker of one reference another state.
<1>WorkerEffect.
    ASSUME DispatchInv, NEW c \in Calls, NEW w \in WorkerRecs, NEW b \in BOOLEAN, NEW l \in {0, 1},
           worker' = [worker EXCEPT ![c] = w], ringing' = [ringing EXCEPT ![c] = b],
           late' = [late EXCEPT ![c] = l], UNCHANGED <<slots, halted>>,
           OneOK(slots[c], w, b, l, halted)
    PROVE  Effect(c) /\ worker'[c] = w
  <2> USE <1>WorkerEffect
  <2>0. /\ slots \in [Calls -> Queues] /\ worker \in [Calls -> WorkerRecs]
        /\ ringing \in [Calls -> BOOLEAN] /\ late \in [Calls -> {0, 1}]
    BY DEF DispatchInv, DispatchTyped
  <2>1. /\ slots' \in [Calls -> Queues] /\ worker' \in [Calls -> WorkerRecs]
        /\ ringing' \in [Calls -> BOOLEAN] /\ late' \in [Calls -> {0, 1}]
    BY <2>0
  <2>2. /\ slots'[c] = slots[c] /\ worker'[c] = w /\ ringing'[c] = b /\ late'[c] = l
        /\ \A d \in Calls \ {c} :
              slots'[d] = slots[d] /\ worker'[d] = worker[d] /\ ringing'[d] = ringing[d] /\ late'[d] = late[d]
    BY <2>0
  <2>3. OneOK(slots'[c], worker'[c], ringing'[c], late'[c], halted)
    BY <2>2
  <2> QED BY <2>1, <2>2, <2>3 DEF Effect
\* The same, of a step that rings for no one and starts no body.
<1>QuietEffect.
    ASSUME DispatchInv, NEW c \in Calls, NEW w \in WorkerRecs,
           worker' = [worker EXCEPT ![c] = w], UNCHANGED <<slots, ringing, late, halted>>,
           OneOK(slots[c], w, ringing[c], late[c], halted)
    PROVE  Effect(c) /\ worker'[c] = w
  <2> USE <1>QuietEffect
  <2>0. ringing \in [Calls -> BOOLEAN] /\ late \in [Calls -> {0, 1}]
    BY DEF DispatchInv, DispatchTyped
  <2>1. /\ ringing[c] \in BOOLEAN /\ late[c] \in {0, 1}
        /\ ringing' = [ringing EXCEPT ![c] = ringing[c]] /\ late' = [late EXCEPT ![c] = late[c]]
    BY <2>0
  <2> QED BY <2>1, <1>WorkerEffect, Zenon
\* A worker that returns to its queue, or stays in its body, keeps its place.
<1>StaysOK.
    ASSUME DispatchInv, NEW c \in Calls, NEW w \in WorkerRecs, worker[c].at # "none",
           w.at \in {"pop", "empty", "body", "hung", "ending"},
           w.at = "empty" => slots[c].entries = <<>>
    PROVE  OneOK(slots[c], w, ringing[c], late[c], halted)
  <2> USE <1>StaysOK
  <2>1. OneOK(slots[c], worker[c], ringing[c], late[c], halted)
    BY DEF DispatchInv, OK
  <2> QED BY <2>1 DEF OneOK
\* The wake rung for a queued entry is kept, or its worker pops.
<1>RingEffect.
    ASSUME DispatchInv, NEW c \in Calls, Ring(c)
    PROVE  Effect(c) /\ NoMore(c)
  <2> USE <1>RingEffect
  <2> DEFINE w0 == worker[c]
             w == Woken(w0)
  <2>0. /\ w0 \in WorkerRecs /\ worker \in [Calls -> WorkerRecs] /\ late \in [Calls -> {0, 1}]
        /\ OneOK(slots[c], w0, ringing[c], late[c], halted)
    BY DEF DispatchInv, DispatchTyped, OK
  <2>1. /\ w \in WorkerRecs /\ w.item = w0.item
        /\ w0.at = "asleep" => w.at = "pop"
        /\ w0.at # "asleep" => w.at = w0.at /\ w.wake = (w0.at # "none")
    BY <2>0, Zenon DEF Woken, WorkerRecs, Resting, Bodies
  <2>2. /\ worker' = [worker EXCEPT ![c] = w] /\ ringing' = [ringing EXCEPT ![c] = FALSE]
        /\ UNCHANGED <<slots, halted, late>>
    BY DEF Ring
  <2>3. late' = [late EXCEPT ![c] = late[c]] /\ late[c] \in {0, 1}
    BY <2>0, <2>2
  <2> HIDE DEF w, w0
  <2>4. OneOK(slots[c], w, FALSE, late[c], halted)
    <3>1. w.at = "asleep" => FALSE
      BY <2>1
    <3>2. w.at = "empty" => w.wake = TRUE
      BY <2>1, Zenon
    <3>3. (w.at = "none") <=> (w0.at = "none")
      BY <2>1
    <3>4. w.at \in {"share", "pool"} => w0.at \in {"share", "pool"}
      BY <2>1
    <3> QED BY <2>0, <3>1, <3>2, <3>3, <3>4 DEF OneOK
  <2>5. Effect(c) /\ worker'[c] = w
    BY <2>1, <2>2, <2>3, <2>4, <1>WorkerEffect, Zenon
  <2>6. NoMore(c)
    BY <2>1, <2>5 DEF NoMore, InBody, HoldsShare, w0
  <2> QED BY <2>5, <2>6
\* Popping nothing, and waiting: a wake kept is taken at once.
<1>WaitEffect.
    ASSUME DispatchInv, NEW c \in Calls, FindsNone(c) \/ Sleep(c)
    PROVE  Effect(c) /\ NoMore(c)
  <2> USE <1>WaitEffect
  <2>0. /\ worker[c] \in WorkerRecs /\ worker \in [Calls -> WorkerRecs]
        /\ OneOK(slots[c], worker[c], ringing[c], late[c], halted)
    BY DEF DispatchInv, DispatchTyped, OK
  <2>1. CASE FindsNone(c)
    <3> DEFINE w == [worker[c] EXCEPT !.at = "empty"]
    <3>1. w \in WorkerRecs /\ w.at = "empty"
      BY <2>0, <2>1 DEF FindsNone, WorkerRecs, Resting, Bodies
    <3>2. /\ worker' = [worker EXCEPT ![c] = w] /\ UNCHANGED <<slots, ringing, halted, late>>
          /\ worker[c].at = "pop" /\ slots[c].entries = <<>>
      BY <2>0, <2>1 DEF FindsNone
    <3> HIDE DEF w
    <3>3. Effect(c) /\ worker'[c] = w
      BY <3>1, <3>2, <1>StaysOK, <1>QuietEffect, Zenon
    <3> QED BY <3>1, <3>3 DEF NoMore, InBody, HoldsShare
  <2>2. CASE Sleep(c)
    <3> DEFINE w == [worker[c] EXCEPT !.at = IF worker[c].wake THEN "pop" ELSE "asleep", !.wake = FALSE]
    <3>1. /\ w \in WorkerRecs /\ w.at \in {"pop", "asleep"}
          /\ w.at = "asleep" => worker[c].wake = FALSE
      BY <2>0, <2>2, Zenon DEF Sleep, WorkerRecs, Resting, Bodies
    <3>2. /\ worker' = [worker EXCEPT ![c] = w] /\ UNCHANGED <<slots, ringing, halted, late>>
          /\ worker[c].at = "empty"
      BY <2>0, <2>2, Zenon DEF Sleep
    <3> HIDE DEF w
    <3>3. OneOK(slots[c], w, ringing[c], late[c], halted)
      BY <2>0, <3>1, <3>2 DEF OneOK
    <3>4. Effect(c) /\ worker'[c] = w
      BY <3>1, <3>2, <3>3, <1>QuietEffect, Zenon
    <3> QED BY <3>1, <3>4 DEF NoMore, InBody, HoldsShare
  <2> QED BY <2>1, <2>2
\* Permits acquired: a body starts late only once.
<1>AcquireEffect.
    ASSUME DispatchInv, NEW c \in Calls, AcquireShare(c) \/ AcquirePool(c)
    PROVE  Effect(c)
  <2> USE <1>AcquireEffect
  <2>0. /\ worker[c] \in WorkerRecs /\ worker \in [Calls -> WorkerRecs]
        /\ ringing \in [Calls -> BOOLEAN] /\ late \in [Calls -> {0, 1}] /\ halted \in BOOLEAN
        /\ OneOK(slots[c], worker[c], ringing[c], late[c], halted)
    BY DEF DispatchInv, DispatchTyped, OK
  <2>1. CASE AcquireShare(c)
    <3> DEFINE w == [worker[c] EXCEPT !.at = "pool"]
    <3>1. w \in WorkerRecs /\ w.at = "pool"
      BY <2>0, <2>1 DEF AcquireShare, WorkerRecs, Resting, Bodies
    <3>2. /\ worker' = [worker EXCEPT ![c] = w] /\ UNCHANGED <<slots, ringing, halted, late>>
          /\ worker[c].at = "share"
      BY <2>0, <2>1 DEF AcquireShare
    <3> HIDE DEF w
    <3>3. OneOK(slots[c], w, ringing[c], late[c], halted)
      BY <2>0, <3>1, <3>2 DEF OneOK
    <3> QED BY <3>1, <3>2, <3>3, <1>QuietEffect, Zenon
  <2>2. CASE AcquirePool(c)
    <3> DEFINE w == [worker[c] EXCEPT !.at = "body"]
               l == late[c] + IF halted THEN 1 ELSE 0
    <3>1. w \in WorkerRecs /\ w.at = "body"
      BY <2>0, <2>2 DEF AcquirePool, WorkerRecs, Resting, Bodies
    <3>2. /\ worker' = [worker EXCEPT ![c] = w] /\ late' = [late EXCEPT ![c] = l]
          /\ UNCHANGED <<slots, ringing, halted>> /\ worker[c].at = "pool"
      BY <2>0, <2>2 DEF AcquirePool
    <3>3. late[c] = 0
      BY <2>0, <3>2 DEF OneOK
    <3>4. l \in {0, 1} /\ (halted = FALSE => l = 0)
      BY <2>0, <3>3
    <3>5. ringing' = [ringing EXCEPT ![c] = ringing[c]] /\ ringing[c] \in BOOLEAN
      BY <2>0, <3>2
    <3> HIDE DEF w, l
    <3>6. OneOK(slots[c], w, ringing[c], l, halted)
      BY <2>0, <3>1, <3>2, <3>4 DEF OneOK
    <3> QED BY <3>1, <3>2, <3>4, <3>5, <3>6, <1>WorkerEffect, Zenon
  <2> QED BY <2>1, <2>2
\* A step that gives a reference another queue and worker.
<1>QueueEffect.
    ASSUME DispatchInv, NEW c \in Calls, NEW q \in Queues, NEW w \in WorkerRecs,
           slots' = [slots EXCEPT ![c] = q], worker' = [worker EXCEPT ![c] = w],
           UNCHANGED <<ringing, late, halted>>,
           OneOK(q, w, ringing[c], late[c], halted),
           q = NoQueue => slots[c].entries = <<ReleaseEntry>>
    PROVE  Effect(c) /\ worker'[c] = w
  <2> USE <1>QueueEffect
  <2>0. /\ slots \in [Calls -> Queues] /\ worker \in [Calls -> WorkerRecs]
        /\ ringing \in [Calls -> BOOLEAN] /\ late \in [Calls -> {0, 1}]
    BY DEF DispatchInv, DispatchTyped
  <2>1. /\ slots' \in [Calls -> Queues] /\ worker' \in [Calls -> WorkerRecs]
        /\ ringing' \in [Calls -> BOOLEAN] /\ late' \in [Calls -> {0, 1}]
    BY <2>0
  <2>2. /\ slots'[c] = q /\ worker'[c] = w /\ ringing'[c] = ringing[c] /\ late'[c] = late[c]
        /\ \A d \in Calls \ {c} :
              slots'[d] = slots[d] /\ worker'[d] = worker[d] /\ ringing'[d] = ringing[d] /\ late'[d] = late[d]
    BY <2>0
  <2>3. OneOK(slots'[c], worker'[c], ringing'[c], late'[c], halted)
    BY <2>2
  <2> QED BY <2>1, <2>2, <2>3 DEF Effect
\* The release taken: what waits behind it opens the next queue, else it was
\* the last entry and the slot leaves the map.
<1>TakeReleaseEffect.
    ASSUME DispatchInv, NEW c \in Calls, TakeRelease(c)
    PROVE  Effect(c) /\ NoMore(c)
  <2> USE <1>TakeReleaseEffect
  <2> DEFINE q0 == slots[c]
             q == Popped(q0)
  <2>0. /\ worker[c] \in WorkerRecs /\ worker \in [Calls -> WorkerRecs]
        /\ OneOK(slots[c], worker[c], ringing[c], late[c], halted)
        /\ worker[c].at = "pop" /\ UNCHANGED <<ringing, late, halted>>
    BY DEF DispatchInv, DispatchTyped, OK, TakeRelease
  <2>1. q0 \in QueueRecs(QueueEntries) /\ Sound(q0)
    BY <2>0, WorkerHasQueue
  <2>2. q0.entries # <<>> /\ Head(q0.entries) = ReleaseEntry /\ q0.entries \in Seq(QueueEntries)
    BY <2>1 DEF TakeRelease, HeadIs, QueueRecs
  <2>3. /\ q.entries = Tail(q0.entries)
        /\ Reopened(q) \in QueueRecs(QueueEntries) /\ Sound(Reopened(q))
    BY <2>1, <2>2, OperationsSound, Shapes
  <2>4. CASE q.entries # <<>>
    <3>1. slots' = [slots EXCEPT ![c] = Reopened(q)] /\ worker' = worker
      BY <2>4 DEF TakeRelease
    <3>2. worker' = [worker EXCEPT ![c] = worker[c]]
      BY <2>0, <3>1
    <3> DEFINE r == Reopened(q)
    <3> HIDE DEF q, q0
    <3>3. r \in Queues /\ r # NoQueue /\ Sound(r) /\ slots' = [slots EXCEPT ![c] = r]
      BY <2>3, <3>1, Shapes DEF Queues
    <3> HIDE DEF r
    <3>4. OneOK(r, worker[c], ringing[c], late[c], halted)
      BY <2>0, <3>3 DEF OneOK
    <3>5. Effect(c)
      BY <2>0, <3>2, <3>3, <3>4, <1>QueueEffect, Zenon
    <3> QED BY <3>1, <3>5 DEF NoMore, InBody, HoldsShare
  <2>5. CASE q.entries = <<>>
    <3>1. slots' = [slots EXCEPT ![c] = NoQueue] /\ worker' = [worker EXCEPT ![c] = NoWorker]
      BY <2>5 DEF TakeRelease
    <3> DEFINE s == q0.entries
    <3>2. s \in Seq(QueueEntries) /\ s # <<>> /\ Head(s) = ReleaseEntry /\ Tail(s) = <<>>
      BY <2>2, <2>3, <2>5, Zenon
    <3> HIDE DEF s
    <3>3. s = <<ReleaseEntry>>
      <4>0. Len(Tail(s)) = Len(s) - 1 /\ Len(s) \in Nat /\ Head(s) = s[1]
        BY <3>2, TailFacts
      <4> DEFINE t == Tail(s)
      <4>a. t = <<>> /\ Len(t) = Len(s) - 1
        BY <3>2, <4>0
      <4> HIDE DEF t
      <4>b. Len(t) = 0
        BY <4>a
      <4>c. Len(s) = 1
        BY <4>0, <4>a, <4>b
      <4>1. s[1] = ReleaseEntry
        BY <3>2, <4>0, Zenon
      <4>2. ReleaseEntry \in QueueEntries
        BY DEF QueueEntries
      <4> QED BY <3>2, <4>1, <4>2, <4>c, OneEntry
    <3>4. OneOK(NoQueue, NoWorker, ringing[c], late[c], halted)
      <4> DEFINE w == NoWorker
      <4>1. w.at = "none"
        BY Shapes
      <4> HIDE DEF w
      <4>2. OneOK(NoQueue, w, ringing[c], late[c], halted)
        BY <2>0, <4>1 DEF OneOK
      <4> QED BY <4>2 DEF w
    <3>5. NoQueue \in Queues /\ NoWorker \in WorkerRecs /\ NoWorker.at = "none"
      BY Shapes DEF Queues
    <3>6. slots[c].entries = <<ReleaseEntry>>
      BY <3>3 DEF s
    <3>7. Effect(c) /\ worker'[c] = NoWorker
      BY <2>0, <3>1, <3>4, <3>5, <3>6, <1>QueueEffect, Zenon
    <3> QED BY <3>5, <3>7 DEF NoMore, InBody, HoldsShare
  <2> QED BY <2>4, <2>5
\* An item taken waits for permits it does not hold yet; the worker of a halted
\* node exits.
<1>TakeItemEffect.
    ASSUME DispatchInv, NEW c \in Calls, TakeItem(c)
    PROVE  Effect(c) /\ (worker'[c].at = "none" \/ worker'[c].at = "share"
                         \/ (worker'[c].at = "pool" /\ worker'[c].item.class # "InitialInvite"))
  <2> USE <1>TakeItemEffect
  <2> DEFINE q0 == slots[c]
             q == Popped(q0)
             item == Head(q0.entries)
             w == IF halted THEN NoWorker
                  ELSE [worker[c] EXCEPT !.at = IF item.class = "InitialInvite" THEN "share" ELSE "pool",
                                         !.item = item]
  <2>0. /\ worker[c] \in WorkerRecs /\ worker \in [Calls -> WorkerRecs] /\ halted \in BOOLEAN
        /\ OneOK(slots[c], worker[c], ringing[c], late[c], halted)
        /\ worker[c].at = "pop" /\ UNCHANGED <<ringing, late, halted>>
    BY DEF DispatchInv, DispatchTyped, OK, TakeItem
  <2>1. q0 \in QueueRecs(QueueEntries) /\ Sound(q0)
    BY <2>0, WorkerHasQueue
  <2>2. q0.entries # <<>> /\ item # ReleaseEntry /\ item \in QueueEntries
    <3>1. q0.entries # <<>> /\ q0.entries \in Seq(QueueEntries)
      BY <2>1 DEF TakeItem, HeadIs, QueueRecs
    <3>2. item # ReleaseEntry
      BY DEF TakeItem, HeadIs
    <3> QED BY <3>1, <3>2
  <2>3. item \in ItemRecs /\ ~IsRelease(item)
    BY <2>2, Shapes DEF QueueEntries
  <2>4. q \in QueueRecs(QueueEntries) /\ Sound(q)
    BY <2>1, <2>2, <2>3, OperationsSound, Shapes
  <2>5. slots' = [slots EXCEPT ![c] = q] /\ worker' = [worker EXCEPT ![c] = w]
    BY <2>0 DEF TakeItem
  <2> HIDE DEF q, q0, item
  <2>6. /\ w \in WorkerRecs
        /\ halted = TRUE => w.at = "none"
        /\ halted = FALSE => w.at = "share" \/ (w.at = "pool" /\ w.item.class # "InitialInvite")
    <3>1. CASE halted = TRUE
      BY <3>1, Shapes
    <3>2. CASE halted = FALSE
      BY <2>0, <2>3, <3>2, Shapes, Zenon DEF WorkerRecs, Resting, Bodies
    <3> QED BY <2>0, <3>1, <3>2, Zenon
  <2>7. q \in Queues /\ q # NoQueue
    BY <2>4, Shapes DEF Queues
  <2> HIDE DEF w
  <2>8. OneOK(q, w, ringing[c], late[c], halted)
    <3>1. CASE halted = TRUE
      <4>1. w.at = "none"
        BY <2>6, <3>1
      <4> QED BY <2>4, <3>1, <4>1 DEF OneOK
    <3>2. CASE halted = FALSE
      <4>1. w.at = "share" \/ w.at = "pool"
        BY <2>6, <3>2
      <4>2. late[c] = 0
        BY <2>0, <3>2 DEF OneOK
      <4> QED BY <2>4, <2>7, <4>1, <4>2 DEF OneOK
    <3> QED BY <2>0, <3>1, <3>2
  <2>9. Effect(c) /\ worker'[c] = w
    BY <2>0, <2>5, <2>6, <2>7, <2>8, <1>QueueEffect, Zenon
  <2> QED BY <2>0, <2>6, <2>9
\* A worker whose body is done.
<1>IdleRec.
    ASSUME NEW c \in Calls, NEW W \in [Calls -> WorkerRecs]
    PROVE  \E w \in WorkerRecs : Idle(c, W) = [W EXCEPT ![c] = w] /\ w.at = "pop"
  <2> USE <1>IdleRec
  <2> DEFINE w == [W[c] EXCEPT !.at = "pop", !.item = NoItem, !.abort = FALSE]
  <2>1. w \in WorkerRecs /\ w.at = "pop"
    BY Shapes, Zenon DEF WorkerRecs, Resting, Bodies
  <2>2. Idle(c, W) = [W EXCEPT ![c] = w]
    BY Zenon DEF Idle
  <2> QED BY <2>1, <2>2, Zenon
\* The release queued at the end of a call.
<1>QueueReleaseEffect.
    ASSUME DispatchInv, NEW c \in Calls, QueueRelease(c)
    PROVE  Effect(c) /\ NoMore(c)
  <2> USE <1>QueueReleaseEffect
  <2>0. /\ worker[c] \in WorkerRecs /\ worker \in [Calls -> WorkerRecs]
        /\ OneOK(slots[c], worker[c], ringing[c], late[c], halted)
        /\ worker[c].at = "ending" /\ UNCHANGED <<ringing, late, halted>>
    BY DEF DispatchInv, DispatchTyped, OK, QueueRelease
  <2>1. slots[c] \in QueueRecs(QueueEntries) /\ Sound(slots[c])
    BY <2>0, WorkerHasQueue
  <2> DEFINE q == Release(slots[c])
             W == [worker EXCEPT ![c].wake = TRUE]
  <2>2. q \in QueueRecs(QueueEntries) /\ Sound(q)
    BY <2>1, OperationsSound, Shapes
  <2>3. W \in [Calls -> WorkerRecs]
    BY <2>0, Zenon DEF WorkerRecs, Resting, Bodies
  <2>4. slots' = [slots EXCEPT ![c] = q] /\ worker' = Idle(c, W)
    BY DEF QueueRelease
  <2>w. \A v : [W EXCEPT ![c] = v] = [worker EXCEPT ![c] = v]
    BY <2>0, Zenon
  <2> HIDE DEF q, W
  <2>5. PICK w \in WorkerRecs : Idle(c, W) = [W EXCEPT ![c] = w] /\ w.at = "pop"
    BY <2>3, <1>IdleRec
  <2>6. worker' = [worker EXCEPT ![c] = w]
    BY <2>4, <2>5, <2>w, Zenon
  <2>7. q \in Queues /\ q # NoQueue
    BY <2>2, Shapes DEF Queues
  <2>8. OneOK(q, w, ringing[c], late[c], halted)
    BY <2>0, <2>2, <2>5, <2>7 DEF OneOK
  <2>9. Effect(c) /\ worker'[c] = w
    BY <2>0, <2>4, <2>6, <2>7, <2>8, <1>QueueEffect, Zenon
  <2> QED BY <2>5, <2>9 DEF NoMore, InBody, HoldsShare
\* What a turn leaves: its body done, or the release still to come.
<1>ReturnsEffect.
    ASSUME DispatchInv, NEW c \in Calls, InBody(c), Returns(c), UNCHANGED <<slots, ringing, late, halted>>
    PROVE  Effect(c) /\ NoMore(c)
  <2> USE <1>ReturnsEffect
  <2>0. worker \in [Calls -> WorkerRecs] /\ worker[c].at # "none"
    BY DEF DispatchInv, DispatchTyped, InBody
  <2>1. PICK w \in WorkerRecs : Idle(c, worker) = [worker EXCEPT ![c] = w] /\ w.at = "pop"
    BY <2>0, <1>IdleRec
  <2>2. worker' = [worker EXCEPT ![c] = w]
    BY <2>1 DEF Returns
  <2>3. OneOK(slots[c], w, ringing[c], late[c], halted)
    BY <2>0, <2>1, <1>StaysOK
  <2>4. Effect(c) /\ worker'[c] = w
    BY <2>2, <2>3, <1>QuietEffect, Zenon
  <2> QED BY <2>1, <2>4 DEF NoMore, InBody, HoldsShare
\* A body that goes on, in another of a body's states or asked to abort.
<1>BodyEffect.
    ASSUME DispatchInv, NEW c \in Calls, NEW w \in WorkerRecs, InBody(c),
           w.at \in {"body", "hung", "ending"}, w.item = worker[c].item,
           worker' = [worker EXCEPT ![c] = w], UNCHANGED <<slots, ringing, late, halted>>
    PROVE  Effect(c) /\ NoMore(c)
  <2> USE <1>BodyEffect
  <2>1. worker[c].at # "none"
    BY DEF InBody
  <2>2. OneOK(slots[c], w, ringing[c], late[c], halted)
    BY <2>1, <1>StaysOK
  <2>3. Effect(c) /\ worker'[c] = w
    BY <2>2, <1>QuietEffect, Zenon
  <2> QED BY <2>3 DEF NoMore, InBody, HoldsShare
\* Every turn ends its body, or leaves the release of its queue to come.
<1>TurnEffect.
    ASSUME DispatchInv, NEW c \in Calls, Turn(c)
    PROVE  Effect(c) /\ NoMore(c) /\ Leaves(c)
  <2> USE <1>TurnEffect
  <2>0. /\ worker \in [Calls -> WorkerRecs] /\ worker[c].at = "body" /\ InBody(c)
        /\ call \in [Calls -> CallRecs] /\ call[c] \in CallRecs
        /\ UNCHANGED <<slots, ringing, late, halted, posted, ledger>>
    BY DEF DispatchInv, DispatchTyped, Turn, InBody
  <2>k. ASSUME NEW k \in CallRecs, call' = [call EXCEPT ![c] = k] PROVE Leaves(c)
    BY <2>0, <2>k, LeavesSame, LeavesOne, Zenon
  <2>1. ASSUME NEW k \in CallRecs, Stays(c, k)
        PROVE  Effect(c) /\ NoMore(c) /\ Leaves(c)
    <3>1. Returns(c) /\ call' = [call EXCEPT ![c] = k]
      BY <2>1 DEF Stays
    <3> QED BY <2>0, <2>1, <2>k, <3>1, <1>ReturnsEffect, Zenon
  <2>2. ASSUME Ends(c)
        PROVE  Effect(c) /\ NoMore(c) /\ Leaves(c)
    <3> DEFINE w == [worker[c] EXCEPT !.at = "ending"]
               k == Touched(call[c])
               k1 == [k EXCEPT !.stage = "none", !.timer = FALSE]
    <3>1. w \in WorkerRecs /\ w.at = "ending" /\ w.item = worker[c].item
      BY <2>0 DEF WorkerRecs, Resting, Bodies
    <3>2. worker' = [worker EXCEPT ![c] = w] /\ call' = [call EXCEPT ![c] = k1]
      BY <2>0, <2>2 DEF Ends
    <3>3. k \in CallRecs
      BY <2>0, TouchedRec
    <3> HIDE DEF w, k
    <3>4. k1 \in CallRecs
      BY <3>3, Zenon DEF CallRecs
    <3> HIDE DEF k1
    <3>5. Leaves(c)
      BY <2>k, <3>2, <3>4, Zenon
    <3>6. Effect(c) /\ NoMore(c)
      BY <2>0, <3>1, <3>2, <1>BodyEffect, Zenon
    <3> QED BY <3>5, <3>6
  <2>3. ASSUME NEW k \in CallRecs, TearsDown(c, k)
        PROVE  Effect(c) /\ NoMore(c) /\ Leaves(c)
    <3> DEFINE t == Touched(k)
               k1 == [t EXCEPT !.stage = "terminating", !.timer = TRUE]
    <3>1. t \in CallRecs
      BY TouchedRec
    <3>2. Stays(c, k1)
      BY <2>3 DEF TearsDown
    <3> HIDE DEF t
    <3>3. k1 \in CallRecs
      BY <3>1, Zenon DEF CallRecs
    <3> HIDE DEF k1
    <3> QED BY <2>1, <3>2, <3>3
  <2>4. CASE InviteTurn(c)
    <3> DEFINE t == Touched(call[c])
               b == [t EXCEPT !.stage = "active", !.born = @ + 1]
    <3>1. t \in CallRecs /\ (~Resident(c) => t.timer = FALSE)
      BY <2>0, TouchedRec, Zenon DEF Resident, CallRecs
    <3>2. Stays(c, t) \/ Ends(c) \/ (~Resident(c) /\ Stays(c, b))
      BY <2>4 DEF InviteTurn
    <3> HIDE DEF t
    <3>3. ~Resident(c) => b \in CallRecs
      <4> DEFINE n == t.born + 1
      <4>1. n \in Nat /\ b = [t EXCEPT !.stage = "active", !.born = n]
        BY <3>1 DEF CallRecs
      <4> HIDE DEF n, b
      <4> QED BY <3>1, <4>1, Zenon DEF CallRecs
    <3> HIDE DEF b
    <3>4. CASE Stays(c, t)
      BY <2>0, <2>1, <3>1, <3>4
    <3>5. CASE ~Resident(c) /\ Stays(c, b)
      BY <2>0, <2>1, <3>3, <3>5
    <3> QED BY <2>0, <2>2, <3>2, <3>4, <3>5
  <2>5. CASE DialogTurn(c)
    <3> DEFINE k == IF worker[c].item.kind = "request" THEN Touched(call[c]) ELSE call[c]
    <3>1. k \in CallRecs
      BY <2>0, TouchedRec
    <3>2. Stays(c, k) \/ TearsDown(c, k) \/ Ends(c)
      BY <2>5 DEF DialogTurn
    <3> HIDE DEF k
    <3>3. CASE Stays(c, k)
      BY <2>0, <2>1, <3>1, <3>3
    <3>4. CASE TearsDown(c, k)
      BY <2>0, <2>3, <3>1, <3>4
    <3> QED BY <2>0, <2>2, <3>2, <3>3, <3>4
  <2>6. CASE TimerTurn(c)
    BY <2>0, <2>1, <2>2, <2>6 DEF TimerTurn
  <2>7. CASE VerdictTurn(c)
    BY <2>0, <2>1, <2>2, <2>3, <2>7 DEF VerdictTurn
  <2> QED BY <2>0, <2>4, <2>5, <2>6, <2>7 DEF Turn
\* A body hangs, panics or is aborted; a strike is posted to the router.
<1>FailureEffect.
    ASSUME DispatchInv, NEW c \in Calls, Hang(c) \/ Panic(c) \/ Aborted(c)
    PROVE  Effect(c) /\ NoMore(c) /\ Leaves(c)
  <2> USE <1>FailureEffect
  <2>0. /\ worker \in [Calls -> WorkerRecs] /\ posted[c] \in Seq(VerdictRecs) /\ ledger[c] \in LedgerRecs
        /\ UNCHANGED <<slots, ringing, late, halted, call>>
    BY LeavesSame DEF DispatchInv, DispatchTyped, Hang, Panic, Aborted
  <2>1. ASSUME Strikes(c) PROVE Leaves(c)
    <3> DEFINE v == Verdict(IF ledger[c].strikes = 0 THEN "fatal" ELSE "discharge")
               n == IF ledger[c].strikes = 0 THEN 1 ELSE 2
               l == [ledger[c] EXCEPT !.strikes = n]
    <3>1. v \in VerdictRecs
      BY Shapes DEF VerdictKinds
    <3>2. posted' = [posted EXCEPT ![c] = Append(posted[c], v)] /\ ledger' = [ledger EXCEPT ![c] = l]
      BY <2>1 DEF Strikes
    <3>3. n \in {0, 1, 2}
      OBVIOUS
    <3> HIDE DEF v, n
    <3>4. Append(posted[c], v) \in Seq(VerdictRecs)
      BY <2>0, <3>1
    <3>5. l \in LedgerRecs
      BY <2>0, <3>3 DEF LedgerRecs
    <3> HIDE DEF l
    <3> QED BY <2>0, <3>2, <3>4, <3>5, LeavesSame, LeavesOne, Zenon
  <2>2. CASE Hang(c)
    <3> DEFINE w == [worker[c] EXCEPT !.at = "hung"]
    <3>1. w \in WorkerRecs /\ w.at = "hung" /\ w.item = worker[c].item
      BY <2>0, <2>2 DEF Hang, WorkerRecs, Resting, Bodies
    <3>2. worker' = [worker EXCEPT ![c] = w] /\ UNCHANGED <<posted, ledger>> /\ InBody(c)
      BY <2>0, <2>2 DEF Hang, InBody
    <3> HIDE DEF w
    <3> QED BY <2>0, <3>1, <3>2, <1>BodyEffect, LeavesSame, Zenon
  <2>3. CASE Panic(c)
    <3>1. InBody(c) /\ Returns(c) /\ Strikes(c)
      BY <2>3 DEF Panic, InBody
    <3> QED BY <2>0, <2>1, <3>1, <1>ReturnsEffect
  <2>4. CASE Aborted(c)
    <3>1. InBody(c) /\ Returns(c)
      BY <2>4 DEF Aborted
    <3>2. CASE Strikes(c)
      BY <2>0, <2>1, <3>1, <3>2, <1>ReturnsEffect
    <3>3. CASE ~Strikes(c)
      <4> DEFINE h == ledger[c].heard /\ ledger[c].condemned
                 l == [ledger[c] EXCEPT !.overflowAbort = FALSE, !.heard = h]
      <4>1. posted' = posted /\ ledger' = [ledger EXCEPT ![c] = l]
        BY <2>4, <3>3, Zenon DEF Aborted
      <4>2. h \in BOOLEAN
        BY <2>0 DEF LedgerRecs
      <4> HIDE DEF h
      <4>3. l \in LedgerRecs
        BY <2>0, <4>2, Zenon DEF LedgerRecs
      <4> HIDE DEF l
      <4>4. Leaves(c)
        BY <2>0, <4>1, <4>3, LeavesSame, LeavesOne, Zenon
      <4> QED BY <2>0, <3>1, <4>4, <1>ReturnsEffect
    <3> QED BY <3>2, <3>3
  <2> QED BY <2>2, <2>3, <2>4
\* A sweep leaves the queue, and the worker but for its abort.
<1>SweepEffect.
    ASSUME DispatchInv, NEW c \in Calls, Sweep(c)
    PROVE  Effect(c) /\ NoMore(c) /\ Leaves(c)
  <2> USE <1>SweepEffect
  <2>0. /\ worker \in [Calls -> WorkerRecs] /\ ledger[c] \in LedgerRecs
        /\ OneOK(slots[c], worker[c], ringing[c], late[c], halted)
        /\ UNCHANGED <<slots, ringing, late, halted, call>>
    BY LeavesSame DEF DispatchInv, DispatchTyped, OK, Sweep
  <2> DEFINE a == Swept(c).abort
             w == [worker[c] EXCEPT !.abort = a]
             clean == [CleanLedger EXCEPT !.heard = ledger[c].heard]
             l == IF Resident(c) THEN Swept(c).led ELSE clean
  <2>3. Swept(c).led \in LedgerRecs /\ Swept(c).box \in Seq(VerdictRecs) /\ a \in BOOLEAN /\ (a = TRUE => InBody(c))
    BY SweptRec, Zenon
  <2>l. l \in LedgerRecs
    <3>1. clean \in LedgerRecs
      <4>1. CleanLedger \in LedgerRecs /\ ledger[c].heard \in BOOLEAN
        BY <2>0, CleanRec DEF LedgerRecs
      <4> QED BY <4>1 DEF LedgerRecs
    <3> QED BY <2>3, <3>1
  <2>5. /\ worker' = [worker EXCEPT ![c] = w] /\ posted' = [posted EXCEPT ![c] = Swept(c).box]
        /\ ledger' = [ledger EXCEPT ![c] = l]
    BY <2>0 DEF Sweep
  <2> HIDE DEF a, l
  <2>4. /\ w \in WorkerRecs /\ w.at = worker[c].at /\ w.wake = worker[c].wake
        /\ w.item = worker[c].item
    BY <2>0, <2>3 DEF WorkerRecs, InBody, Bodies
  <2> HIDE DEF w
  <2>6. OneOK(slots[c], w, ringing[c], late[c], halted)
    BY <2>0, <2>4 DEF OneOK
  <2>7. Effect(c) /\ worker'[c] = w
    BY <2>0, <2>4, <2>5, <2>6, <1>QuietEffect, Zenon
  <2>8. NoMore(c)
    BY <2>4, <2>7 DEF NoMore, InBody, HoldsShare
  <2>9. Leaves(c)
    BY <2>0, <2>3, <2>5, <2>l, LeavesSame, LeavesOne, Zenon
  <2> QED BY <2>7, <2>8, <2>9
\* The steps, one action at a time.
<1> SUFFICES
    ASSUME DispatchInv, NEW c \in Calls, Outside(c) \/ Router(c) \/ Work(c) \/ Aborted(c) \/ Sweep(c)
    PROVE  Effect(c) /\ Leaves(c) /\ (NoMore(c) \/ AcquireShare(c) \/ AcquirePool(c))
  OBVIOUS
<1>0. DispatchTyped /\ OK(c)
  BY DEF DispatchInv
<1>1. CASE Invite(c) \/ InviteCopy(c) \/ Request(c) \/ Cancelled(c) \/ TimerFires(c) \/ TakeVerdict(c)
  BY <1>1, <1>RouterEffect
<1>2. CASE Hang(c) \/ Panic(c) \/ Aborted(c)
  BY <1>2, <1>FailureEffect
<1>3. CASE GoesIdle(c)
  <2> DEFINE k == [call[c] EXCEPT !.idle = TRUE]
  <2>1. UNCHANGED <<slots, worker, ringing, posted, ledger, halted, late>> /\ call' = [call EXCEPT ![c] = k]
    BY <1>3 DEF GoesIdle
  <2>2. k \in CallRecs
    BY <1>0, Zenon DEF DispatchTyped, CallRecs
  <2> HIDE DEF k
  <2>3. Effect(c)
    BY <1>0, <2>1 DEF Effect, DispatchTyped, OK
  <2>4. NoMore(c)
    BY <2>1 DEF NoMore, InBody, HoldsShare
  <2>5. Leaves(c)
    BY <2>1, <2>2, LeavesSame, LeavesOne, Zenon
  <2> QED BY <2>3, <2>4, <2>5
<1>4. CASE Sweep(c)
  BY <1>4, <1>SweepEffect
<1>5. CASE Turn(c)
  BY <1>5, <1>TurnEffect
<1>6. CASE Ring(c)
  <2>1. UNCHANGED <<call, posted, ledger>>
    BY <1>6 DEF Ring
  <2> QED BY <1>6, <2>1, <1>RingEffect, LeavesSame
<1>7. CASE FindsNone(c) \/ Sleep(c)
  <2>1. UNCHANGED <<call, posted, ledger>>
    BY <1>7 DEF FindsNone, Sleep
  <2> QED BY <1>7, <2>1, <1>WaitEffect, LeavesSame
<1>8. CASE TakeRelease(c)
  <2>1. UNCHANGED <<call, posted, ledger>>
    BY <1>8 DEF TakeRelease
  <2> QED BY <1>8, <2>1, <1>TakeReleaseEffect, LeavesSame
<1>9. CASE TakeItem(c)
  <2>1. UNCHANGED <<call, posted, ledger>>
    BY <1>9 DEF TakeItem
  <2>2. Effect(c) /\ (worker'[c].at = "none" \/ worker'[c].at = "share"
                      \/ (worker'[c].at = "pool" /\ worker'[c].item.class # "InitialInvite"))
    BY <1>9, <1>TakeItemEffect
  <2>3. NoMore(c)
    BY <2>2 DEF NoMore, InBody, HoldsShare
  <2> QED BY <2>1, <2>2, <2>3, LeavesSame
<1>10. CASE AcquireShare(c) \/ AcquirePool(c)
  <2>1. UNCHANGED <<call, posted, ledger>>
    BY <1>10 DEF AcquireShare, AcquirePool
  <2> QED BY <1>10, <2>1, <1>AcquireEffect, LeavesSame
<1>11. CASE QueueRelease(c)
  <2>1. UNCHANGED <<call, posted, ledger>>
    BY <1>11 DEF QueueRelease
  <2> QED BY <1>11, <2>1, <1>QueueReleaseEffect, LeavesSame
<1> QED
  BY <1>1, <1>2, <1>3, <1>4, <1>5, <1>6, <1>7, <1>8, <1>9, <1>10, <1>11
  DEF Outside, Router, Work

\* What such a step keeps, of every reference.
LEMMA EffectKeeps ==
    ASSUME DispatchInv, NEW c \in Calls, Effect(c), Leaves(c)
    PROVE  DispatchTyped' /\ \A d \in Calls : OK(d)'
<1>1. DispatchTyped'
  BY DEF DispatchInv, DispatchTyped, Effect, Leaves
<1>2. ASSUME NEW d \in Calls PROVE OK(d)'
  <2>1. CASE d = c
    BY <2>1 DEF Effect, OK
  <2>2. CASE d # c
    <3>1. /\ slots'[d] = slots[d] /\ worker'[d] = worker[d] /\ ringing'[d] = ringing[d]
          /\ late'[d] = late[d] /\ halted' = halted
      BY <2>2 DEF Effect
    <3>2. OK(d)
      BY DEF DispatchInv
    <3> QED BY <3>1, <3>2 DEF OK
  <2> QED BY <2>1, <2>2
<1> QED BY <1>1, <1>2

\* The halt: no body had started late before it.
LEMMA HaltKeeps ==
    ASSUME DispatchInv, Halt
    PROVE  /\ DispatchTyped' /\ \A d \in Calls : OK(d)'
           /\ \A d \in Calls : worker'[d].at = worker[d].at /\ worker'[d].item = worker[d].item
           /\ slots' = slots
<1>0. DispatchTyped /\ \A d \in Calls : OK(d)
  BY DEF DispatchInv
<1>1. /\ halted = FALSE /\ halted' = TRUE /\ UNCHANGED <<slots, ringing, call, posted, ledger, late>>
      /\ worker' = [c \in Calls |-> [worker[c] EXCEPT !.abort = InBody(c)]]
  BY <1>0 DEF Halt, DispatchTyped
<1>2. ASSUME NEW d \in Calls
      PROVE  /\ worker'[d] \in WorkerRecs
             /\ worker'[d].at = worker[d].at /\ worker'[d].item = worker[d].item
  <2> DEFINE b == InBody(d)
  <2>1. b \in BOOLEAN /\ (b = TRUE => worker[d].at \in Bodies)
    BY DEF InBody, Bodies
  <2>2. worker'[d] = [worker[d] EXCEPT !.abort = b] /\ worker[d] \in WorkerRecs
    BY <1>0, <1>1 DEF DispatchTyped
  <2> HIDE DEF b
  <2> QED BY <2>1, <2>2 DEF WorkerRecs
<1>3. worker' \in [Calls -> WorkerRecs]
  <2> DEFINE V(c) == [worker[c] EXCEPT !.abort = InBody(c)]
  <2>1. worker' = [c \in Calls |-> V(c)]
    BY <1>1
  <2>2. \A c \in Calls : V(c) \in WorkerRecs
    BY <1>2, <2>1
  <2> HIDE DEF V
  <2> QED BY <2>1, <2>2
<1>4. DispatchTyped'
  BY <1>0, <1>1, <1>3, Zenon DEF DispatchTyped
<1>5. ASSUME NEW d \in Calls PROVE OK(d)'
  <2>1. OneOK(slots[d], worker[d], ringing[d], late[d], FALSE)
    BY <1>0, <1>1, Zenon DEF OK
  <2>2. late[d] = 0
    BY <2>1 DEF OneOK
  <2> DEFINE w == worker'[d]
  <2>3. w.at = worker[d].at
    BY <1>2
  <2> HIDE DEF w
  <2>4. OneOK(slots[d], w, ringing[d], late[d], TRUE)
    BY <2>1, <2>2, <2>3 DEF OneOK
  <2> QED BY <1>1, <2>4, Zenon DEF OK, w
<1> QED BY <1>1, <1>2, <1>4, <1>5

\* One more of the references, of a set that has room.
LEMMA OneMore ==
    ASSUME NEW S, NEW T, S \subseteq Calls, T \subseteq Calls, NEW c \in Calls, NEW N \in Nat,
           T \subseteq S \cup {c}, Cardinality(S) < N
    PROVE  Cardinality(T) <= N
<1>1. IsFiniteSet(S)
  BY FS_Subset, DispatchAssumption DEF DispatchAssumption
<1>2. /\ IsFiniteSet(S \cup {c}) /\ Cardinality(S) \in Nat /\ Cardinality(S \cup {c}) \in Nat
      /\ Cardinality(S \cup {c}) <= Cardinality(S) + 1
  <2>1. IsFiniteSet(S \cup {c}) /\ Cardinality(S) \in Nat
    BY <1>1, FS_AddElement, FS_CardinalityType
  <2>2. Cardinality(S \cup {c}) \in Nat
    BY <2>1, FS_CardinalityType
  <2>3. Cardinality(S \cup {c}) = Cardinality(S) \/ Cardinality(S \cup {c}) = Cardinality(S) + 1
    BY <1>1, FS_AddElement
  <2> QED BY <2>1, <2>2, <2>3
<1>3. Cardinality(T) <= Cardinality(S \cup {c}) /\ Cardinality(T) \in Nat
  BY <1>2, FS_Subset, FS_CardinalityType
<1> QED BY <1>2, <1>3

\* No more of them.
LEMMA NoneMore ==
    ASSUME NEW S, NEW T, S \subseteq Calls, T \subseteq S, NEW N \in Nat, Cardinality(S) <= N
    PROVE  Cardinality(T) <= N
<1>1. IsFiniteSet(S)
  BY FS_Subset, DispatchAssumption DEF DispatchAssumption
<1>2. Cardinality(T) <= Cardinality(S) /\ Cardinality(T) \in Nat /\ Cardinality(S) \in Nat
  BY <1>1, FS_Subset, FS_CardinalityType
<1> QED BY <1>2

\* Permits::acquire keeps the bodies within the permits and the initial INVITEs
\* within their share.
LEMMA SharingStep == DispatchInv /\ [DispatchNext]_vars => Sharing'
<1> SUFFICES ASSUME DispatchInv, [DispatchNext]_vars PROVE Sharing'
  OBVIOUS
<1> DEFINE B == {c \in Calls : InBody(c)}
           H == {c \in Calls : HoldsShare(c)}
           B1 == {c \in Calls : InBody(c)'}
           H1 == {c \in Calls : HoldsShare(c)'}
<1>0. /\ Cardinality(B) <= Concurrency /\ Cardinality(H) <= NewCallShare
      /\ Concurrency \in Nat /\ NewCallShare \in Nat
      /\ B \subseteq Calls /\ H \subseteq Calls /\ B1 \subseteq Calls /\ H1 \subseteq Calls
  BY DispatchAssumption DEF DispatchAssumption, DispatchInv, Sharing
<1>1. SUFFICES Cardinality(B1) <= Concurrency /\ Cardinality(H1) <= NewCallShare
  BY DEF Sharing
<1>2. ASSUME \A d \in Calls : (InBody(d)' => InBody(d)) /\ (HoldsShare(d)' => HoldsShare(d))
      PROVE  Cardinality(B1) <= Concurrency /\ Cardinality(H1) <= NewCallShare
  <2>1. B1 \subseteq B /\ H1 \subseteq H
    BY <1>2
  <2> HIDE DEF B, H, B1, H1
  <2> QED BY <1>0, <2>1, NoneMore
<1>3. CASE UNCHANGED vars
  BY <1>2, <1>3 DEF vars, InBody, HoldsShare
<1>4. CASE Halt
  <2>1. \A d \in Calls : worker'[d].at = worker[d].at /\ worker'[d].item = worker[d].item
    BY <1>4, HaltKeeps
  <2> QED BY <1>2, <2>1 DEF InBody, HoldsShare
<1>5. ASSUME NEW c \in Calls, Outside(c) \/ Router(c) \/ Work(c) \/ Aborted(c) \/ Sweep(c)
      PROVE  Cardinality(B1) <= Concurrency /\ Cardinality(H1) <= NewCallShare
  <2>1. Effect(c) /\ (NoMore(c) \/ AcquireShare(c) \/ AcquirePool(c))
    BY <1>5, AnyEffect
  <2>2. \A d \in Calls \ {c} : worker'[d] = worker[d]
    BY <2>1 DEF Effect
  <2>3. \A d \in Calls \ {c} : (InBody(d)' <=> InBody(d)) /\ (HoldsShare(d)' <=> HoldsShare(d))
    BY <2>2 DEF InBody, HoldsShare
  <2>4. CASE NoMore(c)
    BY <1>2, <2>3, <2>4 DEF NoMore
  <2>w. worker \in [Calls -> WorkerRecs] /\ worker[c] \in WorkerRecs
    BY DEF DispatchInv, DispatchTyped
  <2>5. CASE AcquireShare(c)
    <3>1. /\ worker[c].at = "share" /\ worker'[c].at = "pool" /\ worker'[c].item = worker[c].item
          /\ Cardinality(H) < NewCallShare
      BY <2>w, <2>5 DEF AcquireShare, WorkerRecs
    <3>2. B1 \subseteq B
      BY <2>3, <3>1 DEF InBody
    <3>3. H1 \subseteq H \cup {c}
      BY <2>3
    <3> HIDE DEF B, H, B1, H1
    <3>4. Cardinality(B1) <= Concurrency
      BY <1>0, <3>2, NoneMore
    <3>5. Cardinality(H1) <= NewCallShare
      BY <1>0, <3>1, <3>3, OneMore
    <3> QED BY <3>4, <3>5
  <2>6. CASE AcquirePool(c)
    <3>1. /\ worker[c].at = "pool" /\ worker'[c].at = "body" /\ worker'[c].item = worker[c].item
          /\ Cardinality(B) < Concurrency
      BY <2>w, <2>6 DEF AcquirePool, WorkerRecs
    <3>2. B1 \subseteq B \cup {c}
      BY <2>3
    <3>3. H1 \subseteq H
      BY <2>3, <3>1 DEF HoldsShare
    <3> HIDE DEF B, H, B1, H1
    <3>4. Cardinality(B1) <= Concurrency
      BY <1>0, <3>1, <3>2, OneMore
    <3>5. Cardinality(H1) <= NewCallShare
      BY <1>0, <3>3, NoneMore
    <3> QED BY <3>4, <3>5
  <2> QED BY <2>1, <2>4, <2>5, <2>6
<1> QED BY <1>3, <1>4, <1>5 DEF DispatchNext

-----------------------------------------------------------------------------
(* The theorems. *)

\* The node starts with an empty map.
LEMMA InvInit == DispatchInit => DispatchInv
<1> SUFFICES ASSUME DispatchInit PROVE DispatchInv
  OBVIOUS
<1>1. \A c \in Calls : /\ slots[c] = NoQueue /\ worker[c] = NoWorker
                       /\ ringing[c] = FALSE /\ late[c] = 0
  BY DEF DispatchInit
<1>2. DispatchTyped
  <2>1. NoQueue \in Queues /\ NoWorker \in WorkerRecs /\ NoCall \in CallRecs
    BY Shapes, CleanRec DEF Queues
  <2>2. <<>> \in Seq(VerdictRecs)
    OBVIOUS
  <2> QED BY <2>1, <2>2, CleanRec, Zenon DEF DispatchInit, DispatchTyped
<1>3. ASSUME NEW c \in Calls PROVE OK(c)
  <2>1. NoWorker.at = "none"
    BY Shapes
  <2> QED BY <1>1, <2>1 DEF OK, OneOK
<1>4. {c \in Calls : InBody(c)} = {} /\ {c \in Calls : HoldsShare(c)} = {}
  BY <1>1 DEF InBody, HoldsShare, NoWorker
<1>5. Sharing
  <2>1. Cardinality({c \in Calls : InBody(c)}) = 0 /\ Cardinality({c \in Calls : HoldsShare(c)}) = 0
    BY <1>4, FS_EmptySet
  <2> QED BY <2>1, DispatchAssumption DEF Sharing, DispatchAssumption
<1> QED BY <1>2, <1>3, <1>5 DEF DispatchInv

\* Every step keeps the invariant, and a queue leaves the map only on a
\* release that nothing waits behind.
LEMMA InvStep ==
    DispatchInv /\ [DispatchNext]_vars
        => /\ DispatchInv'
           /\ \A d \in Calls : Open(d) /\ slots'[d] = NoQueue => slots[d].entries = <<ReleaseEntry>>
<1> SUFFICES ASSUME DispatchInv, [DispatchNext]_vars
             PROVE  /\ DispatchInv'
                    /\ \A d \in Calls : Open(d) /\ slots'[d] = NoQueue
                                           => slots[d].entries = <<ReleaseEntry>>
  OBVIOUS
<1>1. Sharing'
  BY SharingStep
<1>2. CASE UNCHANGED vars
  <2>1. DispatchTyped' /\ \A d \in Calls : OK(d)'
    BY <1>2 DEF vars, DispatchInv, DispatchTyped, OK
  <2>2. slots' = slots
    BY <1>2 DEF vars
  <2> QED BY <1>1, <2>1, <2>2 DEF DispatchInv, Open
<1>3. CASE Halt
  <2>1. DispatchTyped' /\ (\A d \in Calls : OK(d)') /\ slots' = slots
    BY <1>3, HaltKeeps
  <2> QED BY <1>1, <2>1 DEF DispatchInv, Open
<1>4. ASSUME NEW c \in Calls, Outside(c) \/ Router(c) \/ Work(c) \/ Aborted(c) \/ Sweep(c)
      PROVE  /\ DispatchInv'
             /\ \A d \in Calls : Open(d) /\ slots'[d] = NoQueue => slots[d].entries = <<ReleaseEntry>>
  <2>1. Effect(c) /\ Leaves(c)
    BY <1>4, AnyEffect
  <2>2. DispatchTyped' /\ \A d \in Calls : OK(d)'
    BY <2>1, EffectKeeps
  <2>3. ASSUME NEW d \in Calls, Open(d), slots'[d] = NoQueue PROVE slots[d].entries = <<ReleaseEntry>>
    BY <2>1, <2>3 DEF Effect, Open
  <2> QED BY <1>1, <2>2, <2>3 DEF DispatchInv
<1> QED BY <1>2, <1>3, <1>4 DEF DispatchNext

\* What the invariant says of the release's place in a queue.
LEMMA InvLeads == DispatchInv => ReleaseLeadsNewCalls
<1> SUFFICES ASSUME DispatchInv, NEW c \in Calls, Open(c)
             PROVE  LET q == slots[c]
                    IN  /\ q.released <=> Cardinality(Releases(q)) = 1
                        /\ \A r \in Releases(q) :
                              /\ \A i \in NewCalls(q) : i > r
                              /\ r < Len(q.entries) => IsNewCall(q.entries[r + 1].class)
                              /\ q.nextCall <=> r < Len(q.entries)
  BY DEF ReleaseLeadsNewCalls
<1> DEFINE q == slots[c]
<1>1. q \in QueueRecs(QueueEntries) /\ Sound(q)
  BY DEF DispatchInv, DispatchTyped, OK, OneOK, Open, Queues
<1> HIDE DEF q
<1>2. /\ q.released => \E r \in DOMAIN q.entries : Releases(q) = {r}
      /\ ~q.released => Releases(q) = {}
      /\ \A r \in Releases(q) :
            /\ \A i \in NewCalls(q) : i > r
            /\ r < Len(q.entries) => IsNewCall(q.entries[r + 1].class)
            /\ q.nextCall <=> r < Len(q.entries)
  BY <1>1, LedMeans DEF Sound
<1>3. \A x : Cardinality({x}) = 1
  BY FS_Singleton, Zenon
<1>4. Cardinality({}) = 0 /\ 0 # 1
  BY FS_EmptySet
<1>5. q.released => Cardinality(Releases(q)) = 1
  BY <1>2, <1>3, Zenon
<1>6. ~q.released => Cardinality(Releases(q)) # 1
  BY <1>2, <1>4
<1>7. q.released <=> Cardinality(Releases(q)) = 1
  <2>1. q.released \in BOOLEAN
    BY <1>1 DEF QueueRecs
  <2> QED BY <1>5, <1>6, <2>1, Zenon
<1> QED BY <1>2, <1>7 DEF q

\* What it says of workers, permits and the halt.
LEMMA InvWorkers == DispatchInv => NothingStranded /\ NewCallsKeepToShare /\ HaltRunsAtMostOne
<1> SUFFICES ASSUME DispatchInv PROVE NothingStranded /\ NewCallsKeepToShare /\ HaltRunsAtMostOne
  OBVIOUS
<1>1. NothingStranded
  <2> SUFFICES ASSUME halted = FALSE, NEW c \in Calls
               PROVE  /\ Open(c) <=> worker[c].at # "none"
                      /\ worker[c].at \in {"empty", "asleep"} /\ slots[c].entries # <<>>
                            => worker[c].wake \/ ringing[c]
    BY Zenon DEF NothingStranded, DispatchInv, DispatchTyped
  <2>1. OneOK(slots[c], worker[c], ringing[c], late[c], FALSE)
    BY Zenon DEF DispatchInv, OK
  <2> QED BY <2>1 DEF OneOK, Open
<1>2. NewCallsKeepToShare
  <2> DEFINE H == {c \in Calls : HoldsShare(c)}
             I == {c \in Calls : InBody(c) /\ worker[c].item.class = "InitialInvite"}
  <2>1. /\ Cardinality({c \in Calls : InBody(c)}) <= Concurrency
        /\ Cardinality(H) <= NewCallShare /\ NewCallShare \in Nat
    BY DispatchAssumption DEF DispatchInv, Sharing, DispatchAssumption
  <2>2. I \subseteq H /\ H \subseteq Calls
    BY DEF InBody, HoldsShare
  <2>3. Cardinality(I) <= NewCallShare
    <3> HIDE DEF H, I
    <3> QED BY <2>1, <2>2, NoneMore
  <2> QED BY <2>1, <2>3 DEF NewCallsKeepToShare
<1>3. HaltRunsAtMostOne
  <2>1. \A c \in Calls : late[c] = 0 \/ late[c] = 1
    BY DEF DispatchInv, DispatchTyped
  <2> QED BY <2>1 DEF HaltRunsAtMostOne
<1> QED BY <1>1, <1>2, <1>3

\* What it says of the overflow.
LEMMA InvCounts == DispatchInv => WaitingExact
<1> SUFFICES ASSUME DispatchInv, NEW c \in Calls, Open(c)
             PROVE  /\ slots[c].waiting = Cardinality(Overflowing(slots[c]))
                    /\ slots[c].waiting <= Depth + 1
  BY DEF WaitingExact
<1> DEFINE q == slots[c]
<1>1. q \in QueueRecs(QueueEntries) /\ Sound(q)
  BY DEF DispatchInv, DispatchTyped, OK, OneOK, Queues, Open
<1> HIDE DEF q
<1>2. Counted(q.entries, q.waiting, q.released) /\ q.waiting \in Int
  BY <1>1 DEF Sound, CountedQueue, QueueRecs
<1>3. Overflowing(q) = Over(q.entries)
  BY DEF Overflowing, Over
<1>4. Depth \in Nat
  BY QueueAssumption DEF QueueAssumption
<1> QED BY <1>2, <1>3, <1>4 DEF Counted, q

\* What it says of the types.
LEMMA InvTyped == DispatchInv => DispatchTypeOK
<1> SUFFICES ASSUME DispatchInv, NEW c \in Calls
             PROVE  /\ Open(c) => IsQueue(slots[c])
                    /\ worker[c].item \in Items /\ worker[c].wake \in BOOLEAN
                    /\ worker[c].at \in {"none", "pop", "empty", "asleep"} <=> worker[c].item = NoItem
                    /\ worker[c].abort => InBody(c)
                    /\ \A i \in DOMAIN posted[c] : posted[c][i] \in Items /\ posted[c][i].kind \in VerdictKinds
                    /\ call[c].stage \in {"none", "active", "terminating"}
                    /\ call[c].timer => call[c].stage = "terminating"
                    /\ ledger[c].attempts <= EscalateDischargeAfter + 1
  BY DEF DispatchTypeOK
<1>0. /\ slots[c] \in Queues /\ worker[c] \in WorkerRecs /\ posted[c] \in Seq(VerdictRecs)
      /\ call[c] \in CallRecs /\ ledger[c] \in LedgerRecs
  BY DEF DispatchInv, DispatchTyped
<1>1. ItemRecs \subseteq Items /\ NoItem \in Items
  BY DEF ItemRecs, Items, NoItem, Item, Kinds, Classes, VerdictKinds
<1>2. ASSUME Open(c) PROVE IsQueue(slots[c])
  <2> DEFINE q == slots[c]
             s == q.entries
  <2>1. q \in QueueRecs(QueueEntries) /\ Sound(q)
    BY <1>0, <1>2 DEF DispatchInv, OK, OneOK, Queues, Open
  <2> HIDE DEF q
  <2>2. DOMAIN q = DOMAIN NewQueue
    BY <2>1 DEF QueueRecs, NewQueue
  <2>3. s \in Seq(QueueEntries)
    BY <2>1 DEF QueueRecs
  <2> HIDE DEF s
  <2>4. \A i \in DOMAIN s : s[i] \in QueueEntries
    BY <2>3
  <2>5. \A i \in DOMAIN s : s[i] \in Items \cup {ReleaseEntry}
    BY <1>1, <2>4 DEF QueueEntries
  <2>6. {q.released, q.nextCall, q.capped} \subseteq BOOLEAN
    BY <2>1 DEF QueueRecs
  <2>7. q.waiting = Cardinality(Over(s)) /\ Cardinality(Over(s)) \in Nat
    BY <2>1, <2>3, OverFinite DEF Sound, CountedQueue, Counted, s
  <2>8. {q.waiting, q.offered, q.nextOffered} \subseteq Nat
    BY <2>1, <2>7 DEF QueueRecs
  <2> QED BY <2>2, <2>5, <2>6, <2>8 DEF IsQueue, q, s
<1>3. /\ worker[c].item \in Items /\ worker[c].wake \in BOOLEAN
      /\ worker[c].at \in {"none", "pop", "empty", "asleep"} <=> worker[c].item = NoItem
  BY <1>0, <1>1 DEF WorkerRecs, Resting
<1>4. worker[c].abort => InBody(c)
  BY <1>0 DEF WorkerRecs, Bodies, InBody
<1>5. ASSUME NEW i \in DOMAIN posted[c]
      PROVE  posted[c][i] \in Items /\ posted[c][i].kind \in VerdictKinds
  <2> DEFINE p == posted[c]
  <2>1. p \in Seq(VerdictRecs) /\ i \in DOMAIN p
    BY <1>0
  <2> HIDE DEF p
  <2>2. p[i] \in VerdictRecs
    BY <2>1
  <2>3. p[i] \in ItemRecs /\ p[i].kind \in VerdictKinds
    BY <2>2 DEF VerdictRecs
  <2> QED BY <1>1, <2>3 DEF p
<1>6. /\ call[c].stage \in {"none", "active", "terminating"}
      /\ call[c].timer => call[c].stage = "terminating"
  BY <1>0 DEF CallRecs
<1>7. ledger[c].attempts <= EscalateDischargeAfter + 1
  <2>1. ledger[c].attempts \in Rungs
    BY <1>0, Zenon DEF LedgerRecs
  <2> QED BY <2>1 DEF Rungs, EscalateDischargeAfter
<1> QED BY <1>2, <1>3, <1>4, <1>5, <1>6, <1>7

-----------------------------------------------------------------------------
(* A capped call the reaper heard of. *)

\* A verdict that ends the call it finds active.
EndingVerdict(e) == e.class = "Internal" /\ e.kind \in VerdictKinds \ {"stale"}

\* No new call waits in s.
NoNewCall(s) == \A j \in 1..Len(s) : ~IsNewCall(s[j].class)

\* An ending verdict is on its way with no new call behind it, or has run: no
\* INVITE is left to run before the release, and the call is not active or is
\* condemned.
Coming(q, i, stage, p, condemned) ==
    \/ \E n \in 1..Len(p) : EndingVerdict(p[n])
    \/ \E n \in 1..Len(q.entries) :
          /\ EndingVerdict(q.entries[n])
          /\ \A m \in 1..Len(q.entries) : m > n => ~IsNewCall(q.entries[m].class)
    \/ EndingVerdict(i) /\ NoNewCall(q.entries)
    \/ /\ NoNewCall(q.entries) /\ ~IsNewCall(i.class)
       /\ stage # "active" \/ condemned = TRUE

\* The queue is capped for the call on it, and the reaper heard.
Due(q, l, h) ==
    q # NoQueue /\ q.capped = TRUE /\ q.released = FALSE /\ l.heard = TRUE /\ h = FALSE

\* The sentence of a capped call the reaper heard of is coming, or has run.
Told(c) ==
    Due(slots[c], ledger[c], halted)
        => Coming(slots[c], worker[c].item, call[c].stage, posted[c], ledger[c].condemned)

\* What an offer does to a queue that is not released: the cap is crossed by it
\* or before, a capped queue takes no new call, and a verdict is never refused.
LEMMA OfferCaps ==
    ASSUME NEW E, NEW q \in QueueRecs(E), NEW item \in E
    PROVE  LET o == Offer(q, item)
           IN  /\ o.queue.released = q.released
               /\ o.queue.capped = TRUE /\ q.capped = FALSE => o.crossed
               /\ q.capped = TRUE /\ q.released = FALSE /\ IsNewCall(item.class) => o.why # "none"
               /\ q.released = FALSE /\ item.class = "Internal" => o.why = "none"
<1> DEFINE n == Noted(q, item.class)
           why == Discard(n, item.class)
<1>1. /\ n \in QueueRecs(E) /\ n.released = q.released
      /\ n.capped = (q.capped \/ Crosses(q, item.class))
  <2>1. n \in QueueRecs(E) /\ n.released = q.released
    BY NotedKeeps, Zenon
  <2>2. "capped" \in DOMAIN q
    BY DEF QueueRecs
  <2> QED BY <2>1, <2>2, Zenon DEF Noted
<1>2. /\ Offer(q, item).why = why /\ Offer(q, item).crossed = Crosses(q, item.class)
      /\ why = "none" => Offer(q, item).queue = Queued(n, item)
      /\ why # "none" => Offer(q, item).queue = n
  BY DEF Offer
<1>3. Queued(n, item).released = n.released /\ Queued(n, item).capped = n.capped
  BY <1>1 DEF Queued, QueueRecs
<1>4. q.capped = TRUE /\ q.released = FALSE /\ IsNewCall(item.class) => why # "none"
  BY <1>1, Zenon DEF Discard, WaitsForNext, AdmittedWhenCapped, AlwaysRoom, IsNewCall
<1>5. q.released = FALSE /\ item.class = "Internal" => why = "none"
  BY <1>1 DEF Discard, WaitsForNext, AdmittedWhenCapped, AlwaysRoom, Bounded, PastBounds, IsNewCall
<1>6. q.capped \in BOOLEAN
  BY DEF QueueRecs
<1> HIDE DEF n, why
<1> QED BY <1>1, <1>2, <1>3, <1>4, <1>5, <1>6

\* A reference a step leaves as it was, but for its worker's place, is told of as
\* it was.
LEMMA ToldSame ==
    ASSUME NEW c \in Calls, Told(c), slots'[c] = slots[c], worker'[c].item = worker[c].item,
           call'[c].stage = call[c].stage, posted'[c] = posted[c], ledger'[c] = ledger[c],
           halted' = halted
    PROVE  Told(c)'
BY Zenon DEF Told, Due, Coming

\* An item that is no new call, queued last, leaves what is coming.
LEMMA ComingQueued ==
    ASSUME NEW q, NEW r, NEW i, NEW stage, NEW p, NEW b, NEW b1, NEW E, q.entries \in Seq(E), NEW e \in E,
           b = TRUE => b1 = TRUE,
           r.entries = q.entries \/ (r.entries = Append(q.entries, e) /\ ~IsNewCall(e.class)),
           Coming(q, i, stage, p, b)
    PROVE  Coming(r, i, stage, p, b1)
<1> DEFINE s == q.entries
           t == r.entries
<1>1. CASE t = s
  BY <1>1 DEF Coming, NoNewCall
<1>2. CASE t = Append(s, e) /\ ~IsNewCall(e.class)
  <2>0. s \in Seq(E)
    OBVIOUS
  <2>1. Len(t) = Len(s) + 1 /\ Len(s) \in Nat /\ t[Len(s) + 1] = e /\ \A n \in 1..Len(s) : t[n] = s[n]
    BY <1>2, <2>0, AppendFacts
  <2>2. \A n \in 1..Len(t) : n \in 1..Len(s) \/ n = Len(s) + 1
    BY <2>1
  <2>3. \A n \in 1..Len(s) : n \in 1..Len(t)
    BY <2>1
  <2>4. \/ \E n \in 1..Len(p) : EndingVerdict(p[n])
        \/ \E n \in 1..Len(s) : EndingVerdict(s[n]) /\ \A m \in 1..Len(s) : m > n => ~IsNewCall(s[m].class)
        \/ EndingVerdict(i) /\ NoNewCall(s)
        \/ NoNewCall(s) /\ ~IsNewCall(i.class) /\ (stage # "active" \/ b = TRUE)
    BY DEF Coming
  <2> HIDE DEF s, t
  <2>5. NoNewCall(s) => NoNewCall(t)
    BY <1>2, <2>1, <2>2 DEF NoNewCall
  <2>6. ASSUME NEW n \in 1..Len(s), EndingVerdict(s[n]),
               \A m \in 1..Len(s) : m > n => ~IsNewCall(s[m].class)
        PROVE  /\ n \in 1..Len(t) /\ EndingVerdict(t[n])
               /\ \A m \in 1..Len(t) : m > n => ~IsNewCall(t[m].class)
    BY <1>2, <2>1, <2>2, <2>3, <2>6
  <2> QED BY <2>4, <2>5, <2>6 DEF Coming, t
<1> QED BY <1>1, <1>2 DEF s, t

\* The same, of the channel: a longer one tells as much.
LEMMA ComingPosted ==
    ASSUME NEW q, NEW i, NEW stage, NEW p \in Seq(VerdictRecs), NEW x \in Seq(VerdictRecs), NEW b,
           Coming(q, i, stage, p, b)
    PROVE  Coming(q, i, stage, p \o x, b)
<1>1. /\ Len(p) \in Nat /\ Len(x) \in Nat /\ Len(p \o x) = Len(p) + Len(x)
      /\ \A n \in 1..Len(p) : (p \o x)[n] = p[n]
  OBVIOUS
<1>2. \A n \in 1..Len(p) : n \in 1..Len(p \o x)
  BY <1>1
<1> DEFINE y == p \o x
<1> HIDE DEF y
<1>3. \A n \in 1..Len(p) : n \in 1..Len(y) /\ y[n] = p[n]
  BY <1>1, <1>2 DEF y
<1>4. Coming(q, i, stage, y, b)
  BY <1>3 DEF Coming
<1> QED BY <1>4 DEF y

\* A verdict put in the channel is there whatever follows it.
LEMMA PostedAt ==
    ASSUME NEW E, NEW p \in Seq(E), NEW v \in E, NEW x \in Seq(E)
    PROVE  LET y == (p \o <<v>>) \o x
           IN  Len(p) + 1 \in 1..Len(y) /\ y[Len(p) + 1] = v
<1> DEFINE z == Append(p, v)
<1>1. z \in Seq(E) /\ Len(z) = Len(p) + 1 /\ Len(p) \in Nat /\ z[Len(p) + 1] = v
  BY AppendFacts
<1>2. p \o <<v>> = z
  OBVIOUS
<1> HIDE DEF z
<1>3. /\ Len(z \o x) = Len(z) + Len(x) /\ Len(x) \in Nat
      /\ \A m \in 1..Len(z) : (z \o x)[m] = z[m]
  BY <1>1
<1>4. Len(p) + 1 \in 1..Len(z) /\ Len(p) + 1 \in 1..Len(z \o x)
  BY <1>1, <1>3
<1> QED BY <1>1, <1>2, <1>3, <1>4

\* An offer: the one that crosses the cap posts its verdict, and a verdict taken
\* from the channel is queued behind every INVITE.
LEMMA OfferTold ==
    ASSUME DispatchInv, NEW c \in Calls, Told(c), NEW item \in ItemRecs, NEW box \in Seq(VerdictRecs),
           RouterFree, OfferTo(c, item, box), halted' = halted, call'[c].stage = call[c].stage,
           box = posted[c] \/ (posted[c] # <<>> /\ item = Head(posted[c]) /\ box = Tail(posted[c]))
    PROVE  Told(c)'
<1>0. /\ DispatchTyped /\ OK(c) /\ halted = FALSE /\ ledger[c] \in LedgerRecs /\ posted[c] \in Seq(VerdictRecs)
  BY LeavesSame DEF DispatchInv, DispatchTyped, RouterFree
<1>1. CASE AtCap(c, item.class)
  BY <1>1 DEF OfferTo, AtCap, Open, Told, Due
<1>2. CASE ~AtCap(c, item.class)
  <2> DEFINE q0 == IF Open(c) THEN slots[c] ELSE NewQueue
             o == Offer(q0, item)
             crossed == o.crossed /\ ~ledger[c].capped
             ceiling == o.why = "Ceiling" /\ ~ledger[c].condemned
             a == IF crossed THEN <<Verdict("cap")>> ELSE <<>>
             b == IF ceiling THEN <<Verdict("overflow")>> ELSE <<>>
             heard == IF o.queue.capped /\ ~q0.capped THEN ~ledger[c].capped ELSE ledger[c].heard
             sentenced == ledger[c].condemned \/ ceiling
             led == [ledger[c] EXCEPT !.capped = @ \/ crossed, !.heard = heard, !.condemned = sentenced]
  <2>1. q0 \in QueueRecs(QueueEntries) /\ Sound(q0)
    <3>1. CASE Open(c)
      BY <1>0, <3>1, Zenon DEF Open, OK, OneOK, DispatchTyped, Queues
    <3>2. CASE ~Open(c)
      BY <3>2, Shapes, Zenon
    <3> QED BY <3>1, <3>2
  <2>2. /\ slots'[c] = o.queue /\ posted'[c] = (box \o a) \o b
        /\ ledger'[c] = led /\ (Open(c) => worker'[c] = worker[c])
    BY <1>0, <1>2, Zenon DEF OfferTo, DispatchTyped
  <2>3. ledger'[c].heard = heard /\ ledger'[c].condemned = sentenced
    <3> HIDE DEF crossed, heard, sentenced
    <3> QED BY <1>0, <2>2 DEF LedgerRecs
  <2>4. a \in Seq(VerdictRecs) /\ b \in Seq(VerdictRecs)
    <3>1. Verdict("cap") \in VerdictRecs /\ Verdict("overflow") \in VerdictRecs
      BY Shapes DEF VerdictKinds
    <3> HIDE DEF crossed, ceiling
    <3> QED BY <3>1
  <2>5. item \in QueueEntries /\ ~IsRelease(item)
    BY Shapes DEF QueueEntries
  <2>6. ~Open(c) => q0.capped = FALSE
    BY DEF NewQueue
  <2>7. Open(c) => q0 = slots[c] /\ slots[c] # NoQueue
    BY DEF Open
  <2>t. ledger[c].heard \in BOOLEAN /\ ledger[c].capped \in BOOLEAN /\ ledger[c].condemned \in BOOLEAN
    BY <1>0 DEF LedgerRecs
  <2> HIDE DEF q0
  <2>8. /\ o.queue.released = q0.released
        /\ o.queue.capped = TRUE /\ q0.capped = FALSE => o.crossed
        /\ q0.capped = TRUE /\ q0.released = FALSE /\ IsNewCall(item.class) => o.why # "none"
        /\ q0.released = FALSE /\ item.class = "Internal" => o.why = "none"
    BY <2>1, <2>5, OfferCaps, Zenon
  <2>9. o.queue.entries = IF o.why = "none" THEN Append(q0.entries, item) ELSE q0.entries
    <3>1. Holds(QueueEntries)
      BY Shapes, Zenon
    <3>2. \A i \in QueueEntries : ~IsRelease(i) =>
             /\ Offer(q0, i).queue \in QueueRecs(QueueEntries) /\ Sound(Offer(q0, i).queue)
             /\ Offer(q0, i).queue.entries =
                   IF Offer(q0, i).why = "none" THEN Append(q0.entries, i) ELSE q0.entries
      BY <2>1, <3>1, OperationsSound, Zenon
    <3> QED BY <2>5, <3>2, Zenon
  <2>10. q0.capped \in BOOLEAN /\ q0.released \in BOOLEAN /\ q0.entries \in Seq(QueueEntries)
    BY <2>1 DEF QueueRecs
  <2> HIDE DEF o
  <2> SUFFICES ASSUME Due(slots'[c], ledger'[c], FALSE)
               PROVE  Coming(o.queue, worker'[c].item, call[c].stage, (box \o a) \o b, sentenced)
    BY <1>0, <2>2, <2>3, Zenon DEF Told
  <2>11. o.queue.capped = TRUE /\ o.queue.released = FALSE /\ heard = TRUE
    BY <2>2, <2>3, Zenon DEF Due
  <2>12. CASE q0.capped = FALSE
    <3>1. crossed
      BY <2>8, <2>11, <2>12, <2>t
    <3>2. a = <<Verdict("cap")>>
      BY <3>1
    <3>3. EndingVerdict(Verdict("cap"))
      BY DEF EndingVerdict, Verdict, Item, VerdictKinds
    <3> HIDE DEF a, b
    <3> DEFINE y == (box \o a) \o b
               n == Len(box) + 1
    <3>4. n \in 1..Len(y) /\ y[n] = Verdict("cap")
      <4>1. Verdict("cap") \in VerdictRecs
        BY Shapes, Zenon DEF VerdictKinds
      <4> QED BY <2>4, <3>2, <4>1, PostedAt
    <3> HIDE DEF y, n
    <3>5. Coming(o.queue, worker'[c].item, call[c].stage, y, sentenced)
      BY <3>3, <3>4 DEF Coming
    <3> QED BY <3>5 DEF y
  <2>13. CASE q0.capped = TRUE
    <3> DEFINE i == worker[c].item
               s == call[c].stage
    <3>1. Open(c) /\ q0 = slots[c] /\ worker'[c].item = i /\ ledger[c].heard = TRUE /\ q0.released = FALSE
      BY <2>2, <2>6, <2>7, <2>8, <2>11, <2>13
    <3>2. Coming(q0, i, s, posted[c], ledger[c].condemned)
      BY <1>0, <2>7, <2>13, <3>1, Zenon DEF Told, Due
    <3>3. \/ o.queue.entries = q0.entries
          \/ o.queue.entries = Append(q0.entries, item) /\ ~IsNewCall(item.class)
      BY <2>8, <2>9, <2>13, <3>1, Zenon
    <3>4. ledger[c].condemned = TRUE => sentenced = TRUE
      OBVIOUS
    <3> HIDE DEF i, s, sentenced, a, b
    <3>5. ASSUME Coming(o.queue, i, s, box, sentenced)
          PROVE  Coming(o.queue, i, s, (box \o a) \o b, sentenced)
      <4>1. box \o a \in Seq(VerdictRecs)
        BY <2>4
      <4>2. Coming(o.queue, i, s, box \o a, sentenced)
        BY <2>4, <3>5, ComingPosted, Zenon
      <4> QED BY <2>4, <4>1, <4>2, ComingPosted, Zenon
    <3>6. ASSUME Coming(q0, i, s, box, ledger[c].condemned)
          PROVE  Coming(o.queue, i, s, box, sentenced)
      <4>1. PICK Q, R, I, S, B, B1 :
               /\ Q = q0 /\ R = o.queue /\ I = i /\ S = s /\ B = ledger[c].condemned /\ B1 = sentenced
        BY Zenon
      <4>2. /\ Q.entries \in Seq(QueueEntries) /\ item \in QueueEntries /\ Coming(Q, I, S, box, B)
            /\ R.entries = Q.entries \/ (R.entries = Append(Q.entries, item) /\ ~IsNewCall(item.class))
            /\ B = TRUE => B1 = TRUE
        BY <2>5, <2>10, <3>3, <3>4, <3>6, <4>1, Zenon
      <4>3. Coming(R, I, S, box, B1)
        BY <4>2, ComingQueued, Zenon
      <4> QED BY <4>1, <4>3
    <3>7. CASE box = posted[c]
      BY <3>1, <3>2, <3>5, <3>6, <3>7, Zenon DEF s
    <3>8. CASE posted[c] # <<>> /\ item = Head(posted[c]) /\ box = Tail(posted[c])
      <4> DEFINE p == posted[c]
      <4>1. /\ p \in Seq(VerdictRecs) /\ p # <<>> /\ Len(box) = Len(p) - 1 /\ Len(p) \in Nat \ {0}
            /\ \A n \in 1..Len(p) - 1 : box[n] = p[n + 1]
            /\ item = p[1] /\ item \in VerdictRecs
        BY <1>0, <3>8, TailFacts
      <4> HIDE DEF p
      <4>2. item.class = "Internal"
        BY <4>1 DEF VerdictRecs, ItemRecs
      <4>3. o.queue.entries = Append(q0.entries, item)
        BY <2>8, <2>9, <3>1, <4>2, Zenon
      <4>4. CASE EndingVerdict(item)
        <5> DEFINE e == o.queue.entries
                   n == Len(q0.entries) + 1
        <5>1. Len(e) = n /\ n \in Nat \ {0} /\ e[n] = item
          <6>1. PICK x \in Seq(QueueEntries) : x = q0.entries
            BY <2>10
          <6>2. Len(Append(x, item)) = Len(x) + 1 /\ Len(x) \in Nat /\ Append(x, item)[Len(x) + 1] = item
            BY <2>5, AppendFacts
          <6> QED BY <4>3, <6>1, <6>2
        <5> HIDE DEF n
        <5>2. n \in 1..Len(e) /\ \A m \in 1..Len(e) : ~(m > n)
          BY <5>1
        <5>3. Coming(o.queue, i, s, box, sentenced)
          BY <4>4, <5>1, <5>2 DEF Coming
        <5> QED BY <3>1, <3>5, <5>3, Zenon DEF s
      <4>5. CASE ~EndingVerdict(item)
        <5>1. ASSUME NEW n \in 1..Len(p), EndingVerdict(p[n])
              PROVE  n - 1 \in 1..Len(box) /\ EndingVerdict(box[n - 1])
          <6>1. n # 1
            BY <4>1, <4>5, <5>1
          <6>2. n - 1 \in 1..Len(p) - 1 /\ (n - 1) + 1 = n
            BY <4>1, <6>1
          <6>3. box[n - 1] = p[n]
            BY <4>1, <6>2
          <6> QED BY <4>1, <5>1, <6>2, <6>3, Zenon
        <5>2. Coming(q0, i, s, box, ledger[c].condemned)
          BY <3>2, <5>1 DEF Coming, p
        <5> QED BY <3>1, <3>5, <3>6, <5>2, Zenon DEF s
      <4> QED BY <4>4, <4>5, Zenon
    <3> QED BY <3>7, <3>8, Zenon
  <2> QED BY <2>10, <2>12, <2>13, Zenon
<1> QED BY <1>1, <1>2

\* An item taken from the queue: what was coming is in its turn, or behind it.
LEMMA ComingPopped ==
    ASSUME NEW q, NEW r, NEW stage, NEW p, NEW b, NEW E, q.entries \in Seq(E), q.entries # <<>>,
           r.entries = Tail(q.entries), Coming(q, NoItem, stage, p, b)
    PROVE  Coming(r, Head(q.entries), stage, p, b)
<1> DEFINE s == q.entries
           t == r.entries
<1>0. s \in Seq(E) /\ s # <<>> /\ t = Tail(s)
  OBVIOUS
<1>1. /\ Len(t) = Len(s) - 1 /\ Len(s) \in Nat \ {0} /\ Head(s) = s[1]
      /\ \A n \in 1..Len(s) - 1 : t[n] = s[n + 1]
  BY <1>0, TailFacts
<1>2. ~EndingVerdict(NoItem)
  BY DEF EndingVerdict, NoItem, Item, VerdictKinds
<1>3. \/ \E n \in 1..Len(p) : EndingVerdict(p[n])
      \/ \E n \in 1..Len(s) : EndingVerdict(s[n]) /\ \A m \in 1..Len(s) : m > n => ~IsNewCall(s[m].class)
      \/ NoNewCall(s) /\ (stage # "active" \/ b = TRUE)
  BY <1>2 DEF Coming
<1> HIDE DEF s, t
<1>4. \A n \in 1..Len(t) : n + 1 \in 1..Len(s) /\ t[n] = s[n + 1] /\ n + 1 > 1
  BY <1>1
<1>5. NoNewCall(s) => NoNewCall(t) /\ ~IsNewCall(s[1].class)
  BY <1>1, <1>4 DEF NoNewCall
<1>6. ASSUME NEW n \in 1..Len(s), EndingVerdict(s[n]),
             \A m \in 1..Len(s) : m > n => ~IsNewCall(s[m].class)
      PROVE  Coming(r, s[1], stage, p, b)
  <2>1. CASE n = 1
    <3>1. NoNewCall(t)
      BY <1>4, <1>6, <2>1, Zenon DEF NoNewCall
    <3> QED BY <1>6, <2>1, <3>1 DEF Coming, t
  <2>2. CASE n # 1
    <3>1. n - 1 \in 1..Len(t) /\ t[n - 1] = s[n]
      BY <1>1, <2>2
    <3>2. \A m \in 1..Len(t) : m > n - 1 => m + 1 > n
      BY <1>1
    <3>3. \A m \in 1..Len(t) : m > n - 1 => ~IsNewCall(t[m].class)
      BY <1>4, <1>6, <3>2
    <3> QED BY <1>6, <3>1, <3>3, Zenon DEF Coming, t
  <2> QED BY <2>1, <2>2
<1>7. ASSUME NoNewCall(s), stage # "active" \/ b = TRUE
      PROVE  Coming(r, s[1], stage, p, b)
  BY <1>5, <1>7 DEF Coming, t
<1>8. ASSUME \E n \in 1..Len(p) : EndingVerdict(p[n])
      PROVE  Coming(r, s[1], stage, p, b)
  BY <1>8 DEF Coming
<1>9. Coming(r, s[1], stage, p, b)
  BY <1>3, <1>6, <1>7, <1>8, Zenon
<1> QED BY <1>1, <1>9 DEF s

\* The worker takes an item.
LEMMA TakeItemTold ==
    ASSUME DispatchInv, NEW c \in Calls, Told(c), TakeItem(c)
    PROVE  Told(c)'
<1> DEFINE q0 == slots[c]
           q == Popped(q0)
           item == Head(q0.entries)
<1>0. /\ worker[c] \in WorkerRecs /\ worker \in [Calls -> WorkerRecs] /\ slots \in [Calls -> Queues]
      /\ worker[c].at = "pop" /\ halted \in BOOLEAN
      /\ UNCHANGED <<call, posted, ledger, halted>>
  BY DEF DispatchInv, DispatchTyped, TakeItem
<1>1. q0 \in QueueRecs(QueueEntries) /\ Sound(q0) /\ q0 # NoQueue
  BY <1>0, WorkerHasQueue, Shapes, Zenon
<1>2. q0.entries # <<>> /\ q0.entries \in Seq(QueueEntries) /\ ~IsRelease(item)
  <2>1. q0.entries # <<>> /\ q0.entries \in Seq(QueueEntries) /\ item # ReleaseEntry
    BY <1>1 DEF TakeItem, HeadIs, QueueRecs
  <2>2. item \in QueueEntries
    BY <2>1
  <2> QED BY <2>1, <2>2, Shapes DEF QueueEntries
<1>3. q.entries = Tail(q0.entries)
  BY <1>1, <1>2, OperationsSound, Shapes, Zenon
<1>4. q.released = q0.released /\ q.capped = q0.capped
  BY <1>1 DEF Popped, QueueRecs
<1>5. worker[c].item = NoItem
  BY <1>0 DEF WorkerRecs, Resting
<1>6. slots'[c] = q /\ (halted = FALSE => worker'[c].item = item)
  <2>1. slots'[c] = q
    BY <1>0 DEF TakeItem
  <2>2. halted = FALSE => worker'[c].item = item
    BY <1>0 DEF TakeItem, WorkerRecs
  <2> QED BY <2>1, <2>2
<1> HIDE DEF q, item, q0
<1> SUFFICES ASSUME Due(q, ledger[c], halted)
             PROVE  Coming(q, item, call[c].stage, posted[c], ledger[c].condemned)
  BY <1>0, <1>6, Zenon DEF Told, Due
<1>7. Due(q0, ledger[c], halted)
  BY <1>1, <1>4 DEF Due
<1>8. Coming(q0, NoItem, call[c].stage, posted[c], ledger[c].condemned)
  BY <1>5, <1>7 DEF Told, q0
<1>9. PICK Q, R, S, P, B :
         /\ Q = q0 /\ R = q /\ S = call[c].stage /\ P = posted[c] /\ B = ledger[c].condemned
  OBVIOUS
<1>10. /\ Q.entries \in Seq(QueueEntries) /\ Q.entries # <<>> /\ R.entries = Tail(Q.entries)
       /\ Coming(Q, NoItem, S, P, B)
  BY <1>2, <1>3, <1>8, <1>9, Zenon
<1>11. Coming(R, Head(Q.entries), S, P, B)
  BY <1>10, ComingPopped, Zenon
<1> QED BY <1>9, <1>11 DEF item

\* What a turn makes of its call: only an INVITE's turn makes one active, and an
\* ending verdict's turn leaves none active.
LEMMA TurnFate ==
    ASSUME DispatchInv, NEW c \in Calls, Turn(c)
    PROVE  /\ worker'[c].item = NoItem \/ worker'[c].item = worker[c].item
           /\ call'[c].stage = "active" => call[c].stage = "active" \/ worker[c].item.kind \in {"invite", "copy"}
           /\ EndingVerdict(worker[c].item) => call'[c].stage # "active"
<1>0. /\ worker \in [Calls -> WorkerRecs] /\ worker[c] \in WorkerRecs
      /\ call \in [Calls -> CallRecs] /\ call[c] \in CallRecs
  BY DEF DispatchInv, DispatchTyped
<1> DEFINE Fate(stage) == /\ worker'[c].item = NoItem \/ worker'[c].item = worker[c].item
                          /\ call'[c].stage = stage
<1>1. ASSUME NEW k \in CallRecs, Stays(c, k) PROVE Fate(k.stage)
  BY <1>0, <1>1 DEF Stays, Returns, Idle, WorkerRecs
<1>t. ASSUME NEW k \in CallRecs
      PROVE  /\ Touched(k) \in CallRecs /\ Touched(k).stage = k.stage
             /\ [Touched(k) EXCEPT !.stage = "terminating", !.timer = TRUE] \in CallRecs
             /\ [Touched(k) EXCEPT !.stage = "terminating", !.timer = TRUE].stage = "terminating"
             /\ [Touched(k) EXCEPT !.stage = "none", !.timer = FALSE].stage = "none"
  <2> DEFINE t == Touched(k)
  <2>1. t \in CallRecs /\ t.stage = k.stage
    BY TouchedRec
  <2> HIDE DEF t
  <2>2. /\ [t EXCEPT !.stage = "terminating", !.timer = TRUE] \in CallRecs
        /\ [t EXCEPT !.stage = "terminating", !.timer = TRUE].stage = "terminating"
        /\ [t EXCEPT !.stage = "none", !.timer = FALSE].stage = "none"
    BY <2>1, Zenon DEF CallRecs
  <2> QED BY <2>1, <2>2 DEF t
<1>2. ASSUME Ends(c) PROVE Fate("none")
  <2>1. call'[c].stage = "none"
    BY <1>0, <1>2, <1>t, Zenon DEF Ends
  <2>2. worker'[c].item = worker[c].item
    BY <1>0, <1>2 DEF Ends, WorkerRecs
  <2> QED BY <2>1, <2>2
<1>3. ASSUME NEW k \in CallRecs, TearsDown(c, k) PROVE Fate("terminating")
  <2> DEFINE k1 == [Touched(k) EXCEPT !.stage = "terminating", !.timer = TRUE]
  <2>1. k1 \in CallRecs /\ k1.stage = "terminating" /\ Stays(c, k1)
    BY <1>3, <1>t, Zenon DEF TearsDown
  <2> HIDE DEF k1
  <2> QED BY <1>1, <2>1
<1> DEFINE kind == worker[c].item.kind
<1>4. CASE kind \in {"invite", "copy"} /\ InviteTurn(c)
  <2>1. ~EndingVerdict(worker[c].item)
    BY <1>4 DEF EndingVerdict, VerdictKinds
  <2>2. worker'[c].item = NoItem \/ worker'[c].item = worker[c].item
    <3>1. ASSUME Returns(c) PROVE worker'[c].item = NoItem
      BY <1>0, <3>1 DEF Returns, Idle, WorkerRecs
    <3> QED BY <1>2, <1>4, <3>1 DEF InviteTurn, Stays
  <2> QED BY <1>4, <2>1, <2>2
<1>5. CASE kind \in {"request", "cancelled"} /\ DialogTurn(c)
  <2> DEFINE k == IF worker[c].item.kind = "request" THEN Touched(call[c]) ELSE call[c]
  <2>1. k \in CallRecs /\ k.stage = call[c].stage
    BY <1>0, TouchedRec
  <2>2. Stays(c, k) \/ TearsDown(c, k) \/ Ends(c)
    BY <1>5 DEF DialogTurn
  <2> HIDE DEF k
  <2>3. Fate(call[c].stage) \/ Fate("terminating") \/ Fate("none")
    BY <1>1, <1>2, <1>3, <2>1, <2>2, Zenon
  <2>4. ~EndingVerdict(worker[c].item)
    BY <1>5 DEF EndingVerdict, VerdictKinds
  <2> QED BY <2>3, <2>4
<1>6. CASE kind = "timer" /\ TimerTurn(c)
  <2>1. Fate(call[c].stage) \/ Fate("none")
    BY <1>0, <1>1, <1>2, <1>6 DEF TimerTurn
  <2>2. ~EndingVerdict(worker[c].item)
    BY <1>6 DEF EndingVerdict, VerdictKinds
  <2> QED BY <2>1, <2>2
<1>7. CASE kind \in VerdictKinds /\ VerdictTurn(c)
  <2>1. \/ Fate("none") \/ Fate("terminating")
        \/ kind = "stale" /\ Fate(call[c].stage)
    <3>1. \/ Ends(c) \/ TearsDown(c, call[c])
          \/ kind = "stale" /\ Stays(c, call[c])
          \/ call[c].stage = "terminating" /\ Stays(c, call[c])
      BY <1>7 DEF VerdictTurn, Confirmed
    <3> QED BY <1>0, <1>1, <1>2, <1>3, <3>1, Zenon
  <2>2. EndingVerdict(worker[c].item) => kind # "stale"
    BY DEF EndingVerdict
  <2> QED BY <2>1, <2>2
<1> QED BY <1>4, <1>5, <1>6, <1>7, Zenon DEF Turn

\* A turn: the verdict that was coming has run, or is still behind it.
LEMMA TurnTold ==
    ASSUME DispatchInv, NEW c \in Calls, Told(c), Turn(c)
    PROVE  Told(c)'
<1> DEFINE i == worker[c].item
           i1 == worker'[c].item
           s == call[c].stage
           s1 == call'[c].stage
<1>0. UNCHANGED <<slots, posted, ledger, halted>>
  BY DEF Turn
<1>1. /\ i1 = NoItem \/ i1 = i
      /\ s1 = "active" => s = "active" \/ i.kind \in {"invite", "copy"}
      /\ EndingVerdict(i) => s1 # "active"
  BY TurnFate
<1>2. i \in ItemRecs \cup {NoItem}
  BY DEF DispatchInv, DispatchTyped, WorkerRecs
<1>3. ~IsNewCall(NoItem.class) /\ (~IsNewCall(i.class) => i.kind \notin {"invite", "copy"})
  BY <1>2 DEF NoItem, Item, IsNewCall, ItemRecs
<1>4. EndingVerdict(i) => ~IsNewCall(i.class)
  BY DEF EndingVerdict, IsNewCall
<1> SUFFICES ASSUME Due(slots[c], ledger[c], halted)
             PROVE  Coming(slots[c], i1, s1, posted[c], ledger[c].condemned)
  BY <1>0, Zenon DEF Told
<1>5. Coming(slots[c], i, s, posted[c], ledger[c].condemned)
  BY Zenon DEF Told
<1> HIDE DEF i, i1, s, s1
<1> QED BY <1>1, <1>3, <1>4, <1>5, Zenon DEF Coming

\* A body panics or is aborted: its strike is posted, or the call is condemned.
LEMMA FailureTold ==
    ASSUME DispatchInv, NEW c \in Calls, Told(c), Panic(c) \/ Aborted(c)
    PROVE  Told(c)'
<1>0. /\ worker \in [Calls -> WorkerRecs] /\ worker[c] \in WorkerRecs
      /\ posted \in [Calls -> Seq(VerdictRecs)] /\ ledger \in [Calls -> LedgerRecs]
      /\ UNCHANGED <<slots, call, halted>> /\ Returns(c)
  BY DEF DispatchInv, DispatchTyped, Panic, Aborted
<1>1. worker'[c].item = NoItem /\ ~IsNewCall(NoItem.class)
  BY <1>0 DEF Returns, Idle, WorkerRecs, NoItem, Item, IsNewCall
<1>2. CASE Strikes(c)
  <2> DEFINE v == Verdict(IF ledger[c].strikes = 0 THEN "fatal" ELSE "discharge")
             p == posted[c]
             p1 == posted'[c]
  <2>1. EndingVerdict(v) /\ v \in VerdictRecs
    BY Shapes, Zenon DEF EndingVerdict, Verdict, Item, VerdictKinds
  <2>2. p1 = Append(p, v) /\ p \in Seq(VerdictRecs)
    BY <1>0, <1>2 DEF Strikes
  <2> HIDE DEF v, p, p1
  <2>3. Len(p1) = Len(p) + 1 /\ Len(p) \in Nat /\ p1[Len(p) + 1] = v
    BY <2>1, <2>2, AppendFacts
  <2>4. Len(p) + 1 \in 1..Len(p1)
    BY <2>3
  <2>5. \E n \in 1..Len(p1) : EndingVerdict(p1[n])
    BY <2>1, <2>3, <2>4
  <2> QED BY <2>5, Zenon DEF Told, Coming, p1
<1>3. CASE ~Strikes(c)
  <2>1. /\ posted' = posted
        /\ ledger' = [ledger EXCEPT ![c].overflowAbort = FALSE, ![c].heard = @ /\ ledger[c].condemned]
    BY <1>3, Zenon DEF Panic, Aborted
  <2>2. /\ ledger'[c].condemned = ledger[c].condemned
        /\ ledger'[c].heard = (ledger[c].heard /\ ledger[c].condemned)
        /\ ledger[c].heard \in BOOLEAN /\ ledger[c].condemned \in BOOLEAN
    BY <1>0, <2>1 DEF LedgerRecs
  <2> SUFFICES ASSUME Due(slots[c], ledger'[c], halted)
               PROVE  Coming(slots[c], NoItem, call[c].stage, posted[c], ledger[c].condemned)
    BY <1>0, <1>1, <2>1, <2>2 DEF Told
  <2>3. ledger[c].heard = TRUE /\ ledger[c].condemned = TRUE
    BY <2>2 DEF Due
  <2>4. Coming(slots[c], worker[c].item, call[c].stage, posted[c], ledger[c].condemned)
    BY <2>3 DEF Told, Due
  <2> QED BY <1>1, <2>3, <2>4, Zenon DEF Coming
<1> QED BY <1>2, <1>3

\* A sweep posts nothing while a verdict is posted, and keeps an active call
\* condemned.
LEMMA SweepTold ==
    ASSUME DispatchInv, NEW c \in Calls, Told(c), Sweep(c)
    PROVE  Told(c)'
<1>0. /\ ledger \in [Calls -> LedgerRecs] /\ worker \in [Calls -> WorkerRecs] /\ worker[c] \in WorkerRecs
      /\ UNCHANGED <<slots, call, halted>> /\ posted[c] = <<>>
      /\ ledger'[c] = IF Resident(c) THEN Swept(c).led ELSE [CleanLedger EXCEPT !.heard = ledger[c].heard]
  BY DEF DispatchInv, DispatchTyped, Sweep, SweepDue
<1>1. worker'[c].item = worker[c].item
  BY <1>0 DEF Sweep, WorkerRecs
<1>2. /\ Swept(c).led.heard = ledger[c].heard
      /\ (Swept(c).led.condemned = TRUE) <=> (ledger[c].condemned = TRUE /\ call[c].stage = "active")
  BY SweptRec, Zenon
<1>3. /\ ledger'[c].heard = ledger[c].heard
      /\ ledger[c].condemned = TRUE /\ call[c].stage = "active" => ledger'[c].condemned = TRUE
  <2>1. CASE Resident(c)
    BY <1>0, <1>2, <2>1
  <2>2. CASE ~Resident(c)
    <3>1. ledger'[c].heard = ledger[c].heard
      BY <1>0, <2>2 DEF CleanLedger
    <3> QED BY <2>2, <3>1 DEF Resident
  <2> QED BY <2>1, <2>2, Zenon
<1> SUFFICES ASSUME Due(slots[c], ledger[c], halted)
             PROVE  Coming(slots[c], worker[c].item, call[c].stage, posted'[c], ledger'[c].condemned)
  BY <1>0, <1>1, <1>3, Zenon DEF Told, Due
<1>4. Coming(slots[c], worker[c].item, call[c].stage, <<>>, ledger[c].condemned)
  BY <1>0 DEF Told
<1>5. ~\E n \in 1..Len(<<>>) : EndingVerdict((<<>>)[n])
  OBVIOUS
<1> QED BY <1>3, <1>4, <1>5, Zenon DEF Coming

\* The release taken or queued: the queue is capped for nobody.
LEMMA ReleaseTold ==
    ASSUME DispatchInv, NEW c \in Calls, TakeRelease(c) \/ QueueRelease(c)
    PROVE  Told(c)'
<1>0. /\ slots \in [Calls -> Queues] /\ worker[c].at # "none"
  BY Zenon DEF DispatchInv, DispatchTyped, TakeRelease, QueueRelease
<1>1. slots[c] \in QueueRecs(QueueEntries)
  BY <1>0, WorkerHasQueue
<1>2. CASE TakeRelease(c)
  <2>1. slots'[c] = NoQueue \/ slots'[c] = Reopened(Popped(slots[c]))
    BY <1>0, <1>2, Zenon DEF TakeRelease
  <2>2. Reopened(Popped(slots[c])).capped = FALSE
    BY <1>1 DEF Reopened, Popped, QueueRecs
  <2> QED BY <2>1, <2>2 DEF Told, Due
<1>3. CASE QueueRelease(c)
  <2>1. slots'[c] = Release(slots[c])
    BY <1>0, <1>3 DEF QueueRelease
  <2>2. Release(slots[c]).released = TRUE
    BY <1>1 DEF Release, QueueRecs
  <2> QED BY <2>1, <2>2, Zenon DEF Told, Due
<1> QED BY <1>2, <1>3

\* Every offer of the router.
LEMMA RouterTold ==
    ASSUME DispatchInv, NEW c \in Calls, Told(c),
           Invite(c) \/ InviteCopy(c) \/ Request(c) \/ Cancelled(c) \/ TimerFires(c) \/ TakeVerdict(c)
    PROVE  Told(c)'
<1>0. /\ posted[c] \in Seq(VerdictRecs) /\ call[c] \in CallRecs /\ call \in [Calls -> CallRecs]
  BY LeavesSame DEF DispatchInv, DispatchTyped
<1>1. ASSUME NEW item \in ItemRecs, Arrive(c, item)
      PROVE  Told(c)'
  BY <1>0, <1>1, OfferTold, Zenon DEF Arrive
<1>2. CASE Invite(c) \/ InviteCopy(c) \/ Request(c) \/ Cancelled(c)
  <2>1. /\ Item("InitialInvite", "invite", 0) \in ItemRecs /\ Item("InitialInvite", "copy", 0) \in ItemRecs
        /\ Item("OtherRequest", "request", 0) \in ItemRecs /\ Item("Cancelled", "cancelled", 0) \in ItemRecs
    BY DEF Item, ItemRecs, Classes, Kinds, VerdictKinds, IsNewCall
  <2> QED BY <1>1, <1>2, <2>1 DEF Invite, InviteCopy, Request, Cancelled
<1>3. CASE TimerFires(c)
  <2> DEFINE item == Item("Timer", "timer", call[c].born)
  <2>1. PICK n \in Nat : n = call[c].born
    BY <1>0 DEF CallRecs
  <2>2. Item("Timer", "timer", n) \in ItemRecs
    BY DEF Item, ItemRecs, Classes, Kinds, VerdictKinds
  <2>3. RouterFree /\ OfferTo(c, Item("Timer", "timer", n), posted[c]) /\ halted' = halted
    BY <1>3, <2>1 DEF TimerFires
  <2>4. call'[c].stage = call[c].stage
    BY <1>0, <1>3 DEF TimerFires, CallRecs
  <2>5. PICK i \in ItemRecs : i = Item("Timer", "timer", n)
    BY <2>2
  <2>6. PICK p \in Seq(VerdictRecs) : p = posted[c]
    BY <1>0
  <2> QED BY <2>3, <2>4, <2>5, <2>6, OfferTold, Zenon
<1>4. CASE TakeVerdict(c)
  <2>1. RouterFree /\ posted[c] # <<>> /\ OfferTo(c, Head(posted[c]), Tail(posted[c])) /\ UNCHANGED <<call, halted>>
    BY <1>4 DEF TakeVerdict
  <2>2. /\ Head(posted[c]) \in VerdictRecs /\ Head(posted[c]) \in ItemRecs
        /\ Tail(posted[c]) \in Seq(VerdictRecs)
    <3>1. Head(posted[c]) \in VerdictRecs /\ Tail(posted[c]) \in Seq(VerdictRecs)
      BY <1>0, <2>1, TailFacts
    <3> QED BY <3>1, Shapes
  <2>3. PICK i \in ItemRecs, p \in Seq(VerdictRecs) : i = Head(posted[c]) /\ p = Tail(posted[c])
    BY <2>2
  <2> QED BY <2>1, <2>3, OfferTold, Zenon
<1> QED BY <1>2, <1>3, <1>4

\* A step on another reference, and every other step.
LEMMA ToldStep ==
    ASSUME DispatchInv, \A c \in Calls : Told(c), [DispatchNext]_vars
    PROVE  \A c \in Calls : Told(c)'
<1>1. CASE UNCHANGED vars
  BY <1>1, ToldSame DEF vars
<1>2. CASE Halt
  BY <1>2 DEF Halt, Told, Due
<1>3. ASSUME NEW d \in Calls, Outside(d) \/ Router(d) \/ Work(d) \/ Aborted(d) \/ Sweep(d), NEW c \in Calls
      PROVE  Told(c)'
  <2>1. CASE c # d
    <3>1. Effect(d) /\ Leaves(d)
      BY <1>3, AnyEffect
    <3> QED BY <2>1, <3>1, ToldSame, Zenon DEF Effect, Leaves
  <2>2. CASE c = d
    <3>0. /\ worker \in [Calls -> WorkerRecs] /\ worker[c] \in WorkerRecs
          /\ call \in [Calls -> CallRecs] /\ call[c] \in CallRecs
      BY DEF DispatchInv, DispatchTyped
    <3>1. CASE Ring(c)
      <4>1. worker'[c].item = worker[c].item
        BY <3>0, <3>1 DEF Ring, Woken, WorkerRecs
      <4> QED BY <3>1, <4>1, ToldSame, Zenon DEF Ring
    <3>2. CASE FindsNone(c) \/ Sleep(c) \/ AcquireShare(c) \/ AcquirePool(c) \/ Hang(c)
      <4>1. worker'[c].item = worker[c].item
        BY <3>0, <3>2 DEF FindsNone, Sleep, AcquireShare, AcquirePool, Hang, WorkerRecs
      <4>2. UNCHANGED <<slots, call, posted, ledger, halted>>
        BY <3>2 DEF FindsNone, Sleep, AcquireShare, AcquirePool, Hang
      <4> QED BY <4>1, <4>2, ToldSame
    <3>3. CASE GoesIdle(c)
      <4>1. call'[c].stage = call[c].stage
        BY <3>0, <3>3 DEF GoesIdle, CallRecs
      <4> QED BY <3>3, <4>1, ToldSame DEF GoesIdle
    <3> QED
      BY <1>3, <2>2, <3>1, <3>2, <3>3, RouterTold, ReleaseTold, TakeItemTold, TurnTold, FailureTold, SweepTold
      DEF Outside, Router, Work
  <2> QED BY <2>1, <2>2
<1> QED BY <1>1, <1>2, <1>3 DEF DispatchNext

-----------------------------------------------------------------------------
(* What holds of every behaviour. *)

\* CallQueue and CallDispatcher, for any number of references, any depth, any
\* permits and any budget of events: the release of a call runs before the new
\* calls of its reference, no queued entry waits for a worker that will not
\* wake, initial INVITEs keep to their share of the permits, and a halted
\* worker starts at most the item it had taken.
THEOREM DispatchSafe ==
    DispatchSpec => [](ReleaseLeadsNewCalls /\ NothingStranded /\ NewCallsKeepToShare /\ HaltRunsAtMostOne)
<1>1. DispatchInit => DispatchInv
  BY InvInit
<1>2. DispatchInv /\ [DispatchNext]_vars => DispatchInv'
  BY InvStep
<1>3. DispatchInv => ReleaseLeadsNewCalls /\ NothingStranded /\ NewCallsKeepToShare /\ HaltRunsAtMostOne
  BY InvLeads, InvWorkers
<1> QED BY <1>1, <1>2, <1>3, PTL DEF DispatchSpec

\* The worker removes its slot only on a release with nothing behind it: an
\* offer that raced the teardown keeps the queue, or opens the next.
THEOREM QueuesLeaveEmpty == DispatchSpec => LeavesTheMapEmpty
<1>1. DispatchInit => DispatchInv
  BY InvInit
<1>2. DispatchInv /\ [DispatchNext]_vars => DispatchInv'
  BY InvStep
<1>3. DispatchInv /\ [DispatchNext]_vars
         => [\A c \in Calls : Open(c) /\ slots'[c] = NoQueue => slots[c].entries = <<ReleaseEntry>>]_vars
  BY InvStep
<1> QED BY <1>1, <1>2, <1>3, PTL DEF DispatchSpec, LeavesTheMapEmpty

\* CallQueue::release and reopen: a released queue holds its release once, ahead
\* of every new call, and directly behind it is a new call or nothing.
THEOREM ReleaseLeads == DispatchSpec => []ReleaseLeadsNewCalls
BY DispatchSafe, PTL

\* Slot::wake and the worker's wait: while the node runs, a queue in the map has
\* its worker, and one that waits over a queued entry is about to be woken.
THEOREM NoneStranded == DispatchSpec => []NothingStranded
BY DispatchSafe, PTL

\* The two semaphores of the dispatcher: bodies run within the permits, and
\* initial INVITEs within their share of them.
THEOREM SharesKept == DispatchSpec => []NewCallsKeepToShare
BY DispatchSafe, PTL

\* InFlight::halt: a worker of a halted node starts at most the item it had
\* taken.
THEOREM HaltStartsOne == DispatchSpec => []HaltRunsAtMostOne
BY DispatchSafe, PTL

\* CallQueue's `waiting` is the past-bounds items behind the queue proper after
\* every offer, pop, release and reopen, and passes the ceiling by one at most.
THEOREM OverflowCounted == DispatchSpec => []WaitingExact
<1>1. DispatchInit => DispatchInv
  BY InvInit
<1>2. DispatchInv /\ [DispatchNext]_vars => DispatchInv'
  BY InvStep
<1>3. DispatchInv => WaitingExact
  BY InvCounts
<1> QED BY <1>1, <1>2, <1>3, PTL DEF DispatchSpec

\* Queues, workers, calls, verdicts and ledgers keep their shapes, an item is
\* with a worker exactly while it waits for permits or runs, and only a body is
\* aborted.
THEOREM DispatchTypes == DispatchSpec => []DispatchTypeOK
<1>1. DispatchInit => DispatchInv
  BY InvInit
<1>2. DispatchInv /\ [DispatchNext]_vars => DispatchInv'
  BY InvStep
<1>3. DispatchInv => DispatchTypeOK
  BY InvTyped
<1> QED BY <1>1, <1>2, <1>3, PTL DEF DispatchSpec

\* The reaper's verdict on a call past its lifetime cap is never lost: whichever
\* way the crossing offer went, whatever turn panics, hangs or is aborted and
\* whatever arrives meanwhile.
THEOREM CappedAreSentenced == DispatchSpec => []CappedIsSentenced
<1> DEFINE TInv == DispatchInv /\ \A c \in Calls : Told(c)
<1>1. DispatchInit => TInv
  <2>1. DispatchInit => \A c \in Calls : Told(c)
    BY DEF DispatchInit, Told, Due
  <2> QED BY <2>1, InvInit
<1>2. TInv /\ [DispatchNext]_vars => TInv'
  BY InvStep, ToldStep
<1>3. TInv => CappedIsSentenced
  <2> SUFFICES ASSUME TInv, NEW c \in Calls, CappedCall(c), ledger[c].heard
               PROVE  Sentenced(c)
    BY DEF CappedIsSentenced
  <2>0. /\ halted \in BOOLEAN /\ ledger[c] \in LedgerRecs /\ slots[c] \in Queues
        /\ posted[c] \in Seq(VerdictRecs)
    BY DEF DispatchInv, DispatchTyped
  <2>1. slots[c] # NoQueue /\ call[c].stage = "active" /\ slots[c].entries \in Seq(QueueEntries)
    BY <2>0 DEF CappedCall, Open, Queues, QueueRecs
  <2>2. Due(slots[c], ledger[c], halted)
    BY <2>0, <2>1 DEF CappedCall, Due, Queues, QueueRecs, LedgerRecs
  <2>3. Coming(slots[c], worker[c].item, call[c].stage, posted[c], ledger[c].condemned)
    BY <2>2, Zenon DEF Told
  <2>4. DOMAIN posted[c] = 1..Len(posted[c]) /\ DOMAIN slots[c].entries = 1..Len(slots[c].entries)
    BY <2>0, <2>1
  <2> QED BY <2>1, <2>3, <2>4, Zenon DEF Coming, Sentenced, EndingVerdict
<1> HIDE DEF TInv
<1> QED BY <1>1, <1>2, <1>3, PTL DEF DispatchSpec

=============================================================================
