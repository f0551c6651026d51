---------------------- MODULE ReplFlowPositions_proofs ----------------------
(***************************************************************************)
(* PositionsWithinLog holds of ReplFlow, for every set of refs and         *)
(* connections and every bound.                                            *)
(*                                                                         *)
(* The invariant is inductive on top of TypeOK once it is said of whole    *)
(* channels (a sequence over the frames within the log) instead of their   *)
(* indices.  A step either leaves the log's incarnation and counter alone, *)
(* or advances them, and every position within the log stays within it.    *)
(***************************************************************************)
EXTENDS ReplFlow_proofs

(* w is not past (g, n).                                                   *)
Bound(w, g, n) == w.gen < g \/ (w.gen = g /\ w.counter <= n)

FramesIn(g, n) == {f \in Frames : f.kind # "reset" => Bound(f.at, g, n)}
ReportsIn(g, n) == {f \in Reports : f.kind = "position" => Bound(f.at, g, n)}
DataIn(g, n) == {f \in DataFrames : Bound(f.at, g, n)}

LogIn(s, g, n) ==
    /\ Bound(s.acked, g, n) /\ Bound(s.applied.at, g, n)
    /\ s.floor <= n /\ s.opened <= n /\ s.head <= n
    /\ \A r \in Refs : s.entry[r].counter <= n /\ s.entry[r].sent <= n

TaskIn(t, g, n) ==
    /\ Bound(t.since, g, n) /\ Bound(t.w, g, n)
    /\ \A d \in t.due : d.counter <= n
    /\ t.out \in Seq(DataIn(g, n))

PosInv ==
    /\ Bound(W, gen, counter)
    /\ LogIn(sub, gen, counter)
    /\ \A c \in Conns : /\ TaskIn(srv[c], gen, counter)
                        /\ down[c] \in Seq(FramesIn(gen, counter))
                        /\ up[c] \in Seq(ReportsIn(gen, counter))

-----------------------------------------------------------------------------
(* What advancing the log keeps.                                           *)

(* A sequence over a set is one over any larger set.                       *)
LEMMA SeqWithin ==
    ASSUME NEW S, NEW T, S \subseteq T, NEW q \in Seq(S) PROVE q \in Seq(T)
<1>1. q \in [1..Len(q) -> S] /\ Len(q) \in Nat
  OBVIOUS
<1>2. q \in [1..Len(q) -> T]
  BY <1>1
<1> QED
  BY <1>1, <1>2

(* What is not past a log's position is not past a later one.              *)
LEMMA Advance ==
    ASSUME NEW g \in Nat, NEW n \in Nat, NEW h \in Nat, NEW m \in Nat,
           g < h \/ (g = h /\ n <= m)
    PROVE  /\ \A w \in Watermarks : Bound(w, g, n) => Bound(w, h, m)
           /\ FramesIn(g, n) \subseteq FramesIn(h, m)
           /\ ReportsIn(g, n) \subseteq ReportsIn(h, m)
           /\ DataIn(g, n) \subseteq DataIn(h, m)
<1>1. \A w \in Watermarks : Bound(w, g, n) => Bound(w, h, m)
  BY DEF Bound, Watermarks
<1>2. \A f \in Frames : f.kind # "reset" => f.at \in Watermarks
  BY DEF Frames, DataFrames
<1>3. \A f \in Reports : f.kind = "position" => f.at \in Watermarks
  BY DEF Reports
<1>4. \A f \in DataFrames : f.at \in Watermarks
  BY DEF DataFrames
<1> QED
  BY <1>1, <1>2, <1>3, <1>4 DEF FramesIn, ReportsIn, DataIn

(* The cold watermark is past no log.                                      *)
LEMMA ZeroBound == ASSUME NEW g \in Nat \ {0}, NEW n \in Nat PROVE Bound(Zero, g, n)
BY DEF Bound, Zero, Wm

-----------------------------------------------------------------------------
(* The operations of a sub-log keep it within the log.                     *)

(* A fresh sub-log is within the log whose counter opened it.              *)
LEMMA NewSubIn ==
    ASSUME NEW g \in Nat \ {0}, NEW n \in Nat, NEW c \in Nat, c <= n
    PROVE  LogIn(NewSub(c), g, n)
BY ZeroBound DEF LogIn, NewSub, NoClaim, NoEntry

(* A sub-log within the log stays so as the counter advances.              *)
LEMMA LogAdvances ==
    ASSUME NEW s \in SubLogs, NEW g \in Nat, NEW n \in Nat, NEW m \in Nat,
           n <= m, LogIn(s, g, n)
    PROVE  LogIn(s, g, m)
BY DEF LogIn, Bound, SubLogs, Entries, Watermarks

(* One of 0 and a bounded counter is bounded.                              *)
LEMMA OneOfBounded ==
    ASSUME NEW n \in Nat, NEW z, z <= n, NEW y \in {0, z} PROVE y <= n
OBVIOUS

(* `put` at a counter of the log keeps the sub-log within it.              *)
LEMMA PutIn ==
    ASSUME NEW s \in SubLogs, NEW g \in Nat, NEW n \in Nat, NEW c \in Nat, c <= n,
           NEW r \in Refs, NEW op \in Ops \cup {"none"}, NEW inc \in Nat, LogIn(s, g, n),
           NEW p, p = Put(s, c, r, op, 0, FALSE, inc)
    PROVE  LogIn(p, g, n)
<1>1. /\ p.acked = s.acked /\ p.applied = s.applied /\ p.floor = s.floor
      /\ p.opened = s.opened
  BY DEF Put, SubLogs
<1>2. p.head <= n
  BY DEF Put, SubLogs, LogIn
<1>3. \A q \in Refs : q # r => p.entry[q] = s.entry[q]
  BY DEF Put, SubLogs
<1>4. p.entry[r].counter = c /\ p.entry[r].sent \in {0, s.entry[r].sent}
  BY DEF Put, SubLogs
<1>5. \A q \in Refs : p.entry[q].counter <= n /\ p.entry[q].sent <= n
  <2>1. \A q \in Refs : s.entry[q].counter <= n /\ s.entry[q].sent <= n
    BY DEF LogIn
  <2>2. p.entry[r].counter <= n /\ p.entry[r].sent <= n
    BY <1>4, <2>1, OneOfBounded, Zenon
  <2>3. \A q \in Refs \ {r} : p.entry[q].counter <= n /\ p.entry[q].sent <= n
    BY <1>3, <2>1, Zenon
  <2> QED
    BY <2>2, <2>3, Zenon
<1> QED
  BY <1>1, <1>2, <1>5, Zenon DEF LogIn

(* So do entries replaced by entries within the log.                       *)
LEMMA WithEntriesIn ==
    ASSUME NEW s \in SubLogs, NEW g \in Nat, NEW n \in Nat, NEW en \in [Refs -> Entries],
           LogIn(s, g, n), \A r \in Refs : en[r].counter <= n /\ en[r].sent <= n
    PROVE  LogIn([s EXCEPT !.entry = en], g, n)
BY DEF LogIn, SubLogs

(* `forget` keeps the sub-log within the log.                              *)
LEMMA ForgetIn ==
    ASSUME NEW s \in SubLogs, NEW g \in Nat, NEW n \in Nat, NEW r \in Refs, LogIn(s, g, n)
    PROVE  LogIn(Forget(s, r), g, n)
<1> DEFINE p == Forget(s, r)
<1>1. /\ p.acked = s.acked /\ p.applied = s.applied /\ p.floor = s.floor
      /\ p.opened = s.opened /\ p.head = s.head
  BY DEF Forget, SubLogs
<1>2. \A q \in Refs : p.entry[q] \in {s.entry[q], NoEntry}
  BY DEF Forget, SubLogs
<1>3. \A q \in Refs : p.entry[q].counter <= n /\ p.entry[q].sent <= n
  <2>1. \A q \in Refs : s.entry[q].counter <= n /\ s.entry[q].sent <= n
    BY DEF LogIn
  <2>2. NoEntry.counter <= n /\ NoEntry.sent <= n
    BY DEF NoEntry
  <2> QED
    BY <1>2, <2>1, <2>2
<1> QED
  BY <1>1, <1>3 DEF LogIn

(* The snapshot of `drain_since` marks entries sent at counters of the     *)
(* log.                                                                    *)
LEMMA MarkSentIn ==
    ASSUME NEW s \in SubLogs, NEW g \in Nat, NEW n \in Nat, NEW refs, LogIn(s, g, n)
    PROVE  LogIn(MarkSent(s, refs), g, n)
<1> DEFINE en == [r \in Refs |-> IF r \in refs /\ s.entry[r].sent = 0
                                THEN [s.entry[r] EXCEPT !.sent = s.entry[r].counter]
                                ELSE s.entry[r]]
<1>1. en \in [Refs -> Entries]
  BY EntryType, SentAtType
<1>2. \A r \in Refs : en[r].counter <= n /\ en[r].sent <= n
  BY EntryType DEF LogIn, Entries
<1> QED
  BY <1>1, <1>2, WithEntriesIn, Zenon DEF MarkSent

(* `note_scanned` at the head marks entries sent at a counter of the log.  *)
LEMMA NoteScannedIn ==
    ASSUME NEW s \in SubLogs, NEW g \in Nat, NEW n \in Nat, LogIn(s, g, n)
    PROVE  LogIn(NoteScanned(s, n), g, n)
<1> DEFINE en == [r \in Refs |-> IF /\ r \in Logged(s) /\ s.entry[r].counter <= n
                                   /\ s.entry[r].sent = 0
                                THEN [s.entry[r] EXCEPT !.sent = n]
                                ELSE s.entry[r]]
<1>1. en \in [Refs -> Entries]
  BY EntryType, SentAtType
<1>2. \A r \in Refs : en[r].counter <= n /\ en[r].sent <= n
  BY EntryType DEF LogIn, Entries
<1> QED
  BY <1>1, <1>2, WithEntriesIn, Zenon DEF NoteScanned

(* `serving` and `note_cold_pull` only drop claims.                        *)
LEMMA OpenStreamIn ==
    ASSUME NEW s \in SubLogs, NEW g \in Nat \ {0}, NEW n \in Nat, LogIn(s, g, n)
    PROVE  LogIn(OpenStream(s, NoTime), g, n) /\ LogIn(NoteColdPull(s), g, n)
<1> DEFINE p == OpenStream(s, NoTime)
           z == NoteColdPull(s)
<1>1. /\ p.acked = s.acked /\ p.applied = NoClaim /\ p.floor = s.floor
      /\ p.opened = s.opened /\ p.head = s.head /\ p.entry = s.entry
  BY DEF OpenStream, SubLogs
<1>2. /\ z.acked = Zero /\ z.applied = s.applied /\ z.floor = s.floor
      /\ z.opened = s.opened /\ z.head = s.head /\ z.entry = s.entry
  BY DEF NoteColdPull, SubLogs
<1>3. NoClaim.at = Zero /\ Bound(Zero, g, n)
  BY ZeroBound DEF NoClaim
<1> QED
  BY <1>1, <1>2, <1>3 DEF LogIn

(* The drop of `ServeGuard` only drops a claim.                            *)
LEMMA CloseStreamIn ==
    ASSUME NEW s \in SubLogs, NEW g \in Nat \ {0}, NEW n \in Nat, LogIn(s, g, n)
    PROVE  LogIn(CloseStream(s), g, n)
<1> DEFINE p == CloseStream(s)
<1>1. /\ p.acked = s.acked /\ p.applied \in {NoClaim, s.applied} /\ p.floor = s.floor
      /\ p.opened = s.opened /\ p.head = s.head /\ p.entry = s.entry
  BY DEF CloseStream, SubLogs
<1>2. NoClaim.at = Zero /\ Bound(Zero, g, n)
  BY ZeroBound DEF NoClaim
<1> QED
  BY <1>1, <1>2 DEF LogIn

(* `note_applied` records a position of the log where it is told one.      *)
LEMMA NoteAppliedIn ==
    ASSUME NEW s \in SubLogs, NEW g \in Nat, NEW n \in Nat, NEW at \in Watermarks,
           LogIn(s, g, n), Bound(at, g, n)
    PROVE  LogIn(NoteApplied(s, g, at, 0), g, n)
<1> DEFINE p == NoteApplied(s, g, at, 0)
<1>1. /\ p.acked \in {s.acked, at} /\ p.applied.at = at /\ p.floor = s.floor
      /\ p.opened = s.opened /\ p.head = s.head /\ p.entry = s.entry
  BY DEF NoteApplied, SubLogs
<1> QED
  BY <1>1 DEF LogIn

(* `reap_sublog` raises the floor to the counter of an entry.              *)
LEMMA ReapSubIn ==
    ASSUME NEW s \in SubLogs, NEW g \in Nat, NEW n \in Nat, LogIn(s, g, n)
    PROVE  LogIn(ReapSub(s, g), g, n)
<1> DEFINE p == ReapSub(s, g)
<1>1. /\ p.acked = s.acked /\ p.applied = s.applied
      /\ p.opened = s.opened /\ p.head = s.head
  BY DEF ReapSub, SubLogs
<1>2. \A q \in Refs : p.entry[q] \in {s.entry[q], NoEntry}
  BY DEF ReapSub, SubLogs
<1>3. p.floor \in {s.entry[r].counter : r \in Refs} \cup {s.floor}
  BY ReapSubType
<1>4. \A q \in Refs : s.entry[q].counter <= n /\ s.entry[q].sent <= n
  BY DEF LogIn
<1>5. NoEntry.counter <= n /\ NoEntry.sent <= n
  BY DEF NoEntry
<1>6. \A q \in Refs : p.entry[q].counter <= n /\ p.entry[q].sent <= n
  BY <1>2, <1>4, <1>5
<1>7. p.floor <= n
  BY <1>3, <1>4 DEF LogIn
<1> QED
  BY <1>1, <1>6, <1>7 DEF LogIn

-----------------------------------------------------------------------------
(* The initial states.                                                     *)

(* A slot with no task holds no position past the log.                     *)
LEMMA FreeIn ==
    ASSUME NEW g \in Nat \ {0}, NEW n \in Nat, NEW c, NEW b
    PROVE  TaskIn(Free, g, n) /\ TaskIn(EndedAt(c, b), g, n)
BY ZeroBound DEF TaskIn, Free, EndedAt

(* Initially no position is past the log.                                  *)
LEMMA PosInit == Init => PosInv
<1> SUFFICES ASSUME Init PROVE PosInv
  OBVIOUS
<1>1. gen \in Nat \ {0} /\ counter \in Nat
  BY DEF Init
<1>2. Bound(W, gen, counter)
  BY <1>1, ZeroBound DEF Init
<1>3. LogIn(sub, gen, counter)
  BY <1>1, NewSubIn DEF Init
<1>4. \A c \in Conns : /\ TaskIn(srv[c], gen, counter)
                       /\ down[c] \in Seq(FramesIn(gen, counter))
                       /\ up[c] \in Seq(ReportsIn(gen, counter))
  BY <1>1, FreeIn DEF Init
<1> QED
  BY <1>2, <1>3, <1>4 DEF PosInv

-----------------------------------------------------------------------------
(* The steps that advance the log.                                         *)

(* What was within the log before a write is within it after.              *)
LEMMA CounterAdvances ==
    ASSUME TypeOK, PosInv, gen' = gen, counter' = counter + 1
    PROVE  /\ gen' \in Nat \ {0} /\ counter' \in Nat
           /\ Bound(W, gen', counter')
           /\ LogIn(sub, gen', counter')
           /\ \A c \in Conns : /\ TaskIn(srv[c], gen', counter')
                               /\ down[c] \in Seq(FramesIn(gen', counter'))
                               /\ up[c] \in Seq(ReportsIn(gen', counter'))
<1>1. gen \in Nat \ {0} /\ counter \in Nat /\ counter + 1 \in Nat /\ counter <= counter + 1
  BY DEF TypeOK
<1> DEFINE m == counter + 1
<1>2. /\ \A w \in Watermarks : Bound(w, gen, counter) => Bound(w, gen, m)
      /\ FramesIn(gen, counter) \subseteq FramesIn(gen, m)
      /\ ReportsIn(gen, counter) \subseteq ReportsIn(gen, m)
      /\ DataIn(gen, counter) \subseteq DataIn(gen, m)
  BY <1>1, Advance
<1>3. Bound(W, gen, m)
  BY <1>2 DEF PosInv, TypeOK
<1>4. LogIn(sub, gen, m)
  BY <1>1, LogAdvances DEF PosInv, TypeOK
<1>5. ASSUME NEW c \in Conns
      PROVE  /\ TaskIn(srv[c], gen, m)
             /\ down[c] \in Seq(FramesIn(gen, m)) /\ up[c] \in Seq(ReportsIn(gen, m))
  <2>1. /\ srv[c].since \in Watermarks /\ srv[c].w \in Watermarks
        /\ \A d \in srv[c].due : d.counter \in Nat
    BY DEF TypeOK, Tasks
  <2>2. TaskIn(srv[c], gen, counter)
    BY DEF PosInv
  <2>3. \A d \in srv[c].due : d.counter <= m
    BY <1>1, <2>1, <2>2 DEF TaskIn
  <2>4. srv[c].out \in Seq(DataIn(gen, m))
    BY <1>2, <2>2, SeqWithin DEF TaskIn
  <2>5. TaskIn(srv[c], gen, m)
    BY <1>2, <2>1, <2>2, <2>3, <2>4 DEF TaskIn
  <2>6. down[c] \in Seq(FramesIn(gen, m)) /\ up[c] \in Seq(ReportsIn(gen, m))
    BY <1>2, SeqWithin DEF PosInv
  <2> QED
    BY <2>5, <2>6
<1> QED
  BY <1>1, <1>3, <1>4, <1>5

(* The log the backup has, created at the counter if absent, is within it. *)
LEMMA TheLogIn == ASSUME TypeOK, PosInv PROVE LogIn(TheLog, gen, counter)
BY NewSubIn DEF TheLog, PosInv, TypeOK

(* `bump` logs at the counter it takes, and the log only advances.         *)
LEMMA PosBump == ASSUME TypeOK, PosInv, NEW r \in Refs, Bump(r) PROVE PosInv'
<1>1. gen' = gen /\ counter' = counter + 1 /\ UNCHANGED <<W, srv, down, up>>
  BY DEF Bump, wire, backup
<1>2. counter \in Nat /\ gen \in Nat /\ pend[r].op \in Ops \cup {"none"} /\ pend[r].inc \in Nat
  BY DEF TypeOK
<1>3. LogIn(TheLog, gen, counter + 1) /\ TheLog \in SubLogs
  BY <1>2, TheLogIn, TheLogType, LogAdvances
<1>4. sub' = Put(TheLog, counter + 1, r, pend[r].op, 0, FALSE, pend[r].inc)
  BY DEF Bump
<1>5. LogIn(sub', gen, counter + 1)
  <2>1. counter + 1 \in Nat /\ counter + 1 <= counter + 1
    BY <1>2
  <2> QED
    BY <1>2, <1>3, <1>4, <2>1, PutIn, Zenon
<1> QED
  BY <1>1, <1>5, CounterAdvances DEF PosInv

(* The frame a task sends next, and the ones after it, are within the log. *)
LEMMA OutIn ==
    ASSUME TypeOK, NEW g \in Nat, NEW n \in Nat, NEW c \in Conns,
           TaskIn(srv[c], g, n), srv[c].out # <<>>
    PROVE  /\ Head(srv[c].out) \in DataIn(g, n)
           /\ Tail(srv[c].out) \in Seq(DataIn(g, n))
BY DEF TaskIn

(* The cursor only moves to the position of a frame of the task's own.     *)
LEMMA PastFrameIn ==
    ASSUME TypeOK, NEW g \in Nat, NEW n \in Nat, NEW c \in Conns,
           \A d \in Conns : TaskIn(srv[d], g, n), srv[c].out # <<>>, PastFrame(c)
    PROVE  \A d \in Conns : TaskIn(srv'[d], g, n)
<1>1. srv \in [Conns -> Tasks] /\ srv[c] \in Tasks
  BY DEF TypeOK
<1>2. \A d \in Conns : d # c => srv'[d] = srv[d]
  BY <1>1, Zenon DEF PastFrame
<1>3. /\ srv'[c].since = srv[c].since /\ srv'[c].due = srv[c].due
      /\ srv'[c].w = Head(srv[c].out).at /\ srv'[c].out = Tail(srv[c].out)
  BY <1>1, Zenon DEF PastFrame, Tasks
<1>4. Bound(Head(srv[c].out).at, g, n) /\ Tail(srv[c].out) \in Seq(DataIn(g, n))
  BY OutIn, Zenon DEF DataIn
<1>5. TaskIn(srv'[c], g, n)
  BY <1>3, <1>4 DEF TaskIn
<1> QED
  BY <1>2, <1>5

(* `abandon_backup` logs a delete at the counter it takes.                 *)
LEMMA PosSkip == ASSUME TypeOK, PosInv, NEW c \in Conns, SkipFrame(c) PROVE PosInv'
<1> DEFINE r == Head(srv[c].out).ref
<1>1. gen' = gen /\ counter' = counter + 1 /\ UNCHANGED <<W, down, up>>
  BY DEF SkipFrame, backup
<1>2. /\ gen' \in Nat /\ counter' \in Nat /\ Bound(W, gen', counter')
      /\ LogIn(sub, gen', counter')
      /\ \A d \in Conns : /\ TaskIn(srv[d], gen', counter')
                          /\ down[d] \in Seq(FramesIn(gen', counter'))
                          /\ up[d] \in Seq(ReportsIn(gen', counter'))
  BY <1>1, CounterAdvances
<1>3. \A d \in Conns : TaskIn(srv'[d], gen', counter')
  BY <1>2, PastFrameIn, Zenon DEF SkipFrame
<1>4. r \in Refs
  BY OutType, Zenon DEF SkipFrame, DataFrames
<1>5. /\ sub \in SubLogs /\ body[r].inc \in Nat /\ "delete" \in Ops \cup {"none"}
      /\ counter' <= counter'
  <2>1. sub \in SubLogs /\ body \in [Refs -> Bodies]
    BY DEF TypeOK
  <2> HIDE DEF r
  <2>2. body[r].inc \in Nat
    BY <1>4, <2>1 DEF Bodies
  <2> QED
    BY <1>2, <2>1, <2>2 DEF Ops
<1>6. sub' = Put(sub, counter', r, "delete", 0, FALSE, body[r].inc)
  BY <1>1 DEF SkipFrame
<1>7. LogIn(sub', gen', counter')
  BY <1>2, <1>4, <1>5, <1>6, PutIn, Zenon
<1> QED
  BY <1>1, <1>2, <1>3, <1>7 DEF PosInv

(* A new incarnation: all that was issued before is of an earlier one.     *)
LEMMA PosPrimaryRestart == ASSUME TypeOK, PosInv, PrimaryRestart PROVE PosInv'
<1>1. gen' = gen + 1 /\ counter' = 0 /\ UNCHANGED <<W, down>>
  BY DEF PrimaryRestart, backup
<1>2. gen \in Nat /\ counter \in Nat /\ gen' \in Nat \ {0} /\ counter' \in Nat /\ gen < gen'
  BY <1>1 DEF TypeOK
<1>3. /\ \A w \in Watermarks : Bound(w, gen, counter) => Bound(w, gen', counter')
      /\ FramesIn(gen, counter) \subseteq FramesIn(gen', counter')
  BY <1>2, Advance
<1>4. Bound(W', gen', counter')
  BY <1>1, <1>3 DEF PosInv, TypeOK
<1>5. LogIn(sub', gen', counter')
  <2>1. sub' = NewSub(0) /\ 0 \in Nat /\ 0 <= counter'
    BY <1>1 DEF PrimaryRestart
  <2> QED
    BY <1>2, <2>1, NewSubIn
<1>6. ASSUME NEW c \in Conns
      PROVE  /\ TaskIn(srv'[c], gen', counter')
             /\ down'[c] \in Seq(FramesIn(gen', counter'))
             /\ up'[c] \in Seq(ReportsIn(gen', counter'))
  <2>1. srv'[c] = EndedAt(c, link = c) /\ up'[c] = <<>>
    BY DEF PrimaryRestart
  <2>2. TaskIn(srv'[c], gen', counter')
    BY <1>2, <2>1, FreeIn
  <2>3. down'[c] \in Seq(FramesIn(gen', counter'))
    BY <1>1, <1>3, SeqWithin DEF PosInv
  <2> QED
    BY <2>1, <2>2, <2>3
<1> QED
  BY <1>4, <1>5, <1>6 DEF PosInv

-----------------------------------------------------------------------------
(* The steps that leave the log's incarnation and counter alone.           *)

(* `reap` keeps every position within the log.                             *)
LEMMA PosReap == ASSUME TypeOK, PosInv, Reap PROVE PosInv'
<1>1. UNCHANGED <<gen, counter, W, srv, down, up>>
  BY DEF Reap, wire, backup
<1>2. gen \in Nat \ {0} /\ counter \in Nat /\ 0 <= counter /\ sub \in SubLogs
  BY DEF TypeOK
<1>3. LogIn(NewSub(0), gen, counter) /\ LogIn(ReapSub(sub, gen), gen, counter)
  BY <1>2, NewSubIn, ReapSubIn DEF PosInv
<1>4. LogIn(sub', gen, counter)
  BY <1>3, Zenon DEF Reap
<1> QED
  BY <1>1, <1>4 DEF PosInv

(* `serve_flow` starts its tail from the log's counter, from the counter   *)
(* the sub-log opened at, or from where the puller stood.                  *)
LEMMA PosAccept == ASSUME TypeOK, PosInv, NEW c \in Conns, Accept(c) PROVE PosInv'
<1> DEFINE since == srv[c].since
           cold == since = Zero
           opened == OpenStream(TheLog, NoTime)
           noted == IF cold THEN NoteColdPull(opened) ELSE opened
           from(st, w) == [Free EXCEPT !.st = st, !.w = w]
<1>1. UNCHANGED <<gen, counter, W, up>>
  BY DEF Accept, backup
<1>2. gen \in Nat \ {0} /\ counter \in Nat
  BY DEF TypeOK
<1>3. noted \in SubLogs /\ LogIn(noted, gen, counter)
  <2>1. opened \in SubLogs /\ LogIn(opened, gen, counter)
    BY <1>2, TheLogType, TheLogIn, OpenStreamType, OpenStreamIn
  <2> HIDE DEF opened
  <2> QED
    BY <1>2, <2>1, OpenStreamIn, NoteColdPullType
<1>4. LogIn(sub', gen, counter)
  <2>1. LogIn(CloseStream(noted), gen, counter) /\ LogIn(NoteScanned(noted, counter), gen, counter)
    BY <1>2, <1>3, CloseStreamIn, NoteScannedIn
  <2> QED
    BY <1>3, <2>1 DEF Accept
<1>5. \A d \in Conns : TaskIn(srv'[d], gen, counter)
  <2>1. ASSUME NEW st, NEW w, Bound(w, gen, counter)
        PROVE  TaskIn(from(st, w), gen, counter)
    BY <1>2, <2>1, ZeroBound DEF TaskIn, Free
  <2>2. /\ Bound(since, gen, counter) /\ Bound(Wm(gen, counter), gen, counter)
        /\ Bound(Wm(gen, noted.opened), gen, counter)
    <3>1. noted.opened <= counter
      BY <1>3 DEF LogIn
    <3> HIDE DEF noted
    <3> QED
      BY <1>2, <3>1 DEF PosInv, TaskIn, Bound, Wm
  <2>3. \/ srv' = [srv EXCEPT ![c] = EndedAt(c, link = c)]
        \/ srv' = [srv EXCEPT ![c] = from("keys", Wm(gen, counter))]
        \/ srv' = [srv EXCEPT ![c] = from("drain", Wm(gen, noted.opened))]
        \/ srv' = [srv EXCEPT ![c] = from("drain", since)]
    BY Zenon DEF Accept
  <2>4. TaskIn(EndedAt(c, link = c), gen, counter)
    BY <1>2, FreeIn
  <2>5. srv \in [Conns -> Tasks] /\ \A d \in Conns : TaskIn(srv[d], gen, counter)
    BY DEF TypeOK, PosInv
  <2> HIDE DEF from, noted, since
  <2> QED
    BY <2>1, <2>2, <2>3, <2>4, <2>5
<1>6. \A d \in Conns : down'[d] \in Seq(FramesIn(gen, counter))
  <2>1. [kind |-> "reset"] \in FramesIn(gen, counter)
    BY DEF FramesIn, Frames
  <2>2. \A d \in Conns : down[d] \in Seq(FramesIn(gen, counter))
    BY DEF PosInv
  <2> DEFINE q == IF link = c THEN Append(down[c], [kind |-> "reset"]) ELSE down[c]
  <2>3. q \in Seq(FramesIn(gen, counter))
    BY <2>1, <2>2
  <2>4. down' = [down EXCEPT ![c] = q] \/ down' = down
    BY DEF Accept
  <2>5. down \in [Conns -> Seq(Frames)]
    BY DEF TypeOK
  <2> HIDE DEF q
  <2> QED
    BY <2>2, <2>3, <2>4, <2>5, Zenon
<1> QED
  BY <1>1, <1>4, <1>5, <1>6 DEF PosInv

(* A scan's and a drain's frames carry positions of the log.               *)
LEMMA PosRead ==
    ASSUME TypeOK, PosInv, NEW c \in Conns, ScanKeys(c) \/ ScanRead(c) \/ DrainRead(c)
    PROVE  PosInv'
<1>1. UNCHANGED <<gen, counter, W, sub, down, up>>
  BY Zenon DEF ScanKeys, ScanRead, DrainRead, primary, backup
<1>2. /\ gen \in Nat \ {0} /\ counter \in Nat
      /\ srv \in [Conns -> Tasks] /\ srv[c] \in Tasks
  BY DEF TypeOK
<1>3. TaskIn(srv[c], gen, counter)
  BY DEF PosInv
<1>4. \A d \in Conns : d # c => srv'[d] = srv[d]
  BY <1>2, Zenon DEF ScanKeys, ScanRead, DrainRead
<1>5. TaskIn(srv'[c], gen, counter)
  <2>1. CASE ScanKeys(c)
    <3>1. /\ srv'[c].since = srv[c].since /\ srv'[c].w = srv[c].w
          /\ srv'[c].due = srv[c].due /\ srv'[c].out = srv[c].out
      BY <1>2, <2>1 DEF ScanKeys, Tasks
    <3> QED
      BY <1>3, <3>1 DEF TaskIn
  <2>2. CASE ScanRead(c)
    <3>1. PICK r \in srv[c].keys :
            /\ srv'[c].since = srv[c].since /\ srv'[c].w = srv[c].w
            /\ srv'[c].due = srv[c].due
            /\ srv'[c].out = IF body[r] = NoBody THEN srv[c].out
                   ELSE Append(srv[c].out, DataFrame(srv[c].w, "put", r, body[r]))
      <4>1. PICK r \in srv[c].keys :
               LET left == srv[c].keys \ {r}
                   out == IF body[r] = NoBody THEN srv[c].out
                          ELSE Append(srv[c].out, DataFrame(srv[c].w, "put", r, body[r]))
               IN srv' = [srv EXCEPT ![c].keys = left,
                                     ![c].out = out,
                                     ![c].st = IF left # {} THEN "scan"
                                               ELSE IF out = <<>> THEN "drain" ELSE "send"]
        BY <2>2, Zenon DEF ScanRead
      <4>2. /\ srv'[c].since = srv[c].since /\ srv'[c].w = srv[c].w
            /\ srv'[c].due = srv[c].due
            /\ srv'[c].out = IF body[r] = NoBody THEN srv[c].out
                   ELSE Append(srv[c].out, DataFrame(srv[c].w, "put", r, body[r]))
        BY <1>2, <4>1 DEF Tasks
      <4> QED
        BY <4>2
    <3>2. r \in Refs
      BY <1>2 DEF Tasks
    <3>3. DataFrame(srv[c].w, "put", r, body[r]) \in DataIn(gen, counter)
      BY <1>2, <1>3, <3>2, Zenon DEF DataFrame, DataFrames, DataIn, TaskIn, Tasks, TypeOK, Ops
    <3>4. srv[c].out \in Seq(DataIn(gen, counter))
      BY <1>3 DEF TaskIn
    <3>5. srv'[c].out \in Seq(DataIn(gen, counter))
      BY <3>1, <3>3, <3>4
    <3> QED
      BY <1>3, <3>1, <3>5 DEF TaskIn
  <2>3. CASE DrainRead(c)
    <3>1. PICK d \in srv[c].due, b \in Bodies, op \in Ops :
            /\ srv'[c].since = srv[c].since /\ srv'[c].w = srv[c].w
            /\ srv'[c].due = srv[c].due \ {d}
            /\ srv'[c].out \in {srv[c].out,
                   Append(srv[c].out, DataFrame(Wm(gen, d.counter), op, d.ref, b))}
      <4>1. PICK d \in srv[c].due :
               LET at == Wm(gen, d.counter)
                   gone == body[d.ref] = NoBody
                   skip == d.op = "put" /\ gone /\ sub.entry[d.ref].op = "delete"
                   frame == IF d.op = "put" /\ ~gone
                            THEN DataFrame(at, "put", d.ref, body[d.ref])
                            ELSE DataFrame(at, "delete", d.ref, [NoBody EXCEPT !.inc = d.inc])
                   left == srv[c].due \ {d}
                   out == IF skip THEN srv[c].out ELSE Append(srv[c].out, frame)
               IN srv' = [srv EXCEPT ![c].due = left,
                                     ![c].out = out,
                                     ![c].next = IF Len(out) = Batch THEN "drain" ELSE "caught",
                                     ![c].st = IF left # {} THEN "read"
                                               ELSE IF out = <<>> THEN "caught" ELSE "send"]
        BY <2>3, Zenon DEF DrainRead
      <4>2. d.ref \in Refs /\ d.inc \in Nat
        BY <1>2 DEF Tasks
      <4>3. body[d.ref] \in Bodies /\ [NoBody EXCEPT !.inc = d.inc] \in Bodies
        BY <4>2, Zenon DEF TypeOK, NoBody, Bodies
      <4>4. /\ srv'[c].since = srv[c].since /\ srv'[c].w = srv[c].w
            /\ srv'[c].due = srv[c].due \ {d}
        BY <1>2, <4>1 DEF Tasks
      <4>5. srv'[c].out \in {srv[c].out,
               Append(srv[c].out, DataFrame(Wm(gen, d.counter), "put", d.ref, body[d.ref])),
               Append(srv[c].out, DataFrame(Wm(gen, d.counter), "delete", d.ref,
                                            [NoBody EXCEPT !.inc = d.inc]))}
        BY <1>2, <4>1, Zenon DEF Tasks
      <4>6. "put" \in Ops /\ "delete" \in Ops
        BY DEF Ops
      <4> QED
        BY <4>3, <4>4, <4>5, <4>6
    <3>2. d.ref \in Refs /\ d.counter \in Nat /\ d.counter <= counter
      BY <1>2, <1>3 DEF Tasks, TaskIn
    <3>3. DataFrame(Wm(gen, d.counter), op, d.ref, b) \in DataIn(gen, counter)
      BY <1>2, <3>2 DEF DataFrame, DataFrames, DataIn, Bound, Wm, Watermarks
    <3>4. srv[c].out \in Seq(DataIn(gen, counter))
      BY <1>3 DEF TaskIn
    <3>5. srv'[c].out \in Seq(DataIn(gen, counter))
      <4>1. Append(srv[c].out, DataFrame(Wm(gen, d.counter), op, d.ref, b))
               \in Seq(DataIn(gen, counter))
        BY <3>3, <3>4
      <4> QED
        BY <3>1, <3>4, <4>1, Zenon
    <3> QED
      BY <1>3, <3>1, <3>5, Zenon DEF TaskIn
  <2> QED
    BY <2>1, <2>2, <2>3
<1> QED
  BY <1>1, <1>4, <1>5 DEF PosInv

(* `drain_since` snapshots entries at counters of the log.                 *)
LEMMA PosDrain == ASSUME TypeOK, PosInv, NEW c \in Conns, Drain(c) PROVE PosInv'
<1> DEFINE refs == DueBatch(sub, srv[c].w.counter, srv[c].w.gen < gen)
           due == {[ref |-> r, counter |-> sub.entry[r].counter,
                    op |-> sub.entry[r].op, inc |-> sub.entry[r].inc] : r \in refs}
<1>1. UNCHANGED <<gen, counter, W, down, up>>
  BY DEF Drain, backup
<1>2. /\ gen \in Nat /\ counter \in Nat /\ sub \in SubLogs
      /\ srv \in [Conns -> Tasks] /\ srv[c] \in Tasks
  BY DEF TypeOK
<1>3. LogIn(sub, gen, counter) /\ TaskIn(srv[c], gen, counter)
  BY DEF PosInv
<1>4. sub' = MarkSent(sub, refs) /\ srv' = [srv EXCEPT ![c].st = "read", ![c].due = due]
  BY DEF Drain
<1>5. LogIn(sub', gen, counter)
  BY <1>2, <1>3, <1>4, MarkSentIn
<1>6. refs \subseteq Refs
  BY DEF DueBatch, DueRefs, Logged
<1>7. ASSUME NEW d \in due PROVE d.counter <= counter
  <2>1. PICK r \in refs : d = [ref |-> r, counter |-> sub.entry[r].counter,
                               op |-> sub.entry[r].op, inc |-> sub.entry[r].inc]
    OBVIOUS
  <2>2. r \in Refs
    BY <1>6
  <2> HIDE DEF refs, due
  <2> QED
    BY <1>3, <2>1, <2>2 DEF LogIn
<1> HIDE DEF due, refs
<1>8. /\ srv'[c].since = srv[c].since /\ srv'[c].w = srv[c].w
      /\ srv'[c].due = due /\ srv'[c].out = srv[c].out
      /\ \A d \in Conns : d # c => srv'[d] = srv[d]
  BY <1>2, <1>4 DEF Tasks
<1>9. TaskIn(srv'[c], gen, counter)
  BY <1>3, <1>7, <1>8 DEF TaskIn
<1> QED
  BY <1>1, <1>5, <1>8, <1>9 DEF PosInv

(* A frame within the log put on a stream keeps the streams within it.     *)
LEMMA SentIn ==
    ASSUME TypeOK, PosInv, NEW c \in Conns, NEW f \in FramesIn(gen, counter)
    PROVE  \A d \in Conns : Sent(c, f)[d] \in Seq(FramesIn(gen, counter))
<1> DEFINE S == FramesIn(gen, counter)
<1>1. down \in [Conns -> Seq(Frames)] /\ \A d \in Conns : down[d] \in Seq(S)
  BY DEF TypeOK, PosInv
<1> HIDE DEF S
<1>2. f \in S /\ Append(down[c], f) \in Seq(S)
  BY <1>1 DEF S
<1>3. \A d \in Conns : Sent(c, f)[d] \in Seq(S)
  BY <1>1, <1>2 DEF Sent
<1> QED
  BY <1>3 DEF S

(* A frame sent was within the log when it was read.                       *)
LEMMA PosSend == ASSUME TypeOK, PosInv, NEW c \in Conns, SendFrame(c) PROVE PosInv'
<1>1. UNCHANGED <<gen, counter, sub, W, up>>
  BY DEF SendFrame, primary, backup
<1>2. gen \in Nat /\ counter \in Nat /\ srv[c].out # <<>>
  BY DEF TypeOK, SendFrame
<1>3. \A d \in Conns : TaskIn(srv'[d], gen, counter)
  BY <1>2, PastFrameIn, Zenon DEF SendFrame, PosInv
<1>4. Head(srv[c].out) \in FramesIn(gen, counter)
  <2>1. Head(srv[c].out) \in DataIn(gen, counter)
    BY <1>2, OutIn DEF PosInv
  <2> QED
    BY <2>1 DEF DataIn, FramesIn, Frames
<1>5. \A d \in Conns : down'[d] \in Seq(FramesIn(gen, counter))
  BY <1>4, SentIn DEF SendFrame
<1> QED
  BY <1>1, <1>3, <1>5 DEF PosInv

(* A Noop states the task's cursor.                                        *)
LEMMA PosIdle ==
    ASSUME TypeOK, PosInv, NEW c \in Conns, CatchUp(c) \/ NoopDue(c) \/ RequestLost(c)
    PROVE  PosInv'
<1>1. UNCHANGED <<gen, counter, sub, W, up>>
  BY DEF CatchUp, NoopDue, RequestLost, primary, backup
<1>2. /\ gen \in Nat \ {0} /\ counter \in Nat
      /\ srv \in [Conns -> Tasks] /\ srv[c] \in Tasks /\ TaskIn(srv[c], gen, counter)
  BY DEF TypeOK, PosInv
<1>3. \A d \in Conns : d # c => srv'[d] = srv[d]
  BY <1>2 DEF CatchUp, NoopDue, RequestLost
<1>4. TaskIn(srv'[c], gen, counter)
  <2>1. CASE RequestLost(c)
    <3>1. srv'[c] = Free
      BY <1>2, <2>1 DEF RequestLost
    <3> QED
      BY <1>2, <3>1, FreeIn
  <2>2. CASE CatchUp(c) \/ NoopDue(c)
    <3>1. /\ srv'[c].since = srv[c].since /\ srv'[c].w = srv[c].w
          /\ srv'[c].due = srv[c].due /\ srv'[c].out = srv[c].out
      BY <1>2, <2>2 DEF CatchUp, NoopDue, Tasks
    <3> QED
      BY <1>2, <3>1 DEF TaskIn
  <2> QED
    BY <2>1, <2>2
<1>5. \A d \in Conns : down'[d] \in Seq(FramesIn(gen, counter))
  <2>1. NoopFrame(c) \in FramesIn(gen, counter)
    BY <1>2 DEF NoopFrame, FramesIn, Frames, TaskIn, Tasks
  <2>2. down' = Sent(c, NoopFrame(c)) \/ down' = down
    BY DEF CatchUp, NoopDue, RequestLost
  <2>3. \A d \in Conns : Sent(c, NoopFrame(c))[d] \in Seq(FramesIn(gen, counter))
    BY <2>1, SentIn
  <2>4. \A d \in Conns : down[d] \in Seq(FramesIn(gen, counter))
    BY DEF PosInv
  <2> QED
    BY <2>2, <2>3, <2>4
<1> QED
  BY <1>1, <1>3, <1>4, <1>5, Zenon DEF PosInv

(* A report read was within the log when it was sent.                      *)
LEMMA PosReadBack == ASSUME TypeOK, PosInv, NEW c \in Conns, ReadBack(c) PROVE PosInv'
<1> DEFINE frame == Head(up[c])
<1>1. UNCHANGED <<gen, counter, srv, down, W>>
  BY DEF ReadBack, backup
<1>2. /\ gen \in Nat \ {0} /\ counter \in Nat /\ sub \in SubLogs
      /\ up \in [Conns -> Seq(Reports)] /\ up[c] # <<>>
  BY DEF TypeOK, ReadBack
<1>3. \A d \in Conns : up[d] \in Seq(ReportsIn(gen, counter))
  BY DEF PosInv
<1>4. frame \in ReportsIn(gen, counter) /\ Tail(up[c]) \in Seq(ReportsIn(gen, counter))
  BY <1>2, <1>3
<1>5. \A d \in Conns : up'[d] \in Seq(ReportsIn(gen, counter))
  BY <1>2, <1>3, <1>4, Zenon DEF ReadBack
<1>6. LogIn(sub', gen, counter)
  <2>1. LogIn(sub, gen, counter)
    BY DEF PosInv
  <2>2. CASE frame.kind = "position"
    <3>1. frame.at \in Watermarks /\ Bound(frame.at, gen, counter)
      BY <1>4, <2>2, Zenon DEF ReportsIn, Reports
    <3>2. LogIn(NoteApplied(sub, gen, frame.at, 0), gen, counter)
      BY <1>2, <2>1, <3>1, NoteAppliedIn, Zenon
    <3> QED
      BY <2>2, <3>2, Zenon DEF ReadBack
  <2>3. CASE frame.kind = "refused"
    <3>1. frame.ref \in Refs
      BY <1>4, <2>3 DEF ReportsIn, Reports
    <3>2. LogIn(Forget(sub, frame.ref), gen, counter)
      BY <1>2, <2>1, <3>1, ForgetIn
    <3> QED
      BY <2>1, <2>3, <3>2 DEF ReadBack
  <2> QED
    BY <2>2, <2>3, Zenon DEF ReadBack
<1> QED
  BY <1>1, <1>5, <1>6 DEF PosInv

(* The end of a serve task takes positions away only.                      *)
LEMMA PosTaskEnds ==
    ASSUME TypeOK, PosInv, NEW c \in Conns, ServeEnd(c) \/ ServeCut(c) PROVE PosInv'
<1>1. TaskEnds(c)
  BY DEF ServeEnd, ServeCut
<1>2. UNCHANGED <<gen, counter, down, W>>
  BY <1>1 DEF TaskEnds, backup
<1>3. /\ gen \in Nat \ {0} /\ counter \in Nat /\ sub \in SubLogs
      /\ srv \in [Conns -> Tasks] /\ up \in [Conns -> Seq(Reports)]
  BY DEF TypeOK
<1>4. LogIn(sub', gen, counter)
  BY <1>1, <1>3, CloseStreamIn DEF TaskEnds, PosInv
<1>5. \A d \in Conns : srv'[d] = srv[d] \/ srv'[d] = EndedAt(c, link = c)
  BY <1>1, <1>3 DEF TaskEnds
<1>6. \A d \in Conns : TaskIn(srv'[d], gen, counter)
  <2>1. \A d \in Conns : TaskIn(srv[d], gen, counter)
    BY DEF PosInv
  <2>2. TaskIn(EndedAt(c, link = c), gen, counter)
    BY <1>3, FreeIn
  <2> QED
    BY <1>5, <2>1, <2>2
<1>7. \A d \in Conns : up'[d] \in Seq(ReportsIn(gen, counter))
  BY <1>1, <1>3 DEF TaskEnds, PosInv
<1> QED
  BY <1>2, <1>4, <1>6, <1>7 DEF PosInv

(* A pull asks from the puller's own watermark.                            *)
LEMMA PosConnect == ASSUME TypeOK, PosInv, NEW c \in Conns, Connect(c) PROVE PosInv'
<1>1. UNCHANGED <<gen, counter, sub, down, up, W>>
  BY DEF Connect, primary
<1>2. gen \in Nat \ {0} /\ counter \in Nat /\ srv \in [Conns -> Tasks]
  BY DEF TypeOK
<1>3. TaskIn([Free EXCEPT !.st = "opening", !.since = W], gen, counter)
  BY <1>2, ZeroBound DEF TaskIn, Free, PosInv
<1>4. \A d \in Conns : \/ srv'[d] = srv[d]
                       \/ srv'[d] = [Free EXCEPT !.st = "opening", !.since = W]
  BY <1>2 DEF Connect
<1>5. \A d \in Conns : TaskIn(srv'[d], gen, counter)
  BY <1>3, <1>4 DEF PosInv
<1> QED
  BY <1>1, <1>5, Zenon DEF PosInv

(* Leaving a stream takes frames away and adds none.                       *)
LEMMA PosLeft ==
    ASSUME TypeOK, PosInv, NEW c \in Conns,
           ReceiveReset(c) \/ StreamEnded(c) \/ Cut(c)
    PROVE  PosInv'
<1>1. Leave(c) /\ UNCHANGED <<gen, counter, sub, up>>
  BY Zenon DEF ReceiveReset, StreamEnded, Cut, primary
<1>2. /\ gen \in Nat \ {0} /\ counter \in Nat /\ srv \in [Conns -> Tasks]
      /\ down \in [Conns -> Seq(Frames)]
  BY DEF TypeOK
<1>3. Bound(W', gen, counter)
  BY <1>2, ZeroBound DEF ReceiveReset, StreamEnded, Cut, PosInv
<1>4. \A d \in Conns : srv'[d] = srv[d] \/ srv'[d] = Free
  BY <1>1, <1>2 DEF Leave
<1>5. \A d \in Conns : TaskIn(srv'[d], gen, counter)
  <2>1. \A d \in Conns : TaskIn(srv[d], gen, counter)
    BY DEF PosInv
  <2>2. TaskIn(Free, gen, counter)
    BY <1>2, FreeIn, Zenon
  <2> QED
    BY <1>4, <2>1, <2>2
<1>6. \A d \in Conns : down'[d] \in Seq(FramesIn(gen, counter))
  BY <1>1, <1>2 DEF Leave, PosInv
<1> QED
  BY <1>1, <1>3, <1>5, <1>6, Zenon DEF PosInv

(* What the puller read next is within the log, and so is the rest.        *)
LEMMA DownIn ==
    ASSUME TypeOK, PosInv, NEW c \in Conns, down[c] # <<>>,
           down' = [down EXCEPT ![c] = Tail(down[c])]
    PROVE  /\ Head(down[c]) \in FramesIn(gen, counter)
           /\ \A d \in Conns : down'[d] \in Seq(FramesIn(gen, counter))
<1>1. /\ down \in [Conns -> Seq(Frames)]
      /\ \A d \in Conns : down[d] \in Seq(FramesIn(gen, counter))
  BY DEF TypeOK, PosInv
<1>2. /\ Head(down[c]) \in FramesIn(gen, counter)
      /\ Tail(down[c]) \in Seq(FramesIn(gen, counter))
  BY <1>1
<1> QED
  BY <1>1, <1>2

(* Reports within the log sent back leave channels within it.              *)
LEMMA SentBackIn ==
    ASSUME TypeOK, PosInv, NEW c \in Conns, NEW q \in Seq(ReportsIn(gen, counter))
    PROVE  \A d \in Conns : SentBack(c, q)[d] \in Seq(ReportsIn(gen, counter))
<1> DEFINE S == ReportsIn(gen, counter)
<1>1. up \in [Conns -> Seq(Reports)] /\ \A d \in Conns : up[d] \in Seq(S)
  BY DEF TypeOK, PosInv
<1> HIDE DEF S
<1>2. q \in Seq(S) /\ up[c] \o q \in Seq(S)
  BY <1>1 DEF S
<1>3. \A d \in Conns : SentBack(c, q)[d] \in Seq(S)
  BY <1>1, <1>2 DEF SentBack
<1> QED
  BY <1>3 DEF S

(* The report of a position within the log is within it.                   *)
LEMMA PositionIn ==
    ASSUME NEW at \in Watermarks, Bound(at, gen, counter)
    PROVE  PositionFrame(at) \in ReportsIn(gen, counter)
BY DEF PositionFrame, ReportsIn, Reports

(* After an apply the watermark and the report are the frame's position.   *)
LEMMA ReportedIn ==
    ASSUME TypeOK, PosInv, NEW c \in Conns, NEW at \in Watermarks, Bound(at, gen, counter),
           NEW told \in Seq(ReportsIn(gen, counter)), Reported(c, at, told)
    PROVE  /\ Bound(W', gen, counter)
           /\ \A d \in Conns : up'[d] \in Seq(ReportsIn(gen, counter))
<1>1. Bound(W', gen, counter)
  BY DEF Reported, PosInv
<1>2. Append(told, PositionFrame(at)) \in Seq(ReportsIn(gen, counter))
  BY PositionIn
<1>3. up' = SentBack(c, told) \/ up' = SentBack(c, Append(told, PositionFrame(at)))
  BY DEF Reported
<1>4. \A d \in Conns : up'[d] \in Seq(ReportsIn(gen, counter))
  BY <1>2, <1>3, SentBackIn, Zenon
<1> QED
  BY <1>1, <1>4

(* `apply_to_store` and the report after it state a frame's position.      *)
LEMMA PosReceive == ASSUME TypeOK, PosInv, NEW c \in Conns, Receive(c) PROVE PosInv'
<1> DEFINE f == Head(down[c])
<1>1. UNCHANGED <<gen, counter, sub, srv>>
  BY DEF Receive, primary
<1>2. /\ f \in FramesIn(gen, counter)
      /\ \A d \in Conns : down'[d] \in Seq(FramesIn(gen, counter))
  BY DownIn, Zenon DEF Receive
<1>3. f.kind = "data"
  BY Zenon DEF Receive, ApplyPut, ShedPut, ApplyDelete
<1>4. f \in Frames /\ Bound(f.at, gen, counter)
  BY <1>2, <1>3 DEF FramesIn
<1>5. f.ref \in Refs /\ f.at \in Watermarks /\ f.body.inc \in Nat
  BY <1>3, <1>4, DataFrameFields DEF Bodies
<1> DEFINE no == [kind |-> "refused", ref |-> f.ref, inc |-> f.body.inc]
<1>6. <<>> \in Seq(ReportsIn(gen, counter)) /\ <<no>> \in Seq(ReportsIn(gen, counter))
  <2>1. no \in ReportsIn(gen, counter)
    BY <1>5 DEF ReportsIn, Reports
  <2> QED
    BY <2>1
<1>7. Reported(c, f.at, <<>>) \/ Reported(c, f.at, <<no>>)
  BY Zenon DEF Receive, ApplyPut, ShedPut, ApplyDelete
<1>8. /\ Bound(W', gen, counter)
      /\ \A d \in Conns : up'[d] \in Seq(ReportsIn(gen, counter))
  BY <1>4, <1>5, <1>6, <1>7, ReportedIn, Zenon
<1> QED
  BY <1>1, <1>2, <1>8 DEF PosInv

(* A Noop moves the watermark to the cursor it states, or leaves it.       *)
LEMMA PosNoop == ASSUME TypeOK, PosInv, NEW c \in Conns, ReceiveNoop(c) PROVE PosInv'
<1> DEFINE f == Head(down[c])
<1>1. UNCHANGED <<gen, counter, sub, srv>>
  BY Zenon DEF ReceiveNoop, primary
<1>2. /\ f \in FramesIn(gen, counter)
      /\ \A d \in Conns : down'[d] \in Seq(FramesIn(gen, counter))
  BY DownIn, Zenon DEF ReceiveNoop
<1>3. f.at \in Watermarks /\ Bound(f.at, gen, counter)
  BY <1>2, Zenon DEF ReceiveNoop, FramesIn, Frames, DataFrames
<1>4. Bound(W', gen, counter)
  <2>1. W' = f.at \/ W' = W
    BY DEF ReceiveNoop
  <2>2. Bound(W, gen, counter)
    BY DEF PosInv
  <2> HIDE DEF f
  <2> QED
    BY <1>3, <2>1, <2>2
<1>5. <<PositionFrame(f.at)>> \in Seq(ReportsIn(gen, counter))
  BY <1>3, PositionIn
<1>6. \A d \in Conns : up'[d] \in Seq(ReportsIn(gen, counter))
  BY <1>5, SentBackIn, Zenon DEF ReceiveNoop, NoopAnswer
<1> QED
  BY <1>1, <1>2, <1>4, <1>6 DEF PosInv

(* A restarted backup holds the cold watermark.                            *)
LEMMA PosBackupRestart == ASSUME TypeOK, PosInv, BackupRestart PROVE PosInv'
<1>1. UNCHANGED <<gen, counter, sub>>
  BY DEF BackupRestart, primary
<1>2. gen \in Nat \ {0} /\ counter \in Nat
  BY DEF TypeOK
<1>3. Bound(W', gen, counter)
  BY <1>2, ZeroBound DEF BackupRestart
<1>4. \A d \in Conns : srv'[d] = srv[d] \/ srv'[d] = Free
  BY DEF BackupRestart
<1>5. \A d \in Conns : TaskIn(srv'[d], gen, counter)
  <2>1. \A d \in Conns : TaskIn(srv[d], gen, counter)
    BY DEF PosInv
  <2>2. TaskIn(Free, gen, counter)
    BY <1>2, FreeIn
  <2> QED
    BY <1>4, <2>1, <2>2
<1>6. \A d \in Conns : /\ down'[d] \in Seq(FramesIn(gen, counter))
                       /\ up'[d] \in Seq(ReportsIn(gen, counter))
  BY DEF BackupRestart
<1> QED
  BY <1>1, <1>3, <1>5, <1>6 DEF PosInv

-----------------------------------------------------------------------------

(* PosInv is inductive on top of TypeOK: one case per action.              *)
LEMMA PosNext == ASSUME TypeOK, PosInv, [Next]_vars PROVE PosInv'
<1>1. ASSUME NEW r \in Refs, StorePut(r) \/ StoreDelete(r) \/ Bump(r) \/ Reclaim(r)
      PROVE  PosInv'
  <2>1. CASE Bump(r)
    BY <2>1, PosBump
  <2>2. CASE StorePut(r) \/ StoreDelete(r) \/ Reclaim(r)
    <3>1. UNCHANGED <<gen, counter, sub, srv, down, up, W>>
      BY <2>2, Zenon DEF StorePut, StoreDelete, Reclaim, wire, backup
    <3> QED
      BY <3>1 DEF PosInv
  <2> QED
    BY <1>1, <2>1, <2>2
<1>2. ASSUME NEW c \in Conns, ServeStep(c) PROVE PosInv'
  BY <1>2, PosAccept, PosRead, PosDrain, PosSend, PosIdle, PosReadBack, PosTaskEnds
     DEF ServeStep
<1>3. ASSUME NEW c \in Conns, PullStep(c) PROVE PosInv'
  BY <1>3, PosConnect, PosReceive, PosNoop, PosLeft DEF PullStep
<1>4. ASSUME NEW c \in Conns, SkipFrame(c) \/ ServeCut(c) \/ Cut(c) PROVE PosInv'
  BY <1>4, PosSkip, PosTaskEnds, PosLeft
<1>5. CASE Reap \/ PrimaryRestart \/ BackupRestart
  BY <1>5, PosReap, PosPrimaryRestart, PosBackupRestart
<1>6. CASE UNCHANGED vars
  <2>1. UNCHANGED <<gen, counter, sub, srv, down, up, W>>
    BY <1>6 DEF vars, primary, wire, backup
  <2> QED
    BY <2>1 DEF PosInv
<1> QED
  BY <1>1, <1>2, <1>3, <1>4, <1>5, <1>6 DEF Next

(* The inductive invariant says of whole channels what the property says   *)
(* of their members.                                                       *)
LEMMA PosImplies == ASSUME TypeOK, PosInv PROVE PositionsWithinLog
<1>1. \A w : Bound(w, gen, counter) <=> Within(w)
  BY DEF Bound, Within
<1>2. ASSUME NEW c \in Conns
      PROVE  /\ \A i \in 1..Len(srv[c].out) : Within(srv[c].out[i].at)
             /\ \A i \in 1..Len(down[c]) : down[c][i].kind # "reset" => Within(down[c][i].at)
             /\ \A i \in 1..Len(up[c]) : up[c][i].kind = "position" => Within(up[c][i].at)
  <2>1. /\ srv[c].out \in Seq(DataIn(gen, counter))
        /\ down[c] \in Seq(FramesIn(gen, counter))
        /\ up[c] \in Seq(ReportsIn(gen, counter))
    BY DEF PosInv, TaskIn
  <2>2. /\ \A i \in 1..Len(srv[c].out) : srv[c].out[i] \in DataIn(gen, counter)
        /\ \A i \in 1..Len(down[c]) : down[c][i] \in FramesIn(gen, counter)
        /\ \A i \in 1..Len(up[c]) : up[c][i] \in ReportsIn(gen, counter)
    BY <2>1
  <2> QED
    BY <1>1, <2>2, Zenon DEF DataIn, FramesIn, ReportsIn
<1>3. /\ Within(W) /\ Within(sub.acked) /\ Within(sub.applied.at)
      /\ sub.floor <= counter /\ sub.opened <= counter /\ sub.head <= counter
      /\ \A r \in Refs : sub.entry[r].counter <= counter /\ sub.entry[r].sent <= counter
  BY <1>1 DEF PosInv, LogIn
<1>4. ASSUME NEW c \in Conns
      PROVE  /\ Within(srv[c].since) /\ Within(srv[c].w)
             /\ \A d \in srv[c].due : d.counter <= counter
  BY <1>1 DEF PosInv, TaskIn
<1> QED
  BY <1>2, <1>3, <1>4 DEF PositionsWithinLog

(* No position anywhere (a watermark, a frame, a report, a cursor, what    *)
(* the backup is recorded to have applied) is ever past the change log     *)
(* that issued it, across restarts of either process, broken streams and   *)
(* dropped logs: the change log never resets a pull of its own making for  *)
(* being ahead of it.                                                      *)
THEOREM PositionsStayWithinLog == Spec => []PositionsWithinLog
<1>1. Init => TypeOK /\ PosInv
  BY TypeInit, PosInit
<1>2. TypeOK /\ PosInv /\ [Next]_vars => TypeOK' /\ PosInv'
  BY TypeNext, PosNext
<1>3. TypeOK /\ PosInv => PositionsWithinLog
  BY PosImplies
<1> QED
  BY <1>1, <1>2, <1>3, PTL DEF Spec

=============================================================================
