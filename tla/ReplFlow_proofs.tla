--------------------------- MODULE ReplFlow_proofs ---------------------------
(***************************************************************************)
(* Proofs about ReplFlow, for every set of refs and connections and every  *)
(* bound.                                                                  *)
(***************************************************************************)
EXTENDS ReplFlow, FiniteSetTheorems, WellFoundedInduction, TLAPS

-----------------------------------------------------------------------------
(* Extremal naturals.                                                      *)

(* A nonempty set of naturals has a least member.                          *)
LEMMA MinExists ==
    ASSUME NEW T \in SUBSET Nat, T # {}
    PROVE  \E m \in T : \A d \in T : m <= d
<1> DEFINE R == OpToRel(<, Nat)
<1>1. IsWellFoundedOn(R, Nat)
  BY NatLessThanWellFounded, Zenon
<1>2. \A x, y \in Nat : x < y => <<x, y>> \in R
  BY DEF OpToRel
<1> HIDE DEF R
<1>3. PICK x \in T : \A y \in T : ~ (<<y, x>> \in R)
  BY <1>1, WFMin, Zenon
<1>4. \A y \in T : ~ (y < x)
  BY <1>2, <1>3, Zenon
<1>5. \A y \in T : x <= y
  BY <1>4
<1> QED
  BY <1>5

(* A nonempty bounded set of naturals has a greatest member.               *)
LEMMA MaxExists ==
    ASSUME NEW S \in SUBSET Nat, S # {}, NEW B \in Nat, \A d \in S : d <= B
    PROVE  \E m \in S : \A d \in S : d <= m
<1> DEFINE T == {n \in 0..B : B - n \in S}
<1>1. T \in SUBSET Nat /\ T # {}
  <2>1. PICK d \in S : TRUE
    BY Zenon
  <2>2. d \in Nat /\ d <= B /\ B - d \in 0..B /\ B - (B - d) = d
    OBVIOUS
  <2>5. T \in SUBSET Nat
    OBVIOUS
  <2>3. B - d \in T
    BY <2>2
  <2>4. T # {}
    BY <2>3, Zenon
  <2> HIDE DEF T
  <2> QED
    BY <2>4, <2>5
<1>2. PICK m \in T : \A n \in T : m <= n
  BY <1>1, MinExists, Zenon
<1>3. \A d \in S : B - d \in T
  <2> SUFFICES ASSUME NEW d \in S PROVE B - d \in T
    OBVIOUS
  <2>1. d \in Nat /\ d <= B /\ B - d \in 0..B /\ B - (B - d) = d
    OBVIOUS
  <2> QED
    BY <2>1
<1>4. \A d \in S : d <= B - m
  BY <1>2, <1>3
<1> QED
  BY <1>2, <1>4
-----------------------------------------------------------------------------
(* The operations of a sub-log keep its type.                              *)

(* The cold watermark `Watermark::ZERO` is a watermark.                    *)
LEMMA ZeroType == Zero \in Watermarks
BY DEF Zero, Wm, Watermarks

(* A fresh sub-log (`SubLog::new`) is well typed.                          *)
LEMMA NewSubType == ASSUME NEW c \in Nat PROVE NewSub(c) \in SubLogs
BY DEF NewSub, SubLogs, Entries, NoEntry, NoClaim, NoReport, NoTime, Zero, Wm,
       Watermarks, Ops

(* So is the one `put` leaves.                                             *)
LEMMA PutType ==
    ASSUME NEW s \in SubLogs, NEW c \in Nat, NEW r \in Refs,
           NEW op \in Ops \cup {"none"}, NEW inc \in Nat
    PROVE  Put(s, c, r, op, 0, FALSE, inc) \in SubLogs
<1> DEFINE prev == s.entry[r]
           keep == (op = "delete" \/ prev.op = "put") /\ prev.sent <= s.acked.counter
           e == [op |-> op, counter |-> c, written |-> 0, inc |-> inc,
                 sent |-> IF keep THEN prev.sent ELSE 0,
                 answered |-> FALSE \/ (op = "delete" /\ prev.op = "delete" /\ prev.answered)]
           h == IF c > s.head THEN c ELSE s.head
<1>1. prev.sent \in Nat /\ h \in Nat
  BY DEF SubLogs, Entries
<1>2. e \in Entries
  BY <1>1 DEF Entries
<1>3. Put(s, c, r, op, 0, FALSE, inc) = [s EXCEPT !.entry[r] = e, !.head = h]
  BY Zenon DEF Put
<1> HIDE DEF e, h
<1>4. [s EXCEPT !.entry[r] = e, !.head = h] \in SubLogs
  BY <1>1, <1>2, Zenon DEF SubLogs
<1> QED
  BY <1>3, <1>4, Zenon

(* What `forget` leaves is a sub-log.                                      *)
LEMMA ForgetType ==
    ASSUME NEW s \in SubLogs, NEW r \in Refs PROVE Forget(s, r) \in SubLogs
BY Zenon DEF Forget, SubLogs, Entries, NoEntry, Ops

(* A sub-log whose entries are replaced by well-typed ones is a sub-log.   *)
LEMMA WithEntriesType ==
    ASSUME NEW s \in SubLogs, NEW en \in [Refs -> Entries]
    PROVE  [s EXCEPT !.entry = en] \in SubLogs
BY DEF SubLogs

(* An entry whose first counter sent is set is an entry.                   *)
LEMMA SentAtType ==
    ASSUME NEW e \in Entries, NEW n \in Nat
    PROVE  [e EXCEPT !.sent = n] \in Entries
BY DEF Entries

(* What a sub-log holds for a ref is an entry, at a counter.               *)
LEMMA EntryType ==
    ASSUME NEW s \in SubLogs, NEW r \in Refs
    PROVE  s.entry[r] \in Entries /\ s.entry[r].counter \in Nat
BY DEF SubLogs, Entries

(* What the snapshot of `drain_since` leaves is a sub-log.                 *)
LEMMA MarkSentType ==
    ASSUME NEW s \in SubLogs, NEW refs PROVE MarkSent(s, refs) \in SubLogs
<1> DEFINE en == [r \in Refs |-> IF r \in refs /\ s.entry[r].sent = 0
                                THEN [s.entry[r] EXCEPT !.sent = s.entry[r].counter]
                                ELSE s.entry[r]]
<1>1. \A r \in Refs : en[r] \in Entries
  BY EntryType, SentAtType
<1>2. en \in [Refs -> Entries]
  BY <1>1
<1> QED
  BY <1>2, WithEntriesType, Zenon DEF MarkSent

(* What `note_scanned` leaves is a sub-log.                                *)
LEMMA NoteScannedType ==
    ASSUME NEW s \in SubLogs, NEW w \in Nat PROVE NoteScanned(s, w) \in SubLogs
<1> DEFINE en == [r \in Refs |-> IF /\ r \in Logged(s) /\ s.entry[r].counter <= w
                                   /\ s.entry[r].sent = 0
                                THEN [s.entry[r] EXCEPT !.sent = w]
                                ELSE s.entry[r]]
<1>1. \A r \in Refs : en[r] \in Entries
  BY EntryType, SentAtType
<1>2. en \in [Refs -> Entries]
  BY <1>1
<1> QED
  BY <1>2, WithEntriesType, Zenon DEF NoteScanned

(* No claim is of a claim's type.                                          *)
LEMMA NoClaimType == NoClaim \in [some : BOOLEAN, at : Watermarks, made : Nat]
BY ZeroType DEF NoClaim

(* What `serving` leaves as a stream opens is a sub-log.                   *)
LEMMA OpenStreamType ==
    ASSUME NEW s \in SubLogs PROVE OpenStream(s, NoTime) \in SubLogs
<1>1. (IF s.started = NoTime THEN NoTime ELSE s.started) \in Nat \cup {NoTime}
  BY DEF SubLogs
<1>2. s.streams + 1 \in Nat
  BY DEF SubLogs
<1> QED
  BY <1>1, <1>2, NoClaimType, Zenon DEF OpenStream, SubLogs

(* What the drop of `ServeGuard` leaves is a sub-log.                      *)
LEMMA CloseStreamType ==
    ASSUME NEW s \in SubLogs PROVE CloseStream(s) \in SubLogs
<1> DEFINE n == IF s.streams > 0 THEN s.streams - 1 ELSE 0
           cl == IF s.streams <= 1 THEN NoClaim ELSE s.applied
<1>1. n \in Nat
  BY DEF SubLogs
<1>2. cl \in [some : BOOLEAN, at : Watermarks, made : Nat]
  BY NoClaimType DEF SubLogs
<1>3. CloseStream(s) = [s EXCEPT !.streams = n, !.applied = cl]
  BY DEF CloseStream
<1> HIDE DEF n, cl
<1> QED
  BY <1>1, <1>2, <1>3, Zenon DEF SubLogs

(* What `note_cold_pull` leaves is a sub-log.                              *)
LEMMA NoteColdPullType ==
    ASSUME NEW s \in SubLogs PROVE NoteColdPull(s) \in SubLogs
BY DEF NoteColdPull, SubLogs, Zero, Wm, Watermarks

(* What `note_applied` leaves is a sub-log.                                *)
LEMMA NoteAppliedType ==
    ASSUME NEW s \in SubLogs, NEW g \in Nat, NEW at \in Watermarks
    PROVE  NoteApplied(s, g, at, 0) \in SubLogs
BY Zenon DEF NoteApplied, SubLogs, NoTime

(* The floor a reap leaves is the greatest of the old one and the counters *)
(* reaped; no counter of the log is made up.                               *)
LEMMA ReapSubType ==
    ASSUME NEW s \in SubLogs, NEW g \in Nat
    PROVE  /\ ReapSub(s, g) \in SubLogs
           /\ ReapSub(s, g).floor \in
                {s.entry[r].counter : r \in Refs} \cup {s.floor}
<1> DEFINE gone == Reapable(s, g)
           dropped == {s.entry[r].counter : r \in gone} \cup {s.floor}
           en == [r \in Refs |-> IF r \in gone THEN NoEntry ELSE s.entry[r]]
           top == CHOOSE c \in dropped : \A d \in dropped : d <= c
<1>1. s.floor \in Nat /\ s.acked.counter \in Nat
  BY DEF SubLogs, Watermarks
<1>2. \A r \in gone : r \in Refs /\ s.entry[r].counter \in Nat
                      /\ s.entry[r].counter <= s.acked.counter
  BY EntryType DEF Reapable, Logged
<1>3. \E c \in dropped : \A d \in dropped : d <= c
  <2>1. dropped \in SUBSET Nat /\ dropped # {}
    BY <1>1, <1>2
  <2>2. s.floor + s.acked.counter \in Nat
    BY <1>1
  <2>3. \A d \in dropped : d <= s.floor + s.acked.counter
    BY <1>1, <1>2
  <2> HIDE DEF dropped
  <2> QED
    BY <2>1, <2>2, <2>3, MaxExists, Zenon
<1>4. top \in dropped
  BY <1>3
<1>5. top \in {s.entry[r].counter : r \in Refs} \cup {s.floor}
  BY <1>4, <1>2
<1>6. top \in Nat
  BY <1>1, <1>2, <1>4, Zenon
<1>7. NoEntry \in Entries
  BY DEF NoEntry, Entries
<1>8. en \in [Refs -> Entries]
  BY <1>7, EntryType
<1>9. ReapSub(s, g) = [s EXCEPT !.entry = en, !.floor = top]
  BY DEF ReapSub
<1> HIDE DEF en, top
<1>10. /\ [s EXCEPT !.entry = en, !.floor = top] \in SubLogs
       /\ [s EXCEPT !.entry = en, !.floor = top].floor = top
  BY <1>6, <1>8, Zenon DEF SubLogs
<1> QED
  BY <1>5, <1>9, <1>10

-----------------------------------------------------------------------------
(* Type correctness.                                                       *)

(* An idle serve slot is well typed.                                       *)
LEMMA FreeType == Free \in Tasks
BY ZeroType DEF Free, Tasks

(* So is one whose task just ended.                                        *)
LEMMA EndedType == ASSUME NEW c, NEW b PROVE EndedAt(c, b) \in Tasks
BY FreeType DEF EndedAt, Tasks

(* Spending of a budget keeps the budgets counts.                          *)
LEMMA SpendType ==
    ASSUME TypeOK, NEW what \in Budgets, Spend(what)
    PROVE  used' \in [Budgets -> Nat]
BY DEF TypeOK, Spend

(* No body is of a body's type.                                            *)
LEMMA NoBodyType == NoBody \in Bodies
BY DEF NoBody, Bodies

(* No write half done is of its type.                                      *)
LEMMA NoPendType == NoPend \in [op : Ops \cup {"none"}, inc : Nat]
BY DEF NoPend

(* The log toward the backup, created or not, is a sub-log.                *)
LEMMA TheLogType == TypeOK => TheLog \in SubLogs
BY NewSubType DEF TypeOK, TheLog

(* Every initial state is well typed.                                      *)
LEMMA TypeInit == Init => TypeOK
<1> SUFFICES ASSUME Init PROVE TypeOK
  OBVIOUS
<1>1. gen \in Nat \ {0} /\ counter \in Nat /\ sub \in SubLogs
  <2>1. NewSub(0) \in SubLogs
    BY NewSubType
  <2> QED
    BY <2>1 DEF Init
<1>2. /\ body \in [Refs -> Bodies] /\ replica \in [Refs -> Bodies]
      /\ pend \in [Refs -> [op : Ops \cup {"none"}, inc : Nat]]
  BY NoBodyType, NoPendType DEF Init
<1>3. /\ backed \in [Refs -> BOOLEAN] /\ buried \in [Refs -> SUBSET Nat]
      /\ graves \in [Refs -> SUBSET (Nat \ {0})] /\ refused \in [Refs -> Nat]
  BY DEF Init
<1>4. srv \in [Conns -> Tasks]
  BY FreeType DEF Init
<1>5. down \in [Conns -> Seq(Frames)] /\ up \in [Conns -> Seq(Reports)]
  BY DEF Init
<1>6. /\ link \in Conns \cup {NoConn} /\ W \in Watermarks
      /\ used \in [Budgets -> Nat]
  BY ZeroType DEF Init
<1>7. open \in BOOLEAN /\ boot \in BOOLEAN /\ heard \in BOOLEAN
  BY Zenon DEF Init
<1> QED
  BY <1>1, <1>2, <1>3, <1>4, <1>5, <1>6, <1>7 DEF TypeOK

(* The primary's writes (`write_put`, `write_delete`, `bump`) and its      *)
(* reclaims keep the types.                                                *)
LEMMA TypeStores ==
    ASSUME TypeOK, NEW r \in Refs, StorePut(r) \/ StoreDelete(r) \/ Bump(r) \/ Reclaim(r)
    PROVE  TypeOK'
<1>1. CASE StorePut(r)
  <2>1. used' \in [Budgets -> Nat] /\ used'.writes \in Nat
    BY <1>1, SpendType DEF StorePut, Budgets
  <2>2. body' \in [Refs -> Bodies]
    BY <1>1, <2>1 DEF StorePut, TypeOK, Bodies
  <2>3. pend' \in [Refs -> [op : Ops \cup {"none"}, inc : Nat]]
    BY <1>1 DEF StorePut, TypeOK, Ops
  <2>4. backed' \in [Refs -> BOOLEAN]
    BY <1>1 DEF StorePut, TypeOK
  <2> QED
    BY <1>1, <2>1, <2>2, <2>3, <2>4 DEF StorePut, TypeOK, wire, backup
<1>2. CASE StoreDelete(r)
  <2>1. body' \in [Refs -> Bodies] /\ backed' \in [Refs -> BOOLEAN]
    BY <1>2, NoBodyType DEF StoreDelete, TypeOK
  <2>2. body[r].inc \in Nat
    BY DEF TypeOK, Bodies
  <2>3. pend' \in [Refs -> [op : Ops \cup {"none"}, inc : Nat]]
    BY <1>2, <2>2, NoPendType DEF StoreDelete, TypeOK, Ops
  <2>4. buried' \in [Refs -> SUBSET Nat]
    BY <1>2, <2>2 DEF StoreDelete, TypeOK
  <2> QED
    BY <1>2, <2>1, <2>3, <2>4 DEF StoreDelete, TypeOK, wire, backup
<1>3. CASE Bump(r)
  <2>1. sub' \in SubLogs
    <3>1. pend[r].op \in Ops \cup {"none"} /\ pend[r].inc \in Nat /\ counter + 1 \in Nat
      BY DEF TypeOK
    <3> QED
      BY <1>3, <3>1, TheLogType, PutType, Zenon DEF Bump
  <2>2. counter' \in Nat /\ open' \in BOOLEAN
    BY <1>3 DEF Bump, TypeOK
  <2>3. pend' \in [Refs -> [op : Ops \cup {"none"}, inc : Nat]]
    BY <1>3 DEF Bump, TypeOK, NoPend
  <2> QED
    BY <1>3, <2>1, <2>2, <2>3, Zenon DEF Bump, TypeOK, wire, backup
<1>4. CASE Reclaim(r)
  BY <1>4 DEF Reclaim, TypeOK, wire, backup
<1> QED
  BY <1>1, <1>2, <1>3, <1>4, Zenon DEF StorePut, StoreDelete, Bump, Reclaim

(* `Changelog::reap` keeps the types.                                      *)
LEMMA TypeReap == ASSUME TypeOK, Reap PROVE TypeOK'
<1>1. sub' \in SubLogs
  <2>1. NewSub(0) \in SubLogs
    BY NewSubType
  <2>2. ReapSub(sub, gen) \in SubLogs
    BY ReapSubType, Zenon DEF TypeOK
  <2> QED
    BY <2>1, <2>2, Zenon DEF Reap
<1>2. open' \in BOOLEAN
  BY Zenon DEF Reap, TypeOK
<1>3. used' \in [Budgets -> Nat]
  <2>1. CASE Spend("drops")
    BY <2>1, SpendType DEF Budgets
  <2>2. CASE used' = used
    BY <2>2 DEF TypeOK
  <2> QED
    BY <2>1, <2>2, Zenon DEF Reap
<1> QED
  BY <1>1, <1>2, <1>3 DEF Reap, TypeOK, wire, backup

(* The restarts of either process keep the types.                          *)
LEMMA TypeRestarts == ASSUME TypeOK, PrimaryRestart \/ BackupRestart PROVE TypeOK'
<1>1. CASE PrimaryRestart
  <2>1. sub' \in SubLogs
    BY <1>1, NewSubType DEF PrimaryRestart
  <2>2. srv' \in [Conns -> Tasks]
    BY <1>1, EndedType DEF PrimaryRestart
  <2>3. gen' \in Nat \ {0} /\ counter' \in Nat
    BY <1>1 DEF PrimaryRestart, TypeOK
  <2>4. /\ body' \in [Refs -> Bodies]
        /\ pend' \in [Refs -> [op : Ops \cup {"none"}, inc : Nat]]
    BY <1>1, NoBodyType, NoPendType DEF PrimaryRestart
  <2>5. /\ open' \in BOOLEAN /\ backed' \in [Refs -> BOOLEAN]
        /\ buried' \in [Refs -> SUBSET Nat]
    BY <1>1, Zenon DEF PrimaryRestart
  <2>6. up' \in [Conns -> Seq(Reports)]
    BY <1>1 DEF PrimaryRestart
  <2> QED
    BY <1>1, <2>1, <2>2, <2>3, <2>4, <2>5, <2>6 DEF PrimaryRestart, TypeOK, backup
<1>2. CASE BackupRestart
  <2>1. srv' \in [Conns -> Tasks]
    BY <1>2, FreeType DEF BackupRestart, TypeOK
  <2>2. W' \in Watermarks
    BY <1>2, ZeroType DEF BackupRestart
  <2>3. used' \in [Budgets -> Nat]
    BY <1>2, SpendType DEF BackupRestart, Budgets
  <2>4. replica' \in [Refs -> Bodies] /\ refused' \in [Refs -> Nat]
    BY <1>2, NoBodyType DEF BackupRestart
  <2>5. graves' \in [Refs -> SUBSET (Nat \ {0})]
    BY <1>2 DEF BackupRestart
  <2>6. down' \in [Conns -> Seq(Frames)] /\ up' \in [Conns -> Seq(Reports)]
    BY <1>2 DEF BackupRestart
  <2>7. link' \in Conns \cup {NoConn} /\ boot' \in BOOLEAN /\ heard' \in BOOLEAN
    BY <1>2, Zenon DEF BackupRestart
  <2> QED
    BY <1>2, <2>1, <2>2, <2>3, <2>4, <2>5, <2>6, <2>7 DEF BackupRestart, TypeOK, primary
<1> QED
  BY <1>1, <1>2

(* `serve_flow` up to its first send keeps the types.                      *)
LEMMA AcceptType == ASSUME TypeOK, NEW c \in Conns, Accept(c) PROVE TypeOK'
<1> DEFINE since == srv[c].since
           cold == since = Zero
           opened == OpenStream(TheLog, NoTime)
           noted == IF cold THEN NoteColdPull(opened) ELSE opened
           from(st, w) == [Free EXCEPT !.st = st, !.w = w]
<1>1. noted \in SubLogs /\ noted.opened \in Nat
  <2>1. noted \in SubLogs
    BY TheLogType, OpenStreamType, NoteColdPullType
  <2> HIDE DEF noted
  <2> QED
    BY <2>1 DEF SubLogs
<1>2. counter \in Nat /\ gen \in Nat /\ since \in Watermarks
  BY DEF TypeOK, Tasks
<1>3. sub' \in SubLogs
  <2>1. CloseStream(noted) \in SubLogs /\ NoteScanned(noted, counter) \in SubLogs
    BY <1>1, <1>2, CloseStreamType, NoteScannedType
  <2> QED
    BY <1>1, <2>1 DEF Accept
<1>4. srv' \in [Conns -> Tasks]
  <2>1. \A st \in {"keys", "drain"}, w \in Watermarks : from(st, w) \in Tasks
    BY FreeType, Zenon DEF Tasks
  <2>2. Wm(gen, counter) \in Watermarks /\ Wm(gen, noted.opened) \in Watermarks
    BY <1>1, <1>2 DEF Wm, Watermarks
  <2>3. \E t \in Tasks : srv' = [srv EXCEPT ![c] = t]
    BY <1>2, <2>1, <2>2, EndedType, Zenon DEF Accept
  <2> QED
    BY <2>3 DEF TypeOK
<1>5. down' \in [Conns -> Seq(Frames)]
  <2>1. [kind |-> "reset"] \in Frames
    BY DEF Frames
  <2>2. down[c] \in Seq(Frames)
    BY DEF TypeOK
  <2> DEFINE q == IF link = c THEN Append(down[c], [kind |-> "reset"]) ELSE down[c]
  <2>3. q \in Seq(Frames)
    BY <2>1, <2>2
  <2>4. down' = [down EXCEPT ![c] = q] \/ down' = down
    BY DEF Accept
  <2> HIDE DEF q
  <2> QED
    BY <2>3, <2>4, Zenon DEF TypeOK
<1>6. open' \in BOOLEAN /\ heard' \in BOOLEAN
  BY DEF Accept, TypeOK
<1> QED
  BY <1>3, <1>4, <1>5, <1>6 DEF Accept, TypeOK, backup

(* The bootstrap scan keeps the types: its keys are refs, its frames data  *)
(* frames.                                                                 *)
LEMMA ScanType ==
    ASSUME TypeOK, NEW c \in Conns, ScanKeys(c) \/ ScanRead(c) PROVE TypeOK'
<1>1. srv[c] \in Tasks
  BY DEF TypeOK
<1>2. srv' \in [Conns -> Tasks]
  <2>1. CASE ScanKeys(c)
    <3> DEFINE keys == {r \in Refs : body[r] # NoBody /\ backed[r]}
    <3>1. keys \in SUBSET Refs
      OBVIOUS
    <3>2. srv' = [srv EXCEPT ![c].st = IF keys = {} THEN "drain" ELSE "scan",
                             ![c].keys = keys]
      BY <2>1 DEF ScanKeys
    <3> HIDE DEF keys
    <3> QED
      BY <1>1, <3>1, <3>2, Zenon DEF TypeOK, Tasks
  <2>2. CASE ScanRead(c)
    <3>1. PICK r \in srv[c].keys :
             LET left == srv[c].keys \ {r}
                 out == IF body[r] = NoBody THEN srv[c].out
                        ELSE Append(srv[c].out, DataFrame(srv[c].w, "put", r, body[r]))
             IN srv' = [srv EXCEPT ![c].keys = left,
                                   ![c].out = out,
                                   ![c].st = IF left # {} THEN "scan"
                                             ELSE IF out = <<>> THEN "drain" ELSE "send"]
      BY <2>2, Zenon DEF ScanRead
    <3> DEFINE left == srv[c].keys \ {r}
               out == IF body[r] = NoBody THEN srv[c].out
                      ELSE Append(srv[c].out, DataFrame(srv[c].w, "put", r, body[r]))
               st == IF left # {} THEN "scan" ELSE IF out = <<>> THEN "drain" ELSE "send"
    <3>2. r \in Refs /\ left \in SUBSET Refs
      BY <1>1 DEF Tasks
    <3>3. DataFrame(srv[c].w, "put", r, body[r]) \in DataFrames
      BY <1>1, <3>2 DEF DataFrame, DataFrames, Tasks, TypeOK, Ops
    <3>4. out \in Seq(DataFrames)
      <4>1. srv[c].out \in Seq(DataFrames)
        BY <1>1 DEF Tasks
      <4>2. Append(srv[c].out, DataFrame(srv[c].w, "put", r, body[r])) \in Seq(DataFrames)
        BY <3>3, <4>1
      <4> QED
        BY <4>1, <4>2
    <3>5. st \in {"scan", "drain", "send"}
      OBVIOUS
    <3>6. srv' = [srv EXCEPT ![c].keys = left, ![c].out = out, ![c].st = st]
      BY <3>1
    <3> HIDE DEF left, out, st
    <3> QED
      BY <1>1, <3>2, <3>4, <3>5, <3>6, Zenon DEF TypeOK, Tasks
  <2> QED
    BY <2>1, <2>2
<1> QED
  BY <1>2, Zenon DEF ScanKeys, ScanRead, TypeOK, primary, backup

(* `drain_since`, its snapshot and its reads, keeps the types.             *)
LEMMA DrainType ==
    ASSUME TypeOK, NEW c \in Conns, Drain(c) \/ DrainRead(c) PROVE TypeOK'
<1>1. srv[c] \in Tasks /\ gen \in Nat
  BY DEF TypeOK
<1>2. CASE Drain(c)
  <2> DEFINE refs == DueBatch(sub, srv[c].w.counter, srv[c].w.gen < gen)
             due == {[ref |-> r, counter |-> sub.entry[r].counter,
                      op |-> sub.entry[r].op, inc |-> sub.entry[r].inc] : r \in refs}
  <2>1. refs \in SUBSET Refs
    BY DEF DueBatch, DueRefs, Logged
  <2>2. \A r \in Refs : sub.entry[r] \in Entries
    <3>1. sub \in SubLogs
      BY DEF TypeOK
    <3> QED
      BY <3>1, EntryType
  <2>3. due \in SUBSET [ref : Refs, counter : Nat, op : Ops \cup {"none"}, inc : Nat]
    <3>1. SUFFICES ASSUME NEW d \in due
                   PROVE  d \in [ref : Refs, counter : Nat, op : Ops \cup {"none"}, inc : Nat]
      OBVIOUS
    <3>2. PICK r \in refs : d = [ref |-> r, counter |-> sub.entry[r].counter,
                                 op |-> sub.entry[r].op, inc |-> sub.entry[r].inc]
      OBVIOUS
    <3>3. r \in Refs /\ sub.entry[r] \in Entries
      BY <2>1, <2>2
    <3> HIDE DEF refs, due
    <3> QED
      BY <3>2, <3>3 DEF Entries
  <2>4. srv' = [srv EXCEPT ![c].st = "read", ![c].due = due] /\ sub' = MarkSent(sub, refs)
    BY <1>2 DEF Drain
  <2>5. sub' \in SubLogs
    BY <2>4, MarkSentType DEF TypeOK
  <2> HIDE DEF due, refs
  <2>6. srv' \in [Conns -> Tasks]
    BY <1>1, <2>3, <2>4, Zenon DEF TypeOK, Tasks
  <2> QED
    BY <1>2, <2>5, <2>6 DEF Drain, TypeOK, backup
<1>3. CASE DrainRead(c)
  <2>1. PICK d \in srv[c].due :
           LET at == Wm(gen, d.counter)
               gone == body[d.ref] = NoBody
               skip == d.op = "put" /\ gone /\ sub.entry[d.ref].op = "delete"
               frame == IF d.op = "put" /\ ~gone
                        THEN DataFrame(at, "put", d.ref, body[d.ref])
                        ELSE DataFrame(at, "delete", d.ref, [NoBody EXCEPT !.inc = d.inc])
               left == srv[c].due \ {d}
               out == IF skip THEN srv[c].out ELSE Append(srv[c].out, frame)
           IN srv' = [srv EXCEPT ![c].due = left,
                                 ![c].out = out,
                                 ![c].next = IF Len(out) = Batch THEN "drain" ELSE "caught",
                                 ![c].st = IF left # {} THEN "read"
                                           ELSE IF out = <<>> THEN "caught" ELSE "send"]
    BY <1>3, Zenon DEF DrainRead
  <2> DEFINE at == Wm(gen, d.counter)
             gone == body[d.ref] = NoBody
             skip == d.op = "put" /\ gone /\ sub.entry[d.ref].op = "delete"
             frame == IF d.op = "put" /\ ~gone
                      THEN DataFrame(at, "put", d.ref, body[d.ref])
                      ELSE DataFrame(at, "delete", d.ref, [NoBody EXCEPT !.inc = d.inc])
             left == srv[c].due \ {d}
             out == IF skip THEN srv[c].out ELSE Append(srv[c].out, frame)
             next == IF Len(out) = Batch THEN "drain" ELSE "caught"
             st == IF left # {} THEN "read" ELSE IF out = <<>> THEN "caught" ELSE "send"
  <2>2. d.ref \in Refs /\ d.counter \in Nat /\ d.inc \in Nat
    BY <1>1 DEF Tasks
  <2>3. frame \in DataFrames
    <3>1. at \in Watermarks
      BY <1>1, <2>2 DEF Wm, Watermarks
    <3>2. body[d.ref] \in Bodies /\ [NoBody EXCEPT !.inc = d.inc] \in Bodies
      BY <2>2, Zenon DEF TypeOK, NoBody, Bodies
    <3> QED
      BY <2>2, <3>1, <3>2 DEF DataFrame, DataFrames, Ops
  <2>4. out \in Seq(DataFrames)
    <3> HIDE DEF frame
    <3> QED
      BY <1>1, <2>3 DEF Tasks
  <2>5. left \in SUBSET [ref : Refs, counter : Nat, op : Ops \cup {"none"}, inc : Nat]
    BY <1>1 DEF Tasks
  <2>6. next \in {"drain", "caught"} /\ st \in {"read", "caught", "send"}
    OBVIOUS
  <2>7. srv' = [srv EXCEPT ![c].due = left, ![c].out = out, ![c].next = next, ![c].st = st]
    BY <2>1
  <2> HIDE DEF left, out, next, st
  <2>8. srv' \in [Conns -> Tasks]
    BY <1>1, <2>4, <2>5, <2>6, <2>7, Zenon DEF TypeOK, Tasks
  <2> QED
    BY <1>3, <2>8, Zenon DEF DrainRead, TypeOK, primary, backup
<1> QED
  BY <1>2, <1>3

(* What a serve task is about to send is a frame.                          *)
LEMMA OutType ==
    ASSUME TypeOK, NEW c \in Conns, srv[c].out # <<>>
    PROVE  Head(srv[c].out) \in DataFrames /\ Tail(srv[c].out) \in Seq(DataFrames)
BY DEF TypeOK, Tasks

(* Moving the cursor past the frame sent keeps the serve tasks' types.     *)
LEMMA PastFrameType ==
    ASSUME TypeOK, NEW c \in Conns, srv[c].out # <<>>, PastFrame(c)
    PROVE  srv' \in [Conns -> Tasks]
<1> DEFINE left == Tail(srv[c].out)
           at == Head(srv[c].out).at
           edge == srv[c].edge \/ (left = <<>> /\ srv[c].next = "drain")
           next == IF left = <<>> THEN "drain" ELSE srv[c].next
           st == IF left = <<>> THEN srv[c].next ELSE "send"
<1>1. srv[c] \in Tasks
  BY DEF TypeOK
<1>2. left \in Seq(DataFrames) /\ at \in Watermarks
  BY OutType, Zenon DEF DataFrames
<1>3. /\ edge \in BOOLEAN /\ next \in {"drain", "caught"}
      /\ st \in {"drain", "caught", "send"}
  BY <1>1 DEF Tasks
<1>4. srv' = [srv EXCEPT ![c].out = left, ![c].w = at, ![c].edge = edge,
                         ![c].next = next, ![c].st = st]
  BY Zenon DEF PastFrame
<1> HIDE DEF left, at, edge, next, st
<1> QED
  BY <1>1, <1>2, <1>3, <1>4, Zenon DEF TypeOK, Tasks

(* A frame handed to the transport keeps the channels well typed.          *)
LEMMA SentType ==
    ASSUME TypeOK, NEW c \in Conns, NEW f \in Frames
    PROVE  Sent(c, f) \in [Conns -> Seq(Frames)]
BY DEF TypeOK, Sent

(* `send_or_skip`, the frame sent or skipped, keeps the types.             *)
LEMMA SendType ==
    ASSUME TypeOK, NEW c \in Conns, SendFrame(c) \/ SkipFrame(c) PROVE TypeOK'
<1>1. srv' \in [Conns -> Tasks]
  BY PastFrameType, Zenon DEF SendFrame, SkipFrame
<1>2. Head(srv[c].out) \in DataFrames
  BY OutType, Zenon DEF SendFrame, SkipFrame
<1>3. CASE SendFrame(c)
  <2>1. down' \in [Conns -> Seq(Frames)]
    BY <1>2, <1>3, SentType, Zenon DEF SendFrame, Frames
  <2> QED
    BY <1>1, <1>3, <2>1 DEF SendFrame, TypeOK, primary, backup
<1>4. CASE SkipFrame(c)
  <2> DEFINE r == Head(srv[c].out).ref
  <2>1. r \in Refs
    BY <1>2 DEF DataFrames
  <2>2. body[r].inc \in Nat /\ counter + 1 \in Nat
    <3>1. body \in [Refs -> Bodies] /\ counter \in Nat
      BY DEF TypeOK
    <3> HIDE DEF r
    <3> QED
      BY <2>1, <3>1 DEF Bodies
  <2>3. sub' \in SubLogs
    <3>1. sub' = Put(sub, counter + 1, r, "delete", 0, FALSE, body[r].inc)
      BY <1>4, Zenon DEF SkipFrame
    <3>2. "delete" \in Ops \cup {"none"} /\ sub \in SubLogs
      BY DEF Ops, TypeOK
    <3> QED
      BY <2>1, <2>2, <3>1, <3>2, PutType, Zenon
  <2>4. counter' \in Nat
    BY <1>4, <2>2, Zenon DEF SkipFrame
  <2>5. backed' \in [Refs -> BOOLEAN]
    BY <1>4, Zenon DEF SkipFrame, TypeOK
  <2>6. used' \in [Budgets -> Nat]
    BY <1>4, SpendType, Zenon DEF SkipFrame, Budgets
  <2> QED
    BY <1>1, <1>4, <2>3, <2>4, <2>5, <2>6, Zenon DEF SkipFrame, TypeOK, backup
<1> QED
  BY <1>3, <1>4

(* A serve task that caught up or waits, or whose request is lost, keeps   *)
(* the types.                                                              *)
LEMMA IdleType ==
    ASSUME TypeOK, NEW c \in Conns, CatchUp(c) \/ NoopDue(c) \/ RequestLost(c) PROVE TypeOK'
<1>1. srv[c] \in Tasks
  BY DEF TypeOK
<1>2. srv' \in [Conns -> Tasks]
  <2>1. CASE CatchUp(c)
    BY <1>1, <2>1, Zenon DEF CatchUp, TypeOK, Tasks
  <2>2. CASE NoopDue(c)
    BY <1>1, <2>2, Zenon DEF NoopDue, TypeOK, Tasks
  <2>3. CASE RequestLost(c)
    BY <2>3, FreeType DEF RequestLost, TypeOK
  <2> QED
    BY <2>1, <2>2, <2>3
<1>3. down' \in [Conns -> Seq(Frames)]
  <2>1. NoopFrame(c) \in Frames
    BY <1>1 DEF NoopFrame, Frames, Tasks
  <2>2. Sent(c, NoopFrame(c)) \in [Conns -> Seq(Frames)] /\ down \in [Conns -> Seq(Frames)]
    BY <2>1, SentType DEF TypeOK
  <2> QED
    BY <2>2 DEF CatchUp, NoopDue, RequestLost
<1> QED
  BY <1>2, <1>3 DEF CatchUp, NoopDue, RequestLost, TypeOK, primary, backup

(* The back-channel's reader keeps the types.                              *)
LEMMA ReadBackType == ASSUME TypeOK, NEW c \in Conns, ReadBack(c) PROVE TypeOK'
<1> DEFINE frame == Head(up[c])
<1>1. up[c] \in Seq(Reports) /\ up[c] # <<>>
  BY DEF ReadBack, TypeOK
<1>2. frame \in Reports /\ Tail(up[c]) \in Seq(Reports)
  BY <1>1
<1>3. up' \in [Conns -> Seq(Reports)]
  BY <1>2 DEF ReadBack, TypeOK
<1>4. CASE frame.kind = "position"
  <2>1. frame.at \in Watermarks
    BY <1>2, <1>4 DEF Reports
  <2>2. sub' = NoteApplied(sub, gen, frame.at, 0) /\ backed' = backed
    BY <1>4, Zenon DEF ReadBack
  <2>3. sub' \in SubLogs /\ backed' \in [Refs -> BOOLEAN]
    BY <2>1, <2>2, NoteAppliedType DEF TypeOK
  <2> QED
    BY <1>3, <2>3, Zenon DEF ReadBack, TypeOK, backup
<1>5. CASE frame.kind = "refused"
  <2>1. frame.ref \in Refs
    BY <1>2, <1>5 DEF Reports
  <2>2. Forget(sub, frame.ref) \in SubLogs
    BY <2>1, ForgetType, Zenon DEF TypeOK
  <2>3. sub' \in SubLogs
    BY <1>5, <2>2, Zenon DEF ReadBack, TypeOK
  <2>4. backed' \in [Refs -> BOOLEAN]
    BY <1>5, Zenon DEF ReadBack, TypeOK
  <2> QED
    BY <1>3, <2>3, <2>4, Zenon DEF ReadBack, TypeOK, backup
<1> QED
  BY <1>4, <1>5 DEF ReadBack

(* The end of a serve task keeps the types.                                *)
LEMMA TaskEndsType ==
    ASSUME TypeOK, NEW c \in Conns, ServeEnd(c) \/ ServeCut(c) PROVE TypeOK'
<1>1. TaskEnds(c)
  BY DEF ServeEnd, ServeCut
<1>2. sub' \in SubLogs
  BY <1>1, CloseStreamType DEF TaskEnds, TypeOK
<1>3. srv' \in [Conns -> Tasks]
  BY <1>1, EndedType DEF TaskEnds, TypeOK
<1>4. up' \in [Conns -> Seq(Reports)]
  BY <1>1 DEF TaskEnds, TypeOK
<1>5. used' \in [Budgets -> Nat]
  <2>1. CASE Spend("cuts")
    BY <2>1, SpendType DEF Budgets
  <2>2. CASE used' = used
    BY <2>2 DEF TypeOK
  <2> QED
    BY <2>1, <2>2 DEF ServeEnd, ServeCut
<1> QED
  BY <1>1, <1>2, <1>3, <1>4, <1>5 DEF TaskEnds, TypeOK, backup

(* The puller's connect keeps the types.                                   *)
LEMMA ConnectType == ASSUME TypeOK, NEW c \in Conns, Connect(c) PROVE TypeOK'
<1>1. srv' \in [Conns -> Tasks]
  BY FreeType, Zenon DEF Connect, TypeOK, Tasks
<1>2. refused' \in [Refs -> Nat] /\ link' \in Conns \cup {NoConn}
  BY DEF Connect, TypeOK
<1>3. boot' \in BOOLEAN
  BY DEF Connect
<1> QED
  BY <1>1, <1>2, <1>3 DEF Connect, TypeOK, primary

(* What the puller's leaving a stream assigns is well typed.               *)
LEMMA LeaveType ==
    ASSUME TypeOK, NEW c \in Conns, Leave(c)
    PROVE  /\ link' \in Conns \cup {NoConn} /\ boot' \in BOOLEAN
           /\ down' \in [Conns -> Seq(Frames)] /\ srv' \in [Conns -> Tasks]
<1>1. srv' \in [Conns -> Tasks]
  BY FreeType DEF Leave, TypeOK
<1>2. down' \in [Conns -> Seq(Frames)]
  BY DEF Leave, TypeOK
<1> QED
  BY <1>1, <1>2, Zenon DEF Leave

(* The ways a puller leaves its stream keep the type.                      *)
LEMMA StreamLeftType ==
    ASSUME TypeOK, NEW c \in Conns, ReceiveReset(c) \/ StreamEnded(c) \/ Cut(c) PROVE TypeOK'
<1>1. Leave(c)
  BY Zenon DEF ReceiveReset, StreamEnded, Cut
<1>2. W' \in Watermarks
  BY ZeroType, Zenon DEF ReceiveReset, StreamEnded, Cut, TypeOK
<1>3. used' \in [Budgets -> Nat]
  <2>1. CASE Spend("cuts")
    BY <2>1, SpendType DEF Budgets
  <2>2. CASE used' = used
    BY <2>2 DEF TypeOK
  <2> QED
    BY <2>1, <2>2, Zenon DEF ReceiveReset, StreamEnded, Cut
<1> QED
  BY <1>1, <1>2, <1>3, LeaveType, Zenon DEF ReceiveReset, StreamEnded, Cut, TypeOK, primary

(* The first frame a puller has to read, and the rest.                     *)
LEMMA DownType ==
    ASSUME TypeOK, NEW c \in Conns, down[c] # <<>>
    PROVE  Head(down[c]) \in Frames /\ Tail(down[c]) \in Seq(Frames)
BY DEF TypeOK

(* The fields of a data frame.                                             *)
LEMMA DataFrameFields ==
    ASSUME NEW f \in Frames, f.kind = "data"
    PROVE  f \in DataFrames /\ f.ref \in Refs /\ f.at \in Watermarks /\ f.body \in Bodies
BY DEF Frames, DataFrames

(* Reports sent back to a serve task leave channels of reports.            *)
LEMMA SentBackType ==
    ASSUME TypeOK, NEW c \in Conns, NEW q \in Seq(Reports)
    PROVE  SentBack(c, q) \in [Conns -> Seq(Reports)]
BY DEF TypeOK, SentBack

(* The watermark and the report that follow an apply are well typed.       *)
LEMMA ReportedType ==
    ASSUME TypeOK, NEW c \in Conns, NEW at \in Watermarks, NEW told \in Seq(Reports),
           Reported(c, at, told)
    PROVE  W' \in Watermarks /\ up' \in [Conns -> Seq(Reports)]
<1>1. PositionFrame(at) \in Reports
  BY DEF PositionFrame, Reports
<1>2. Append(told, PositionFrame(at)) \in Seq(Reports)
  BY <1>1
<1>3. up' \in [Conns -> Seq(Reports)]
  BY <1>2, SentBackType, Zenon DEF Reported
<1>4. W' \in Watermarks
  BY DEF Reported, TypeOK
<1> QED
  BY <1>3, <1>4

(* `apply_to_store` and the report after it keep the types.                *)
LEMMA ReceiveType == ASSUME TypeOK, NEW c \in Conns, Receive(c) PROVE TypeOK'
<1> DEFINE f == Head(down[c])
           r == f.ref
           Told == W' \in Watermarks /\ up' \in [Conns -> Seq(Reports)]
<1>1. f \in Frames /\ down' \in [Conns -> Seq(Frames)]
  BY DownType DEF Receive, TypeOK
<1>2. f.kind = "data"
  BY Zenon DEF Receive, ApplyPut, ShedPut, ApplyDelete
<1>3. r \in Refs /\ f.at \in Watermarks /\ f.body \in Bodies
  BY <1>1, <1>2, DataFrameFields
<1>4. f.body.inc \in Nat /\ replica[r].inc \in Nat
  BY <1>3, Zenon DEF TypeOK, Bodies
<1>5. Named(f.body.inc) \in SUBSET (Nat \ {0}) /\ Named(replica[r].inc) \in SUBSET (Nat \ {0})
  BY <1>4 DEF Named
<1>6. graves[r] \in SUBSET (Nat \ {0}) /\ <<>> \in Seq(Reports)
  <2>1. graves[r] \in SUBSET (Nat \ {0})
    BY <1>3, Zenon DEF TypeOK
  <2>2. <<>> \in Seq(Reports)
    OBVIOUS
  <2> QED
    BY <2>1, <2>2
<1>7. CASE ApplyPut(c)
  <2>1. Told
    BY <1>3, <1>6, <1>7, ReportedType, Zenon DEF ApplyPut
  <2> DEFINE g == graves[r] \cup (Named(replica[r].inc) \ {f.body.inc})
  <2>2. \/ /\ replica' = [replica EXCEPT ![r] = f.body]
           /\ refused' = [refused EXCEPT ![r] = 0]
           /\ graves' = [graves EXCEPT ![r] = g]
        \/ replica' = replica /\ refused' = refused /\ graves' = graves
    BY <1>7, Zenon DEF ApplyPut
  <2>3. g \in SUBSET (Nat \ {0})
    BY <1>5, <1>6
  <2> HIDE DEF g, f
  <2>5. replica' \in [Refs -> Bodies]
    BY <1>3, <2>2, Zenon DEF TypeOK
  <2>6. refused' \in [Refs -> Nat]
    <3>1. refused \in [Refs -> Nat]
      BY DEF TypeOK
    <3>2. refused' = refused \/ refused' = [refused EXCEPT ![r] = 0]
      BY <2>2
    <3> QED
      BY <3>1, <3>2
  <2>7. graves' \in [Refs -> SUBSET (Nat \ {0})]
    <3>1. graves \in [Refs -> SUBSET (Nat \ {0})]
      BY DEF TypeOK
    <3>2. graves' = graves \/ graves' = [graves EXCEPT ![r] = g]
      BY <2>2
    <3> QED
      BY <2>3, <3>1, <3>2, Zenon
  <2>4. used' \in [Budgets -> Nat]
    BY <1>7, Zenon DEF ApplyPut, TypeOK
  <2> QED
    BY <1>1, <2>1, <2>4, <2>5, <2>6, <2>7 DEF Receive, TypeOK, primary
<1>8. CASE ShedPut(c)
  <2>1. <<[kind |-> "refused", ref |-> r, inc |-> f.body.inc]>> \in Seq(Reports)
    <3>1. [kind |-> "refused", ref |-> r, inc |-> f.body.inc] \in Reports
      BY <1>3, <1>4 DEF Reports
    <3> QED
      BY <3>1
  <2>2. Told
    BY <1>3, <1>8, <2>1, ReportedType, Zenon DEF ShedPut
  <2>3. refused' \in [Refs -> Nat]
    BY <1>4, <1>8, Zenon DEF ShedPut, TypeOK
  <2>4. used' \in [Budgets -> Nat]
    <3>1. CASE Spend("sheds")
      BY <3>1, SpendType DEF Budgets
    <3>2. CASE used' = used
      BY <3>2 DEF TypeOK
    <3> QED
      BY <1>8, <3>1, <3>2 DEF ShedPut
  <2> QED
    BY <1>1, <1>8, <2>2, <2>3, <2>4, Zenon DEF Receive, ShedPut, TypeOK, primary
<1>9. CASE ApplyDelete(c)
  <2>1. Told
    BY <1>3, <1>6, <1>9, ReportedType, Zenon DEF ApplyDelete
  <2>2. replica' \in [Refs -> Bodies] /\ refused' \in [Refs -> Nat]
    BY <1>9, NoBodyType, Zenon DEF ApplyDelete, TypeOK
  <2>3. graves' \in [Refs -> SUBSET (Nat \ {0})]
    <3> DEFINE g == graves[r] \cup Named(IF f.body.inc # 0 THEN f.body.inc
                                                       ELSE replica[r].inc)
    <3>1. g \in SUBSET (Nat \ {0})
      BY <1>5, <1>6
    <3>2. graves' = [graves EXCEPT ![r] = g]
      BY <1>9, Zenon DEF ApplyDelete
    <3> HIDE DEF g
    <3> QED
      BY <3>1, <3>2, Zenon DEF TypeOK
  <2>4. used' \in [Budgets -> Nat]
    BY <1>9, Zenon DEF ApplyDelete, TypeOK
  <2> QED
    BY <1>1, <2>1, <2>2, <2>3, <2>4 DEF Receive, TypeOK, primary
<1> QED
  BY <1>7, <1>8, <1>9 DEF Receive

(* A Noop received keeps the types.                                        *)
LEMMA ReceiveNoopType == ASSUME TypeOK, NEW c \in Conns, ReceiveNoop(c) PROVE TypeOK'
<1> DEFINE f == Head(down[c])
<1>1. f \in Frames /\ down' \in [Conns -> Seq(Frames)]
  BY DownType DEF ReceiveNoop, TypeOK
<1>2. f.at \in Watermarks
  BY <1>1, Zenon DEF ReceiveNoop, Frames, DataFrames
<1>3. W' \in Watermarks
  BY <1>2, Zenon DEF ReceiveNoop, TypeOK
<1>4. up' \in [Conns -> Seq(Reports)]
  <2>1. PositionFrame(f.at) \in Reports
    BY <1>2 DEF PositionFrame, Reports
  <2>2. <<PositionFrame(f.at)>> \in Seq(Reports)
    BY <2>1
  <2> QED
    BY <2>2, SentBackType, Zenon DEF ReceiveNoop, NoopAnswer
<1>5. boot' \in BOOLEAN
  BY DEF ReceiveNoop
<1> QED
  BY <1>1, <1>3, <1>4, <1>5 DEF ReceiveNoop, TypeOK, primary

(* Every step keeps the types.                                             *)
LEMMA TypeNext == ASSUME TypeOK, [Next]_vars PROVE TypeOK'
<1>1. CASE \E r \in Refs : StorePut(r) \/ StoreDelete(r) \/ Bump(r) \/ Reclaim(r)
  BY <1>1, TypeStores
<1>2. ASSUME NEW c \in Conns, ServeStep(c) PROVE TypeOK'
  BY <1>2, AcceptType, ScanType, DrainType, SendType, IdleType, ReadBackType, TaskEndsType
     DEF ServeStep
<1>3. ASSUME NEW c \in Conns, PullStep(c) PROVE TypeOK'
  BY <1>3, ConnectType, ReceiveType, ReceiveNoopType, StreamLeftType DEF PullStep
<1>4. ASSUME NEW c \in Conns, SkipFrame(c) \/ ServeCut(c) \/ Cut(c) PROVE TypeOK'
  BY <1>4, SendType, TaskEndsType, StreamLeftType
<1>5. CASE Reap \/ PrimaryRestart \/ BackupRestart
  BY <1>5, TypeReap, TypeRestarts
<1>6. CASE UNCHANGED vars
  BY <1>6 DEF TypeOK, vars, primary, wire, backup
<1> QED
  BY <1>1, <1>2, <1>3, <1>4, <1>5, <1>6 DEF Next

(* Every variable keeps the shape the code's types give it, whatever       *)
(* breaks and however often.                                               *)
THEOREM TypeCorrect == Spec => []TypeOK
BY TypeInit, TypeNext, PTL DEF Spec

-----------------------------------------------------------------------------
(* The sub-log counts its streams.                                         *)

Streaming == {c \in Conns : Serving(c)}

(* StreamsCounted is inductive once a log not created yet counts none.     *)
StreamInv == sub.streams = Cardinality(Streaming) /\ (~open => sub.streams = 0)

(* The running serve tasks are finitely many, so they can be counted.      *)
LEMMA StreamingFinite == IsFiniteSet(Streaming) /\ Cardinality(Streaming) \in Nat
<1>1. Streaming \subseteq Conns /\ IsFiniteSet(Conns)
  BY FlowAssumption DEF Streaming
<1> QED
  BY <1>1, FS_Subset, FS_CardinalityType

(* A step that neither starts nor ends a serve task, nor touches the count.*)
LEMMA StreamsKept ==
    ASSUME StreamInv, \A c \in Conns : Serving(c)' <=> Serving(c),
           sub'.streams = sub.streams, ~open' => ~open
    PROVE  StreamInv'
<1>1. Streaming' = Streaming
  BY DEF Streaming
<1> QED
  BY <1>1 DEF StreamInv

(* `serving` counts one stream more, for the one task that starts; a pull  *)
(* that is reset counts it and uncounts it.                                *)
LEMMA StreamsAccept ==
    ASSUME TypeOK, StreamInv, NEW c \in Conns, Accept(c) PROVE StreamInv'
<1> DEFINE since == srv[c].since
           cold == since = Zero
           opened == OpenStream(TheLog, NoTime)
           noted == IF cold THEN NoteColdPull(opened) ELSE opened
           from(st, w) == [Free EXCEPT !.st = st, !.w = w]
<1>1. TheLog \in SubLogs /\ sub.streams \in Nat /\ srv \in [Conns -> Tasks]
  BY TheLogType, Zenon DEF TypeOK, SubLogs
<1>2. TheLog.streams = sub.streams
  BY DEF TheLog, NewSub, StreamInv
<1>3. opened \in SubLogs /\ opened.streams = sub.streams + 1
  BY <1>1, <1>2, OpenStreamType, Zenon DEF OpenStream, SubLogs
<1>4. noted \in SubLogs /\ noted.streams = sub.streams + 1
  <2> HIDE DEF opened
  <2> QED
    BY <1>3, NoteColdPullType DEF NoteColdPull, SubLogs
<1>5. c \notin Streaming /\ open' = TRUE
  BY DEF Accept, Streaming, Serving
<1>6. CASE NeedsReset(noted, gen, counter, since)
  <2>1. sub' = CloseStream(noted) /\ srv' = [srv EXCEPT ![c] = EndedAt(c, link = c)]
    BY <1>6 DEF Accept
  <2>2. sub'.streams = sub.streams
    <3> HIDE DEF noted
    <3> QED
      BY <1>1, <1>4, <2>1 DEF CloseStream, SubLogs
  <2>3. Streaming' = Streaming
    BY <1>1, <1>5, <2>1 DEF Streaming, Serving, EndedAt, Free
  <2> QED
    BY <1>5, <2>2, <2>3 DEF StreamInv
<1>7. CASE ~NeedsReset(noted, gen, counter, since)
  <2>1. sub'.streams = sub.streams + 1
    <3>1. sub' = noted \/ sub' = NoteScanned(noted, counter)
      BY <1>7 DEF Accept
    <3> HIDE DEF noted
    <3> QED
      BY <1>4, <3>1 DEF NoteScanned, SubLogs
  <2>2. srv'[c].st \in {"keys", "drain"} /\ \A d \in Conns : d # c => srv'[d] = srv[d]
    BY <1>1, <1>7, Zenon DEF Accept, Free
  <2>3. Streaming' = Streaming \cup {c}
    BY <2>2 DEF Streaming, Serving
  <2>4. Cardinality(Streaming \cup {c}) = Cardinality(Streaming) + 1
    BY <1>5, StreamingFinite, FS_AddElement
  <2> QED
    BY <1>5, <2>1, <2>3, <2>4 DEF StreamInv
<1> QED
  BY <1>6, <1>7

(* The drop of `ServeGuard` counts one stream less, for the one task that  *)
(* ends; the count was not 0, so it does not saturate.                     *)
LEMMA StreamsTaskEnds ==
    ASSUME TypeOK, StreamInv, NEW c \in Conns, ServeEnd(c) \/ ServeCut(c) PROVE StreamInv'
<1>1. TaskEnds(c) /\ c \in Streaming
  BY DEF ServeEnd, ServeCut, TaskEnds, Streaming
<1>2. srv \in [Conns -> Tasks] /\ sub \in SubLogs /\ open' = open
  BY <1>1 DEF TypeOK, TaskEnds
<1>3. Streaming' = Streaming \ {c}
  BY <1>1, <1>2 DEF TaskEnds, Streaming, Serving, EndedAt, Free
<1>4. Cardinality(Streaming \ {c}) = Cardinality(Streaming) - 1
  BY <1>1, StreamingFinite, FS_RemoveElement, Zenon
<1>5. Cardinality(Streaming) # 0
  BY <1>1, StreamingFinite, FS_EmptySet
<1>6. sub'.streams = sub.streams - 1 /\ sub.streams > 0
  <2>1. sub.streams \in Nat /\ sub.streams > 0
    BY <1>5, StreamingFinite DEF StreamInv
  <2> QED
    BY <1>1, <1>2, <2>1 DEF TaskEnds, CloseStream, SubLogs
<1>7. open
  BY <1>6 DEF StreamInv
<1> QED
  BY <1>2, <1>3, <1>4, <1>6, <1>7 DEF StreamInv

(* The writes: a log created by a write counts no stream.                  *)
LEMMA StreamsStores ==
    ASSUME TypeOK, StreamInv, NEW r \in Refs,
           StorePut(r) \/ StoreDelete(r) \/ Bump(r) \/ Reclaim(r)
    PROVE  StreamInv'
<1>1. srv' = srv
  BY Zenon DEF StorePut, StoreDelete, Bump, Reclaim, wire
<1>2. \A c \in Conns : Serving(c)' <=> Serving(c)
  BY <1>1 DEF Serving
<1>3. sub'.streams = sub.streams /\ (~open' => ~open)
  <2>1. CASE Bump(r)
    <3>1. TheLog \in SubLogs /\ TheLog.streams = sub.streams
      BY TheLogType DEF TheLog, NewSub, StreamInv
    <3>2. sub'.streams = TheLog.streams
      BY <2>1, <3>1 DEF Bump, Put, SubLogs
    <3> QED
      BY <2>1, <3>1, <3>2, Zenon DEF Bump
  <2>2. CASE StorePut(r) \/ StoreDelete(r) \/ Reclaim(r)
    <3>1. sub' = sub /\ open' = open
      BY <2>2, Zenon DEF StorePut, StoreDelete, Reclaim
    <3> QED
      BY <3>1
  <2> QED
    BY <2>1, <2>2
<1> QED
  BY <1>2, <1>3, StreamsKept

(* `reap` drops a peer's log only when no stream is counted, hence none    *)
(* runs.                                                                   *)
LEMMA StreamsReap == ASSUME TypeOK, StreamInv, Reap PROVE StreamInv'
<1>1. \A c \in Conns : Serving(c)' <=> Serving(c)
  BY DEF Reap, wire, Serving
<1>2. Streaming' = Streaming
  BY <1>1 DEF Streaming
<1>3. CASE sub.streams = 0 /\ sub' = NewSub(0)
  <2>1. sub'.streams = 0
    BY <1>3 DEF NewSub
  <2> QED
    BY <1>2, <1>3, <2>1 DEF StreamInv
<1>4. CASE sub' = ReapSub(sub, gen) /\ open' = open
  <2>1. sub'.streams = sub.streams
    BY <1>4 DEF ReapSub, SubLogs, TypeOK
  <2> QED
    BY <1>2, <1>4, <2>1 DEF StreamInv
<1> QED
  BY <1>3, <1>4, Zenon DEF Reap

(* The steps of a running task: it runs on, and the count stands.          *)
LEMMA StreamsRunning ==
    ASSUME TypeOK, StreamInv, NEW c \in Conns,
           \/ ScanKeys(c) \/ ScanRead(c) \/ Drain(c) \/ DrainRead(c) \/ SendFrame(c)
           \/ SkipFrame(c) \/ CatchUp(c) \/ NoopDue(c)
    PROVE  StreamInv'
<1> DEFINE Running == {"keys", "scan", "drain", "read", "send", "caught", "wait"}
<1>1. srv \in [Conns -> Tasks] /\ sub \in SubLogs
  BY DEF TypeOK
<1>2. srv[c].st \in Running
  BY Zenon DEF ScanKeys, ScanRead, Drain, DrainRead, SendFrame, SkipFrame, CatchUp, NoopDue
<1>3. \A d \in Conns : d # c => srv'[d] = srv[d]
  <2>1. CASE ScanKeys(c) \/ ScanRead(c) \/ Drain(c) \/ DrainRead(c)
    BY <1>1, <2>1, Zenon DEF ScanKeys, ScanRead, Drain, DrainRead
  <2>2. CASE SendFrame(c) \/ SkipFrame(c)
    BY <1>1, <2>2, Zenon DEF SendFrame, SkipFrame, PastFrame
  <2>3. CASE CatchUp(c) \/ NoopDue(c)
    BY <1>1, <2>3, Zenon DEF CatchUp, NoopDue
  <2> QED
    BY <2>1, <2>2, <2>3, Zenon
<1>4. srv'[c].st \in Running
  <2>1. CASE ScanKeys(c) \/ Drain(c)
    <3>1. CASE ScanKeys(c)
      BY <1>1, <3>1 DEF ScanKeys, Tasks
    <3>2. CASE Drain(c)
      BY <1>1, <3>2 DEF Drain, Tasks
    <3> QED
      BY <2>1, <3>1, <3>2
  <2>2. CASE ScanRead(c)
    <3>1. PICK r \in srv[c].keys :
             LET left == srv[c].keys \ {r}
                 out == IF body[r] = NoBody THEN srv[c].out
                        ELSE Append(srv[c].out, DataFrame(srv[c].w, "put", r, body[r]))
             IN srv' = [srv EXCEPT ![c].keys = left,
                                   ![c].out = out,
                                   ![c].st = IF left # {} THEN "scan"
                                             ELSE IF out = <<>> THEN "drain" ELSE "send"]
      BY <2>2, Zenon DEF ScanRead
    <3>2. srv'[c].st \in {"scan", "drain", "send"}
      BY <1>1, <3>1 DEF Tasks
    <3> QED
      BY <3>2
  <2>5. CASE DrainRead(c)
    <3>1. PICK d \in srv[c].due :
             LET at == Wm(gen, d.counter)
                 gone == body[d.ref] = NoBody
                 skip == d.op = "put" /\ gone /\ sub.entry[d.ref].op = "delete"
                 frame == IF d.op = "put" /\ ~gone
                          THEN DataFrame(at, "put", d.ref, body[d.ref])
                          ELSE DataFrame(at, "delete", d.ref, [NoBody EXCEPT !.inc = d.inc])
                 left == srv[c].due \ {d}
                 out == IF skip THEN srv[c].out ELSE Append(srv[c].out, frame)
             IN srv' = [srv EXCEPT ![c].due = left,
                                   ![c].out = out,
                                   ![c].next = IF Len(out) = Batch THEN "drain" ELSE "caught",
                                   ![c].st = IF left # {} THEN "read"
                                             ELSE IF out = <<>> THEN "caught" ELSE "send"]
      BY <2>5, Zenon DEF DrainRead
    <3>2. srv'[c].st \in {"read", "caught", "send"}
      BY <1>1, <3>1 DEF Tasks
    <3> QED
      BY <3>2
  <2>3. CASE SendFrame(c) \/ SkipFrame(c)
    <3>1. PastFrame(c) /\ srv[c].next \in {"drain", "caught"}
      BY <1>1, <2>3, Zenon DEF SendFrame, SkipFrame, Tasks
    <3> QED
      BY <1>1, <3>1, Zenon DEF PastFrame, Tasks
  <2>4. CASE CatchUp(c) \/ NoopDue(c)
    BY <1>1, <2>4 DEF CatchUp, NoopDue, Tasks
  <2> QED
    BY <2>1, <2>2, <2>3, <2>4, <2>5, Zenon
<1>5. \A d \in Conns : Serving(d)' <=> Serving(d)
  BY <1>2, <1>3, <1>4, Zenon DEF Serving
<1>6. sub'.streams = sub.streams /\ open' = open
  <2>1. CASE Drain(c)
    BY <1>1, <2>1 DEF Drain, MarkSent, SubLogs
  <2>2. CASE SkipFrame(c)
    BY <1>1, <2>2, Zenon DEF SkipFrame, Put, SubLogs
  <2>3. CASE \/ ScanKeys(c) \/ ScanRead(c) \/ DrainRead(c) \/ SendFrame(c)
             \/ CatchUp(c) \/ NoopDue(c)
    BY <2>3, Zenon DEF ScanKeys, ScanRead, DrainRead, SendFrame, CatchUp, NoopDue, primary
  <2> QED
    BY <2>1, <2>2, <2>3, Zenon
<1> QED
  BY <1>5, <1>6, StreamsKept

(* What comes back on a stream touches no count.                           *)
LEMMA StreamsReadBack ==
    ASSUME TypeOK, StreamInv, NEW c \in Conns, ReadBack(c) PROVE StreamInv'
<1>1. \A d \in Conns : Serving(d)' <=> Serving(d)
  BY DEF ReadBack, Serving
<1>2. sub'.streams = sub.streams /\ open' = open
  BY Zenon DEF ReadBack, NoteApplied, Forget, SubLogs, TypeOK
<1> QED
  BY <1>1, <1>2, StreamsKept

(* The puller's steps: they hand out and free slots no task runs in.       *)
LEMMA StreamsPull ==
    ASSUME TypeOK, StreamInv, NEW c \in Conns, PullStep(c) \/ Cut(c) \/ RequestLost(c)
    PROVE  StreamInv'
<1>1. srv \in [Conns -> Tasks] /\ UNCHANGED <<sub, open>>
  BY DEF TypeOK, PullStep, Connect, Receive, ReceiveNoop, ReceiveReset, StreamEnded, Cut,
         RequestLost, primary
<1>2. CASE Connect(c)
  <2>1. srv[c].st = "free" /\ srv'[c].st = "opening" /\ \A d \in Conns : d # c => srv'[d] = srv[d]
    BY <1>1, <1>2 DEF Connect, Free
  <2> QED
    BY <1>1, <2>1, StreamsKept DEF Serving
<1>3. CASE RequestLost(c)
  <2>1. srv[c].st = "opening" /\ srv'[c].st = "free" /\ \A d \in Conns : d # c => srv'[d] = srv[d]
    BY <1>1, <1>3 DEF RequestLost, Free
  <2> QED
    BY <1>1, <2>1, StreamsKept DEF Serving
<1>4. CASE Receive(c) \/ ReceiveNoop(c)
  BY <1>1, <1>4, StreamsKept DEF Receive, ReceiveNoop, Serving
<1>5. CASE ReceiveReset(c) \/ StreamEnded(c) \/ Cut(c)
  <2>1. Leave(c)
    BY <1>5 DEF ReceiveReset, StreamEnded, Cut
  <2>2. \A d \in Conns : srv'[d] = srv[d] \/ (srv[d].st = "ended" /\ srv'[d].st = "free")
    BY <1>1, <2>1 DEF Leave, Free
  <2> QED
    BY <1>1, <2>2, StreamsKept DEF Serving
<1> QED
  BY <1>2, <1>3, <1>4, <1>5 DEF PullStep

(* A primary's restart ends every task with the log it was counted in; a   *)
(* backup's ends none at the primary.                                      *)
LEMMA StreamsRestarts ==
    ASSUME TypeOK, StreamInv, PrimaryRestart \/ BackupRestart PROVE StreamInv'
<1>1. CASE PrimaryRestart
  <2>1. \A c \in Conns : srv'[c].st \in {"ended", "free"}
    BY <1>1 DEF PrimaryRestart, EndedAt, Free
  <2>2. Streaming' = {}
    BY <2>1 DEF Streaming, Serving
  <2>3. sub'.streams = 0
    BY <1>1 DEF PrimaryRestart, NewSub
  <2> QED
    BY <2>2, <2>3, FS_EmptySet DEF StreamInv
<1>2. CASE BackupRestart
  <2>1. \A d \in Conns : srv'[d] = srv[d] \/ (srv[d].st = "ended" /\ srv'[d].st = "free")
    BY <1>2, Zenon DEF BackupRestart, Free
  <2>2. UNCHANGED <<sub, open>>
    BY <1>2, Zenon DEF BackupRestart, primary
  <2> QED
    BY <2>1, <2>2, StreamsKept DEF Serving
<1> QED
  BY <1>1, <1>2

(* Initially no task runs and none is counted.                             *)
LEMMA StreamsInit == Init => StreamInv
<1> SUFFICES ASSUME Init PROVE StreamInv
  OBVIOUS
<1>1. Streaming = {}
  BY DEF Init, Streaming, Serving, Free
<1>2. sub.streams = 0
  BY DEF Init, NewSub
<1> QED
  BY <1>1, <1>2, FS_EmptySet DEF StreamInv

(* Every step keeps the count exact.                                       *)
LEMMA StreamsNext == ASSUME TypeOK, StreamInv, [Next]_vars PROVE StreamInv'
<1>1. ASSUME NEW r \in Refs, StorePut(r) \/ StoreDelete(r) \/ Bump(r) \/ Reclaim(r)
      PROVE  StreamInv'
  BY <1>1, StreamsStores
<1>2. ASSUME NEW c \in Conns, ServeStep(c) \/ SkipFrame(c) \/ ServeCut(c) PROVE StreamInv'
  BY <1>2, StreamsAccept, StreamsRunning, StreamsReadBack, StreamsTaskEnds, StreamsPull
     DEF ServeStep
<1>3. ASSUME NEW c \in Conns, PullStep(c) \/ Cut(c) PROVE StreamInv'
  BY <1>3, StreamsPull
<1>4. CASE Reap \/ PrimaryRestart \/ BackupRestart
  BY <1>4, StreamsReap, StreamsRestarts
<1>5. CASE UNCHANGED vars
  BY <1>5, StreamsKept, Zenon DEF vars, primary, wire, Serving
<1> QED
  BY <1>1, <1>2, <1>3, <1>4, <1>5 DEF Next

(* The sub-log's stream count is the number of serve tasks running,        *)
(* however streams overlap, break and are replaced: the count the          *)
(* dead-peer reap and the liveness of a flow are decided on never drifts.  *)
THEOREM StreamCountExact == Spec => []StreamsCounted
<1>1. Init => TypeOK /\ StreamInv
  BY TypeInit, StreamsInit
<1>2. TypeOK /\ StreamInv /\ [Next]_vars => TypeOK' /\ StreamInv'
  BY TypeNext, StreamsNext
<1>3. StreamInv => StreamsCounted
  BY DEF StreamInv, StreamsCounted, Streaming
<1> QED
  BY <1>1, <1>2, <1>3, PTL DEF Spec

=============================================================================
