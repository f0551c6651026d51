------------------------------- MODULE SubLog -------------------------------
(***************************************************************************)
(* One compacted ref-log of a (peer, partition): the pure operations of    *)
(* `SubLog` in b2bua/src/repl/changelog.rs and its submodules, each as an  *)
(* operator from the sub-log before to the sub-log after.                  *)
(*                                                                         *)
(* The code keeps `entries : counter -> ref` beside `by_ref : ref ->       *)
(* RefState`.  Here the second map alone is the state; that the first is   *)
(* its inverse is the invariant that no two refs share a counter.          *)
(*                                                                         *)
(* `None` is written as 0 for a counter and for an incarnation (both start *)
(* at 1), and as a record whose field `some` is FALSE elsewhere.           *)
(***************************************************************************)
EXTENDS Integers, FiniteSets

CONSTANTS Refs,    \* the call refs
          Batch    \* the most entries one drain snapshots (`BATCH`)

ASSUME BatchAssumption == Batch \in Nat \ {0}

-----------------------------------------------------------------------------
(* A watermark (gen, counter), ordered lexicographically.                  *)

Wm(g, c) == [gen |-> g, counter |-> c]

Zero == Wm(0, 0)

WmLt(a, b) == \/ a.gen < b.gen
              \/ a.gen = b.gen /\ a.counter < b.counter

WmLeq(a, b) == a = b \/ WmLt(a, b)

-----------------------------------------------------------------------------
(* The state of a sub-log.                                                 *)

Ops == {"put", "delete"}

NoEntry == [op |-> "none", counter |-> 0, sent |-> 0, written |-> 0,
            answered |-> FALSE, inc |-> 0]

NoClaim == [some |-> FALSE, at |-> Zero, made |-> 0]

NoReport == [some |-> FALSE, id |-> 0, at |-> Zero]

NoTime == -1

NewSub(counter) ==
    [entry   |-> [r \in Refs |-> NoEntry],
     floor   |-> counter,
     opened  |-> counter,
     head    |-> 0,
     applied |-> NoClaim,
     streams |-> 0,
     acked   |-> Zero,
     unbound |-> NoReport,
     started |-> NoTime]

Watermarks == [gen : Nat, counter : Nat]

Entries == [op : Ops \cup {"none"}, counter : Nat, sent : Nat, written : Nat,
            answered : BOOLEAN, inc : Nat]

SubLogs == [entry   : [Refs -> Entries],
            floor   : Nat,
            opened  : Nat,
            head    : Nat,
            applied : [some : BOOLEAN, at : Watermarks, made : Nat],
            streams : Nat,
            acked   : Watermarks,
            unbound : [some : BOOLEAN, id : Nat, at : Watermarks],
            started : Nat \cup {NoTime}]

Logged(s) == {r \in Refs : s.entry[r].op # "none"}

-----------------------------------------------------------------------------
(* Variants of the operations below with a mistake in them, which the      *)
(* properties must catch.  Here: the first counter sent outlives the call; *)
(* the delete of an entry not known sent is dropped.                       *)
PutInheriting(s, c, r, op, now, answered, inc) ==
    LET prev == s.entry[r]
    IN [s EXCEPT
          !.entry[r] = [op |-> op, counter |-> c, written |-> now, inc |-> inc,
                        sent |-> IF prev.sent <= s.acked.counter THEN prev.sent ELSE 0,
                        answered |-> answered],
          !.head = c]

PutDroppingUnsent(s, c, r, op, now, answered, inc) ==
    LET prev == s.entry[r]
        keep == (op = "delete" \/ prev.op = "put") /\ prev.sent <= s.acked.counter
    IN [s EXCEPT
          !.entry[r] = IF op = "delete" /\ prev.op = "put" /\ prev.sent = 0
                       THEN NoEntry
                       ELSE [op |-> op, counter |-> c, written |-> now, inc |-> inc,
                             sent |-> IF keep THEN prev.sent ELSE 0,
                             answered |-> answered],
          !.head = c]

(* Move r to counter c, dropping its earlier slot.  The first counter the  *)
(* ref was sent at survives only where the peer applied it, and a put over *)
(* a delete starts afresh.                                                 *)
Put(s, c, r, op, now, answered, inc) ==
    LET prev == s.entry[r]
        keep == /\ op = "delete" \/ prev.op = "put"
                /\ prev.sent <= s.acked.counter
    IN [s EXCEPT
          !.entry[r] =
             [op |-> op, counter |-> c, written |-> now, inc |-> inc,
              sent |-> IF keep THEN prev.sent ELSE 0,
              answered |-> \/ answered
                           \/ op = "delete" /\ prev.op = "delete" /\ prev.answered],
          !.head = IF c > s.head THEN c ELSE s.head]

Forget(s, r) == [s EXCEPT !.entry[r] = NoEntry]

(* The entries above `since`, all of them when the puller is cold.         *)
DueRefs(s, since, cold) ==
    {r \in Logged(s) : cold \/ s.entry[r].counter > since}

(* The Batch lowest of them.                                               *)
DueBatch(s, since, cold) ==
    LET due == DueRefs(s, since, cold)
        below(r) == {q \in due : s.entry[q].counter < s.entry[r].counter}
    IN {r \in due : Cardinality(below(r)) < Batch}

MarkSent(s, refs) ==
    [s EXCEPT !.entry =
        [r \in Refs |-> IF r \in refs /\ s.entry[r].sent = 0
                        THEN [s.entry[r] EXCEPT !.sent = s.entry[r].counter]
                        ELSE s.entry[r]]]

(* A bootstrap scan read at counter w carries every entry at or below it.  *)
NoteScanned(s, w) ==
    [s EXCEPT !.entry =
        [r \in Refs |-> IF /\ r \in Logged(s) /\ s.entry[r].counter <= w
                           /\ s.entry[r].sent = 0
                        THEN [s.entry[r] EXCEPT !.sent = w]
                        ELSE s.entry[r]]]

-----------------------------------------------------------------------------
(* The flow that streams the sub-log.                                      *)

OpenStream(s, now) ==
    [s EXCEPT !.streams = @ + 1,
              !.applied = NoClaim,
              !.started = IF @ = NoTime THEN now ELSE @]

(* Variant: any stream's end is the last one's.                            *)
CloseEveryStream(s) == [s EXCEPT !.streams = 0, !.applied = NoClaim]

CloseStream(s) ==
    [s EXCEPT !.streams = IF @ > 0 THEN @ - 1 ELSE 0,
              !.applied = IF s.streams <= 1 THEN NoClaim ELSE @]

(* Variant: a pull from nothing is taken for a warm one.                   *)
NoteColdPullIgnored(s) == s

(* A cold pull states that its process holds nothing.                      *)
NoteColdPull(s) == [s EXCEPT !.acked = Zero]

(* A report of the identity whose reports count, under incarnation gen.    *)
NoteApplied(s, gen, at, now) ==
    [s EXCEPT !.applied = [some |-> TRUE, at |-> at, made |-> now],
              !.started = NoTime,
              !.acked = IF at.gen = gen /\ WmLt(@, at) THEN at ELSE @]

(* The deletes the peer reported applying go, and the floor rises.         *)
Reapable(s, gen) ==
    {r \in Logged(s) : /\ s.acked.gen = gen
                       /\ s.entry[r].op = "delete"
                       /\ s.entry[r].counter <= s.acked.counter}

ReapSub(s, gen) ==
    LET gone == Reapable(s, gen)
        dropped == {s.entry[r].counter : r \in gone} \cup {s.floor}
    IN [s EXCEPT
          !.entry = [r \in Refs |-> IF r \in gone THEN NoEntry ELSE s.entry[r]],
          !.floor = CHOOSE c \in dropped : \A d \in dropped : d <= c]

-----------------------------------------------------------------------------
(* What the sub-log says of the peer, under incarnation gen.               *)

(* The peer holds some version of r's call.                                *)
AppliedAny(s, gen, r) ==
    /\ s.acked.gen = gen
    /\ IF r \in Logged(s)
       THEN s.entry[r].sent # 0 /\ s.entry[r].sent <= s.acked.counter
       ELSE s.opened <= s.acked.counter

(* The peer applied the entry r stands at.                                 *)
HasApplied(s, gen, r) ==
    r \in Logged(s) /\ WmLeq(Wm(gen, s.entry[r].counter), s.acked)

(* The connected peer, by its last claim, applied all that was ever logged. *)
CaughtUp(s, gen, now, ttl) ==
    /\ s.streams > 0
    /\ s.applied.some
    /\ WmLeq(Wm(gen, s.head), s.applied.at)
    /\ now - s.applied.made <= ttl

(* Variant: a pull below the floor resumes.                                *)
NeedsResetNoFloor(s, gen, counter, since) ==
    \/ since.gen > gen
    \/ since.gen = gen /\ since.counter > counter

(* A pull resuming from `since` must bootstrap again.                      *)
NeedsReset(s, gen, counter, since) ==
    \/ since.gen > gen
    \/ since.gen = gen /\ (since.counter > counter \/ since.counter < s.floor)

=============================================================================
