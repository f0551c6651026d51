---------------------------- MODULE Outbox_proofs ----------------------------
(* Proofs about Outbox, for any number of entries, writes, faults and drops  *)
(* of the flow: the outbox implements OrderedOutbox, an entry leaves on its  *)
(* own release, and a release that returns leaves nothing behind.            *)
EXTENDS Outbox, SequenceTheorems, TLAPS

EntryRecs == [id : Nat, target : Nat]

TurnRecs == [at : {"idle", "direct", "drain", "release", "send", "released"}, id : Nat]

DrainerRecs ==
    [at : {"none", "head", "wait", "lock", "send", "closing", "dying"},
     id : Nat, target : Nat, why : {"none", "AtOnce", "Applied", "BackupLost", "Capped"}]

\* The counters, the records of the two tasks and the entries.
Typed ==
    /\ entries \in Seq(EntryRecs) /\ drainer \in DrainerRecs /\ turn \in TurnRecs
    /\ pushed \in Nat /\ expired \in Nat /\ faults \in Nat
    /\ written \in Nat /\ reached \in 0..written /\ applied \in 0..reached
    /\ out \in Seq(Nat)

\* Who may be sending: the outbox in the map has its drainer, entries wait only
\* in one that is, the lock is its holder's, and a turn that sends an entry
\* itself at the push has no outbox.
Locked ==
    /\ open <=> drainer.at # "none"
    /\ entries # <<>> => open
    /\ sending = "drainer" <=> drainer.at = "send"
    /\ sending = "turn" <=> turn.at = "send"
    /\ turn.at = "direct" => ~open

\* The entry the drainer is about to send, or sends, is released.
Earned ==
    drainer.at \in {"lock", "send"} =>
        /\ drainer.why = "AtOnce" => drainer.target = 0
        /\ drainer.why = "Applied" => reached >= drainer.target
        /\ drainer.why = "Capped" => drainer.id <= expired

\* A release that returned left nothing.
Left == turn.at = "released" => entries = <<>> /\ drainer.at # "send"

OutboxInv == Typed /\ Locked /\ Earned /\ Left

-----------------------------------------------------------------------------
(* Sequences of entries and of their numbers. *)

\* The numbers of the entries, as pops and pushes change them.
LEMMA IdsFacts ==
    ASSUME NEW s \in Seq(EntryRecs)
    PROVE  /\ Ids(s) \in Seq(Nat) /\ Len(Ids(s)) = Len(s)
           /\ \A e \in EntryRecs : Ids(Append(s, e)) = Append(Ids(s), e.id)
           /\ s # <<>> => /\ Head(s) \in EntryRecs /\ Tail(s) \in Seq(EntryRecs)
                          /\ <<Head(s).id>> \o Ids(Tail(s)) = Ids(s)
           /\ Ids(<<>>) = <<>>
<1>0. /\ Len(s) \in Nat /\ DOMAIN s = 1..Len(s)
      /\ \A i \in 1..Len(s) : s[i] \in EntryRecs
  OBVIOUS
<1>1. /\ Ids(s) \in Seq(Nat) /\ Len(Ids(s)) = Len(s)
      /\ \A i \in 1..Len(s) : Ids(s)[i] = s[i].id
  <2>1. Ids(s) = [i \in 1..Len(s) |-> s[i].id]
    BY <1>0 DEF Ids
  <2>2. \A i \in 1..Len(s) : s[i].id \in Nat
    BY <1>0 DEF EntryRecs
  <2> QED BY <1>0, <2>1, <2>2
<1>2. ASSUME NEW e \in EntryRecs PROVE Ids(Append(s, e)) = Append(Ids(s), e.id)
  BY <1>1 DEF Ids, EntryRecs
<1>3. ASSUME s # <<>>
      PROVE  /\ Head(s) \in EntryRecs /\ Tail(s) \in Seq(EntryRecs)
             /\ <<Head(s).id>> \o Ids(Tail(s)) = Ids(s)
  <2>1. /\ Head(s) = s[1] /\ Head(s) \in EntryRecs /\ Tail(s) \in Seq(EntryRecs)
        /\ Len(s) >= 1 /\ Len(Tail(s)) = Len(s) - 1
        /\ \A i \in 1..Len(s) - 1 : Tail(s)[i] = s[i + 1]
    BY <1>3
  <2> DEFINE ids == Ids(Tail(s))
  <2>2. ids = [i \in 1..Len(s) - 1 |-> s[i + 1].id]
    BY <1>0, <2>1 DEF Ids
  <2>3. \A i \in 1..Len(s) - 1 : s[i + 1].id \in Nat
    BY <1>0 DEF EntryRecs
  <2>4. ids \in Seq(Nat) /\ Len(ids) = Len(s) - 1
        /\ \A i \in 1..Len(s) - 1 : ids[i] = s[i + 1].id
    <3>1. \A i \in 1..Len(s) - 1 : ids[i] = s[i + 1].id
      BY <2>2
    <3>2. DOMAIN ids = 1..Len(s) - 1 /\ Len(s) - 1 \in Nat
      BY <1>0, <2>1, <2>2
    <3>3. ids \in [1..Len(s) - 1 -> Nat]
      BY <2>2, <2>3
    <3> HIDE DEF ids
    <3>4. ids \in Seq(Nat) /\ Len(ids) = Len(s) - 1
      BY <3>2, <3>3
    <3> QED BY <3>1, <3>4
  <2>5. Head(s).id \in Nat /\ Head(s).id = s[1].id
    BY <2>1 DEF EntryRecs
  <2> DEFINE h == Head(s).id
             all == Ids(s)
  <2>6. /\ all \in Seq(Nat) /\ Len(all) = Len(s) /\ all[1] = h
        /\ \A i \in 1..Len(s) - 1 : all[i + 1] = ids[i]
    BY <1>0, <1>1, <2>1, <2>4, <2>5
  <2> HIDE DEF ids, h, all
  <2>7. <<h>> \o ids = all
    BY <1>0, <2>1, <2>4, <2>5, <2>6
  <2> QED BY <2>1, <2>7 DEF ids, h, all
<1>4. Ids(<<>>) = <<>>
  BY DEF Ids
<1> QED BY <1>1, <1>2, <1>3, <1>4

\* One number ahead of a sequence of them, or none.
LEMMA AheadFacts ==
    ASSUME NEW s \in Seq(Nat), NEW x \in Nat
    PROVE  /\ <<>> \o s = s
           /\ <<x>> \o s \in Seq(Nat) /\ <<x>> \o s # <<>>
           /\ Head(<<x>> \o s) = x /\ Tail(<<x>> \o s) = s
           /\ \A y \in Nat : <<x>> \o Append(s, y) = Append(<<x>> \o s, y)
           /\ 1 <= Len(<<x>> \o s) /\ SubSeq(<<x>> \o s, 1, 1) = <<x>>
           /\ 0 <= Len(s) /\ SubSeq(s, 1, 0) = <<>>
<1>1. <<>> \o s = s
  OBVIOUS
<1>2. <<x>> \o s \in Seq(Nat) /\ <<x>> \o s # <<>>
  OBVIOUS
<1>3. Head(<<x>> \o s) = x
  OBVIOUS
<1>4. Tail(<<x>> \o s) = s
  OBVIOUS
<1>5. ASSUME NEW y \in Nat PROVE <<x>> \o Append(s, y) = Append(<<x>> \o s, y)
  OBVIOUS
<1>6. 1 <= Len(<<x>> \o s) /\ SubSeq(<<x>> \o s, 1, 1) = <<x>>
  <2> DEFINE w == <<x>>
  <2>1. w \in Seq(Nat) /\ Len(w) = 1 /\ 1 \in 1..Len(w)
    OBVIOUS
  <2>2. 1 <= Len(w \o s)
    OBVIOUS
  <2> HIDE DEF w
  <2>3. SubSeq(w \o s, 1, 1) = SubSeq(w, 1, 1)
    BY <2>1, SubSeqOfConcat1
  <2>4. SubSeq(w, 1, 1) = w
    BY <2>1, SubSeqFull
  <2> QED BY <2>2, <2>3, <2>4 DEF w
<1>7. 0 <= Len(s) /\ SubSeq(s, 1, 0) = <<>>
  OBVIOUS
<1> QED BY <1>1, <1>2, <1>3, <1>4, <1>5, <1>6, <1>7

-----------------------------------------------------------------------------
(* The invariant. *)

\* At the start no outbox is in the map and no task sends.
LEMMA InvInit == OutboxInit => OutboxInv
<1> SUFFICES ASSUME OutboxInit PROVE OutboxInv
  OBVIOUS
<1>1. Typed
  BY DEF OutboxInit, Typed, NoDrainer, Idle, TurnRecs, DrainerRecs, EntryRecs
<1> QED BY <1>1 DEF OutboxInit, OutboxInv, Locked, Earned, Left, NoDrainer, Idle

\* Every step keeps the counters, records and entries typed.
LEMMA TypedStep == OutboxInv /\ [OutboxNext]_vars => Typed'
<1> SUFFICES ASSUME OutboxInv, [OutboxNext]_vars PROVE Typed'
  OBVIOUS
<1> USE DEF OutboxInv, Typed
<1>t. Idle \in TurnRecs /\ NoDrainer \in DrainerRecs
  BY DEF Idle, TurnRecs, NoDrainer, DrainerRecs
<1>h. [NoDrainer EXCEPT !.at = "head"] \in DrainerRecs
  BY DEF NoDrainer, DrainerRecs
<1>n. ASSUME ReleaseNext
      PROVE  turn' \in TurnRecs /\ entries' \in Seq(EntryRecs)
  <2>1. CASE entries # <<>>
    <3>1. Head(entries).id \in Nat /\ Tail(entries) \in Seq(EntryRecs)
      BY <2>1, IdsFacts DEF EntryRecs
    <3>2. /\ turn' = [at |-> "send", id |-> Head(entries).id]
          /\ entries' = Tail(entries)
      BY <1>n, <2>1 DEF ReleaseNext
    <3>3. turn' \in TurnRecs
      BY <3>1, <3>2 DEF TurnRecs
    <3> QED BY <3>1, <3>2, <3>3
  <2>2. CASE entries = <<>>
    BY <1>n, <2>2 DEF ReleaseNext, TurnRecs
  <2> QED BY <2>1, <2>2
<1>1. CASE Write
  BY <1>1 DEF Write
<1>2. CASE Push
  <2>1. HoldTarget \in Nat /\ pushed + 1 \in Nat
    BY DEF HoldTarget
  <2>2. Entry(pushed + 1, HoldTarget) \in EntryRecs
    BY <2>1 DEF Entry, EntryRecs
  <2>3. CASE applied >= HoldTarget /\ ~open
    <3>1. turn' = [at |-> "direct", id |-> pushed + 1]
      BY <1>2, <2>3 DEF Push
    <3>2. turn' \in TurnRecs
      BY <2>1, <3>1 DEF TurnRecs
    <3> QED BY <1>2, <2>1, <2>3, <3>2 DEF Push, flow
  <2>4. CASE ~(applied >= HoldTarget /\ ~open)
    <3> DEFINE e == Entry(pushed + 1, HoldTarget)
    <3>0. entries' = Append(entries, e)
      BY <1>2, <2>4 DEF Push
    <3> HIDE DEF e
    <3>1. entries' \in Seq(EntryRecs)
      <4>1. e \in EntryRecs
        BY <2>2 DEF e
      <4> QED BY <3>0, <4>1
    <3>2. drainer' \in DrainerRecs
      BY <1>2, <2>4, <1>h DEF Push
    <3> QED BY <1>2, <2>1, <2>4, <3>1, <3>2 DEF Push, flow
  <2> QED BY <2>3, <2>4
<1>3. CASE AwaitDrained \/ StartRelease
  BY <1>3 DEF AwaitDrained, StartRelease, flow, TurnRecs
<1>4. CASE TurnAborted
  BY <1>4, <1>t DEF TurnAborted, flow
<1>5. CASE DirectSent
  <2>1. turn.id \in Nat
    BY DEF TurnRecs
  <2> QED BY <1>5, <1>t, <2>1 DEF DirectSent, flow
<1>6. CASE Drained \/ ReleaseReturns
  BY <1>6, <1>t DEF Drained, ReleaseReturns, flow
<1>7. CASE TakeSending
  BY <1>7, <1>n DEF TakeSending, flow
<1>8. CASE ReleaseSent
  <2>1. turn.id \in Nat
    BY DEF TurnRecs
  <2> QED BY <1>8, <1>n, <2>1 DEF ReleaseSent, flow
<1>9. CASE ReadHead
  <2>1. Head(entries).id \in Nat /\ Head(entries).target \in Nat
    BY <1>9, IdsFacts DEF ReadHead, EntryRecs
  <2>2. drainer' \in DrainerRecs
    BY <1>9, <2>1 DEF ReadHead, DrainerRecs
  <2> QED BY <1>9, <2>2 DEF ReadHead, flow
<1>10. CASE FindEmpty
  <2>1. drainer' \in DrainerRecs
    BY <1>10 DEF FindEmpty, NoDrainer, DrainerRecs
  <2> QED BY <1>10, <2>1 DEF FindEmpty, flow
<1>11. CASE Close \/ DrainerExit
  <2>1. CASE Forget
    BY <2>1, <1>t DEF Forget, flow
  <2>2. CASE ~Forget
    BY <1>11, <2>2, <1>h DEF Close, DrainerExit, flow
  <2> QED BY <2>1, <2>2
<1>12. CASE WaitOver
  <2>1. drainer' \in DrainerRecs
    BY <1>12 DEF WaitOver, Why, DrainerRecs
  <2> QED BY <1>12, <2>1 DEF WaitOver, flow
<1>13. CASE Kicked
  BY <1>13, <1>h DEF Kicked, flow
<1>14. CASE TakeEntry
  <2>1. CASE entries # <<>> /\ Head(entries).id = drainer.id
    <3>1. entries' \in Seq(EntryRecs)
      BY <1>14, <2>1, IdsFacts DEF TakeEntry
    <3>2. drainer' \in DrainerRecs
      BY <1>14, <2>1 DEF TakeEntry, DrainerRecs
    <3> QED BY <1>14, <3>1, <3>2 DEF TakeEntry, flow
  <2>2. CASE ~(entries # <<>> /\ Head(entries).id = drainer.id)
    BY <1>14, <2>2, <1>h DEF TakeEntry, flow
  <2> QED BY <2>1, <2>2
<1>15. CASE EntrySent
  <2>1. drainer.id \in Nat
    BY DEF DrainerRecs
  <2> QED BY <1>15, <1>h, <2>1 DEF EntrySent, flow
<1>16. CASE DrainerPanics
  <2>1. drainer' \in DrainerRecs
    BY <1>16 DEF DrainerPanics, NoDrainer, DrainerRecs
  <2> QED BY <1>16, <2>1 DEF DrainerPanics, flow
<1>17. CASE BackupApplies
  BY <1>17 DEF BackupApplies
<1>18. CASE FlowDrops \/ FlowOpens \/ ClaimLapses \/ CapExpires
  BY <1>18 DEF FlowDrops, FlowOpens, ClaimLapses, CapExpires
<1>19. CASE UNCHANGED vars
  BY <1>19 DEF vars
<1> QED
  BY <1>1, <1>2, <1>3, <1>4, <1>5, <1>6, <1>7, <1>8, <1>9, <1>10, <1>11, <1>12, <1>13, <1>14,
     <1>15, <1>16, <1>17, <1>18, <1>19 DEF OutboxNext, TurnSteps, DrainerSteps

\* Every step keeps the sending lock its holder's, and the outbox in the map
\* exactly while its drainer lives.
LEMMA LockedStep == OutboxInv /\ [OutboxNext]_vars => Locked'
<1> SUFFICES ASSUME OutboxInv, [OutboxNext]_vars PROVE Locked'
  OBVIOUS
<1> USE DEF Locked
<1>0. Locked /\ turn \in TurnRecs /\ drainer \in DrainerRecs
  BY DEF OutboxInv, Typed
<1>1. CASE \/ Write \/ BackupApplies \/ FlowDrops \/ FlowOpens \/ ClaimLapses
           \/ CapExpires \/ UNCHANGED vars
  BY <1>0, <1>1 DEF Write, BackupApplies, FlowDrops, FlowOpens, ClaimLapses, CapExpires, vars
<1>2. CASE Push
  BY <1>0, <1>2 DEF Push, Idle, NoDrainer
<1>3. CASE AwaitDrained \/ StartRelease \/ Drained \/ ReleaseReturns \/ DirectSent
  BY <1>0, <1>3 DEF AwaitDrained, StartRelease, Drained, ReleaseReturns, DirectSent, Idle
<1>4. CASE TurnAborted
  BY <1>0, <1>4 DEF TurnAborted, Idle
<1>5. CASE TakeSending
  BY <1>0, <1>5 DEF TakeSending, ReleaseNext
<1>6. CASE ReleaseSent
  BY <1>0, <1>6 DEF ReleaseSent, ReleaseNext
<1>7. CASE ReadHead \/ FindEmpty \/ WaitOver \/ Kicked
  <2>1. /\ drainer.at \in {"head", "wait"} /\ drainer'.at \in {"head", "wait", "lock", "closing"}
        /\ UNCHANGED <<entries, open, sending, turn>>
    <3>1. CASE ReadHead
      BY <3>1 DEF ReadHead, DrainerAt
    <3>2. CASE FindEmpty
      BY <3>2 DEF FindEmpty, DrainerAt, NoDrainer
    <3>3. CASE WaitOver
      BY <3>3, <1>0 DEF WaitOver, DrainerAt, DrainerRecs
    <3>4. CASE Kicked
      BY <3>4 DEF Kicked, DrainerAt, NoDrainer
    <3> QED BY <1>7, <3>1, <3>2, <3>3, <3>4
  <2> QED BY <1>0, <2>1
<1>8. CASE Close \/ DrainerExit
  BY <1>0, <1>8 DEF Close, DrainerExit, Forget, DrainerAt, NoDrainer
<1>9. CASE TakeEntry
  BY <1>0, <1>9 DEF TakeEntry, DrainerAt, NoDrainer, DrainerRecs
<1>10. CASE EntrySent \/ DrainerPanics
  BY <1>0, <1>10 DEF EntrySent, DrainerPanics, DrainerAt, NoDrainer
<1> QED
  BY <1>1, <1>2, <1>3, <1>4, <1>5, <1>6, <1>7, <1>8, <1>9, <1>10
  DEF OutboxNext, TurnSteps, DrainerSteps

\* Every step keeps the entry the drainer sends released: what releases it is
\* never taken back, and the drainer sends only the entry it waited for.
LEMMA EarnedStep == OutboxInv /\ [OutboxNext]_vars => Earned'
<1> SUFFICES ASSUME OutboxInv, [OutboxNext]_vars PROVE Earned'
  OBVIOUS
<1> USE DEF Earned
<1>0. /\ Earned /\ drainer \in DrainerRecs
      /\ written \in Nat /\ reached \in Nat /\ applied \in 0..reached /\ expired \in Nat
  BY DEF OutboxInv, Typed
<1>a. drainer.target \in Nat /\ drainer.id \in Nat
  BY <1>0 DEF DrainerRecs
<1>1. CASE UNCHANGED <<drainer, reached, expired>>
  BY <1>0, <1>1
<1>2. CASE FlowDrops \/ FlowOpens \/ ClaimLapses
  BY <1>1, <1>2 DEF FlowDrops, FlowOpens, ClaimLapses
<1>3. CASE BackupApplies \/ CapExpires
  BY <1>0, <1>a, <1>3 DEF BackupApplies, CapExpires
<1>4. CASE Push
  BY <1>0, <1>4 DEF Push, NoDrainer, flow
<1>5. CASE ReadHead \/ FindEmpty \/ Kicked \/ Close \/ DrainerExit \/ EntrySent \/ DrainerPanics
  BY <1>0, <1>5 DEF ReadHead, FindEmpty, Kicked, Close, DrainerExit, Forget, EntrySent,
     DrainerPanics, NoDrainer, flow
<1>6. CASE WaitOver
  BY <1>0, <1>a, <1>6 DEF WaitOver, Why, flow, DrainerRecs
<1>7. CASE TakeEntry
  BY <1>0, <1>7 DEF TakeEntry, DrainerAt, NoDrainer, flow, DrainerRecs
<1>8. CASE Write \/ AwaitDrained \/ StartRelease \/ TurnAborted \/ TurnSteps
           \/ UNCHANGED vars
  BY <1>1, <1>8 DEF Write, AwaitDrained, StartRelease, TurnAborted, TurnSteps, DirectSent, Drained,
     TakeSending, ReleaseSent, ReleaseReturns, vars, flow
<1> QED
  BY <1>2, <1>3, <1>4, <1>5, <1>6, <1>7, <1>8 DEF OutboxNext, DrainerSteps

\* Every step keeps a release that returned with nothing left.
LEMMA LeftStep == OutboxInv /\ [OutboxNext]_vars => Left'
<1> SUFFICES ASSUME OutboxInv, [OutboxNext]_vars PROVE Left'
  OBVIOUS
<1> USE DEF Left
<1>0. Left /\ Locked /\ turn \in TurnRecs /\ drainer \in DrainerRecs
  BY DEF OutboxInv, Typed
<1>1. CASE \/ Write \/ BackupApplies \/ FlowDrops \/ FlowOpens \/ ClaimLapses
           \/ CapExpires \/ UNCHANGED vars
  BY <1>0, <1>1 DEF Write, BackupApplies, FlowDrops, FlowOpens, ClaimLapses, CapExpires, vars
<1>2. CASE Push
  BY <1>0, <1>2 DEF Push, Idle
<1>3. CASE AwaitDrained \/ StartRelease \/ Drained \/ ReleaseReturns \/ DirectSent \/ TurnAborted
  BY <1>0, <1>3 DEF AwaitDrained, StartRelease, Drained, ReleaseReturns, DirectSent, TurnAborted,
     Idle
<1>4. CASE TakeSending \/ ReleaseSent
  BY <1>0, <1>4 DEF TakeSending, ReleaseSent, ReleaseNext, Locked
<1>5. CASE ReadHead \/ FindEmpty \/ WaitOver \/ Kicked
  BY <1>0, <1>5 DEF ReadHead, FindEmpty, WaitOver, Kicked, NoDrainer, DrainerRecs
<1>6. CASE Close \/ DrainerExit \/ EntrySent \/ DrainerPanics
  BY <1>0, <1>6 DEF Close, DrainerExit, Forget, EntrySent, DrainerPanics, NoDrainer
<1>7. CASE TakeEntry
  BY <1>0, <1>7 DEF TakeEntry, NoDrainer, DrainerRecs
<1> QED
  BY <1>1, <1>2, <1>3, <1>4, <1>5, <1>6, <1>7 DEF OutboxNext, TurnSteps, DrainerSteps

\* What implies the two properties.
LEMMA InvImplies == OutboxInv => SentOnItsOwnRelease /\ ReleasedIsOut
<1> SUFFICES ASSUME OutboxInv PROVE SentOnItsOwnRelease /\ ReleasedIsOut
  OBVIOUS
<1>1. SentOnItsOwnRelease
  BY DEF OutboxInv, Earned, SentOnItsOwnRelease
<1>2. ReleasedIsOut
  BY DEF OutboxInv, Left, ReleasedIsOut, InFlight
<1> QED BY <1>1, <1>2

\* The invariant holds in every state, whatever the interleaving of the turn,
\* the drainer, the flow and the faults.
LEMMA InvAlways == OutboxSpec => []OutboxInv
<1>1. OutboxInv /\ [OutboxNext]_vars => OutboxInv'
  BY TypedStep, LockedStep, EarnedStep, LeftStep DEF OutboxInv
<1> QED BY InvInit, <1>1, PTL DEF OutboxSpec

\* Whatever the numbers of entries, writes and faults: an entry the drainer
\* sends is sent on its own release (outbox.rs `drain`), and a release that
\* returns leaves nothing queued or being sent (`release`).
THEOREM OutboxCorrect == OutboxSpec => [](SentOnItsOwnRelease /\ ReleasedIsOut)
BY InvAlways, InvImplies, PTL

\* The second promise alone: when a release returns, the call's teardown finds
\* nothing of the outbox queued or being sent (outbox.rs `release`).
THEOREM ReleaseLeavesNothing == OutboxSpec => []ReleasedIsOut
BY InvAlways, InvImplies, PTL

\* What the entries and the caps may name: an entry is one of those pushed and
\* waits for a write that was made, and only the caps of those pushed expire.
Numbered ==
    /\ \A i \in DOMAIN entries : entries[i].id \in 1..pushed /\ entries[i].target \in 0..written
    /\ expired \in 0..pushed /\ kick \in BOOLEAN

\* Every step keeps it: a push numbers its entry by the count it raises, and
\* its target is the position written by then.
LEMMA NumberedStep == OutboxInv /\ Numbered /\ [OutboxNext]_vars => Numbered'
<1> SUFFICES ASSUME OutboxInv, Numbered, [OutboxNext]_vars PROVE Numbered'
  OBVIOUS
<1> USE DEF Numbered
<1>0. /\ entries \in Seq(EntryRecs) /\ pushed \in Nat /\ expired \in Nat /\ written \in Nat
      /\ DOMAIN entries = 1..Len(entries) /\ Len(entries) \in Nat
  BY DEF OutboxInv, Typed
<1>s. ASSUME entries # <<>>, entries' = Tail(entries), UNCHANGED <<pushed, written, expired>>,
             kick' \in BOOLEAN
      PROVE  Numbered'
  <2>1. /\ DOMAIN Tail(entries) = 1..(Len(entries) - 1)
        /\ \A i \in 1..(Len(entries) - 1) : Tail(entries)[i] = entries[i + 1]
    BY <1>0, <1>s
  <2>2. \A i \in 1..(Len(entries) - 1) : i + 1 \in DOMAIN entries
    BY <1>0
  <2> QED BY <1>0, <1>s, <2>1, <2>2
<1>n. ASSUME ReleaseNext, UNCHANGED <<pushed, written, expired>>
      PROVE  Numbered'
  BY <1>s, <1>n DEF ReleaseNext
<1>k. ASSUME UNCHANGED <<entries, pushed, written, expired>>, kick' \in BOOLEAN
      PROVE  Numbered'
  BY <1>k
<1>1. CASE Write
  <2>1. written' = written + 1 /\ UNCHANGED <<entries, pushed, expired, kick>>
    BY <1>1 DEF Write
  <2> QED BY <1>0, <2>1
<1>2. CASE Push
  <2>0. HoldTarget \in 0..written
    BY <1>0 DEF HoldTarget
  <2>1. pushed' = pushed + 1 /\ written' = written /\ expired' = expired
    BY <1>2 DEF Push, flow
  <2>2. CASE applied >= HoldTarget /\ ~open
    BY <1>0, <1>2, <2>1, <2>2 DEF Push
  <2>3. CASE ~(applied >= HoldTarget /\ ~open)
    <3> DEFINE e == Entry(pushed + 1, HoldTarget)
    <3>1. entries' = Append(entries, e) /\ kick' \in BOOLEAN
      BY <1>2, <2>1, <2>3 DEF Push
    <3>2. e.id = pushed + 1 /\ e.target = HoldTarget
      BY DEF Entry
    <3> HIDE DEF e
    <3>3. /\ DOMAIN entries' = 1..(Len(entries) + 1)
          /\ \A i \in 1..Len(entries) : entries'[i] = entries[i]
          /\ entries'[Len(entries) + 1] = e
      BY <1>0, <3>1
    <3>4. \A i \in 1..(Len(entries) + 1) : i \in 1..Len(entries) \/ i = Len(entries) + 1
      BY <1>0
    <3> QED BY <1>0, <2>0, <2>1, <3>1, <3>2, <3>3, <3>4
  <2> QED BY <2>2, <2>3
<1>3. CASE TakeSending
  BY <1>3, <1>n DEF TakeSending, flow
<1>4. CASE ReleaseSent
  BY <1>4, <1>n DEF ReleaseSent, flow
<1>5. CASE Close \/ DrainerExit
  <2>1. CASE Forget
    BY <1>0, <2>1 DEF Forget, flow
  <2>2. CASE ~Forget
    BY <1>5, <1>k, <2>2 DEF Close, DrainerExit, flow
  <2> QED BY <2>1, <2>2
<1>6. CASE TakeEntry
  <2>1. CASE entries # <<>> /\ Head(entries).id = drainer.id
    BY <1>6, <1>s, <2>1 DEF TakeEntry, flow
  <2>2. CASE ~(entries # <<>> /\ Head(entries).id = drainer.id)
    BY <1>6, <1>k, <2>2 DEF TakeEntry, flow
  <2> QED BY <2>1, <2>2
<1>7. CASE CapExpires
  <2>1. expired' = expired + 1 /\ expired < pushed /\ UNCHANGED <<entries, pushed, written, kick>>
    BY <1>7 DEF CapExpires
  <2> QED BY <1>0, <2>1
<1>8. CASE \/ AwaitDrained \/ StartRelease \/ TurnAborted \/ DirectSent \/ Drained
           \/ ReleaseReturns \/ ReadHead \/ FindEmpty \/ WaitOver \/ Kicked \/ EntrySent
           \/ DrainerPanics
  BY <1>8, <1>k DEF AwaitDrained, StartRelease, TurnAborted, DirectSent, Drained,
     ReleaseReturns, ReadHead, FindEmpty, WaitOver, Kicked, EntrySent, DrainerPanics, flow
<1>9. CASE BackupApplies \/ FlowDrops \/ FlowOpens \/ ClaimLapses \/ UNCHANGED vars
  BY <1>9, <1>k DEF BackupApplies, FlowDrops, FlowOpens, ClaimLapses, vars
<1> QED
  BY <1>1, <1>2, <1>3, <1>4, <1>5, <1>6, <1>7, <1>8, <1>9 DEF OutboxNext, TurnSteps, DrainerSteps

\* Whatever the interleaving: the outbox is in the map exactly while its drainer
\* lives, entries wait only there, the sending lock is its holder's, and every
\* entry is one that was pushed and waits for a write that was made.
THEOREM OutboxTyped == OutboxSpec => []OutboxTypeOK
<1>1. OutboxInit => Numbered
  <2> SUFFICES ASSUME OutboxInit PROVE Numbered
    OBVIOUS
  <2>1. DOMAIN entries = {}
    BY DEF OutboxInit
  <2>2. expired \in 0..pushed
    BY DEF OutboxInit
  <2>3. kick \in BOOLEAN
    BY DEF OutboxInit
  <2> QED BY <2>1, <2>2, <2>3 DEF Numbered
<1>2. OutboxInv /\ Numbered => OutboxTypeOK
  BY DEF OutboxInv, Typed, Locked, Numbered, OutboxTypeOK
<1> QED BY InvAlways, NumberedStep, <1>1, <1>2, PTL DEF OutboxSpec

-----------------------------------------------------------------------------
(* The refinement. *)

Pending == InFlight \o Ids(entries)

\* What is being sent goes first: nothing, or the entry of whoever holds the
\* sending lock, or the one a turn sends at its push.
Reads ==
    /\ Ids(entries) \in Seq(Nat) /\ Pending \in Seq(Nat)
    /\ drainer.at # "send" /\ turn.at \notin {"direct", "send"} => Pending = Ids(entries)
    /\ drainer.at = "send" => /\ turn.at \notin {"direct", "send"}
                              /\ Pending = <<drainer.id>> \o Ids(entries)
    /\ turn.at \in {"direct", "send"} => /\ drainer.at # "send"
                                         /\ Pending = <<turn.id>> \o Ids(entries)
    /\ turn.at = "direct" => Ids(entries) = <<>> /\ drainer.at = "none"
    /\ drainer.id \in Nat /\ turn.id \in Nat

\* The pending entries of OrderedOutbox are the one in flight and those queued.
LEMMA PendingIs == OutboxInv => Reads
<1> SUFFICES ASSUME OutboxInv PROVE Reads
  OBVIOUS
<1>1. Ids(entries) \in Seq(Nat) /\ Ids(<<>>) = <<>>
  BY IdsFacts DEF OutboxInv, Typed
<1>2. drainer.id \in Nat /\ turn.id \in Nat
  BY DEF OutboxInv, Typed, DrainerRecs, TurnRecs
<1>3. ASSUME drainer.at # "send", turn.at \notin {"direct", "send"} PROVE Pending = Ids(entries)
  <2>1. InFlight = <<>>
    BY <1>3 DEF InFlight
  <2> QED BY <1>1, <2>1 DEF Pending
<1>4. ASSUME drainer.at = "send"
      PROVE  turn.at \notin {"direct", "send"} /\ Pending = <<drainer.id>> \o Ids(entries)
  <2>1. turn.at \notin {"direct", "send"}
    BY <1>4 DEF OutboxInv, Locked
  <2>2. InFlight = <<drainer.id>>
    BY <1>4, <2>1, <1>2 DEF InFlight
  <2> QED BY <2>1, <2>2 DEF Pending
<1>5. ASSUME turn.at \in {"direct", "send"}
      PROVE  drainer.at # "send" /\ Pending = <<turn.id>> \o Ids(entries)
  <2>1. drainer.at # "send"
    BY <1>5 DEF OutboxInv, Locked
  <2>2. InFlight = <<turn.id>>
    BY <1>5, <2>1, <1>2 DEF InFlight
  <2> QED BY <2>1, <2>2 DEF Pending
<1>6. ASSUME turn.at = "direct" PROVE Ids(entries) = <<>> /\ drainer.at = "none"
  BY <1>1, <1>6 DEF OutboxInv, Locked
<1>7. Pending \in Seq(Nat)
  BY <1>1, <1>2, <1>3, <1>4, <1>5, AheadFacts
<1> QED BY <1>1, <1>2, <1>3, <1>4, <1>5, <1>6, <1>7 DEF Reads

\* The same, after a step.
LEMMA PendingNext == OutboxInv' => Reads'
BY PendingIs, PTL

\* A push adds its entry at the back, whether a turn sends it itself or queues it.
LEMMA PushQueues ==
    ASSUME OutboxInv, OutboxInv', Push
    PROVE  Ordered!QueueEntry
<1>r. Reads /\ Reads'
  BY PendingIs, PendingNext
<1>1. Pending' = Append(Pending, pushed')
  <2>1. turn.at = "idle" /\ pushed' = pushed + 1 /\ pushed' \in Nat
    BY DEF Push, Idle, OutboxInv, Typed
  <2>2. CASE applied >= HoldTarget /\ ~open
    <3>1. /\ turn'.at = "direct" /\ turn'.id = pushed' /\ UNCHANGED <<entries, drainer>>
      BY <2>2 DEF Push
    <3>2. drainer.at = "none" /\ entries = <<>>
      BY <2>2 DEF OutboxInv, Locked
    <3>3. Pending = <<>>
      BY <2>1, <3>2, <1>r, IdsFacts DEF OutboxInv, Typed, Reads
    <3>4. Pending' = <<pushed'>> \o <<>>
      <4>1. Ids(entries)' = <<>> /\ Pending' = <<turn'.id>> \o Ids(entries)'
        BY <3>1, <3>2, <1>r, IdsFacts DEF Reads
      <4> QED BY <3>1, <4>1
    <3> QED BY <2>1, <3>3, <3>4
  <2>3. CASE ~(applied >= HoldTarget /\ ~open)
    <3> DEFINE e == Entry(pushed', HoldTarget)
    <3>1. /\ entries' = Append(entries, e) /\ turn' = turn
          /\ open => drainer' = drainer
          /\ ~open => drainer'.at = "head"
      BY <2>3 DEF Push, NoDrainer
    <3>2. e \in EntryRecs /\ e.id = pushed'
      BY <2>1 DEF Entry, EntryRecs, HoldTarget, OutboxInv, Typed
    <3> HIDE DEF e
    <3>3. Ids(entries)' = Append(Ids(entries), pushed')
      <4>1. Ids(entries)' = Ids(Append(entries, e))
        BY <3>1 DEF Ids
      <4>2. entries \in Seq(EntryRecs)
        BY DEF OutboxInv, Typed
      <4> QED BY <4>1, <4>2, <3>2, IdsFacts
    <3>4. turn.at \notin {"direct", "send"} /\ turn'.at \notin {"direct", "send"}
      BY <2>1, <3>1
    <3>5. CASE drainer.at = "send"
      <4>1. open /\ drainer' = drainer
        BY <3>1, <3>5 DEF OutboxInv, Locked
      <4>2. Pending = <<drainer.id>> \o Ids(entries)
        BY <3>5, <1>r DEF Reads
      <4>3. Pending' = <<drainer.id>> \o Ids(entries)'
        BY <3>5, <4>1, <1>r DEF Reads
      <4>4. drainer.id \in Nat /\ Ids(entries) \in Seq(Nat)
        BY <1>r DEF Reads
      <4> HIDE DEF Pending
      <4> QED BY <2>1, <3>3, <4>2, <4>3, <4>4, AheadFacts
    <3>6. CASE drainer.at # "send"
      <4>1. drainer'.at # "send"
        BY <3>1, <3>6
      <4>2. Pending = Ids(entries)
        BY <3>4, <3>6, <1>r DEF Reads
      <4>3. Pending' = Ids(entries)'
        BY <3>4, <4>1, <1>r DEF Reads
      <4> QED BY <3>3, <4>2, <4>3
    <3> QED BY <3>5, <3>6
  <2> QED BY <2>2, <2>3
<1>2. (drainer.at = "dying")' = (drainer.at = "dying")
  <2>1. CASE open
    BY <2>1 DEF Push
  <2>2. CASE ~open
    BY <2>2 DEF Push, NoDrainer, OutboxInv, Locked
  <2> QED BY <2>1, <2>2
<1>3. pushed' = pushed + 1 /\ UNCHANGED <<out, faults>>
  BY DEF Push
<1> QED BY <1>1, <1>2, <1>3 DEF Ordered!QueueEntry, Pending

\* The next entry a release pops, or none, leaves the order as it is: the entry
\* it popped last goes, those queued follow.
LEMMA ReleaseNextPops ==
    ASSUME OutboxInv, OutboxInv', ReleaseNext, drainer.at # "send", drainer' = drainer
    PROVE  Pending' = Ids(entries)
<1>r. Reads /\ Reads'
  BY PendingIs, PendingNext
<1>1. CASE entries # <<>>
  <2>1. /\ turn'.at = "send" /\ turn'.id = Head(entries).id /\ entries' = Tail(entries)
    BY <1>1 DEF ReleaseNext
  <2>2. Ids(entries)' = Ids(Tail(entries))
    BY <2>1 DEF Ids
  <2>3. Pending' = <<Head(entries).id>> \o Ids(Tail(entries))
    BY <1>r, <2>1, <2>2 DEF Reads
  <2>4. entries \in Seq(EntryRecs)
    BY DEF OutboxInv, Typed
  <2> QED BY <1>1, <2>3, <2>4, IdsFacts
<1>2. CASE entries = <<>>
  <2>1. turn'.at = "released" /\ entries' = entries
    BY <1>2 DEF ReleaseNext
  <2>2. Ids(entries)' = Ids(entries)
    BY <2>1 DEF Ids
  <2> QED BY <1>r, <2>1, <2>2 DEF Reads
<1> QED BY <1>1, <1>2

\* Whoever sends an entry sends the oldest.
LEMMA SentIsHead ==
    ASSUME OutboxInv, OutboxInv', DirectSent \/ ReleaseSent \/ EntrySent
    PROVE  Ordered!SendHead
<1>r. Reads /\ Reads'
  BY PendingIs, PendingNext
<1>1. ASSUME NEW x \in Nat, Pending = <<x>> \o Ids(entries), Pending' = Ids(entries),
             out' = Append(out, x), UNCHANGED <<pushed, faults>>,
             (drainer.at = "dying")' = (drainer.at = "dying")
      PROVE  Ordered!SendHead
  <2> DEFINE p == Pending
             q == Ids(entries)
  <2>1. q \in Seq(Nat)
    BY <1>r DEF Reads
  <2>2. p = <<x>> \o q /\ Pending' = q
    BY <1>1
  <2> HIDE DEF p, q
  <2>3. p # <<>> /\ Tail(p) = q /\ Head(p) = x
    BY <2>1, <2>2, AheadFacts
  <2>4. Pending # <<>> /\ Pending' = Tail(Pending) /\ out' = Append(out, Head(Pending))
    BY <1>1, <2>2, <2>3 DEF p
  <2> QED BY <1>1, <2>4 DEF Ordered!SendHead, Pending
<1>2. CASE DirectSent
  <2>1. /\ turn.at = "direct" /\ turn'.at = "idle" /\ UNCHANGED <<entries, drainer, pushed, faults>>
        /\ out' = Append(out, turn.id)
    BY <1>2 DEF DirectSent, Idle
  <2>2. Ids(entries)' = Ids(entries)
    BY <2>1 DEF Ids
  <2>3. Pending = <<turn.id>> \o Ids(entries) /\ turn.id \in Nat /\ drainer.at # "send"
    BY <1>r, <2>1 DEF Reads
  <2>4. Pending' = Ids(entries)
    BY <1>r, <2>1, <2>2, <2>3 DEF Reads
  <2> QED BY <1>1, <2>1, <2>3, <2>4
<1>3. CASE ReleaseSent
  <2>1. /\ turn.at = "send" /\ UNCHANGED <<drainer, pushed, faults>>
        /\ out' = Append(out, turn.id)
    BY <1>3 DEF ReleaseSent
  <2>2. Pending = <<turn.id>> \o Ids(entries) /\ turn.id \in Nat /\ drainer.at # "send"
    BY <1>r, <2>1 DEF Reads
  <2>3. Pending' = Ids(entries)
    BY <1>3, <2>1, <2>2, ReleaseNextPops DEF ReleaseSent
  <2> QED BY <1>1, <2>1, <2>2, <2>3
<1>4. CASE EntrySent
  <2>1. /\ drainer.at = "send" /\ drainer'.at = "head" /\ UNCHANGED <<entries, turn, pushed, faults>>
        /\ out' = Append(out, drainer.id)
    BY <1>4 DEF EntrySent, DrainerAt, NoDrainer
  <2>2. Ids(entries)' = Ids(entries)
    BY <2>1 DEF Ids
  <2>3. /\ Pending = <<drainer.id>> \o Ids(entries) /\ drainer.id \in Nat
        /\ turn.at \notin {"direct", "send"}
    BY <1>r, <2>1 DEF Reads
  <2>4. Pending' = Ids(entries)
    BY <1>r, <2>1, <2>2, <2>3 DEF Reads
  <2> QED BY <1>1, <2>1, <2>3, <2>4
<1> QED BY <1>2, <1>3, <1>4

\* A fault loses at most the entry being sent.
LEMMA FaultLosesOne ==
    ASSUME OutboxInv, OutboxInv', TurnAborted \/ DrainerPanics
    PROVE  Ordered!Fault
<1>r. Reads /\ Reads'
  BY PendingIs, PendingNext
<1>0. faults' = faults + 1 /\ UNCHANGED <<entries, pushed, out>>
  BY DEF TurnAborted, DrainerPanics
<1>i. Ids(entries)' = Ids(entries) /\ Ids(entries) \in Seq(Nat)
  BY <1>0, <1>r DEF Ids, Reads
<1>1. Pending' = Pending \/ (Pending # <<>> /\ Pending' = Tail(Pending))
  <2>1. ASSUME NEW x \in Nat, Pending = <<x>> \o Ids(entries), Pending' = Ids(entries)
        PROVE  Pending # <<>> /\ Pending' = Tail(Pending)
    <3> DEFINE q == Ids(entries)
    <3>1. q \in Seq(Nat)
      BY <1>i
    <3>2. Pending = <<x>> \o q /\ Pending' = q
      BY <2>1
    <3> HIDE DEF q
    <3> QED BY <3>1, <3>2, AheadFacts
  <2>2. CASE TurnAborted
    <3>1. turn'.at = "idle" /\ drainer' = drainer
      BY <2>2 DEF TurnAborted, Idle
    <3>2. CASE turn.at \in {"direct", "send"}
      BY <3>1, <3>2, <1>r, <1>i, <2>1 DEF Reads
    <3>3. CASE turn.at \notin {"direct", "send"} /\ drainer.at = "send"
      BY <3>1, <3>3, <1>r, <1>i DEF Reads
    <3>4. CASE turn.at \notin {"direct", "send"} /\ drainer.at # "send"
      BY <3>1, <3>4, <1>r, <1>i DEF Reads
    <3> QED BY <3>2, <3>3, <3>4
  <2>3. CASE DrainerPanics
    <3>1. drainer.at = "send" /\ drainer'.at = "dying" /\ turn' = turn
      BY <2>3 DEF DrainerPanics, DrainerAt, NoDrainer
    <3> QED BY <3>1, <1>r, <1>i, <2>1 DEF Reads
  <2> QED BY <2>2, <2>3
<1>2. (drainer.at = "dying")' \in {drainer.at = "dying", TRUE}
  <2>1. CASE TurnAborted
    BY <2>1 DEF TurnAborted
  <2>2. CASE DrainerPanics
    BY <2>2 DEF DrainerPanics, NoDrainer
  <2> QED BY <2>1, <2>2
<1> QED BY <1>0, <1>1, <1>2 DEF Ordered!Fault, Pending

\* A drainer that panicked takes the entries queued with it, and no other.
LEMMA ExitAbandons ==
    ASSUME OutboxInv, OutboxInv', DrainerExit
    PROVE  Ordered!Abandon
<1>r. Reads /\ Reads'
  BY PendingIs, PendingNext
<1>1. /\ drainer.at = "dying" /\ drainer'.at = "none" /\ entries' = <<>>
      /\ UNCHANGED <<turn, pushed, out, faults>>
  BY DEF DrainerExit, DrainerAt, Forget, NoDrainer
<1>2. Ids(entries)' = <<>>
  BY <1>1 DEF Ids
<1>3. \E n \in {0, 1} : n <= Len(Pending) /\ Pending' = SubSeq(Pending, 1, n)
  <2>1. CASE turn.at \in {"direct", "send"}
    <3> DEFINE q == Ids(entries)
               x == turn.id
    <3>1. x \in Nat /\ q \in Seq(Nat) /\ Pending = <<x>> \o q /\ Pending' = <<x>> \o <<>>
      BY <1>r, <1>1, <1>2, <2>1 DEF Reads
    <3> HIDE DEF q, x
    <3>2. 1 <= Len(Pending) /\ SubSeq(Pending, 1, 1) = <<x>>
      BY <3>1, AheadFacts
    <3>3. Pending' = <<x>>
      BY <3>1
    <3> QED BY <3>2, <3>3
  <2>2. CASE turn.at \notin {"direct", "send"}
    <3>1. Pending \in Seq(Nat) /\ Pending' = <<>>
      BY <1>r, <1>1, <1>2, <2>2 DEF Reads
    <3>2. 0 <= Len(Pending) /\ SubSeq(Pending, 1, 0) = <<>>
      BY <3>1, AheadFacts
    <3> QED BY <3>1, <3>2
  <2> QED BY <2>1, <2>2
<1>4. (drainer.at = "dying") /\ ~(drainer.at = "dying")'
  BY <1>1
<1> QED BY <1>1, <1>3, <1>4 DEF Ordered!Abandon, Pending

\* A step that leaves entries, sender and sent alone is no step of OrderedOutbox.
LEMMA QuietStutters ==
    ASSUME OutboxInv, OutboxInv', UNCHANGED <<entries, pushed, out, faults>>,
           drainer.at # "send", drainer'.at # "send",
           (turn.at \notin {"direct", "send"} /\ turn'.at \notin {"direct", "send"}) \/ turn' = turn,
           (drainer.at = "dying")' = (drainer.at = "dying")
    PROVE  UNCHANGED Ordered!ordered
<1>r. Reads /\ Reads'
  BY PendingIs, PendingNext
<1>1. Ids(entries)' = Ids(entries)
  BY DEF Ids
<1>2. Pending' = Pending
  BY <1>r, <1>1 DEF Reads
<1> QED BY <1>2 DEF Ordered!ordered, Pending

\* A step that touches neither the entries nor the two tasks' sending is none.
LEMMA SameTasksStutter ==
    ASSUME UNCHANGED <<entries, drainer, turn, pushed, out, faults>>
    PROVE  UNCHANGED Ordered!ordered
<1>1. Ids(entries)' = Ids(entries) /\ InFlight' = InFlight
  BY DEF Ids, InFlight
<1> QED BY <1>1 DEF Ordered!ordered

\* Every step of the outbox is a step of OrderedOutbox or none.
LEMMA StepRefines ==
    OutboxInv /\ OutboxInv' /\ [OutboxNext]_vars => [Ordered!OrderedNext]_Ordered!ordered
<1> SUFFICES ASSUME OutboxInv, OutboxInv', [OutboxNext]_vars
             PROVE  [Ordered!OrderedNext]_Ordered!ordered
  OBVIOUS
<1>r. Reads /\ Reads'
  BY PendingIs, PendingNext
<1>1. CASE Push
  BY <1>1, PushQueues DEF Ordered!OrderedNext
<1>2. CASE DirectSent \/ ReleaseSent \/ EntrySent
  BY <1>2, SentIsHead DEF Ordered!OrderedNext
<1>3. CASE TurnAborted \/ DrainerPanics
  BY <1>3, FaultLosesOne DEF Ordered!OrderedNext
<1>4. CASE DrainerExit
  BY <1>4, ExitAbandons DEF Ordered!OrderedNext
<1>5. CASE \/ Write \/ BackupApplies \/ FlowDrops \/ FlowOpens \/ ClaimLapses
           \/ CapExpires \/ UNCHANGED vars
  <2>1. UNCHANGED <<entries, drainer, turn, pushed, out, faults>>
    BY <1>5 DEF Write, BackupApplies, FlowDrops, FlowOpens, ClaimLapses, CapExpires, vars
  <2> QED BY <2>1, SameTasksStutter
<1>6. CASE AwaitDrained \/ StartRelease \/ Drained \/ ReleaseReturns
  <2>1. /\ UNCHANGED <<entries, drainer, pushed, out, faults>>
        /\ turn.at \notin {"direct", "send"} /\ turn'.at \notin {"direct", "send"}
    BY <1>6 DEF AwaitDrained, StartRelease, Drained, ReleaseReturns, Idle
  <2>2. Ids(entries)' = Ids(entries)
    BY <2>1 DEF Ids
  <2>3. InFlight' = InFlight
    BY <2>1 DEF InFlight
  <2> QED BY <2>1, <2>2, <2>3 DEF Ordered!ordered
<1>7. CASE TakeSending
  <2>1. /\ turn.at = "release" /\ sending = "none" /\ ReleaseNext
        /\ UNCHANGED <<drainer, pushed, out, faults>>
    BY <1>7 DEF TakeSending
  <2>2. drainer.at # "send"
    BY <2>1 DEF OutboxInv, Locked
  <2>3. Pending' = Ids(entries)
    BY <2>1, <2>2, ReleaseNextPops
  <2>4. Pending = Ids(entries)
    BY <1>r, <2>1, <2>2 DEF Reads
  <2> QED BY <2>1, <2>3, <2>4 DEF Ordered!ordered, Pending
<1>8. CASE ReadHead \/ FindEmpty \/ WaitOver \/ Kicked
  <2>1. /\ UNCHANGED <<entries, turn, pushed, out, faults>>
        /\ drainer.at \in {"head", "wait"} /\ drainer'.at \in {"head", "wait", "lock", "closing"}
    <3>1. CASE ReadHead
      BY <3>1 DEF ReadHead, DrainerAt
    <3>2. CASE FindEmpty
      BY <3>2 DEF FindEmpty, DrainerAt, NoDrainer
    <3>3. CASE WaitOver
      BY <3>3 DEF WaitOver, DrainerAt, OutboxInv, Typed, DrainerRecs
    <3>4. CASE Kicked
      BY <3>4 DEF Kicked, DrainerAt, NoDrainer
    <3> QED BY <1>8, <3>1, <3>2, <3>3, <3>4
  <2> QED BY <2>1, QuietStutters
<1>9. CASE Close
  <2>1. /\ UNCHANGED <<entries, turn, pushed, out, faults>>
        /\ drainer.at = "closing" /\ drainer'.at \in {"head", "none"}
    BY <1>9 DEF Close, Forget, DrainerAt, NoDrainer
  <2> QED BY <2>1, QuietStutters
<1>10. CASE TakeEntry
  <2>0. DrainerAt("lock") /\ sending = "none" /\ UNCHANGED <<turn, pushed, out, faults>>
    BY <1>10 DEF TakeEntry
  <2>1. CASE entries # <<>> /\ Head(entries).id = drainer.id
    <3>1. /\ entries' = Tail(entries) /\ drainer' = [drainer EXCEPT !.at = "send"]
      BY <1>10, <2>1 DEF TakeEntry
    <3>2. drainer.at = "lock" /\ drainer'.at = "send" /\ drainer'.id = drainer.id
      BY <2>0, <3>1 DEF DrainerAt, OutboxInv, Typed, DrainerRecs
    <3>3. Ids(entries)' = Ids(Tail(entries))
      BY <3>1 DEF Ids
    <3>4. Pending' = <<Head(entries).id>> \o Ids(Tail(entries)) /\ turn'.at \notin {"direct", "send"}
      BY <1>r, <2>1, <3>2, <3>3 DEF Reads
    <3>5. Pending = Ids(entries)
      BY <1>r, <2>0, <3>2, <3>4 DEF Reads
    <3>6. entries \in Seq(EntryRecs)
      BY DEF OutboxInv, Typed
    <3>7. Pending' = Pending
      BY <2>1, <3>4, <3>5, <3>6, IdsFacts
    <3> QED BY <2>0, <3>2, <3>7 DEF Ordered!ordered, Pending
  <2>2. CASE ~(entries # <<>> /\ Head(entries).id = drainer.id)
    <3>1. drainer.at = "lock" /\ drainer'.at = "head" /\ entries' = entries
      BY <1>10, <2>2 DEF TakeEntry, DrainerAt, NoDrainer
    <3> QED BY <2>0, <3>1, QuietStutters
  <2> QED BY <2>1, <2>2
<1> QED
  BY <1>1, <1>2, <1>3, <1>4, <1>5, <1>6, <1>7, <1>8, <1>9, <1>10
  DEF OutboxNext, TurnSteps, DrainerSteps

\* The outbox implements OrderedOutbox, for any number of entries, writes and
\* faults: whatever the interleaving of the turn, the drainer, a release and
\* panics, the entries of outbox.rs leave in the order the turns queued them,
\* and none is lost but by a fault.
THEOREM OutboxImplementsOrder == OutboxSpec => LeaveInOrder
<1>1. OutboxInit => Ordered!OrderedInit
  <2> SUFFICES ASSUME OutboxInit PROVE Ordered!OrderedInit
    OBVIOUS
  <2>1. InFlight = <<>> /\ Ids(entries) = <<>>
    BY DEF OutboxInit, InFlight, Ids, NoDrainer, Idle
  <2>2. (drainer.at = "dying") = FALSE
    BY DEF OutboxInit, NoDrainer
  <2> QED BY <2>1, <2>2 DEF OutboxInit, Ordered!OrderedInit
<1>2. OutboxInv /\ OutboxInv' /\ [OutboxNext]_vars => [Ordered!OrderedNext]_Ordered!ordered
  BY StepRefines
<1> QED BY <1>1, <1>2, InvAlways, PTL DEF OutboxSpec, LeaveInOrder, Ordered!OrderedSpec

=============================================================================
