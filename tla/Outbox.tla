-------------------------------- MODULE Outbox --------------------------------
(* The outbox of one call (b2bua/src/router/outbox.rs): what the call's      *)
(* turns send off the node waits, in order, until the call's backup applied  *)
(* the write that records it, its cap expired or its backup is lost.         *)
(*                                                                           *)
(* Three tasks touch it. The turn (one at a time: the call's worker runs it  *)
(* under the per-call lock) pushes entries, waits for the outbox to drain,   *)
(* or releases it, sending what is left itself. The drainer, which exists    *)
(* while the outbox is in the map, sends the entries one by one. The         *)
(* replication flow moves what the backup applied. Sync level `applied`;     *)
(* under `off` every entry has no wait.                                      *)
EXTENDS Integers, Sequences, FiniteSets

CONSTANTS MaxPush,    \* bound: entries pushed
          MaxWrites,  \* bound: writes of the call
          MaxFaults,  \* bound: panics and aborts
          MaxDrops    \* bound: times the flow goes down, opens anew or falls silent

VARIABLES entries,   \* CallOutbox::entries: [id, target], target 0 for no wait
          open,      \* the outbox is in the map
          sending,   \* who holds CallOutbox::sending
          kick,      \* a wake-up of the drainer is kept
          drainer,   \* what it does, with which entry, and why that is released
          turn,      \* what the turn does, with which entry
          written,   \* the call's place in the change log toward its backup
          applied,   \* how far the backup reported applying it (SubLog::acked)
          stream,    \* the backup's flow: down, connected, or live (it claimed a position)
          reached,   \* the furthest the backup ever reported (history)
          expired,   \* entries numbered up to this are past their cap
          pushed, out, faults, drops   \* history and bounds

vars == <<entries, open, sending, kick, drainer, turn, written, applied, stream, reached, expired,
          pushed, out, faults, drops>>

flow == <<written, applied, stream, reached, expired, drops>>

Entry(id, target) == [id |-> id, target |-> target]
NoDrainer == [at |-> "none", id |-> 0, target |-> 0, why |-> "none"]
Idle == [at |-> "idle", id |-> 0]

OutboxInit ==
    /\ entries = <<>> /\ open = FALSE
    /\ sending = "none" /\ kick = FALSE
    /\ drainer = NoDrainer /\ turn = Idle
    /\ written = 0 /\ applied = 0 /\ stream = "live" /\ reached = 0 /\ expired = 0
    /\ pushed = 0 /\ out = <<>> /\ faults = 0 /\ drops = 0

-----------------------------------------------------------------------------
(* The turn. *)

\* CallState::hold_target: a live flow holds the call's latest write.
HoldTarget == IF stream = "live" THEN written ELSE 0

\* The turn writes the call to the change log.
Write ==
    /\ turn = Idle /\ written < MaxWrites
    /\ written' = written + 1
    /\ UNCHANGED <<entries, open, sending, kick, drainer, turn, applied, stream, reached, expired,
                   pushed, out, faults, drops>>

\* Outboxes::push. An entry that waits for nothing, or for what is applied
\* already, runs here when the call has no outbox; any other goes behind the
\* entries queued, opening the outbox and starting its drainer.
Push ==
    /\ turn = Idle /\ pushed < MaxPush
    /\ pushed' = pushed + 1
    /\ IF applied >= HoldTarget /\ ~open
       THEN turn' = [at |-> "direct", id |-> pushed'] /\ UNCHANGED <<entries, open, drainer, kick>>
       ELSE /\ entries' = Append(entries, Entry(pushed', HoldTarget))
            /\ open' = TRUE
            /\ drainer' = IF open THEN drainer ELSE [NoDrainer EXCEPT !.at = "head"]
            /\ kick' = (open /\ kick)
            /\ UNCHANGED turn
    /\ UNCHANGED <<sending, flow, out, faults>>

DirectSent ==
    /\ turn.at = "direct"
    /\ out' = Append(out, turn.id)
    /\ turn' = Idle
    /\ UNCHANGED <<entries, open, sending, kick, drainer, flow, pushed, faults>>

\* Outboxes::drained: the turn waits for the outbox to be gone.
AwaitDrained ==
    /\ turn = Idle /\ open
    /\ turn' = [at |-> "drain", id |-> 0]
    /\ UNCHANGED <<entries, open, sending, kick, drainer, flow, pushed, out, faults>>

Drained ==
    /\ turn.at = "drain" /\ ~open
    /\ turn' = Idle
    /\ UNCHANGED <<entries, open, sending, kick, drainer, flow, pushed, out, faults>>

\* Outboxes::release: with the sending lock, so behind the entry in flight, the
\* turn sends what is left, then wakes the drainer.
StartRelease ==
    /\ turn = Idle /\ open
    /\ turn' = [at |-> "release", id |-> 0]
    /\ UNCHANGED <<entries, open, sending, kick, drainer, flow, pushed, out, faults>>

\* The next entry popped, or the release done.
ReleaseNext ==
    IF entries # <<>>
    THEN /\ turn' = [at |-> "send", id |-> Head(entries).id]
         /\ entries' = Tail(entries)
         /\ sending' = "turn"
         /\ UNCHANGED kick
    ELSE /\ turn' = [at |-> "released", id |-> 0]
         /\ sending' = "none" /\ kick' = TRUE
         /\ UNCHANGED entries

\* Variant: the release does not wait for the entry in flight.
TakeSending_Unlocked ==
    /\ turn.at = "release"
    /\ ReleaseNext
    /\ UNCHANGED <<open, drainer, flow, pushed, out, faults>>

TakeSending ==
    /\ turn.at = "release" /\ sending = "none"
    /\ ReleaseNext
    /\ UNCHANGED <<open, drainer, flow, pushed, out, faults>>

ReleaseSent ==
    /\ turn.at = "send"
    /\ out' = Append(out, turn.id)
    /\ ReleaseNext
    /\ UNCHANGED <<open, drainer, flow, pushed, faults>>

\* The call's teardown goes on; a later turn of the reference pushes again.
ReleaseReturns ==
    /\ turn.at = "released"
    /\ turn' = Idle
    /\ UNCHANGED <<entries, open, sending, kick, drainer, flow, pushed, out, faults>>

\* The turn's body is aborted, or panics in an effect: the entry it was sending
\* is lost, and its hold of the sending lock ends.
TurnAborted ==
    /\ turn.at \notin {"idle", "released"} /\ faults < MaxFaults
    /\ faults' = faults + 1
    /\ turn' = Idle
    /\ sending' = IF sending = "turn" THEN "none" ELSE sending
    /\ UNCHANGED <<entries, open, kick, drainer, flow, pushed, out>>

-----------------------------------------------------------------------------
(* The drainer: Outboxes::drain. *)

DrainerAt(at) == drainer.at = at

\* It reads the oldest entry, and waits for it or, its wait being none, for the
\* sending lock.
ReadHead ==
    /\ DrainerAt("head") /\ entries # <<>>
    /\ LET e == Head(entries)
       IN  drainer' = [at |-> IF e.target = 0 THEN "lock" ELSE "wait",
                       id |-> e.id, target |-> e.target,
                       why |-> IF e.target = 0 THEN "AtOnce" ELSE "none"]
    /\ UNCHANGED <<entries, open, sending, kick, turn, flow, pushed, out, faults>>

\* Nothing queued: decided again under the map lock a push queues under.
FindEmpty ==
    /\ DrainerAt("head") /\ entries = <<>>
    /\ drainer' = [NoDrainer EXCEPT !.at = "closing"]
    /\ UNCHANGED <<entries, open, sending, kick, turn, flow, pushed, out, faults>>

\* Outboxes::forget: the outbox leaves the map with what it still holds.
Forget ==
    /\ open' = FALSE /\ entries' = <<>>
    /\ drainer' = NoDrainer
    /\ UNCHANGED <<sending, kick, turn, flow, pushed, out, faults>>

\* Variant: the emptiness seen before the map lock is trusted.
Close_NoRecheck == DrainerAt("closing") /\ Forget

Close ==
    /\ DrainerAt("closing")
    /\ IF entries = <<>> THEN Forget
       ELSE /\ drainer' = [NoDrainer EXCEPT !.at = "head"]
            /\ UNCHANGED <<entries, open, sending, kick, turn, flow, pushed, out, faults>>

\* Outboxes::wait, its branches in their order: the backup applied the write,
\* and every later write of the call with it; its flow is gone; the cap
\* counted from the entry's own enqueue expired.
Why(id, target) ==
    IF applied >= target /\ applied >= written THEN "Applied"
    ELSE IF stream = "down" THEN "BackupLost"
    ELSE IF id <= expired THEN "Capped"
    ELSE "none"

WaitOver ==
    /\ DrainerAt("wait")
    /\ LET why == Why(drainer.id, drainer.target)
       IN  /\ why # "none"
           /\ drainer' = [drainer EXCEPT !.at = "lock", !.why = why]
    /\ UNCHANGED <<entries, open, sending, kick, turn, flow, pushed, out, faults>>

\* A release took the entry waited for.
Kicked ==
    /\ DrainerAt("wait") /\ kick
    /\ Why(drainer.id, drainer.target) = "none"
    /\ kick' = FALSE
    /\ drainer' = [NoDrainer EXCEPT !.at = "head"]
    /\ UNCHANGED <<entries, open, sending, turn, flow, pushed, out, faults>>

\* Variant: the head is sent, whichever it is by now.
TakeEntry_AnyHead ==
    /\ DrainerAt("lock") /\ sending = "none"
    /\ IF entries # <<>>
       THEN /\ drainer' = [drainer EXCEPT !.at = "send", !.id = Head(entries).id,
                                          !.target = Head(entries).target]
            /\ entries' = Tail(entries)
            /\ sending' = "drainer"
       ELSE drainer' = [NoDrainer EXCEPT !.at = "head"] /\ UNCHANGED <<entries, sending>>
    /\ UNCHANGED <<open, kick, turn, flow, pushed, out, faults>>

\* With the sending lock: the entry is sent if it is still the oldest.
TakeEntry ==
    /\ DrainerAt("lock") /\ sending = "none"
    /\ IF entries # <<>> /\ Head(entries).id = drainer.id
       THEN /\ drainer' = [drainer EXCEPT !.at = "send"]
            /\ entries' = Tail(entries)
            /\ sending' = "drainer"
       ELSE drainer' = [NoDrainer EXCEPT !.at = "head"] /\ UNCHANGED <<entries, sending>>
    /\ UNCHANGED <<open, kick, turn, flow, pushed, out, faults>>

\* Variant: the lock outlives the entry.
EntrySent_KeepsLock ==
    /\ DrainerAt("send")
    /\ out' = Append(out, drainer.id)
    /\ drainer' = [NoDrainer EXCEPT !.at = "head"]
    /\ UNCHANGED <<entries, open, sending, kick, turn, flow, pushed, faults>>

EntrySent ==
    /\ DrainerAt("send")
    /\ out' = Append(out, drainer.id)
    /\ sending' = "none"
    /\ drainer' = [NoDrainer EXCEPT !.at = "head"]
    /\ UNCHANGED <<entries, open, kick, turn, flow, pushed, faults>>

\* An effect panics: the entry is lost and the sending lock let go; unwinding,
\* DrainerExit takes the outbox out of the map.
DrainerPanics ==
    /\ DrainerAt("send") /\ faults < MaxFaults
    /\ faults' = faults + 1
    /\ sending' = "none"
    /\ drainer' = [NoDrainer EXCEPT !.at = "dying"]
    /\ UNCHANGED <<entries, open, kick, turn, flow, pushed, out>>

\* Variant: a drainer that panics leaves its outbox in the map.
DrainerExit_LeavesOutbox ==
    /\ DrainerAt("dying")
    /\ drainer' = NoDrainer
    /\ UNCHANGED <<entries, open, sending, kick, turn, flow, pushed, out, faults>>

DrainerExit == DrainerAt("dying") /\ Forget

-----------------------------------------------------------------------------
(* The backup's flow and the caps. *)

\* note_applied: a report makes the flow live, and raises the position applied.
BackupApplies ==
    /\ stream # "down" /\ (applied < written \/ stream = "connected")
    /\ applied' \in applied..written
    /\ reached' = IF applied' > reached THEN applied' ELSE reached
    /\ stream' = "live"
    /\ UNCHANGED <<entries, open, sending, kick, drainer, turn, written, expired,
                   pushed, out, faults, drops>>

\* ServeGuard::drop of the last stream: a wait on the position learns of it.
FlowDrops ==
    /\ stream # "down" /\ drops < MaxDrops
    /\ stream' = "down" /\ drops' = drops + 1
    /\ UNCHANGED <<entries, open, sending, kick, drainer, turn, written, applied, reached,
                   expired, pushed, out, faults>>

\* Changelog::serving, on a flow that is down or whose earlier stream still
\* runs: it claims nothing until it reports, and a pull that starts cold
\* (note_cold_pull) takes the position back to none.
FlowOpens ==
    /\ stream # "connected"
    /\ stream' = "connected" /\ applied' \in {0, applied}
    /\ IF stream = "live" THEN drops < MaxDrops /\ drops' = drops + 1 ELSE UNCHANGED drops
    /\ UNCHANGED <<entries, open, sending, kick, drainer, turn, written, reached, expired,
                   pushed, out, faults>>

\* The claim's time to live passes with no report: connected, no longer live.
ClaimLapses ==
    /\ stream = "live" /\ drops < MaxDrops
    /\ stream' = "connected" /\ drops' = drops + 1
    /\ UNCHANGED <<entries, open, sending, kick, drainer, turn, written, applied, reached,
                   expired, pushed, out, faults>>

\* Caps expire in the order the entries were queued.
CapExpires ==
    /\ expired < pushed
    /\ expired' = expired + 1
    /\ UNCHANGED <<entries, open, sending, kick, drainer, turn, written, applied, stream,
                   reached, pushed, out, faults, drops>>

-----------------------------------------------------------------------------

TurnSteps ==
    \/ DirectSent \/ Drained \/ TakeSending \/ ReleaseSent \/ ReleaseReturns

DrainerSteps ==
    \/ ReadHead \/ FindEmpty \/ Close \/ WaitOver \/ Kicked \/ TakeEntry \/ EntrySent \/ DrainerExit

OutboxNext ==
    \/ Write \/ Push \/ AwaitDrained \/ StartRelease \/ TurnAborted
    \/ TurnSteps \/ DrainerSteps \/ DrainerPanics
    \/ BackupApplies \/ FlowDrops \/ FlowOpens \/ ClaimLapses \/ CapExpires

\* The tasks run on, an effect ends, and time passes: a cap expires. Nothing is
\* asked of the backup.
OutboxFairness == WF_vars(TurnSteps) /\ WF_vars(DrainerSteps) /\ WF_vars(CapExpires)

OutboxSpec == OutboxInit /\ [][OutboxNext]_vars /\ OutboxFairness

-----------------------------------------------------------------------------
(* Properties. *)

\* The entry being sent, by the drainer or by the turn.
InFlight ==
    (IF drainer.at = "send" THEN <<drainer.id>> ELSE <<>>)
        \o (IF turn.at \in {"direct", "send"} THEN <<turn.id>> ELSE <<>>)

Ids(s) == [i \in DOMAIN s |-> s[i].id]

Ordered == INSTANCE OrderedOutbox WITH
    pending <- InFlight \o Ids(entries),
    broken <- drainer.at = "dying"

\* Whatever the interleaving of turn, drainer, release and faults, entries leave
\* in the order the turns queued them, one at a time, and none is lost but by a
\* fault: the outbox implements OrderedOutbox.
LeaveInOrder == Ordered!OrderedSpec

\* The outbox is in the map exactly while its drainer lives, entries wait only
\* there, and the sending lock is held by who is sending.
OutboxTypeOK ==
    /\ open <=> drainer.at # "none"
    /\ entries # <<>> => open
    /\ \A i \in DOMAIN entries : entries[i].id \in 1..pushed /\ entries[i].target \in 0..written
    /\ sending = "drainer" <=> drainer.at = "send"
    /\ sending = "turn" <=> turn.at = "send"
    /\ applied \in 0..reached /\ reached \in 0..written /\ expired \in 0..pushed /\ kick \in BOOLEAN

\* An entry the drainer sends was released itself, by its own write applied or
\* its own cap expired: never on the release of an entry that a turn sent while
\* the drainer waited for the lock.
SentOnItsOwnRelease ==
    drainer.at = "send" =>
        /\ drainer.why = "AtOnce" => drainer.target = 0
        /\ drainer.why = "Applied" => reached >= drainer.target
        /\ drainer.why = "Capped" => drainer.id <= expired

\* When a release returns, the call's teardown finds nothing of it queued or
\* still being sent.
ReleasedIsOut == turn.at = "released" => entries = <<>> /\ InFlight = <<>>

\* Every entry queued leaves, or is lost to a fault, whatever the backup does:
\* its cap releases it, and no entry waits behind a dead drainer.
EntriesLeave ==
    \A id \in 1..MaxPush :
        (\E i \in DOMAIN entries : entries[i].id = id)
            ~> ~(\E i \in DOMAIN entries : entries[i].id = id)

=============================================================================
