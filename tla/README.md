# TLA+ verification of the SIP B2BUA pool

This directory models the parts of the system where a bug is hardest to see and
to test: the protocols between a worker's tasks, and between a worker and the
processes it depends on. It holds TLA+ modules, TLC configurations, and TLAPS
proofs. `PROJECT.json` lists the runs, the mutants, the source lines each
definition stands for, the hazards of the code, the findings and the theorems.

Four protocols are modelled:

- the replication of calls from a primary to its backup (`SubLog`, `ReplFlow`);
- the outbox that holds a call's messages until that backup has applied what
  they record (`Outbox`, which implements `OrderedOutbox`);
- the per-call queues, their workers, and the reaper that ends calls which
  flood, hang or go stale (`CallQueue`, `Dispatch`);
- the call limiter and the worker's side of it (`LimiterStore`, `LimiterFlow`).

They are a small share of a large repository: the map covers between one and two
per cent of its lines. Section 6 says what is left out and why.

## 1. The system

Callers reach a pair of front proxies, which spread calls over a pool of B2BUA
workers. Each call has one worker as primary and usually another as backup.

| Part | Source | Model |
| --- | --- | --- |
| Change log: per peer, one compacted entry per call ref, a counter, a floor | `b2bua/src/repl/changelog*` | `SubLog`, `ReplFlow`: one peer, Backup partition |
| Replication server: bootstrap scan, tail, Noops, back-channel | `b2bua/src/repl/server*` | `ReplFlow`: Backup flow |
| Replication puller: watermark, apply, refuse, report, reset | `b2bua/src/repl/puller*` | `ReplFlow`: Backup flow |
| Replicating call store: two-part writes, tombstones, refusals | `b2bua/src/repl/store*`, `resurrection.rs`, `incarnation.rs` | `ReplFlow`: per ref |
| Replication connection | `repl-net` | `ReplFlow`: a bounded FIFO each way that may break |
| Backlog marks, peers sharing a counter, identities | `repl/changelog/{backlog,progress}.rs` | not modelled |
| Supervisor, membership, readiness | `repl/{supervisor,replication,readiness}.rs`, `topology` | not modelled |
| Takeover, reclaim, stand-down | `router/{reclaim,stand_down}.rs`, `store/takeover.rs` | not modelled |
| Per-call outbox | `b2bua/src/router/outbox.rs` | `Outbox`, `OrderedOutbox` |
| Per-call queue and worker | `b2bua/src/dispatch` | `CallQueue`, `Dispatch` |
| A call's turns | `b2bua/src/router/{process,initial_turn,release}.rs` | `Dispatch`: as far as they open, end and release a call |
| Call reaper | `b2bua/src/reaper.rs` | `Dispatch`: its verdicts and ladders |
| Drain | `drain.rs`, `node/drain.rs` | not modelled |
| Call limiter store and client | `call-limiter`, `b2bua/src/limiter` | `LimiterStore`, `LimiterFlow` |
| SIP transactions | `sip-txn`, `sip-retransmit` | not modelled |
| Proxy registry, probe, load balancer | `sip-proxy` | not modelled |
| Admission, overload, CDR buffer, task restart | `b2bua`, `load-shed`, `task-restart` | not modelled |
| Call rules, call model, SIP parser | `b2bua-core`, `call`, `sip-message` | out: sequential code, no protocol of their own |
| Media, HTTP, UDP, AMQP, metrics | `media`, `http-net`, `sip-net`, ... | out: I/O |
| Runners, harnesses, load tools | `*-runner`, `*-harness`, `e2e-*`, `loadgen`, ... | out: not the running system |

### How replication works

A turn of a call writes its body to the primary's store, then logs the call's
ref in the change log toward the backup at a fresh counter. The backup opens a
connection and pulls. A cold pull is sent a scan of every call it backs, read
at the log's head, then the tail above it; a warm one resumes from its
watermark `(gen, counter)`. A Noop marks the point where the tail caught up. The
backup reports the position it applied. The primary reads three things off that
report: whether a given write reached the backup (the outbox releases the
turn's messages), whether the backup holds a call at all (the drain ends the
calls nobody holds), and whether the flow is caught up (the drain exits).

### How a call's events run

The router offers every event of a call to the call's queue under a class, which
decides whether the event is bounded by the queue's depth, goes past it into a
counted overflow, or always has room, and whether it counts toward the call's
lifetime cap. One worker task per queue runs the items in order, each body under
a permit of a shared pool, and initial INVITEs under a share of it too. A call
that ends queues a release; the release runs before the new calls of the same
reference, and the worker leaves on it unless such a call waits behind. The
reaper hears of overflow past its ceiling, of the crossed lifetime cap and of
failed bodies, sweeps for stale calls, and posts verdicts that come back to the
call as events; a verdict that takes no effect climbs a ladder, to an abort of
the running body and then a discharge.

What a turn sends off the node goes into the call's outbox with the log position
of the turn's write. Its drainer sends each entry once the backup applied that
position, the entry's cap expired, or the backup is lost.

### How the limiter works

A call asks the limiter to admit a set of counted entries, each admit under a
higher change number. The limiter counts the set, or refuses it, and keeps it for
a lease that the worker's refreshes renew; a release drops it and fences the key.
Workers queue releases, batch refreshes, and stop asking while a breaker is
open. A refresh carries the call's set, so a limiter that restarted empty learns
it again.

## 2. The modules

**`SubLog`** has no variables. It is the sub-log of one (peer, partition) as a
record, and one operator for each operation of `SubLog` in `changelog.rs` and
its submodules: `Put`, `Forget`, `DueBatch`, `MarkSent`, `NoteScanned`,
`OpenStream`, `CloseStream`, `NoteColdPull`, `NoteApplied`, `ReapSub`, and the
questions `AppliedAny`, `HasApplied`, `CaughtUp`, `NeedsReset`. The code's two
maps, counter to ref and ref to state, are one here.

**`ReplFlow`** is the pair. Its state, by owner:

| Variables | Code |
| --- | --- |
| `gen`, `counter`, `open`, `sub` | the change log, and the log toward this backup if it exists |
| `body`, `backed`, `buried` | the primary's store, `CallMeta.backup`, its tombstones |
| `pend` | a write between its store part and its change-log part |
| `srv` | the serve task of each connection, by what it does next |
| `down`, `up` | frames in flight each way |
| `link`, `W`, `boot` | the puller's connection, retained watermark, past its first Noop |
| `replica`, `refused`, `graves` | the backup's store, refusals, tombstones |
| `heard` | the backup's present process has pulled from the primary (history) |
| `used` | how much of each bound is spent |

The actions follow the places where the code drops a lock or awaits:

- `StorePut`, `StoreDelete` / `Bump`: a write takes the metadata lock and then
  the change log's, never both;
- `Accept`, `ScanKeys`, `ScanRead`: the scan reads the head, the keys and each
  body at three different times;
- `Drain`, `DrainRead`: the entries are snapshotted under the lock, the bodies
  read without it;
- `SendFrame`, `SkipFrame`, `CatchUp`, `NoopDue`, `ReadBack`: the stream;
- `Connect`, `Receive`, `ReceiveNoop`, `ReceiveReset`, `StreamEnded`: the puller;
- `Cut`, `ServeCut`, `ServeEnd`, `RequestLost`, `PrimaryRestart`, `Reclaim`,
  `BackupRestart`, `Reap`: what ends or breaks.

**`OrderedOutbox`** is what an outbox promises: a queue whose entries leave at
the head, in order, or are lost to a fault. **`Outbox`** is one call's outbox:

| Variables | Code |
| --- | --- |
| `entries`, `open`, `kick` | `CallOutbox::entries`, the outbox in the map, the drainer's kept wake |
| `sending` | the holder of the `sending` lock |
| `drainer`, `turn` | what each task does next, and with which entry |
| `written`, `applied`, `stream` | the call's place in the log, the backup's reported position, its flow |
| `reached`, `out`, `pushed` | history |

Actions: the turn's `Push`, `DirectSent`, `AwaitDrained`, `Drained`,
`StartRelease`, `ReleaseNext`, `TakeSending`, `ReleaseSent`, `ReleaseReturns`;
the drainer's `ReadHead`, `WaitOver`, `Kicked`, `TakeEntry`, `EntrySent`,
`FindEmpty`, `Close`; the world's `BackupApplies`, `FlowDrops`, `FlowOpens`,
`ClaimLapses`, `CapExpires`; the faults `TurnAborted`, `DrainerPanics`,
`DrainerExit`. `LeaveInOrder` is the refinement.

**`CallQueue`** has no variables: a queue as a record, and `Offer`, `Release`,
`Popped`, `Reopened` of `dispatch/queue.rs` with the class table of
`dispatch/class.rs`. **`Dispatch`** is the dispatcher with the reaper:

| Variables | Code |
| --- | --- |
| `slots` | the map of call queues |
| `worker`, `ringing` | each queue's task, and a notification yet to be made |
| `call` | the resident call of a reference: stage, liveness stamp, timer |
| `posted` | verdicts in the router's re-entry channel |
| `ledger` | the reaper's `condemned`, `capped`, `strikes`, `attempts`, `condemned_attempts`, `overflow_aborts` |
| `halted` | `InFlight::halted` |
| `late` | bodies started since the halt (history) |
| `ledger[c].heard` | the crossing of the cap was reported with no earlier cap of the reference in the ledger (history) |

The router's `Invite`, `InviteCopy`, `Request`, `Cancelled`, `TimerFires`,
`TakeVerdict` each offer one item, and `Ring` wakes the worker once the locks
are dropped. The worker's `TakeItem`, `TakeRelease`, `FindsNone`, `Sleep`,
`AcquireShare`, `AcquirePool`, `Turn`, `QueueRelease` follow its loop from one
await to the next. `Panic`, `Aborted`, `Hang` end or block a body; `Sweep` is
the reaper's pass over one call, and `Halt` the fence of the node.

**`LimiterStore`** is the limiter: `AdmitCarrying`, `ReleaseKeys`, `RefreshKeys`,
`Sweep` of `call-limiter/src/store.rs` on a record of sets, counts, fences and
markers, and the specification `StoreSpec` in which they come in any order.
**`LimiterFlow`** puts the workers and the network around it:

| Variables | Code |
| --- | --- |
| `store` | the limiter process |
| `call`, `copy` | `CallLimiterState` of each call, and what its backup holds of it |
| `consult` | the failure consult under way off the call's turn |
| `reqs` | requests and answers in flight |
| `due`, `flight` | the refresh batch, waiting and sent |
| `queue`, `open` | the release queue, the breaker |

Actions: `Initial`, `Replace`, `DispatchConsult`, `Resolve`, `AdmitAnswered`,
`AdmitGivenUp`, `End` for calls; `Mark`, `TakeRefreshes`, `SendReleases`,
`GiveUpExpired` and the answers of each for the senders; `Land`, `Vanish`,
`Tick`, `Janitor`, `Restart`, `Breaker` for the network, time and the limiter;
`Replicate`, `Crash`, `Materialise` for a call that moves to another worker.

**`MCReplFlow`**, **`MCOutbox`**, **`MCDispatch`** and **`MCLimiter`**
instantiate these for TLC. The `*_proofs` modules hold the theorems.

Definitions introduced by the word "Variant" are the mutants: the operation
with a plausible mistake. No specification uses them; each shows that a property
would notice.

### What the model assumes

- `Accept` makes one step of opening the stream, noting a cold pull, deciding
  the reset, reading the head and marking what the scan will carry.
- A refusal's round trip, and the encoding of an oversized body, outlast the gap
  between the two parts of the write concerned (`pend` guards in `ReadBack`
  and `SkipFrame`). The code does not enforce this; it is a timing assumption.
- A process starts slower than a frame travels (`Reclaim`), and the idle Noop's
  interval outlasts a transit (`NoopDue`). These are timing assumptions too.
- `Reclaim` stands for the whole Reclaim flow, which is not modelled.
- Time is abstract: a claim never ages, and a log may be dropped whenever no
  stream is open. `CaughtUp` is asked with a zero age.
- Every report counts: identities bound to an ordinal are not modelled. The
  fields `unbound`, `started`, `written`, `answered` of a sub-log are kept as
  the operations set them and decide nothing here.
- The primary alone writes (`b = 0` in every version): no takeover.
- Body TTLs, the lapse of tombstones and refusals, index keys and the refusal of
  a protocol version are left out.

The list above is `ReplFlow`'s. The others:

- `Outbox`: one call at sync level `applied`. The replication flow is reduced to
  what the outbox reads of it. Its report may move anywhere up to the last
  write, stay, go back to zero on a cold pull, or be too old to count. The
  depth gauge is left out; the fence's abort of a drainer leaves by the same
  path as a panic.
- `Dispatch`: a turn is one step, from the point where its permits are held,
  and what it does is reduced to whether its call opens, stays or ends. Only
  a resident call's body hangs. The table holds all eleven classes; five arrive
  (`InitialInvite`, `OtherRequest`, `Cancelled`, `Timer`, `Internal`), and the
  only timer is the terminating timeout. Metrics, owed answers and the
  materialisation of replicas are left out. A sweep is per call, its budget of
  64 not being reached by two. `SweepAhead` bounds how far sweeps run ahead of
  a queue that moves. The counters saturate just past the last value compared
  with.
- `LimiterFlow`: a limiter list is one of a small set, and change numbers have a
  small epoch. Left out: which limiter a call's key runs on, the flush of a
  planned exit, learning the lease, backoff times, the batch maxima, and the
  re-consult chain of a refused initial route (the failure consult's chain has
  the same shape and is modelled). At most one crash: ADR-0040
  (decision 8) excepts a copy older than its previous holder's own
  materialisation, which takes two.

## 3. What TLC checks

| Run | Instance | Properties | States |
| --- | --- | --- | --- |
| `faults` | 2 refs, 1 connection, 2 writes, 2 incarnations, 1 cut anywhere, 1 backup restart, reports lost | `TypeOK`, `PositionsWithinLog`, `ShownIsHeld`, `AppliedIsCurrent`, `CaughtUpHoldsAll` | 1.4 M |
| `streams` | 1 ref, 2 connections, 2 writes, 1 cut past bootstrap, 1 log dropped, reports lost | `ShownIsHeld`, `StreamsCounted`, `ResumeSkipsNoPut`, `DeleteKeptUntilApplied` | 1.1 M |
| `live` | 2 refs, batches of 1, 2 writes, 1 cut past bootstrap, 1 refusal, 1 frame skipped | `ShownIsHeld`, `Converges`, `CatchesUp` | 0.9 M |
| `outbox_order` | 3 entries, 2 writes, 1 abort or panic, 1 change of the flow | `OutboxTypeOK`, `SentOnItsOwnRelease`, `ReleasedIsOut`, `LeaveInOrder`, `EntriesLeave` | 0.37 M |
| `dispatch_bounds` | 2 references, depth 2, cap 2, 2 permits of which 1 for new calls, eight scenarios | `DispatchTypeOK`, `WaitingExact`, `ReleaseLeadsNewCalls`, `NothingStranded`, `NewCallsKeepToShare`, `HaltRunsAtMostOne`, `CappedIsSentenced`, `LeavesTheMapEmpty`, `CondemnedCallEnds`, `QueueOfNoCallCloses` | 0.14 M |
| `limiter_safe` | 2 calls on 1 id, lease 2, seven budgets of changes and faults | `FlowTypeOK`, `CountsExact`, `EverySetLapses`, `NextAdmitIsNewer`, `SameNumberSameSet`, `SetIsOwed`, `EndedNotRefreshed`, `CapHolds` | 0.57 M |
| `limiter_live` | 1 call, four budgets | `GoneIsFreed`, `LostAnswerRepaired` | 0.06 M |

Replication:

- `ShownIsHeld`: a call the primary reads as held by the backup is held there.
- `AppliedIsCurrent`: a write read as applied is the version the backup holds.
- `CaughtUpHoldsAll`: a caught-up flow's backup holds every call it backs.
- `ResumeSkipsNoPut`: a resumed pull leaves out no write the backup lacks.
- `DeleteKeptUntilApplied`: while the backup holds a call that ended, its delete
  is still to come (in a log that was not dropped).
- `StreamsCounted`, `PositionsWithinLog`: see section 5.
- `Converges`, `CatchesUp`: the backup ends up with every call, and the flow
  ends up caught up unless a replica was refused.

Outbox:

- `LeaveInOrder`: the outbox implements the plain queue, through an action-level
  refinement: no interleaving of turn, drainer, release and fault reorders,
  repeats or loses an entry, a fault's own entry aside.
- `SentOnItsOwnRelease`: the drainer, back from the `sending` lock, does not send
  an entry on the grounds on which it released another.
- `ReleasedIsOut`: when a release returns, nothing is queued or being sent.
- `EntriesLeave`: every entry leaves, whatever the backup does.

Dispatch:

- `WaitingExact`: the overflow count is the number of past-bounds items that wait
  past the depth, also when a release cuts in and shifts them.
- `ReleaseLeadsNewCalls`: a release waits ahead of every new call of its
  reference, and what stands right behind it is a new call or nothing.
- `NothingStranded`: no item waits for a worker that will not wake.
  `LeavesTheMapEmpty` says the same of the worker's leaving.
- `NewCallsKeepToShare`: initial INVITEs leave permits for calls already here.
- `HaltRunsAtMostOne`: after a halt, a worker starts at most the item it had
  taken before it.
- `CappedIsSentenced`: a call refused at its lifetime cap has a verdict on the
  way if the reaper heard of its cap (`heard`), that is, unless its ledger held
  the cap of an earlier call of the reference at the crossing (section 4).
- `CondemnedCallEnds`, `QueueOfNoCallCloses`: a condemned call ends even if its
  body hangs, and a queue with no call goes away.

Limiter:

- `CountsExact`, `EverySetLapses`: the counters are those of the sets held, and
  no set is without the deadline that ends it.
- `NextAdmitIsNewer`, `SameNumberSameSet`: a change number is never used again
  for another set, also across a crash and a stale copy.
- `SetIsOwed`: a set the limiter may hold is one its call will release.
- `EndedNotRefreshed`: no refresh entry outlives its call's release.
- `CapHolds`: a limit is exceeded only by a set re-created after a restart.
- `GoneIsFreed`: the slots of a call that is gone are free for good in the end.
- `LostAnswerRepaired`: the limiter does not stay ahead of a call whose answer
  was lost. It may stay behind: a refresh marked before the call's last change
  can re-create a lost set under its old number.

**No single replication run has every fault at once, and that is not only for size.**
`ShownIsHeld` and `DeleteKeptUntilApplied` fail under some combinations, which
are the findings of section 4. The passing runs exclude exactly those: `streams`
and `live` let no stream break before its first Noop (`ScanCuts = FALSE`);
`live` alone refuses replicas, and loses no report; `streams` alone drops a log,
within one incarnation. Frames are skipped only in `live`, on one connection:
with two overlapping streams a second skip of one ref breaks `ResumeSkipsNoPut`,
and that case is listed as a hazard, with no property holding of it yet.
`faults` does not check `DeleteKeptUntilApplied`, for the reason of `scancut`.

**Bounds.** Two writes give a call its creation and a change, or two calls on one
ref. Two refs give a batch with an entry moved inside it. Two incarnations, or
one cut, give a stale watermark. A window of one frame makes every send able to
block. Three entries let one be sent while one is taken and one waits; two
writes give them different targets. Two references at depth two and cap two
reach overflow, the lifetime cap, the queue cap and its headroom; the scenarios
of `MCDispatch` each put together the events of one hazard, since all of them at
once are out of reach. The budgets of `MCLimiter` pair each fault with the
changes it can meet, and the lease of two ticks lets a request land before and
after a lapse. Larger instances are not part of the runs.

**Deadlock** is checked in the replication and limiter runs. A dispatcher or an
outbox whose events are all spent has nothing more to do, so their runs do not
check it; `NothingStranded`, `EntriesLeave` and `QueueOfNoCallCloses` say what a
deadlock would break. **Symmetry** permutes refs and connections
in the replication safety runs; no other run uses any.

**Fairness** (`LiveSpec`): weak fairness of `Bump` (it follows the store part in
the same function), of each serve task and of its end (tokio tasks that run
while the stream stands and end when it closes), and of the puller (a loop that
reconnects and reads for as long as its process runs). No fault is fair.

`Outbox`: weak fairness of the turn, of the drainer and of the cap's timer.
Nothing is asked of the backup. `Dispatch`: weak fairness, per reference, of the
router's steps, of the worker's (a hung body is not one), of an abort taking
effect, and of the sweep. `LimiterFlow`: weak fairness of time, of the janitor,
of the breaker closing, of each sender, and of requests landing, being answered
or being given up. Strong fairness is asked of `TakeRefreshes` alone: its task is
woken by the mark that makes the batch non-empty, and the request in flight it
waits for goes away and returns.

## 4. Where the code and its documentation disagree

Five runs expect a violation, each of one property.

- `scancut`: a bootstrap cut after some scan frames, before its first Noop,
  leaves replicas with the watermark at zero. A call that ends before the next
  cold pull is in no later scan, and its delete is at or below that scan's head:
  it is never sent, and is reaped. ADR-0055 says a delete is kept until every
  backup applied it.
- `droppedlog`: a backup that returns with an earlier incarnation's watermark
  after its log was dropped is neither reset nor sent the calls of the dropped
  log, and is then shown to hold them. `changelog.rs` and ADR-0055 say it
  re-bootstraps.
- `lostrefusal`: a refusal lost with its stream is not repeated, the watermark
  being past it. The primary keeps the backup for the call and shows it held.
  ADR-0055 says such a call has no backup for its whole life.
- `heldhead`: a replica refused in the scan before its entry is logged has the
  entry forgotten while `head` stays on it. The flow does not read as caught up
  until another write. `changelog.rs` says `head` is the position a caught-up
  puller must have reported.
- `dispatch_cappedagain`: a call crosses its lifetime cap, is sent its verdict,
  and ends by itself first. A second call on the same reference crosses the cap
  of its own queue before a sweep pruned the reaper's `capped` ledger, which is
  keyed by the reference: no verdict is sent, now or later, while the call's
  requests are refused. `dispatch/mod.rs` says the caller of the crossing offer
  must end the call and that nothing else does.

None of the three residuals ADR-0055 accepts is one of these. The third of them,
a dead backup process not reconnected, is excluded from the safety properties by
`heard`. The findings come from the model and were not reproduced on the program.

Smaller things the models show, with no run of their own:

- A verdict sent for one call of a reference can be confirmed against the next
  one and end it: residency is checked, and only stale verdicts carry a stamp.
- A worker that took its item before a halt and waits for its permits runs the
  body after it. `HaltRunsAtMostOne` states the exact bound.
- After its fourth attempt a ladder sends discharges and aborts no more.
- ADR-0040 (decision 6) says a set its own admit dropped is never registered
  again; the fence that ensures it lapses after one lease.

## 5. What is proved

Every theorem holds for all values of the constants, from the named assumptions
of the modules alone; where a theorem has a hypothesis of its own, it is part of
its statement. Of `Spec` in `ReplFlow`:

- `TypeCorrect` (`TypeOK`): inductive as it stands, one lemma per action or small
  group of actions.
- `StreamCountExact` (`StreamsCounted`): the stream count equals the number of
  running serve tasks. The invariant is `StreamInv`, which adds that a log not
  created yet counts none: without it `Accept`, which may create the log, could
  start from a wrong count. The argument is on cardinalities: each step adds one
  task to the running set, removes one, or leaves it.
- `PositionsStayWithinLog` (`PositionsWithinLog`): no watermark, cursor, frame
  or report is past the log that issued it. The invariant is `PosInv`, the same
  said of whole channels as sequences over the frames within the log, so that
  `Append` and `Tail` keep it. The lemma `Advance` says that what is within the
  log stays within it as the counter or the incarnation moves.

Of the outbox:

- `OutboxCorrect` (`SentOnItsOwnRelease`, `ReleasedIsOut`) and
  `ReleaseLeavesNothing` (`ReleasedIsOut` alone). The invariant
  `OutboxInv` adds who holds the `sending` lock at each step of either task:
  without it the drainer could be sending while a release returns. It also
  adds that what the drainer decided of an entry was earned by that entry.
- `OutboxTyped` (`OutboxTypeOK`): the outbox is in the map exactly while its
  drainer lives, entries wait only there, and each waits for a write made.
- `OutboxImplementsOrder` (`LeaveInOrder`): the entry being sent, by whichever
  task, followed by those queued, is the abstract queue. Each step is matched to
  a push, a departure, a loss or a stutter.

Of the dispatcher, from one inductive invariant, `DispatchInv`:

- `ReleaseLeads`, `NoneStranded`, `SharesKept`, `HaltStartsOne` (together
  `DispatchSafe`) and `QueuesLeaveEmpty` (`LeavesTheMapEmpty`). `DispatchInv`
  relates, for each reference, its queue, where its worker is, and the wake kept
  or about to be rung. It is shown to be kept by what a step does to one
  reference (one lemma per kind of effect); the permits are a counting argument
  over the references apart. The first part of `Dispatch_proofs` holds the
  lemmas on `Offer`, `Release` and `Popped`, for any depth and cap.
- `OverflowCounted` (`WaitingExact`): the invariant `Counted` says where the one
  item past the ceiling can be: a release that cuts in pushes it over the line,
  and it stays the first behind it until the release is popped.
- `CappedAreSentenced` (`CappedIsSentenced`): `Told` adds to `DispatchInv` that
  the verdict is in the channel, in the queue, or with the worker, and no new
  call behind it, or has run and left the call ending or condemned. "No new call
  behind it" is what makes it inductive: an INVITE run after the verdict would
  make the reference's call active again.
- `DispatchTypes` (`DispatchTypeOK`).

Of the limiter:

- `StoreCorrect` (`CountsExact`, `EverySetLapses`): each operation is a
  composition of dropping, inserting and fencing sets, and a lemma on each says
  how the number of held slots of an id changes.
- `FlowImplementsStore`: `FlowSpec` implements `StoreSpec`. It needs the types
  of requests in flight, which is `FlowInv`.
- `FlowKeepsStore` (`CountsExact`, `EverySetLapses` of the whole system) follows.
- `EndedNeverRefreshed` (`EndedNotRefreshed`). Its invariant `BatchInv` ties
  every entry of the batch to a call that still owes a release, because the
  release is what removes the entry.
- `CapsHold` (`CapHolds`): an admit moves a count only for an id it adds slots
  to, and then not past the cap its own entry states; every other step takes
  slots away, a re-creation aside.
- `SetsAreOwed` (`SetIsOwed`). `OwedInv` says that a key with a set at the
  limiter, a consult under way or a request in flight is that of a call which
  owes its release or still awaits the admit that will make it owe one, and that
  a key no call took yet has none of them. The refreshes need `BatchInv` too:
  only through it does a refresh concern a call that owes.
- `NextIsNewer` (`NextAdmitIsNewer`) and `NumberNamesOneSet`
  (`SameNumberSameSet`), under the hypothesis `OneTakeover`: a budget has at
  most one crash. It is the exception ADR-0040 (decision 8) makes itself, for "a
  copy materialised from a write older than the previous holder's own
  materialisation", which takes two. `NumInv` has two halves. Every number the
  system knows of is at or below its call's counter, and a number not used yet
  has exactly one taker: an admit in flight, a consult's reserve, or a marker of
  the store. Across a crash, a copy is of its holder's epoch, so that its next
  epoch is above all the holder gave out.
- `FlowTyped` (`FlowTypeOK`), with the bound of the release queue.

Only model-checked: `ShownIsHeld`, `AppliedIsCurrent`, `CaughtUpHoldsAll`,
`ResumeSkipsNoPut`, `DeleteKeptUntilApplied`. They hold only in the absence of
the faults of section 4, so their proofs need a hypothesis that excludes those.
The liveness properties (`Converges`, `CatchesUp`, `EntriesLeave`,
`CondemnedCallEnds`, `QueueOfNoCallCloses`, `GoneIsFreed`, `LostAnswerRepaired`)
are out of the prover's reach.

## 6. Not modelled

Where a protocol is left out, the hazards it has are listed in `PROJECT.json`
with a note.

- **Takeover, reclaim, stand-down**: both components of the version `(p, b)`,
  two flows into one store, meetings of copies. It needs `ReplFlow` with two
  writers, and `ReplFlow` with one is already over a million states.
- **Several peers on one change log**: identities, claims that age, backlog
  marks. `SubLog` would be its base.
- **Drain and readiness**: they rest on `CaughtUpHoldsAll` and `ShownIsHeld`
  here; their own ordering is not modelled.
- **SIP transactions, proxy registry, probes and load balancing**: protocols of
  their own, independent of the ones above. No model of them exists yet.
- **Admission and overload**: they decide on measurements, which a model would
  have to invent.
- **Call rules, call model, SIP parser**: sequential code over large data,
  better served by the repository's tests.
- **I/O, runners, harnesses and load tools**: not protocols, or not the running
  system. They are most of the repository's lines.

The modelled parts are not composed with each other: the outbox has its own
reduced flow instead of `ReplFlow`, and the dispatcher's turns do not push to an
outbox.
