------------------------------ MODULE ReplFlow ------------------------------
(***************************************************************************)
(* The Backup flow of one (primary, backup) pair, end to end: the          *)
(* primary's call store and change log, the serve task of each connection, *)
(* the backup's puller and its store, and the connections between them.    *)
(*                                                                         *)
(* The primary alone writes the calls (the b component of a version stays  *)
(* 0); the backup only applies.  A body is the pair of its call's          *)
(* incarnation and its version; both are drawn from one write counter.     *)
(*                                                                         *)
(* What breaks: a stream, at either end, with the reports still on it; the *)
(* primary's process (a new incarnation, an empty store refilled from the  *)
(* backup); the backup's process (an empty store, a cold watermark); the   *)
(* peer's log, dropped at the dead-peer TTL; a replica refused at the      *)
(* backup's ceiling.  Each is bounded by a constant.                       *)
(***************************************************************************)
EXTENDS SubLog, Sequences

CONSTANTS
    Conns, NoConn,     \* the connections the pair may have at a time, and none
    MaxWrites,         \* writes of the primary
    MaxGen,            \* incarnations of the primary
    MaxCuts,           \* streams that break
    MaxBackupRestarts, \* restarts of the backup's process
    MaxDrops,          \* peer logs dropped at the dead-peer TTL
    MaxSheds,          \* replicas refused at the backup's ceiling
    MaxOversize,       \* frames the transport refuses unsent
    Window,            \* frames a connection holds each way before a send blocks
    ScanCuts,          \* may a stream break before its first Noop
    LostReports        \* may a broken stream lose reports already sent on it

ASSUME FlowAssumption ==
    /\ NoConn \notin Conns /\ IsFiniteSet(Conns)
    /\ {MaxWrites, MaxGen, MaxCuts, MaxBackupRestarts, MaxDrops, MaxSheds,
        MaxOversize} \subseteq Nat
    /\ Window \in Nat \ {0}
    /\ {ScanCuts, LostReports} \subseteq BOOLEAN

VARIABLES
    gen, counter,      \* the primary's incarnation, the change log's counter
    open, sub,         \* whether the backup has a log here, and its Bak sub-log
    body,              \* the primary's store: the body of each ref
    backed,            \* the ref's metadata names the backup (`CallMeta.backup`)
    pend,              \* a write stored whose change-log bump is still to come
    buried,            \* its tombstones: the calls that ended on each ref
    srv,               \* the serve task of each connection
    down, up,          \* frames in flight to the puller, and to the primary
    link,              \* the connection the puller streams on, or NoConn
    W, boot,           \* its retained watermark; past its first catch-up Noop
    replica,           \* the backup's store: the body of each ref
    refused,           \* the incarnation of each ref whose replica it refused
    graves,            \* its tombstones: the calls ended or replaced on each ref
    heard,             \* the primary was pulled from by the backup's process
    used               \* how much of each bound is used up

primary == <<gen, counter, open, sub, body, backed, pend, buried>>
wire    == <<srv, down, up>>
backup  == <<link, W, boot, replica, refused, graves>>
vars    == <<primary, wire, backup, heard, used>>

-----------------------------------------------------------------------------

NoBody == [inc |-> 0, ver |-> 0]
NoPend == [op |-> "none", inc |-> 0]
Free   == [st |-> "free", since |-> Zero, w |-> Zero, keys |-> {}, due |-> {},
           out |-> <<>>, next |-> "drain", edge |-> TRUE]

Bodies == [inc : Nat, ver : Nat]

Budgets == {"writes", "cuts", "drops", "sheds", "restarts", "oversize"}

Spend(what) == used' = [used EXCEPT ![what] = @ + 1]

(* The log toward the backup, created at the node's counter if absent.     *)
TheLog == IF open THEN sub ELSE NewSub(counter)

-----------------------------------------------------------------------------
(* The primary's writes.  The store's part (body and metadata, under the   *)
(* metadata lock) and the change log's part (under its own lock) are two   *)
(* steps; a call's writes run one at a time.                               *)

(* `write_put`, the store's part, of a call with a backup.  A call new on  *)
(* the ref gets the backup.                                                *)
StorePut(r) ==
    /\ pend[r] = NoPend
    /\ used.writes < MaxWrites
    /\ body[r] = NoBody \/ backed[r]
    /\ Spend("writes")
    /\ body' = [body EXCEPT ![r] =
          [inc |-> IF body[r] = NoBody THEN used'.writes ELSE @.inc,
           ver |-> used'.writes]]
    /\ backed' = [backed EXCEPT ![r] = TRUE]
    /\ pend' = [pend EXCEPT ![r] = [op |-> "put", inc |-> 0]]
    /\ UNCHANGED <<gen, counter, open, sub, buried, wire, backup, heard>>

(* `write_delete`, the store's part.  A call with no backup logs nothing.  *)
StoreDelete(r) ==
    /\ pend[r] = NoPend
    /\ body[r] # NoBody
    /\ body' = [body EXCEPT ![r] = NoBody]
    /\ backed' = [backed EXCEPT ![r] = FALSE]
    /\ pend' = [pend EXCEPT ![r] =
          IF backed[r] THEN [op |-> "delete", inc |-> body[r].inc] ELSE NoPend]
    /\ buried' = [buried EXCEPT ![r] = @ \cup {body[r].inc}]
    /\ UNCHANGED <<gen, counter, open, sub, wire, backup, heard, used>>

(* `bump`: the change log's part of either.                                *)
Bump(r) ==
    /\ pend[r] # NoPend
    /\ counter' = counter + 1
    /\ open' = TRUE
    /\ sub' = Put(TheLog, counter + 1, r, pend[r].op, 0, FALSE, pend[r].inc)
    /\ pend' = [pend EXCEPT ![r] = NoPend]
    /\ UNCHANGED <<gen, body, backed, buried, wire, backup, heard, used>>

(* `Changelog::reap`: a peer with no flow for the dead-peer TTL loses its  *)
(* log; from a log that stays, the deletes the peer applied go.            *)
Reap ==
    /\ open
    /\ \/ /\ sub.streams = 0
          /\ used.drops < MaxDrops
          /\ Spend("drops")
          /\ open' = FALSE
          /\ sub' = NewSub(0)
       \/ /\ Reapable(sub, gen) # {}
          /\ sub' = ReapSub(sub, gen)
          /\ UNCHANGED <<open, used>>
    /\ UNCHANGED <<gen, counter, body, backed, pend, buried, wire, backup, heard>>

-----------------------------------------------------------------------------
(* The serve task of connection c, by what it does next: "keys" takes the  *)
(* scan's keys, "scan" reads their bodies, "drain" snapshots the entries   *)
(* due, "read" reads their bodies, "send" sends what was read (and goes on *)
(* to `next`), "caught" has caught up, "wait" waits for a write.           *)

Serving(c) == srv[c].st \notin {"free", "opening", "ended"}

(* What becomes of the slot once one end let go of it.                     *)
EndedAt(c, still) == IF still THEN [Free EXCEPT !.st = "ended"] ELSE Free

(* `serve_flow`, up to its first send: the guard, the cold pull noted, the *)
(* reset decided, the position the tail starts from.  A cold pull reads    *)
(* the head here and its keys later.                                       *)
Accept(c) ==
    LET since == srv[c].since
        cold  == since = Zero
        opened == OpenStream(TheLog, NoTime)
        noted == IF cold THEN NoteColdPull(opened) ELSE opened
        from(st, w) == [Free EXCEPT !.st = st, !.w = w]
    IN /\ srv[c].st = "opening"
       /\ open' = TRUE
       /\ heard' = (heard \/ link = c)
       /\ IF NeedsReset(noted, gen, counter, since)
          THEN /\ sub' = CloseStream(noted)
               /\ down' = [down EXCEPT ![c] =
                     IF link = c THEN Append(@, [kind |-> "reset"]) ELSE @]
               /\ srv' = [srv EXCEPT ![c] = EndedAt(c, link = c)]
          ELSE /\ sub' = IF cold THEN NoteScanned(noted, counter) ELSE noted
               /\ srv' = [srv EXCEPT ![c] =
                     IF cold THEN from("keys", Wm(gen, counter))
                     ELSE IF since.gen < gen THEN from("drain", Wm(gen, noted.opened))
                     ELSE from("drain", since)]
               /\ UNCHANGED down
       /\ UNCHANGED <<gen, counter, body, backed, pend, buried, up, backup, used>>

DataFrame(at, op, r, b) ==
    [kind |-> "data", at |-> at, op |-> op, ref |-> r, body |-> b]

(* `serve_bootstrap`: the keys of the calls the caller backs up.           *)
ScanKeys(c) ==
    LET keys == {r \in Refs : body[r] # NoBody /\ backed[r]}
    IN /\ srv[c].st = "keys"
       /\ srv' = [srv EXCEPT ![c].st = IF keys = {} THEN "drain" ELSE "scan",
                             ![c].keys = keys]
       /\ UNCHANGED <<primary, down, up, backup, heard, used>>

(* `bootstrap_frames`: a key's body read; one that vanished is left out.   *)
ScanRead(c) ==
    /\ srv[c].st = "scan"
    /\ \E r \in srv[c].keys :
          LET left == srv[c].keys \ {r}
              out == IF body[r] = NoBody THEN srv[c].out
                     ELSE Append(srv[c].out, DataFrame(srv[c].w, "put", r, body[r]))
          IN srv' = [srv EXCEPT ![c].keys = left,
                                ![c].out = out,
                                ![c].st = IF left # {} THEN "scan"
                                          ELSE IF out = <<>> THEN "drain" ELSE "send"]
    /\ UNCHANGED <<primary, down, up, backup, heard, used>>

(* `drain_since`, the snapshot under the change log's lock: as the tail    *)
(* starts, after a full batch, on a write (`written`), for the idle Noop.  *)
Drain(c) ==
    LET refs == DueBatch(sub, srv[c].w.counter, srv[c].w.gen < gen)
    IN /\ srv[c].st \in {"drain", "wait"}
       /\ refs # {}
       /\ sub' = MarkSent(sub, refs)
       /\ srv' = [srv EXCEPT ![c].st = "read",
                             ![c].due = {[ref |-> r, counter |-> sub.entry[r].counter,
                                          op |-> sub.entry[r].op,
                                          inc |-> sub.entry[r].inc] : r \in refs}]
       /\ UNCHANGED <<gen, counter, open, body, backed, pend, buried, down, up, backup,
                      heard, used>>

(* The rest of `drain_since`, the lock dropped: the lowest entry due.  A   *)
(* put's body is read now; gone, the put is skipped for the delete logged  *)
(* since, or becomes a delete naming no call.  A full batch is followed by *)
(* the next drain at once.                                                 *)
DrainRead(c) ==
    /\ srv[c].st = "read"
    /\ \E d \in srv[c].due :
          /\ \A e \in srv[c].due : d.counter <= e.counter
          /\ LET at == Wm(gen, d.counter)
                 gone == body[d.ref] = NoBody
                 skip == d.op = "put" /\ gone /\ sub.entry[d.ref].op = "delete"
                 frame == IF d.op = "put" /\ ~gone
                          THEN DataFrame(at, "put", d.ref, body[d.ref])
                          ELSE DataFrame(at, "delete", d.ref,
                                         [NoBody EXCEPT !.inc = d.inc])
                 left == srv[c].due \ {d}
                 out == IF skip THEN srv[c].out ELSE Append(srv[c].out, frame)
             IN srv' = [srv EXCEPT ![c].due = left,
                                   ![c].out = out,
                                   ![c].next = IF Len(out) = Batch THEN "drain" ELSE "caught",
                                   ![c].st = IF left # {} THEN "read"
                                             ELSE IF out = <<>> THEN "caught" ELSE "send"]
    /\ UNCHANGED <<primary, down, up, backup, heard, used>>

Room(ch) == Len(ch) < Window

(* A frame sent on a connection the puller left goes nowhere.              *)
Sent(c, frame) ==
    [down EXCEPT ![c] = IF link = c THEN Append(@, frame) ELSE @]

(* Variant: the cursor jumps to the log's counter.                         *)
PastFrameToCounter(c) ==
    LET left == Tail(srv[c].out)
    IN srv' = [srv EXCEPT ![c].out = left,
                          ![c].w = Wm(gen, counter),
                          ![c].edge = @ \/ (left = <<>> /\ srv[c].next = "drain"),
                          ![c].next = IF left = <<>> THEN "drain" ELSE @,
                          ![c].st = IF left = <<>> THEN srv[c].next ELSE "send"]

(* The cursor moves past the frame; the catch-up edge follows full batches.*)
PastFrame(c) ==
    LET f == Head(srv[c].out)
        left == Tail(srv[c].out)
        full == left = <<>> /\ srv[c].next = "drain"
    IN srv' = [srv EXCEPT ![c].out = left,
                          ![c].w = f.at,
                          ![c].edge = @ \/ full,
                          ![c].next = IF left = <<>> THEN "drain" ELSE @,
                          ![c].st = IF left = <<>> THEN srv[c].next ELSE "send"]

SendFrame(c) ==
    /\ srv[c].st = "send" /\ srv[c].out # <<>>
    /\ Room(down[c])
    /\ down' = Sent(c, Head(srv[c].out))
    /\ PastFrame(c)
    /\ UNCHANGED <<primary, up, backup, heard, used>>

(* `send_or_skip`, a put the transport refuses unsent: the stream goes on  *)
(* past it, and `abandon_backup` leaves the call on the ref with no backup *)
(* and makes its entry a delete.  Reading and encoding the body outlast    *)
(* the write that stored it, so this too does not fall between its parts.  *)
SkipFrame(c) ==
    LET f == Head(srv[c].out)
    IN /\ srv[c].st = "send" /\ srv[c].out # <<>>
       /\ f.op = "put" /\ pend[f.ref] = NoPend
       /\ used.oversize < MaxOversize /\ Spend("oversize")
       /\ backed' = [backed EXCEPT ![f.ref] = FALSE]
       /\ counter' = counter + 1
       /\ sub' = Put(sub, counter + 1, f.ref, "delete", 0, FALSE, body[f.ref].inc)
       /\ PastFrame(c)
       /\ UNCHANGED <<gen, open, body, pend, buried, down, up, backup, heard>>

(* Variant: the Noop states the log's counter.                             *)
NoopFrameAtCounter(c) == [kind |-> "noop", at |-> Wm(gen, counter)]

NoopFrame(c) == [kind |-> "noop", at |-> srv[c].w]

(* Caught up, or with nothing due: a Noop at the cursor on the catch-up    *)
(* edge, and the wait.                                                     *)
CatchUp(c) ==
    /\ \/ srv[c].st = "caught"
       \/ srv[c].st = "drain" /\ DueRefs(sub, srv[c].w.counter, srv[c].w.gen < gen) = {}
    /\ srv[c].edge => Room(down[c])
    /\ down' = IF srv[c].edge THEN Sent(c, NoopFrame(c)) ELSE down
    /\ srv' = [srv EXCEPT ![c].st = "wait", ![c].edge = FALSE, ![c].next = "drain"]
    /\ UNCHANGED <<primary, up, backup, heard, used>>

(* `noop_interval` after the last Noop: the task drains, then sends one.   *)
(* The interval outlasts a transit, so nothing is in flight by then; a     *)
(* Noop to a puller that left changes nothing and is left out.             *)
NoopDue(c) ==
    /\ srv[c].st = "wait"
    /\ link = c /\ down[c] = <<>> /\ up[c] = <<>>
    /\ srv' = [srv EXCEPT ![c].st = "drain", ![c].edge = TRUE]
    /\ UNCHANGED <<primary, down, up, backup, heard, used>>

(* The task's back-channel: a position, or a replica refused, which leaves *)
(* the call of that incarnation with no backup and no entry.  A refusal    *)
(* takes a round trip, so it does not fall between the two parts of the    *)
(* write it answers.                                                       *)
ReadBack(c) ==
    /\ Serving(c)
    /\ up[c] # <<>>
    /\ up' = [up EXCEPT ![c] = Tail(@)]
    /\ LET frame == Head(up[c])
       IN \/ /\ frame.kind = "position"
             /\ sub' = NoteApplied(sub, gen, frame.at, 0)
             /\ UNCHANGED backed
          \/ /\ frame.kind = "refused"
             /\ pend[frame.ref] = NoPend
             /\ IF backed[frame.ref] /\ body[frame.ref].inc = frame.inc
                THEN /\ sub' = Forget(sub, frame.ref)
                     /\ backed' = [backed EXCEPT ![frame.ref] = FALSE]
                ELSE UNCHANGED <<sub, backed>>
    /\ UNCHANGED <<gen, counter, open, body, pend, buried, srv, down, backup, heard, used>>

(* The task ends, and its guard's drop closes the stream in the log.  What *)
(* the puller sent and the task had not read goes with it.                 *)
TaskEnds(c) ==
    /\ Serving(c)
    /\ LostReports \/ up[c] = <<>>
    /\ sub' = CloseStream(sub)
    /\ srv' = [srv EXCEPT ![c] = EndedAt(c, link = c)]
    /\ up' = [up EXCEPT ![c] = <<>>]
    /\ UNCHANGED <<gen, counter, open, body, backed, pend, buried, down, backup, heard>>

(* The puller closed the stream.                                           *)
ServeEnd(c) ==
    /\ link # c
    /\ TaskEnds(c)
    /\ UNCHANGED used

(* The stream broke under a send.                                          *)
ServeCut(c) ==
    /\ link = c /\ (ScanCuts \/ boot)
    /\ LostReports \/ down[c] = <<>>
    /\ used.cuts < MaxCuts /\ Spend("cuts")
    /\ TaskEnds(c)

(* A request whose puller went before it was served.                       *)
RequestLost(c) ==
    /\ srv[c].st = "opening" /\ link # c
    /\ srv' = [srv EXCEPT ![c] = Free]
    /\ UNCHANGED <<primary, down, up, backup, heard, used>>

ServeStep(c) ==
    \/ Accept(c) \/ ScanKeys(c) \/ ScanRead(c) \/ Drain(c) \/ DrainRead(c)
    \/ SendFrame(c) \/ CatchUp(c) \/ NoopDue(c) \/ ReadBack(c) \/ ServeEnd(c) \/ RequestLost(c)

-----------------------------------------------------------------------------
(* The backup's puller.                                                    *)

(* `run_once`: connect, and ask from the retained watermark.  A cold pull  *)
(* drops the refusals of an earlier stream.                                *)
Connect(c) ==
    /\ link = NoConn
    /\ srv[c].st = "free"
    /\ link' = c
    /\ boot' = (W # Zero)
    /\ refused' = IF W = Zero THEN [r \in Refs |-> 0] ELSE refused
    /\ srv' = [srv EXCEPT ![c] = [Free EXCEPT !.st = "opening", !.since = W]]
    /\ UNCHANGED <<primary, down, up, W, replica, graves, heard, used>>

(* The puller leaves its connection; a serve task that already ended frees *)
(* the slot.                                                               *)
Leave(c) ==
    /\ link' = NoConn
    /\ boot' = FALSE
    /\ down' = [down EXCEPT ![c] = <<>>]
    /\ srv' = IF srv[c].st = "ended" THEN [srv EXCEPT ![c] = Free] ELSE srv

(* A put is stored that is of a call not buried, and of another call than  *)
(* the one held or past its version.                                       *)
Takes(r, b) ==
    /\ b.inc \notin graves[r]
    /\ b.inc # replica[r].inc \/ b.ver > replica[r].ver

(* Variant: no call at all is taken for a call.                            *)
NamedAlways(inc) == {inc}

Named(inc) == {inc} \ {0}

(* A replica not held yet, of a call not buried, is refused where this     *)
(* call's was before, or at the ceiling.                                   *)
MustShed(r, b) ==
    replica[r] = NoBody /\ b.inc \notin graves[r] /\ b.inc = refused[r]

MayShed(r, b) ==
    /\ replica[r] = NoBody /\ b.inc \notin graves[r]
    /\ b.inc = refused[r] \/ used.sheds < MaxSheds

(* Frames sent back to a serve task that ended go nowhere.                 *)
SentBack(c, frames) ==
    [up EXCEPT ![c] = IF srv[c].st = "ended" THEN @ ELSE @ \o frames]

PositionFrame(at) == [kind |-> "position", at |-> at]

(* Variants: the scan's frames are reported too; the position goes before  *)
(* what the apply had to tell.                                             *)
ReportedWhileBootstrapping(c, at, told) ==
    /\ W' = IF boot THEN at ELSE W
    /\ up' = SentBack(c, Append(told, PositionFrame(at)))

ReportedFirst(c, at, told) ==
    /\ W' = IF boot THEN at ELSE W
    /\ up' = SentBack(c, IF boot THEN <<PositionFrame(at)>> \o told ELSE told)

(* After `apply_to_store`: past bootstrap the watermark moves to the frame *)
(* and the puller reports it, after what the apply had to tell.            *)
Reported(c, at, told) ==
    /\ W' = IF boot THEN at ELSE W
    /\ up' = SentBack(c, IF boot THEN Append(told, PositionFrame(at)) ELSE told)

ApplyPut(c) ==
    LET f == Head(down[c])
        r == f.ref
    IN /\ f.kind = "data" /\ f.op = "put"
       /\ ~MustShed(r, f.body)
       /\ IF Takes(r, f.body)
          THEN /\ replica' = [replica EXCEPT ![r] = f.body]
               /\ refused' = [refused EXCEPT ![r] = 0]
               /\ graves' = [graves EXCEPT ![r] =
                     @ \cup (Named(replica[r].inc) \ {f.body.inc})]
          ELSE UNCHANGED <<replica, refused, graves>>
       /\ Reported(c, f.at, <<>>)
       /\ UNCHANGED used

ShedPut(c) ==
    LET f == Head(down[c])
    IN /\ f.kind = "data" /\ f.op = "put"
       /\ MayShed(f.ref, f.body)
       /\ IF f.body.inc = refused[f.ref] THEN UNCHANGED used ELSE Spend("sheds")
       /\ refused' = [refused EXCEPT ![f.ref] = f.body.inc]
       /\ Reported(c, f.at, <<[kind |-> "refused", ref |-> f.ref, inc |-> f.body.inc]>>)
       /\ UNCHANGED <<replica, graves>>

(* A delete of another call than the one held leaves it, and buries that   *)
(* call alone.                                                             *)
ApplyDelete(c) ==
    LET f == Head(down[c])
        r == f.ref
        another == f.body.inc # 0 /\ replica[r] # NoBody /\ f.body.inc # replica[r].inc
    IN /\ f.kind = "data" /\ f.op = "delete"
       /\ replica' = IF another THEN replica ELSE [replica EXCEPT ![r] = NoBody]
       /\ refused' = IF another THEN refused ELSE [refused EXCEPT ![r] = 0]
       /\ graves' = [graves EXCEPT ![r] =
             @ \cup Named(IF f.body.inc # 0 THEN f.body.inc ELSE replica[r].inc)]
       /\ Reported(c, f.at, <<>>)
       /\ UNCHANGED used

Receive(c) ==
    /\ link = c
    /\ down[c] # <<>>
    /\ Room(up[c])
    /\ ApplyPut(c) \/ ShedPut(c) \/ ApplyDelete(c)
    /\ down' = [down EXCEPT ![c] = Tail(@)]
    /\ UNCHANGED <<primary, srv, link, boot, heard>>

(* Variant: only the Noop that ends the bootstrap is answered.             *)
NoopAnsweredOnce(c, at) ==
    IF boot THEN up ELSE SentBack(c, <<PositionFrame(at)>>)

NoopAnswer(c, at) == SentBack(c, <<PositionFrame(at)>>)

(* A Noop ends the bootstrap, and is answered with the position it states. *)
ReceiveNoop(c) ==
    LET f == Head(down[c])
    IN /\ link = c
       /\ down[c] # <<>>
       /\ Room(up[c])
       /\ f.kind = "noop"
       /\ boot' = TRUE
       /\ W' = IF WmLt(W, f.at) THEN f.at ELSE W
       /\ up' = NoopAnswer(c, f.at)
       /\ down' = [down EXCEPT ![c] = Tail(@)]
       /\ UNCHANGED <<primary, srv, link, replica, refused, graves, heard, used>>

(* `ResetToBootstrap`: the watermark is discarded and the stream left.     *)
ReceiveReset(c) ==
    /\ link = c
    /\ down[c] # <<>>
    /\ Head(down[c]).kind = "reset"
    /\ W' = Zero
    /\ Leave(c)
    /\ UNCHANGED <<primary, up, replica, refused, graves, heard, used>>

(* The stream ended at the primary, and all it carried is read.            *)
StreamEnded(c) ==
    /\ link = c
    /\ srv[c].st = "ended"
    /\ down[c] = <<>>
    /\ Leave(c)
    /\ UNCHANGED <<primary, up, W, replica, refused, graves, heard, used>>

(* The stream breaks under the puller (an idle bound, a reset, a failed    *)
(* send): what it had not read is lost, the watermark is retained.         *)
Cut(c) ==
    /\ link = c
    /\ ScanCuts \/ boot
    /\ used.cuts < MaxCuts /\ Spend("cuts")
    /\ Leave(c)
    /\ UNCHANGED <<primary, up, W, replica, refused, graves, heard>>

PullStep(c) ==
    \/ Connect(c) \/ Receive(c) \/ ReceiveNoop(c) \/ ReceiveReset(c) \/ StreamEnded(c)

-----------------------------------------------------------------------------
(* The processes restart.                                                  *)

(* Variant: the change log starts again under the incarnation it had.      *)
PrimaryRestartSameGen ==
    /\ gen < MaxGen
    /\ counter' = 0
    /\ open' = FALSE
    /\ sub' = NewSub(0)
    /\ body' = [r \in Refs |-> NoBody]
    /\ backed' = [r \in Refs |-> FALSE]
    /\ pend' = [r \in Refs |-> NoPend]
    /\ buried' = [r \in Refs |-> {}]
    /\ srv' = [c \in Conns |-> EndedAt(c, link = c)]
    /\ up' = [c \in Conns |-> <<>>]
    /\ UNCHANGED <<gen, down, backup, heard, used>>

(* A new incarnation of the primary holds nothing; what it had sent may    *)
(* still be read.                                                          *)
PrimaryRestart ==
    /\ gen < MaxGen
    /\ gen' = gen + 1
    /\ counter' = 0
    /\ open' = FALSE
    /\ sub' = NewSub(0)
    /\ body' = [r \in Refs |-> NoBody]
    /\ backed' = [r \in Refs |-> FALSE]
    /\ pend' = [r \in Refs |-> NoPend]
    /\ buried' = [r \in Refs |-> {}]
    /\ srv' = [c \in Conns |-> EndedAt(c, link = c)]
    /\ up' = [c \in Conns |-> <<>>]
    /\ UNCHANGED <<down, backup, heard, used>>

(* A restarted primary takes a call of its own back from the backup's      *)
(* store (the Reclaim flow), with the backup re-established.  A process    *)
(* starts slower than a frame travels: the backup has read by then what    *)
(* the earlier incarnation sent.  It reclaims before it serves, so no call *)
(* has ended on the ref under this incarnation.                            *)
Reclaim(r) ==
    /\ gen > 1
    /\ \A c \in Conns : srv[c].st = "ended" => down[c] = <<>>
    /\ body[r] = NoBody /\ pend[r] = NoPend
    /\ replica[r] # NoBody /\ buried[r] = {}
    /\ body' = [body EXCEPT ![r] = replica[r]]
    /\ backed' = [backed EXCEPT ![r] = TRUE]
    /\ UNCHANGED <<gen, counter, open, sub, pend, buried, wire, backup, heard, used>>

(* The backup's process restarts under the same identity.  Its streams and *)
(* the reports on them die with it.                                        *)
BackupRestart ==
    /\ used.restarts < MaxBackupRestarts
    /\ Spend("restarts")
    /\ heard' = FALSE
    /\ link' = NoConn /\ W' = Zero /\ boot' = FALSE
    /\ replica' = [r \in Refs |-> NoBody]
    /\ refused' = [r \in Refs |-> 0]
    /\ graves' = [r \in Refs |-> {}]
    /\ srv' = [c \in Conns |-> IF srv[c].st = "ended" THEN Free ELSE srv[c]]
    /\ down' = [c \in Conns |-> <<>>]
    /\ up' = [c \in Conns |-> <<>>]
    /\ UNCHANGED primary

-----------------------------------------------------------------------------

Init ==
    /\ gen = 1 /\ counter = 0
    /\ open = FALSE /\ sub = NewSub(0)
    /\ body = [r \in Refs |-> NoBody]
    /\ backed = [r \in Refs |-> FALSE]
    /\ pend = [r \in Refs |-> NoPend]
    /\ buried = [r \in Refs |-> {}]
    /\ srv = [c \in Conns |-> Free]
    /\ down = [c \in Conns |-> <<>>]
    /\ up = [c \in Conns |-> <<>>]
    /\ link = NoConn /\ W = Zero /\ boot = FALSE
    /\ replica = [r \in Refs |-> NoBody]
    /\ refused = [r \in Refs |-> 0]
    /\ graves = [r \in Refs |-> {}]
    /\ heard = TRUE
    /\ used = [b \in Budgets |-> 0]

Next ==
    \/ \E r \in Refs : StorePut(r) \/ StoreDelete(r) \/ Bump(r) \/ Reclaim(r)
    \/ \E c \in Conns : ServeStep(c) \/ SkipFrame(c) \/ ServeCut(c) \/ PullStep(c) \/ Cut(c)
    \/ Reap \/ PrimaryRestart \/ BackupRestart

Spec == Init /\ [][Next]_vars

(* A write's bump follows its store part in the same call; a serve task    *)
(* and its back-channel reader run while the stream stands, and end once   *)
(* it is closed; the puller reconnects for as long as it runs and reads    *)
(* what the stream carries.                                                *)
Fairness ==
    /\ \A r \in Refs : WF_vars(Bump(r))
    /\ \A c \in Conns : WF_vars(ServeStep(c)) /\ WF_vars(ServeEnd(c))
    /\ WF_vars(\E c \in Conns : PullStep(c))

LiveSpec == Spec /\ Fairness

-----------------------------------------------------------------------------
(* Properties.                                                             *)

DataFrames == [kind : {"data"}, at : Watermarks, op : Ops, ref : Refs, body : Bodies]

Frames == DataFrames \cup [kind : {"noop"}, at : Watermarks] \cup [kind : {"reset"}]

Reports == [kind : {"position"}, at : Watermarks]
           \cup [kind : {"refused"}, ref : Refs, inc : Nat]

Tasks == [st : {"free", "opening", "keys", "scan", "drain", "read", "send", "caught",
                "wait", "ended"},
          since : Watermarks, w : Watermarks, keys : SUBSET Refs,
          due : SUBSET [ref : Refs, counter : Nat, op : Ops \cup {"none"}, inc : Nat],
          out : Seq(DataFrames), next : {"drain", "caught"}, edge : BOOLEAN]

(* The state variables have the shape the code's types give them.          *)
TypeOK ==
    /\ gen \in Nat \ {0} /\ counter \in Nat /\ open \in BOOLEAN
    /\ sub \in SubLogs
    /\ body \in [Refs -> Bodies] /\ replica \in [Refs -> Bodies]
    /\ backed \in [Refs -> BOOLEAN]
    /\ pend \in [Refs -> [op : Ops \cup {"none"}, inc : Nat]]
    /\ buried \in [Refs -> SUBSET Nat]
    /\ graves \in [Refs -> SUBSET (Nat \ {0})]
    /\ refused \in [Refs -> Nat]
    /\ srv \in [Conns -> Tasks]
    /\ down \in [Conns -> Seq(Frames)] /\ up \in [Conns -> Seq(Reports)]
    /\ link \in Conns \cup {NoConn} /\ W \in Watermarks
    /\ boot \in BOOLEAN /\ heard \in BOOLEAN
    /\ used \in [Budgets -> Nat]

(* Every stream the sub-log counts is a serve task that runs, and every    *)
(* running task is counted: a second stream's end neither hides the first  *)
(* one from the dead-peer reap nor keeps a dead peer's log.                *)
StreamsCounted ==
    sub.streams = Cardinality({c \in Conns : Serving(c)})

(* No position anywhere is past the change log that issued it: not the     *)
(* puller's watermark, nor a frame's or a report's in flight, nor a serve  *)
(* task's cursor, nor what the backup is recorded to have applied.  The    *)
(* reset of a pull ahead of the log is then for no pull of this pair.      *)
Within(w) == w.gen < gen \/ (w.gen = gen /\ w.counter <= counter)

PositionsWithinLog ==
    /\ Within(W) /\ Within(sub.acked) /\ Within(sub.applied.at)
    /\ sub.floor <= counter /\ sub.opened <= counter /\ sub.head <= counter
    /\ \A r \in Refs : sub.entry[r].counter <= counter /\ sub.entry[r].sent <= counter
    /\ \A c \in Conns :
          /\ Within(srv[c].since) /\ Within(srv[c].w)
          /\ \A d \in srv[c].due : d.counter <= counter
          /\ \A i \in 1..Len(srv[c].out) : Within(srv[c].out[i].at)
          /\ \A i \in 1..Len(down[c]) : down[c][i].kind # "reset" => Within(down[c][i].at)
          /\ \A i \in 1..Len(up[c]) : up[c][i].kind = "position" => Within(up[c][i].at)

(* A call the primary serves with the backup named, no write of it half    *)
(* done.                                                                   *)
Backed(r) == body[r] # NoBody /\ backed[r] /\ pend[r] = NoPend

(* The backup holds the very version of the call the primary holds.        *)
HoldsCurrent(r) == replica[r] = body[r]

(* What `applied_any` shows the backup holding it holds: some version of   *)
(* the call now on the ref (`end_unheld` leaves such a call to the backup  *)
(* and ends nothing).                                                      *)
ShownIsHeld ==
    open /\ heard => \A r \in Refs :
        Backed(r) /\ AppliedAny(sub, gen, r) => replica[r].inc = body[r].inc

(* Once the position the backup reported reaches a call's entry, the       *)
(* backup holds that very write (the outbox releases the turn's messages). *)
AppliedIsCurrent ==
    open /\ heard => \A r \in Refs :
        Backed(r) /\ HasApplied(sub, gen, r) => HoldsCurrent(r)

(* A caught-up flow's backup holds every call with it as backup (the       *)
(* withdrawn primary's drain exits on it).                                 *)
CaughtUpHoldsAll ==
    open /\ heard /\ CaughtUp(sub, gen, 0, 0) =>
        \A r \in Refs : Backed(r) => HoldsCurrent(r)

(* A pull would resume from the watermark, and what it would still send.   *)
Resumes == open /\ W.gen = gen /\ ~NeedsReset(sub, gen, counter, W)
StillDue(r) == r \in Logged(sub) /\ sub.entry[r].counter > W.counter

(* Resuming from its watermark skips nothing: unless it is reset, the      *)
(* backup already holds every put the resumed tail leaves out, or refused  *)
(* the call.                                                               *)
ResumeSkipsNoPut ==
    Resumes => \A r \in Refs :
        Backed(r) /\ ~StillDue(r) => HoldsCurrent(r) \/ refused[r] = body[r].inc

(* A delete is kept until the backup applied it: while the backup holds    *)
(* the last call that ended on a ref, the delete (or the put of the next   *)
(* call, one with the backup) is still to be sent to it.  A log dropped at *)
(* the dead-peer TTL takes its deletes with it.                            *)
DeleteKeptUntilApplied ==
    Resumes /\ used.drops = 0 => \A r \in Refs :
        /\ pend[r] = NoPend
        /\ body[r] = NoBody \/ backed[r]
        /\ replica[r].inc \in buried[r]
        /\ \A i \in buried[r] : i <= replica[r].inc
        => StillDue(r)

(* Whatever broke, the backup ends up holding every call it backs in the   *)
(* version the primary holds.                                              *)
Converges == <>[](\A r \in Refs : Backed(r) => HoldsCurrent(r))

(* Unless a replica was refused, the flow ends up caught up: the drain of  *)
(* a withdrawn primary, which waits for that, is not held for ever.        *)
CatchesUp == <>[](used.sheds = 0 => open /\ CaughtUp(sub, gen, 0, 0))

(* The same whatever was refused: `head` "is the position a caught-up      *)
(* puller must have reported".                                             *)
AlwaysCatchesUp == <>[](open /\ CaughtUp(sub, gen, 0, 0))

=============================================================================
