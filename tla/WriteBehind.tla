---------------------------- MODULE WriteBehind ----------------------------
(***************************************************************************)
(* The write-behind storage of one session: the write handle of            *)
(* session-persistence-jsonl/src/storage.ts (live buffer, batching timer,  *)
(* single-flight drain, mutation chain, close), the in-process claim and   *)
(* the kernel lock, and the file it appends to (src/index.ts, src/lease.ts)*)
(* under failed writes, crashes and reopening.                             *)
(*                                                                         *)
(* An event is its seq.  A step is what runs between two awaits; I/O and   *)
(* timers of a process wait until its microtasks have run (Quiet).         *)
(***************************************************************************)
EXTENDS Integers, FiniteSets, SequencesExt

CONSTANTS NumHandles,     \* write handles opened over the session's life
          Procs,          \* processes sharing the session's directory
          Flushers,       \* callers of the session/flush barrier
          MaxEvents,      \* bound on the events of the session
          MaxFailures,    \* bound on failed writes
          MaxCrashes,     \* bound on process crashes
          LateProducers   \* events may still be published after close's last look
                          \* at the buffer

Handles == 1 .. NumHandles

ASSUME StorageAssumption ==
  /\ NumHandles \in Nat \ {0} /\ MaxEvents \in Nat
  /\ MaxFailures \in Nat /\ MaxCrashes \in Nat
  /\ LateProducers \in BOOLEAN
  /\ Procs # {} /\ "none" \notin Procs \cup Flushers

VARIABLES disk,      \* the file: published?, its complete events, a torn tail?, and the
                     \* complete events a reader recovers from that tail
          lock,      \* the handle whose descriptor holds the kernel lock, 0 for none
          claim,     \* each process's writer of the session, 0 for none
          handle,    \* each handle's fields
          flusher,   \* each flush caller's progress
          failures, crashes    \* spent of their bounds

vars == <<disk, lock, claim, handle, flusher, failures, crashes>>

Seqs(n, m) == [i \in 1 .. m |-> n + i - 1]     \* the seqs of m events from n on

Fresh == [life |-> "new", home |-> "none", leased |-> FALSE, cursor |-> 0,
          materialized |-> FALSE, repair |-> "none", recovered |-> <<>>,
          buffered |-> <<>>, batch |-> <<>>, timer |-> FALSE, paused |-> FALSE,
          drain |-> "none", chain |-> <<>>, at |-> "idle",
          closing |-> "open", wait |-> 0, closeFailed |-> FALSE, next |-> 0]

Op(op, by) == [op |-> op, by |-> by]

Init == /\ disk = [exists |-> FALSE, log |-> <<>>, torn |-> FALSE, tail |-> <<>>]
        /\ lock = 0
        /\ claim = [p \in Procs |-> 0]
        /\ handle = [h \in Handles |-> Fresh]
        /\ flusher = [f \in Flushers |-> [at |-> "idle", on |-> 0, mark |-> 0, late |-> FALSE]]
        /\ failures = 0 /\ crashes = 0

Alive(h) == handle[h].life \notin {"new", "dead"}

(* What a process still has to run before its next I/O completion or timer.*)
MicroPending(h) ==
  \/ handle[h].drain \in {"check", "gap", "failed"}
  \/ handle[h].at = "idle" /\ handle[h].chain # <<>>
  \/ handle[h].closing \in {"chain", "last"} /\ handle[h].wait = 0
  \/ handle[h].closing = "released"
  \/ \E f \in Flushers : flusher[f].on = h /\ flusher[f].at = "ready"
Quiet(h) == \A g \in Handles : Alive(g) /\ handle[g].home = handle[h].home => ~MicroPending(g)

-----------------------------------------------------------------------------
(* create and open(id, "write").  The claim, the lock and the read of an   *)
(* open are one step: while it holds both, nobody else writes.             *)
Unused(h) == handle[h].life = "new" /\ \A g \in 1 .. h - 1 : handle[g].life # "new"

Create(h, p) ==
  /\ Unused(h) /\ claim[p] = 0 /\ ~disk.exists
  /\ \A g \in Handles : handle[g].life \in {"new", "closed", "dead"}
  /\ handle' = [handle EXCEPT ![h] = [Fresh EXCEPT !.life = "opened", !.home = p]]
  /\ claim' = [claim EXCEPT ![p] = h]
  /\ UNCHANGED <<disk, lock, flusher, failures, crashes>>

Open(h, p) ==
  LET stored == Len(disk.log) + Len(disk.tail)
  IN /\ Unused(h) /\ claim[p] = 0 /\ lock = 0 /\ disk.exists
     /\ handle' = [handle EXCEPT ![h] =
          [Fresh EXCEPT !.life = "opened", !.home = p, !.leased = TRUE,
                        !.cursor = stored, !.next = stored, !.materialized = TRUE,
                        !.repair = IF disk.torn THEN "truncate" ELSE "none",
                        !.recovered = disk.tail]]
     /\ claim' = [claim EXCEPT ![p] = h]
     /\ lock' = h
     /\ UNCHANGED <<disk, flusher, failures, crashes>>

(* The owner publishes the session, after an append of its own (the        *)
(* closers of a resumed turn, the suffix of a fresh session) or without.   *)
AppendClosers(h) ==
  /\ handle[h].life = "opened" /\ handle[h].closing = "open" /\ handle[h].next < MaxEvents
  /\ handle' = [handle EXCEPT ![h].life = "appending",
                              ![h].chain = Append(@, Op("append", "none"))]
  /\ UNCHANGED <<disk, lock, claim, flusher, failures, crashes>>

PublishSession(h) ==
  /\ handle[h].life = "opened" /\ handle[h].closing = "open"
  /\ handle' = [handle EXCEPT ![h].life = "live"]
  /\ UNCHANGED <<disk, lock, claim, flusher, failures, crashes>>

-----------------------------------------------------------------------------
(* enqueueLive: the buffer, and a timer unless one is armed or the last    *)
(* drain failed.  Mutation: none while a drain is there to take the event. *)
EnqueuedForDrain(r, seq) ==
  [r EXCEPT !.buffered = Append(@, seq), !.timer = @ \/ (~r.paused /\ r.drain = "none")]
Enqueued(r, seq) ==
  [r EXCEPT !.buffered = Append(@, seq), !.timer = @ \/ ~r.paused]

(* session/event: the session of h logs an event, routed to the writer its *)
(* process then has.                                                       *)
Publish(h) ==
  LET writer == claim[handle[h].home]
      logged == [handle EXCEPT ![h].next = @ + 1]
  IN /\ handle[h].life = "live" /\ handle[h].next < MaxEvents
     /\ LateProducers \/ handle[h].closing \in {"open", "drain", "chain"}
     /\ handle' = IF writer = 0 THEN logged
                  ELSE [logged EXCEPT ![writer] = Enqueued(@, handle[h].next)]
     /\ UNCHANGED <<disk, lock, claim, flusher, failures, crashes>>

(* drainLive: join the drain there is, or start one.  A drain that found   *)
(* the buffer empty is over, but `draining` is cleared a microtask later   *)
(* ("gap").                                                                *)
DrainStarted(r) ==
  LET cleared == [r EXCEPT !.timer = FALSE, !.paused = FALSE]
  IN IF r.buffered = <<>> THEN [cleared EXCEPT !.drain = "gap"]
     ELSE [cleared EXCEPT !.drain = "queued", !.chain = Append(@, Op("drain", "none"))]
DrainLive(r) == IF r.drain = "none" THEN DrainStarted(r) ELSE r

TimerFires(h) ==
  /\ Alive(h) /\ handle[h].timer /\ Quiet(h)
  /\ handle' = [handle EXCEPT ![h] = DrainLive([@ EXCEPT !.timer = FALSE])]
  /\ UNCHANGED <<disk, lock, claim, flusher, failures, crashes>>

(* The session/flush listener and flushAll: drain, then handle.flush().    *)
(* A caller calls at any point, and again in a later turn of the loop.     *)
Flush(f, p) ==
  LET h == claim[p]
  IN /\ h # 0
     /\ \/ flusher[f].at = "idle"
        \/ flusher[f].at \in {"returned", "rejected"} /\ Quiet(h)
     /\ flusher' = [flusher EXCEPT ![f] = [at |-> "drain", on |-> h, mark |-> handle[h].next,
                                           late |-> handle[h].drain = "gap"]]
     /\ handle' = [handle EXCEPT ![h] = DrainLive(@)]
     /\ UNCHANGED <<disk, lock, claim, failures, crashes>>

(* The loop of drainBuffered, after a turn of its own.  Mutation: one turn *)
(* is enough.                                                              *)
DrainOnce(h) ==
  /\ handle[h].drain = "check"
  /\ handle' = [handle EXCEPT ![h].drain = "gap"]
  /\ UNCHANGED <<disk, lock, claim, flusher, failures, crashes>>

DrainChecks(h) ==
  LET r == handle[h]
  IN /\ r.drain = "check"
     /\ handle' = [handle EXCEPT ![h] =
          IF r.buffered = <<>> THEN [r EXCEPT !.drain = "gap"]
          ELSE [r EXCEPT !.drain = "queued", !.chain = Append(@, Op("drain", "none"))]]
     /\ UNCHANGED <<disk, lock, claim, flusher, failures, crashes>>

(* `draining` is cleared and everyone who awaits the drain goes on: the    *)
(* flush callers, and close, which awaits the chain as it is now.          *)
DrainSettles(h) ==
  LET ok == handle[h].drain = "gap"
      r  == [handle[h] EXCEPT !.drain = "none"]
  IN /\ handle[h].drain \in {"gap", "failed"}
     /\ handle' = [handle EXCEPT ![h] =
          IF r.closing # "drain" THEN r
          ELSE [r EXCEPT !.closing = IF ok THEN "chain" ELSE "last",
                         !.closeFailed = ~ok, !.wait = Len(r.chain)]]
     /\ flusher' = [f \in Flushers |->
          IF flusher[f].at = "drain" /\ flusher[f].on = h
          THEN [flusher[f] EXCEPT !.at = IF ok THEN "ready" ELSE "rejected"]
          ELSE flusher[f]]
     /\ UNCHANGED <<disk, lock, claim, failures, crashes>>

(* handle.flush(): refused on a closing handle, else a turn of the chain. *)
Barrier(f) ==
  LET h == flusher[f].on
  IN /\ flusher[f].at = "ready"
     /\ IF handle[h].closing # "open"
        THEN flusher' = [flusher EXCEPT ![f].at = "rejected"] /\ UNCHANGED handle
        ELSE /\ flusher' = [flusher EXCEPT ![f].at = "barrier"]
             /\ handle' = [handle EXCEPT ![h].chain = Append(@, Op("flush", f))]
     /\ UNCHANGED <<disk, lock, claim, failures, crashes>>

-----------------------------------------------------------------------------
(* The mutation chain: one operation at a time, in call order.             *)
Popped(r) == [r EXCEPT !.chain = Tail(@), !.at = "idle", !.batch = <<>>,
                       !.wait = IF @ = 0 THEN 0 ELSE @ - 1]

Succeeded(r) ==
  LET op == Head(r.chain).op
  IN [Popped(r) EXCEPT !.drain = IF op = "drain" THEN "check" ELSE @,
                       !.life = IF op = "append" THEN "live" ELSE @,
                       !.next = IF op = "append" THEN @ + 1 ELSE @]

(* A failed drain puts its batch back before what arrived meanwhile.       *)
(* Mutations: behind it; the drain is never settled.                       *)
RebufferedBehind(r) == r.buffered \o r.batch
Rebuffered(r) == r.batch \o r.buffered

FailedUnsettled(r) == [Popped(r) EXCEPT !.buffered = Rebuffered(r), !.paused = TRUE]
Failed(r) ==
  IF Head(r.chain).op = "drain"
  THEN [Popped(r) EXCEPT !.drain = "failed", !.paused = TRUE, !.buffered = Rebuffered(r)]
  ELSE [Popped(r) EXCEPT !.life = IF Head(r.chain).op = "append" THEN "failed" ELSE @]

(* The flush whose turn it was returns.  What it promises is what was      *)
(* logged at its call; with the torn tail still to be rewritten nothing    *)
(* was appended through this handle, and it promises nothing.              *)
Answered(h, ok) ==
  LET op == Head(handle[h].chain)
  IN IF op.op # "flush" THEN flusher
     ELSE [flusher EXCEPT ![op.by].at = IF ok THEN "returned" ELSE "rejected",
                          ![op.by].mark = IF handle[h].repair = "none" THEN @ ELSE 0]

(* The next await of the operation: ensureLease, truncateTornTail, the     *)
(* rewrite of the recovered events, the batch (or the header) itself.      *)
(* Mutations: the torn tail left in place; a file published without lock.  *)
NextWriteUnrepaired(r) == IF r.leased THEN "persist" ELSE "lease"
NextWriteUnlocked(r)   == IF r.repair # "none" THEN r.repair ELSE "persist"
NextWrite(r) == IF ~r.leased THEN "lease"
                ELSE IF r.repair # "none" THEN r.repair
                ELSE "persist"

TurnBegins(h) ==
  LET r  == handle[h]
      op == Head(r.chain).op
      refused  == op # "drain" /\ r.closing # "open"
      finished == op = "flush" /\ r.materialized
      taken == [r EXCEPT !.batch = CASE op = "drain" -> r.buffered
                                     [] op = "append" -> <<r.next>>
                                     [] OTHER -> <<>>,
                         !.buffered = IF op = "drain" THEN <<>> ELSE @]
  IN /\ r.chain # <<>> /\ r.at = "idle"
     /\ ~(r.closing \in {"chain", "last"} /\ r.wait = 0)   \* close awaited the chain first
     /\ handle' = [handle EXCEPT ![h] = IF refused THEN Failed(r)
                                        ELSE IF finished THEN Succeeded(r)
                                        ELSE [taken EXCEPT !.at = NextWrite(r)]]
     /\ flusher' = IF refused \/ finished THEN Answered(h, ~refused) ELSE flusher
     /\ UNCHANGED <<disk, lock, claim, failures, crashes>>

Contiguous(r) == r.batch # <<>> => r.batch[1] = r.cursor

LeaseTaken(h) ==
  LET r == [handle[h] EXCEPT !.leased = TRUE]
  IN /\ handle[h].at = "lease" /\ Quiet(h) /\ lock = 0
     /\ lock' = h
     /\ handle' = [handle EXCEPT ![h] = [r EXCEPT !.at = NextWrite(r)]]
     /\ UNCHANGED <<disk, claim, flusher, failures, crashes>>

(* The torn bytes go, and with them the copy the recovered events had. *)
Truncated(h) ==
  LET r == [handle[h] EXCEPT !.repair = IF handle[h].recovered = <<>> THEN "none" ELSE "rewrite"]
  IN /\ handle[h].at = "truncate" /\ Quiet(h) /\ Contiguous(r)
     /\ disk' = [disk EXCEPT !.torn = FALSE, !.tail = <<>>]
     /\ handle' = [handle EXCEPT ![h] = [r EXCEPT !.at = NextWrite(r)]]
     /\ UNCHANGED <<lock, claim, flusher, failures, crashes>>

Rewritten(h) ==
  /\ handle[h].at = "rewrite" /\ Quiet(h)
  /\ disk' = [disk EXCEPT !.log = @ \o handle[h].recovered]
  /\ handle' = [handle EXCEPT ![h].repair = "none", ![h].recovered = <<>>, ![h].at = "persist"]
  /\ UNCHANGED <<lock, claim, flusher, failures, crashes>>

(* Append to the file, or publish it: publication refuses a file that is   *)
(* already there.                                                          *)
CanPersist(r) == Contiguous(r) /\ (disk.exists => r.materialized)

Persisted(h) ==
  LET r == handle[h]
  IN /\ r.at = "persist" /\ Quiet(h) /\ CanPersist(r)
     /\ disk' = [disk EXCEPT !.exists = TRUE, !.log = @ \o r.batch]
     /\ handle' = [handle EXCEPT ![h] =
          Succeeded([r EXCEPT !.materialized = TRUE, !.cursor = @ + Len(r.batch)])]
     /\ flusher' = Answered(h, TRUE)
     /\ UNCHANGED <<lock, claim, failures, crashes>>

(* A write that fails leaves the file as it was (appendLines rolls back),  *)
(* except a publication that fails after the link.  Left out: a rollback   *)
(* that fails, a file handle whose close() fails after a synced append     *)
(* (the batch is in the file, yet kept and tried again), and a repair that *)
(* fails after its truncate (the tail is gone, yet cut again).             *)
WriteFails(h) ==
  LET r == handle[h]
      forced == IF r.at = "lease" THEN lock # 0
                ELSE IF r.at = "persist" THEN ~CanPersist(r)
                ELSE ~Contiguous(r)
  IN /\ r.at # "idle" /\ Quiet(h)
     /\ \/ forced /\ UNCHANGED failures
        \/ ~forced /\ failures < MaxFailures /\ failures' = failures + 1
     /\ handle' = [handle EXCEPT ![h] = Failed(r)]
     /\ flusher' = Answered(h, FALSE)
     /\ UNCHANGED <<disk, lock, claim, crashes>>

PublishedUnsynced(h) ==
  LET r == handle[h]
  IN /\ r.at = "persist" /\ Quiet(h) /\ CanPersist(r) /\ ~r.materialized
     /\ failures < MaxFailures /\ failures' = failures + 1
     /\ disk' = [disk EXCEPT !.exists = TRUE, !.log = r.batch]
     /\ handle' = [handle EXCEPT ![h] = Failed(r)]
     /\ flusher' = Answered(h, FALSE)
     /\ UNCHANGED <<lock, claim, crashes>>

-----------------------------------------------------------------------------
(* close: drain, await the chain, look at the buffer again; then await the *)
(* chain, release the lock, drop the claim.                                *)
Close(h) ==
  /\ Alive(h) /\ handle[h].closing = "open"
  /\ handle' = [handle EXCEPT ![h] = DrainLive([@ EXCEPT !.closing = "drain"])]
  /\ UNCHANGED <<disk, lock, claim, flusher, failures, crashes>>

CloseDoneBlind(r) == TRUE    \* mutation: no second look at the buffer
CloseDone(r) == r.buffered = <<>>

CloseChecks(h) ==
  LET r == handle[h]
  IN /\ r.closing = "chain" /\ r.wait = 0
     /\ handle' = [handle EXCEPT ![h] =
          IF CloseDone(r) THEN [r EXCEPT !.closing = "last", !.wait = Len(r.chain)]
          ELSE DrainLive([r EXCEPT !.closing = "drain"])]
     /\ UNCHANGED <<disk, lock, claim, flusher, failures, crashes>>

CloseReleases(h) ==
  /\ handle[h].closing = "last" /\ handle[h].wait = 0
  /\ handle' = [handle EXCEPT ![h].closing = IF handle[h].leased THEN "release" ELSE "released"]
  /\ UNCHANGED <<disk, lock, claim, flusher, failures, crashes>>

KernelUnlocks(h) ==
  /\ handle[h].closing = "release" /\ lock = h
  /\ lock' = 0
  /\ UNCHANGED <<disk, claim, handle, flusher, failures, crashes>>

LockReleased(h) ==
  /\ handle[h].closing = "release" /\ lock # h /\ Quiet(h)
  /\ handle' = [handle EXCEPT ![h].closing = "released"]
  /\ UNCHANGED <<disk, lock, claim, flusher, failures, crashes>>

HandleReleased(h) ==
  /\ handle[h].closing = "released"
  /\ claim' = [claim EXCEPT ![handle[h].home] = 0]
  /\ handle' = [handle EXCEPT ![h].closing = "done", ![h].life = "closed"]
  /\ UNCHANGED <<disk, lock, flusher, failures, crashes>>

(* A crash: the process's handles, claim and locks are gone, and a write   *)
(* under way has reached the file wholly, partly or not at all: a torn     *)
(* frame some of whose events can be recovered (Zstandard), or some whole  *)
(* lines and a torn one.                                                   *)
Torn(events) ==
  UNION {{[disk EXCEPT !.torn = TRUE, !.tail = SubSeq(events, 1, n)],
          [disk EXCEPT !.torn = TRUE, !.log = @ \o SubSeq(events, 1, n)]} : n \in 0 .. Len(events)}

Left(h) ==
  LET r == handle[h]
  IN {disk} \cup
     CASE r.at = "truncate" -> {[disk EXCEPT !.torn = FALSE, !.tail = <<>>]}
       [] r.at = "rewrite" -> Torn(r.recovered) \cup {[disk EXCEPT !.log = @ \o r.recovered]}
       [] r.at = "persist" /\ CanPersist(r) ->
            {[disk EXCEPT !.exists = TRUE, !.log = @ \o r.batch]}
              \cup (IF r.materialized THEN Torn(r.batch) ELSE {})
       [] OTHER -> {}

Crash(p) ==
  LET lost == {h \in Handles : Alive(h) /\ handle[h].home = p}
  IN /\ lost # {} /\ crashes < MaxCrashes
     /\ crashes' = crashes + 1
     /\ \E h \in lost : disk' \in Left(h)
     /\ handle' = [h \in Handles |-> IF h \in lost THEN [Fresh EXCEPT !.life = "dead"]
                                     ELSE handle[h]]
     /\ flusher' = [f \in Flushers |->
          IF flusher[f].on \in lost /\ flusher[f].at \in {"drain", "ready", "barrier"}
          THEN [flusher[f] EXCEPT !.at = "idle"] ELSE flusher[f]]
     /\ claim' = [claim EXCEPT ![p] = 0]
     /\ lock' = IF lock \in lost THEN 0 ELSE lock
     /\ UNCHANGED failures

-----------------------------------------------------------------------------
Continue(h) == DrainChecks(h) \/ DrainSettles(h) \/ TurnBegins(h)
Write(h)    == LeaseTaken(h) \/ Truncated(h) \/ Rewritten(h) \/ Persisted(h)
Fail(h)     == WriteFails(h) \/ PublishedUnsynced(h)
Closing(h)  == CloseChecks(h) \/ CloseReleases(h) \/ KernelUnlocks(h) \/ LockReleased(h) \/ HandleReleased(h)

Next == \/ \E h \in Handles, p \in Procs : Create(h, p) \/ Open(h, p)
        \/ \E h \in Handles : \/ AppendClosers(h) \/ PublishSession(h) \/ Publish(h)
                              \/ TimerFires(h) \/ Continue(h) \/ Write(h) \/ Fail(h)
                              \/ Close(h) \/ Closing(h)
        \/ \E f \in Flushers, p \in Procs : Flush(f, p)
        \/ \E f \in Flushers : Barrier(f)
        \/ \E p \in Procs : Crash(p)

Spec == Init /\ [][Next]_vars

(* Microtasks run.  An I/O completion or an expired timer waits for them   *)
(* each time, so its fairness is strong: the event loop comes round to it. *)
FairSpec == /\ Spec
            /\ \A h \in Handles :
                 /\ WF_vars(DrainChecks(h)) /\ WF_vars(DrainSettles(h)) /\ WF_vars(TurnBegins(h))
                 /\ WF_vars(CloseChecks(h)) /\ WF_vars(CloseReleases(h)) /\ WF_vars(KernelUnlocks(h))
                 /\ WF_vars(HandleReleased(h))
                 /\ SF_vars(TimerFires(h)) /\ SF_vars(Write(h) \/ Fail(h)) /\ SF_vars(LockReleased(h))
            /\ \A f \in Flushers : WF_vars(Barrier(f))

-----------------------------------------------------------------------------
Stages  == {"idle", "lease", "truncate", "rewrite", "persist"}
Lives   == {"new", "opened", "appending", "live", "failed", "closed", "dead"}
Drains  == {"none", "queued", "check", "gap", "failed"}
Closes  == {"open", "drain", "chain", "last", "release", "released", "done"}
Asked   == {"idle", "drain", "ready", "barrier", "returned", "rejected"}
Ops     == [op : {"drain", "append", "flush"}, by : Flushers \cup {"none"}]
HandleRecord ==
  [life : Lives, home : Procs \cup {"none"}, leased : BOOLEAN, cursor : Nat,
   materialized : BOOLEAN, repair : {"none", "truncate", "rewrite"}, recovered : Seq(Nat),
   buffered : Seq(Nat), batch : Seq(Nat), timer : BOOLEAN, paused : BOOLEAN,
   drain : Drains, chain : Seq(Ops), at : Stages,
   closing : Closes, wait : Nat, closeFailed : BOOLEAN, next : Nat]

TypeOK ==
  /\ disk \in [exists : BOOLEAN, log : Seq(Nat), torn : BOOLEAN, tail : Seq(Nat)]
  /\ lock \in 0 .. NumHandles /\ claim \in [Procs -> 0 .. NumHandles]
  /\ failures \in 0 .. MaxFailures /\ crashes \in 0 .. MaxCrashes
  /\ flusher \in [Flushers -> [at : Asked, on : 0 .. NumHandles, mark : Nat, late : BOOLEAN]]
  /\ handle \in [Handles -> HandleRecord]

(* Every event the session of a live handle logged is in the file, in the  *)
(* torn tail's copy, in the batch being written or in the buffer, once and *)
(* in order: no failure, retry or repair loses, repeats or reorders one    *)
(* (storage.ts 268-282, 304-308).                                          *)
Accounted ==
  \A h \in Handles :
    handle[h].life = "live" /\ handle[h].closing \in {"open", "drain", "chain"} =>
      handle[h].batch \o handle[h].buffered
        = Seqs(handle[h].cursor, handle[h].next - handle[h].cursor)

(* The file is the log without a gap or a repetition, and what a reader    *)
(* recovers from a torn tail continues it.                                 *)
LogContiguous == disk.log \o disk.tail = Seqs(0, Len(disk.log) + Len(disk.tail))

(* A handle that has not begun to release its lock changes the file only   *)
(* under it, across the processes that share the directory.                *)
WritesOwned ==
  \A h \in Handles :
    /\ handle[h].at \in {"truncate", "rewrite", "persist"}
    /\ handle[h].closing \notin {"release", "released", "done"}
    => lock = h

(* A flush that returned left every event logged at its call in the file,  *)
(* where no crash or later writer removes it - unless it joined a drain    *)
(* already past its last look at the buffer, which takes nothing more.     *)
FlushedIsDurable ==
  \A f \in Flushers :
    flusher[f].at = "returned" /\ ~flusher[f].late => flusher[f].mark <= Len(disk.log)

(* A close that did not reject lost nothing its session had logged: with   *)
(* no torn tail left to rewrite, all of it is in the file.                 *)
CloseLosesNothing ==
  \A h \in Handles :
    /\ handle[h].closing = "done" /\ ~handle[h].closeFailed
    /\ handle[h].repair = "none"
    => handle[h].next <= Len(disk.log)

(* The turn of a drain finds the events its guard saw (storage.ts 268-269).*)
DrainFindsItsBatch ==
  \A h \in Handles :
    LET r == handle[h]
    IN /\ r.drain = "queued" /\ r.at = "idle" => r.buffered # <<>>
       /\ r.at # "idle" /\ Head(r.chain).op = "drain" => r.batch # <<>>

(* What is logged reaches the file, unless a drain fails (the next flush   *)
(* retries it) or the handle is closed with a failure.                     *)
EventsReachTheFile ==
  \A h \in Handles, n \in 1 .. MaxEvents :
    handle[h].life = "live" /\ handle[h].next = n
      ~> Len(disk.log) >= n \/ handle[h].paused \/ handle[h].closeFailed \/ ~Alive(h)

(* A flush is answered, and a close ends, whatever fails.                  *)
FlushAnswered ==
  \A f \in Flushers : flusher[f].at = "drain" ~> flusher[f].at \in {"idle", "returned", "rejected"}
CloseEnds ==
  \A h \in Handles : handle[h].closing = "drain" ~> handle[h].closing = "done" \/ ~Alive(h)
WaitersAnswered == FlushAnswered /\ CloseEnds
=============================================================================
