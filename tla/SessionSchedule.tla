--------------------------- MODULE SessionSchedule ---------------------------
(***************************************************************************)
(* Durable reminders of one session (schedule/schedule/src): the fold of   *)
(* its schedule/change events (domain.ts), the live owner that arms timers *)
(* and hands due reminders to the agent (runtime.ts), the three management *)
(* tools (tools.ts) and the FIFO both go through (transaction.ts).         *)
(*                                                                         *)
(* A step is one synchronous stretch between two awaits.  A flush          *)
(* (persistence.ts) that succeeds has made everything logged before the    *)
(* call durable; one that fails says nothing.  A crash keeps any prefix of *)
(* the log that holds what was confirmed.  Of the agent only its phase, a  *)
(* latched wake and the abort of its turn are kept.                        *)
(***************************************************************************)
EXTENDS Integers, FiniteSets, SequencesExt

CONSTANTS NumCalls,    \* management tool calls
          Owner,       \* the live owner's place in the FIFO
          Interval,    \* everySeconds of every fixed-rate reminder
          MaxDelay,    \* MAX_TIMER_DELAY_MS
          Horizon,     \* the last representable instant, where the clock stops
          MaxTurns,    \* bound on turns people open
          MaxTroubles  \* bound on what may come between, taken together: cancels, stops,
                       \* maintenance by others, corrections of the wall clock, crashes, and
                       \* flushes, appends and follow-ups that fail

ASSUME ScheduleAssumption ==
  /\ NumCalls \in Nat /\ Owner \notin Nat
  /\ {Interval, MaxDelay} \subseteq Nat \ {0}
  /\ {Horizon, MaxTurns, MaxTroubles} \subseteq Nat

VARIABLES log,     \* schedule changes and reminder messages of the session
          stored,  \* how much of it is confirmed durable
          agent,   \* what the owner and the tools see of the agent
          calls,   \* each tool call
          queue,   \* the agent's FIFO; its head is the transaction under way
          owner,   \* the live owner
          clock,   \* Date.now()
          relied,  \* how much of the log an answer has relied on
          used     \* how much of each bound is spent

vars == <<log, stored, agent, calls, queue, owner, clock, relied, used>>

Calls   == 1 .. NumCalls  \* in the order the model makes them
Ids     == 1 .. NumCalls  \* no more can be created
Instants == 0 .. Horizon
NoTimer == -1
NoTime  == -1

NewCall == [pc |-> "none", op |-> "list", id |-> 0, mark |-> 0]
Closed  == [NewCall EXCEPT !.pc = "done"]

(* What start() leaves behind: the first transaction is in the FIFO.       *)
Started == [run |-> "queued", requested |-> FALSE, timer |-> NoTimer, mark |-> 0,
            idleWait |-> FALSE, faulted |-> FALSE, stopping |-> FALSE, sent |-> FALSE,
            lapsed |-> FALSE]
AtRest  == [phase |-> "idle", latched |-> FALSE, aborted |-> FALSE]

Init == /\ log = <<>> /\ stored = 0 /\ relied = 0 /\ clock = 0
        /\ agent = AtRest
        /\ calls = [c \in Calls |-> NewCall]
        /\ owner = Started /\ queue = <<Owner>>
        /\ used = [turns |-> 0, troubles |-> 0, jumps |-> 0, crashes |-> 0]

(* One of what is bounded happens; of the troubles, jumps and crashes are  *)
(* counted by themselves as well.                                          *)
Speaks  == /\ used.turns < MaxTurns
           /\ used' = [used EXCEPT !.turns = @ + 1]
Trouble == /\ used.troubles < MaxTroubles
           /\ used' = [used EXCEPT !.troubles = @ + 1]
Jump    == /\ used.troubles < MaxTroubles
           /\ used' = [used EXCEPT !.troubles = @ + 1, !.jumps = @ + 1]
Death   == /\ used.troubles < MaxTroubles
           /\ used' = [used EXCEPT !.troubles = @ + 1, !.crashes = @ + 1]

-----------------------------------------------------------------------------
(* The fold.  A record is an id, a kind and the instant it is due at.      *)

Message(due)         == [type |-> "message", id |-> 0, due |-> due, life |-> used.crashes]
Create(id, kind, at) == [type |-> "create", id |-> id, kind |-> kind, at |-> at]
Delete(id)           == [type |-> "delete", id |-> id]
Dispatch(r, t)       == [type |-> "dispatch", id |-> r.id,
                       accepted |-> IF r.kind = "every" THEN t ELSE NoTime]

(* resolveEveryOccurrence(): the latest occurrence by t, aligned to the    *)
(* creation, and the first one after it.                                   *)
Occurrence(r, t) ==
  IF r.kind = "every" THEN r.at + ((t - r.at) \div Interval) * Interval ELSE r.at
NextAt(r, t) == Occurrence(r, t) + Interval

(* What the fold knows of one id: whether it is in `seen`, in `active` and *)
(* with which record, or has thrown.                                       *)
New     == [state |-> "new", kind |-> "once", at |-> 0]
Gone    == [New EXCEPT !.state = "gone"]
Corrupt == [New EXCEPT !.state = "corrupt"]

(* dispatchedRecord(): a one-shot ends, a fixed rate goes on unless its    *)
(* next instant has no representation.                                     *)
AfterDispatch(r, accepted) ==
  CASE r.kind = "once" /\ accepted = NoTime    -> Gone
    [] r.kind = "every" /\ accepted >= r.at    ->
         IF NextAt(r, accepted) <= Horizon THEN [r EXCEPT !.at = NextAt(r, accepted)] ELSE Gone
    [] OTHER                                   -> Corrupt

After(known, e) ==
  CASE e.type = "create" /\ known.state = "new"      ->
         [state |-> "active", kind |-> e.kind, at |-> e.at]
    [] e.type = "delete" /\ known.state = "active"   -> Gone
    [] e.type = "dispatch" /\ known.state = "active" -> AfterDispatch(known, e.accepted)
    [] OTHER                                         -> Corrupt

(* applyScheduleChanges(): every change is about one id.                   *)
Change(fold, e) ==
  IF e.type = "message" THEN fold ELSE [fold EXCEPT ![e.id] = After(@, e)]
Replay(events) ==
  LET f[n \in 0 .. Len(events)] ==
        IF n = 0 THEN [id \in Ids |-> New] ELSE Change(f[n - 1], events[n])
  IN  f
Fold(events) == Replay(events)[Len(events)]

Actives(fold) == {[id |-> i, kind |-> fold[i].kind, at |-> fold[i].at] :
                  i \in {j \in Ids : fold[j].state = "active"}}
Seen(fold)    == {i \in Ids : fold[i].state # "new"}
Replays(fold) == \A i \in Ids : fold[i].state # "corrupt"

Active     == Actives(Fold(log))
Folds      == Replays(Fold(log))
IsActive(id) == \E r \in Active : r.id = id

(* A form the code does not have: the id follows the active reminders.     *)
AllocatedByActive == Cardinality(Active) + 1

(* allocateScheduleId(): no id is used twice in a session.                 *)
Allocated == Cardinality(Seen(Fold(log))) + 1

(* How far a reader of the fold relies on the log.                         *)
Extent(events) ==
  LET I == {n \in 1 .. Len(events) : events[n].type # "message"}
  IN  IF I = {} THEN 0 ELSE CHOOSE n \in I : \A k \in I : k <= n

-----------------------------------------------------------------------------
(* dueDecision(): one one-shot, the earliest; else every fixed rate that is*)
(* due; else the next instant to wake at.                                  *)
Before(r, q) == r.at < q.at \/ (r.at = q.at /\ r.id < q.id)
OneShots(A, t) == {r \in A : r.kind = "once" /\ r.at <= t}
Chosen(A, t) ==
  IF OneShots(A, t) # {}
    THEN {r \in OneShots(A, t) : \A q \in OneShots(A, t) : q = r \/ Before(r, q)}
    ELSE {r \in A : r.kind = "every" /\ r.at <= t}

(* arm(): one segment of at most MaxDelay towards the earliest target.     *)
Delay(A, t) ==
  LET T == {r.at : r \in {q \in A : q.at > t}}
  IN  IF T = {} THEN NoTimer
      ELSE LET next == CHOOSE m \in T : \A k \in T : m <= k
           IN  IF next - t < MaxDelay THEN next - t ELSE MaxDelay

(* requestDrive(): the timer goes, and the run goes on once more or starts.*)
Heeds(o) == ~o.stopping /\ ~o.faulted
Requested(o) ==
  IF Heeds(o)
    THEN [o EXCEPT !.timer = NoTimer, !.requested = o.run # "none",
                   !.run = IF @ = "none" THEN "queued" ELSE @]
    ELSE o
Queued(q, o) == IF Heeds(o) /\ o.run = "none" THEN Append(q, Owner) ELSE q

(* A form the code does not have: transactions overlap.                    *)
Whenever(x) == \E n \in 1 .. Len(queue) : queue[n] = x

(* The FIFO: a transaction begins when the one before it has settled.      *)
Turn(x)   == queue # <<>> /\ Head(queue) = x
Leave     == Tail(queue)

(* What a successful flush leaves.                                         *)
Confirmed(mark) == IF mark > stored THEN mark ELSE stored

-----------------------------------------------------------------------------
(* The management tools.                                                   *)

Open == {c \in Calls : calls[c].pc \notin {"none", "done"}}

(* The model calls a tool in its turn.  Once the plugin is gone so are the *)
(* tools; an aborted turn starts nothing.                                  *)
Issue(c) ==
  /\ agent.phase = "running" /\ ~agent.aborted /\ ~owner.stopping
  /\ calls[c].pc = "none" /\ \A d \in 1 .. c - 1 : calls[d].pc # "none"
  /\ \E op \in {"once", "every", "list", "delete"}, id \in Ids \cup {0} :
       /\ op = "delete" <=> id # 0
       /\ calls' = [calls EXCEPT ![c] = [@ EXCEPT !.pc = "queued", !.op = op, !.id = id]]
  /\ queue' = Append(queue, c)
  /\ UNCHANGED <<log, stored, agent, owner, clock, relied, used>>

(* runCancellableScheduleTransaction(): an aborted call ends at its turn.  *)
CallBegins(c) ==
  /\ calls[c].pc = "queued" /\ Turn(c)
  /\ IF agent.aborted
       THEN calls' = [calls EXCEPT ![c] = Closed] /\ queue' = Leave
       ELSE /\ calls' = [calls EXCEPT ![c].pc = "preflight", ![c].mark = Len(log)]
            /\ UNCHANGED queue
  /\ UNCHANGED <<log, stored, agent, owner, clock, relied, used>>

(* preflight() fails, before or behind the append: persistence_uncertain.  *)
FlushFails(c) ==
  /\ calls[c].pc \in {"preflight", "barrier"}
  /\ Trouble
  /\ calls' = [calls EXCEPT ![c] = Closed] /\ queue' = Leave
  /\ UNCHANGED <<log, stored, agent, owner, clock, relied>>

(* A form the code does not have: only a confirmed change wakes the owner. *)
NotifiedAtTheEnd(c) == IF calls[c].pc = "barrier" THEN Requested(owner) ELSE owner

(* notifyDurableChange() follows every flush that succeeds.                *)
Notified(c) == Requested(owner)

Passes(c, pc) ==
  /\ calls[c].pc = pc
  /\ stored' = Confirmed(calls[c].mark)
  /\ owner' = Notified(c)

Answered(c) ==
  /\ calls' = [calls EXCEPT ![c] = Closed]
  /\ queue' = Queued(Leave, owner)

(* schedule_list, and schedule_delete of an id that is not active.         *)
Reads(c) ==
  /\ Passes(c, "preflight") /\ Folds
  /\ \/ calls[c].op = "list"
     \/ calls[c].op = "delete" /\ ~IsActive(calls[c].id)
  /\ relied' = Extent(log)
  /\ Answered(c)
  /\ UNCHANGED <<log, agent, clock, used>>

(* The changes a call may append.                                          *)
Changes(c) ==
  CASE calls[c].op = "once"   -> {Create(Allocated, "once", t) : t \in clock + 1 .. Horizon}
    [] calls[c].op = "every"  -> {Create(Allocated, "every", t) :
                                    t \in {clock + Interval} \cap Instants}
    [] calls[c].op = "delete" -> {Delete(r.id) : r \in {q \in Active : q.id = calls[c].id}}
    [] OTHER                  -> {}

(* A corrupt log, an instant that is not in the future or has no           *)
(* representation, or an abort seen before the append.                     *)
Refuses(c) ==
  /\ Passes(c, "preflight")
  /\ \/ ~Folds
     \/ calls[c].op = "once"
     \/ calls[c].op = "every" /\ Changes(c) = {}
     \/ agent.aborted /\ Changes(c) # {}
  /\ Answered(c)
  /\ UNCHANGED <<log, agent, clock, relied, used>>

Appends(c) ==
  /\ Passes(c, "preflight") /\ Folds /\ ~agent.aborted
  /\ \E e \in Changes(c) : log' = Append(log, e)
  /\ calls' = [calls EXCEPT ![c].pc = "barrier", ![c].mark = Len(log')]
  /\ queue' = Queued(queue, owner)
  /\ UNCHANGED <<agent, clock, relied, used>>

(* session.append() throws: internal_error.                                *)
AppendThrows(c) ==
  /\ Passes(c, "preflight") /\ Folds /\ ~agent.aborted
  /\ Changes(c) # {}
  /\ Trouble
  /\ Answered(c)
  /\ UNCHANGED <<log, agent, clock, relied>>

(* The second barrier confirms the change.                                 *)
Confirms(c) ==
  /\ Passes(c, "barrier")
  /\ relied' = calls[c].mark
  /\ Answered(c)
  /\ UNCHANGED <<log, agent, clock, used>>

CallStep(c) == \/ CallBegins(c) \/ FlushFails(c) \/ Reads(c) \/ Refuses(c)
               \/ Appends(c) \/ AppendThrows(c) \/ Confirms(c)

-----------------------------------------------------------------------------
(* The live owner.                                                         *)

OwnerTurn(run) == owner.run = run /\ Turn(Owner)

(* The transaction settles; runRequested() and retire() look at it later.  *)
Ended(o)  == [o EXCEPT !.run = "ended", !.sent = FALSE, !.mark = 0]
Released(a) == [phase |-> IF a.latched THEN "running" ELSE "idle",
                latched |-> FALSE, aborted |-> FALSE]

(* driveOnce() up to its first flush.                                      *)
DriveBegins ==
  /\ OwnerTurn("queued")
  /\ LET o == [owner EXCEPT !.timer = NoTimer]
     IN  IF o.stopping
           THEN owner' = Ended(o) /\ queue' = Leave
           ELSE /\ owner' = [o EXCEPT !.run = "preflight", !.mark = Len(log)]
                /\ UNCHANGED queue
  /\ UNCHANGED <<log, stored, agent, calls, clock, relied, used>>

(* The preflight or the barrier behind a dispatch fails: nothing retries.  *)
DriveFails ==
  /\ OwnerTurn("preflight") \/ OwnerTurn("barrier")
  /\ Trouble
  /\ owner' = [Ended(owner) EXCEPT !.lapsed = TRUE] /\ queue' = Leave
  /\ UNCHANGED <<log, stored, agent, calls, clock, relied>>

(* A form the code does not have: the stop is not looked at again.         *)
LiveAtFirst == TRUE

(* isRunnable().                                                           *)
Runnable == ~owner.stopping

Drives == /\ OwnerTurn("preflight")
          /\ stored' = Confirmed(owner.mark)

(* The flush returns after the stop, or the log does not fold.             *)
DriveStops ==
  /\ Drives /\ (~Runnable \/ ~Folds)
  /\ owner' = [Ended(owner) EXCEPT !.faulted = @ \/ Runnable] /\ queue' = Leave
  /\ UNCHANGED <<log, agent, calls, clock, relied, used>>

(* Nothing is due: the next segment is armed.                              *)
DriveArms ==
  /\ Drives /\ Runnable /\ Folds /\ Chosen(Active, clock) = {}
  /\ owner' = [Ended(owner) EXCEPT !.timer = Delay(Active, clock), !.lapsed = FALSE]
  /\ queue' = Leave
  /\ UNCHANGED <<log, agent, calls, clock, relied, used>>

(* A form the code does not have: the status event is trusted to come.     *)
WaitsForStatus == FALSE

(* waitForIdle(): a busy agent is asked again when it is idle.             *)
WaitsForIdle == TRUE

(* Something is due but other work holds the agent: runMaintenance throws. *)
DriveWaits ==
  /\ Drives /\ Runnable /\ Folds /\ Chosen(Active, clock) # {}
  /\ agent.phase # "idle"
  /\ owner' = [Ended(owner) EXCEPT !.idleWait = @ \/ WaitsForIdle, !.lapsed = FALSE]
  /\ queue' = Leave
  /\ UNCHANGED <<log, agent, calls, clock, relied, used>>

(* The second reading of the clock, in the maintenance task.               *)
Reread(t) == \/ t = clock /\ UNCHANGED used
             \/ t \in Instants \ {clock} /\ Jump

(* The maintenance task runs through up to its first await.                *)
Claims(t) ==
  /\ Drives /\ Runnable /\ Folds /\ Chosen(Active, clock) # {}
  /\ agent.phase = "idle"
  /\ clock' = t
  /\ UNCHANGED <<calls, queue, relied>>

Claimed == [Ended(owner) EXCEPT !.run = "claimed", !.lapsed = FALSE]
Held    == [agent EXCEPT !.phase = "own"]

(* A form the code does not have: the first decision stands.               *)
DecidedBefore(t) == Chosen(Active, clock)

(* The decision is made again, with the second reading.                    *)
Decided(t) == Chosen(Active, t)

(* The clock went back: nothing is due any more.                           *)
ClaimArms ==
  \E t \in Instants :
    /\ Claims(t) /\ Reread(t) /\ Decided(t) = {}
    /\ owner' = [Claimed EXCEPT !.timer = Delay(Active, t)]
    /\ agent' = Held
    /\ UNCHANGED log

(* Framing or followup() throws: no message, no dispatch.                  *)
ClaimThrows ==
  /\ Claims(clock) /\ Trouble
  /\ owner' = [Claimed EXCEPT !.lapsed = TRUE]
  /\ agent' = Held
  /\ UNCHANGED log

(* The message is queued, its wake latched, and one dispatch appended for  *)
(* each reminder of the batch, in order of instant and creation.           *)
Due(batch, t)        == {[id |-> r.id, at |-> Occurrence(r, t)] : r \in batch}
InOrder(batch) ==
  CHOOSE s \in [1 .. Cardinality(batch) -> batch] :
    \A m, n \in 1 .. Cardinality(batch) : m < n => Before(s[m], s[n])
Dispatches(batch, t) ==
  LET order == InOrder(batch) IN [n \in 1 .. Cardinality(batch) |-> Dispatch(order[n], t)]
(* A form the code does not have: the dispatches go first.                 *)
DispatchedFirst(batch, t) == Append(Dispatches(batch, t), Message(Due(batch, t)))
Sent(batch, t) == <<Message(Due(batch, t))>> \o Dispatches(batch, t)

ClaimSends ==
  \E t \in Instants :
    /\ Claims(t) /\ Reread(t) /\ Decided(t) # {}
    /\ log' = log \o Sent(Decided(t), t)
    /\ owner' = [Claimed EXCEPT !.sent = TRUE]
    /\ agent' = [Held EXCEPT !.latched = TRUE]

(* A form the code does not have: a failed dispatch is only reported.      *)
Reported(o) == o

(* The owner gives up: the message may already be queued.                  *)
Faulted(o) == [o EXCEPT !.faulted = TRUE, !.timer = NoTimer]

(* An append throws behind some of the dispatches.                         *)
ClaimFaults ==
  /\ Claims(clock) /\ Trouble
  /\ \E n \in 1 .. Cardinality(Decided(clock)) :
       log' = log \o SubSeq(Sent(Decided(clock), clock), 1, n)
  /\ owner' = Faulted(Claimed)
  /\ agent' = [Held EXCEPT !.latched = TRUE]

(* The maintenance task is over; a latched wake opens a turn.  There is no *)
(* status event, a maintained agent counts as idle.  After a dispatch the  *)
(* transaction goes on with its barrier.                                   *)
MaintenanceEnds ==
  /\ agent.phase = "own"
  /\ agent' = Released(agent)
  /\ IF owner.sent
       THEN owner' = [owner EXCEPT !.run = "barrier", !.mark = Len(log)] /\ UNCHANGED queue
       ELSE owner' = Ended(owner) /\ queue' = Leave
  /\ UNCHANGED <<log, stored, calls, clock, relied, used>>

(* The dispatch is durable: the next reminder is looked for.               *)
BarrierPasses ==
  /\ OwnerTurn("barrier")
  /\ stored' = Confirmed(owner.mark)
  /\ owner' = Requested(Ended(owner)) /\ queue' = Leave
  /\ UNCHANGED <<log, agent, calls, clock, relied, used>>

(* A form the code does not have: a trigger met by a run is dropped.       *)
AgainNever == FALSE

(* The loop of runRequested(), and retire() behind it.                     *)
Again == owner.requested /\ Heeds(owner)

Retires ==
  /\ owner.run = "ended"
  /\ IF Again
       THEN /\ owner' = [owner EXCEPT !.run = "queued", !.requested = FALSE]
            /\ queue' = Append(queue, Owner)
       ELSE /\ owner' = [owner EXCEPT !.run = "none", !.requested = FALSE]
            /\ UNCHANGED queue
  /\ UNCHANGED <<log, stored, agent, calls, clock, relied, used>>

RequestDrive == owner' = Requested(owner) /\ queue' = Queued(queue, owner)

TimerFires ==
  /\ owner.timer = 0
  /\ RequestDrive
  /\ UNCHANGED <<log, stored, agent, calls, clock, relied, used>>

(* The wait for an idle agent, or for the stop, is over.                   *)
IdleWaitEnds ==
  /\ owner.idleWait /\ (agent.phase = "idle" \/ owner.stopping)
  /\ LET o == [owner EXCEPT !.idleWait = FALSE]
     IN  owner' = Requested(o) /\ queue' = Queued(queue, o)
  /\ UNCHANGED <<log, stored, agent, calls, clock, relied, used>>

(* dispose(), with the agent's scope or with the plugin.                   *)
Stop ==
  /\ ~owner.stopping /\ Trouble
  /\ owner' = [owner EXCEPT !.stopping = TRUE, !.requested = FALSE, !.timer = NoTimer]
  /\ UNCHANGED <<log, stored, agent, calls, queue, clock, relied>>

-----------------------------------------------------------------------------
(* The agent and the world.                                                *)

(* Waking input opens a turn, or latches behind maintenance.               *)
PersonSpeaks ==
  /\ agent.phase # "running" /\ Speaks
  /\ agent' = IF agent.phase = "idle" THEN [agent EXCEPT !.phase = "running"]
              ELSE [agent EXCEPT !.latched = TRUE]
  /\ UNCHANGED <<log, stored, calls, queue, owner, clock, relied>>

(* The turn is over: agent/status says idle, and the owner looks again if  *)
(* the session has reminders.                                              *)
TurnEnds ==
  /\ agent.phase = "running" /\ Open = {}
  /\ agent' = AtRest
  /\ IF Extent(log) # 0 THEN RequestDrive ELSE UNCHANGED <<owner, queue>>
  /\ UNCHANGED <<log, stored, calls, clock, relied, used>>

(* Maintenance of other plugins.                                           *)
OtherWork ==
  /\ agent.phase = "idle" /\ Trouble
  /\ agent' = [agent EXCEPT !.phase = "other"]
  /\ UNCHANGED <<log, stored, calls, queue, owner, clock, relied>>
OtherEnds ==
  /\ agent.phase = "other"
  /\ agent' = Released(agent)
  /\ UNCHANGED <<log, stored, calls, queue, owner, clock, relied, used>>

(* cancel() clears the inbox and a latch, and aborts what runs.            *)
Cancel ==
  /\ agent.phase # "idle" /\ Trouble
  /\ agent' = [agent EXCEPT !.latched = FALSE, !.aborted = TRUE]
  /\ UNCHANGED <<log, stored, calls, queue, owner, clock, relied>>

(* Time passes, for the wall clock and for an armed timer; the clock alone *)
(* may be corrected.                                                       *)
Tick ==
  /\ clock < Horizon \/ owner.timer > 0
  /\ clock' = IF clock < Horizon THEN clock + 1 ELSE clock
  /\ owner' = [owner EXCEPT !.timer = IF @ > 0 THEN @ - 1 ELSE @]
  /\ UNCHANGED <<log, stored, agent, calls, queue, relied, used>>
ClockJumps ==
  /\ Jump
  /\ \E t \in Instants \ {clock} : clock' = t
  /\ UNCHANGED <<log, stored, agent, calls, queue, owner, relied>>

(* The process dies and the session is resumed, in time or later.          *)
Crash ==
  /\ Death
  /\ \E n \in stored .. Len(log) : log' = SubSeq(log, 1, n) /\ stored' = n
  /\ \E t \in clock .. Horizon : clock' = t
  /\ agent' = AtRest
  /\ calls' = [c \in Calls |-> IF c \in Open THEN Closed ELSE calls[c]]
  /\ owner' = Started /\ queue' = <<Owner>>
  /\ UNCHANGED relied

OwnerStep == \/ DriveBegins \/ DriveFails \/ DriveStops \/ DriveArms \/ DriveWaits
             \/ ClaimArms \/ ClaimThrows \/ ClaimSends \/ ClaimFaults \/ BarrierPasses
             \/ Retires
AgentStep == MaintenanceEnds \/ TurnEnds \/ OtherEnds

Next == \/ OwnerStep \/ AgentStep \/ TimerFires \/ IdleWaitEnds \/ Tick
        \/ \E c \in Calls : Issue(c) \/ CallStep(c)
        \/ Stop \/ PersonSpeaks \/ OtherWork \/ Cancel \/ ClockJumps \/ Crash

Spec == Init /\ [][Next]_vars

(* Promises settle, the flush answers, tools and turns end, time passes and*)
(* timers fire: what can go on does.  Nothing makes people, other plugins  *)
(* or troubles appear.                                                     *)
Progress == \/ OwnerStep \/ AgentStep \/ TimerFires \/ IdleWaitEnds \/ Tick
            \/ \E c \in Calls : CallStep(c)
FairSpec == Spec /\ WF_vars(Progress)

-----------------------------------------------------------------------------
(* Properties.                                                             *)

(* The type invariant: which values each variable takes, the marks lie in  *)
(* the log, and the FIFO holds each transaction that is not settled, once. *)
Events ==
       [type : {"create"}, id : Nat, kind : {"once", "every"}, at : Instants]
  \cup [type : {"delete"}, id : Ids]
  \cup [type : {"dispatch"}, id : Ids, accepted : {NoTime} \cup Instants]
  \cup [type : {"message"}, id : {0}, due : SUBSET [id : Ids, at : Instants], life : Nat]
CallRec  == [pc : {"none", "queued", "preflight", "barrier", "done"},
             op : {"once", "every", "list", "delete"}, id : Ids \cup {0}, mark : Nat]
OwnerRec == [run : {"none", "queued", "preflight", "claimed", "barrier", "ended"},
             requested : BOOLEAN, timer : {NoTimer} \cup 0 .. MaxDelay, mark : Nat,
             idleWait : BOOLEAN, faulted : BOOLEAN, stopping : BOOLEAN, sent : BOOLEAN,
             lapsed : BOOLEAN]
TypeOK ==
  /\ log \in Seq(Events) /\ stored \in 0 .. Len(log) /\ relied \in 0 .. Len(log)
  /\ clock \in Instants
  /\ agent \in [phase : {"idle", "running", "own", "other"}, latched : BOOLEAN,
                aborted : BOOLEAN]
  /\ calls \in [Calls -> CallRec] /\ \A c \in Calls : calls[c].mark <= Len(log)
  /\ owner \in OwnerRec /\ owner.mark <= Len(log)
  /\ queue \in Seq(Calls \cup {Owner}) /\ IsInjective(queue)
  /\ ToSet(queue) = Open \cup (IF owner.run \in {"none", "ended"} THEN {} ELSE {Owner})
  /\ used \in [turns : 0 .. MaxTurns, troubles : 0 .. MaxTroubles, jumps : 0 .. MaxTroubles,
               crashes : 0 .. MaxTroubles]
  /\ used.jumps <= used.troubles /\ used.crashes <= used.troubles

(* The log always replays: no id is used twice, nothing is deleted or      *)
(* dispatched that is not active, whatever the tools, the owner and a      *)
(* crash do between the fold one of them reads and its append.             *)
LogReplays == Folds

(* A reminder is dispatched only behind the message that shows it, in the  *)
(* log and so in every prefix a crash leaves: a message of its own for     *)
(* each dispatch, with the occurrence the dispatch takes.                  *)
DispatchIsBacked ==
  \A n \in 1 .. Len(log) : log[n].type = "dispatch" =>
    \E m \in 1 .. n - 1 :
      /\ log[m].type = "message"
      /\ \E d \in log[m].due, r \in Actives(Fold(SubSeq(log, 1, n - 1))) :
           d.id = log[n].id /\ r.id = d.id
           /\ d.at = IF r.kind = "every" THEN Occurrence(r, log[n].accepted) ELSE r.at
      /\ \A k \in m + 1 .. n - 1 : log[k].type = "dispatch" /\ log[k].id # log[n].id

(* Messages show a reminder's occurrences in order, and one occurrence     *)
(* again only in another life of the process: not after a dispatch that    *)
(* could not be appended, nor after a failed barrier, a stale timer or a   *)
(* wait for the agent that comes back late.                                *)
Shown(n, id) == {d.at : d \in {x \in log[n].due : x.id = id}}
RepeatsOnlyAfterCrash ==
  \A m, n \in 1 .. Len(log) :
    (m < n /\ log[m].type = "message" /\ log[n].type = "message" /\ log[m].life = log[n].life)
      => \A id \in Ids : \A a \in Shown(m, id), b \in Shown(n, id) : a < b

(* What schedule_list showed, what schedule_delete found missing and what  *)
(* a create or delete confirmed is durable: no crash takes it back.        *)
AnswersAreDurable == relied <= stored

(* While nothing is under way every active reminder has its wake: a timer  *)
(* is armed, and unless the clock was corrected it fires no later than the *)
(* reminder is due.  Only a failure may leave it to the next trigger.      *)
Quiet == queue = <<>> /\ owner.run = "none" /\ ~owner.idleWait
NoLostWake ==
  (Quiet /\ ~owner.lapsed /\ Heeds(owner)) =>
    \A r \in Active :
      /\ owner.timer # NoTimer
      /\ used.jumps = 0 => owner.timer = 0 \/ clock + owner.timer <= r.at

(* No reminder is handed out before it is due, though the clock is read    *)
(* once before the agent is claimed and may go back until it is.           *)
NeverEarly ==
  [][\A n \in Len(log) + 1 .. Len(log') :
       log'[n].type = "dispatch" =>
         \E r \in Active : r.id = log'[n].id /\ r.at <= clock']_vars

(* Once the owner is told to stop it hands out nothing, whichever await it *)
(* comes back from, until the session is resumed.                          *)
StopsQuietly ==
  [][owner.stopping =>
       \A n \in Len(log) + 1 .. Len(log') : log'[n].type \notin {"message", "dispatch"}]_vars

(* What is due is handed out or deleted, again and again until nothing is, *)
(* though turns, other maintenance, the FIFO and long timers lie between:  *)
(* unless the owner stops, gave up, or a failure leaves it to the next     *)
(* trigger.                                                                *)
SomeDue     == \E r \in Active : r.at <= clock
DueIsServed == []<>(~SomeDue \/ owner.lapsed \/ ~Heeds(owner))
=============================================================================
