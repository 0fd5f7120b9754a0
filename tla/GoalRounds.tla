----------------------------- MODULE GoalRounds -----------------------------
(***************************************************************************)
(* The goal of one session (goal/goal/src) and the driver that continues   *)
(* it (goal/goal-round-driver/src/index.ts), over one agent.               *)
(*                                                                         *)
(* Listeners run inside the call that publishes, so one event may pause    *)
(* the goal, queue a round and open a turn before it returns.  Such a      *)
(* cascade is written with operators on the whole state, a record of the   *)
(* three variables; an action applies one of them.                         *)
(*                                                                         *)
(* Of the agent (core/agent-loop/src/agent.ts, modelled in AgentDriver)    *)
(* only what the driver sees is kept: the await its turn is suspended at,  *)
(* the claimed prompt and context, the abort signal and the wake latch.    *)
(* A turn's later steps are part of its "step"; the microtask between the  *)
(* end of a turn and the idle status is not a state here.                  *)
(***************************************************************************)
EXTENDS Integers, FiniteSets, SequencesExt

CONSTANTS Contexts,      \* messages injected for the next step, without a wake
          Caps,          \* round caps a goal may be given
          MaxSends,      \* bound on the prompts people submit and on injections
          MaxMutations,  \* bound on the goal mutations of people and of the model
          MaxStops,      \* bound on calls of cancel() and unloads of the plugin
          MaxFaults,     \* bound on failed flushes, hooks and requests, vetoes, restarts
          MaxJobs,       \* bound on maintenance tasks
          MaxLoops,      \* bound on the loop tasks of the driver: a step needs room for two
          OuterAwaits,   \* a listener outside the fence awaits after it
          Refused        \* revisions and rounds the agent throws at, when they are queued

ASSUME CapsAssumption == Caps \subseteq Nat \ {0}
ASSUME BoundsAssumption ==
  /\ {MaxSends, MaxMutations, MaxStops, MaxFaults, MaxJobs} \subseteq Nat
  /\ MaxLoops \in Nat \ {0}
  /\ OuterAwaits \in BOOLEAN
ASSUME RefusedAssumption == Refused \subseteq Nat \X Nat

VARIABLES goal,   \* the durable goal with its process-local activation
          drv,    \* DriverState of the round driver
          agent,  \* inbox and driver of the agent
          audit,  \* history read by the properties only
          used    \* how much of each bound is spent

vars == <<goal, drv, agent, audit, used>>
state == [goal |-> goal, drv |-> drv, agent |-> agent]

Become(s) == goal' = s.goal /\ drv' = s.drv /\ agent' = s.agent

(* A message by its source and its MessageId `key`, which is told apart    *)
(* only from those of the other goal messages still about.  The source of  *)
(* a round fixes its content.                                              *)
NoMsg     == [from |-> "none", id |-> 0, rev |-> 0, round |-> 0, key |-> 0]
Prompt(n) == [NoMsg EXCEPT !.from = "human", !.id = n]
Round(g, key) == [from |-> "goal", id |-> g.id, rev |-> g.rev, round |-> g.rounds + 1, key |-> key]

SameRound(m, n) == m.from = "goal" /\ [m EXCEPT !.key = 0] = [n EXCEPT !.key = 0]
IsNext(m, g)    == SameRound(m, Round(g, 0))

NoAttempt == [msg |-> NoMsg, phase |-> "none", cancelled |-> FALSE, stale |-> FALSE]
Loops     == 1 .. MaxLoops

Init == /\ goal = [id |-> 0, rev |-> 0, phase |-> "none", rounds |-> 0, cap |-> 0,
                   armed |-> FALSE, failed |-> FALSE]
        /\ drv = [fiber |-> "active", attempt |-> NoAttempt, competing |-> FALSE,
                  checkpoint |-> FALSE, requested |-> FALSE, run |-> 0,
                  loops |-> [i \in Loops |-> "none"],
                  waits |-> [idle |-> FALSE, run |-> 0]]
        /\ agent = [pc |-> "idle", prompt |-> NoMsg, batch |-> {}, aborted |-> FALSE,
                    wake |-> FALSE, nextTurn |-> <<>>, nextStep |-> {}]
        /\ audit = [quelled |-> FALSE, window |-> FALSE, slipped |-> FALSE, muted |-> FALSE,
                    twins |-> FALSE, overtaken |-> {}, lost |-> {}]
        /\ used = [injected |-> {}, sends |-> 0, mutations |-> 0, stops |-> 0, faults |-> 0,
                   jobs |-> 0]

Spend(bound) == used' = [used EXCEPT ![bound] = @ + 1]

-----------------------------------------------------------------------------
(* The agent.                                                              *)
RunningPCs == {"assemble", "hooks", "outer", "step"}
Running(s) == s.agent.pc \in RunningPCs
Pending(s) == s.agent.nextTurn # <<>> \/ s.agent.nextStep # {}

(* turn/start and Inbox.claim: all context and at most one prompt.  The    *)
(* driver sees its own message leave the inbox.                            *)
OpenTurn(s) ==
  LET queue == s.agent.nextTurn
      p == IF queue = <<>> THEN NoMsg ELSE Head(queue)
  IN  [s EXCEPT !.agent = [pc |-> "assemble", prompt |-> p, batch |-> @.nextStep,
                           aborted |-> FALSE, wake |-> FALSE, nextStep |-> {},
                           nextTurn |-> IF queue = <<>> THEN queue ELSE Tail(queue)],
                !.drv.attempt.phase = IF SameRound(p, s.drv.attempt.msg)
                                      THEN "claimed" ELSE @]

(* wakeDriver: open a turn, or latch behind maintenance or an abort.       *)
WakeDriver(s) ==
  IF s.agent.pc = "idle" THEN OpenTurn(s)
  ELSE [s EXCEPT !.agent.wake = @ \/ s.agent.pc = "maintenance" \/ s.agent.aborted]

(* cancel: without keepInbox the inbox is cleared, and the driver sees its *)
(* queued message discarded; either way running work is aborted.           *)
Cancelled(s, keepInbox) ==
  LET queue == s.agent.nextTurn
      mine  == \E m \in ToSet(queue) : SameRound(m, s.drv.attempt.msg)
      t == IF keepInbox THEN s
           ELSE [s EXCEPT !.agent.nextTurn = <<>>, !.agent.nextStep = {},
                          !.agent.wake = FALSE,
                          !.drv.attempt.cancelled = @ \/ mine]
  IN  [t EXCEPT !.agent.aborted = s.agent.pc # "idle"]

-----------------------------------------------------------------------------
(* The driver.  readyToDrive and the loop of requestDrive.  `run` is 0     *)
(* while the state holds no promise; it is assigned only when the first    *)
(* synchronous part of the new loop has returned.                          *)
Ready(s) == /\ s.drv.fiber = "active"
            /\ s.agent.pc \in {"idle", "maintenance"}
            /\ ~s.drv.competing

Continuing(g) == g.phase = "active" /\ g.armed
Disarmed(s)   == [s EXCEPT !.goal.armed = FALSE]
Free(s)       == {i \in Loops : s.drv.loops[i] = "none"}
Room(s)       == \A i \in Loops : Free(s) \ {i} # {}
NewLoop(s)    == CHOOSE i \in Free(s) : TRUE

(* drive() up to its first await when a checkpoint is owed.                *)
Checkpoint(s, i) ==
  IF Ready(s) THEN [s EXCEPT !.drv.checkpoint = FALSE, !.drv.loops[i] = "flush"]
  ELSE [s EXCEPT !.drv.loops[i] = "turn"]

(* The goal/changed listener, after the pause it may have to enforce.      *)
Changed(s) ==
  LET t == [s EXCEPT !.drv.checkpoint = TRUE]
  IN  IF s.drv.fiber = "closed" THEN s
      ELSE IF s.drv.fiber = "closing" THEN t
      ELSE IF s.drv.run # 0 THEN [t EXCEPT !.drv.requested = TRUE]
      ELSE LET i == NewLoop(s)
           IN  [Checkpoint([t EXCEPT !.drv.requested = FALSE], i) EXCEPT !.drv.run = i]

(* GoalService.commit: the new revision, its activation, the notification. *)
Commit(s, phase, armed) ==
  Changed([s EXCEPT !.goal.rev = @ + 1, !.goal.phase = phase, !.goal.armed = armed])

(* A form the code does not have: competing work is only noted.            *)
InsertUnseen(s, m) ==
  [s EXCEPT !.agent.nextTurn = Append(@, m),
            !.drv.competing = @ \/ ~SameRound(m, s.drv.attempt.msg)]

(* Inbox insertion into next-turn: any message but the reservation itself  *)
(* competes with it.                                                       *)
Insert(s, m) ==
  LET t == [s EXCEPT !.agent.nextTurn = Append(@, m)]
  IN  IF SameRound(m, s.drv.attempt.msg) THEN t
      ELSE [t EXCEPT !.drv.competing = TRUE,
                     !.drv.attempt.stale = @ \/ s.drv.attempt.phase = "queued"]

(* The rest of drive(): settle the previous attempt, or reserve a round.   *)
Reserve(s) ==
  LET about == {m.key : m \in ToSet(s.agent.nextTurn) \cup {s.agent.prompt}}
      m == Round(s.goal, CHOOSE k \in 1 .. Cardinality(about) + 1 : k \notin about)
      t == [s EXCEPT !.drv.attempt = [NoAttempt EXCEPT !.msg = m, !.phase = "queued"]]
  IN  WakeDriver(Insert(t, m))

(* followup throws before it inserts anything: the reservation is undone   *)
(* and the goal blocked, like one whose rounds are used up.                *)
QueueFails(s) == <<s.goal.rev, s.goal.rounds + 1>> \in Refused

(* A form the code does not have: the settled attempt asks for no drive.   *)
ContinueUnrequested(s) ==
  IF s.drv.attempt.phase # "none" THEN
    [s EXCEPT !.drv.attempt = NoAttempt, !.drv.checkpoint = TRUE]
  ELSE IF ~Continuing(s.goal) THEN s
  ELSE IF s.goal.rounds >= s.goal.cap \/ QueueFails(s) THEN Commit(s, "blocked", FALSE)
  ELSE Reserve(s)

Continue(s) ==
  IF s.drv.attempt.phase # "none" THEN
    [s EXCEPT !.drv.attempt = NoAttempt, !.drv.checkpoint = TRUE, !.drv.requested = TRUE]
  ELSE IF ~Continuing(s.goal) THEN s
  ELSE IF s.goal.rounds >= s.goal.cap \/ QueueFails(s) THEN Commit(s, "blocked", FALSE)
  ELSE Reserve(s)

Drive(s, i) ==
  LET t == [s EXCEPT !.drv.loops[i] = "turn"]
  IN  IF ~Ready(s) THEN t
      ELSE IF s.drv.checkpoint THEN Checkpoint(s, i)
      ELSE Continue(t)

RequestDrive(s) ==
  IF s.drv.fiber # "active" THEN s
  ELSE IF s.drv.run # 0 THEN [s EXCEPT !.drv.requested = TRUE]
  ELSE LET i == NewLoop(s)
       IN  [Drive([s EXCEPT !.drv.requested = FALSE], i) EXCEPT !.drv.run = i]

(* The agent/status listener on idle.  An attempt that never entered, or   *)
(* was cancelled, pauses the goal it belongs to.                           *)
OwnsGoal(a, g) == a.msg.id = g.id /\ a.msg.rev = g.rev

(* A form the code does not have: only a round that never entered pauses.  *)
OnIdleUncancelled(s) ==
  LET a == s.drv.attempt
      t == [s EXCEPT !.drv.competing = FALSE]
      dropped == a.phase \in {"queued", "claimed"} /\ Continuing(s.goal) /\ OwnsGoal(a, s.goal)
  IN  RequestDrive(IF dropped THEN Commit([t EXCEPT !.drv.attempt = NoAttempt], "paused", FALSE)
                   ELSE t)

OnIdle(s) ==
  LET a == s.drv.attempt
      t == [s EXCEPT !.drv.competing = FALSE]
      dropped == /\ a.phase \in {"queued", "claimed"} \/ a.cancelled
                 /\ Continuing(s.goal)
                 /\ OwnsGoal(a, s.goal)
  IN  RequestDrive(IF dropped THEN Commit([t EXCEPT !.drv.attempt = NoAttempt], "paused", FALSE)
                   ELSE t)

(* The driver of the agent exits; a latched wake opens the next turn.      *)
Retire(s) ==
  LET t == [s EXCEPT !.agent = [@ EXCEPT !.pc = "idle", !.prompt = NoMsg, !.batch = {},
                                         !.aborted = FALSE, !.wake = FALSE]]
      u == IF s.drv.fiber = "closed" THEN t ELSE OnIdle(t)
  IN  IF s.agent.wake /\ u.agent.pc = "idle" /\ Pending(u) THEN OpenTurn(u) ELSE u

(* turn/end as the driver hears it; agent/error comes with "error".        *)
Settled(s, kind) ==
  IF s.drv.fiber = "closed" THEN s
  ELSE IF kind \in {"max-tokens", "error"} THEN Disarmed(s)
  ELSE IF kind # "aborted" THEN s
  ELSE IF s.drv.attempt.phase \in {"claimed", "admitted"}
       THEN [s EXCEPT !.drv.attempt.cancelled = TRUE]
       ELSE Disarmed(s)

EndTurn(s, kind) ==
  LET t == Settled(s, kind)
  IN  IF kind \in {"completed", "max-tokens"} /\ Pending(s) THEN OpenTurn(t) ELSE Retire(t)

-----------------------------------------------------------------------------
(* The fence: agent/pre-step.                                              *)
Valid(s) == /\ s.drv.fiber = "active"
            /\ s.drv.attempt.phase = "claimed"
            /\ ~s.drv.attempt.stale
            /\ SameRound(s.agent.prompt, s.drv.attempt.msg)
            /\ Continuing(s.goal)
            /\ IsNext(s.agent.prompt, s.goal)

Fenced(s) == s.agent.prompt.from = "goal" /\ s.drv.fiber # "closed"

(* A form the code does not have: nothing goes back.                      *)
RestoreNothing(s) == s

(* Context claimed with a round that does not enter goes back.  The code   *)
(* leaves out a goal message of round 0; the driver makes none.            *)
RestoreOthers(s) == [s EXCEPT !.agent.nextStep = s.agent.batch \cup @]

Dropped(s) == RequestDrive(RestoreOthers([s EXCEPT !.drv.attempt = NoAttempt]))

(* The first check leaves alone a reservation that is not the claimed one. *)
FirstRejected(s) ==
  IF SameRound(s.agent.prompt, s.drv.attempt.msg) THEN Dropped(s)
  ELSE RequestDrive(RestoreOthers(s))

(* A veto of a later listener blocks the goal instead of retrying.         *)
Blocks(s) == /\ Fenced(s)
             /\ OwnsGoal([msg |-> s.agent.prompt], s.goal)
             /\ Continuing(s.goal)

Vetoed(s) ==
  LET t == [s EXCEPT !.drv.attempt = NoAttempt]
  IN  IF ~Fenced(s) THEN s
      ELSE IF Blocks(s) THEN Commit(t, "blocked", FALSE) ELSE t

(* step/start and the claimed messages; the goal's fold checks a round.    *)
Admissible(g, m) == /\ g.phase = "active"
                    /\ IsNext(m, g)
                    /\ m.round <= g.cap

Enter(s) ==
  LET m == s.agent.prompt
      t == [s EXCEPT !.agent.pc = "step", !.agent.batch = {}]
  IN  IF m = NoMsg /\ s.agent.batch = {} THEN EndTurn(s, "blocked")
      ELSE IF m.from # "goal" THEN t
      ELSE IF Admissible(s.goal, m)
           THEN [t EXCEPT !.goal.rounds = m.round,
                          !.drv.attempt.phase = IF s.drv.attempt.msg = m THEN "admitted" ELSE @]
           ELSE [t EXCEPT !.goal.failed = TRUE]

-----------------------------------------------------------------------------
(* What a step does to the history: `halt` says whether it stops automatic *)
(* work or, by a revision of the goal, allows it again ("go").             *)
(* `quelled` leaves out rounds of an earlier revision and maintenance, and *)
(* `slipped` notes a flush that failed behind the fence (halt "late").     *)
Reserves(s) == drv.attempt.phase = "none" /\ s.drv.attempt.phase # "none"

Twins(s) == \E m, n \in ToSet(s.agent.nextTurn) \cup {s.agent.prompt} : m # n /\ SameRound(m, n)

Observed(s, halt) ==
  [audit EXCEPT
    !.quelled = \/ /\ halt \in {"stop", "late"} /\ agent.pc # "maintenance"
                   /\ drv.attempt.phase # "none" => OwnsGoal(drv.attempt, goal)
                \/ @ /\ halt # "go",
    !.window  = agent.pc = "outer" /\ (@ \/ s.goal.rev # goal.rev),
    !.slipped = agent.pc = "outer" /\ (@ \/ halt = "late"),
    !.muted   = @ \/ (agent.pc = "maintenance" /\ s.agent.aborted),
    !.twins   = @ \/ Twins(s),
    !.overtaken = IF Reserves(s) THEN @ \ {s.drv.attempt.msg} ELSE @]

Step(s, halt) == /\ ~goal.failed /\ Room(state)
                 /\ Become(s) /\ audit' = Observed(s, halt)

(* The fence must lose none of the context claimed with the round.         *)
FenceStep(s) ==
  /\ ~goal.failed /\ Room(state) /\ Become(s)
  /\ audit' = [Observed(s, "no") EXCEPT !.lost = @ \cup (agent.batch \ (s.agent.nextStep \cup s.agent.batch))]

-----------------------------------------------------------------------------
(* People, plugins and the process.                                        *)
Submit ==
  /\ used.sends < MaxSends
  /\ LET m == Prompt(used.sends + 1)
         s == WakeDriver(Insert(state, m))
     IN  /\ ~goal.failed /\ Become(s)
         /\ audit' = [audit EXCEPT !.overtaken = @ \cup {x \in ToSet(agent.nextTurn) : x.from = "goal"}]
  /\ Spend("sends")

Inject(c) ==
  /\ used.sends < MaxSends
  /\ c \notin used.injected
  /\ Step([state EXCEPT !.agent.nextStep = @ \cup {c}], "no")
  /\ used' = [used EXCEPT !.sends = @ + 1, !.injected = @ \cup {c}]

Cancel(keepInbox) ==
  /\ used.stops < MaxStops
  /\ LET s == Cancelled(state, keepInbox)
         discards == s.drv.attempt.cancelled /\ ~drv.attempt.cancelled
     IN  Step(s, IF Running(state) \/ discards THEN "stop" ELSE "no")
  /\ Spend("stops")

(* GoalService: create, edit, pause, resume, complete, block, clear.       *)
Operations == {"create", "edit", "pause", "resume", "complete", "block", "clear"}

Allowed(op) ==
  CASE op = "create" -> goal.phase \in {"none", "complete"}
    [] op \in {"edit", "clear"} -> goal.phase # "none"
    [] op \in {"pause", "block"} -> goal.phase = "active"
    [] op = "complete" -> goal.phase \in {"active", "paused", "blocked"}
    [] op = "resume" -> /\ goal.phase \in {"active", "paused", "blocked"}
                        /\ ~Continuing(goal)
                        /\ goal.rounds < goal.cap

Revised(op, cap) ==
  LET next == [goal EXCEPT !.rev = @ + 1, !.armed = FALSE]
  IN  CASE op = "create"   -> [id |-> goal.id + 1, rev |-> 1, phase |-> "active", rounds |-> 0,
                               cap |-> cap, armed |-> TRUE, failed |-> FALSE]
        [] op = "edit"     -> [next EXCEPT !.cap = cap, !.armed = goal.armed]
        [] op = "resume"   -> [next EXCEPT !.phase = "active", !.armed = TRUE]
        [] op = "pause"    -> [next EXCEPT !.phase = "paused"]
        [] op = "complete" -> [next EXCEPT !.phase = "complete"]
        [] op = "block"    -> [next EXCEPT !.phase = "blocked"]
        [] op = "clear"    -> [next EXCEPT !.phase = "none", !.rounds = 0, !.cap = 0]

(* A pause of a host ends the turn that runs; its queue is kept.           *)
Mutate(op, cap, host) ==
  LET s == [state EXCEPT !.goal = Revised(op, cap)]
      t == IF op = "pause" /\ host /\ Running(s) /\ drv.fiber # "closed"
           THEN Cancelled(s, TRUE) ELSE s
  IN  /\ used.mutations < MaxMutations
      /\ Allowed(op)
      /\ IF op \in {"create", "edit"} THEN cap \in Caps ELSE cap = goal.cap
      /\ Step(Changed(t), IF op \in {"create", "edit", "resume"} THEN "go" ELSE "stop")
      /\ Spend("mutations")

HostMutates == \E op \in Operations, cap \in Caps \cup {goal.cap} : Mutate(op, cap, TRUE)

(* The goal tools.  A person's turn may do anything but clear; a round may *)
(* complete or block the very goal it is the latest round of.              *)
ModelMayUse(op) ==
  \/ agent.prompt.from = "human" /\ op # "clear"
  \/ /\ op \in {"complete", "block"}
     /\ agent.prompt.from = "goal"
     /\ OwnsGoal([msg |-> agent.prompt], goal)
     /\ agent.prompt.round = goal.rounds

ModelMutates ==
  /\ agent.pc = "step"
  /\ \E op \in Operations, cap \in Caps \cup {goal.cap} :
       ModelMayUse(op) /\ Mutate(op, cap, FALSE)

(* runMaintenance: the status stays idle throughout, so nothing is told.   *)
StartJob ==
  /\ used.jobs < MaxJobs
  /\ agent.pc = "idle"
  /\ Step([state EXCEPT !.agent.pc = "maintenance"], "no")
  /\ Spend("jobs")

JobEnds ==
  /\ agent.pc = "maintenance"
  /\ LET s == [state EXCEPT !.agent.pc = "idle", !.agent.aborted = FALSE, !.agent.wake = FALSE]
     IN  Step(IF agent.wake /\ Pending(s) THEN OpenTurn(s) ELSE s, "no")
  /\ UNCHANGED used

(* The process stops anywhere and the session is resumed: goal and inbox   *)
(* come from the log, a claimed batch that never entered does not.         *)
Restart ==
  /\ used.faults < MaxFaults
  /\ Step([state EXCEPT !.goal.armed = FALSE,
                        !.agent = [@ EXCEPT !.pc = "idle", !.prompt = NoMsg, !.batch = {},
                                            !.aborted = FALSE, !.wake = FALSE],
                        !.drv = [fiber |-> "active", attempt |-> NoAttempt, competing |-> FALSE,
                                 checkpoint |-> FALSE, requested |-> FALSE, run |-> 0,
                                 loops |-> [i \in Loops |-> "none"],
                                 waits |-> [idle |-> FALSE, run |-> 0]]], "stop")
  /\ Spend("faults")

(* The plugin unloads.  An agent on maintenance counts as idle here.       *)
Unload ==
  /\ used.stops < MaxStops
  /\ drv.fiber = "active"
  /\ LET s == [Disarmed(state) EXCEPT
                 !.drv.fiber = "closing",
                 !.drv.attempt.stale = drv.attempt.phase # "none",
                 !.drv.waits = [idle |-> drv.attempt.phase # "none" /\ Running(state),
                                run |-> drv.run]]
     IN  Step(IF s.drv.waits.idle THEN Cancelled(s, FALSE) ELSE s, "stop")
  /\ Spend("stops")

Unloaded ==
  /\ drv.fiber = "closing"
  /\ drv.waits.idle => agent.pc = "idle"
  /\ drv.waits.run # 0 => drv.loops[drv.waits.run] = "none"
  /\ Step([state EXCEPT !.drv.fiber = "closed", !.drv.attempt = NoAttempt, !.drv.run = 0], "no")
  /\ UNCHANGED used

-----------------------------------------------------------------------------
(* The loops of the driver.                                                *)
Flushed(i) ==
  /\ drv.loops[i] = "flush"
  /\ LET s == [state EXCEPT !.drv.loops[i] = "turn"]
     IN  Step(IF Ready(s) /\ ~drv.checkpoint THEN Continue(s) ELSE s, "no")
  /\ UNCHANGED used

FlushFails(i) ==
  /\ used.faults < MaxFaults
  /\ drv.loops[i] = "flush"
  /\ Step(Disarmed([state EXCEPT !.drv.loops[i] = "turn"]),
          IF agent.pc = "outer" THEN "late" ELSE "stop")
  /\ Spend("faults")

LoopTurns(i) ==
  /\ drv.loops[i] = "turn"
  /\ Step(IF drv.requested /\ drv.fiber = "active"
          THEN Drive([state EXCEPT !.drv.requested = FALSE], i)
          ELSE [state EXCEPT !.drv.loops[i] = "none", !.drv.run = 0], "no")
  /\ UNCHANGED used

-----------------------------------------------------------------------------
(* The turn of the agent.                                                  *)
Aborts(pc) ==
  /\ agent.pc = pc
  /\ agent.aborted
  /\ Step(EndTurn(state, "aborted"), "no")
  /\ UNCHANGED used

AssembleAborts == Aborts("assemble")

AssembleFails ==
  /\ used.faults < MaxFaults
  /\ agent.pc = "assemble" /\ ~agent.aborted
  /\ Step(EndTurn(state, "error"), "stop")
  /\ Spend("faults")

FenceRejects ==
  /\ agent.pc = "assemble" /\ ~agent.aborted
  /\ Fenced(state) /\ ~Valid(state)
  /\ FenceStep(EndTurn(FirstRejected(state), "blocked"))
  /\ UNCHANGED used

HooksBegin ==
  /\ agent.pc = "assemble" /\ ~agent.aborted
  /\ Fenced(state) => Valid(state)
  /\ Step([state EXCEPT !.agent.pc = "hooks"], "no")
  /\ UNCHANGED used

(* An abort while later listeners run: the fence restores the context of a *)
(* batch they let enter, then the turn ends.                               *)
HooksAbort(entering) ==
  /\ agent.pc = "hooks" /\ agent.aborted
  /\ Step(EndTurn(IF entering /\ Fenced(state) THEN RestoreOthers(state) ELSE state,
                  "aborted"), "no")
  /\ UNCHANGED used

HooksReject ==
  /\ used.faults < MaxFaults
  /\ agent.pc = "hooks" /\ ~agent.aborted
  /\ Step(EndTurn(Vetoed(state), "blocked"), IF Blocks(state) THEN "stop" ELSE "no")
  /\ Spend("faults")

HooksThrow ==
  /\ used.faults < MaxFaults
  /\ agent.pc = "hooks" /\ ~agent.aborted
  /\ Step(EndTurn(IF Fenced(state) THEN RequestDrive([state EXCEPT !.drv.attempt = NoAttempt])
                  ELSE state, "error"), "stop")
  /\ Spend("faults")

FenceRechecks ==
  /\ agent.pc = "hooks" /\ ~agent.aborted
  /\ Fenced(state) /\ ~Valid(state)
  /\ FenceStep(EndTurn(Dropped(state), "blocked"))
  /\ UNCHANGED used

(* A form the code does not have: no second check.                         *)
HooksEnterUnchecked ==
  /\ agent.pc = "hooks" /\ ~agent.aborted
  /\ Step(IF OuterAwaits THEN [state EXCEPT !.agent.pc = "outer"] ELSE Enter(state), "no")
  /\ UNCHANGED used

HooksEnter ==
  /\ agent.pc = "hooks" /\ ~agent.aborted
  /\ Fenced(state) => Valid(state)
  /\ Step(IF OuterAwaits THEN [state EXCEPT !.agent.pc = "outer"] ELSE Enter(state), "no")
  /\ UNCHANGED used

OuterAborts == Aborts("outer")

OuterEnters ==
  /\ agent.pc = "outer" /\ ~agent.aborted
  /\ Step(Enter(state), "no")
  /\ UNCHANGED used

(* Later steps of the turn take the context that arrived meanwhile.        *)
StepClaims ==
  /\ agent.pc = "step" /\ ~agent.aborted
  /\ agent.nextStep # {}
  /\ Step([state EXCEPT !.agent.nextStep = {}], "no")
  /\ UNCHANGED used

StepAborts == Aborts("step")

TurnCompletes ==
  /\ agent.pc = "step" /\ ~agent.aborted
  /\ agent.nextStep = {}
  /\ Step(EndTurn(state, "completed"), "no")
  /\ UNCHANGED used

TurnFails(kind) ==
  /\ used.faults < MaxFaults
  /\ agent.pc = "step" /\ ~agent.aborted
  /\ kind = "max-tokens" => agent.nextStep = {}
  /\ Step(EndTurn(state, kind), IF kind = "blocked" THEN "no" ELSE "stop")
  /\ Spend("faults")

-----------------------------------------------------------------------------
Turn == \/ AssembleAborts \/ FenceRejects \/ HooksBegin
        \/ \E entering \in BOOLEAN : HooksAbort(entering)
        \/ FenceRechecks \/ HooksEnter \/ OuterAborts \/ OuterEnters
        \/ StepClaims \/ StepAborts \/ TurnCompletes

Faults == \/ AssembleFails \/ HooksReject \/ HooksThrow
          \/ \E kind \in {"max-tokens", "error", "blocked"} : TurnFails(kind)
          \/ \E i \in Loops : FlushFails(i)

Driver == \E i \in Loops : Flushed(i) \/ LoopTurns(i)

People == \/ Submit \/ \E c \in Contexts : Inject(c)
          \/ \E keepInbox \in BOOLEAN : Cancel(keepInbox)
          \/ HostMutates \/ ModelMutates

Next == Turn \/ Faults \/ Driver \/ People \/ StartJob \/ JobEnds
        \/ Restart \/ Unload \/ Unloaded

(* What has started goes on: flushes, listeners and model calls answer,    *)
(* and maintenance ends.                                                   *)
Fairness == /\ WF_vars(Turn) /\ WF_vars(JobEnds) /\ WF_vars(Unloaded)
            /\ \A i \in Loops : WF_vars(Flushed(i) \/ LoopTurns(i))

Spec == Init /\ [][Next]_vars /\ Fairness

-----------------------------------------------------------------------------
Messages == [from : {"none", "human", "goal"}, id : Nat, rev : Nat, round : Nat, key : Nat]
Goals    == [id : Nat, rev : Nat, phase : {"none", "active", "paused", "blocked", "complete"},
             rounds : Nat, cap : Nat, armed : BOOLEAN, failed : BOOLEAN]
Attempts == [msg : Messages, phase : {"none", "queued", "claimed", "admitted"},
             cancelled : BOOLEAN, stale : BOOLEAN]
Drivers  == [fiber : {"active", "closing", "closed"}, attempt : Attempts,
             competing : BOOLEAN, checkpoint : BOOLEAN, requested : BOOLEAN,
             run : 0 .. MaxLoops, loops : [Loops -> {"none", "turn", "flush"}],
             waits : [idle : BOOLEAN, run : 0 .. MaxLoops]]
Agents   == [pc : RunningPCs \cup {"idle", "maintenance"}, prompt : Messages,
             batch : SUBSET Contexts, aborted : BOOLEAN, wake : BOOLEAN,
             nextTurn : Seq(Messages), nextStep : SUBSET Contexts]
Audits   == [quelled : BOOLEAN, window : BOOLEAN, slipped : BOOLEAN, muted : BOOLEAN,
             twins : BOOLEAN, overtaken : SUBSET Messages, lost : SUBSET Contexts]
Budgets  == [injected : SUBSET Contexts, sends : 0 .. MaxSends, mutations : 0 .. MaxMutations,
             stops : 0 .. MaxStops, faults : 0 .. MaxFaults, jobs : 0 .. MaxJobs]

TypeOK ==
  /\ goal \in Goals /\ drv \in Drivers /\ agent \in Agents
  /\ audit \in Audits /\ used \in Budgets

(* A message that enters as a round is the next round of the active goal   *)
(* and within its cap (fold.ts), whatever edits, pauses, cancels, vetoes   *)
(* and restarts fell between its reservation and its entry - unless the    *)
(* goal was changed while a listener outside the fence awaited, or the     *)
(* plugin is gone and a round it left in the inbox meets no fence.         *)
FoldGuarded == goal.failed => audit.window \/ drv.fiber = "closed"

(* The same without those exceptions: "prevents an async listener from     *)
(* editing or pausing the goal while still entering the old prompt".       *)
FoldNeverFails == ~goal.failed

RoundEnters == /\ drv.fiber # "closed"
               /\ goal'.id = goal.id /\ goal'.rounds = goal.rounds + 1

(* After a cancel of running or queued work, a failure, a pause, a restart *)
(* or the start of an unload, no round enters until the goal is changed -  *)
(* unless the round it stopped was of an earlier revision, it fell into    *)
(* maintenance, or it was the flush of a second loop of the driver that    *)
(* failed once the round had passed the fence: that disarms the goal, and  *)
(* the round still enters.                                                 *)
NoSelfRestart == [][RoundEnters /\ audit.quelled => audit.slipped]_vars

(* A round over which a person's prompt was submitted while it was queued  *)
(* yields to that prompt - if the round was reserved once: a drive during  *)
(* maintenance takes the idle status for the end of its attempt, drops the *)
(* reservation still queued and makes a second one of the same round.      *)
HumanFirst == [][RoundEnters /\ ~audit.twins => agent.prompt \notin audit.overtaken]_vars

(* Context claimed together with a round the fence rejects is not lost.    *)
FenceKeepsContext == audit.lost = {}

(* An active, armed goal is worked on until its rounds are used up, one    *)
(* cannot be queued or it is stopped: no lost trigger leaves it waiting.  The exception is a      *)
(* cancel during maintenance, which no idle status follows.                *)
GoalConcludes ==
  Continuing(goal) ~> \/ ~Continuing(goal) \/ drv.fiber # "active"
                      \/ goal.failed \/ audit.muted

=============================================================================
