---------------------------- MODULE AgentDriver ----------------------------
(***************************************************************************)
(* ReactLoopAgent (core/agent-loop/src/agent.ts) and its Inbox             *)
(* (core/agent/src/inbox.ts): one agent that drives one session.           *)
(*                                                                         *)
(* The program is single-threaded.  `pc` is the await the driver is        *)
(* suspended at; a resumption runs to the next await.  Inside such a run   *)
(* the code publishes notifications whose listeners may call the agent     *)
(* again before the run goes on: `frames` is the stack of interrupted      *)
(* continuations, the top last.  While it is not empty only listeners of   *)
(* the top frame act, or its continuation; no suspended code resumes.      *)
(* The frames "open", "ending" and "close" stand for the publication of a  *)
(* session event, during which Session.append refuses to be reentered.     *)
(***************************************************************************)
EXTENDS Integers, SequencesExt

CONSTANTS Messages,     \* message identities, each submitted at most once
          MaxSteps,     \* bound on the steps a turn takes because of tool calls
          MaxAttempts,  \* bound on the model requests of one step
          MaxCancels,   \* bound on the calls of cancel()
          MaxJobs,      \* bound on the maintenance tasks
          MaxEdits,     \* bound on remove, replace and prepend
          MaxCrashes,   \* bound on the restarts of the process
          MaxDepth      \* bound on the nesting of listener calls

ASSUME BoundsAssumption ==
  /\ MaxSteps \in Nat /\ MaxAttempts \in Nat /\ MaxCancels \in Nat
  /\ MaxJobs \in Nat /\ MaxEdits \in Nat /\ MaxCrashes \in Nat
  /\ MaxDepth \in Nat

VARIABLES phase,     \* the driver phase, with its abort signal and wake latch
          nextTurn,  \* Inbox: prompts awaiting individual turns
          nextStep,  \* Inbox: input awaiting the next step boundary
          pc,        \* the await the driver is suspended at
          turn,      \* locals of turn(): claimed batch, verdict, ending, attempts
          frames,    \* synchronous continuations interrupted by listeners
          log,       \* turn and step boundaries of the durable log
          fate,      \* what became of each message
          audit,     \* history read by the properties only
          used       \* how much of each bound is spent

inbox == <<nextTurn, nextStep, fate>>
vars == <<phase, nextTurn, nextStep, pc, turn, frames, log, fate, audit, used>>

Targets  == {"next-turn", "next-step"}
Causes   == {"user", "disposed"}
Suspended == {"pre", "decided", "request", "stream", "recover", "tools",
              "stepGap", "stopping", "again", "exit"}
Fates    == {"unsent", "pending", "claimed", "entered", "dropped", "canceled"}

(* Frames that belong to a driver between two of its suspensions.          *)
DriverOps == {"kick", "open", "failing", "ending", "close"}
LockedOps == {"open", "ending", "close"}
FrameOps  == DriverOps \cup {"wake", "relatch", "clearTurn", "abort"}

Frame(op, flag, cause) == [op |-> op, flag |-> flag, cause |-> cause]
Top(op) == frames # <<>> /\ Last(frames).op = op

Idle(n)    == [kind |-> "idle", aborted |-> "no", turn |-> n, step |-> 0, wake |-> FALSE]
Running(n) == [Idle(n) EXCEPT !.kind = "running"]
Job(n)     == [Idle(n) EXCEPT !.kind = "maintenance"]

Aborted    == phase.aborted # "no"
Pending    == ToSet(nextTurn) \cup ToSet(nextStep)
HasPending == nextTurn # <<>> \/ nextStep # <<>>

NoTurn == [batch |-> <<>>, prompts |-> {}, verdict |-> "none", ends |-> "null", attempts |-> 0]

Init == /\ phase = Idle(0)
        /\ nextTurn = <<>> /\ nextStep = <<>>
        /\ pc = "none"
        /\ turn = NoTurn
        /\ frames = <<>>
        /\ log = [turn |-> 0, open |-> FALSE, step |-> 0, stepOpen |-> FALSE]
        /\ fate = [m \in Messages |-> "unsent"]
        /\ audit = [owed |-> {}, gap |-> {}, empty |-> {}, kept |-> {}]
        /\ used = [cancels |-> 0, jobs |-> 0, edits |-> 0, crashes |-> 0]

-----------------------------------------------------------------------------
(* Callers.  Any plugin, controller or tool may call from outside (no      *)
(* frame), or from a listener of the notification the top frame publishes. *)
(* clearTurn and abort publish only when something was discarded.          *)
CanCall == frames # <<>> =>
             /\ Len(frames) < MaxDepth
             /\ Last(frames).op \notin LockedOps
             /\ Last(frames).op \in {"clearTurn", "abort"} => Last(frames).flag

(* Inbox.splice at one end of a list.                                      *)
Enqueue(m, target) ==
  /\ nextTurn' = IF target = "next-turn" THEN Append(nextTurn, m) ELSE nextTurn
  /\ nextStep' = IF target = "next-step" THEN Append(nextStep, m) ELSE nextStep
  /\ fate' = [fate EXCEPT ![m] = "pending"]

(* A waking message is owed a turn unless the agent is being disposed of;  *)
(* `gap` holds those that arrive after the driver's last look at the inbox.*)
OweTurn(m) ==
  LET live == phase.kind = "running" /\ ~Aborted
  IN  [audit EXCEPT !.owed = IF phase.aborted = "disposed" THEN @ ELSE @ \cup {m},
                    !.gap  = IF live /\ pc = "exit" THEN @ \cup {m} ELSE @,
                    !.kept = {}]

Send(m, target, wakeup) ==
  /\ CanCall
  /\ fate[m] = "unsent"
  /\ LET wakingAfterAbort == wakeup /\ phase.kind # "idle" /\ Aborted
     IN  /\ Enqueue(m, IF wakingAfterAbort THEN "next-turn" ELSE target)
         /\ frames' = IF wakeup THEN Append(frames, Frame("wake", wakingAfterAbort, "no"))
                                ELSE frames
  /\ audit' = IF wakeup THEN OweTurn(m) ELSE audit
  /\ UNCHANGED <<phase, pc, turn, log, used>>

(* Two forms of the latch the code does not have: none for maintenance,    *)
(* one for every wake.                                                     *)
StartDriver(rest) == /\ phase' = Running(phase.turn)
                     /\ frames' = Append(rest, Frame("kick", FALSE, "no"))

LatchIf(condition, rest) == /\ phase' = [phase EXCEPT !.wake = @ \/ condition]
                            /\ frames' = rest

WakeForgetsMaintenance(wakeAfterAbort, rest) ==
  IF phase.kind = "idle" THEN StartDriver(rest)
  ELSE LatchIf(phase.aborted # "disposed" /\ wakeAfterAbort, rest)

WakeLatchesAlways(wakeAfterAbort, rest) ==
  IF phase.kind = "idle" THEN StartDriver(rest)
  ELSE LatchIf(phase.aborted # "disposed", rest)

(* wakeDriver: start a driver, or latch the wake behind work that cannot   *)
(* deliver it.  `kick` runs after the listeners of agent/status.           *)
WakeDriver(wakeAfterAbort, rest) ==
  IF phase.kind = "idle" THEN StartDriver(rest)
  ELSE LatchIf(/\ phase.aborted # "disposed"
               /\ phase.kind = "maintenance" \/ wakeAfterAbort, rest)

Wake == /\ Top("wake")
        /\ WakeDriver(Last(frames).flag, Front(frames))
        /\ UNCHANGED <<inbox, pc, turn, log, audit, used>>

(* The signal is fired at a driver that has passed its last check of it:   *)
(* the turn ends as it would have, and the queue is drained all the same.  *)
AbortUnseen == \/ \E i \in DOMAIN frames : frames[i].op = "close" /\ frames[i].flag
               \/ pc = "decided" /\ turn.verdict = "empty" /\ turn.ends # "null"

(* Cancel that retires the phase at once, and cancel that arms an idle     *)
(* agent: mutations.                                                       *)
FireAbortRetires(cause, keepInbox) ==
  phase' = Idle(phase.turn) /\ UNCHANGED audit

FireAbortArmsIdle(cause, keepInbox) ==
  /\ phase' = [phase EXCEPT !.aborted = IF @ = "no" THEN cause ELSE @]
  /\ UNCHANGED audit

(* The end of cancel(): drop the latch with the inbox, fire the signal.    *)
(* The first cause of an activity stays.                                   *)
FireAbort(cause, keepInbox) ==
  IF phase.kind = "idle"
  THEN UNCHANGED <<phase, audit>>
  ELSE /\ phase' = [phase EXCEPT !.aborted = IF @ = "no" THEN cause ELSE @,
                                 !.wake = @ /\ keepInbox]
       /\ audit' = [audit EXCEPT
            !.owed = IF keepInbox /\ Aborted THEN @ ELSE @ \ Pending,
            !.kept = IF keepInbox /\ ~Aborted /\ phase.kind = "running" /\ ~AbortUnseen
                     THEN @ \cup Pending ELSE @]

Spend(what) == used' = [used EXCEPT ![what] = @ + 1]
Discard(S)  == /\ fate' = [m \in Messages |-> IF m \in S THEN "canceled" ELSE fate[m]]
               /\ audit' = [audit EXCEPT !.owed = @ \ S]

CancelKeepingInbox ==
  /\ CanCall /\ used.cancels < MaxCancels
  /\ FireAbort("user", TRUE)
  /\ Spend("cancels")
  /\ UNCHANGED <<inbox, pc, turn, frames, log>>

(* cancel() clears next-step, publishes, clears next-turn, publishes, and  *)
(* only then fires the signal.                                             *)
Cancel(cause) ==
  /\ CanCall /\ used.cancels < MaxCancels
  /\ Discard(ToSet(nextStep))
  /\ nextStep' = <<>>
  /\ frames' = Append(frames, Frame("clearTurn", nextStep # <<>>, cause))
  /\ Spend("cancels")
  /\ UNCHANGED <<phase, nextTurn, pc, turn, log>>

CancelClearsTurns ==
  /\ Top("clearTurn")
  /\ Discard(ToSet(nextTurn))
  /\ nextTurn' = <<>>
  /\ frames' = Append(Front(frames), Frame("abort", nextTurn # <<>>, Last(frames).cause))
  /\ UNCHANGED <<phase, nextStep, pc, turn, log, used>>

CancelAborts ==
  /\ Top("abort")
  /\ FireAbort(Last(frames).cause, FALSE)
  /\ frames' = Front(frames)
  /\ UNCHANGED <<inbox, pc, turn, log, used>>

(* cancel() from an observer of a session event: clearing a non-empty      *)
(* inbox would append, which is refused before anything changes.           *)
CancelInObserver(cause, keepInbox) ==
  /\ frames # <<>> /\ Last(frames).op \in LockedOps
  /\ used.cancels < MaxCancels
  /\ keepInbox => cause = "user"
  /\ keepInbox \/ ~HasPending
  /\ FireAbort(cause, keepInbox)
  /\ Spend("cancels")
  /\ UNCHANGED <<inbox, pc, turn, frames, log>>

RunMaintenance ==
  /\ CanCall /\ used.jobs < MaxJobs
  /\ phase.kind = "idle"
  /\ phase' = Job(phase.turn)
  /\ Spend("jobs")
  /\ UNCHANGED <<inbox, pc, turn, frames, log, audit>>

(* The queue edits of Inbox: remove, replace in place, prepend.            *)
CanEdit == CanCall /\ used.edits < MaxEdits
Without(list, m) ==
  IF m \in ToSet(list) THEN RemoveAt(list, CHOOSE i \in DOMAIN list : list[i] = m) ELSE list

RemoveFromTurns(m) ==   \* mutation: looks the message up in one list only
  /\ CanEdit /\ fate[m] = "pending"
  /\ nextTurn' = Without(nextTurn, m)
  /\ Discard({m})
  /\ Spend("edits")
  /\ UNCHANGED <<phase, nextStep, pc, turn, frames, log>>

RemovePending(m) ==
  /\ CanEdit /\ fate[m] = "pending"
  /\ nextTurn' = Without(nextTurn, m)
  /\ nextStep' = Without(nextStep, m)
  /\ Discard({m})
  /\ Spend("edits")
  /\ UNCHANGED <<phase, pc, turn, frames, log>>

ReplacePending(m, n) ==
  /\ CanEdit /\ fate[m] = "pending" /\ fate[n] = "unsent"
  /\ nextTurn' = ReplaceAll(nextTurn, m, n)
  /\ nextStep' = ReplaceAll(nextStep, m, n)
  /\ fate' = [fate EXCEPT ![m] = "canceled", ![n] = "pending"]
  /\ audit' = [audit EXCEPT !.owed = @ \ {m}]
  /\ Spend("edits")
  /\ UNCHANGED <<phase, pc, turn, frames, log>>

PrependPending(m, target) ==
  /\ CanEdit /\ fate[m] = "unsent"
  /\ nextTurn' = IF target = "next-turn" THEN Cons(m, nextTurn) ELSE nextTurn
  /\ nextStep' = IF target = "next-step" THEN Cons(m, nextStep) ELSE nextStep
  /\ fate' = [fate EXCEPT ![m] = "pending"]
  /\ Spend("edits")
  /\ UNCHANGED <<phase, pc, turn, frames, log, audit>>

Call == \/ \E m \in Messages, t \in Targets, w \in BOOLEAN : Send(m, t, w)
        \/ CancelKeepingInbox
        \/ \E c \in Causes : Cancel(c)
        \/ \E c \in Causes, k \in BOOLEAN : CancelInObserver(c, k)
        \/ RunMaintenance
        \/ \E m \in Messages : RemovePending(m)
        \/ \E m, n \in Messages : ReplacePending(m, n)
        \/ \E m \in Messages, t \in Targets : PrependPending(m, t)

-----------------------------------------------------------------------------
(* The prompt a claim takes: one at the boundary that opens a turn.  As a  *)
(* mutation, one at every boundary.                                        *)
FirstPrompt(target) == IF nextTurn # <<>> THEN <<Head(nextTurn)>> ELSE <<>>
NextPrompt(target) ==
  IF target = "next-turn" /\ nextTurn # <<>> THEN <<Head(nextTurn)>> ELSE <<>>

(* The driver.  A claim takes all next-step input and, at the boundary     *)
(* that opens a turn, one prompt; the driver then awaits pre-step.         *)
ClaimStep(target, rest) ==
  LET prompt == NextPrompt(target)
      batch  == nextStep \o prompt
  IN  /\ nextStep' = <<>>
      /\ nextTurn' = IF prompt = <<>> THEN nextTurn ELSE Tail(nextTurn)
      /\ fate' = [m \in Messages |-> IF m \in ToSet(batch) THEN "claimed" ELSE fate[m]]
      /\ turn' = [turn EXCEPT !.batch = batch, !.prompts = @ \cup ToSet(prompt)]
      /\ audit' = [audit EXCEPT !.owed = @ \ ToSet(batch)]
      /\ pc' = "pre"
      /\ frames' = rest

(* A batch that the turn does not enter is gone.                           *)
DropBatch == fate' = [m \in Messages |->
                        IF m \in ToSet(turn.batch) THEN "dropped" ELSE fate[m]]

(* Work still queued when a driver gives up waits for the next wake,       *)
(* unless a wake is latched.                                               *)
ParkPending == [audit EXCEPT !.owed = IF phase.wake THEN @ ELSE @ \ Pending]

(* turn/end is appended; `drains` when turn() goes on to look at the queue.*)
EndTurn(drains, rest) ==
  /\ log' = [log EXCEPT !.open = FALSE]
  /\ turn' = NoTurn
  /\ pc' = "none"
  /\ frames' = Append(rest, Frame("close", drains, "no"))

(* turn() from its start: an aborted driver opens nothing, and so does one *)
(* whose turn/start is refused before it commits.                          *)
BeginTurn(rest) ==
  \/ /\ pc' = "exit"
     /\ frames' = rest
     /\ audit' = ParkPending
     /\ UNCHANGED <<phase, turn, log>>
  \/ /\ ~Aborted
     /\ log' = [log EXCEPT !.turn = phase.turn + 1, !.open = TRUE, !.step = 0]
     /\ phase' = [phase EXCEPT !.turn = @ + 1]
     /\ turn' = NoTurn
     /\ pc' = "none"
     /\ frames' = Append(rest, Frame("open", FALSE, "no"))
     /\ UNCHANGED audit

Kick == /\ Top("kick")
        /\ BeginTurn(Front(frames))
        /\ UNCHANGED <<inbox, used>>

(* After turn/start is published.                                          *)
OpenTurn == /\ Top("open")
            /\ IF Aborted
               THEN /\ EndTurn(FALSE, Front(frames))
                    /\ audit' = ParkPending
                    /\ UNCHANGED inbox
               ELSE ClaimStep("next-turn", Front(frames)) /\ UNCHANGED log
            /\ UNCHANGED <<phase, used>>

At(await) == frames = <<>> /\ pc = await

(* pre-step listeners reject the step, or enter it with the claimed batch  *)
(* (and context), or rewrite it to nothing.                                *)
PreStepDecides ==
  /\ At("pre") /\ ~Aborted
  /\ \E v \in {"reject", "enter", "empty"} : turn' = [turn EXCEPT !.verdict = v]
  /\ pc' = "decided"
  /\ UNCHANGED <<phase, inbox, frames, log, audit, used>>

(* The verdict opens a step: what was claimed is entered, or a turn that   *)
(* owes the model its tool results goes on with nothing new.               *)
Entering == \/ turn.verdict = "enter"
            \/ turn.verdict = "empty" /\ turn.ends = "null" /\ phase.step > 0

(* A failure before the step opens.  agent/error is published for an       *)
(* error, nothing for an abort.                                            *)
PreStepFails ==
  /\ \/ At("pre")
     \/ At("decided") /\ Entering /\ Aborted
  /\ DropBatch
  /\ IF Aborted
     THEN EndTurn(FALSE, frames) /\ audit' = ParkPending
     ELSE /\ pc' = "none"
          /\ turn' = [turn EXCEPT !.batch = <<>>]
          /\ frames' = Append(frames, Frame("failing", FALSE, "no"))
          /\ UNCHANGED <<log, audit>>
  /\ UNCHANGED <<phase, nextTurn, nextStep, used>>

StepRejected ==
  /\ At("decided") /\ turn.verdict = "reject"
  /\ DropBatch
  /\ EndTurn(FALSE, frames)
  /\ audit' = ParkPending
  /\ UNCHANGED <<phase, nextTurn, nextStep, used>>

(* Nothing to enter: a turn that has ended stops here and drains the       *)
(* queue, a turn without a step completes and does not.                    *)
NothingToEnter ==
  /\ At("decided") /\ turn.verdict = "empty" /\ ~Entering
  /\ DropBatch
  /\ EndTurn(turn.ends # "null", frames)
  /\ audit' = IF turn.ends = "null" THEN [audit EXCEPT !.empty = @ \cup Pending] ELSE audit
  /\ UNCHANGED <<phase, nextTurn, nextStep, used>>

EnterStep ==
  /\ At("decided") /\ Entering /\ ~Aborted
  /\ phase' = [phase EXCEPT !.step = @ + 1]
  /\ log' = [log EXCEPT !.step = phase.step + 1, !.stepOpen = TRUE]
  /\ fate' = [m \in Messages |-> IF m \in ToSet(turn.batch)
                                 THEN IF turn.verdict = "enter" THEN "entered" ELSE "dropped"
                                 ELSE fate[m]]
  /\ turn' = [turn EXCEPT !.batch = <<>>, !.verdict = "none", !.attempts = 1]
  /\ pc' = "request"
  /\ UNCHANGED <<nextTurn, nextStep, frames, audit, used>>

(* step(): build the request, stream it, recover from a failed finish,     *)
(* run the tools.  Each suspension may fail; an abort is seen on resuming. *)
Resume(from, to) ==
  /\ At(from) /\ ~Aborted
  /\ pc' = to
  /\ UNCHANGED <<phase, inbox, turn, frames, log, audit, used>>

RequestBuilt  == Resume("request", "stream")
StreamFailed  == Resume("stream", "recover")
ToolsCalled   == Resume("stream", "tools")

RequestRetried ==
  /\ At("recover") /\ ~Aborted /\ turn.attempts < MaxAttempts
  /\ turn' = [turn EXCEPT !.attempts = @ + 1]
  /\ pc' = "request"
  /\ UNCHANGED <<phase, inbox, frames, log, audit, used>>

(* step() returns: max-tokens is sticky over the turn's later steps, and   *)
(* null asks for another step with the tool results.                       *)
StepReturns ==
  /\ \/ At("stream") /\ ~Aborted
     \/ At("tools")
  /\ \E end \in (IF pc = "stream" THEN {"completed", "max-tokens"} ELSE {"completed", "null"}) :
       /\ end = "null" => phase.step < MaxSteps
       /\ turn' = [turn EXCEPT !.ends = IF @ = "max-tokens" THEN @ ELSE end]
  /\ pc' = "stepGap"
  /\ UNCHANGED <<phase, inbox, frames, log, audit, used>>

(* step/end is appended, then the failure leaves the turn.                 *)
StepFails ==
  /\ \E p \in {"request", "stream", "recover", "tools"} : At(p)
  /\ log' = [log EXCEPT !.stepOpen = FALSE]
  /\ pc' = "none"
  /\ frames' = Append(frames, Frame(IF Aborted THEN "ending" ELSE "failing", FALSE, "no"))
  /\ UNCHANGED <<phase, inbox, turn, audit, used>>

(* step/end is appended after a step that returned; the turn goes on with  *)
(* a claim unless it has ended and no steering is waiting.                 *)
EndStep ==
  /\ At("stepGap")
  /\ log' = [log EXCEPT !.stepOpen = FALSE]
  /\ IF Aborted
     THEN /\ pc' = "none"
          /\ frames' = Append(frames, Frame("ending", FALSE, "no"))
          /\ UNCHANGED <<inbox, turn, audit>>
     ELSE IF turn.ends # "null" /\ nextStep = <<>>
     THEN pc' = "stopping" /\ UNCHANGED <<inbox, turn, frames, audit>>
     ELSE ClaimStep("next-step", frames)
  /\ UNCHANGED <<phase, used>>

(* agent/turn-stopping listeners have settled; steering reopens the loop.  *)
Stop ==
  /\ At("stopping") /\ ~Aborted
  /\ IF nextStep = <<>>
     THEN EndTurn(TRUE, frames) /\ UNCHANGED <<inbox, audit>>
     ELSE ClaimStep("next-step", frames) /\ UNCHANGED log
  /\ UNCHANGED <<phase, used>>

StopFails ==
  /\ At("stopping")
  /\ IF Aborted
     THEN EndTurn(FALSE, frames) /\ audit' = ParkPending
     ELSE /\ pc' = "none"
          /\ frames' = Append(frames, Frame("failing", FALSE, "no"))
          /\ UNCHANGED <<turn, log, audit>>
  /\ UNCHANGED <<phase, inbox, used>>

FinishFailedTurn ==
  /\ Top("failing") \/ Top("ending")
  /\ EndTurn(FALSE, Front(frames))
  /\ audit' = ParkPending
  /\ UNCHANGED <<phase, inbox, used>>

AfterTurnStops ==   \* mutation: one turn per wake, the queue is not looked at
  /\ Top("close")
  /\ frames' = Front(frames)
  /\ pc' = "exit"
  /\ UNCHANGED <<phase, inbox, turn, log, audit, used>>

(* After turn/end is published: a drained driver exits, otherwise a fresh  *)
(* signal replaces the old one and the latch set on it is stale.           *)
AfterTurn ==
  /\ Top("close")
  /\ frames' = Front(frames)
  /\ IF Last(frames).flag /\ HasPending
     THEN /\ phase' = [phase EXCEPT !.aborted = "no", !.wake = FALSE, !.step = 0]
          /\ pc' = "again"
     ELSE pc' = "exit" /\ UNCHANGED phase
  /\ UNCHANGED <<inbox, turn, log, audit, used>>

NextTurn == /\ At("again")
            /\ BeginTurn(frames)
            /\ UNCHANGED <<inbox, used>>

(* kick()'s finally: publish idle, then replay a latched wake.             *)
Exit == /\ At("exit")
        /\ phase' = Idle(phase.turn)
        /\ pc' = "none"
        /\ turn' = NoTurn
        /\ frames' = Append(frames, Frame("relatch", phase.wake, "no"))
        /\ UNCHANGED <<inbox, log, audit, used>>

Relatch == /\ Top("relatch")
           /\ IF Last(frames).flag /\ HasPending
              THEN WakeDriver(FALSE, Front(frames))
              ELSE frames' = Front(frames) /\ UNCHANGED phase
           /\ UNCHANGED <<inbox, pc, turn, log, audit, used>>

(* The maintenance task settles.                                           *)
EndMaintenance ==
  /\ frames = <<>> /\ phase.kind = "maintenance"
  /\ IF phase.wake /\ HasPending
     THEN /\ phase' = Running(phase.turn)
          /\ frames' = <<Frame("kick", FALSE, "no")>>
     ELSE phase' = Idle(phase.turn) /\ UNCHANGED frames
  /\ UNCHANGED <<inbox, pc, turn, log, audit, used>>

Continue == \/ Wake \/ CancelClearsTurns \/ CancelAborts
            \/ Kick \/ OpenTurn \/ FinishFailedTurn \/ AfterTurn \/ Relatch

Settle == \/ PreStepDecides \/ PreStepFails \/ StepRejected \/ NothingToEnter
          \/ EnterStep \/ RequestBuilt \/ StreamFailed \/ ToolsCalled
          \/ RequestRetried \/ StepReturns \/ StepFails \/ EndStep
          \/ Stop \/ StopFails \/ NextTurn \/ Exit \/ EndMaintenance

(* What the resumed driver reads off the log, and the closers a restart    *)
(* appends to it.  Mutation: an open step stays open.                      *)
ResumedTurn  == log.turn
ClosedTurn == [log EXCEPT !.open = FALSE]
ClosedLog  == [log EXCEPT !.open = FALSE, !.stepOpen = FALSE]

(* The process dies and the session is resumed: the closers balance the    *)
(* log, the inbox is replayed from its splices, the lost claim is lost.    *)
(* The log is kept whole: which part of it reaches the disk is the matter  *)
(* of WriteBehind, and no loss of an unflushed suffix is explored here.    *)
Restart ==
  /\ used.crashes < MaxCrashes
  /\ phase' = Idle(ResumedTurn)
  /\ pc' = "none" /\ turn' = NoTurn /\ frames' = <<>>
  /\ log' = ClosedLog
  /\ DropBatch
  /\ audit' = [owed |-> {}, gap |-> {}, empty |-> {}, kept |-> {}]
  /\ Spend("crashes")
  /\ UNCHANGED <<nextTurn, nextStep>>

Next == Call \/ Continue \/ Settle \/ Restart

Spec == Init /\ [][Next]_vars

(* The event loop runs every queued continuation, and listeners, adapters, *)
(* tools and tasks settle.                                                 *)
FairSpec == Spec /\ WF_vars(Continue \/ Settle)

-----------------------------------------------------------------------------
PhaseType == [kind : {"idle", "maintenance", "running"}, aborted : Causes \cup {"no"},
              turn : Nat, step : Nat, wake : BOOLEAN]
TurnType  == [batch : Seq(Messages), prompts : SUBSET Messages,
              verdict : {"none", "reject", "enter", "empty"},
              ends : {"null", "completed", "max-tokens"}, attempts : Nat]
FrameType == [op : FrameOps, flag : BOOLEAN, cause : Causes \cup {"no"}]
LogType   == [turn : Nat, open : BOOLEAN, step : Nat, stepOpen : BOOLEAN]
AuditType == [owed : SUBSET Messages, gap : SUBSET Messages, empty : SUBSET Messages,
              kept : SUBSET Messages]
UsedType  == [cancels : Nat, jobs : Nat, edits : Nat, crashes : Nat]

(* Every variable stays in its type.                                       *)
TypeOK ==
  /\ phase \in PhaseType
  /\ nextTurn \in Seq(Messages) /\ nextStep \in Seq(Messages)
  /\ pc \in Suspended \cup {"none"}
  /\ turn \in TurnType
  /\ frames \in Seq(FrameType)
  /\ log \in LogType
  /\ fate \in [Messages -> Fates]
  /\ audit \in AuditType
  /\ used \in UsedType

(* At most one driver runs, however listeners and convergence interleave   *)
(* with kick() and its replay: exactly one suspension or one continuation  *)
(* of a driver exists while the phase is running, and none otherwise.      *)
Holds(stack, ops) == \E i \in DOMAIN stack : stack[i].op \in ops
Once(stack, ops)  == \A i, j \in DOMAIN stack :
                       stack[i].op \in ops /\ stack[j].op \in ops => i = j
OneDriver ==
  /\ Once(frames, DriverOps)
  /\ phase.kind = "running" <=> pc # "none" \/ Holds(frames, DriverOps)
  /\ pc # "none" => ~Holds(frames, DriverOps)

(* No accepted message is lost or held twice: at every instant it is in    *)
(* one place of the inbox, or in the batch of the step being decided, or   *)
(* its fate is recorded.                                                   *)
LedgerExact ==
  LET places == nextTurn \o nextStep \o turn.batch
  IN  /\ IsInjective(places)
      /\ \A m \in Messages :
           /\ fate[m] = "pending" <=> m \in Pending
           /\ fate[m] = "claimed" <=> m \in ToSet(turn.batch)

(* The live driver and the durable log agree on where they are: a turn is  *)
(* open in the log exactly while a driver is inside one, a step exactly    *)
(* while it has one to end, and under the numbers the driver counts with.  *)
(* So a restart that reads the log resumes the numbering of the driver.    *)
InStep == {"request", "stream", "recover", "tools", "stepGap"}
InTurn == InStep \cup {"pre", "decided", "stopping"}
LogAgrees ==
  /\ phase.turn = log.turn
  /\ log.open <=> pc \in InTurn \/ Holds(frames, {"open", "failing", "ending"})
  /\ log.stepOpen <=> pc \in InStep
  /\ log.open => log.turn # 0 /\ log.step = phase.step
  /\ log.stepOpen => log.step # 0
  /\ pc = "again" \/ Holds(frames, {"kick"}) => phase.step = 0

(* A turn takes one queued prompt at most: a follow-up is the sole         *)
(* ordinary message of its turn.                                           *)
SolePrompt == \A m, n \in turn.prompts : m = n

(* A wake is not lost: when the agent has come to rest, a waking message   *)
(* still queued was parked by a cancel, an error or a rejection, or is one *)
(* of the two lapses: it came after the driver's last look at the inbox,   *)
(* or it stood behind a turn that had nothing to enter.                    *)
AtRest == phase.kind = "idle" /\ frames = <<>>
NoStrandedWake == AtRest => audit.owed \subseteq audit.gap \cup audit.empty

(* What a cancel with keepInbox kept behind an aborted turn is not claimed *)
(* before a later wake.                                                    *)
KeptWorkParks == ToSet(turn.batch) \cap audit.kept = {}

(* A wake is never latched on a signal that disposal fired.                *)
DisposedNeverLatches == phase.aborted = "disposed" => ~phase.wake

(* The boundaries the driver appends, and those a restart adds, keep the   *)
(* rules the session log promises its readers.                             *)
Log == INSTANCE TurnLog WITH
         openTurn <- IF log.open THEN log.turn ELSE 0,
         openStep <- IF log.stepOpen THEN log.step ELSE 0,
         nextTurn <- IF log.open THEN log.turn ELSE log.turn + 1,
         nextStep <- IF log.stepOpen THEN log.step ELSE log.step + 1
LogFollowsRules == Log!Spec

(* Every owed message gets its turn, is discarded or parked, or lapses.    *)
OwedIsServed ==
  \A m \in Messages : (m \in audit.owed) ~>
    (m \notin audit.owed \/ m \in audit.gap \cup audit.empty)

(* An aborted activity converges: the agent becomes idle or gets a fresh   *)
(* signal.                                                                 *)
AbortConverges == (phase.aborted # "no") ~> (phase.aborted = "no")
=============================================================================
