# Verification of the agent core

TLA+ modules, TLC configurations and TLAPS proofs for the agent core of this
repository: the loop that drives one agent over one session, the scheduler of
its tool calls, the durable log both write, the life of an agent between its
creation and the unload of its plugins, and the three packages that start turns
by themselves - goals, background jobs and schedules. Paths below are relative
to the repository root; `core/...` and the like are under `packages/`.

## 1. Inventory

The program is a set of TypeScript packages that plug into one host process. A
*session* is an append-only event log; an *agent* turns messages into turns and
steps of that log by calling a model and running tools. Everything else is
reached from there by events (listeners awaited in order), by calls into the
agent, or through the log. One host is single-threaded: concurrency means that
other code runs at every `await` and inside every listener.

| Component | State | Operations | Interacts by | Module |
|---|---|---|---|---|
| agent driver, `core/agent-loop/src/agent.ts` | phase (idle, maintenance, running; abort signal, wake latch, turn and step numbers) | send, cancel, runMaintenance, wakeDriver, kick, turn, preStep, step | listeners of status, error, pre-step, turn-stopping; session appends; the inbox | `AgentDriver` |
| inbox, `core/agent/src/inbox.ts` | next-turn and next-step lists | splice, claim, clear, remove, replace, prepend | appends a splice event, publishes to listeners that may call the agent back | `AgentDriver` |
| log rules and repair, `core/session/src/{invariant,repair}.ts` | open turn, open step, pending calls | validate an event, close an interrupted log | read by every replay and projection | `TurnLog`, `ToolScheduler` |
| tool-call scheduler, `core/agent-loop/src/tool-calls.ts` | group, slots, pool, commit cursor | executeToolCalls, runGroup, startCall, fillPool, commitReady | tool registry stages, the step's abort signal, session appends | `ToolScheduler` |
| write-behind storage, `session/session-persistence-jsonl/src/{storage,tracker,lease}.ts` | buffer, timer, drain promise, operation chain, claim and lock | enqueueLive, drain, flush, append, close | session events in, file appends out, checkpoints wait on it; several processes over one directory | `WriteBehind` |
| agent lifecycle, `core/agent-loop/src/index.ts` | live agents, their scopes, handles and disposals | create, createAgent, resume, configured identities, dispose | disposal cancels, waits for idle, disposes the scope, closes the log | `AgentLifecycle` |
| background jobs, `jobs/{jobs,jobs-local,tool-jobs}` | running and settled jobs, waits, owed notices, wake budget | start, settle, kill, wait, dispose, reload of the controls | tells its owner through the inbox | `BackgroundJobs` |
| goals, `goal/{goal-manager,goal-round-driver,tool-goal}` | goal, revision, round, arming | set, edit, pause, resume, complete, clear; reserve, fence, settle a round | wakes an idle agent, rejects or enters its messages | `GoalRounds` |
| schedules, `schedule/schedule/src` | the fold of logged reminders, one timer, a FIFO of transactions | create, delete, list; claim a due reminder, dispatch it | a maintenance task and a follow-up of the agent, flush barriers of the session | `SessionSchedule` |
| approvals and questions, `interaction/*` | pending requests | request, answer, abort, dispose | awaited by a tool call, answered by a controller | - |
| compaction, `compaction/*` | surface of the history | replace a prefix | a maintenance task of the driver | - |
| subagents and workflows | child agents | spawn, wait, cancel | parent's tool call owns child's driver | - |
| gateway and controllers, `api/*` | subscriptions, cursors | attach, replay, stream | clients that reconnect | - |

`PROJECT.json` lists every other part (providers, file and shell tools, UI,
product packages, boot) with the reason it is not modelled: it is I/O, protocol
conversion, presentation or data without control state of its own.

What is hard here, and what makes each part correct:

* **Driver and inbox.** A wake can arrive from any listener, during a
  transition of the driver itself, on an aborted signal, behind maintenance or
  during teardown. Correct means: never two drivers, no wake lost, no message
  lost or held twice, aborted work converges, kept input stays parked, and the
  log's boundaries always match the driver's position.
* **Tool calls.** Bodies settle in any order, the registry changes under a
  queued call, an abort or an internal failure comes at any await and the
  process may die around a body. Correct means: each call has one result in
  model order, an exclusive call runs alone, nothing starts after an abort,
  nothing runs behind a failure, and no reader of the log is ever told that a
  call that ran did not.
* **Storage.** Events are queued while older ones are written; a flush joins a
  drain that may be about to end; a close races both. Correct means: the file is
  always a contiguous prefix, and a flush that returns has made durable what was
  logged before it.
* **Lifecycle.** The caller's abort, the unload of the owner and the unload of
  the loop can come at every await of a creation, and wait for each other.
  Correct means: nothing is published late, nothing leaks, a live agent owns its
  log, every unload ends.
* **What starts turns by itself.** Goals, jobs and schedules each decide to wake
  an agent from state they read earlier. Correct means: a goal's round enters only
  while it is still the next round of the goal, a person goes first, a stop
  holds; a completion is told once and wakes stay bounded; a reminder is neither
  early, nor lost, nor repeated without a crash.

The full hazard list, line by line, is in `PROJECT.json`.

## 2. Plan

Done: 1 to 7. The rest is in order of importance.

1. `TurnLog`, `AgentDriver`: driver, inbox, boundaries of the log, their repair.
2. `ToolScheduler`: one step's tool calls, the checkpoint and the repair of
   calls.
3. `WriteBehind`: the storage of one session (enqueue, drain, flush, close,
   failed writes, crash, reopening); `ToolScheduler.Persist` is its
   abstraction.
4. `GoalRounds`: goals driven over an agent.
5. `BackgroundJobs`: jobs, their notices, and the two disposals.
6. `AgentLifecycle`: attempts to create, resume and restore an agent, and the
   unloads.
7. `SessionSchedule`: reminders and their dispatch.
8. The journal of a session as its browsers follow it: `follow` of the session
   controller over a live, stored or resumed log, and the client's window with
   its cursor, older pages and reconnects.
9. Approvals and questions against aborts and disposal; compaction as a
   maintenance task; subagents over two drivers; the migration of generations.

Proofs to come are those of the modules to come; of the modules above every invariant a
passing run checks is a theorem. Modules to be proved about are written without
RECURSIVE operators.

## 3. The models

All modules share some conventions. An action is what runs between two awaits
of one actor; what it awaits is a value of that actor's program counter. State
that only properties read is a variable or field of its own and called so
(`audit`, `used`, `told`...). Inputs that could go on for ever - messages,
cancels, failures, crashes - have a budget, named by a constant, in their guard.

### AgentDriver (with TurnLog)

`phase` is the `Phase` object of `agent.ts` (its `AbortController` is
`phase.aborted`: `"no"`, or the first cause, which wins). `nextTurn` and
`nextStep` are the two lists of `Inbox`. `pc` is the await the driver is
suspended at; a resumption runs to the next await in one action. `turn` holds
the locals of `turn()` and `step()` that outlive an await. `log` keeps the
boundaries of the session log.

*Listeners.* Between two awaits the code publishes to listeners that may call
the agent again, and it goes on only when they return. `frames` is that stack
of interrupted continuations: while it is not empty, only a listener of the top
frame (`CanCall`) or its continuation acts. So `send()` is two actions (the insertion
and, after its listeners, `Wake`), `cancel()` three (clear next-step, clear
next-turn, abort), and a turn's start, error and end, the driver's start and
its replay of a latched wake are points where callers get in.
`Session.append` refuses to be reentered while it publishes, so under the frames
`open`, `ending` and `close` only calls that do not append succeed
(`CancelInObserver`).

*Failure and crash.* Each await of a step may fail; an aborted signal is seen
on resuming. `Restart` is a crash at any point: the log is closed as
`repair.ts` closes it, the inbox is replayed from its splice events, and a
batch claimed but not entered is gone (`fate = "dropped"`). It keeps the whole log
and inbox: that a crash may also lose a suffix not yet flushed is explored in
`ToolScheduler` (`durable`) and `WriteBehind`, and not for turns and messages.

*Abstracted.* Request contents, stream deltas, the text of errors. Which
messages a pre-step listener adds. An append is refused only by the
reentrancy lock: other refusals (a vetoing listener, closed storage) are not
modelled. A rewrite of the claimed batch is kept to reject, enter, empty.

`audit` is history that only properties read: `owed` (messages whose wake was
accepted), `kept` (input parked by `cancel({ keepInbox })`), `gap` and `empty`
(the two lapses described under *Statements the code does not keep*).

`TurnLog` is what readers of a log rely on: the checks of `invariant.ts` on turn
and step numbers, plus the closers of a restart. `AgentDriver!LogFollowsRules`
says the driver implements it, under the mapping given with `Log`.

### ToolScheduler

One assistant message with `NumCalls` calls. `pc` is where `runGroup` and
`executeToolCalls` are; `at[c]` is the stage a call has reached in the tool registry
(preparing, dispatched and waiting for its checkpoint, in its body, settled,
rejected); `outcome` are the slots, `inFlight` the map the race runs over,
`group.aborted` the local copy of the signal, `log` the events of the step and
`durable` how many of them storage has. Bodies, the storage queue, the abort and
registry changes interleave at every await; `Throws` is any internal failure
(a refused append, a stage that throws, a context that cannot be accepted,
before or after its result is logged); `DispatchRejects` one of a running call.
`Crash` keeps the durable prefix and answers its open calls as `repair.ts`
does. Execution modes are read where the code reads them, from `parallel`,
which `Reclassify` changes. `Promise.race` may return any settled entry, a
superset of what the runtime picks.

Abstracted: arguments, contents of results, the approval dialogue inside
prepare (it only delays or denies), nested calls. The contexts accepted with a
result go to the inbox, which for `AgentDriver` is one more insertion without a wake.

### WriteBehind

One session, its file and the write handles opened on it, by the agent loop of
one process or another. `handle[h]` is a `JsonlSessionHandle` with its
`state`: `buffered`, `timer` (`batchTimer`), `paused` (`drainPaused`), `chain`
(the promise chain, as the operations not yet settled), `batch` and `at` (the
running operation and the await it is at), `drain` (`draining`: its turn is
queued or running, its loop is about to `check` the buffer, or it is over and
`.finally` has not cleared it yet, `gap` or `failed`), `closing` and `wait` (the
await close is at; how many operations the chain it awaits still has). `claim` is
the tracker's `writers`, `lock` the kernel lock, `disk` the file: complete
events, and a torn tail with the events that can be recovered from it.

A step is what runs between two awaits. I/O completions and timers of a
process wait until its microtasks have run (`Quiet`); microtasks among
themselves run in any order, except that close, which awaits the chain, goes on
before an operation queued later begins, as promise reactions do. Events and
flush calls can come at any of these points, which is how they get into the gap
of a drain. The lock is released by the kernel (`KernelUnlocks`) before the process
learns of it.

A failed write leaves the file as it was, except that a publication may fail
after its link, after which the file refuses every retry. A crash leaves a write
that was under way whole, absent or torn, for either encoding.
`LateProducers` says whether events are still published after close's last look at the
buffer. The runs say no: with TRUE, `CloseLosesNothing` fails, because an event
published while close releases the lock goes to the closing handle (findings).
A flush caller calls again only in a later turn of the event loop, so that callers alone
cannot keep I/O waiting for ever.

Abstracted: contents and encoding, the steps inside an open (it holds the claim
and the lock), the migration of older generations, read handles and listing. Of the ways a write can
fail three are left out, each of which leaves the file changed behind a failed drain that will be retried: a failed append whose
rollback fails as well (`index.ts:1015`), a file handle whose `close()` fails after a synced append
(`index.ts:1022`), and a repair that fails after its `truncate` (`index.ts:1039`).
Flushes of the whole service are flushes of its handles.

### GoalRounds

One session, its goal and the agent that works on it. `goal` is the durable
goal (`id`, `rev`, `phase`, `rounds`, `cap`) with its process-local `armed`, and
`failed` once the fold has thrown; `drv` is the round driver's `DriverState`: its
`attempt`, the competing-input mark, the checkpoint, the loops of `requestDrive`
that are running (`run` is the one the state holds a promise of; a step is taken only while
there is `Room` for two more, a bound of the model); `agent` is
inbox and await of the agent as far as the driver sees them. Listeners run
inside the call that publishes, so one event can pause the goal, queue a round and open a
turn before it returns: such a cascade is an operator on the record of the three
variables, and an action applies one of them.

The *fence* is the driver's pre-step listener, which checks a claimed round
before and after the hooks it encloses (`HooksEnter`), puts back the context claimed
with a round it rejects (`RestoreOthers`), and `OuterAwaits` says whether a
listener registered outside it awaits afterwards, as `tool-skill`'s does in the base bundle.
People send prompts and context, cancel with or without the inbox and mutate the goal
through the host; the model mutates it by its tools; flushes, hooks and requests
fail; maintenance holds the agent; a restart replays the log and leaves the goal
disarmed; the plugin unloads. An agent that throws when a round is queued, as custom ones may
(`goal-round-driver/src/index.ts:192`), is the constant `Refused`: the rounds it throws at, before
it inserts anything, which block the goal.

Abstracted: objectives and usage, timestamps, decoding, forks, steering, a `followup` with effects
of its own before it throws. `RestoreOthers` has no case for the goal messages of round 0 that
the code leaves out (`index.ts:128`): the driver makes none, its only message is that
of round `roundsStarted + 1`, and the fold refuses a round below 1. The
microtask between the end of a turn and idle is no state; a restart keeps
everything logged (what a crash can lose is in `WriteBehind`); the vetoes of later
steps are the failure `"blocked"` of a turn.

### BackgroundJobs

`job[j]` is a record of the registry with its producer, a promise that ends once,
when it likes; `agent[a]` is an owner's scope - its phase, whether the cleanup is
attached and the jobs it drains (`owned`) - with its turn and the consecutive wakes
`spent`; `waits[w]` is a `wait()` with what it waits on; `service` is the disposal of
the registry, `controls` whether `tool-jobs` is loaded. `audit` is history: notices
sent, completions a wait has told, jobs asked to stop, wakes. Both disposals wait for
the same jobs, and a start can slip in while a scope unloads if its cleanup is attached.
`ctx.get('jobs')` finds only an active service, so nothing starts once it unloads. A start
whose `run()` throws leaves the cleanup it attached (`StartRefused`); one without room finds it attached by
the jobs that fill the room. A person's message is claimed by a turn it opens or by the one that
runs (`HumanTurn`), and refills the wake budget either way.

Left out: change listeners, the text of output, access by another session, starts
nested in `run()`, a kill that throws into its caller. A reload of the controls resets
the wake budget, as it does in the code.

### AgentLifecycle

`call[a]` is one attempt: `create` ("plain": untracked, no signal), `createAgent`,
`resume`, or a configured identity ("restore": a resume, and a create when nothing is
stored, owned by the loop itself). `pc` is the await its continuation is at, `handle`
the backend operation and then the write handle, `keeps` says whether `resumeWith` still owns it;
`abandoned` are values released when the backend answers late, `following` and `cutOff` the
effect a loading resume hangs on its owner, `prepared`, `aborted` and `teardown` the
machine, its fused signal and its memoized disposal. `registry` and `stored` are what other
attempts meet. A fiber's unload flips it, runs all its disposers one microtask later and
then waits for those in `joined`, as `cordis` does (external: modelled from its use). The
owner joins a disposal only if it begins it (`byOwner`); the loop joins all, and the
startups it tracks.

A configured identity whose resume finds nothing stored becomes a `create` of the loop's own
(`"minted"`): like the public `create()`, it goes from `prepare` to the stored seed without a setup
and does not wait for the disposal of its rollback, but the loop's unload joins it. The other kinds
(`Waited`) go through `setupAndPublish`, which waits. A disposal's `await
unfollowOwner()` (`core/agent-loop/src/index.ts:610`) is no wait and no state: the owner's effect runs once,
and called from inside a disposal its body returns at once (`vendor/cordis/src/fiber.ts`), so
disposal and owner's unload cannot wait for each other there.

Not modelled: the wait of a configured identity for an earlier occupant, a
disposal from inside the machine's constructor, nested agent scopes as owners,
memory-only sessions, `resumeSessionId`.

### SessionSchedule

`log` holds the schedule changes and reminder messages of a session, `stored` how
many of them are confirmed durable; `Fold` maps an id to its reminder, and throws
(`"corrupt"`) where the code's does. `owner` is the live runtime: its timer, its coalesced run
(`requested`, `run`), and the steps of one dispatch - flush, look at the clock, claim the
agent by a maintenance task, look again, queue the message, log the dispatch, flush.
`calls` are the tools' transactions; `queue` is the FIFO all of these go through.
`clock` advances by ticks, may be set back or forward, and stops at `Horizon`,
which plays the last representable year. A flush is its contract: what was
logged before it is durable when it succeeds. A crash keeps any prefix that includes what was
confirmed and resumes with a new life, so that messages know theirs; a stop followed by a
resume is a crash that loses nothing.

Not modelled: parsing of times and zones, strict decoding, framing text, forked
prefixes, the read-only projection, the clean-up of a resumed inbox
(`AgentDriver` has it).

## 4. The runs

| Run | Asks | Bounds and why they suffice |
|---|---|---|
| `agent_driver` | safety of driver and inbox under every interleaving | 3 messages (one running, one queued behind it, one steering), 2 cancels (a user's, then a disposal's), one task, one edit, one crash, 2 steps, listener nesting 3 (a wake in a listener of a cancel in a listener of a start). About 3.8 million states; messages are symmetric |
| `agent_driver_live` | refinement of `TurnLog`, every owed message is served, aborts converge | 2 messages, retries of a request, a crash; no symmetry |
| `tool_scheduler` | pairing through a crash, exclusive calls, abort, the step ends | 2 calls over a pool of 2, every assignment of modes and one change, one concluding call: 178,046 states. Three calls (a full pool with one waiting, a barrier between) were checked by hand for safety: 4,665,592 states; the safety is proved for any number |
| `write_behind` | what close promises, order and loss; events reach the file, flushes and closes end | one handle, 3 events (one being written, one behind it, one later), 2 flush callers, one failed write. About 110 thousand states |
| `write_behind_reopen` | one contiguous file, written under the lock, in which flushed events stay | 3 handles in 2 processes, 2 crashes: a torn tail, its repair interrupted, and the next open. About 320 thousand states up to symmetry |
| `goal_rounds` | only the next round of the goal enters, a fenced round loses no context, a stop holds, people first, an armed goal is worked on | one prompt, one context, two mutations, caps 1 and 2, one stop, one fault, one maintenance task, room for four loops, one round that cannot be queued (the second, once the goal was revised): 380,859 states. Without outer awaits, with 2 prompts and 3 mutations, the two invariants were checked by hand over 6.8 million |
| `background_jobs` | each completion is told once, nothing outlives its owner, wakes are bounded, disposal ends | 2 jobs over a limit of 1 (one running, one refused or killed and still holding its place), one wait, one throwing producer, one reload: 940,744 states. Two waits without reloads were checked by hand for safety: 1,060,584 |
| `agent_lifecycle` | no late publication, no leak, unloads end, aborts are answered | 2 attempts on one identity, one of them with a signal: 398,988 states. Two identities by hand, safety only: 3.9 million |
| `session_schedule` | the log replays, dispatches are backed and not repeated, answers are durable, no wake lost, nothing early | 2 calls, interval 2, delays to 2, four ticks, one turn, one trouble (cancel, stop, other maintenance, clock correction, crash or a failure): 362,384 states. By hand, safety: 2 troubles over 3 ticks (749,778), 2 turns (823,499), 5 ticks (823,027) |
| `write_behind_timer`, `goal_rounds_fold`, `agent_lifecycle_owner` | three statements of the source that the code does not keep | smallest instances that show them |

Deadlock is not checked where the system may rest: a closed session with no
handle left (`WriteBehind`), an idle agent whose bounded messages are spent
(`AgentDriver`, and the packages above it). `ToolScheduler` ends in
`Finished`, so a scheduler that is stuck anywhere else is reported.

*Fairness.* `AgentDriver!FairSpec` assumes only that continuations run and that
what the driver awaits settles in some way (`WF(Continue \/ Settle)`): the
event loop guarantees the first, adapters, tools and listeners promise the
second (tools are told to honour the signal, streams are canceled with it).
Callers are not fair. `ToolScheduler!FairSpec` assumes that the scheduler runs,
that storage drains its queue and that each dispatched call goes on; the
registry awaits every body it started, so nothing stronger is needed.

`WriteBehind!FairSpec` assumes that microtasks run and, strongly, that an
expired timer and a settled I/O get their turn: they wait for the microtasks before
them each time, and the event loop comes round to them. Writes settle, one way
or the other. Publishing, flushing and closing are not fair.

`GoalRounds!Fairness` covers the agent's turn, maintenance tasks, the plugin's unload and
each loop of the driver; people, mutations and faults are not fair. `BackgroundJobs!Fairness`
covers turns, waits, the two disposals, and a producer only once it has been told to
stop, as its contract says. `AgentLifecycle!FairSpec` gives each attempt weak fairness on
its own continuation and each unload its own, and none to the storage: an open that never
answers must not hold an unload (`UnloadEnds`) or an aborted caller (`AbortAnswered`).
`SessionSchedule!FairSpec` is one weak fairness on the progress of owner, agent, timer,
clock and calls; people, plugins and troubles are not in it.

What the properties say is written above each of them. Each has a mutant in
`PROJECT.json`, a plausible bug (a second wake path, an ordinary `splice` on
one list, a missing `step/end`, a dropped re-check of the mode, a durability
barrier swapped with its answer...), defined next to the code it changes, that
TLC finds.

### Findings

* `write_behind_timer`: a timer armed during a write survives the
  write's failure, although a failed drain is said to pause it
  (`storage.ts:91`), and survives a close whose drain failed. It writes
  the kept batch without the lock, behind what the next writer appended from the same
  seq, and the file holds that seq twice. `WritesOwned` holds up to the point
  where a handle begins to release its lock; without failed writes, and without producers behind
  a close, the file is contiguous through reopening, crashes and repairs (`write_behind_reopen`,
  and `LogIsContiguous` for any number of handles).
* `goal_rounds_fold`: the fence's second check runs inside the round driver's own
  listener, and a listener registered before it encloses it and awaits afterwards. A
  goal edited, completed or cleared in that await has the round of its old revision logged, and the
  fold of that session throws for ever after. `FoldGuarded` is what holds:
  a round the fold refuses got in only through that window.
* `agent_lifecycle_owner`: an owner whose agent is already being disposed of
  unloads without joining that disposal (`core/agent-loop/src/index.ts:623`),
  against the comments at 572 and 621. `UnloadLeavesNothing` is what holds.

### Statements the code does not keep, without a run

Met while modelling, each seen on an instance of the model or in the code the
model translates:

* Driver. "disposal never latches" (`agent.ts:188`): it does after a user
  cancel, since the first cause stays on the signal (`DisposedNeverLatches` is
  what holds, proved). Input kept by `cancel({ keepInbox })` behind a maintenance task is
  started when the task ends, if a wake was latched before; behind a running turn it
  waits (`KeptWorkParks`). "Live drivers claim queued work themselves"
  (`agent.ts:187`) fails behind a turn that has nothing to enter (`agent.ts:286`);
  `NoStrandedWake` excepts that and the gap between the driver's last look at the
  inbox and its idle.
* Storage. A `session/flush` that joins a drain past its last look at the
  buffer resolves with its event in memory only (`storage.ts:255`;
  `session-persistence` documents that a flush drains through quiescence): `FlushedIsDurable`
  excepts it. A crash between the truncation of a torn tail and the rewrite of
  the events recovered from it (`storage.ts:295`) loses events an open had
  returned; what a flush promised is not among them. Events published while close releases
  the lock go to the closing handle and are in no file when it resolves
  (`LateProducers`, FALSE in the runs).
* Goals. A round edited while it runs and then cancelled does not pause the goal
  (`goal-round-driver/src/index.ts:267`). Maintenance keeps the status idle, so a drive drops
  its still-queued reservation and reserves the same round twice; a cancel during
  maintenance leaves a goal armed with nothing to start it, and an unload during
  maintenance lets a queued round start later. A block at the round limit inside the first
  synchronous part of a drive starts a second one nested in it (`state.run` is assigned only
  when that part returns); if the flush of such a second loop fails once a round has passed the
  fence, the goal is disarmed and the round enters all the same - `NoSelfRestart` excepts it
  (`slipped`). A host pause and resume
  during a person's turn ends disarmed. A goal message left in the inbox across a restart
  makes the resumed goal paused. `edit()` lowers the cap below the round,
  which the projection's schema calls impossible.
* Jobs. A job that settles between `dispose()`'s cancel and the owner's cleanup wakes
  an idle agent that is being disposed of, although disposal is said never to
  spend a request on a notice. A `job_output` aborted after its wait took the
  outcome reports ABORTED and the notice stays suppressed.
* Lifecycle. The loop tracks every continuation but that of the public `create()`.
* Schedule. A message queued in the owner's maintenance task can be cleared by a
  cancel in the microtask before it runs, though its dispatch is logged: "dispatched"
  means queued and recorded.

## 5. The proofs

For every value of the constants that the named assumption of the module allows;
TLC evaluates these assumptions in the module's runs. All are safety: liveness
under fairness is beyond the prover and stays with TLC.

`AgentDriverProofs` (from `BoundsAssumption`), for every set of messages:

* `TypeCorrect`: `Spec => []TypeOK`, one lemma per action, over lemmas on what
  the shared operators (`EndTurn`, `ClaimStep`, `WakeDriver`...) return.
* `SingleDriver` and `DriverAgreesWithLog`, from the invariant
  `Control == TypeOK /\ OneDriver /\ LogAgrees`. Neither is inductive alone: the log's
  boundaries follow the driver's position only if there is one driver, and a
  driver's frame is the only one only if `phase` says so. `LogAgrees` is
  stated with the positions (`InTurn`, `InStep`, the frames of a turn) so that
  it is inductive. Lemmas on pushing and popping frames keep the steps short.
* `LogImplementsRules`: `Spec => LogFollowsRules`, the refinement of `TurnLog`.
  Under `Control` each action is a step of `TurnLog` or a stutter.
* `DisposalDropsTheLatch`: `[]DisposedNeverLatches`, inductive with `TypeOK`.
* `PromptsComeAlone`: `[]SolePrompt`, strengthened by `PromptInv`: no prompt is
  claimed while the frame that opens a turn is on the stack.
* `MessagesAreAccounted`: `[]LedgerExact`, from `Ledger`: the two queues and the
  batch share no message and hold none twice, `fate` names the place of each
  (`Places`), and a driver has a batch only at the awaits between claim and entry
  (`Claiming`), so no later step drops one unaccounted.
* `WakesAreDelivered` and `KeptWorkIsParked`: `[]NoStrandedWake` and
  `[]KeptWorkParks`, from one invariant, `Wakeful`. `Stacked`: a wake about to be
  latched on a fired signal has no driver above it in the stack, and nothing runs
  above a frame that publishes a session event. `Latched`: such a wake exists only
  while the signal is fired, and a live driver has nothing latched. `Parked`: work
  is kept only where no wake that came before it is still to be delivered.
  `Watched`: whoever is owed a turn is in the inbox, and someone who wakes the agent
  is about, or a driver that has yet to look, or it is one of the two lapses. Each
  needs the others: a wake is not lost in a driver's exit because the relatch frame
  carries it, and that frame may be popped over others only because of `Stacked`.
  TLC checked `Wakeful` and `Ledger` on two messages first (1.3 million states).

`ToolSchedulerProofs`, for any number of calls and any pool: order, pairing
through a crash, the pool's bound, exclusive calls, failure drain, the origin of
bodies, the conclusion. The invariant says where the scheduler is and what that implies
for every call (`Stage`, `InGroup`, `Told`), and counts the log (`Numbered`): a
step's calls in the log are those started, its results those committed, one more
when the throw came behind the append. For a crash, `CrashRepairs` shows that any
kept prefix, closed as `repair.ts` closes it, is numbered again and tells no call
that ran that it did not.

`BackgroundJobsProofs`, for any finite set of jobs and any agents and waits: the
limit of an owner, complete teardown, bounded wakes, each completion told
exactly once (as far as the registry sees), final outcomes, silence of a job asked to stop. The invariant ties
a running job to the registry and to a cleanup that is attached or draining with
the job in its hands (`Kept`), and the history of notices to the end of each job (`Told`);
wakes are counted against what the budget has given (`Budgeted`).

`AgentLifecycleProofs`, for any attempts, identities and owners: a live agent owns its log,
a failed attempt releases everything, an unloaded owner and an unloaded loop leave nothing,
no publication after an abort or unload, only an agent's own teardown unregisters it. The
invariant fixes for each stage of an attempt what it holds (`Held`), which signal can
still reach it (`Fusing`), and which side of the owner's and the loop's batch of disposers it is on.

`WriteBehindProofs`, for any number of handles and callers of `flush`, any length of the log
and any budget of failures and crashes, in the order of awaits that `Quiet` describes:
every logged event of a live handle is in its batch or its buffer after its cursor
(`EventsAccounted`), writes happen under the lock (`WritesUnderTheLock`), a flush that
returned is durable (`FlushIsDurable`), a drain whose turn comes finds its batch, and, if no
producer logs behind a close (`~LateProducers`, as in the runs), a close that did not
reject lost nothing (`CloseIsLossless`). None is inductive alone: that a flush covers its mark needs to
know where in the operation chain the caller's operation stands, hence where the
one queued drain is (`OneDrain`, `Waiting`, `Barriers`); that a batch continues the file
needs the lock (`Owned`) and the recovered tail (`OnDisk`). The lemmas named
`...OK` say that one kind of change to a handle keeps its own part, those named `...Frame` what a
step of one handle leaves of the parts about all of them, and one `...Step` per action
puts the two together; a crash is split by what it leaves of the write under way.

`LogIsContiguous` adds that, if no write fails and no producer logs behind a close, the file is the log
without gap or repetition, through crashes, torn tails and any number of handles and
processes. Its hypotheses are those of `write_behind_reopen`; with one failed write it does not hold,
as `write_behind_timer` shows. The invariant beside `IInv` is `CInv`: one handle
at most may still write (`Sole`), the lock is its own (`Holder`), and what it takes the
file for - its cursor, the recovered tail, whether there is a file - is what the file is
(`Aligned`). Then no write is refused (`WritesSucceed`), and each outcome of a crash is a run of seqs cut or
joined (`SeqsCut`, `SeqsJoin`, `SeqsSplit`). TLC checked `CInv` first, on three handles and two processes (0.9 million states).

`SessionScheduleProofs`, for any calls, intervals, horizons and troubles: the log replays,
every dispatch has its message, repeats need a crash, answers are durable, no wake is
lost, nothing is early, a stopped owner is quiet - all of the run's safety. Every step
moves the log in one of four ways (nothing, an addition, a handing-over, a cut by a crash) and the
FIFO in one of a few, and the parts of the invariant follow from the move and not from the action:
every prefix of the log folds, only the head of the FIFO is under way, what is shown
to a caller is behind what is saved, a due reminder has a timer, a request or a runner. That
a batch can be sorted and that the fold recurses is shown by taking a least
number, since the prover cannot instantiate an induction rule.

`GoalRoundsProofs`, for any contexts and caps, any budget of prompts, mutations, stops and
failures, any number of loops, with and without an await outside the fence: a round that enters
is the next one within its cap (`RoundsFollow`), the fence loses no context
(`FenceLosesNoContext`), and a stop holds (`StopsHold`). The first needs that a message can only
come from a revision the goal has had (`Issued`). The last needs the most: a stop need not disarm the
goal at once, for an aborted turn pauses it when it ends (`Halted`), and that pause is enforced
only if the attempt is of the round that runs. So the invariant says that the reservation is
the last message of its round in queue and turn (`Ordered`), that none waits on an
agent at rest (`AtRest`) and that one queued behind maintenance will be opened by it (`InJob`), and
relates the round past the fence to the history (`OuterHeld`, `OuterNext`, `Barred`). A cascade of
listeners is treated once, by a lemma `...Effect` that relates the state before to the one after;
the lemmas `...Step`, one per action, only use these relations.

`GoalRoundsHumanProofs` builds on it: a round over which a person's prompt was submitted
while it was queued never enters, if the round was reserved once (`PeopleGoFirst`). The
inductive part (`Yields`) compares history and attempt: an overtaken round that is still
about is not the attempt or makes it stale, and none has passed the fence. The step that
strains it is a veto at the fence which retires the turn, opens the next and drives again
in one cascade: where the veto came from a revision of the goal, that drive owes a
checkpoint first (`Owes`), and so cannot reserve the round anew and clear its mark.

*Proved and not run.* The type invariants of these modules, `WriteBehind`'s `DrainFindsItsBatch`, `AgentDriver`'s
`OneDriver`, `LogAgrees`, `SolePrompt`, `DisposedNeverLatches`, `ToolScheduler`'s
`LoggedInModelOrder`, `PoolBounded`, `FailureDrains`, `BodiesAreOwned`,
`ConclusionReported`, `BackgroundJobs`' `OwnersBounded` and `OutcomeIsFinal`,
`AgentLifecycle`'s `FailureReleases` and `OnlyOwnTeardownUnregisters` were checked
with TLC before they were proved and are kept as theorems only.

*Model-checked only.* Every liveness property: the prover has no rule for fairness.

## 6. Not modelled

Components with status `not_modelled` in `PROJECT.json`, with reasons; `partly`
components say there what they leave out. Within the modelled ones: refused appends
other than by the reentrancy lock, so a `turn/end` that the session refuses
(`agent.ts:331`) leaves the log open while its driver retires; the
microtask between a promise's settling and its continuation except where it is
named (`"started"`, `"again"`, `"exit"`); wall-clock time; the contents of messages.
The modules meet only through the abstractions named above - an inbox insertion, a flush, a
maintenance task, a logged event - and are not composed into one state space, which TLC could not
hold.

The map covers a small share of the repository's lines: most of its two thousand source files
are product interface, providers, protocol conversion and tools, without state that
concurrency or failure could break. The plan above names what is left that has such
state.
