--------------------------- MODULE ToolScheduler ---------------------------
(***************************************************************************)
(* One assistant step's tool calls: executeToolCalls and runGroup          *)
(* (core/agent-loop/src/tool-calls.ts), the stages of one call in          *)
(* core/tools/src/index.ts, the checkpoint before a tool body              *)
(* (session-checkpoint-policy) and the closers a restart appends           *)
(* (core/session/src/repair.ts).                                           *)
(*                                                                         *)
(* Calls are 1..NumCalls in model order.  `pc` is where the scheduler is;  *)
(* at "classify", "prepare", "started", "commit", "race" and "drain" it is *)
(* suspended (or has just called listeners), so signals and registry       *)
(* changes can arrive; "fill" and "skip" run through.                      *)
(***************************************************************************)
EXTENDS Integers, FiniteSets, SequencesExt

CONSTANTS NumCalls,       \* tool calls of the assistant message
          MaxParallel,    \* config.maxParallelToolCalls
          Concluders,     \* calls whose successful result concludes the turn
          MaxReclassify   \* bound on the changes of a call's execution mode

Calls == 1 .. NumCalls

ASSUME SchedulerAssumption ==
  /\ NumCalls \in Nat \ {0} /\ MaxParallel \in Nat \ {0}
  /\ Concluders \subseteq Calls /\ MaxReclassify \in Nat

VARIABLES pc,         \* where the scheduler is
          group,      \* the running group: mode, calls before it, its last call, and
                      \* `aborted` as last read off the signal
          started,    \* calls given to the log as started, in model order
          committed,  \* calls whose result is committed, in model order
          at,         \* the stage of each call
          outcome,    \* the slot of each call
          inFlight,   \* dispatched calls the race has not removed
          failed,     \* schedulerFailure is set
          concluded,  \* some committed result concludes the turn
          signal,     \* the step's abort signal has fired
          parallel,   \* calls the registry now calls concurrency-safe
          log,        \* the session's events of this step
          durable,    \* how many of them are in storage
          mark,       \* the length of the log each call's checkpoint awaits, 0 for none
          history     \* read by the properties only: bodies run, modes at start,
                      \* mode changes spent

local == <<group, started, committed, inFlight, failed, concluded>>
store == <<log, durable>>
vars == <<pc, local, at, outcome, signal, parallel, store, mark, history>>

Suspensions == {"classify", "prepare", "started", "commit", "race", "drain"}
Finals      == {"returned", "threw", "repaired"}
Stages      == {"planned", "preparing", "dispatched", "body", "settled", "broken"}
Outcomes    == {"none", "ok", "error", "aborted", "notRun"}
Codes       == Outcomes \cup {"unknown", "notStarted"}

Event(kind, c, code) == [event |-> kind, call |-> c, code |-> code]
CallEvent(c)         == Event("call", c, "none")
ResultEvent(c, code) == Event("result", c, code)

NoGroup == [mode |-> "exclusive", before |-> 0, last |-> 0, aborted |-> FALSE]

Init == /\ pc = "classify"
        /\ group = NoGroup
        /\ started = 0 /\ committed = 0
        /\ at = [c \in Calls |-> "planned"]
        /\ outcome = [c \in Calls |-> "none"]
        /\ inFlight = {} /\ failed = FALSE /\ concluded = FALSE
        /\ signal = FALSE
        /\ parallel \in SUBSET Calls
        /\ log = <<Event("asked", 0, "none")>> /\ durable = 0
        /\ mark = [c \in Calls |-> 0]
        /\ history = [ran |-> {}, alone |-> {}, changes |-> 0]

-----------------------------------------------------------------------------
(* The environment: cancel(), registry changes (the mode of a call that is *)
(* started is not read again), the storage queue.                          *)
Abort == /\ pc \in Suspensions /\ ~signal
         /\ signal' = TRUE
         /\ UNCHANGED <<pc, local, at, outcome, parallel, store, mark, history>>

Reclassify(c) ==
  /\ pc \in Suspensions /\ c > started /\ history.changes < MaxReclassify
  /\ parallel' = IF c \in parallel THEN parallel \ {c} ELSE parallel \cup {c}
  /\ history' = [history EXCEPT !.changes = @ + 1]
  /\ UNCHANGED <<pc, local, at, outcome, signal, store, mark>>

Persist == /\ pc # "repaired" /\ durable < Len(log)
           /\ durable' = durable + 1
           /\ UNCHANGED <<pc, local, at, outcome, signal, parallel, log, mark, history>>

-----------------------------------------------------------------------------
(* executeToolCalls: the next call's mode makes the next group, one call   *)
(* or all that are left.                                                   *)
LastOfGroup   == IF committed + 1 \in parallel THEN NumCalls ELSE committed + 1

Classify ==
  /\ pc = "classify"
  /\ IF committed = NumCalls
     THEN pc' = "returned" /\ UNCHANGED group
     ELSE /\ group' = [mode |-> IF committed + 1 \in parallel THEN "parallel" ELSE "exclusive",
                       before |-> committed,
                       last |-> LastOfGroup,
                       aborted |-> signal]
          /\ pc' = "fill"
  /\ UNCHANGED <<started, committed, inFlight, failed, concluded,
                 at, outcome, signal, parallel, store, mark, history>>

(* fillPool's condition: room in the pool, and a later call of a parallel  *)
(* group is still concurrency-safe.  Mutation: no second look at the mode. *)
PoolHasRoom  == Cardinality(inFlight) < MaxParallel
StaysAnyway  == TRUE
StaysInGroup == started > group.before /\ group.mode = "parallel" => started + 1 \in parallel

CanStart == ~group.aborted /\ started < group.last /\ PoolHasRoom /\ StaysInGroup

(* startCall up to the await of prepare.                                   *)
StartCall ==
  /\ pc = "fill" /\ CanStart
  /\ LET c == started + 1
     IN  /\ log' = Append(log, CallEvent(c))
         /\ at' = [at EXCEPT ![c] = "preparing"]
         /\ history' = [history EXCEPT !.alone = IF c \in parallel THEN @ ELSE @ \cup {c}]
  /\ started' = started + 1
  /\ pc' = "prepare"
  /\ UNCHANGED <<group, committed, inFlight, failed, concluded,
                 outcome, signal, parallel, durable, mark>>

(* The pool cannot grow: wait for a dispatch, or the group is over.  After *)
(* an abort every remaining call is skipped, of this group and the next.   *)
FillEnds ==
  /\ pc = "fill" /\ ~CanStart
  /\ pc' = IF inFlight # {} THEN "race"
           ELSE IF group.aborted THEN "skip"
           ELSE IF committed = started THEN "classify" ELSE "drain"
  /\ UNCHANGED <<local, at, outcome, signal, parallel, store, mark, history>>

(* prepare settles: the call goes to its body, or has its result already;  *)
(* behind a sibling's failure it is not dispatched.                        *)
PrepareAllows ==
  /\ pc = "prepare" /\ ~failed /\ ~signal
  /\ at' = [at EXCEPT ![started] = "dispatched"]
  /\ inFlight' = inFlight \cup {started}
  /\ mark' = [mark EXCEPT ![started] = Len(log)]
  /\ pc' = "started"
  /\ UNCHANGED <<group, started, committed, failed, concluded,
                 outcome, signal, parallel, store, history>>

Slot(c, result) == /\ at' = [at EXCEPT ![c] = "settled"]
                   /\ outcome' = [outcome EXCEPT ![c] = result]
                   /\ mark' = [mark EXCEPT ![c] = 0]

PrepareAnswers ==
  /\ pc = "prepare" /\ ~failed
  /\ \E result \in {"error"} \cup (IF signal THEN {"notRun"} ELSE {}) : Slot(started, result)
  /\ pc' = "started"
  /\ UNCHANGED <<local, signal, parallel, store, history>>

PrepareDiscarded ==
  /\ pc = "prepare" /\ failed
  /\ pc' = "drain"
  /\ UNCHANGED <<local, at, outcome, signal, parallel, store, mark, history>>

AfterStart ==
  /\ pc = "started"
  /\ pc' = IF failed THEN "drain" ELSE "commit"
  /\ UNCHANGED <<local, at, outcome, signal, parallel, store, mark, history>>

(* commitReady: only the contiguous slots, in model order.  Mutation: any  *)
(* slot that is ready.                                                     *)
AnySlot  == {c \in committed + 1 .. group.last : outcome[c] # "none"}
NextSlot == {c \in {committed + 1} : c <= group.last /\ outcome[c] # "none"}

(* finalize: an abort overrides a success, a listener may block any result. *)
FinalCodes(c) ==
  {"error", IF outcome[c] # "ok" \/ ~signal THEN outcome[c]
            ELSE IF c \in history.ran THEN "aborted" ELSE "notRun"}

(* The conclusion is kept over later results and groups.  Mutation: the    *)
(* last result decides.                                                    *)
LastConcludes(c, code) == code = "ok" /\ c \in Concluders \cap history.ran
Concludes(c, code)     == concluded \/ (code = "ok" /\ c \in Concluders \cap history.ran)

Commit ==
  /\ pc = "commit"
  /\ \E c \in NextSlot : \E code \in FinalCodes(c) :
       /\ log' = Append(log, ResultEvent(c, code))
       /\ concluded' = Concludes(c, code)
  /\ committed' = committed + 1
  /\ UNCHANGED <<pc, group, started, inFlight, failed,
                 at, outcome, signal, parallel, durable, mark, history>>

(* The end of commitReady, with the failure check and the abort check that *)
(* follow it in fillPool and in the main loop.  Mutation: no abort check.  *)
CommitEndsBlind ==
  /\ pc = "commit" /\ NextSlot = {}
  /\ pc' = IF failed THEN "drain" ELSE "fill"
  /\ UNCHANGED <<local, at, outcome, signal, parallel, store, mark, history>>

CommitEnds ==
  /\ pc = "commit" /\ NextSlot = {}
  /\ pc' = IF failed THEN "drain" ELSE "fill"
  /\ group' = [group EXCEPT !.aborted = @ \/ (signal /\ ~failed)]
  /\ UNCHANGED <<started, committed, inFlight, failed, concluded,
                 at, outcome, signal, parallel, store, mark, history>>

Over(c) == at[c] \in {"settled", "broken"}

(* Promise.race over the pool; the settled entry leaves it.  Mutation: it  *)
(* stays.                                                                  *)
RaceKeeps ==
  /\ pc = "race" /\ \E c \in inFlight : Over(c)
  /\ pc' = IF failed THEN "drain" ELSE "commit"
  /\ UNCHANGED <<local, at, outcome, signal, parallel, store, mark, history>>

Race ==
  /\ pc = "race"
  /\ \E c \in inFlight : Over(c) /\ inFlight' = inFlight \ {c}
  /\ pc' = IF failed THEN "drain" ELSE "commit"
  /\ UNCHANGED <<group, started, committed, failed, concluded,
                 at, outcome, signal, parallel, store, mark, history>>

(* An append is refused, or prepare, finalize or acceptContext throws; the *)
(* last after its result, as finalize left it, is in the log.              *)
Throws ==
  /\ \/ pc \in {"prepare", "skip"}
     \/ pc = "fill" /\ CanStart
     \/ pc = "commit" /\ NextSlot # {}
  /\ \/ UNCHANGED log
     \/ /\ pc = "commit"
        /\ \E c \in NextSlot : \E code \in FinalCodes(c) :
             log' = Append(log, ResultEvent(c, code))
  /\ failed' = TRUE
  /\ pc' = "drain"
  /\ UNCHANGED <<group, started, committed, inFlight, concluded,
                 at, outcome, signal, parallel, durable, mark, history>>

(* Promise.allSettled, then the first failure is thrown.                   *)
Drained == \A c \in inFlight : Over(c)

Drain == /\ pc = "drain" /\ Drained
         /\ pc' = "threw"
         /\ UNCHANGED <<local, at, outcome, signal, parallel, store, mark, history>>

(* The call/result pair of a skipped call; two appends, each published.    *)
(* Mutation: the calls of the aborted group only.                          *)
GroupSkipped == group.last
LastSkipped  == NumCalls

Skip ==
  /\ pc = "skip"
  /\ IF started = committed
     THEN IF started = LastSkipped
          THEN pc' = "returned" /\ UNCHANGED <<started, committed, log>>
          ELSE /\ log' = Append(log, CallEvent(started + 1))
               /\ started' = started + 1
               /\ UNCHANGED <<pc, committed>>
     ELSE /\ log' = Append(log, ResultEvent(started, "notRun"))
          /\ committed' = started
          /\ UNCHANGED <<pc, started>>
  /\ UNCHANGED <<group, inFlight, failed, concluded,
                 at, outcome, signal, parallel, durable, mark, history>>

Scheduler == \/ Classify \/ StartCall \/ FillEnds
             \/ PrepareAllows \/ PrepareAnswers \/ PrepareDiscarded \/ AfterStart
             \/ Commit \/ CommitEnds \/ Race \/ Throws \/ Drain \/ Skip

-----------------------------------------------------------------------------
(* One dispatched call.  The checkpoint lets it through once all that was  *)
(* logged when it was dispatched is durable; the signal is read again just *)
(* before the body.  Mutation: no wait for the checkpoint.                 *)
NoCheckpoint(c) == TRUE
Checkpointed(c) == durable >= mark[c]

In(c, stages) == pc # "repaired" /\ at[c] \in stages

BodyStarts(c) ==
  /\ In(c, {"dispatched"}) /\ Checkpointed(c) /\ ~signal
  /\ at' = [at EXCEPT ![c] = "body"]
  /\ mark' = [mark EXCEPT ![c] = 0]
  /\ history' = [history EXCEPT !.ran = @ \cup {c}]
  /\ UNCHANGED <<pc, local, outcome, signal, parallel, store>>

(* A listener answers in place of the body, the checkpoint fails, or the   *)
(* abort is seen first.                                                    *)
NotRun(c) ==
  /\ In(c, {"dispatched"})
  /\ \E result \in {"error", IF signal THEN "notRun" ELSE "ok"} : Slot(c, result)
  /\ UNCHANGED <<pc, local, signal, parallel, store, history>>

BodySettles(c) ==
  /\ In(c, {"body"})
  /\ \E result \in {"error", IF signal THEN "aborted" ELSE "ok"} : Slot(c, result)
  /\ UNCHANGED <<pc, local, signal, parallel, store, history>>

DispatchRejects(c) ==
  /\ In(c, {"dispatched", "body"})
  /\ at' = [at EXCEPT ![c] = "broken"]
  /\ mark' = [mark EXCEPT ![c] = 0]
  /\ failed' = TRUE
  /\ UNCHANGED <<pc, group, started, committed, inFlight, concluded,
                 outcome, signal, parallel, store, history>>

Dispatch(c) == BodyStarts(c) \/ NotRun(c) \/ BodySettles(c) \/ DispatchRejects(c)

-----------------------------------------------------------------------------
(* The process dies with the durable prefix in storage; the next load      *)
(* answers the calls that prefix leaves open, in the order of the message. *)
IsResult(e) == e.event = "result"

CloserCode(kept, c) == IF CallEvent(c) \in ToSet(kept) THEN "unknown" ELSE "notStarted"

Unanswered(kept) ==
  {c \in Calls : kept # <<>> /\ \A e \in ToSet(kept) : ~(IsResult(e) /\ e.call = c)}

Closers(kept) ==
  LET open   == Unanswered(kept)
      nth(i) == CHOOSE c \in open : Cardinality({d \in open : d <= c}) = i
  IN  [i \in 1 .. Cardinality(open) |-> ResultEvent(nth(i), CloserCode(kept, nth(i)))]

Crash ==
  /\ pc # "repaired"
  /\ LET kept == SubSeq(log, 1, durable) IN log' = kept \o Closers(kept)
  /\ durable' = Len(log')
  /\ pc' = "repaired"
  /\ group' = NoGroup /\ started' = 0 /\ committed' = 0
  /\ at' = [c \in Calls |-> "planned"]
  /\ outcome' = [c \in Calls |-> "none"]
  /\ inFlight' = {} /\ failed' = FALSE /\ concluded' = FALSE
  /\ signal' = FALSE
  /\ mark' = [c \in Calls |-> 0]
  /\ UNCHANGED <<parallel, history>>

Finished == pc \in Finals /\ UNCHANGED vars

Next == \/ Abort \/ Persist \/ Scheduler \/ Crash \/ Finished
        \/ \E c \in Calls : Reclassify(c) \/ Dispatch(c)

Spec == Init /\ [][Next]_vars

(* The event loop runs the scheduler on, storage drains its queue, and a   *)
(* dispatched call settles.                                                *)
FairSpec == /\ Spec /\ WF_vars(Scheduler) /\ WF_vars(Persist)
            /\ \A c \in Calls : WF_vars(Dispatch(c))

-----------------------------------------------------------------------------
(* Every variable stays in its type.                                       *)
TypeOK ==
  /\ pc \in Suspensions \cup {"fill", "skip"} \cup Finals
  /\ group \in [mode : {"exclusive", "parallel"}, before : 0 .. NumCalls,
                 last : 0 .. NumCalls, aborted : BOOLEAN]
  /\ started \in 0 .. NumCalls /\ committed \in 0 .. NumCalls
  /\ at \in [Calls -> Stages] /\ outcome \in [Calls -> Outcomes]
  /\ inFlight \subseteq Calls
  /\ failed \in BOOLEAN /\ concluded \in BOOLEAN /\ signal \in BOOLEAN
  /\ parallel \subseteq Calls
  /\ log \in Seq([event : {"asked", "call", "result"}, call : Nat, code : Codes])
  /\ durable \in 0 .. Len(log)
  /\ mark \in [Calls -> Nat]
  /\ history \in [ran : SUBSET Calls, alone : SUBSET Calls, changes : 0 .. MaxReclassify]

(* Calls and results are each logged once and in model order, whatever the *)
(* order the bodies settle in, the abort, the failure or the crash.        *)
Upto(s, kind, i) == {j \in 1 .. i : s[j].event = kind}
LoggedInModelOrder ==
  \A i \in DOMAIN log : log[i].event \in {"call", "result"} =>
    log[i].call = Cardinality(Upto(log, log[i].event, i))

(* A step that returns, and a log that was repaired, leave no call of the  *)
(* assistant message without its result.                                   *)
EveryCallAnswered ==
  pc = "returned" \/ (pc = "repaired" /\ log # <<>>) =>
    Cardinality(Upto(log, "result", Len(log))) = NumCalls

(* The pool stays within its cap, and a call that was exclusive when it    *)
(* started shares its time in flight with no other.                        *)
Live(c) == at[c] \in {"dispatched", "body"}
PoolBounded    == Cardinality({c \in Calls : Live(c)}) <= MaxParallel
ExclusiveAlone == \A c \in history.alone, d \in Calls : Live(c) /\ Live(d) => c = d

(* After the abort no call is started: what is still logged is skipped.    *)
AbortStopsStarts ==
  [][signal /\ pc' # "repaired" =>
       \A c \in Calls : at[c] = "planned" => at'[c] = "planned"]_vars

(* A failed step is not given up while one of its calls is still running,  *)
(* and no step is given up without a failure.                              *)
FailureDrains == pc = "threw" => failed /\ \A c \in Calls : ~Live(c)

(* What the log says of a call whose body ran: never that it did not.  So  *)
(* a reader told to retry a call that "was not started" repeats nothing.   *)
BodiesAreOwned ==
  /\ \A e \in ToSet(log) : IsResult(e) /\ e.call \in history.ran =>
       e.code \notin {"notRun", "notStarted"}
  /\ pc = "repaired" => \A c \in history.ran : \E e \in ToSet(log) : IsResult(e) /\ e.call = c

(* A conclusion is reported iff a committed result made it, over all       *)
(* groups and an abort.                                                    *)
ConclusionReported ==
  pc = "returned" =>
    (concluded <=> \E c \in Concluders \cap history.ran : ResultEvent(c, "ok") \in ToSet(log))

(* The step ends, whatever its calls do, as long as they settle.           *)
StepEnds == <>(pc \in Finals)
=============================================================================
