--------------------------- MODULE BackgroundJobs ---------------------------
(***************************************************************************)
(* The in-process registry of background jobs (jobs/jobs-local/src/        *)
(* index.ts), the completion notices and the wake budget of its controls   *)
(* (jobs/tool-jobs/src/index.ts), and the disposal of owners and service.  *)
(*                                                                         *)
(* A step is one synchronous call or one continuation after an await.  A   *)
(* producer is a promise that ends once, when it likes; `cancel` may throw.*)
(* Of an agent only what the registry meets is kept: whether a turn runs,  *)
(* and how far its disposal has come.                                      *)
(***************************************************************************)
EXTENDS Integers, FiniteSets

CONSTANTS Jobs,        \* jobs that are ever started
          Agents,      \* agents that may own them
          Waits,       \* calls of wait()
          Shared,      \* the owner of a job that has none
          Outcomes,    \* terminal statuses a producer may report
          Limit,       \* maxConcurrentJobsPerOwner
          WakeBudget,  \* maxConsecutiveWakes
          MaxThrows,   \* bound on cancel hooks that throw
          MaxTurns,    \* bound on turns people open
          MaxReloads   \* bound on reloads of the controls' plugin

ASSUME JobsAssumption ==
  /\ Shared \notin Agents
  /\ "failed" \in Outcomes /\ Outcomes \subseteq {"completed", "killed", "failed"}
  /\ Limit \in Nat \ {0} /\ WakeBudget \in Nat
  /\ {MaxThrows, MaxTurns, MaxReloads} \subseteq Nat /\ IsFiniteSet(Jobs)

VARIABLES job,       \* the record of each job and its producer
          agent,     \* what the registry sees of each agent
          waits,     \* each call of wait()
          service,   \* how far the disposal of the registry has come
          controls,  \* the tool-jobs plugin is loaded: controller and listener
          audit,     \* history read by the properties only
          used       \* how much of each bound is spent

vars == <<job, agent, waits, service, controls, audit, used>>

Owners == Agents \cup {Shared}

NewJob == [status |-> "new", owner |-> Shared, reported |-> FALSE, stored |-> FALSE,
           producer |-> "none"]
NoWait == [pc |-> "none", on |-> {}, counted |-> FALSE]

Init == /\ job = [j \in Jobs |-> NewJob]
        /\ agent = [a \in Agents |-> [phase |-> "live", turn |-> "idle", spent |-> 0,
                                      cleanup |-> FALSE, owned |-> {}]]
        /\ waits = [w \in Waits |-> NoWait]
        /\ service = [phase |-> "active", all |-> {}]
        /\ controls = TRUE
        /\ audit = [noticed |-> [j \in Jobs |-> 0], asked |-> {}, unheard |-> {},
                    told |-> {}, wakes |-> [a \in Agents |-> 0]]
        /\ used = [throws |-> 0, turns |-> 0, reloads |-> 0]

Spend(bound) == used' = [used EXCEPT ![bound] = @ + 1]

-----------------------------------------------------------------------------
Terminal(j) == job[j].status \in Outcomes
Active(j)   == job[j].status \in {"running", "stopping"}
OwnedBy(o)  == {j \in Jobs : job[j].stored /\ job[j].owner = o}
Waiters(j)  == {w \in Waits : waits[w].on = {j} /\ waits[w].counted}

(* A form the code does not have: an owner is refused only once it is gone. *)
AttachableUntilGone(a) == agent[a].phase # "gone"

(* start(): the owner is registered and its cleanup attached, which a scope*)
(* that unloads refuses; a cleanup already attached is not attached again. *)
Attachable(a) == \/ agent[a].phase \in {"live", "leaving"}
                 \/ agent[a].phase = "unloading" /\ agent[a].cleanup

(* The limit counts stopping jobs too.                                     *)
HasRoom(o) == Cardinality({j \in OwnedBy(o) : Active(j)}) < Limit

Start(j, o) ==
  /\ job[j].status = "new"
  /\ service.phase = "active" /\ controls
  /\ o # Shared => Attachable(o)
  /\ HasRoom(o)
  /\ job' = [job EXCEPT ![j] = [NewJob EXCEPT !.status = "running", !.owner = o,
                                              !.stored = TRUE, !.producer = "working"]]
  /\ agent' = [a \in Agents |-> IF a = o THEN [agent[a] EXCEPT !.cleanup = TRUE] ELSE agent[a]]
  /\ UNCHANGED <<waits, service, controls, audit, used>>

(* The producer's run() throws: no job is recorded, the cleanup stays.  A  *)
(* start without room leaves nothing either: the active jobs it counts had *)
(* the cleanup attached.                                                   *)
StartRefused(a) ==
  /\ service.phase = "active" /\ controls
  /\ Attachable(a)
  /\ agent' = [agent EXCEPT ![a].cleanup = TRUE]
  /\ UNCHANGED <<job, waits, service, controls, audit, used>>

-----------------------------------------------------------------------------
(* The completion listener: an idle owner with budget left is woken, any   *)
(* other finds the notice in its next step.                                *)
Wakes(a) == agent[a].turn = "idle" /\ agent[a].spent < WakeBudget

(* A form the code does not have: every claim refills the budget.          *)
ClaimRefills(r, human) == [r EXCEPT !.turn = "busy", !.spent = 0]

(* The claim that opens a turn: only a person's message refills the budget.*)
Claim(r, human) == [r EXCEPT !.turn = "busy", !.spent = IF human THEN 0 ELSE @]

Notified(a) ==
  IF Wakes(a)
  THEN [agent EXCEPT ![a] = Claim([agent[a] EXCEPT !.spent = agent[a].spent + 1], FALSE)]
  ELSE agent

(* settle() of one job, as the record it leaves.                           *)
Settled(j, outcome) ==
  [job[j] EXCEPT !.status = outcome, !.reported = @ \/ Waiters(j) # {}]

(* settle(): the first outcome wins, waits are released, listeners hear.   *)
(* The service's own disposal has closed the listeners.                    *)
Heard == controls /\ service.phase \in {"active", "unloading"}

Noticed(j) == ~Settled(j, "failed").reported /\ job[j].owner # Shared /\ Heard

Released(S) ==
  [w \in Waits |-> IF waits[w].pc = "waiting" /\ \E j \in S : waits[w].on = {j}
                   THEN [waits[w] EXCEPT !.pc = "resolved"] ELSE waits[w]]

(* A form the code does not have: a later outcome replaces the first.      *)
NeverLate(j) == FALSE

Late(j) == Terminal(j)

Settle(j, outcome) ==
  IF Late(j)
  THEN /\ job' = [job EXCEPT ![j].producer = "ended"]
       /\ UNCHANGED <<agent, waits, audit>>
  ELSE /\ job' = [job EXCEPT ![j] = [Settled(j, outcome) EXCEPT !.producer = "ended"]]
       /\ waits' = Released({j})
       /\ IF Noticed(j)
          THEN LET a == job[j].owner
               IN  /\ agent' = Notified(a)
                   /\ audit' = [audit EXCEPT !.noticed[j] = @ + 1,
                                             !.wakes[a] = IF Wakes(a) THEN @ + 1 ELSE @]
          ELSE /\ audit' = [audit EXCEPT !.unheard = IF Heard THEN @ ELSE @ \cup {j}]
               /\ UNCHANGED agent

(* The producer's promise settles; a rejection is a failure.               *)
ProducerEnds(j, outcome) ==
  /\ job[j].producer # "none" /\ job[j].producer # "ended"
  /\ Settle(j, outcome)
  /\ UNCHANGED <<service, controls, used>>

-----------------------------------------------------------------------------
(* The calls of the tools.                                                 *)
Callable(j) == job[j].stored

Read(j) ==
  /\ Callable(j) /\ Terminal(j)
  /\ job' = [job EXCEPT ![j].reported = TRUE]
  /\ UNCHANGED <<agent, waits, service, controls, audit, used>>

(* kill(): cancel comes first, so a throw leaves the record as it was and  *)
(* is no step here.                                                        *)
Kill(j) ==
  /\ Callable(j) /\ Active(j)
  /\ job' = [job EXCEPT ![j].status = "stopping", ![j].reported = TRUE,
                        ![j].producer = "stopping"]
  /\ audit' = [audit EXCEPT !.asked = @ \cup {j}]
  /\ UNCHANGED <<agent, waits, service, controls, used>>

(* wait() of a job that is over returns at once; any other wait is counted.*)
Wait(w, j) ==
  /\ waits[w].pc = "none"
  /\ Callable(j) /\ Active(j)
  /\ waits' = [waits EXCEPT ![w] = [pc |-> "waiting", on |-> {j}, counted |-> TRUE]]
  /\ UNCHANGED <<job, agent, service, controls, audit, used>>

(* The timer resolves the wait, which stays counted until it goes on.      *)
TimesOut(w) ==
  /\ waits[w].pc = "waiting"
  /\ waits' = [waits EXCEPT ![w].pc = "resolved"]
  /\ UNCHANGED <<job, agent, service, controls, audit, used>>

(* A form the code does not have: the rejected wait is still counted.      *)
AbortsCounted(w) ==
  /\ waits[w].pc = "waiting"
  /\ waits' = [waits EXCEPT ![w].pc = "none"]
  /\ UNCHANGED <<job, agent, service, controls, audit, used>>

(* The caller's signal takes the count back before anything else can run.  *)
Aborts(w) ==
  /\ waits[w].pc = "waiting"
  /\ waits' = [waits EXCEPT ![w] = NoWait]
  /\ UNCHANGED <<job, agent, service, controls, audit, used>>

(* The wait goes on: it hands out what the record says now.                *)
Continues(w) ==
  /\ waits[w].pc = "resolved"
  /\ waits' = [waits EXCEPT ![w] = NoWait]
  /\ LET over == {j \in waits[w].on : Terminal(j)}
     IN  /\ job' = [j \in Jobs |-> IF j \in over THEN [job[j] EXCEPT !.reported = TRUE] ELSE job[j]]
         /\ audit' = [audit EXCEPT !.told = @ \cup over]
  /\ UNCHANGED <<agent, service, controls, used>>

-----------------------------------------------------------------------------
Doomed(S) == {j \in S : Active(j)}

(* A form the code does not have: a throw is only logged.                  *)
TornLogged(S, throwing) ==
  [j \in Jobs |-> IF j \notin Doomed(S) THEN job[j]
                  ELSE IF j \in throwing THEN [job[j] EXCEPT !.reported = TRUE]
                  ELSE [job[j] EXCEPT !.reported = TRUE, !.status = "stopping",
                                      !.producer = "stopping"]]

(* A form the code does not have: the cancel of a teardown asks nothing.   *)
TornUnreported(S, throwing) ==
  [j \in Jobs |-> IF j \notin Doomed(S) THEN job[j]
                  ELSE IF j \in throwing THEN [job[j] EXCEPT !.status = "failed"]
                  ELSE [job[j] EXCEPT !.status = "stopping", !.producer = "stopping"]]

(* cancelForTeardown of the jobs S, the cancel hooks of `throwing` among   *)
(* them throwing: those are settled as failed on the spot.                 *)
Torn(S, throwing) ==
  [j \in Jobs |-> IF j \notin Doomed(S) THEN job[j]
                  ELSE IF j \in throwing THEN [job[j] EXCEPT !.reported = TRUE, !.status = "failed"]
                  ELSE [job[j] EXCEPT !.reported = TRUE, !.status = "stopping",
                                      !.producer = "stopping"]]

CancelForTeardown(S) ==
  \E throwing \in SUBSET Doomed(S) :
    /\ used.throws + Cardinality(throwing) <= MaxThrows
    /\ used' = [used EXCEPT !.throws = @ + Cardinality(throwing)]
    /\ job' = Torn(S, throwing)
    /\ waits' = Released(throwing)
    /\ audit' = [audit EXCEPT !.asked = @ \cup Doomed(S)]

(* The disposal of an agent: cancel and whenIdle, then its scope unloads,  *)
(* one microtask before the disposers run; new effects are refused at once.*)
Leave(a) ==
  /\ agent[a].phase = "live"
  /\ agent' = [agent EXCEPT ![a].phase = "leaving"]
  /\ UNCHANGED <<job, waits, service, controls, audit, used>>

ScopeUnloads(a) ==
  /\ agent[a].phase = "leaving" /\ agent[a].turn = "idle"
  /\ agent' = [agent EXCEPT ![a].phase = "unloading"]
  /\ UNCHANGED <<job, waits, service, controls, audit, used>>

NoCleanup(a) ==
  /\ agent[a].phase = "unloading" /\ ~agent[a].cleanup
  /\ agent' = [agent EXCEPT ![a].phase = "gone"]
  /\ UNCHANGED <<job, waits, service, controls, audit, used>>

(* The owner's cleanup: forgotten first, then every job is cancelled.      *)
OwnerCleanup(a) ==
  /\ agent[a].phase = "unloading" /\ agent[a].cleanup
  /\ CancelForTeardown(OwnedBy(a))
  /\ agent' = [agent EXCEPT ![a].phase = "draining", ![a].cleanup = FALSE,
                            ![a].owned = OwnedBy(a)]
  /\ UNCHANGED <<service, controls>>

OwnerDrained(a) ==
  /\ agent[a].phase = "draining"
  /\ \A j \in agent[a].owned : Terminal(j)
  /\ job' = [j \in Jobs |-> IF j \in agent[a].owned THEN [job[j] EXCEPT !.stored = FALSE] ELSE job[j]]
  /\ agent' = [agent EXCEPT ![a].phase = "gone", ![a].owned = {}]
  /\ UNCHANGED <<waits, service, controls, audit, used>>

-----------------------------------------------------------------------------
(* The disposal of the service.  Once it unloads, nobody looks it up.      *)
ServiceUnloads ==
  /\ service.phase = "active"
  /\ service' = [service EXCEPT !.phase = "unloading"]
  /\ UNCHANGED <<job, agent, waits, controls, audit, used>>

Stored == {j \in Jobs : job[j].stored}

(* disposeAll(): listeners closed, everything cancelled.                   *)
ServiceCloses ==
  /\ service.phase = "unloading"
  /\ service' = [phase |-> "draining", all |-> Stored]
  /\ CancelForTeardown(Stored)
  /\ UNCHANGED <<agent, controls>>

AllSettled == \A j \in service.all : Terminal(j)

(* The store is emptied and the owners' cleanups are detached.             *)
ServiceDrained ==
  /\ service.phase = "draining"
  /\ AllSettled
  /\ service' = [phase |-> "gone", all |-> {}]
  /\ job' = [j \in Jobs |-> [job[j] EXCEPT !.stored = FALSE]]
  /\ agent' = [a \in Agents |-> [agent[a] EXCEPT !.cleanup = FALSE]]
  /\ UNCHANGED <<waits, controls, audit, used>>

(* The controls' plugin unloads and loads; it needs the service.           *)
ControlsUnload ==
  /\ controls
  /\ service.phase = "active" => used.reloads < MaxReloads
  /\ controls' = FALSE
  /\ IF service.phase = "active" THEN Spend("reloads") ELSE UNCHANGED used
  /\ UNCHANGED <<job, agent, waits, service, audit>>

ControlsLoad ==
  /\ ~controls /\ service.phase = "active"
  /\ controls' = TRUE
  /\ agent' = [a \in Agents |-> [agent[a] EXCEPT !.spent = 0]]
  /\ audit' = [audit EXCEPT !.wakes = [a \in Agents |-> 0]]
  /\ UNCHANGED <<job, waits, service, used>>

-----------------------------------------------------------------------------
(* The agents.  A person's message opens a turn or is claimed in the one   *)
(* that runs.  Without the plugin nobody hears the claim.                  *)
HumanTurn(a) ==
  /\ used.turns < MaxTurns
  /\ agent[a].phase = "live"
  /\ agent' = [agent EXCEPT ![a] = IF controls THEN Claim(@, TRUE) ELSE [@ EXCEPT !.turn = "busy"]]
  /\ audit' = [audit EXCEPT !.wakes[a] = IF controls THEN 0 ELSE @]
  /\ Spend("turns")
  /\ UNCHANGED <<job, waits, service, controls>>

TurnEnds(a) ==
  /\ agent[a].turn = "busy"
  /\ agent' = [agent EXCEPT ![a].turn = "idle"]
  /\ UNCHANGED <<job, waits, service, controls, audit, used>>

-----------------------------------------------------------------------------
Tools == \/ \E j \in Jobs, o \in Owners : Start(j, o)
         \/ \E a \in Agents : StartRefused(a)
         \/ \E j \in Jobs : Read(j) \/ Kill(j)
         \/ \E w \in Waits, j \in Jobs : Wait(w, j)
         \/ \E w \in Waits : Aborts(w)

Producers == \E j \in Jobs, outcome \in Outcomes : ProducerEnds(j, outcome)
Timers    == \E w \in Waits : TimesOut(w) \/ Continues(w)

OwnerLeaves(a) == ScopeUnloads(a) \/ NoCleanup(a) \/ OwnerCleanup(a) \/ OwnerDrained(a)
ServiceLeaves  == ServiceCloses \/ ServiceDrained

Next == Tools \/ Producers \/ Timers
        \/ \E a \in Agents : Leave(a) \/ OwnerLeaves(a) \/ HumanTurn(a) \/ TurnEnds(a)
        \/ ServiceUnloads \/ ServiceLeaves \/ ControlsUnload \/ ControlsLoad

(* What is awaited goes on; a producer that accepted a cancel ends.        *)
Fairness == /\ \A a \in Agents : WF_vars(OwnerLeaves(a)) /\ WF_vars(TurnEnds(a))
            /\ WF_vars(ServiceLeaves)
            /\ \A w \in Waits : WF_vars(Continues(w))
            /\ \A j \in Jobs : WF_vars(job[j].producer = "stopping"
                                       /\ \E outcome \in Outcomes : ProducerEnds(j, outcome))

Spec == Init /\ [][Next]_vars /\ Fairness

-----------------------------------------------------------------------------
TypeOK ==
  /\ job \in [Jobs -> [status : {"new", "running", "stopping"} \cup Outcomes, owner : Owners,
                       reported : BOOLEAN, stored : BOOLEAN,
                       producer : {"none", "working", "stopping", "ended"}]]
  /\ agent \in [Agents -> [phase : {"live", "leaving", "unloading", "draining", "gone"},
                           turn : {"idle", "busy"}, spent : 0 .. WakeBudget,
                           cleanup : BOOLEAN, owned : SUBSET Jobs]]
  /\ waits \in [Waits -> [pc : {"none", "waiting", "resolved"},
                          on : SUBSET Jobs, counted : BOOLEAN]]
  /\ service \in [phase : {"active", "unloading", "draining", "gone"}, all : SUBSET Jobs]
  /\ controls \in BOOLEAN

(* A completion nobody asked for reaches its agent exactly one way: by a   *)
(* notice, or by a wait that was on it when it settled and has returned    *)
(* the outcome or will (settle, wait, onJobDone) - unless no listener was  *)
(* mounted.  This is the registry's promise: what the tool that waited     *)
(* does with the outcome, when its own call is aborted, is not seen here.  *)
Owed(j) == \/ j \in audit.told
           \/ \E w \in Waits : waits[w].on = {j} /\ waits[w].pc = "resolved"

CompletionIsTold ==
  \A j \in Jobs : Terminal(j) /\ job[j].owner # Shared /\ j \notin audit.asked \cup audit.unheard
                    => \/ audit.noticed[j] = 1 /\ ~Owed(j)
                       \/ audit.noticed[j] = 0 /\ Owed(j)

(* Settlement is first-wins, and a job asked to stop never runs again.     *)
OutcomeIsFinal ==
  [][\A j \in Jobs : /\ Terminal(j) => job'[j].status = job[j].status
                     /\ job[j].status = "stopping" => job'[j].status # "running"]_vars

(* A job asked to stop, by a call or by the teardown of its owner or of    *)
(* the service, announces nothing afterwards.                              *)
AskedStaysQuiet == [][\A j \in audit.asked : audit'.noticed[j] = audit.noticed[j]]_vars

(* An owner's jobs that run or are being stopped stay within the limit.    *)
OwnersBounded ==
  \A o \in Owners : Cardinality({j \in Jobs : Active(j) /\ job[j].owner = o}) <= Limit

(* Nothing outlives the owner's disposal, whatever was started while its   *)
(* scope unloaded; nothing outlives the service's.                         *)
OwnerLeavesNothing ==
  \A a \in Agents : agent[a].phase = "gone"
    => \A j \in Jobs : job[j].owner = a => ~Active(j) /\ ~job[j].stored
ServiceLeavesNothing ==
  service.phase = "gone" => \A j \in Jobs : ~Active(j) /\ ~job[j].stored
TeardownLeavesNothing == OwnerLeavesNothing /\ ServiceLeavesNothing

(* Between two messages of a person, or reloads of the controls, notices   *)
(* open at most WakeBudget turns on an agent, however jobs, turns and      *)
(* waits interleave.                                                       *)
WakesBounded == \A a \in Agents : audit.wakes[a] <= WakeBudget

(* Disposal ends although cancel hooks throw, if a producer that accepted  *)
(* its cancel ends.                                                        *)
DisposalEnds == /\ \A a \in Agents : agent[a].phase = "unloading" ~> agent[a].phase = "gone"
                /\ service.phase = "unloading" ~> service.phase = "gone"

=============================================================================
