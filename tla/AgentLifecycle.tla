---------------------------- MODULE AgentLifecycle ----------------------------
(***************************************************************************)
(* Creation, resumption and disposal of agents by AgentLoop                 *)
(* (packages/core/agent-loop/src/index.ts).                                 *)
(*                                                                         *)
(* An attempt is one call of create ("plain"), createAgent ("create"),      *)
(* resume ("resume") or one configured identity ("restore", which becomes   *)
(* "minted" when its log turns out to be absent and create() makes it).     *)
(* Its continuation, the backend operation it started, the memoized         *)
(* disposal and the unload of two fibers - the owner's and the loop's -     *)
(* interleave at every await.  A step below is one synchronous run between  *)
(* awaits.                                                                  *)
(***************************************************************************)
EXTENDS Integers, FiniteSets

CONSTANTS Attempts, Ids,
          Owners,     \* fibers that call the factory
          Loop,       \* the fiber of AgentLoop itself, owner of configured agents
          Nobody,     \* a registry without an entry
          Signalled   \* bound: the attempts whose caller passes an abort signal

ASSUME LifecycleAssumption ==
  /\ Loop \notin Owners /\ Nobody \notin Attempts
  /\ Ids # {} /\ Signalled \subseteq Attempts

VARIABLES call,       \* what each attempt asked for, and its caller's signal
          pc,         \* where its continuation is
          handle,     \* its backend operation, then its write handle
          keeps,      \* attempts whose resumeWith still owns the handle
          abandoned,  \* attempts whose backend value is released when it arrives
          following,  \* attempts with the resume-load effect on their owner
          cutOff,     \* resumes whose owner was disposed while loading
          prepared,   \* attempts whose machine and teardown are registered
          aborted,    \* prepared attempts whose fused controller has fired
          teardown,   \* the memoized disposal of each attempt
          byOwner,    \* attempts whose disposal the owner's unload started
          registry,   \* the entry of both registries under each id
          stored,     \* ids with a durable log
          fiber,      \* the state of each fiber
          joined      \* what the unload of each fiber waits for

asking   == <<call, stored>>
loading  == <<keeps, abandoned, following, cutOff>>
disposal == <<prepared, aborted, teardown, byOwner>>
fibers   == <<fiber, joined>>
vars == <<asking, pc, handle, loading, disposal, registry, fibers>>

Fibers  == Owners \cup {Loop}
Waited  == {"create", "resume", "restore"}    \* setupAndPublish awaits the rollback
Started == Waited \cup {"minted"}              \* the loop's unload joins the attempt
Kinds   == Started \cup {"none", "plain"}
Pcs     == {"idle", "creating", "opening", "reading", "repairing", "handover", "closing",
            "setup", "storing", "publishing", "rollback", "live", "failed"}
Handles == {"none", "creating", "opening", "claimed", "open", "absent", "refused", "closed"}
Settled == {"live", "failed"}

NoCall == [kind |-> "none", id |-> CHOOSE i \in Ids : TRUE, owner |-> Loop, signal |-> "none"]

Init == /\ call = [a \in Attempts |-> NoCall]
        /\ pc = [a \in Attempts |-> "idle"]
        /\ handle = [a \in Attempts |-> "none"]
        /\ keeps = {} /\ abandoned = {} /\ following = {} /\ cutOff = {}
        /\ prepared = {} /\ aborted = {} /\ byOwner = {}
        /\ teardown = [a \in Attempts |-> "none"]
        /\ registry = [i \in Ids |-> Nobody]
        /\ stored \in SUBSET Ids
        /\ fiber = [f \in Fibers |-> "active"]
        /\ joined = [f \in Fibers |-> [teardowns |-> {}, startups |-> {}]]

Id(a)    == call[a].id
Owner(a) == call[a].owner
Goto(a, l) == pc' = [pc EXCEPT ![a] = l]

(* The loop accepts work (isActive); its teardown has aborted its signal.   *)
IsActive == fiber[Loop] = "active"
Torn     == fiber[Loop] \in {"draining", "gone"}

(* The signals a resume's load is raced against.                            *)
(* A form the code does not have: one of the signals is left out.        *)
FusedAtLoop(a)   == a \in cutOff \/ Torn
FusedAtCaller(a) == call[a].signal = "fired" \/ a \in cutOff
Fused(a) == call[a].signal = "fired" \/ a \in cutOff \/ Torn

(* An id is claimed in this process by the attempt that holds its handle.   *)
Claimed(i) == \E a \in Attempts : Id(a) = i /\ handle[a] \in {"claimed", "open"}

-----------------------------------------------------------------------------
(* Calls.  A call its synchronous part refuses changes nothing.             *)

Ask(a, kind, i, f, signal, l) ==
  /\ pc[a] = "idle"
  /\ call' = [call EXCEPT ![a] = [kind |-> kind, id |-> i, owner |-> f, signal |-> signal]]
  /\ Goto(a, l)
  /\ handle' = [handle EXCEPT ![a] = l]
  /\ UNCHANGED <<stored, keeps, abandoned, cutOff, disposal, registry, fibers>>

Create(a, i, f) ==
  /\ registry[i] = Nobody /\ IsActive /\ fiber[f] = "active"
  /\ Ask(a, "plain", i, f, "none", "creating")
  /\ UNCHANGED following

CreateAgent(a, i, f, signal) ==
  /\ registry[i] = Nobody /\ ~Torn /\ fiber[f] \in {"active", "unloading"}
  /\ Ask(a, "create", i, f, signal, "creating")
  /\ UNCHANGED following

Resume(a, i, f, signal) ==
  /\ ~Torn /\ fiber[f] = "active"
  /\ Ask(a, "resume", i, f, signal, "opening")
  /\ following' = following \cup {a}

(* The constructor starts the configured identities before anything moves.  *)
Restore(a, i) ==
  /\ IsActive
  /\ \A b \in Attempts : pc[b] # "idle" => call[b].kind = "restore" /\ handle[b] = "opening"
  /\ Ask(a, "restore", i, Loop, "none", "opening")
  /\ following' = following \cup {a}

-----------------------------------------------------------------------------
(* The backend.  It may refuse at any time, and an open may never answer.   *)

Answer(a, from, to) ==
  /\ handle[a] = from
  /\ handle' = [handle EXCEPT ![a] = to]
  /\ UNCHANGED <<asking, pc, loading, disposal, registry, fibers>>

BackendCreates(a) ==
  /\ ~Claimed(Id(a)) /\ Id(a) \notin stored /\ call[a].signal # "fired"
  /\ Answer(a, "creating", "open")

BackendClaims(a) == ~Claimed(Id(a)) /\ Answer(a, "opening", "claimed")

BackendOpens(a) == /\ Id(a) \in stored
                   /\ Answer(a, "claimed", "open")

BackendMisses(a) == /\ Id(a) \notin stored
                    /\ Answer(a, "claimed", "absent")

BackendRefuses(a) == \E from \in {"creating", "opening", "claimed"} : Answer(a, from, "refused")

(* raceAbortCall closes a handle that arrives after the caller gave up.     *)
ReleaseAbandoned(a) == /\ a \in abandoned
                       /\ Answer(a, "open", "closed")

-----------------------------------------------------------------------------
(* The memoized disposal.                                                   *)

BeginTeardown(as, owned) ==
  LET fresh == {a \in as : teardown[a] = "none"} IN
  /\ teardown' = [a \in Attempts |-> IF a \in fresh THEN "quiescing" ELSE teardown[a]]
  /\ aborted' = aborted \cup fresh
  /\ byOwner' = byOwner \cup {a \in fresh : a \in owned}
  /\ UNCHANGED prepared

(* cancel(disposed), whenIdle and the scope's own disposal.                 *)
Quiesce(a) ==
  /\ teardown[a] = "quiescing"
  /\ teardown' = [teardown EXCEPT ![a] = "closing"]
  /\ UNCHANGED <<asking, pc, handle, loading, prepared, aborted, byOwner, registry, fibers>>

(* A failing drain still releases the handle.                               *)
CloseHandle(a) ==
  /\ teardown[a] = "closing"
  /\ handle' = [handle EXCEPT ![a] = "closed"]
  /\ teardown' = [teardown EXCEPT ![a] = "detaching"]
  /\ UNCHANGED <<asking, pc, loading, prepared, aborted, byOwner, registry, fibers>>

(* A form the code does not have: the id's entry, whoever it is.         *)
WithoutId(a) == [registry EXCEPT ![Id(a)] = Nobody]

Without(a) == [i \in Ids |-> IF registry[i] = a THEN Nobody ELSE registry[i]]

(* Both detach closures, bound to the entered objects, then the bookkeeping. *)
(* `await unfollowOwner()` is no wait: the owner's effect is single-shot and *)
(* its body returns at once when a disposal runs, so called from here the    *)
(* wrapper returns undefined whether or not the owner is unloading.          *)
Detach(a) ==
  /\ teardown[a] = "detaching"
  /\ registry' = Without(a)
  /\ teardown' = [teardown EXCEPT ![a] = "done"]
  /\ UNCHANGED <<asking, pc, handle, loading, prepared, aborted, byOwner, fibers>>

-----------------------------------------------------------------------------
(* prepare, in the synchronous run that reaches it: the machine, its        *)
(* teardown and both registrations exist, or the handle is closed again.    *)

(* A form the code does not have: one of the checks is left out.         *)
MayPrepareUnasked(a)  == fiber[Owner(a)] = "active" /\ IsActive
MayPrepareInLoop(a)   == IsActive /\ call[a].signal # "fired"

MayPrepare(a) == /\ fiber[Owner(a)] = "active"
                 /\ IsActive
                 /\ call[a].signal # "fired"

Prepare(a) ==
  IF MayPrepare(a)
  THEN /\ prepared' = prepared \cup {a}
       /\ Goto(a, IF call[a].kind \in Waited THEN "setup" ELSE "storing")
  ELSE /\ Goto(a, "closing")
       /\ UNCHANGED prepared

Created(a) ==
  /\ pc[a] = "creating" /\ handle[a] = "open"
  /\ Prepare(a)
  /\ UNCHANGED <<asking, handle, loading, aborted, teardown, byOwner, registry, fibers>>

CreateRefused(a) ==
  /\ pc[a] = "creating" /\ handle[a] = "refused"
  /\ Goto(a, "failed")
  /\ UNCHANGED <<asking, handle, loading, disposal, registry, fibers>>

(* Only a call with a signal stops waiting for the backend.                 *)
AbandonCreate(a) ==
  /\ pc[a] = "creating" /\ call[a].signal = "fired"
  /\ Goto(a, "failed")
  /\ abandoned' = abandoned \cup {a}
  /\ UNCHANGED <<asking, handle, keeps, following, cutOff, disposal, registry, fibers>>

Opened(a) ==
  /\ pc[a] = "opening" /\ handle[a] = "open"
  /\ Goto(a, "reading")
  /\ keeps' = keeps \cup {a}
  /\ UNCHANGED <<asking, handle, abandoned, following, cutOff, disposal, registry, fibers>>

Unfollow(a) == following' = following \ {a}

(* A configured identity whose log is absent is created instead.            *)
OpenRefused(a) ==
  /\ pc[a] = "opening" /\ handle[a] \in {"absent", "refused"}
  /\ Unfollow(a)
  /\ IF call[a].kind = "restore" /\ handle[a] = "absent" /\ IsActive /\ registry[Id(a)] = Nobody
     THEN /\ Goto(a, "creating")
          /\ call' = [call EXCEPT ![a].kind = "minted"]
          /\ handle' = [handle EXCEPT ![a] = "creating"]
     ELSE Goto(a, "failed") /\ UNCHANGED <<call, handle>>
  /\ UNCHANGED <<stored, keeps, abandoned, cutOff, disposal, registry, fibers>>

AbandonOpen(a) ==
  /\ pc[a] = "opening" /\ Fused(a)
  /\ Goto(a, "failed")
  /\ Unfollow(a)
  /\ abandoned' = abandoned \cup {a}
  /\ UNCHANGED <<asking, handle, keeps, cutOff, disposal, registry, fibers>>

(* The read, after which the fused signal is looked at.                     *)
Read(a) ==
  /\ pc[a] = "reading"
  /\ \/ ~Fused(a) /\ Goto(a, "repairing") /\ UNCHANGED following
     \/ Goto(a, "closing") /\ Unfollow(a)
  /\ UNCHANGED <<asking, handle, keeps, abandoned, cutOff, disposal, registry, fibers>>

(* Closers and seed markers are appended, and the session is built.         *)
Repair(a) ==
  /\ pc[a] = "repairing"
  /\ \/ registry[Id(a)] = Nobody /\ Goto(a, "handover")
     \/ Goto(a, "closing")
  /\ Unfollow(a)
  /\ UNCHANGED <<asking, handle, keeps, abandoned, cutOff, disposal, registry, fibers>>

(* The recheck after the load, and the handle passing to prepare.           *)
(* A form the code does not have: `handle` is not reset.                 *)
KeepHandle(a) == UNCHANGED keeps
PassHandle(a) == keeps' = keeps \ {a}

Handover(a) ==
  /\ pc[a] = "handover"
  /\ PassHandle(a)
  /\ Prepare(a)
  /\ UNCHANGED <<asking, handle, abandoned, following, cutOff, aborted, teardown, byOwner,
                 registry, fibers>>

(* A form the code does not have: the handle is not closed.              *)
LeaveUnprepared(a) ==
  /\ pc[a] = "closing"
  /\ keeps' = keeps \ {a}
  /\ Goto(a, "failed")
  /\ UNCHANGED <<asking, handle, abandoned, following, cutOff, disposal, registry, fibers>>

CloseUnprepared(a) ==
  /\ pc[a] = "closing"
  /\ handle' = [handle EXCEPT ![a] = "closed"]
  /\ keeps' = keeps \ {a}
  /\ Goto(a, "failed")
  /\ UNCHANGED <<asking, abandoned, following, cutOff, disposal, registry, fibers>>

-----------------------------------------------------------------------------
(* Setup, the last append, and publication.                                 *)

SetupDone(a) ==
  /\ pc[a] = "setup"
  /\ Goto(a, "storing")
  /\ UNCHANGED <<asking, handle, loading, disposal, registry, fibers>>

(* The continuation leaves with `l`; resumeWith's own finally closes the     *)
(* handle it still owns.                                                    *)
Settle(a, l) ==
  /\ Goto(a, l)
  /\ handle' = IF a \in keeps THEN [handle EXCEPT ![a] = "closed"] ELSE handle

(* Rollback.  create() does not wait for the disposal it starts;             *)
(* setupAndPublish does, whoever asked for it.                              *)
Roll(a) ==
  /\ BeginTeardown({a}, {})
  /\ IF call[a].kind \in Waited
     THEN Goto(a, "rollback") /\ UNCHANGED handle
     ELSE Settle(a, "failed")

SetupAborted(a) ==
  /\ pc[a] = "setup" /\ a \in aborted
  /\ Roll(a)
  /\ UNCHANGED <<asking, loading, registry, fibers>>

SetupThrows(a) ==
  /\ pc[a] = "setup"
  /\ Roll(a)
  /\ UNCHANGED <<asking, loading, registry, fibers>>

(* The suffix, which may be empty, is stored or the append fails.           *)
Stored(a) ==
  /\ pc[a] = "storing" /\ handle[a] = "open"
  /\ Goto(a, "publishing")
  /\ \/ stored' = stored \cup {Id(a)}
     \/ UNCHANGED stored
  /\ UNCHANGED <<call, handle, loading, disposal, registry, fibers>>

StoreFails(a) ==
  /\ pc[a] = "storing"
  /\ Roll(a)
  /\ UNCHANGED <<asking, loading, registry, fibers>>

Enter(a) == registry' = [registry EXCEPT ![Id(a)] = a]

Publish(a) ==
  /\ pc[a] = "publishing"
  /\ a \notin aborted /\ registry[Id(a)] = Nobody
  /\ Enter(a)
  /\ Settle(a, "live")
  /\ UNCHANGED <<asking, loading, disposal, fibers>>

(* A listener of an announcement throws, or aborts the caller's signal.     *)
PublishVetoed(a) ==
  /\ pc[a] = "publishing"
  /\ a \notin aborted /\ registry[Id(a)] = Nobody
  /\ Enter(a)
  /\ Roll(a)
  /\ UNCHANGED <<asking, loading, fibers>>

PublishRefused(a) ==
  /\ pc[a] = "publishing"
  /\ a \in aborted \/ registry[Id(a)] # Nobody
  /\ Roll(a)
  /\ UNCHANGED <<asking, loading, registry, fibers>>

RolledBack(a) ==
  /\ pc[a] = "rollback" /\ teardown[a] = "done"
  /\ Settle(a, "failed")
  /\ UNCHANGED <<asking, loading, disposal, registry, fibers>>

-----------------------------------------------------------------------------
(* The caller, the owner of an AgentHandle, and unloading fibers.           *)

AbortCaller(a) ==
  /\ call[a].signal = "quiet"
  /\ call' = [call EXCEPT ![a].signal = "fired"]
  /\ aborted' = IF a \in prepared THEN aborted \cup {a} ELSE aborted
  /\ UNCHANGED <<stored, pc, handle, loading, prepared, teardown, byOwner, registry, fibers>>

Dispose(a) ==
  /\ pc[a] = "live" /\ call[a].kind \in {"create", "resume"} /\ teardown[a] = "none"
  /\ BeginTeardown({a}, {})
  /\ UNCHANGED <<asking, pc, handle, loading, registry, fibers>>

BeginUnload(f) ==
  /\ fiber[f] = "active"
  /\ fiber' = [fiber EXCEPT ![f] = "unloading"]
  /\ UNCHANGED <<asking, pc, handle, loading, disposal, registry, joined>>

(* The disposers of the fiber, one microtask later and in one batch.  The    *)
(* lifecycle effect returns at once for a disposal that already runs; the    *)
(* loop's own disposer joins every tracked disposal and every startup.      *)
Tracked  == {a \in prepared : teardown[a] # "done"}
Owned(f) == {a \in Tracked : Owner(a) = f}
Fresh(f) == {a \in Owned(f) : teardown[a] = "none"}
Startups == {a \in Attempts : call[a].kind \in Started /\ pc[a] \notin Settled}

Joins(f) == IF f = Loop THEN [teardowns |-> Tracked, startups |-> Startups]
                        ELSE [teardowns |-> Fresh(f), startups |-> {}]

RunDisposers(f) ==
  /\ fiber[f] = "unloading"
  /\ fiber' = [fiber EXCEPT ![f] = "draining"]
  /\ joined' = [joined EXCEPT ![f] = Joins(f)]
  /\ BeginTeardown(IF f = Loop THEN Tracked ELSE Owned(f), Owned(f))
  /\ cutOff' = cutOff \cup {a \in following : Owner(a) = f}
  /\ following' = {a \in following : Owner(a) # f}
  /\ UNCHANGED <<asking, pc, handle, keeps, abandoned, registry>>

Unloaded(f) ==
  /\ fiber[f] = "draining"
  /\ \A a \in joined[f].teardowns : teardown[a] = "done"
  /\ \A a \in joined[f].startups : pc[a] \in Settled
  /\ fiber' = [fiber EXCEPT ![f] = "gone"]
  /\ UNCHANGED <<asking, pc, handle, loading, disposal, registry, joined>>

-----------------------------------------------------------------------------
(* A signal that never fires is the same as none.                           *)
Signal(a) == IF a \in Signalled THEN "quiet" ELSE "none"

Called(a) == \E i \in Ids :
  \/ Restore(a, i)
  \/ \E f \in Owners : \/ Create(a, i, f)
                       \/ CreateAgent(a, i, f, Signal(a))
                       \/ Resume(a, i, f, Signal(a))

CreateSide(a) == BackendCreates(a) \/ (handle[a] = "creating" /\ BackendRefuses(a))
OpenSide(a)   == \/ BackendClaims(a) \/ BackendOpens(a) \/ BackendMisses(a)
                 \/ (handle[a] # "creating" /\ BackendRefuses(a))

Continue(a) == \/ Created(a) \/ CreateRefused(a) \/ AbandonCreate(a)
               \/ Opened(a) \/ OpenRefused(a) \/ AbandonOpen(a)
               \/ Read(a) \/ Repair(a) \/ Handover(a) \/ CloseUnprepared(a)
               \/ SetupAborted(a) \/ Stored(a) \/ StoreFails(a)
               \/ Publish(a) \/ PublishVetoed(a) \/ PublishRefused(a) \/ RolledBack(a)

Wind(a)   == Quiesce(a) \/ CloseHandle(a) \/ Detach(a) \/ ReleaseAbandoned(a)
Advance(a) == Continue(a) \/ Wind(a) \/ CreateSide(a)
Choose(a) == Called(a) \/ SetupDone(a) \/ SetupThrows(a) \/ AbortCaller(a) \/ Dispose(a)
Unload(f) == RunDisposers(f) \/ Unloaded(f)

Next == \/ \E a \in Attempts : Advance(a) \/ OpenSide(a) \/ Choose(a)
        \/ \E f \in Fibers : BeginUnload(f) \/ Unload(f)

Spec == Init /\ [][Next]_vars

(* Continuations, disposals and unloads run; storage answers a create, a    *)
(* read and an append, and may leave an open unanswered for ever.  Every    *)
(* step of Advance(a) takes the attempt forward, so one condition serves.   *)
FairSpec == /\ Spec
            /\ \A a \in Attempts : WF_vars(Advance(a))
            /\ \A f \in Fibers : WF_vars(Unload(f))

-----------------------------------------------------------------------------
TypeOK ==
  /\ call \in [Attempts -> [kind : Kinds, id : Ids, owner : Fibers,
                            signal : {"none", "quiet", "fired"}]]
  /\ pc \in [Attempts -> Pcs] /\ handle \in [Attempts -> Handles]
  /\ keeps \subseteq Attempts /\ abandoned \subseteq Attempts
  /\ following \subseteq Attempts /\ cutOff \subseteq Attempts
  /\ prepared \subseteq Attempts /\ aborted \subseteq prepared /\ byOwner \subseteq prepared
  /\ teardown \in [Attempts -> {"none", "quiescing", "closing", "detaching", "done"}]
  /\ registry \in [Ids -> Attempts \cup {Nobody}] /\ stored \subseteq Ids
  /\ fiber \in [Fibers -> {"active", "unloading", "draining", "gone"}]
  /\ joined \in [Fibers -> [teardowns : SUBSET Attempts, startups : SUBSET Attempts]]

(* A registered agent writes through an open handle until its own teardown  *)
(* has closed it: the resume's cleanup never closes the handle it passed on. *)
LiveOwnsItsLog ==
  \A i \in Ids : registry[i] # Nobody =>
    \/ handle[registry[i]] = "open"
    \/ teardown[registry[i]] = "detaching" /\ handle[registry[i]] = "closed"

(* Whatever way an attempt fails, and whenever its abandoned backend call    *)
(* answers, its write ownership is given back and no entry remains.         *)
FailureReleases ==
  \A a \in Attempts :
    (pc[a] = "failed" /\ a \notin abandoned /\ teardown[a] \in {"none", "done"}) =>
      /\ handle[a] \notin {"claimed", "open"}
      /\ \A i \in Ids : registry[i] # a

(* Once the loop has unloaded no agent is registered or still tearing down,  *)
(* whoever owned it and however late it was being created, and no attempt   *)
(* it tracked still holds a write handle.                                   *)
LoopLeavesNothing ==
  fiber[Loop] = "gone" =>
    /\ \A i \in Ids : registry[i] = Nobody
    /\ Tracked = {}
    /\ \A a \in Attempts : (call[a].kind # "plain" /\ a \notin abandoned) =>
         handle[a] \notin {"claimed", "open"}

(* Once its owner has unloaded an agent is gone, unless something else had   *)
(* begun its disposal before.                                               *)
OwnerLeavesNothing ==
  \A f \in Owners : fiber[f] = "gone" =>
    \A a \in Owned(f) : teardown[a] # "none" /\ a \notin byOwner

(* The end of an unload, of an owner or of the loop, leaves nothing of its   *)
(* own behind.                                                              *)
UnloadLeavesNothing == OwnerLeavesNothing /\ LoopLeavesNothing

(* No agent is published after its caller aborted or after its owner or the  *)
(* loop has begun to tear down, wherever the attempt was at that moment.     *)
NoLatePublication ==
  [][\A a \in Attempts : (pc[a] # "live" /\ pc'[a] = "live") =>
       /\ call[a].signal # "fired"
       /\ fiber[Owner(a)] \in {"active", "unloading"} /\ ~Torn]_vars

(* An entry leaves the registry by its own agent's disposal and no other:    *)
(* the rollback of a colliding attempt leaves the live agent registered.     *)
OnlyOwnTeardownUnregisters ==
  [][\A i \in Ids : (registry[i] # Nobody /\ registry'[i] # registry[i]) =>
       teardown[registry[i]] = "detaching" /\ teardown'[registry[i]] = "done"]_vars

(* An unload ends, also when storage never answers an open.                 *)
UnloadEnds == \A f \in Fibers : (fiber[f] = "unloading") ~> (fiber[f] = "gone")

(* A caller that aborts gets its answer.                                    *)
AbortAnswered == \A a \in Attempts : (call[a].signal = "fired") ~> (pc[a] \in Settled)

(* "memoized so every racing owner awaits one quiescence" (index.ts:571):    *)
(* an owner that has unloaded left no agent of its own registered.          *)
OwnerJoinsTeardown ==
  \A f \in Owners : fiber[f] = "gone" => \A a \in Attempts :
    Owner(a) = f => \A i \in Ids : registry[i] # a
=============================================================================
