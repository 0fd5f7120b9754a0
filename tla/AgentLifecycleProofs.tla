------------------------ MODULE AgentLifecycleProofs ------------------------
(***************************************************************************)
(* Proofs about AgentLifecycle, for every set of attempts, identities and   *)
(* owners.  The inductive invariant is TypeOK with the parts below; each    *)
(* part has one step lemma with one step per action.                        *)
(***************************************************************************)
EXTENDS AgentLifecycle, TLAPS

(* Where an attempt has a machine and a registered teardown.                *)
Within == {"setup", "storing", "publishing", "rollback", "live"}

(* Where the continuation is determines what the attempt has.               *)
Stage(a) ==
  /\ a \in keeps => pc[a] \in {"reading", "repairing", "handover", "closing"}
  /\ pc[a] \in Within => a \in prepared
  /\ a \in prepared => pc[a] \in Within \cup {"failed"}
  /\ teardown[a] # "none" => a \in prepared
  /\ a \in abandoned => pc[a] = "failed" /\ a \notin prepared
  /\ pc[a] = "rollback" => teardown[a] # "none"
  /\ pc[a] = "failed" /\ a \in prepared => teardown[a] # "none"

(* The handle is open exactly while something is still going to close it.   *)
Held(a) ==
  /\ pc[a] \in {"reading", "repairing", "handover"} => handle[a] = "open"
  /\ a \in prepared /\ teardown[a] \in {"none", "quiescing", "closing"} => handle[a] = "open"
  /\ a \in prepared /\ teardown[a] \in {"detaching", "done"} => handle[a] = "closed"
  /\ pc[a] = "failed" /\ a \notin prepared /\ a \notin abandoned =>
       handle[a] \in {"absent", "refused", "closed"}
  /\ pc[a] = "idle" <=> call[a].kind = "none"
  /\ pc[a] = "idle" => handle[a] = "none"

(* The fused controller fires no later than the disposal or the caller.     *)
Fusing(a) ==
  /\ teardown[a] # "none" => a \in aborted
  /\ a \in prepared /\ call[a].signal = "fired" => a \in aborted

Placed  == \A a \in Attempts : Stage(a)
Holding == \A a \in Attempts : Held(a)
SignalsFused  == \A a \in Attempts : Fusing(a)

(* A registered entry belongs to an agent that is not yet torn down.        *)
Entered == \A i \in Ids : registry[i] # Nobody =>
             /\ registry[i] \in prepared
             /\ teardown[registry[i]] # "done"
             /\ Id(registry[i]) = i

Over(f) == fiber[f] \in {"draining", "gone"}

(* The unload of an owner has begun the disposal of every agent of its own   *)
(* and waits for those it began; the unload of the loop waits for all.      *)
OwnerSide ==
  /\ \A a \in prepared : Over(Owner(a)) => teardown[a] # "none"
  /\ \A a \in byOwner : /\ Over(Owner(a))
                        /\ a \in joined[Owner(a)].teardowns
  /\ \A f \in Fibers : fiber[f] = "gone" => \A a \in joined[f].teardowns : teardown[a] = "done"

LoopSide ==
  /\ Over(Loop) => \A a \in prepared : /\ teardown[a] # "none"
                                       /\ a \in joined[Loop].teardowns \/ teardown[a] = "done"
  /\ Over(Loop) => \A a \in Attempts :
       call[a].kind \in Started =>
         pc[a] \in Settled \/ a \in joined[Loop].startups
  /\ fiber[Loop] = "gone" => \A a \in joined[Loop].startups : pc[a] \in Settled

(* The part of TypeOK the steps below rest on.                              *)
FlowTypes ==
  /\ pc \in [Attempts -> Pcs] /\ handle \in [Attempts -> Handles]
  /\ teardown \in [Attempts -> {"none", "quiescing", "closing", "detaching", "done"}]
  /\ DOMAIN call = Attempts /\ prepared \subseteq Attempts /\ byOwner \subseteq prepared
  /\ DOMAIN registry = Ids /\ DOMAIN fiber = Fibers /\ DOMAIN joined = Fibers
  /\ \A f \in Fibers : /\ joined[f].teardowns \subseteq Attempts
                        /\ joined[f].startups \subseteq Attempts
  /\ Loop \in Fibers /\ \A a \in Attempts : Owner(a) \in Fibers /\ Id(a) \in Ids

IInv == TypeOK /\ Placed /\ Holding /\ SignalsFused /\ Entered /\ OwnerSide /\ LoopSide

-----------------------------------------------------------------------------
(* What a failing attempt leaves with, once it had a machine.              *)
LEMMA RollEffect ==
  ASSUME TypeOK, Placed, NEW a \in Attempts,
         pc[a] \in {"setup", "storing", "publishing"}, Roll(a)
  PROVE  /\ prepared' = prepared /\ handle' = handle /\ byOwner' = byOwner
         /\ pc' = [pc EXCEPT ![a] = IF call[a].kind \in Waited
                                   THEN "rollback" ELSE "failed"]
         /\ teardown' = [teardown EXCEPT ![a] = IF @ = "none" THEN "quiescing" ELSE @]
         /\ aborted' = IF teardown[a] = "none" THEN aborted \cup {a} ELSE aborted
         /\ a \in prepared
         /\ pc' \in [Attempts -> Pcs] /\ aborted' \subseteq prepared'
         /\ teardown' \in [Attempts -> {"none", "quiescing", "closing", "detaching", "done"}]
<1>1. a \notin keeps /\ a \in prepared
  BY DEF Placed, Stage, Within
<1>2. /\ pc' = [pc EXCEPT ![a] = IF call[a].kind \in Waited
                                  THEN "rollback" ELSE "failed"]
      /\ handle' = handle
  BY <1>1 DEF Roll, Settle, Goto
<1>3. BeginTeardown({a}, {})
  BY DEF Roll
<1>4. prepared' = prepared /\ byOwner' = byOwner
  BY <1>3 DEF BeginTeardown
<1>5. /\ teardown' = [teardown EXCEPT ![a] = IF @ = "none" THEN "quiescing" ELSE @]
      /\ aborted' = IF teardown[a] = "none" THEN aborted \cup {a} ELSE aborted
  BY <1>3 DEF BeginTeardown, TypeOK
<1>6. pc' \in [Attempts -> Pcs]
  BY <1>2 DEF TypeOK, Pcs
<1>7. teardown' \in [Attempts -> {"none", "quiescing", "closing", "detaching", "done"}]
  BY <1>5 DEF TypeOK
<1>8. aborted' \subseteq prepared'
  BY <1>1, <1>4, <1>5 DEF TypeOK
<1>9. QED BY <1>1, <1>2, <1>4, <1>5, <1>6, <1>7, <1>8

(* An identity whose log is absent goes on under another kind of call; what *)
(* its call says otherwise stays.                                           *)
LEMMA OpenRefusedEffect ==
  ASSUME TypeOK, NEW a \in Attempts, OpenRefused(a)
  PROVE  /\ call' \in [Attempts -> [kind : Kinds, id : Ids, owner : Fibers,
                                    signal : {"none", "quiet", "fired"}]]
         /\ \A b \in Attempts : /\ Id(b)' = Id(b) /\ Owner(b)' = Owner(b)
                                /\ call'[b].signal = call[b].signal
                                /\ call'[b].kind \in Started => call[b].kind \in Started
                                /\ call'[b].kind = "none" <=> call[b].kind = "none"
<1> DEFINE Requests == [kind : Kinds, id : Ids, owner : Fibers,
                        signal : {"none", "quiet", "fired"}]
<1>1. call \in [Attempts -> Requests]
  BY DEF TypeOK
<1>2. CASE call' = call
  BY <1>1, <1>2 DEF Id, Owner
<1>3. CASE /\ call[a].kind = "restore"
           /\ call' = [call EXCEPT ![a].kind = "minted"]
  <2>1. [call[a] EXCEPT !.kind = "minted"] \in Requests
    BY <1>1 DEF Kinds, Started, Waited
  <2>2. call' = [call EXCEPT ![a] = [call[a] EXCEPT !.kind = "minted"]]
    BY <1>3
  <2>3. call' \in [Attempts -> Requests]
    <3> HIDE DEF Requests
    <3>1. QED BY <1>1, <2>1, <2>2
  <2>4. \A b \in Attempts : b # a => call'[b] = call[b]
    BY <1>1, <2>2
  <2>5. /\ call'[a].kind = "minted" /\ call'[a].id = call[a].id
        /\ call'[a].owner = call[a].owner /\ call'[a].signal = call[a].signal
    BY <1>1, <2>2
  <2>6. QED BY <1>3, <2>3, <2>4, <2>5 DEF Id, Owner, Started, Waited
<1>4. QED BY <1>2, <1>3 DEF OpenRefused

(* Every step keeps the types.                                             *)
LEMMA TypeStep ==
  ASSUME TypeOK, Placed, [Next]_vars
  PROVE  TypeOK'
<1> USE LifecycleAssumption DEF TypeOK, Fibers, Kinds, Started, Waited, Pcs, Handles, Settled, Placed, Stage, Within, Id, Owner, Goto
<1>1. ASSUME NEW a \in Attempts, NEW i \in Ids, NEW f \in Owners, Create(a, i, f)
      PROVE  TypeOK'
  BY <1>1 DEF Create, IsActive, Ask, disposal, fibers
<1>2. ASSUME NEW a \in Attempts, NEW i \in Ids, NEW f \in Owners, CreateAgent(a, i, f, Signal(a))
      PROVE  TypeOK'
  BY <1>2 DEF CreateAgent, Signal, Torn, Ask, disposal, fibers
<1>3. ASSUME NEW a \in Attempts, NEW i \in Ids, NEW f \in Owners, Resume(a, i, f, Signal(a))
      PROVE  TypeOK'
  BY <1>3 DEF Resume, Signal, Torn, Ask, disposal, fibers
<1>4. ASSUME NEW a \in Attempts, NEW i \in Ids, Restore(a, i)
      PROVE  TypeOK'
  BY <1>4 DEF Restore, IsActive, Ask, disposal, fibers
<1>5. ASSUME NEW a \in Attempts, BackendCreates(a)
      PROVE  TypeOK'
  BY <1>5 DEF BackendCreates, Claimed, Answer, asking, loading, disposal, fibers
<1>6. ASSUME NEW a \in Attempts, BackendClaims(a)
      PROVE  TypeOK'
  BY <1>6 DEF BackendClaims, Claimed, Answer, asking, loading, disposal, fibers
<1>7. ASSUME NEW a \in Attempts, BackendOpens(a)
      PROVE  TypeOK'
  BY <1>7 DEF BackendOpens, Answer, asking, loading, disposal, fibers
<1>8. ASSUME NEW a \in Attempts, BackendMisses(a)
      PROVE  TypeOK'
  BY <1>8 DEF BackendMisses, Answer, asking, loading, disposal, fibers
<1>9. ASSUME NEW a \in Attempts, BackendRefuses(a)
      PROVE  TypeOK'
  BY <1>9 DEF BackendRefuses, Answer, asking, loading, disposal, fibers
<1>10. ASSUME NEW a \in Attempts, ReleaseAbandoned(a)
      PROVE  TypeOK'
  BY <1>10 DEF ReleaseAbandoned, Answer, asking, loading, disposal, fibers
<1>11. ASSUME NEW a \in Attempts, Quiesce(a)
      PROVE  TypeOK'
  BY <1>11 DEF Quiesce, asking, loading, fibers
<1>12. ASSUME NEW a \in Attempts, CloseHandle(a)
      PROVE  TypeOK'
  BY <1>12 DEF CloseHandle, asking, loading, fibers
<1>13. ASSUME NEW a \in Attempts, Detach(a)
      PROVE  TypeOK'
  BY <1>13 DEF Detach, Without, asking, loading, fibers
<1>14. ASSUME NEW a \in Attempts, Created(a)
      PROVE  TypeOK'
  <2>1. pc' \in [Attempts -> Pcs]
    BY <1>14 DEF Created, Prepare
  <2>2. prepared' \subseteq Attempts /\ prepared \subseteq prepared'
    BY <1>14 DEF Created, Prepare
  <2>3. QED BY <1>14, <2>1, <2>2 DEF Created, asking, loading, fibers
<1>15. ASSUME NEW a \in Attempts, CreateRefused(a)
      PROVE  TypeOK'
  BY <1>15 DEF CreateRefused, asking, loading, disposal, fibers
<1>16. ASSUME NEW a \in Attempts, AbandonCreate(a)
      PROVE  TypeOK'
  BY <1>16 DEF AbandonCreate, asking, disposal, fibers
<1>17. ASSUME NEW a \in Attempts, Opened(a)
      PROVE  TypeOK'
  BY <1>17 DEF Opened, asking, disposal, fibers
<1>18. ASSUME NEW a \in Attempts, OpenRefused(a)
      PROVE  TypeOK'
  <2>1. call' \in [Attempts -> [kind : Kinds, id : Ids, owner : Fibers,
                                signal : {"none", "quiet", "fired"}]]
    BY <1>18, OpenRefusedEffect
  <2>2. pc' \in [Attempts -> Pcs] /\ handle' \in [Attempts -> Handles]
    <3>1. \/ pc' = [pc EXCEPT ![a] = "creating"] /\ handle' = [handle EXCEPT ![a] = "creating"]
          \/ pc' = [pc EXCEPT ![a] = "failed"] /\ handle' = handle
      BY <1>18 DEF OpenRefused
    <3>2. CASE pc' = [pc EXCEPT ![a] = "creating"] /\ handle' = [handle EXCEPT ![a] = "creating"]
      BY <3>2
    <3>3. CASE pc' = [pc EXCEPT ![a] = "failed"] /\ handle' = handle
      BY <3>3
    <3>4. QED BY <3>1, <3>2, <3>3
  <2>3. following' \subseteq Attempts
    BY <1>18 DEF OpenRefused, Unfollow
  <2>4. QED BY <1>18, <2>1, <2>2, <2>3 DEF OpenRefused, disposal, fibers
<1>19. ASSUME NEW a \in Attempts, AbandonOpen(a)
      PROVE  TypeOK'
  BY <1>19 DEF AbandonOpen, Fused, Unfollow, asking, disposal, fibers, Torn
<1>20. ASSUME NEW a \in Attempts, Read(a)
      PROVE  TypeOK'
  <2>1. pc' \in [Attempts -> Pcs]
    BY <1>20 DEF Read
  <2>2. following' \subseteq Attempts
    BY <1>20 DEF Read, Unfollow
  <2>3. QED BY <1>20, <2>1, <2>2 DEF Read, asking, disposal, fibers
<1>21. ASSUME NEW a \in Attempts, Repair(a)
      PROVE  TypeOK'
  BY <1>21 DEF Repair, Unfollow, asking, disposal, fibers
<1>22. ASSUME NEW a \in Attempts, Handover(a)
      PROVE  TypeOK'
  <2>1. pc' \in [Attempts -> Pcs]
    BY <1>22 DEF Handover, Prepare
  <2>2. prepared' \subseteq Attempts /\ prepared \subseteq prepared'
    BY <1>22 DEF Handover, Prepare
  <2>3. QED BY <1>22, <2>1, <2>2 DEF Handover, PassHandle, asking, fibers
<1>23. ASSUME NEW a \in Attempts, CloseUnprepared(a)
      PROVE  TypeOK'
  BY <1>23 DEF CloseUnprepared, asking, disposal, fibers
<1>24. ASSUME NEW a \in Attempts, SetupDone(a)
      PROVE  TypeOK'
  BY <1>24 DEF SetupDone, asking, loading, disposal, fibers
<1>25. ASSUME NEW a \in Attempts, SetupAborted(a)
      PROVE  TypeOK'
  <2>1. pc[a] \in {"setup", "storing", "publishing"} /\ Roll(a)
    BY <1>25 DEF SetupAborted
  <2>2. QED BY <1>25, <2>1, RollEffect DEF SetupAborted, asking, loading, fibers
<1>26. ASSUME NEW a \in Attempts, SetupThrows(a)
      PROVE  TypeOK'
  <2>1. pc[a] \in {"setup", "storing", "publishing"} /\ Roll(a)
    BY <1>26 DEF SetupThrows
  <2>2. QED BY <1>26, <2>1, RollEffect DEF SetupThrows, asking, loading, fibers
<1>27. ASSUME NEW a \in Attempts, Stored(a)
      PROVE  TypeOK'
  BY <1>27 DEF Stored, loading, disposal, fibers
<1>28. ASSUME NEW a \in Attempts, StoreFails(a)
      PROVE  TypeOK'
  <2>1. pc[a] \in {"setup", "storing", "publishing"} /\ Roll(a)
    BY <1>28 DEF StoreFails
  <2>2. QED BY <1>28, <2>1, RollEffect DEF StoreFails, asking, loading, fibers
<1>29. ASSUME NEW a \in Attempts, Publish(a)
      PROVE  TypeOK'
  BY <1>29 DEF Publish, Enter, Settle, asking, loading, disposal, fibers
<1>30. ASSUME NEW a \in Attempts, PublishVetoed(a)
      PROVE  TypeOK'
  <2>1. pc[a] \in {"setup", "storing", "publishing"} /\ Roll(a)
    BY <1>30 DEF PublishVetoed
  <2>2. QED BY <1>30, <2>1, RollEffect DEF PublishVetoed, Enter, asking, loading,
  fibers
<1>31. ASSUME NEW a \in Attempts, PublishRefused(a)
      PROVE  TypeOK'
  <2>1. pc[a] \in {"setup", "storing", "publishing"} /\ Roll(a)
    BY <1>31 DEF PublishRefused
  <2>2. QED BY <1>31, <2>1, RollEffect DEF PublishRefused, asking, loading, fibers
<1>32. ASSUME NEW a \in Attempts, RolledBack(a)
      PROVE  TypeOK'
  BY <1>32 DEF RolledBack, Settle, asking, loading, disposal, fibers
<1>33. ASSUME NEW a \in Attempts, AbortCaller(a)
      PROVE  TypeOK'
  <2> DEFINE Requests == [kind : Kinds, id : Ids, owner : Fibers,
                          signal : {"none", "quiet", "fired"}]
  <2>1. call' \in [Attempts -> Requests]
    <3>1. call[a] \in Requests
      OBVIOUS
    <3>2. [call[a] EXCEPT !.signal = "fired"] \in Requests
      BY <3>1
    <3>3. call' = [call EXCEPT ![a] = [call[a] EXCEPT !.signal = "fired"]]
      BY <1>33 DEF AbortCaller
    <3>4. call \in [Attempts -> Requests]
      OBVIOUS
    <3> HIDE DEF Requests
    <3>5. QED BY <3>2, <3>3, <3>4
  <2>2. aborted' \subseteq prepared'
    BY <1>33 DEF AbortCaller
  <2>3. QED BY <1>33, <2>1, <2>2 DEF AbortCaller, loading, fibers
<1>34. ASSUME NEW a \in Attempts, Dispose(a)
      PROVE  TypeOK'
  BY <1>34 DEF Dispose, BeginTeardown, asking, loading, fibers
<1>35. ASSUME NEW f \in Fibers, BeginUnload(f)
      PROVE  TypeOK'
  BY <1>35 DEF BeginUnload, asking, loading, disposal
<1>36. ASSUME NEW f \in Fibers, RunDisposers(f)
      PROVE  TypeOK'
  BY <1>36 DEF RunDisposers, Joins, BeginTeardown, Tracked, Owned, asking, Startups,
  Fresh
<1>37. ASSUME NEW f \in Fibers, Unloaded(f)
      PROVE  TypeOK'
  BY <1>37 DEF Unloaded, asking, loading, disposal
<1>38. CASE UNCHANGED vars
  BY <1>38 DEF vars, asking, loading, disposal, fibers
<1>39. QED
  BY <1>1, <1>2, <1>3, <1>4, <1>5, <1>6, <1>7, <1>8, <1>9, <1>10, <1>11, <1>12, <1>13,
  <1>14, <1>15, <1>16, <1>17, <1>18, <1>19, <1>20, <1>21, <1>22, <1>23, <1>24, <1>25,
  <1>26, <1>27, <1>28, <1>29, <1>30, <1>31, <1>32, <1>33, <1>34, <1>35, <1>36, <1>37,
  <1>38 DEF Next, Advance, Continue, Wind, CreateSide, OpenSide, Choose, Called, Unload

(* Every step keeps the place of a continuation true to what it has.      *)
LEMMA PlacedStep ==
  ASSUME TypeOK, FlowTypes, Placed, [Next]_vars
  PROVE  Placed'
<1> USE LifecycleAssumption DEF Placed, Stage, Within, Id, Owner, Goto, FlowTypes
<1>1. ASSUME NEW a \in Attempts, NEW i \in Ids, NEW f \in Owners, Create(a, i, f)
      PROVE  Placed'
  BY <1>1 DEF Create, IsActive, Ask, disposal, fibers
<1>2. ASSUME NEW a \in Attempts, NEW i \in Ids, NEW f \in Owners, CreateAgent(a, i, f, Signal(a))
      PROVE  Placed'
  BY <1>2 DEF CreateAgent, Signal, Torn, Ask, disposal, fibers
<1>3. ASSUME NEW a \in Attempts, NEW i \in Ids, NEW f \in Owners, Resume(a, i, f, Signal(a))
      PROVE  Placed'
  BY <1>3 DEF Resume, Signal, Torn, Ask, disposal, fibers
<1>4. ASSUME NEW a \in Attempts, NEW i \in Ids, Restore(a, i)
      PROVE  Placed'
  BY <1>4 DEF Restore, IsActive, Ask, disposal, fibers
<1>5. ASSUME NEW a \in Attempts, BackendCreates(a)
      PROVE  Placed'
  BY <1>5 DEF BackendCreates, Claimed, Answer, asking, loading, disposal, fibers
<1>6. ASSUME NEW a \in Attempts, BackendClaims(a)
      PROVE  Placed'
  BY <1>6 DEF BackendClaims, Claimed, Answer, asking, loading, disposal, fibers
<1>7. ASSUME NEW a \in Attempts, BackendOpens(a)
      PROVE  Placed'
  BY <1>7 DEF BackendOpens, Answer, asking, loading, disposal, fibers
<1>8. ASSUME NEW a \in Attempts, BackendMisses(a)
      PROVE  Placed'
  BY <1>8 DEF BackendMisses, Answer, asking, loading, disposal, fibers
<1>9. ASSUME NEW a \in Attempts, BackendRefuses(a)
      PROVE  Placed'
  BY <1>9 DEF BackendRefuses, Answer, asking, loading, disposal, fibers
<1>10. ASSUME NEW a \in Attempts, ReleaseAbandoned(a)
      PROVE  Placed'
  BY <1>10 DEF ReleaseAbandoned, Answer, asking, loading, disposal, fibers
<1>11. ASSUME NEW a \in Attempts, Quiesce(a)
      PROVE  Placed'
  BY <1>11 DEF Quiesce, asking, loading, fibers
<1>12. ASSUME NEW a \in Attempts, CloseHandle(a)
      PROVE  Placed'
  BY <1>12 DEF CloseHandle, asking, loading, fibers
<1>13. ASSUME NEW a \in Attempts, Detach(a)
      PROVE  Placed'
  BY <1>13 DEF Detach, Without, asking, loading, fibers
<1>14. ASSUME NEW a \in Attempts, Created(a)
      PROVE  Placed'
  BY <1>14 DEF Created, Prepare, asking, loading, fibers, MayPrepare, IsActive
<1>15. ASSUME NEW a \in Attempts, CreateRefused(a)
      PROVE  Placed'
  BY <1>15 DEF CreateRefused, asking, loading, disposal, fibers
<1>16. ASSUME NEW a \in Attempts, AbandonCreate(a)
      PROVE  Placed'
  BY <1>16 DEF AbandonCreate, asking, disposal, fibers
<1>17. ASSUME NEW a \in Attempts, Opened(a)
      PROVE  Placed'
  BY <1>17 DEF Opened, asking, disposal, fibers
<1>18. ASSUME NEW a \in Attempts, OpenRefused(a)
      PROVE  Placed'
  BY <1>18, OpenRefusedEffect DEF OpenRefused, Unfollow, IsActive, disposal, fibers
<1>19. ASSUME NEW a \in Attempts, AbandonOpen(a)
      PROVE  Placed'
  BY <1>19 DEF AbandonOpen, Fused, Unfollow, asking, disposal, fibers, Torn
<1>20. ASSUME NEW a \in Attempts, Read(a)
      PROVE  Placed'
  BY <1>20 DEF Read, Fused, Unfollow, asking, disposal, fibers, Torn
<1>21. ASSUME NEW a \in Attempts, Repair(a)
      PROVE  Placed'
  BY <1>21 DEF Repair, Unfollow, asking, disposal, fibers
<1>22. ASSUME NEW a \in Attempts, Handover(a)
      PROVE  Placed'
  BY <1>22 DEF Handover, PassHandle, Prepare, asking, fibers, MayPrepare, IsActive
<1>23. ASSUME NEW a \in Attempts, CloseUnprepared(a)
      PROVE  Placed'
  BY <1>23 DEF CloseUnprepared, asking, disposal, fibers
<1>24. ASSUME NEW a \in Attempts, SetupDone(a)
      PROVE  Placed'
  BY <1>24 DEF SetupDone, asking, loading, disposal, fibers
<1>25. ASSUME NEW a \in Attempts, SetupAborted(a)
      PROVE  Placed'
  <2>1. pc[a] \in {"setup", "storing", "publishing"} /\ Roll(a)
    BY <1>25 DEF SetupAborted
  <2>2. QED BY <1>25, <2>1, RollEffect DEF SetupAborted, asking, loading, fibers
<1>26. ASSUME NEW a \in Attempts, SetupThrows(a)
      PROVE  Placed'
  <2>1. pc[a] \in {"setup", "storing", "publishing"} /\ Roll(a)
    BY <1>26 DEF SetupThrows
  <2>2. QED BY <1>26, <2>1, RollEffect DEF SetupThrows, asking, loading, fibers
<1>27. ASSUME NEW a \in Attempts, Stored(a)
      PROVE  Placed'
  BY <1>27 DEF Stored, loading, disposal, fibers
<1>28. ASSUME NEW a \in Attempts, StoreFails(a)
      PROVE  Placed'
  <2>1. pc[a] \in {"setup", "storing", "publishing"} /\ Roll(a)
    BY <1>28 DEF StoreFails
  <2>2. QED BY <1>28, <2>1, RollEffect DEF StoreFails, asking, loading, fibers
<1>29. ASSUME NEW a \in Attempts, Publish(a)
      PROVE  Placed'
  BY <1>29 DEF Publish, Enter, Settle, asking, loading, disposal, fibers
<1>30. ASSUME NEW a \in Attempts, PublishVetoed(a)
      PROVE  Placed'
  <2>1. pc[a] \in {"setup", "storing", "publishing"} /\ Roll(a)
    BY <1>30 DEF PublishVetoed
  <2>2. QED BY <1>30, <2>1, RollEffect DEF PublishVetoed, Enter, asking, loading,
  fibers
<1>31. ASSUME NEW a \in Attempts, PublishRefused(a)
      PROVE  Placed'
  <2>1. pc[a] \in {"setup", "storing", "publishing"} /\ Roll(a)
    BY <1>31 DEF PublishRefused
  <2>2. QED BY <1>31, <2>1, RollEffect DEF PublishRefused, asking, loading, fibers
<1>32. ASSUME NEW a \in Attempts, RolledBack(a)
      PROVE  Placed'
  BY <1>32 DEF RolledBack, Settle, asking, loading, disposal, fibers
<1>33. ASSUME NEW a \in Attempts, AbortCaller(a)
      PROVE  Placed'
  BY <1>33 DEF AbortCaller, loading, fibers, TypeOK, Kinds
<1>34. ASSUME NEW a \in Attempts, Dispose(a)
      PROVE  Placed'
  BY <1>34 DEF Dispose, BeginTeardown, asking, loading, fibers
<1>35. ASSUME NEW f \in Fibers, BeginUnload(f)
      PROVE  Placed'
  BY <1>35 DEF BeginUnload, asking, loading, disposal
<1>36. ASSUME NEW f \in Fibers, RunDisposers(f)
      PROVE  Placed'
  BY <1>36 DEF RunDisposers, Joins, BeginTeardown, Tracked, Owned, asking, Startups,
  Fresh, Settled
<1>37. ASSUME NEW f \in Fibers, Unloaded(f)
      PROVE  Placed'
  BY <1>37 DEF Unloaded, Settled, asking, loading, disposal
<1>38. CASE UNCHANGED vars
  BY <1>38 DEF vars, asking, loading, disposal, fibers
<1>39. QED
  BY <1>1, <1>2, <1>3, <1>4, <1>5, <1>6, <1>7, <1>8, <1>9, <1>10, <1>11, <1>12, <1>13,
  <1>14, <1>15, <1>16, <1>17, <1>18, <1>19, <1>20, <1>21, <1>22, <1>23, <1>24, <1>25,
  <1>26, <1>27, <1>28, <1>29, <1>30, <1>31, <1>32, <1>33, <1>34, <1>35, <1>36, <1>37,
  <1>38 DEF Next, Advance, Continue, Wind, CreateSide, OpenSide, Choose, Called, Unload

(* Every step keeps the handles accounted for.                             *)
LEMMA HoldingStep ==
  ASSUME TypeOK, FlowTypes, Placed, Holding, [Next]_vars
  PROVE  Holding'
<1> USE LifecycleAssumption DEF Placed, Stage, Holding, Held, Within, Id, Owner, Goto, FlowTypes
<1>1. ASSUME NEW a \in Attempts, NEW i \in Ids, NEW f \in Owners, Create(a, i, f)
      PROVE  Holding'
  BY <1>1 DEF Create, IsActive, Ask, disposal, fibers
<1>2. ASSUME NEW a \in Attempts, NEW i \in Ids, NEW f \in Owners, CreateAgent(a, i, f, Signal(a))
      PROVE  Holding'
  BY <1>2 DEF CreateAgent, Signal, Torn, Ask, disposal, fibers
<1>3. ASSUME NEW a \in Attempts, NEW i \in Ids, NEW f \in Owners, Resume(a, i, f, Signal(a))
      PROVE  Holding'
  BY <1>3 DEF Resume, Signal, Torn, Ask, disposal, fibers
<1>4. ASSUME NEW a \in Attempts, NEW i \in Ids, Restore(a, i)
      PROVE  Holding'
  BY <1>4 DEF Restore, IsActive, Ask, disposal, fibers
<1>5. ASSUME NEW a \in Attempts, BackendCreates(a)
      PROVE  Holding'
  BY <1>5 DEF BackendCreates, Claimed, Answer, asking, loading, disposal, fibers
<1>6. ASSUME NEW a \in Attempts, BackendClaims(a)
      PROVE  Holding'
  BY <1>6 DEF BackendClaims, Claimed, Answer, asking, loading, disposal, fibers
<1>7. ASSUME NEW a \in Attempts, BackendOpens(a)
      PROVE  Holding'
  BY <1>7 DEF BackendOpens, Answer, asking, loading, disposal, fibers
<1>8. ASSUME NEW a \in Attempts, BackendMisses(a)
      PROVE  Holding'
  BY <1>8 DEF BackendMisses, Answer, asking, loading, disposal, fibers
<1>9. ASSUME NEW a \in Attempts, BackendRefuses(a)
      PROVE  Holding'
  BY <1>9 DEF BackendRefuses, Answer, asking, loading, disposal, fibers
<1>10. ASSUME NEW a \in Attempts, ReleaseAbandoned(a)
      PROVE  Holding'
  BY <1>10 DEF ReleaseAbandoned, Answer, asking, loading, disposal, fibers
<1>11. ASSUME NEW a \in Attempts, Quiesce(a)
      PROVE  Holding'
  BY <1>11 DEF Quiesce, asking, loading, fibers
<1>12. ASSUME NEW a \in Attempts, CloseHandle(a)
      PROVE  Holding'
  BY <1>12 DEF CloseHandle, asking, loading, fibers
<1>13. ASSUME NEW a \in Attempts, Detach(a)
      PROVE  Holding'
  BY <1>13 DEF Detach, Without, asking, loading, fibers
<1>14. ASSUME NEW a \in Attempts, Created(a)
      PROVE  Holding'
  BY <1>14 DEF Created, Prepare, asking, loading, fibers, MayPrepare, IsActive
<1>15. ASSUME NEW a \in Attempts, CreateRefused(a)
      PROVE  Holding'
  BY <1>15 DEF CreateRefused, asking, loading, disposal, fibers
<1>16. ASSUME NEW a \in Attempts, AbandonCreate(a)
      PROVE  Holding'
  BY <1>16 DEF AbandonCreate, asking, disposal, fibers
<1>17. ASSUME NEW a \in Attempts, Opened(a)
      PROVE  Holding'
  BY <1>17 DEF Opened, asking, disposal, fibers
<1>18. ASSUME NEW a \in Attempts, OpenRefused(a)
      PROVE  Holding'
  BY <1>18, OpenRefusedEffect DEF OpenRefused, Unfollow, IsActive, disposal, fibers
<1>19. ASSUME NEW a \in Attempts, AbandonOpen(a)
      PROVE  Holding'
  BY <1>19 DEF AbandonOpen, Fused, Unfollow, asking, disposal, fibers, Torn
<1>20. ASSUME NEW a \in Attempts, Read(a)
      PROVE  Holding'
  BY <1>20 DEF Read, Fused, Unfollow, asking, disposal, fibers, Torn
<1>21. ASSUME NEW a \in Attempts, Repair(a)
      PROVE  Holding'
  BY <1>21 DEF Repair, Unfollow, asking, disposal, fibers
<1>22. ASSUME NEW a \in Attempts, Handover(a)
      PROVE  Holding'
  BY <1>22 DEF Handover, PassHandle, Prepare, asking, fibers, MayPrepare, IsActive
<1>23. ASSUME NEW a \in Attempts, CloseUnprepared(a)
      PROVE  Holding'
  BY <1>23 DEF CloseUnprepared, asking, disposal, fibers
<1>24. ASSUME NEW a \in Attempts, SetupDone(a)
      PROVE  Holding'
  BY <1>24 DEF SetupDone, asking, loading, disposal, fibers
<1>25. ASSUME NEW a \in Attempts, SetupAborted(a)
      PROVE  Holding'
  <2>1. pc[a] \in {"setup", "storing", "publishing"} /\ Roll(a)
    BY <1>25 DEF SetupAborted
  <2>2. QED BY <1>25, <2>1, RollEffect DEF SetupAborted, asking, loading, fibers
<1>26. ASSUME NEW a \in Attempts, SetupThrows(a)
      PROVE  Holding'
  <2>1. pc[a] \in {"setup", "storing", "publishing"} /\ Roll(a)
    BY <1>26 DEF SetupThrows
  <2>2. QED BY <1>26, <2>1, RollEffect DEF SetupThrows, asking, loading, fibers
<1>27. ASSUME NEW a \in Attempts, Stored(a)
      PROVE  Holding'
  BY <1>27 DEF Stored, loading, disposal, fibers
<1>28. ASSUME NEW a \in Attempts, StoreFails(a)
      PROVE  Holding'
  <2>1. pc[a] \in {"setup", "storing", "publishing"} /\ Roll(a)
    BY <1>28 DEF StoreFails
  <2>2. QED BY <1>28, <2>1, RollEffect DEF StoreFails, asking, loading, fibers
<1>29. ASSUME NEW a \in Attempts, Publish(a)
      PROVE  Holding'
  BY <1>29 DEF Publish, Enter, Settle, asking, loading, disposal, fibers
<1>30. ASSUME NEW a \in Attempts, PublishVetoed(a)
      PROVE  Holding'
  <2>1. pc[a] \in {"setup", "storing", "publishing"} /\ Roll(a)
    BY <1>30 DEF PublishVetoed
  <2>2. QED BY <1>30, <2>1, RollEffect DEF PublishVetoed, Enter, asking, loading,
  fibers
<1>31. ASSUME NEW a \in Attempts, PublishRefused(a)
      PROVE  Holding'
  <2>1. pc[a] \in {"setup", "storing", "publishing"} /\ Roll(a)
    BY <1>31 DEF PublishRefused
  <2>2. QED BY <1>31, <2>1, RollEffect DEF PublishRefused, asking, loading, fibers
<1>32. ASSUME NEW a \in Attempts, RolledBack(a)
      PROVE  Holding'
  BY <1>32 DEF RolledBack, Settle, asking, loading, disposal, fibers
<1>33. ASSUME NEW a \in Attempts, AbortCaller(a)
      PROVE  Holding'
  BY <1>33 DEF AbortCaller, loading, fibers, TypeOK, Kinds
<1>34. ASSUME NEW a \in Attempts, Dispose(a)
      PROVE  Holding'
  BY <1>34 DEF Dispose, BeginTeardown, asking, loading, fibers
<1>35. ASSUME NEW f \in Fibers, BeginUnload(f)
      PROVE  Holding'
  BY <1>35 DEF BeginUnload, asking, loading, disposal
<1>36. ASSUME NEW f \in Fibers, RunDisposers(f)
      PROVE  Holding'
  BY <1>36 DEF RunDisposers, Joins, BeginTeardown, Tracked, Owned, asking, Startups,
  Fresh, Settled
<1>37. ASSUME NEW f \in Fibers, Unloaded(f)
      PROVE  Holding'
  BY <1>37 DEF Unloaded, Settled, asking, loading, disposal
<1>38. CASE UNCHANGED vars
  BY <1>38 DEF vars, asking, loading, disposal, fibers
<1>39. QED
  BY <1>1, <1>2, <1>3, <1>4, <1>5, <1>6, <1>7, <1>8, <1>9, <1>10, <1>11, <1>12, <1>13,
  <1>14, <1>15, <1>16, <1>17, <1>18, <1>19, <1>20, <1>21, <1>22, <1>23, <1>24, <1>25,
  <1>26, <1>27, <1>28, <1>29, <1>30, <1>31, <1>32, <1>33, <1>34, <1>35, <1>36, <1>37,
  <1>38 DEF Next, Advance, Continue, Wind, CreateSide, OpenSide, Choose, Called, Unload

(* Every step keeps the fused controllers ahead.                           *)
LEMMA FusedStep ==
  ASSUME TypeOK, FlowTypes, Placed, SignalsFused, [Next]_vars
  PROVE  SignalsFused'
<1> USE LifecycleAssumption DEF Placed, Stage, Within, SignalsFused, Fusing, Id, Owner, Goto, FlowTypes
<1>1. ASSUME NEW a \in Attempts, NEW i \in Ids, NEW f \in Owners, Create(a, i, f)
      PROVE  SignalsFused'
  BY <1>1 DEF Create, IsActive, Ask, disposal, fibers
<1>2. ASSUME NEW a \in Attempts, NEW i \in Ids, NEW f \in Owners, CreateAgent(a, i, f, Signal(a))
      PROVE  SignalsFused'
  BY <1>2 DEF CreateAgent, Signal, Torn, Ask, disposal, fibers
<1>3. ASSUME NEW a \in Attempts, NEW i \in Ids, NEW f \in Owners, Resume(a, i, f, Signal(a))
      PROVE  SignalsFused'
  BY <1>3 DEF Resume, Signal, Torn, Ask, disposal, fibers
<1>4. ASSUME NEW a \in Attempts, NEW i \in Ids, Restore(a, i)
      PROVE  SignalsFused'
  BY <1>4 DEF Restore, IsActive, Ask, disposal, fibers
<1>5. ASSUME NEW a \in Attempts, BackendCreates(a)
      PROVE  SignalsFused'
  BY <1>5 DEF BackendCreates, Claimed, Answer, asking, loading, disposal, fibers
<1>6. ASSUME NEW a \in Attempts, BackendClaims(a)
      PROVE  SignalsFused'
  BY <1>6 DEF BackendClaims, Claimed, Answer, asking, loading, disposal, fibers
<1>7. ASSUME NEW a \in Attempts, BackendOpens(a)
      PROVE  SignalsFused'
  BY <1>7 DEF BackendOpens, Answer, asking, loading, disposal, fibers
<1>8. ASSUME NEW a \in Attempts, BackendMisses(a)
      PROVE  SignalsFused'
  BY <1>8 DEF BackendMisses, Answer, asking, loading, disposal, fibers
<1>9. ASSUME NEW a \in Attempts, BackendRefuses(a)
      PROVE  SignalsFused'
  BY <1>9 DEF BackendRefuses, Answer, asking, loading, disposal, fibers
<1>10. ASSUME NEW a \in Attempts, ReleaseAbandoned(a)
      PROVE  SignalsFused'
  BY <1>10 DEF ReleaseAbandoned, Answer, asking, loading, disposal, fibers
<1>11. ASSUME NEW a \in Attempts, Quiesce(a)
      PROVE  SignalsFused'
  BY <1>11 DEF Quiesce, asking, loading, fibers
<1>12. ASSUME NEW a \in Attempts, CloseHandle(a)
      PROVE  SignalsFused'
  BY <1>12 DEF CloseHandle, asking, loading, fibers
<1>13. ASSUME NEW a \in Attempts, Detach(a)
      PROVE  SignalsFused'
  BY <1>13 DEF Detach, Without, asking, loading, fibers
<1>14. ASSUME NEW a \in Attempts, Created(a)
      PROVE  SignalsFused'
  BY <1>14 DEF Created, Prepare, asking, loading, fibers, MayPrepare, IsActive
<1>15. ASSUME NEW a \in Attempts, CreateRefused(a)
      PROVE  SignalsFused'
  BY <1>15 DEF CreateRefused, asking, loading, disposal, fibers
<1>16. ASSUME NEW a \in Attempts, AbandonCreate(a)
      PROVE  SignalsFused'
  BY <1>16 DEF AbandonCreate, asking, disposal, fibers
<1>17. ASSUME NEW a \in Attempts, Opened(a)
      PROVE  SignalsFused'
  BY <1>17 DEF Opened, asking, disposal, fibers
<1>18. ASSUME NEW a \in Attempts, OpenRefused(a)
      PROVE  SignalsFused'
  BY <1>18, OpenRefusedEffect DEF OpenRefused, Unfollow, IsActive, disposal, fibers
<1>19. ASSUME NEW a \in Attempts, AbandonOpen(a)
      PROVE  SignalsFused'
  BY <1>19 DEF AbandonOpen, Fused, Unfollow, asking, disposal, fibers, Torn
<1>20. ASSUME NEW a \in Attempts, Read(a)
      PROVE  SignalsFused'
  BY <1>20 DEF Read, Fused, Unfollow, asking, disposal, fibers, Torn
<1>21. ASSUME NEW a \in Attempts, Repair(a)
      PROVE  SignalsFused'
  BY <1>21 DEF Repair, Unfollow, asking, disposal, fibers
<1>22. ASSUME NEW a \in Attempts, Handover(a)
      PROVE  SignalsFused'
  BY <1>22 DEF Handover, PassHandle, Prepare, asking, fibers, MayPrepare, IsActive
<1>23. ASSUME NEW a \in Attempts, CloseUnprepared(a)
      PROVE  SignalsFused'
  BY <1>23 DEF CloseUnprepared, asking, disposal, fibers
<1>24. ASSUME NEW a \in Attempts, SetupDone(a)
      PROVE  SignalsFused'
  BY <1>24 DEF SetupDone, asking, loading, disposal, fibers
<1>25. ASSUME NEW a \in Attempts, SetupAborted(a)
      PROVE  SignalsFused'
  <2>1. pc[a] \in {"setup", "storing", "publishing"} /\ Roll(a)
    BY <1>25 DEF SetupAborted
  <2>2. QED BY <1>25, <2>1, RollEffect DEF SetupAborted, asking, loading, fibers
<1>26. ASSUME NEW a \in Attempts, SetupThrows(a)
      PROVE  SignalsFused'
  <2>1. pc[a] \in {"setup", "storing", "publishing"} /\ Roll(a)
    BY <1>26 DEF SetupThrows
  <2>2. QED BY <1>26, <2>1, RollEffect DEF SetupThrows, asking, loading, fibers
<1>27. ASSUME NEW a \in Attempts, Stored(a)
      PROVE  SignalsFused'
  BY <1>27 DEF Stored, loading, disposal, fibers
<1>28. ASSUME NEW a \in Attempts, StoreFails(a)
      PROVE  SignalsFused'
  <2>1. pc[a] \in {"setup", "storing", "publishing"} /\ Roll(a)
    BY <1>28 DEF StoreFails
  <2>2. QED BY <1>28, <2>1, RollEffect DEF StoreFails, asking, loading, fibers
<1>29. ASSUME NEW a \in Attempts, Publish(a)
      PROVE  SignalsFused'
  BY <1>29 DEF Publish, Enter, Settle, asking, loading, disposal, fibers
<1>30. ASSUME NEW a \in Attempts, PublishVetoed(a)
      PROVE  SignalsFused'
  <2>1. pc[a] \in {"setup", "storing", "publishing"} /\ Roll(a)
    BY <1>30 DEF PublishVetoed
  <2>2. QED BY <1>30, <2>1, RollEffect DEF PublishVetoed, Enter, asking, loading,
  fibers
<1>31. ASSUME NEW a \in Attempts, PublishRefused(a)
      PROVE  SignalsFused'
  <2>1. pc[a] \in {"setup", "storing", "publishing"} /\ Roll(a)
    BY <1>31 DEF PublishRefused
  <2>2. QED BY <1>31, <2>1, RollEffect DEF PublishRefused, asking, loading, fibers
<1>32. ASSUME NEW a \in Attempts, RolledBack(a)
      PROVE  SignalsFused'
  BY <1>32 DEF RolledBack, Settle, asking, loading, disposal, fibers
<1>33. ASSUME NEW a \in Attempts, AbortCaller(a)
      PROVE  SignalsFused'
  BY <1>33 DEF AbortCaller, loading, fibers, TypeOK, Kinds
<1>34. ASSUME NEW a \in Attempts, Dispose(a)
      PROVE  SignalsFused'
  BY <1>34 DEF Dispose, BeginTeardown, asking, loading, fibers
<1>35. ASSUME NEW f \in Fibers, BeginUnload(f)
      PROVE  SignalsFused'
  BY <1>35 DEF BeginUnload, asking, loading, disposal
<1>36. ASSUME NEW f \in Fibers, RunDisposers(f)
      PROVE  SignalsFused'
  BY <1>36 DEF RunDisposers, Joins, BeginTeardown, Tracked, Owned, asking, Startups,
  Fresh, Settled
<1>37. ASSUME NEW f \in Fibers, Unloaded(f)
      PROVE  SignalsFused'
  BY <1>37 DEF Unloaded, Settled, asking, loading, disposal
<1>38. CASE UNCHANGED vars
  BY <1>38 DEF vars, asking, loading, disposal, fibers
<1>39. QED
  BY <1>1, <1>2, <1>3, <1>4, <1>5, <1>6, <1>7, <1>8, <1>9, <1>10, <1>11, <1>12, <1>13,
  <1>14, <1>15, <1>16, <1>17, <1>18, <1>19, <1>20, <1>21, <1>22, <1>23, <1>24, <1>25,
  <1>26, <1>27, <1>28, <1>29, <1>30, <1>31, <1>32, <1>33, <1>34, <1>35, <1>36, <1>37,
  <1>38 DEF Next, Advance, Continue, Wind, CreateSide, OpenSide, Choose, Called, Unload

(* Every step keeps the entries of the registry live.                      *)
LEMMA EnteredStep ==
  ASSUME TypeOK, FlowTypes, Placed, SignalsFused, Entered, [Next]_vars
  PROVE  Entered'
<1> USE LifecycleAssumption DEF Placed, Stage, Within, SignalsFused, Fusing, Entered, Id, Owner, Goto, FlowTypes
<1>1. ASSUME NEW a \in Attempts, NEW i \in Ids, NEW f \in Owners, Create(a, i, f)
      PROVE  Entered'
  BY <1>1 DEF Create, IsActive, Ask, disposal, fibers
<1>2. ASSUME NEW a \in Attempts, NEW i \in Ids, NEW f \in Owners, CreateAgent(a, i, f, Signal(a))
      PROVE  Entered'
  BY <1>2 DEF CreateAgent, Signal, Torn, Ask, disposal, fibers
<1>3. ASSUME NEW a \in Attempts, NEW i \in Ids, NEW f \in Owners, Resume(a, i, f, Signal(a))
      PROVE  Entered'
  BY <1>3 DEF Resume, Signal, Torn, Ask, disposal, fibers
<1>4. ASSUME NEW a \in Attempts, NEW i \in Ids, Restore(a, i)
      PROVE  Entered'
  BY <1>4 DEF Restore, IsActive, Ask, disposal, fibers
<1>5. ASSUME NEW a \in Attempts, BackendCreates(a)
      PROVE  Entered'
  BY <1>5 DEF BackendCreates, Claimed, Answer, asking, loading, disposal, fibers
<1>6. ASSUME NEW a \in Attempts, BackendClaims(a)
      PROVE  Entered'
  BY <1>6 DEF BackendClaims, Claimed, Answer, asking, loading, disposal, fibers
<1>7. ASSUME NEW a \in Attempts, BackendOpens(a)
      PROVE  Entered'
  BY <1>7 DEF BackendOpens, Answer, asking, loading, disposal, fibers
<1>8. ASSUME NEW a \in Attempts, BackendMisses(a)
      PROVE  Entered'
  BY <1>8 DEF BackendMisses, Answer, asking, loading, disposal, fibers
<1>9. ASSUME NEW a \in Attempts, BackendRefuses(a)
      PROVE  Entered'
  BY <1>9 DEF BackendRefuses, Answer, asking, loading, disposal, fibers
<1>10. ASSUME NEW a \in Attempts, ReleaseAbandoned(a)
      PROVE  Entered'
  BY <1>10 DEF ReleaseAbandoned, Answer, asking, loading, disposal, fibers
<1>11. ASSUME NEW a \in Attempts, Quiesce(a)
      PROVE  Entered'
  BY <1>11 DEF Quiesce, asking, loading, fibers
<1>12. ASSUME NEW a \in Attempts, CloseHandle(a)
      PROVE  Entered'
  BY <1>12 DEF CloseHandle, asking, loading, fibers
<1>13. ASSUME NEW a \in Attempts, Detach(a)
      PROVE  Entered'
  BY <1>13 DEF Detach, Without, asking, loading, fibers
<1>14. ASSUME NEW a \in Attempts, Created(a)
      PROVE  Entered'
  BY <1>14 DEF Created, Prepare, asking, loading, fibers, MayPrepare, IsActive
<1>15. ASSUME NEW a \in Attempts, CreateRefused(a)
      PROVE  Entered'
  BY <1>15 DEF CreateRefused, asking, loading, disposal, fibers
<1>16. ASSUME NEW a \in Attempts, AbandonCreate(a)
      PROVE  Entered'
  BY <1>16 DEF AbandonCreate, asking, disposal, fibers
<1>17. ASSUME NEW a \in Attempts, Opened(a)
      PROVE  Entered'
  BY <1>17 DEF Opened, asking, disposal, fibers
<1>18. ASSUME NEW a \in Attempts, OpenRefused(a)
      PROVE  Entered'
  BY <1>18, OpenRefusedEffect DEF OpenRefused, Unfollow, IsActive, disposal, fibers
<1>19. ASSUME NEW a \in Attempts, AbandonOpen(a)
      PROVE  Entered'
  BY <1>19 DEF AbandonOpen, Fused, Unfollow, asking, disposal, fibers, Torn
<1>20. ASSUME NEW a \in Attempts, Read(a)
      PROVE  Entered'
  BY <1>20 DEF Read, Fused, Unfollow, asking, disposal, fibers, Torn
<1>21. ASSUME NEW a \in Attempts, Repair(a)
      PROVE  Entered'
  BY <1>21 DEF Repair, Unfollow, asking, disposal, fibers
<1>22. ASSUME NEW a \in Attempts, Handover(a)
      PROVE  Entered'
  BY <1>22 DEF Handover, PassHandle, Prepare, asking, fibers, MayPrepare, IsActive
<1>23. ASSUME NEW a \in Attempts, CloseUnprepared(a)
      PROVE  Entered'
  BY <1>23 DEF CloseUnprepared, asking, disposal, fibers
<1>24. ASSUME NEW a \in Attempts, SetupDone(a)
      PROVE  Entered'
  BY <1>24 DEF SetupDone, asking, loading, disposal, fibers
<1>25. ASSUME NEW a \in Attempts, SetupAborted(a)
      PROVE  Entered'
  <2>1. pc[a] \in {"setup", "storing", "publishing"} /\ Roll(a)
    BY <1>25 DEF SetupAborted
  <2>2. QED BY <1>25, <2>1, RollEffect DEF SetupAborted, asking, loading, fibers
<1>26. ASSUME NEW a \in Attempts, SetupThrows(a)
      PROVE  Entered'
  <2>1. pc[a] \in {"setup", "storing", "publishing"} /\ Roll(a)
    BY <1>26 DEF SetupThrows
  <2>2. QED BY <1>26, <2>1, RollEffect DEF SetupThrows, asking, loading, fibers
<1>27. ASSUME NEW a \in Attempts, Stored(a)
      PROVE  Entered'
  BY <1>27 DEF Stored, loading, disposal, fibers
<1>28. ASSUME NEW a \in Attempts, StoreFails(a)
      PROVE  Entered'
  <2>1. pc[a] \in {"setup", "storing", "publishing"} /\ Roll(a)
    BY <1>28 DEF StoreFails
  <2>2. QED BY <1>28, <2>1, RollEffect DEF StoreFails, asking, loading, fibers
<1>29. ASSUME NEW a \in Attempts, Publish(a)
      PROVE  Entered'
  BY <1>29 DEF Publish, Enter, Settle, asking, loading, disposal, fibers
<1>30. ASSUME NEW a \in Attempts, PublishVetoed(a)
      PROVE  Entered'
  <2>1. pc[a] \in {"setup", "storing", "publishing"} /\ Roll(a)
    BY <1>30 DEF PublishVetoed
  <2>2. QED BY <1>30, <2>1, RollEffect DEF PublishVetoed, Enter, asking, loading,
  fibers
<1>31. ASSUME NEW a \in Attempts, PublishRefused(a)
      PROVE  Entered'
  <2>1. pc[a] \in {"setup", "storing", "publishing"} /\ Roll(a)
    BY <1>31 DEF PublishRefused
  <2>2. QED BY <1>31, <2>1, RollEffect DEF PublishRefused, asking, loading, fibers
<1>32. ASSUME NEW a \in Attempts, RolledBack(a)
      PROVE  Entered'
  BY <1>32 DEF RolledBack, Settle, asking, loading, disposal, fibers
<1>33. ASSUME NEW a \in Attempts, AbortCaller(a)
      PROVE  Entered'
  BY <1>33 DEF AbortCaller, loading, fibers, TypeOK, Kinds
<1>34. ASSUME NEW a \in Attempts, Dispose(a)
      PROVE  Entered'
  BY <1>34 DEF Dispose, BeginTeardown, asking, loading, fibers
<1>35. ASSUME NEW f \in Fibers, BeginUnload(f)
      PROVE  Entered'
  BY <1>35 DEF BeginUnload, asking, loading, disposal
<1>36. ASSUME NEW f \in Fibers, RunDisposers(f)
      PROVE  Entered'
  BY <1>36 DEF RunDisposers, Joins, BeginTeardown, Tracked, Owned, asking, Startups,
  Fresh, Settled
<1>37. ASSUME NEW f \in Fibers, Unloaded(f)
      PROVE  Entered'
  BY <1>37 DEF Unloaded, Settled, asking, loading, disposal
<1>38. CASE UNCHANGED vars
  BY <1>38 DEF vars, asking, loading, disposal, fibers
<1>39. QED
  BY <1>1, <1>2, <1>3, <1>4, <1>5, <1>6, <1>7, <1>8, <1>9, <1>10, <1>11, <1>12, <1>13,
  <1>14, <1>15, <1>16, <1>17, <1>18, <1>19, <1>20, <1>21, <1>22, <1>23, <1>24, <1>25,
  <1>26, <1>27, <1>28, <1>29, <1>30, <1>31, <1>32, <1>33, <1>34, <1>35, <1>36, <1>37,
  <1>38 DEF Next, Advance, Continue, Wind, CreateSide, OpenSide, Choose, Called, Unload

(* A step that only takes attempts onward disturbs no unload.                *)
Onward ==
  /\ UNCHANGED <<prepared, byOwner, fiber, joined>>
  /\ \A a \in Attempts :
       /\ Owner(a)' = Owner(a)
       /\ call'[a].kind \in Started => call[a].kind \in Started
       /\ teardown[a] # "none" => teardown'[a] # "none"
       /\ teardown[a] = "done" => teardown'[a] = "done"
       /\ pc[a] \in Settled => pc'[a] \in Settled

(* A step that goes onward keeps both sides.                                 *)
LEMMA OnwardKeeps ==
  ASSUME FlowTypes, OwnerSide, LoopSide, Onward
  PROVE  OwnerSide' /\ LoopSide'
<1> USE DEF FlowTypes, Onward, Over
<1>1. \A f \in Fibers : Over(f)' <=> Over(f)
  OBVIOUS
<1>2. \A f \in Fibers : \A a \in joined[f].teardowns :
        teardown[a] = "done" => teardown'[a] = "done"
  OBVIOUS
<1>3. OwnerSide'
  BY <1>1, <1>2 DEF OwnerSide
<1>4. LoopSide'
  BY <1>1, <1>2 DEF LoopSide
<1>5. QED BY <1>3, <1>4

(* Every action but the calls, prepare and the unloads goes onward.          *)
LEMMA OnwardStep ==
  ASSUME TypeOK, FlowTypes, Placed, NEW a \in Attempts
  PROVE  (\/ BackendCreates(a) \/ BackendClaims(a) \/ BackendOpens(a)
         \/ BackendMisses(a) \/ BackendRefuses(a) \/ ReleaseAbandoned(a)
         \/ Quiesce(a) \/ CloseHandle(a) \/ Detach(a) \/ CreateRefused(a)
         \/ AbandonCreate(a) \/ Opened(a) \/ OpenRefused(a) \/ AbandonOpen(a)
         \/ Read(a) \/ Repair(a) \/ CloseUnprepared(a) \/ SetupDone(a)
         \/ SetupAborted(a) \/ SetupThrows(a) \/ Stored(a) \/ StoreFails(a)
         \/ Publish(a) \/ PublishVetoed(a) \/ PublishRefused(a) \/ RolledBack(a)
         \/ AbortCaller(a) \/ Dispose(a))
         => Onward
<1> USE DEF FlowTypes, Onward, Owner, Goto, Settled
<1>1. ASSUME BackendCreates(a) PROVE Onward
  BY <1>1 DEF BackendCreates, Claimed, Answer, asking, loading, disposal, fibers
<1>2. ASSUME BackendClaims(a) PROVE Onward
  BY <1>2 DEF BackendClaims, Claimed, Answer, asking, loading, disposal, fibers
<1>3. ASSUME BackendOpens(a) PROVE Onward
  BY <1>3 DEF BackendOpens, Answer, asking, loading, disposal, fibers
<1>4. ASSUME BackendMisses(a) PROVE Onward
  BY <1>4 DEF BackendMisses, Answer, asking, loading, disposal, fibers
<1>5. ASSUME BackendRefuses(a) PROVE Onward
  BY <1>5 DEF BackendRefuses, Answer, asking, loading, disposal, fibers
<1>6. ASSUME ReleaseAbandoned(a) PROVE Onward
  BY <1>6 DEF ReleaseAbandoned, Answer, asking, loading, disposal, fibers
<1>7. ASSUME Quiesce(a) PROVE Onward
  BY <1>7 DEF Quiesce, asking, loading, fibers
<1>8. ASSUME CloseHandle(a) PROVE Onward
  BY <1>8 DEF CloseHandle, asking, loading, fibers
<1>9. ASSUME Detach(a) PROVE Onward
  BY <1>9 DEF Detach, Without, asking, loading, fibers
<1>10. ASSUME CreateRefused(a) PROVE Onward
  BY <1>10 DEF CreateRefused, asking, loading, disposal, fibers
<1>11. ASSUME AbandonCreate(a) PROVE Onward
  BY <1>11 DEF AbandonCreate, asking, disposal, fibers
<1>12. ASSUME Opened(a) PROVE Onward
  BY <1>12 DEF Opened, asking, disposal, fibers
<1>13. ASSUME OpenRefused(a) PROVE Onward
  BY <1>13, OpenRefusedEffect DEF OpenRefused, Unfollow, IsActive, disposal, fibers
<1>14. ASSUME AbandonOpen(a) PROVE Onward
  BY <1>14 DEF AbandonOpen, Fused, Unfollow, asking, disposal, fibers, Torn
<1>15. ASSUME Read(a) PROVE Onward
  BY <1>15 DEF Read, Fused, Unfollow, asking, disposal, fibers, Torn
<1>16. ASSUME Repair(a) PROVE Onward
  BY <1>16 DEF Repair, Unfollow, asking, disposal, fibers
<1>17. ASSUME CloseUnprepared(a) PROVE Onward
  BY <1>17 DEF CloseUnprepared, asking, disposal, fibers
<1>18. ASSUME SetupDone(a) PROVE Onward
  BY <1>18 DEF SetupDone, asking, loading, disposal, fibers
<1>19. ASSUME SetupAborted(a) PROVE Onward
  <2>1. pc[a] \in {"setup", "storing", "publishing"} /\ Roll(a)
    BY <1>19 DEF SetupAborted
  <2>2. QED BY <1>19, <2>1, RollEffect DEF SetupAborted, asking, loading, fibers
<1>20. ASSUME SetupThrows(a) PROVE Onward
  <2>1. pc[a] \in {"setup", "storing", "publishing"} /\ Roll(a)
    BY <1>20 DEF SetupThrows
  <2>2. QED BY <1>20, <2>1, RollEffect DEF SetupThrows, asking, loading, fibers
<1>21. ASSUME Stored(a) PROVE Onward
  BY <1>21 DEF Stored, loading, disposal, fibers
<1>22. ASSUME StoreFails(a) PROVE Onward
  <2>1. pc[a] \in {"setup", "storing", "publishing"} /\ Roll(a)
    BY <1>22 DEF StoreFails
  <2>2. QED BY <1>22, <2>1, RollEffect DEF StoreFails, asking, loading, fibers
<1>23. ASSUME Publish(a) PROVE Onward
  BY <1>23 DEF Publish, Enter, Settle, asking, loading, disposal, fibers
<1>24. ASSUME PublishVetoed(a) PROVE Onward
  <2>1. pc[a] \in {"setup", "storing", "publishing"} /\ Roll(a)
    BY <1>24 DEF PublishVetoed
  <2>2. QED BY <1>24, <2>1, RollEffect DEF PublishVetoed, Enter, asking, loading,
  fibers
<1>25. ASSUME PublishRefused(a) PROVE Onward
  <2>1. pc[a] \in {"setup", "storing", "publishing"} /\ Roll(a)
    BY <1>25 DEF PublishRefused
  <2>2. QED BY <1>25, <2>1, RollEffect DEF PublishRefused, asking, loading, fibers
<1>26. ASSUME RolledBack(a) PROVE Onward
  BY <1>26 DEF RolledBack, Settle, asking, loading, disposal, fibers
<1>27. ASSUME AbortCaller(a) PROVE Onward
  BY <1>27 DEF AbortCaller, loading, fibers, TypeOK, Kinds
<1>28. ASSUME Dispose(a) PROVE Onward
  BY <1>28 DEF Dispose, BeginTeardown, asking, loading, fibers
<1>29. QED BY <1>1, <1>2, <1>3, <1>4, <1>5, <1>6, <1>7, <1>8, <1>9, <1>10, <1>11,
<1>12, <1>13, <1>14, <1>15, <1>16, <1>17, <1>18, <1>19, <1>20, <1>21, <1>22, <1>23,
<1>24, <1>25, <1>26, <1>27, <1>28

(* Every step keeps what the unloads wait for.                               *)
LEMMA UnloadStep ==
  ASSUME TypeOK, FlowTypes, Placed, Holding, OwnerSide, LoopSide, [Next]_vars
  PROVE  OwnerSide' /\ LoopSide'
<1> USE LifecycleAssumption
<1>1. CASE \E a \in Attempts : Called(a)
  <2>1. PICK a \in Attempts : Called(a)
    BY <1>1
  <2>2. /\ pc[a] = "idle" /\ pc' = [pc EXCEPT ![a] = pc'[a]] /\ ~Over(Loop)
        /\ \A b \in Attempts : b # a => call'[b] = call[b]
        /\ UNCHANGED <<disposal, fibers>>
    BY <2>1 DEF Called, Create, CreateAgent, Resume, Restore, Ask, Goto, IsActive, Torn, Over,
                FlowTypes
  <2>3. a \notin prepared /\ a \notin byOwner
    BY <2>2 DEF Placed, Stage, Within, FlowTypes
  <2>4. \A b \in prepared : Owner(b)' = Owner(b)
    BY <2>2, <2>3 DEF Owner, FlowTypes
  <2>5. OwnerSide'
    BY <2>2, <2>3, <2>4 DEF OwnerSide, Over, FlowTypes, disposal, fibers
  <2>6. LoopSide'
    BY <2>2 DEF LoopSide, Over, FlowTypes, disposal, fibers
  <2>7. QED BY <2>5, <2>6
<1>2. CASE \E a \in Attempts : Created(a) \/ Handover(a)
  <2>1. PICK a \in Attempts : Created(a) \/ Handover(a)
    BY <1>2
  <2>2. /\ UNCHANGED <<call, teardown, byOwner, fibers>>
        /\ pc[a] \in {"creating", "handover"} /\ Prepare(a)
    BY <2>1 DEF Created, Handover, asking
  <2>3. CASE MayPrepare(a)
    <3>1. /\ prepared' = prepared \cup {a} /\ ~Over(Owner(a)) /\ ~Over(Loop)
      BY <2>2, <2>3 DEF Prepare, MayPrepare, IsActive, Over
    <3>2. OwnerSide'
      BY <2>2, <3>1 DEF OwnerSide, Over, Owner, FlowTypes, fibers
    <3>3. fiber'[Loop] \notin {"draining", "gone"}
      BY <2>2, <3>1 DEF Over, fibers
    <3>4. LoopSide'
      BY <3>3 DEF LoopSide, Over
    <3>5. QED BY <3>2, <3>4
  <2>4. CASE ~MayPrepare(a)
    <3>1. prepared' = prepared /\ pc' = [pc EXCEPT ![a] = "closing"]
      BY <2>2, <2>4 DEF Prepare, Goto
    <3>2. Onward
      BY <2>2, <3>1 DEF Onward, Owner, FlowTypes, fibers, Settled
    <3>3. QED BY <3>2, OnwardKeeps
  <2>5. QED BY <2>3, <2>4
<1>3. CASE \E f \in Fibers : BeginUnload(f)
  <2>1. PICK f \in Fibers : BeginUnload(f)
    BY <1>3
  <2>2. \A g \in Fibers :
          fiber'[g] = fiber[g] \/ (fiber[g] = "active" /\ fiber'[g] = "unloading")
    BY <2>1 DEF BeginUnload, FlowTypes
  <2>3. /\ call' = call /\ pc' = pc /\ joined' = joined
        /\ prepared' = prepared /\ byOwner' = byOwner /\ teardown' = teardown
    BY <2>1 DEF BeginUnload, asking, disposal
  <2>4. OwnerSide'
    BY <2>2, <2>3 DEF OwnerSide, Over, Owner, FlowTypes, disposal
  <2>5. LoopSide'
    BY <2>2, <2>3 DEF LoopSide, Over, FlowTypes, disposal
  <2>6. QED BY <2>4, <2>5
<1>4. CASE \E f \in Fibers : RunDisposers(f)
  <2>1. PICK f \in Fibers : RunDisposers(f)
    BY <1>4
  <2> DEFINE as    == IF f = Loop THEN Tracked ELSE Owned(f)
             fresh == {a \in as : teardown[a] = "none"}
  <2>2. /\ fiber[f] = "unloading" /\ fiber' = [fiber EXCEPT ![f] = "draining"]
        /\ joined' = [joined EXCEPT ![f] = Joins(f)]
        /\ UNCHANGED <<call, pc, prepared>>
        /\ byOwner' = byOwner \cup {a \in fresh : a \in Owned(f)}
        /\ teardown' = [a \in Attempts |-> IF a \in fresh THEN "quiescing" ELSE teardown[a]]
    BY <2>1 DEF RunDisposers, BeginTeardown, asking
  <2>3. /\ \A a \in Owned(f) : a \in as
        /\ \A a \in as : a \in prepared
        /\ \A a \in prepared : (Owner(a) = f /\ teardown[a] # "done") <=> a \in Owned(f)
    BY DEF Owned, Tracked
  <2>4. \A a \in byOwner : Owner(a) # f
    BY <2>2 DEF OwnerSide, Over
  <2>5. /\ \A a \in Attempts : teardown[a] # "none" => teardown'[a] = teardown[a]
        /\ \A a \in fresh : teardown'[a] # "none"
    BY <2>2, <2>3 DEF FlowTypes
  <2>6. \A g \in Fibers : g # f => fiber'[g] = fiber[g] /\ joined'[g] = joined[g]
    BY <2>2 DEF FlowTypes
  <2>7. fiber'[f] = "draining" /\ joined'[f] = Joins(f)
    BY <2>2 DEF FlowTypes
  <2>8. \A a \in fresh : a \in Owned(f) => a \in joined'[f].teardowns
    BY <2>7 DEF Joins, Fresh, Owned
  <2> HIDE DEF as, fresh
  <2>9. \A a \in prepared : Over(Owner(a))' => teardown'[a] # "none"
    <3> SUFFICES ASSUME NEW a \in prepared, fiber'[Owner(a)] \in {"draining", "gone"}
                 PROVE  teardown'[a] # "none"
      BY <2>2 DEF Over, Owner
    <3>1. CASE Owner(a) = f
      BY <3>1, <2>3, <2>5 DEF FlowTypes, fresh
    <3>2. CASE Owner(a) # f
      BY <3>2, <2>5, <2>6 DEF OwnerSide, Over, FlowTypes
    <3>3. QED BY <3>1, <3>2
  <2>10. \A a \in byOwner' : Over(Owner(a))' /\ a \in joined'[Owner(a)].teardowns
    <3> SUFFICES ASSUME NEW a \in byOwner'
                 PROVE  fiber'[Owner(a)] \in {"draining", "gone"} /\ a \in joined'[Owner(a)].teardowns
      BY <2>2 DEF Over, Owner
    <3>1. CASE a \in byOwner
      BY <3>1, <2>4, <2>6 DEF OwnerSide, Over, FlowTypes
    <3>2. CASE a \in fresh /\ a \in Owned(f)
      BY <3>2, <2>7, <2>8 DEF Owned
    <3>3. QED BY <2>2, <3>1, <3>2
  <2>11. \A g \in Fibers : fiber'[g] = "gone" =>
           \A a \in joined'[g].teardowns : teardown'[a] = "done"
    <3> SUFFICES ASSUME NEW g \in Fibers, fiber'[g] = "gone", NEW a \in joined'[g].teardowns
                 PROVE  teardown'[a] = "done"
      OBVIOUS
    <3>1. g # f
      BY <2>7
    <3>2. fiber[g] = "gone" /\ a \in joined[g].teardowns
      BY <3>1, <2>6
    <3>3. a \in Attempts /\ teardown[a] = "done"
      BY <3>2 DEF OwnerSide, FlowTypes
    <3>4. QED BY <3>3, <2>5
  <2>12. OwnerSide'
    BY <2>2, <2>9, <2>10, <2>11 DEF OwnerSide, Owner
  <2>13. LoopSide'
    <3>1. CASE f = Loop
      <4>1. joined'[Loop] = [teardowns |-> Tracked, startups |-> Startups]
        BY <3>1, <2>7 DEF Joins
      <4>2. \A a \in prepared : teardown'[a] # "none"
        BY <3>1, <2>5 DEF FlowTypes, as, fresh, Tracked
      <4>3. \A a \in prepared : a \in joined'[Loop].teardowns \/ teardown'[a] = "done"
        BY <4>1, <2>5 DEF FlowTypes, Tracked
      <4>4. \A a \in Attempts : call[a].kind \in Started =>
              pc[a] \in Settled \/ a \in joined'[Loop].startups
        BY <4>1 DEF Startups
      <4>5. fiber'[Loop] = "draining"
        BY <3>1, <2>7
      <4>6. QED BY <2>2, <4>2, <4>3, <4>4, <4>5 DEF LoopSide
    <3>2. CASE f # Loop
      <4>1. fiber'[Loop] = fiber[Loop] /\ joined'[Loop] = joined[Loop]
        BY <3>2, <2>6 DEF FlowTypes
      <4>2. QED BY <4>1, <2>2, <2>5 DEF LoopSide, Over, FlowTypes
    <3>3. QED BY <3>1, <3>2
  <2>14. QED BY <2>12, <2>13
<1>5. CASE \E f \in Fibers : Unloaded(f)
  <2>1. PICK f \in Fibers : Unloaded(f)
    BY <1>5
  <2>2. /\ fiber[f] = "draining" /\ fiber' = [fiber EXCEPT ![f] = "gone"]
        /\ \A a \in joined[f].teardowns : teardown[a] = "done"
        /\ \A a \in joined[f].startups : pc[a] \in Settled
        /\ UNCHANGED <<call, pc, disposal, joined>>
    BY <2>1 DEF Unloaded, asking
  <2>3. \A g \in Fibers : /\ fiber'[g] \in {"draining", "gone"} <=> Over(g)
                         /\ fiber'[g] = "gone" <=> fiber[g] = "gone" \/ g = f
    BY <2>2 DEF Over, FlowTypes
  <2>4. OwnerSide'
    BY <2>2, <2>3 DEF OwnerSide, Over, Owner, FlowTypes, disposal
  <2>5. LoopSide'
    BY <2>2, <2>3 DEF LoopSide, Over, FlowTypes, disposal
  <2>6. QED BY <2>4, <2>5
<1>6. CASE UNCHANGED vars
  BY <1>6 DEF OwnerSide, LoopSide, Over, Owner, vars, asking, disposal, fibers
<1>7. CASE Onward
  BY <1>7, OnwardKeeps
<1>8. QED
  BY <1>1, <1>2, <1>3, <1>4, <1>5, <1>6, <1>7, OnwardStep
     DEF Next, Advance, Continue, Wind, CreateSide, OpenSide, Choose, Unload

(* Only publication and detachment touch the registry, and only the former    *)
(* takes an attempt to "live".                                              *)
LEMMA QuietStep ==
  ASSUME TypeOK, Next,
         \A a \in Attempts : ~(Detach(a) \/ Publish(a) \/ PublishVetoed(a))
  PROVE  /\ registry' = registry
         /\ \A a \in Attempts : pc'[a] = "live" => pc[a] = "live"
<1> DEFINE Quiet == /\ registry' = registry
                    /\ \A c \in Attempts : pc'[c] = "live" => pc[c] = "live"
<1>0. pc \in [Attempts -> Pcs]
  BY DEF TypeOK
<1>1. ASSUME NEW a \in Attempts, NEW i \in Ids, NEW f \in Owners, Create(a, i, f) PROVE Quiet
  BY <1>0, <1>1 DEF Create, Ask, Goto, disposal, fibers
<1>2. ASSUME NEW a \in Attempts, NEW i \in Ids, NEW f \in Owners, CreateAgent(a, i, f, Signal(a)) PROVE Quiet
  BY <1>0, <1>2 DEF CreateAgent, Ask, Goto, disposal, fibers
<1>3. ASSUME NEW a \in Attempts, NEW i \in Ids, NEW f \in Owners, Resume(a, i, f, Signal(a)) PROVE Quiet
  BY <1>0, <1>3 DEF Resume, Ask, Goto, disposal, fibers
<1>4. ASSUME NEW a \in Attempts, NEW i \in Ids, Restore(a, i) PROVE Quiet
  BY <1>0, <1>4 DEF Restore, Ask, Goto, disposal, fibers
<1>5. ASSUME NEW a \in Attempts, BackendCreates(a) PROVE Quiet
  BY <1>0, <1>5 DEF BackendCreates, Claimed, Answer, asking, loading, disposal, fibers
<1>6. ASSUME NEW a \in Attempts, BackendClaims(a) PROVE Quiet
  BY <1>0, <1>6 DEF BackendClaims, Claimed, Answer, asking, loading, disposal, fibers
<1>7. ASSUME NEW a \in Attempts, BackendOpens(a) PROVE Quiet
  BY <1>0, <1>7 DEF BackendOpens, Answer, asking, loading, disposal, fibers
<1>8. ASSUME NEW a \in Attempts, BackendMisses(a) PROVE Quiet
  BY <1>0, <1>8 DEF BackendMisses, Answer, asking, loading, disposal, fibers
<1>9. ASSUME NEW a \in Attempts, BackendRefuses(a) PROVE Quiet
  BY <1>0, <1>9 DEF BackendRefuses, Answer, asking, loading, disposal, fibers
<1>10. ASSUME NEW a \in Attempts, ReleaseAbandoned(a) PROVE Quiet
  BY <1>0, <1>10 DEF ReleaseAbandoned, Answer, asking, loading, disposal, fibers
<1>11. ASSUME NEW a \in Attempts, Quiesce(a) PROVE Quiet
  BY <1>0, <1>11 DEF Quiesce, asking, loading, fibers
<1>12. ASSUME NEW a \in Attempts, CloseHandle(a) PROVE Quiet
  BY <1>0, <1>12 DEF CloseHandle, asking, loading, fibers
<1>13. ASSUME NEW a \in Attempts, Created(a) PROVE Quiet
  BY <1>0, <1>13 DEF Created, Prepare, asking, loading, fibers, Goto, Owner
<1>14. ASSUME NEW a \in Attempts, CreateRefused(a) PROVE Quiet
  BY <1>0, <1>14 DEF CreateRefused, Goto, asking, loading, disposal, fibers
<1>15. ASSUME NEW a \in Attempts, AbandonCreate(a) PROVE Quiet
  BY <1>0, <1>15 DEF AbandonCreate, Goto, asking, disposal, fibers
<1>16. ASSUME NEW a \in Attempts, Opened(a) PROVE Quiet
  BY <1>0, <1>16 DEF Opened, Goto, asking, disposal, fibers
<1>17. ASSUME NEW a \in Attempts, OpenRefused(a) PROVE Quiet
  BY <1>0, <1>17 DEF OpenRefused, Unfollow, Goto, asking, disposal, fibers
<1>18. ASSUME NEW a \in Attempts, AbandonOpen(a) PROVE Quiet
  BY <1>0, <1>18 DEF AbandonOpen, Goto, Unfollow, asking, disposal, fibers
<1>19. ASSUME NEW a \in Attempts, Read(a) PROVE Quiet
  BY <1>0, <1>19 DEF Read, Goto, Unfollow, asking, disposal, fibers
<1>20. ASSUME NEW a \in Attempts, Repair(a) PROVE Quiet
  BY <1>0, <1>20 DEF Repair, Goto, Unfollow, asking, disposal, fibers
<1>21. ASSUME NEW a \in Attempts, Handover(a) PROVE Quiet
  BY <1>0, <1>21 DEF Handover, PassHandle, Prepare, asking, fibers, Goto, Owner
<1>22. ASSUME NEW a \in Attempts, CloseUnprepared(a) PROVE Quiet
  BY <1>0, <1>22 DEF CloseUnprepared, Goto, asking, disposal, fibers
<1>23. ASSUME NEW a \in Attempts, SetupDone(a) PROVE Quiet
  BY <1>0, <1>23 DEF SetupDone, Goto, asking, loading, disposal, fibers
<1>24. ASSUME NEW a \in Attempts, SetupAborted(a) PROVE Quiet
  BY <1>0, <1>24 DEF SetupAborted, Roll, asking, loading, fibers, Goto, Settle
<1>25. ASSUME NEW a \in Attempts, SetupThrows(a) PROVE Quiet
  BY <1>0, <1>25 DEF SetupThrows, Roll, asking, loading, fibers, Goto, Settle
<1>26. ASSUME NEW a \in Attempts, Stored(a) PROVE Quiet
  BY <1>0, <1>26 DEF Stored, Goto, loading, disposal, fibers
<1>27. ASSUME NEW a \in Attempts, StoreFails(a) PROVE Quiet
  BY <1>0, <1>27 DEF StoreFails, Roll, asking, loading, fibers, Goto, Settle
<1>28. ASSUME NEW a \in Attempts, PublishRefused(a) PROVE Quiet
  BY <1>0, <1>28 DEF PublishRefused, Roll, asking, loading, fibers, Goto, Settle
<1>29. ASSUME NEW a \in Attempts, RolledBack(a) PROVE Quiet
  BY <1>0, <1>29 DEF RolledBack, Settle, asking, loading, disposal, fibers, Goto
<1>30. ASSUME NEW a \in Attempts, AbortCaller(a) PROVE Quiet
  BY <1>0, <1>30 DEF AbortCaller, loading, fibers
<1>31. ASSUME NEW a \in Attempts, Dispose(a) PROVE Quiet
  BY <1>0, <1>31 DEF Dispose, asking, loading, fibers
<1>32. ASSUME NEW f \in Fibers, BeginUnload(f) PROVE Quiet
  BY <1>32 DEF BeginUnload, asking, disposal
<1>33. ASSUME NEW f \in Fibers, RunDisposers(f) PROVE Quiet
  BY <1>33 DEF RunDisposers, asking, disposal
<1>34. ASSUME NEW f \in Fibers, Unloaded(f) PROVE Quiet
  BY <1>34 DEF Unloaded, asking, disposal
<1>35. QED BY <1>1, <1>2, <1>3, <1>4, <1>5, <1>6, <1>7, <1>8, <1>9, <1>10, <1>11,
<1>12, <1>13, <1>14, <1>15, <1>16, <1>17, <1>18, <1>19, <1>20, <1>21, <1>22, <1>23,
<1>24, <1>25, <1>26, <1>27, <1>28, <1>29, <1>30, <1>31, <1>32, <1>33, <1>34 DEF Next,
Advance, Continue, Wind, CreateSide, OpenSide, Choose, Called, Unload

-----------------------------------------------------------------------------
(* What the flow of control needs of the types.                             *)
LEMMA TypesGive == ASSUME TypeOK PROVE FlowTypes
<1>1. Loop \in Fibers /\ DOMAIN call = Attempts
  BY DEF TypeOK, Fibers
<1>2. \A a \in Attempts : Owner(a) \in Fibers /\ Id(a) \in Ids
  BY DEF TypeOK, Owner, Id
<1>3. \A f \in Fibers : /\ joined[f].teardowns \subseteq Attempts
                        /\ joined[f].startups \subseteq Attempts
  BY DEF TypeOK
<1>4. QED BY <1>1, <1>2, <1>3 DEF TypeOK, FlowTypes

(* The invariant holds before any attempt.                                  *)
LEMMA InitIInv == Init => IInv
<1> SUFFICES ASSUME Init PROVE IInv
  OBVIOUS
<1> USE LifecycleAssumption DEF Init
<1>1. NoCall \in [kind : Kinds, id : Ids, owner : Fibers, signal : {"none", "quiet", "fired"}]
  BY DEF NoCall, Kinds, Fibers
<1>2. TypeOK
  BY <1>1 DEF TypeOK, Pcs, Handles
<1>3. Placed /\ Holding /\ SignalsFused /\ Entered
  BY DEF Placed, Stage, Within, Holding, Held, SignalsFused, Fusing, Entered, NoCall
<1>4. OwnerSide /\ LoopSide
  BY DEF OwnerSide, LoopSide, Over, Fibers
<1>5. QED BY <1>2, <1>3, <1>4 DEF IInv

(* Every step keeps the invariant.                                          *)
LEMMA NextIInv == IInv /\ [Next]_vars => IInv'
<1> SUFFICES ASSUME IInv, [Next]_vars PROVE IInv'
  OBVIOUS
<1>1. TypeOK /\ Placed /\ Holding /\ SignalsFused /\ Entered /\ OwnerSide /\ LoopSide
  BY DEF IInv
<1>2. FlowTypes
  BY <1>1, TypesGive
<1>3. TypeOK'
  BY <1>1, TypeStep
<1>4. Placed' /\ Holding'
  BY <1>1, <1>2, PlacedStep, HoldingStep
<1>5. SignalsFused' /\ Entered'
  BY <1>1, <1>2, FusedStep, EnteredStep
<1>6. OwnerSide' /\ LoopSide'
  BY <1>1, <1>2, UnloadStep
<1>7. QED BY <1>3, <1>4, <1>5, <1>6 DEF IInv

(* The inductive invariant holds in every execution.                        *)
THEOREM IInvHolds == Spec => []IInv
BY InitIInv, NextIInv, PTL DEF Spec

(* Every variable keeps its type in every execution.                        *)
THEOREM TypeCorrect == Spec => []TypeOK
<1>1. IInv => TypeOK
  BY DEF IInv
<1>2. QED BY <1>1, IInvHolds, PTL

(* A registered agent writes through an open handle until its own disposal  *)
(* has closed it.                                                           *)
THEOREM LiveOwns == Spec => []LiveOwnsItsLog
<1>1. IInv => LiveOwnsItsLog
  <2> SUFFICES ASSUME IInv, NEW i \in Ids, registry[i] # Nobody
               PROVE  \/ handle[registry[i]] = "open"
                      \/ teardown[registry[i]] = "detaching" /\ handle[registry[i]] = "closed"
    BY DEF LiveOwnsItsLog
  <2> DEFINE a == registry[i]
  <2>1. a \in Attempts /\ a \in prepared /\ teardown[a] # "done"
    BY DEF IInv, Entered, TypeOK
  <2>2. teardown[a] \in {"none", "quiescing", "closing", "detaching"}
    BY <2>1 DEF IInv, TypeOK
  <2>3. QED BY <2>1, <2>2 DEF IInv, Holding, Held
<1>2. QED BY <1>1, IInvHolds, PTL

(* An attempt that failed has given back its write ownership and left no    *)
(* entry.                                                                   *)
THEOREM FailureReleased == Spec => []FailureReleases
<1>1. IInv => FailureReleases
  <2> SUFFICES ASSUME IInv, NEW a \in Attempts, pc[a] = "failed", a \notin abandoned,
                      teardown[a] \in {"none", "done"}
               PROVE  /\ handle[a] \notin {"claimed", "open"}
                      /\ \A i \in Ids : registry[i] # a
    BY DEF FailureReleases
  <2>1. CASE a \in prepared
    <3>1. teardown[a] = "done"
      BY <2>1 DEF IInv, Placed, Stage
    <3>2. QED BY <2>1, <3>1, LifecycleAssumption DEF IInv, Holding, Held, Entered
  <2>2. CASE a \notin prepared
    BY <2>2, LifecycleAssumption DEF IInv, Holding, Held, Entered
  <2>3. QED BY <2>1, <2>2
<1>2. QED BY <1>1, IInvHolds, PTL

(* Once an owner has unloaded, an agent of its own is being disposed of by   *)
(* something that began before.                                             *)
THEOREM OwnerLeaves == Spec => []OwnerLeavesNothing
<1>1. IInv => OwnerLeavesNothing
  <2> SUFFICES ASSUME IInv, NEW f \in Owners, fiber[f] = "gone", NEW a \in Owned(f)
               PROVE  teardown[a] # "none" /\ a \notin byOwner
    BY DEF OwnerLeavesNothing
  <2>1. a \in prepared /\ Owner(a) = f /\ teardown[a] # "done" /\ f \in Fibers
    BY DEF Owned, Tracked, Fibers
  <2>2. QED BY <2>1 DEF IInv, OwnerSide, Over
<1>2. QED BY <1>1, IInvHolds, PTL

(* Once the loop has unloaded nothing it tracked is registered, tearing      *)
(* down or holding a handle.                                                *)
THEOREM LoopLeaves == Spec => []LoopLeavesNothing
<1>1. IInv => LoopLeavesNothing
  <2> SUFFICES ASSUME IInv, fiber[Loop] = "gone"
               PROVE  /\ \A i \in Ids : registry[i] = Nobody
                      /\ Tracked = {}
                      /\ \A a \in Attempts : (call[a].kind # "plain" /\ a \notin abandoned) =>
                           handle[a] \notin {"claimed", "open"}
    BY DEF LoopLeavesNothing
  <2>1. \A a \in prepared : teardown[a] = "done"
    BY DEF IInv, LoopSide, OwnerSide, Over, Fibers
  <2>2. Tracked = {}
    BY <2>1 DEF Tracked
  <2>3. \A i \in Ids : registry[i] = Nobody
    BY <2>1 DEF IInv, Entered
  <2>4. ASSUME NEW a \in Attempts, call[a].kind # "plain", a \notin abandoned
        PROVE  handle[a] \notin {"claimed", "open"}
    <3>1. CASE pc[a] = "idle"
      BY <3>1 DEF IInv, Holding, Held
    <3>2. CASE pc[a] # "idle"
      <4>1. call[a].kind \in Started
        BY <2>4, <3>2 DEF IInv, Holding, Held, TypeOK, Kinds, Started
      <4>2. pc[a] \in Settled
        BY <4>1 DEF IInv, LoopSide, Over
      <4>3. CASE a \in prepared
        BY <4>3, <2>1 DEF IInv, Holding, Held
      <4>4. CASE a \notin prepared
        BY <4>2, <4>4, <2>4 DEF IInv, Placed, Stage, Within, Holding, Held, Settled
      <4>5. QED BY <4>3, <4>4
    <3>3. QED BY <3>1, <3>2
  <2>5. QED BY <2>2, <2>3, <2>4
<1>2. QED BY <1>1, IInvHolds, PTL

(* An unload that has ended leaves nothing of its own behind.               *)
THEOREM UnloadLeaves == Spec => []UnloadLeavesNothing
BY OwnerLeaves, LoopLeaves, PTL DEF UnloadLeavesNothing

(* No agent is published after its caller aborted or after its owner or the  *)
(* loop began to tear down.                                                 *)
THEOREM NeverLate == Spec => NoLatePublication
<1>1. IInv /\ [Next]_vars =>
        [\A a \in Attempts : (pc[a] # "live" /\ pc'[a] = "live") =>
           /\ call[a].signal # "fired"
           /\ fiber[Owner(a)] \in {"active", "unloading"} /\ ~Torn]_vars
  <2> SUFFICES ASSUME IInv, Next, NEW a \in Attempts, pc[a] # "live", pc'[a] = "live"
               PROVE  /\ call[a].signal # "fired"
                      /\ fiber[Owner(a)] \in {"active", "unloading"} /\ ~Torn
    OBVIOUS
  <2>1. pc \in [Attempts -> Pcs]
    BY DEF IInv, TypeOK
  <2>2. Publish(a)
    <3>1. PICK b \in Attempts : Detach(b) \/ Publish(b) \/ PublishVetoed(b)
      BY QuietStep DEF IInv
    <3>2. ~Detach(b)
      BY DEF Detach
    <3>3. ~PublishVetoed(b)
      BY <2>1 DEF PublishVetoed, Roll, Settle, Goto
    <3>4. Publish(b) /\ b = a
      BY <3>1, <3>2, <3>3, <2>1 DEF Publish, Settle, Goto
    <3>5. QED BY <3>4
  <2>3. a \in prepared /\ a \notin aborted
    BY <2>2 DEF Publish, IInv, Placed, Stage, Within
  <2>4. teardown[a] = "none" /\ call[a].signal # "fired"
    BY <2>3 DEF IInv, SignalsFused, Fusing
  <2>5. ~Over(Owner(a)) /\ ~Over(Loop)
    BY <2>3, <2>4 DEF IInv, OwnerSide, LoopSide
  <2>6. Owner(a) \in Fibers
    BY TypesGive DEF IInv, FlowTypes
  <2>7. QED BY <2>4, <2>5, <2>6 DEF Over, Torn, IInv, TypeOK
<1>2. QED BY <1>1, IInvHolds, PTL DEF Spec, NoLatePublication

(* An entry leaves the registry by the disposal of its own agent only.       *)
THEOREM OnlyOwnUnregisters == Spec => OnlyOwnTeardownUnregisters
<1>1. IInv /\ [Next]_vars =>
        [\A i \in Ids : (registry[i] # Nobody /\ registry'[i] # registry[i]) =>
           teardown[registry[i]] = "detaching" /\ teardown'[registry[i]] = "done"]_vars
  <2> SUFFICES ASSUME IInv, Next, NEW i \in Ids, registry[i] # Nobody, registry'[i] # registry[i]
               PROVE  teardown[registry[i]] = "detaching" /\ teardown'[registry[i]] = "done"
    OBVIOUS
  <2>1. /\ registry \in [Ids -> Attempts \cup {Nobody}]
        /\ teardown \in [Attempts -> {"none", "quiescing", "closing", "detaching", "done"}]
    BY DEF IInv, TypeOK
  <2>2. PICK a \in Attempts : Detach(a) \/ Publish(a) \/ PublishVetoed(a)
    BY QuietStep DEF IInv
  <2>3. Detach(a)
    BY <2>1, <2>2 DEF Publish, PublishVetoed, Enter
  <2>4. registry[i] = a
    BY <2>1, <2>3 DEF Detach, Without
  <2>5. QED BY <2>1, <2>3, <2>4 DEF Detach
<1>2. QED BY <1>1, IInvHolds, PTL DEF Spec, OnlyOwnTeardownUnregisters
=============================================================================
