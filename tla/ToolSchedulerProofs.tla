------------------------ MODULE ToolSchedulerProofs ------------------------
(***************************************************************************)
(* Proofs about ToolScheduler, for every number of calls, every pool and    *)
(* every set of concluding calls.                                           *)
(***************************************************************************)
EXTENDS ToolScheduler, FiniteSetTheorems, SequenceTheorems, TLAPS

Up == pc # "repaired"

(* Where the scheduler is, and how far it has come.                         *)
Order ==
  /\ committed <= started
  /\ pc = "classify" => committed = started
  /\ pc \in {"classify", "skip", "returned", "repaired"} => inFlight = {}
  /\ pc = "returned" => committed = NumCalls
  /\ pc = "skip" => started <= committed + 1
  /\ pc = "skip" /\ committed < started => at[started] = "planned"
  /\ pc = "prepare" => committed < started /\ at[started] = "preparing"
  /\ pc \in {"drain", "threw"} => failed
  /\ pc = "fill" /\ committed < started => committed + 1 \in inFlight
  /\ pc = "fill" /\ signal => group.aborted
  /\ inFlight \subseteq 1 .. started

(* The stage of a call, its slot and the pool agree.                        *)
Stage(c) ==
  /\ c > started => at[c] = "planned"
  /\ at[c] = "planned" /\ c <= started => pc \in {"skip", "returned", "drain", "threw"}
  /\ at[c] = "preparing" => c = started /\ pc \in {"prepare", "drain", "threw"}
  /\ outcome[c] # "none" <=> at[c] = "settled"
  /\ at[c] = "broken" => failed
  /\ Live(c) => c \in inFlight /\ pc # "threw"
  /\ c <= committed => at[c] \in {"settled", "planned"}
StagesAgree == \A c \in Calls : Stage(c)

(* The pool has room for the call that is prepared.                         *)
Pool == /\ IsFiniteSet(inFlight) /\ Cardinality(inFlight) <= MaxParallel
        /\ pc = "prepare" => Cardinality(inFlight) < MaxParallel

(* A call that was exclusive when it started is the only one of its group.  *)
InGroup == pc \in {"fill", "prepare", "started", "commit", "race"} \/ (pc = "drain" /\ inFlight # {})
Alone ==
  /\ Up => \A c \in history.alone : c <= started
  /\ InGroup =>
       /\ group.before <= committed /\ started <= group.last
       /\ pc \notin {"fill", "drain"} => group.before < started
       /\ group.mode = "exclusive" => group.last = group.before + 1
       /\ \A c \in inFlight : c > group.before
       /\ \A c \in history.alone : c > group.before => group.mode = "exclusive"
  /\ pc = "fill" /\ started = group.before =>
       (group.mode = "parallel" <=> started + 1 \in parallel)

(* The types of all but the log.                                            *)
FlowTypes ==
  /\ pc \in Suspensions \cup {"fill", "skip"} \cup Finals
  /\ group \in [mode : {"exclusive", "parallel"}, before : 0 .. NumCalls,
                 last : 0 .. NumCalls, aborted : BOOLEAN]
  /\ started \in 0 .. NumCalls /\ committed \in 0 .. NumCalls
  /\ at \in [Calls -> Stages] /\ outcome \in [Calls -> Outcomes]
  /\ inFlight \subseteq Calls
  /\ failed \in BOOLEAN /\ concluded \in BOOLEAN /\ signal \in BOOLEAN
  /\ parallel \subseteq Calls
  /\ mark \in [Calls -> Nat]
  /\ history \in [ran : SUBSET Calls, alone : SUBSET Calls, changes : 0 .. MaxReclassify]

-----------------------------------------------------------------------------

(* Every step keeps the types of the flow.                                  *)
LEMMA FlowStep ==
  ASSUME FlowTypes, Order, [Next]_vars
  PROVE  FlowTypes'
<1> USE SchedulerAssumption DEF FlowTypes, Calls, Suspensions, Finals, Stages,
   Outcomes
<1>1. ASSUME Abort
      PROVE  FlowTypes'
  BY <1>1 DEF Abort, local, store
<1>2. ASSUME Persist
      PROVE  FlowTypes'
  BY <1>2 DEF Persist, local
<1>3. ASSUME Classify
      PROVE  FlowTypes'
  BY <1>3 DEF Classify, LastOfGroup, store
<1>4. ASSUME StartCall
      PROVE  FlowTypes'
  <2>1. started + 1 \in Calls /\ started + 1 \in 0 .. NumCalls
    BY <1>4 DEF StartCall, CanStart
  <2> DEFINE n == IF started + 1 \in parallel THEN history.alone ELSE history.alone \cup {started + 1}
  <2>2. history' = [history EXCEPT !.alone = n] /\ n \subseteq Calls
    BY <1>4, <2>1 DEF StartCall
  <2> HIDE DEF n
  <2>3. history' \in [ran : SUBSET Calls, alone : SUBSET Calls, changes : 0 .. MaxReclassify]
    BY <2>2
  <2>4. QED BY <1>4, <2>1, <2>3 DEF StartCall
<1>5. ASSUME FillEnds
      PROVE  FlowTypes'
  BY <1>5 DEF FillEnds, CanStart, local, store, PoolHasRoom, StaysInGroup, Order
<1>6. ASSUME PrepareAllows
      PROVE  FlowTypes'
  BY <1>6 DEF PrepareAllows, store, Order
<1>7. ASSUME PrepareAnswers
      PROVE  FlowTypes'
  BY <1>7 DEF PrepareAnswers, Slot, local, store, Order, Codes
<1>8. ASSUME PrepareDiscarded
      PROVE  FlowTypes'
  BY <1>8 DEF PrepareDiscarded, local, store
<1>9. ASSUME AfterStart
      PROVE  FlowTypes'
  BY <1>9 DEF AfterStart, local, store
<1>10. ASSUME Commit
      PROVE  FlowTypes'
  BY <1>10 DEF Commit, NextSlot, FinalCodes, Concludes
<1>11. ASSUME CommitEnds
      PROVE  FlowTypes'
  BY <1>11 DEF CommitEnds, NextSlot, store
<1>12. ASSUME Race
      PROVE  FlowTypes'
  BY <1>12 DEF Race, Over, store
<1>13. ASSUME Throws
      PROVE  FlowTypes'
  BY <1>13 DEF Throws, CanStart, NextSlot, PoolHasRoom, StaysInGroup
<1>14. ASSUME Drain
      PROVE  FlowTypes'
  BY <1>14 DEF Drain, Drained, local, store, Over
<1>15. ASSUME Skip
      PROVE  FlowTypes'
  BY <1>15 DEF Skip, LastSkipped
<1>16. ASSUME Crash
      PROVE  FlowTypes'
  <2>1. /\ pc' = "repaired" /\ group' = NoGroup /\ started' = 0 /\ committed' = 0
        /\ at' = [c \in Calls |-> "planned"] /\ outcome' = [c \in Calls |-> "none"]
        /\ inFlight' = {} /\ failed' = FALSE /\ concluded' = FALSE /\ signal' = FALSE
        /\ mark' = [c \in Calls |-> 0] /\ parallel' = parallel /\ history' = history
    BY <1>16 DEF Crash
  <2>2. NoGroup \in [mode : {"exclusive", "parallel"}, before : 0 .. NumCalls,
                     last : 0 .. NumCalls, aborted : BOOLEAN]
    BY DEF NoGroup
  <2>3. 0 \in 0 .. NumCalls /\ pc' \in Finals /\ mark' \in [Calls -> Nat]
    BY <2>1
  <2>4. QED BY <2>1, <2>2, <2>3
<1>17. ASSUME Finished
      PROVE  FlowTypes'
  BY <1>17 DEF Finished, vars, local, store
<1>18. ASSUME NEW c \in Calls, Reclassify(c)
      PROVE  FlowTypes'
  <2>1. history.changes + 1 \in 0 .. MaxReclassify
    BY <1>18 DEF Reclassify
  <2> DEFINE n == history.changes + 1
  <2>2. history' = [history EXCEPT !.changes = n]
    BY <1>18 DEF Reclassify
  <2> HIDE DEF n
  <2>3. history' \in [ran : SUBSET Calls, alone : SUBSET Calls, changes : 0 .. MaxReclassify]
    BY <2>1, <2>2 DEF n
  <2>4. parallel' \subseteq Calls
    BY <1>18 DEF Reclassify
  <2>5. /\ pc' = pc /\ group' = group /\ started' = started /\ committed' = committed /\ at' = at
        /\ outcome' = outcome /\ inFlight' = inFlight /\ failed' = failed
        /\ concluded' = concluded /\ signal' = signal /\ mark' = mark
    BY <1>18 DEF Reclassify, local
  <2>6. QED BY <2>3, <2>4, <2>5
<1>19. ASSUME NEW c \in Calls, BodyStarts(c)
      PROVE  FlowTypes'
  BY <1>19 DEF BodyStarts, In, Checkpointed, local, store
<1>20. ASSUME NEW c \in Calls, NotRun(c)
      PROVE  FlowTypes'
  BY <1>20 DEF NotRun, In, Slot, local, store
<1>21. ASSUME NEW c \in Calls, BodySettles(c)
      PROVE  FlowTypes'
  BY <1>21 DEF BodySettles, In, Slot, local, store
<1>22. ASSUME NEW c \in Calls, DispatchRejects(c)
      PROVE  FlowTypes'
  BY <1>22 DEF DispatchRejects, In, store
<1>23. CASE UNCHANGED vars
  BY <1>23 DEF vars, local, store
<1>24. QED
  BY <1>1, <1>2, <1>3, <1>4, <1>5, <1>6, <1>7, <1>8, <1>9, <1>10, <1>11, <1>12,
     <1>13, <1>14, <1>15, <1>16, <1>17, <1>18, <1>19, <1>20, <1>21, <1>22, <1>23
     DEF Next, Scheduler, Dispatch

(* Every step keeps the scheduler in order.                                 *)
LEMMA OrderStep ==
  ASSUME FlowTypes, Order, StagesAgree, Alone, [Next]_vars
  PROVE  Order'
<1> USE SchedulerAssumption DEF Order, StagesAgree, Stage, FlowTypes, Calls, Live,
   Suspensions, Finals, Stages, Outcomes
<1>1. ASSUME Abort
      PROVE  Order'
  BY <1>1 DEF Abort, local, store
<1>2. ASSUME Persist
      PROVE  Order'
  BY <1>2 DEF Persist, local
<1>3. ASSUME Classify
      PROVE  Order'
  BY <1>3 DEF Classify, LastOfGroup, store
<1>4. ASSUME StartCall
      PROVE  Order'
  BY <1>4 DEF StartCall, CanStart, PoolHasRoom, StaysInGroup
<1>5. ASSUME FillEnds
      PROVE  Order'
  BY <1>5 DEF FillEnds, CanStart, local, store, PoolHasRoom, StaysInGroup
<1>6. ASSUME PrepareAllows
      PROVE  Order'
  BY <1>6 DEF PrepareAllows, store
<1>7. ASSUME PrepareAnswers
      PROVE  Order'
  BY <1>7 DEF PrepareAnswers, Slot, local, store
<1>8. ASSUME PrepareDiscarded
      PROVE  Order'
  BY <1>8 DEF PrepareDiscarded, local, store
<1>9. ASSUME AfterStart
      PROVE  Order'
  BY <1>9 DEF AfterStart, local, store
<1>10. ASSUME Commit
      PROVE  Order'
  BY <1>10 DEF Commit, NextSlot, FinalCodes
<1>11. ASSUME CommitEnds
      PROVE  Order'
  <2>1. pc = "commit" /\ committed < started => committed + 1 <= group.last /\ committed + 1 \in Calls
    BY DEF Alone, InGroup
  <2>2. committed < started => outcome[committed + 1] = "none"
    BY <1>11, <2>1 DEF CommitEnds, NextSlot
  <2>3. committed < started /\ ~failed => committed + 1 \in inFlight
    BY <1>11, <2>1, <2>2 DEF CommitEnds
  <2>4. QED BY <1>11, <2>3 DEF CommitEnds
<1>12. ASSUME Race
      PROVE  Order'
  BY <1>12 DEF Race, Over, store
<1>13. ASSUME Throws
      PROVE  Order'
  BY <1>13 DEF Throws, CanStart, NextSlot, PoolHasRoom, StaysInGroup
<1>14. ASSUME Drain
      PROVE  Order'
  BY <1>14 DEF Drain, Drained, local, store, Over
<1>15. ASSUME Skip
      PROVE  Order'
  BY <1>15 DEF Skip, LastSkipped
<1>16. ASSUME Crash
      PROVE  Order'
  BY <1>16 DEF Crash, NoGroup
<1>17. ASSUME Finished
      PROVE  Order'
  BY <1>17 DEF Finished, vars, local, store
<1>18. ASSUME NEW c \in Calls, Reclassify(c)
      PROVE  Order'
  BY <1>18 DEF Reclassify, local, store
<1>19. ASSUME NEW c \in Calls, BodyStarts(c)
      PROVE  Order'
  BY <1>19 DEF BodyStarts, In, Checkpointed, local, store
<1>20. ASSUME NEW c \in Calls, NotRun(c)
      PROVE  Order'
  BY <1>20 DEF NotRun, In, Slot, local, store
<1>21. ASSUME NEW c \in Calls, BodySettles(c)
      PROVE  Order'
  BY <1>21 DEF BodySettles, In, Slot, local, store
<1>22. ASSUME NEW c \in Calls, DispatchRejects(c)
      PROVE  Order'
  BY <1>22 DEF DispatchRejects, In, store
<1>23. CASE UNCHANGED vars
  BY <1>23 DEF vars, local, store
<1>24. QED
  BY <1>1, <1>2, <1>3, <1>4, <1>5, <1>6, <1>7, <1>8, <1>9, <1>10, <1>11, <1>12,
     <1>13, <1>14, <1>15, <1>16, <1>17, <1>18, <1>19, <1>20, <1>21, <1>22, <1>23
     DEF Next, Scheduler, Dispatch

(* Every step keeps the stages, slots and pool in agreement.                *)
LEMMA StageStep ==
  ASSUME FlowTypes, Order, StagesAgree, [Next]_vars
  PROVE  StagesAgree'
<1> USE SchedulerAssumption DEF Order, StagesAgree, Stage, FlowTypes, Calls, Live,
   Suspensions, Finals, Stages, Outcomes
<1>1. ASSUME Abort
      PROVE  StagesAgree'
  BY <1>1 DEF Abort, local, store
<1>2. ASSUME Persist
      PROVE  StagesAgree'
  BY <1>2 DEF Persist, local
<1>3. ASSUME Classify
      PROVE  StagesAgree'
  BY <1>3 DEF Classify, LastOfGroup, store
<1>4. ASSUME StartCall
      PROVE  StagesAgree'
  BY <1>4 DEF StartCall, CanStart, PoolHasRoom, StaysInGroup
<1>5. ASSUME FillEnds
      PROVE  StagesAgree'
  BY <1>5 DEF FillEnds, CanStart, local, store, PoolHasRoom, StaysInGroup
<1>6. ASSUME PrepareAllows
      PROVE  StagesAgree'
  BY <1>6 DEF PrepareAllows, store
<1>7. ASSUME PrepareAnswers
      PROVE  StagesAgree'
  BY <1>7 DEF PrepareAnswers, Slot, local, store
<1>8. ASSUME PrepareDiscarded
      PROVE  StagesAgree'
  BY <1>8 DEF PrepareDiscarded, local, store
<1>9. ASSUME AfterStart
      PROVE  StagesAgree'
  BY <1>9 DEF AfterStart, local, store
<1>10. ASSUME Commit
      PROVE  StagesAgree'
  BY <1>10 DEF Commit, NextSlot, FinalCodes
<1>11. ASSUME CommitEnds
      PROVE  StagesAgree'
  BY <1>11 DEF CommitEnds, NextSlot, store
<1>12. ASSUME Race
      PROVE  StagesAgree'
  BY <1>12 DEF Race, Over, store
<1>13. ASSUME Throws
      PROVE  StagesAgree'
  BY <1>13 DEF Throws, CanStart, NextSlot, PoolHasRoom, StaysInGroup
<1>14. ASSUME Drain
      PROVE  StagesAgree'
  BY <1>14 DEF Drain, Drained, local, store, Over
<1>15. ASSUME Skip
      PROVE  StagesAgree'
  BY <1>15 DEF Skip, LastSkipped
<1>16. ASSUME Crash
      PROVE  StagesAgree'
  BY <1>16 DEF Crash, NoGroup
<1>17. ASSUME Finished
      PROVE  StagesAgree'
  BY <1>17 DEF Finished, vars, local, store
<1>18. ASSUME NEW c \in Calls, Reclassify(c)
      PROVE  StagesAgree'
  BY <1>18 DEF Reclassify, local, store
<1>19. ASSUME NEW c \in Calls, BodyStarts(c)
      PROVE  StagesAgree'
  BY <1>19 DEF BodyStarts, In, Checkpointed, local, store
<1>20. ASSUME NEW c \in Calls, NotRun(c)
      PROVE  StagesAgree'
  BY <1>20 DEF NotRun, In, Slot, local, store
<1>21. ASSUME NEW c \in Calls, BodySettles(c)
      PROVE  StagesAgree'
  BY <1>21 DEF BodySettles, In, Slot, local, store
<1>22. ASSUME NEW c \in Calls, DispatchRejects(c)
      PROVE  StagesAgree'
  BY <1>22 DEF DispatchRejects, In, store
<1>23. CASE UNCHANGED vars
  BY <1>23 DEF vars, local, store
<1>24. QED
  BY <1>1, <1>2, <1>3, <1>4, <1>5, <1>6, <1>7, <1>8, <1>9, <1>10, <1>11, <1>12,
     <1>13, <1>14, <1>15, <1>16, <1>17, <1>18, <1>19, <1>20, <1>21, <1>22, <1>23
     DEF Next, Scheduler, Dispatch

(* Every step keeps the pool within its cap.                                *)
LEMMA PoolStep ==
  ASSUME FlowTypes, Pool, [Next]_vars
  PROVE  Pool'
<1> USE SchedulerAssumption DEF Pool, FlowTypes
<1>1. ASSUME Abort
      PROVE  Pool'
  BY <1>1, FS_EmptySet DEF Abort, local, store
<1>2. ASSUME Persist
      PROVE  Pool'
  BY <1>2, FS_EmptySet DEF Persist, local
<1>3. ASSUME Classify
      PROVE  Pool'
  BY <1>3, FS_EmptySet DEF Classify, LastOfGroup, store
<1>4. ASSUME StartCall
      PROVE  Pool'
  BY <1>4, FS_EmptySet DEF StartCall, CanStart, PoolHasRoom, StaysInGroup
<1>5. ASSUME FillEnds
      PROVE  Pool'
  BY <1>5, FS_EmptySet DEF FillEnds, CanStart, local, store, PoolHasRoom,
     StaysInGroup
<1>6. ASSUME PrepareAllows
      PROVE  Pool'
  <2>1. inFlight' = inFlight \cup {started} /\ pc' = "started" /\ pc = "prepare"
    BY <1>6 DEF PrepareAllows
  <2>2. IsFiniteSet(inFlight') /\ Cardinality(inFlight') <= Cardinality(inFlight) + 1
    <3>1. IsFiniteSet(inFlight)
      BY DEF Pool
    <3>2. /\ IsFiniteSet(inFlight \cup {started})
          /\ Cardinality(inFlight \cup {started}) =
               IF started \in inFlight THEN Cardinality(inFlight) ELSE Cardinality(inFlight) + 1
      BY <3>1, FS_AddElement
    <3>3. QED BY <2>1, <3>1, <3>2, FS_CardinalityType
  <2>3. QED BY <2>1, <2>2, FS_CardinalityType
<1>7. ASSUME PrepareAnswers
      PROVE  Pool'
  BY <1>7, FS_EmptySet DEF PrepareAnswers, Slot, local, store
<1>8. ASSUME PrepareDiscarded
      PROVE  Pool'
  BY <1>8, FS_EmptySet DEF PrepareDiscarded, local, store
<1>9. ASSUME AfterStart
      PROVE  Pool'
  BY <1>9, FS_EmptySet DEF AfterStart, local, store
<1>10. ASSUME Commit
      PROVE  Pool'
  BY <1>10, FS_EmptySet DEF Commit, NextSlot, FinalCodes
<1>11. ASSUME CommitEnds
      PROVE  Pool'
  BY <1>11, FS_EmptySet DEF CommitEnds, NextSlot, store
<1>12. ASSUME Race
      PROVE  Pool'
  <2>1. PICK c \in inFlight : inFlight' = inFlight \ {c}
    BY <1>12 DEF Race
  <2>2. IsFiniteSet(inFlight') /\ Cardinality(inFlight') <= Cardinality(inFlight)
    <3>1. IsFiniteSet(inFlight)
      BY DEF Pool
    <3>2. /\ IsFiniteSet(inFlight \ {c})
          /\ Cardinality(inFlight \ {c}) =
               IF c \in inFlight THEN Cardinality(inFlight) - 1 ELSE Cardinality(inFlight)
      BY <3>1, FS_RemoveElement
    <3>3. QED BY <2>1, <3>1, <3>2, FS_CardinalityType
  <2>3. pc' # "prepare"
    BY <1>12 DEF Race
  <2>4. QED BY <2>2, <2>3, FS_CardinalityType
<1>13. ASSUME Throws
      PROVE  Pool'
  BY <1>13, FS_EmptySet DEF Throws, CanStart, NextSlot, PoolHasRoom, StaysInGroup
<1>14. ASSUME Drain
      PROVE  Pool'
  BY <1>14, FS_EmptySet DEF Drain, Drained, local, store, Over
<1>15. ASSUME Skip
      PROVE  Pool'
  BY <1>15, FS_EmptySet DEF Skip, LastSkipped
<1>16. ASSUME Crash
      PROVE  Pool'
  BY <1>16, FS_EmptySet DEF Crash, NoGroup
<1>17. ASSUME Finished
      PROVE  Pool'
  BY <1>17, FS_EmptySet DEF Finished, Finals, vars, local, store
<1>18. ASSUME NEW c \in Calls, Reclassify(c)
      PROVE  Pool'
  BY <1>18, FS_EmptySet DEF Reclassify, local, store
<1>19. ASSUME NEW c \in Calls, BodyStarts(c)
      PROVE  Pool'
  BY <1>19, FS_EmptySet DEF BodyStarts, In, Checkpointed, local, store
<1>20. ASSUME NEW c \in Calls, NotRun(c)
      PROVE  Pool'
  BY <1>20, FS_EmptySet DEF NotRun, In, Slot, local, store
<1>21. ASSUME NEW c \in Calls, BodySettles(c)
      PROVE  Pool'
  BY <1>21, FS_EmptySet DEF BodySettles, In, Slot, local, store
<1>22. ASSUME NEW c \in Calls, DispatchRejects(c)
      PROVE  Pool'
  BY <1>22, FS_EmptySet DEF DispatchRejects, In, store
<1>23. CASE UNCHANGED vars
  BY <1>23 DEF vars, local, store
<1>24. QED
  BY <1>1, <1>2, <1>3, <1>4, <1>5, <1>6, <1>7, <1>8, <1>9, <1>10, <1>11, <1>12,
     <1>13, <1>14, <1>15, <1>16, <1>17, <1>18, <1>19, <1>20, <1>21, <1>22, <1>23
     DEF Next, Scheduler, Dispatch

(* Every step keeps an exclusive call alone in its group.                   *)
LEMMA AloneStep ==
  ASSUME FlowTypes, Order, StagesAgree, Alone, [Next]_vars
  PROVE  Alone'
<1> USE SchedulerAssumption DEF Order, Alone, InGroup, Up, FlowTypes, Calls,
   Suspensions, Finals, Stages, Outcomes
<1>1. ASSUME Abort
      PROVE  Alone'
  BY <1>1 DEF Abort, local, store
<1>2. ASSUME Persist
      PROVE  Alone'
  BY <1>2 DEF Persist, local
<1>3. ASSUME Classify
      PROVE  Alone'
  BY <1>3 DEF Classify, LastOfGroup, store
<1>4. ASSUME StartCall
      PROVE  Alone'
  BY <1>4 DEF StartCall, CanStart, PoolHasRoom, StaysInGroup, StagesAgree, Stage
<1>5. ASSUME FillEnds
      PROVE  Alone'
  <2>1. CASE inFlight # {}
    <3>1. PICK c \in inFlight : TRUE
      BY <2>1
    <3>2. c > group.before /\ c <= started
      BY <1>5, <3>1 DEF FillEnds
    <3>3. group.before < started
      BY <3>2
    <3>4. QED BY <1>5, <3>3 DEF FillEnds, local
  <2>2. CASE inFlight = {}
    BY <1>5, <2>2 DEF FillEnds, local
  <2>3. QED BY <2>1, <2>2
<1>6. ASSUME PrepareAllows
      PROVE  Alone'
  BY <1>6 DEF PrepareAllows, store, StagesAgree, Stage
<1>7. ASSUME PrepareAnswers
      PROVE  Alone'
  BY <1>7 DEF PrepareAnswers, Slot, local, store
<1>8. ASSUME PrepareDiscarded
      PROVE  Alone'
  BY <1>8 DEF PrepareDiscarded, local, store
<1>9. ASSUME AfterStart
      PROVE  Alone'
  BY <1>9 DEF AfterStart, local, store
<1>10. ASSUME Commit
      PROVE  Alone'
  BY <1>10 DEF Commit, NextSlot, FinalCodes
<1>11. ASSUME CommitEnds
      PROVE  Alone'
  <2>1. /\ group'.before = group.before /\ group'.last = group.last /\ group'.mode = group.mode
        /\ pc = "commit" /\ pc' \in {"drain", "fill"} /\ NextSlot = {}
        /\ UNCHANGED <<started, committed, inFlight, at, parallel, history>>
    BY <1>11 DEF CommitEnds
  <2>2. QED BY <2>1
<1>12. ASSUME Race
      PROVE  Alone'
  BY <1>12 DEF Race, Over, store
<1>13. ASSUME Throws
      PROVE  Alone'
  BY <1>13 DEF Throws, CanStart, NextSlot, PoolHasRoom, StaysInGroup
<1>14. ASSUME Drain
      PROVE  Alone'
  BY <1>14 DEF Drain, Drained, local, store, Over
<1>15. ASSUME Skip
      PROVE  Alone'
  <2>1. pc = "skip" /\ pc' \in {"skip", "returned"} /\ started' >= started /\ started' \in Nat
        /\ UNCHANGED <<history, inFlight, parallel>>
    BY <1>15 DEF Skip, LastSkipped
  <2>2. QED BY <2>1
<1>16. ASSUME Crash
      PROVE  Alone'
  BY <1>16 DEF Crash, NoGroup
<1>17. ASSUME Finished
      PROVE  Alone'
  BY <1>17 DEF Finished, vars, local, store
<1>18. ASSUME NEW c \in Calls, Reclassify(c)
      PROVE  Alone'
  BY <1>18 DEF Reclassify, local, store
<1>19. ASSUME NEW c \in Calls, BodyStarts(c)
      PROVE  Alone'
  BY <1>19 DEF BodyStarts, In, Checkpointed, local, store
<1>20. ASSUME NEW c \in Calls, NotRun(c)
      PROVE  Alone'
  BY <1>20 DEF NotRun, In, Slot, local, store
<1>21. ASSUME NEW c \in Calls, BodySettles(c)
      PROVE  Alone'
  BY <1>21 DEF BodySettles, In, Slot, local, store
<1>22. ASSUME NEW c \in Calls, DispatchRejects(c)
      PROVE  Alone'
  BY <1>22 DEF DispatchRejects, In, store
<1>23. CASE UNCHANGED vars
  BY <1>23 DEF vars, local, store
<1>24. QED
  BY <1>1, <1>2, <1>3, <1>4, <1>5, <1>6, <1>7, <1>8, <1>9, <1>10, <1>11, <1>12,
     <1>13, <1>14, <1>15, <1>16, <1>17, <1>18, <1>19, <1>20, <1>21, <1>22, <1>23
     DEF Next, Scheduler, Dispatch


-----------------------------------------------------------------------------
(* The log: its types, and how many events of a kind it holds.              *)
Events == [event : {"asked", "call", "result"}, call : Nat, code : Codes]
LogTypes == log \in Seq(Events) /\ durable \in 0 .. Len(log)
Total(s, kind) == Cardinality(Upto(s, kind, Len(s)))
Numbered(s) == \A i \in 1 .. Len(s) : s[i].event \in {"call", "result"} =>
                 s[i].call = Cardinality(Upto(s, s[i].event, i))

(* Every number of a result is some call's.                                 *)
Answers(s) == \A m \in 1 .. Total(s, "result") :
                \E j \in 1 .. Len(s) : IsResult(s[j]) /\ s[j].call = m

(* The prefix that survives, its results, and the calls it leaves open.     *)
Kept(s, d)    == SubSeq(s, 1, d)
Results(s, d) == Cardinality(Upto(s, "result", d))
Open(s, d)    == IF d = 0 THEN 0 ELSE NumCalls - Results(s, d)

(* t is s with the event e behind it.                                       *)
Grows(s, t, e) ==
  /\ Len(t) = Len(s) + 1
  /\ \A i \in 1 .. Len(s) : t[i] = s[i]
  /\ t[Len(s) + 1] = e

(* An append grows the log by its event.                                    *)
LEMMA AppendGrows ==
  ASSUME NEW s \in Seq(Events), NEW e \in Events
  PROVE  Grows(s, Append(s, e), e) /\ Append(s, e) \in Seq(Events)
BY AppendProperties, LenProperties DEF Grows

(* A part of the log is finite, and counts no more than a longer one.       *)
LEMMA UptoFinite ==
  ASSUME NEW s \in Seq(Events), NEW i \in Nat, NEW j \in Nat, i <= j, NEW kind
  PROVE  /\ IsFiniteSet(Upto(s, kind, i)) /\ Cardinality(Upto(s, kind, i)) \in Nat
         /\ Cardinality(Upto(s, kind, i)) <= Cardinality(Upto(s, kind, j))
<1>1. IsFiniteSet(1 .. j)
  BY FS_Interval
<1>2. Upto(s, kind, j) \in SUBSET (1 .. j)
  BY DEF Upto
<1>3. IsFiniteSet(Upto(s, kind, j))
  BY <1>1, <1>2, FS_Subset
<1>4. Upto(s, kind, i) \in SUBSET Upto(s, kind, j)
  BY DEF Upto
<1>5. IsFiniteSet(Upto(s, kind, i)) /\ Cardinality(Upto(s, kind, i)) <= Cardinality(Upto(s, kind, j))
  BY <1>3, <1>4, FS_Subset
<1>6. QED BY <1>5, FS_CardinalityType

(* Sequences that agree up to i count the same up to i.                     *)
LEMMA UptoAgrees ==
  ASSUME NEW s, NEW t, NEW i \in Nat, \A j \in 1 .. i : t[j] = s[j], NEW kind
  PROVE  Upto(t, kind, i) = Upto(s, kind, i)
BY DEF Upto

(* The next event counts for its kind.                                      *)
LEMMA UptoNext ==
  ASSUME NEW s \in Seq(Events), NEW i \in Nat, NEW kind
  PROVE  Cardinality(Upto(s, kind, i + 1)) =
           Cardinality(Upto(s, kind, i)) + (IF s[i + 1].event = kind THEN 1 ELSE 0)
<1> DEFINE before == Upto(s, kind, i)
<1>1. Upto(s, kind, i + 1) = IF s[i + 1].event = kind THEN before \cup {i + 1} ELSE before
  BY DEF Upto
<1>2. i + 1 \notin before
  BY DEF Upto
<1>3. IsFiniteSet(before) /\ Cardinality(before) \in Nat
  BY UptoFinite
<1> HIDE DEF before
<1>4. Cardinality(before \cup {i + 1}) = Cardinality(before) + 1
  BY <1>2, <1>3, FS_AddElement
<1>5. QED BY <1>1, <1>3, <1>4 DEF before

(* An added event counts for its kind, and leaves the counts before it.     *)
LEMMA GrowthCounts ==
  ASSUME NEW s \in Seq(Events), NEW t \in Seq(Events), NEW e \in Events, Grows(s, t, e), NEW kind
  PROVE  /\ \A i \in 0 .. Len(s) : Upto(t, kind, i) = Upto(s, kind, i)
         /\ Total(t, kind) = Total(s, kind) + (IF e.event = kind THEN 1 ELSE 0)
<1>1. Len(s) \in Nat
  BY LenProperties
<1>2. \A i \in 0 .. Len(s) : Upto(t, kind, i) = Upto(s, kind, i)
  BY <1>1, UptoAgrees DEF Grows
<1>3. Total(t, kind) = Cardinality(Upto(t, kind, Len(s))) + (IF t[Len(s) + 1].event = kind THEN 1 ELSE 0)
  BY <1>1, UptoNext DEF Grows, Total
<1>4. Upto(t, kind, Len(s)) = Upto(s, kind, Len(s))
  BY <1>1, <1>2
<1>5. QED BY <1>2, <1>3, <1>4 DEF Total, Grows

(* An event that carries the next number of its kind keeps the numbering.   *)
LEMMA GrowthNumbered ==
  ASSUME NEW s \in Seq(Events), NEW t \in Seq(Events), NEW e \in Events, Grows(s, t, e),
         Numbered(s), e.event \in {"call", "result"} => e.call = Total(s, e.event) + 1
  PROVE  Numbered(t)
<1>1. Len(s) \in Nat /\ Len(t) = Len(s) + 1
  BY LenProperties DEF Grows
<1> SUFFICES ASSUME NEW i \in 1 .. Len(t), t[i].event \in {"call", "result"}
             PROVE  t[i].call = Cardinality(Upto(t, t[i].event, i))
  BY DEF Numbered
<1>2. CASE i \in 1 .. Len(s)
  <2>1. t[i] = s[i]
    BY <1>2 DEF Grows
  <2>2. s[i].call = Cardinality(Upto(s, s[i].event, i))
    BY <1>2, <2>1 DEF Numbered
  <2> i \in Nat /\ \A j \in 1 .. i : t[j] = s[j]
    BY <1>1, <1>2 DEF Grows
  <2>3. \A kind : Upto(t, kind, i) = Upto(s, kind, i)
    BY DEF Upto
  <2>4. QED BY <2>1, <2>2, <2>3
<1>3. CASE i = Len(s) + 1
  <2>1. t[i] = e
    BY <1>3 DEF Grows
  <2>2. Total(t, e.event) = Total(s, e.event) + 1
    BY GrowthCounts
  <2>3. QED BY <1>1, <1>3, <2>1, <2>2 DEF Total
<1>4. QED BY <1>1, <1>2, <1>3

(* The results of a numbered log's first i events are 1 up to their number. *)
LEMMA PrefixAnswers ==
  ASSUME NEW s \in Seq(Events), Numbered(s), NEW i \in 0 .. Len(s),
         Answers(s)
  PROVE  \A m \in Nat : m \in 1 .. Cardinality(Upto(s, "result", i)) <=>
                          \E j \in 1 .. i : IsResult(s[j]) /\ s[j].call = m
<1> DEFINE k == Cardinality(Upto(s, "result", i))
<1>1. Len(s) \in Nat /\ i \in Nat
  BY LenProperties
<1>2. k \in Nat /\ Total(s, "result") \in Nat /\ k <= Total(s, "result")
  BY <1>1, UptoFinite DEF Total
<1>3. ASSUME NEW j \in 1 .. Len(s), IsResult(s[j])
      PROVE  s[j].call = Cardinality(Upto(s, "result", j)) /\ 1 <= s[j].call
  <2>1. s[j].call = Cardinality(Upto(s, "result", j))
    BY <1>3 DEF Numbered, IsResult
  <2>2. Cardinality(Upto(s, "result", (j - 1) + 1)) =
          Cardinality(Upto(s, "result", j - 1)) + (IF s[(j - 1) + 1].event = "result" THEN 1 ELSE 0)
    BY <1>1, UptoNext
  <2>3. Cardinality(Upto(s, "result", j - 1)) \in Nat /\ (j - 1) + 1 = j
    BY <1>1, UptoFinite
  <2>4. QED BY <1>3, <2>1, <2>2, <2>3 DEF IsResult
<1>4. ASSUME NEW j \in 1 .. i, IsResult(s[j])
      PROVE  s[j].call \in 1 .. k
  <2>1. Cardinality(Upto(s, "result", j)) \in Nat /\ Cardinality(Upto(s, "result", j)) <= k
    BY <1>1, UptoFinite
  <2>2. j \in 1 .. Len(s)
    BY <1>1
  <2>3. s[j].call = Cardinality(Upto(s, "result", j)) /\ 1 <= s[j].call
    BY <1>3, <1>4, <2>2
  <2>4. QED BY <1>2, <2>1, <2>3
<1>5. ASSUME NEW m \in 1 .. k
      PROVE  \E j \in 1 .. i : IsResult(s[j]) /\ s[j].call = m
  <2>1. m \in 1 .. Total(s, "result")
    BY <1>2, <1>5
  <2>2. PICK j \in 1 .. Len(s) : IsResult(s[j]) /\ s[j].call = m
    BY <2>1 DEF Answers
  <2>3. CASE j <= i
    BY <1>1, <2>2, <2>3
  <2>4. CASE j > i
    <3>1. m = Cardinality(Upto(s, "result", j))
      BY <1>3, <2>2
    <3>2. Cardinality(Upto(s, "result", i)) <= Cardinality(Upto(s, "result", j - 1))
      BY <1>1, <2>4, UptoFinite
    <3>3. Cardinality(Upto(s, "result", (j - 1) + 1)) =
            Cardinality(Upto(s, "result", j - 1)) + (IF s[(j - 1) + 1].event = "result" THEN 1 ELSE 0)
      BY <1>1, UptoNext
    <3>4. Cardinality(Upto(s, "result", j - 1)) \in Nat /\ (j - 1) + 1 = j
      BY <1>1, UptoFinite
    <3>5. QED BY <1>2, <2>2, <3>1, <3>2, <3>3, <3>4 DEF IsResult
  <2>5. QED BY <1>1, <2>3, <2>4
<1>6. QED BY <1>4, <1>5

(* The number of results of a prefix is a number of calls.                  *)
LEMMA ResultsType ==
  ASSUME NEW s \in Seq(Events), NEW d \in 0 .. Len(s), Total(s, "result") <= NumCalls
  PROVE  /\ Len(s) \in Nat /\ d \in Nat /\ NumCalls \in Nat
         /\ Results(s, d) \in 0 .. NumCalls /\ Open(s, d) \in Nat
         /\ IsFiniteSet(Upto(s, "result", d))
<1>1. Len(s) \in Nat /\ d \in Nat /\ d <= Len(s)
  BY LenProperties
<1>2. Results(s, d) \in Nat /\ Results(s, d) <= Total(s, "result") /\ Total(s, "result") \in Nat
      /\ IsFiniteSet(Upto(s, "result", d))
  BY <1>1, UptoFinite DEF Results, Total
<1>3. NumCalls \in Nat
  BY SchedulerAssumption
<1>4. QED BY <1>1, <1>2, <1>3 DEF Open

(* The calls a kept prefix leaves open are those after its last result.     *)
LEMMA OpenCalls ==
  ASSUME NEW s \in Seq(Events), Numbered(s), NEW d \in 0 .. Len(s), Answers(s),
         Total(s, "result") <= NumCalls
  PROVE  /\ Kept(s, d) \in Seq(Events) /\ Len(Kept(s, d)) = d
         /\ \A i \in 1 .. d : Kept(s, d)[i] = s[i]
         /\ Unanswered(Kept(s, d)) = IF d = 0 THEN {} ELSE Results(s, d) + 1 .. NumCalls
<1> DEFINE kept == Kept(s, d)
<1>1. Len(s) \in Nat /\ d \in Nat /\ NumCalls \in Nat /\ Results(s, d) \in Nat
  BY ResultsType
<1>2. kept \in Seq(Events) /\ Len(kept) = d /\ \A i \in 1 .. d : kept[i] = s[i]
  <2>1. \A i \in 1 .. d : s[i] \in Events
    BY <1>1, ElementOfSeq
  <2>2. QED BY <1>1, <2>1, SubSeqProperties DEF Kept
<1>3. \A m \in Nat : m \in 1 .. Results(s, d) <=> \E j \in 1 .. d : IsResult(s[j]) /\ s[j].call = m
  BY PrefixAnswers DEF Results
<1> HIDE DEF kept
<1>4. DOMAIN kept = 1 .. d
  BY <1>2, LenProperties
<1>5. \A e : e \in ToSet(kept) <=> \E i \in 1 .. d : e = kept[i]
  BY <1>4 DEF ToSet
<1>6. ASSUME NEW c \in Calls
      PROVE  (\A e \in ToSet(kept) : ~(IsResult(e) /\ e.call = c)) <=> c \notin 1 .. Results(s, d)
  <2>1. c \in Nat
    BY DEF Calls
  <2>2. (\E e \in ToSet(kept) : IsResult(e) /\ e.call = c) <=>
           \E j \in 1 .. d : IsResult(s[j]) /\ s[j].call = c
    BY <1>2, <1>5
  <2>3. QED BY <1>3, <2>1, <2>2
<1>7. kept = <<>> <=> d = 0
  BY <1>1, <1>2, EmptySeq
<1>8. Unanswered(kept) = {c \in Calls : d # 0 /\ c \notin 1 .. Results(s, d)}
  BY <1>6, <1>7 DEF Unanswered
<1>9. QED BY <1>1, <1>2, <1>8 DEF Calls, kept

(* The i-th of the numbers that follow k is k + i.                          *)
LEMMA NthFollows ==
  ASSUME NEW k \in Nat, NEW last \in Nat, NEW i \in 1 .. last - k
  PROVE  (CHOOSE c \in k + 1 .. last : Cardinality({x \in k + 1 .. last : x <= c}) = i) = k + i
<1>1. ASSUME NEW c \in k + 1 .. last
      PROVE  Cardinality({x \in k + 1 .. last : x <= c}) = c - k
  <2>1. {x \in k + 1 .. last : x <= c} = k + 1 .. c
    OBVIOUS
  <2>2. c \in Int /\ k + 1 \in Int /\ ~(k + 1 > c) /\ c - (k + 1) + 1 = c - k
    OBVIOUS
  <2>3. Cardinality(k + 1 .. c) = IF k + 1 > c THEN 0 ELSE c - (k + 1) + 1
    BY <2>2, FS_Interval
  <2>4. QED BY <2>1, <2>2, <2>3
<1>2. k + i \in k + 1 .. last /\ (k + i) - k = i
  OBVIOUS
<1>3. \A c \in k + 1 .. last : c - k = i => c = k + i
  OBVIOUS
<1>4. QED BY <1>1, <1>2, <1>3

(* Repair answers the open calls in order.                                  *)
LEMMA ClosersFollow ==
  ASSUME NEW s \in Seq(Events), Numbered(s), NEW d \in 0 .. Len(s), Answers(s),
         Total(s, "result") <= NumCalls
  PROVE  /\ \A i \in 1 .. Open(s, d) : Closers(Kept(s, d))[i] =
              ResultEvent(Results(s, d) + i, CloserCode(Kept(s, d), Results(s, d) + i))
         /\ Closers(Kept(s, d)) \in Seq(Events) /\ Len(Closers(Kept(s, d))) = Open(s, d)
<1> DEFINE kept == Kept(s, d)
           k == Results(s, d)
           n == Open(s, d)
           open == Unanswered(kept)
           nth(i) == CHOOSE c \in open : Cardinality({x \in open : x <= c}) = i
<1>1. Len(s) \in Nat /\ d \in Nat /\ NumCalls \in Nat /\ k \in 0 .. NumCalls /\ n \in Nat
  BY ResultsType
<1>2. open = IF d = 0 THEN {} ELSE k + 1 .. NumCalls
  BY OpenCalls
<1>3. n = IF d = 0 THEN 0 ELSE NumCalls - k
  BY DEF Open
<1>4. Closers(kept) = [i \in 1 .. Cardinality(open) |-> ResultEvent(nth(i), CloserCode(kept, nth(i)))]
  BY DEF Closers
<1> HIDE DEF kept, k, n, open
<1>5. Cardinality(open) = n
  <2>1. CASE d = 0
    BY <1>2, <1>3, <2>1, FS_EmptySet
  <2>2. CASE d # 0
    <3>1. k + 1 \in Int /\ NumCalls \in Int
      BY <1>1
    <3>2. Cardinality(k + 1 .. NumCalls) = IF k + 1 > NumCalls THEN 0 ELSE NumCalls - (k + 1) + 1
      BY <3>1, FS_Interval
    <3>3. QED BY <1>1, <1>2, <1>3, <2>2, <3>2
  <2>3. QED BY <2>1, <2>2
<1>6. ASSUME NEW i \in 1 .. n
      PROVE  nth(i) = k + i
  <2>1. d # 0 /\ open = k + 1 .. NumCalls /\ i \in 1 .. NumCalls - k /\ k \in Nat
    BY <1>1, <1>2, <1>3, <1>6
  <2>2. (CHOOSE c \in k + 1 .. NumCalls : Cardinality({x \in k + 1 .. NumCalls : x <= c}) = i) = k + i
    BY <1>1, <2>1, NthFollows
  <2>3. QED BY <2>1, <2>2
<1> HIDE DEF nth
<1>7. Closers(kept) = [i \in 1 .. n |-> ResultEvent(k + i, CloserCode(kept, k + i))]
  BY <1>4, <1>5, <1>6
<1>8. \A c \in Nat : ResultEvent(c, CloserCode(kept, c)) \in Events
  BY DEF ResultEvent, Event, Events, CloserCode, Codes, Outcomes
<1>9. \A i \in 1 .. n : ResultEvent(k + i, CloserCode(kept, k + i)) \in Events
  BY <1>1, <1>8
<1>10. Closers(kept) \in Seq(Events)
  BY <1>1, <1>7, <1>9, IsASeq
<1>11. Len(Closers(kept)) = n
  BY <1>1, <1>7, <1>10, LenProperties
<1>12. QED BY <1>7, <1>10, <1>11 DEF kept, k, n

(* What a restart finds: the kept events, then a result for each open call. *)
LEMMA RepairedLog ==
  ASSUME NEW s \in Seq(Events), Numbered(s), NEW d \in 0 .. Len(s), Answers(s),
         Total(s, "result") <= NumCalls,
         NEW t, t = Kept(s, d) \o Closers(Kept(s, d))
  PROVE  /\ t \in Seq(Events) /\ Len(t) = d + Open(s, d)
         /\ \A i \in 1 .. d : t[i] = s[i]
         /\ \A i \in 1 .. Open(s, d) : t[d + i] =
              ResultEvent(Results(s, d) + i, CloserCode(Kept(s, d), Results(s, d) + i))
<1> DEFINE kept == Kept(s, d)
           closers == Closers(kept)
<1>1. d \in Nat /\ Open(s, d) \in Nat
  BY ResultsType
<1>2. kept \in Seq(Events) /\ Len(kept) = d /\ \A i \in 1 .. d : kept[i] = s[i]
  BY OpenCalls
<1>3. /\ closers \in Seq(Events) /\ Len(closers) = Open(s, d)
      /\ \A i \in 1 .. Open(s, d) : closers[i] =
           ResultEvent(Results(s, d) + i, CloserCode(Kept(s, d), Results(s, d) + i))
  BY ClosersFollow
<1>4. t = kept \o closers
  OBVIOUS
<1> HIDE DEF kept, closers
<1>5. /\ t \in Seq(Events) /\ Len(t) = Len(kept) + Len(closers)
      /\ \A i \in 1 .. Len(kept) + Len(closers) :
           t[i] = IF i <= Len(kept) THEN kept[i] ELSE closers[i - Len(kept)]
  <2>1. kept \in Seq(Events) /\ closers \in Seq(Events)
    BY <1>2, <1>3
  <2>2. /\ kept \o closers \in Seq(Events) /\ Len(kept \o closers) = Len(kept) + Len(closers)
        /\ \A i \in 1 .. Len(kept) + Len(closers) :
             (kept \o closers)[i] = IF i <= Len(kept) THEN kept[i] ELSE closers[i - Len(kept)]
    BY <2>1, ConcatProperties
  <2>3. QED BY <1>4, <2>2
<1>6. \A i \in 1 .. d : t[i] = s[i]
  BY <1>1, <1>2, <1>3, <1>5
<1>7. \A i \in 1 .. Open(s, d) : d + i \in 1 .. d + Open(s, d) /\ ~(d + i <= d) /\ (d + i) - d = i
  BY <1>1
<1>8. \A i \in 1 .. Open(s, d) : t[d + i] = closers[i]
  BY <1>2, <1>3, <1>5, <1>7
<1>9. QED BY <1>2, <1>3, <1>5, <1>6, <1>8

(* The closers are counted on from the results of the kept prefix.          *)
LEMMA RepairedCounts ==
  ASSUME NEW s \in Seq(Events), Numbered(s), NEW d \in 0 .. Len(s), Answers(s),
         Total(s, "result") <= NumCalls,
         NEW t, t = Kept(s, d) \o Closers(Kept(s, d)),
         NEW i \in 0 .. Open(s, d)
  PROVE  Cardinality(Upto(t, "result", d + i)) = Results(s, d) + i
<1> DEFINE added == d + 1 .. d + i
           before == Upto(s, "result", d)
<1>1. d \in Nat /\ Open(s, d) \in Nat /\ i \in Nat /\ Results(s, d) \in Nat /\ IsFiniteSet(before)
  BY ResultsType
<1>2. \A j \in 1 .. d : t[j] = s[j]
  BY RepairedLog
<1>3. \A j \in 1 .. Open(s, d) : t[d + j].event = "result"
  <2>1. \A j \in 1 .. Open(s, d) : t[d + j] =
           ResultEvent(Results(s, d) + j, CloserCode(Kept(s, d), Results(s, d) + j))
    BY RepairedLog
  <2>2. \A c, code : ResultEvent(c, code).event = "result"
    BY DEF ResultEvent, Event
  <2>3. QED BY <2>1, <2>2
<1>4. ASSUME NEW j \in d + 1 .. d + i
      PROVE  t[j].event = "result"
  <2>1. j - d \in 1 .. Open(s, d) /\ d + (j - d) = j
    BY <1>1
  <2>2. QED BY <1>3, <2>1
<1>5. Upto(t, "result", d + i) = before \cup added
  <2>1. \A j : j \in 1 .. d + i <=> j \in 1 .. d \/ j \in added
    BY <1>1
  <2>2. \A j : j \in before <=> j \in 1 .. d /\ t[j].event = "result"
    BY <1>2 DEF Upto
  <2>3. \A j : j \in Upto(t, "result", d + i) <=> j \in 1 .. d + i /\ t[j].event = "result"
    BY DEF Upto
  <2>4. \A j \in added : t[j].event = "result"
    BY <1>4
  <2> HIDE DEF before, added
  <2>5. QED BY <2>1, <2>2, <2>3, <2>4
<1>6. before \cap added = {}
  BY <1>1 DEF Upto
<1>7. IsFiniteSet(added) /\ Cardinality(added) = i
  <2>1. d + 1 \in Int /\ d + i \in Int
    BY <1>1
  <2>2. IsFiniteSet(added) /\ Cardinality(added) = IF d + 1 > d + i THEN 0 ELSE (d + i) - (d + 1) + 1
    BY <2>1, FS_Interval
  <2>3. QED BY <1>1, <2>2
<1>8. Cardinality(before) = Results(s, d)
  BY DEF Results
<1> HIDE DEF before, added
<1>9. Cardinality(before \cup added) =
         Cardinality(before) + Cardinality(added) - Cardinality(before \cap added)
  BY <1>1, <1>7, FS_Union
<1>10. Cardinality(before \cap added) = 0
  BY <1>6, FS_EmptySet
<1>11. Cardinality(before \cup added) = Results(s, d) + i
  BY <1>1, <1>7, <1>8, <1>9, <1>10
<1>12. QED BY <1>5, <1>11

(* Behind the prefix there are closers only, and every call has a result.   *)
Closes(s, d, t) ==
  \A i \in 1 .. Len(t) : i > d => \E c \in Nat : t[i] = ResultEvent(c, CloserCode(Kept(s, d), c))
AllAnswered(t) == \A c \in Calls : \E i \in 1 .. Len(t) : IsResult(t[i]) /\ t[i].call = c

(* The repaired log is numbered and, unless empty, answers every call.      *)
LEMMA Repaired ==
  ASSUME NEW s \in Seq(Events), Numbered(s), NEW d \in 0 .. Len(s), Answers(s),
         Total(s, "result") <= NumCalls,
         NEW t, t = Kept(s, d) \o Closers(Kept(s, d))
  PROVE  /\ Numbered(t)
         /\ Len(t) # 0 => d # 0 /\ Total(t, "result") = NumCalls
         /\ Closes(s, d, t)
         /\ d # 0 => AllAnswered(t)
<1> DEFINE k == Results(s, d)
           n == Open(s, d)
<1>1. Len(s) \in Nat /\ d \in Nat /\ NumCalls \in Nat /\ k \in 0 .. NumCalls /\ n \in Nat
  BY ResultsType
<1>2. Len(t) = d + n /\ \A i \in 1 .. d : t[i] = s[i]
  BY RepairedLog
<1>3. \A i \in 1 .. n : t[d + i] = ResultEvent(k + i, CloserCode(Kept(s, d), k + i))
  BY RepairedLog
<1>4. \A i \in 0 .. n : Cardinality(Upto(t, "result", d + i)) = k + i
  BY RepairedCounts
<1>5. n = IF d = 0 THEN 0 ELSE NumCalls - k
  BY DEF Open
<1>6. \A m \in Nat : m \in 1 .. k <=> \E j \in 1 .. d : IsResult(s[j]) /\ s[j].call = m
  BY PrefixAnswers DEF Results
<1> HIDE DEF k, n
<1>7. Numbered(t)
  <2> SUFFICES ASSUME NEW i \in 1 .. Len(t), t[i].event \in {"call", "result"}
               PROVE  t[i].call = Cardinality(Upto(t, t[i].event, i))
    BY DEF Numbered
  <2>1. CASE i <= d
    <3>1. t[i] = s[i] /\ i \in 1 .. Len(s) /\ i \in Nat /\ \A j \in 1 .. i : t[j] = s[j]
      BY <1>1, <1>2, <2>1
    <3>2. \A kind : Upto(t, kind, i) = Upto(s, kind, i)
      BY <3>1 DEF Upto
    <3>3. s[i].call = Cardinality(Upto(s, s[i].event, i))
      BY <3>1 DEF Numbered
    <3>4. QED BY <3>1, <3>2, <3>3
  <2>2. CASE i > d
    <3> DEFINE j == i - d
    <3>1. j \in 1 .. n /\ d + j = i /\ j \in 0 .. n
      BY <1>1, <1>2, <2>2
    <3> HIDE DEF j
    <3>2. t[i] = ResultEvent(k + j, CloserCode(Kept(s, d), k + j))
      BY <1>3, <3>1
    <3>3. Cardinality(Upto(t, "result", i)) = k + j
      BY <1>4, <3>1
    <3>4. t[i].event = "result" /\ t[i].call = k + j
      BY <3>2 DEF ResultEvent, Event
    <3>5. QED BY <3>3, <3>4
  <2>3. QED BY <1>1, <1>2, <2>1, <2>2
<1>8. Len(t) # 0 => d # 0 /\ Total(t, "result") = NumCalls
  <2>1. n \in 0 .. n
    BY <1>1
  <2>2. Total(t, "result") = k + n
    BY <1>2, <1>4, <2>1 DEF Total
  <2>3. QED BY <1>1, <1>2, <1>5, <2>2
<1>9. ASSUME NEW i \in 1 .. Len(t), i > d
      PROVE  \E c \in Nat : t[i] = ResultEvent(c, CloserCode(Kept(s, d), c))
  <2> DEFINE j == i - d
  <2>1. j \in 1 .. n /\ d + j = i /\ k + j \in Nat
    BY <1>1, <1>2, <1>9
  <2> HIDE DEF j
  <2>2. t[i] = ResultEvent(k + j, CloserCode(Kept(s, d), k + j))
    BY <1>3, <2>1
  <2>3. QED BY <2>1, <2>2
<1>10. ASSUME NEW c \in Calls, d # 0
       PROVE  \E i \in 1 .. Len(t) : IsResult(t[i]) /\ t[i].call = c
  <2>1. CASE c <= k
    <3>1. c \in Nat /\ c \in 1 .. k
      BY <1>1, <2>1 DEF Calls
    <3>2. PICK j \in 1 .. d : IsResult(s[j]) /\ s[j].call = c
      BY <1>6, <3>1
    <3>3. j \in 1 .. Len(t) /\ t[j] = s[j]
      BY <1>1, <1>2
    <3>4. QED BY <3>2, <3>3
  <2>2. CASE c > k
    <3> DEFINE j == c - k
    <3>1. j \in 1 .. n /\ k + j = c /\ d + j \in 1 .. Len(t)
      BY <1>1, <1>2, <1>5, <1>10, <2>2 DEF Calls
    <3> HIDE DEF j
    <3>2. t[d + j] = ResultEvent(c, CloserCode(Kept(s, d), c))
      BY <1>3, <3>1
    <3>3. IsResult(t[d + j]) /\ t[d + j].call = c
      BY <3>2 DEF ResultEvent, Event, IsResult
    <3>4. QED BY <3>1, <3>3
  <2>3. c <= k \/ c > k
    BY <1>1 DEF Calls
  <2>4. QED BY <2>1, <2>2, <2>3
<1>11. QED BY <1>7, <1>8, <1>9, <1>10 DEF Closes, AllAnswered


-----------------------------------------------------------------------------
(* The log is numbered, and tells how far the scheduler has come.           *)
Counted ==
  /\ Numbered(log)
  /\ Up => /\ Answers(log) /\ Total(log, "call") = started
           /\ \/ Total(log, "result") = committed
              \/ /\ pc \in {"drain", "threw"} /\ committed < NumCalls
                 /\ Total(log, "result") = committed + 1
  /\ pc = "repaired" /\ Len(log) # 0 => Total(log, "result") = NumCalls

(* The next call or result keeps the log numbered and its results in turn.  *)
LEMMA NextEvent ==
  ASSUME LogTypes, Numbered(log), Answers(log), NEW e \in Events, log' = Append(log, e),
         e.event \in {"call", "result"}, e.call = Total(log, e.event) + 1
  PROVE  /\ log' \in Seq(Events) /\ Len(log') = Len(log) + 1 /\ Numbered(log') /\ Answers(log')
         /\ \A kind : Total(log', kind) = Total(log, kind) + (IF e.event = kind THEN 1 ELSE 0)
<1>1. log \in Seq(Events) /\ Len(log) \in Nat
  BY LenProperties DEF LogTypes
<1>2. log' \in Seq(Events) /\ Grows(log, log', e)
  BY <1>1, AppendGrows
<1>3. \A kind : Total(log', kind) = Total(log, kind) + (IF e.event = kind THEN 1 ELSE 0)
  <2> SUFFICES ASSUME NEW kind
               PROVE  Total(log', kind) = Total(log, kind) + (IF e.event = kind THEN 1 ELSE 0)
    OBVIOUS
  <2>1. log \in Seq(Events) /\ log' \in Seq(Events) /\ e \in Events /\ Grows(log, log', e)
    BY <1>1, <1>2
  <2> DEFINE s == log
             t == log'
  <2>2. s \in Seq(Events) /\ t \in Seq(Events) /\ e \in Events /\ Grows(s, t, e)
    BY <2>1
  <2> HIDE DEF s, t
  <2>3. Total(t, kind) = Total(s, kind) + (IF e.event = kind THEN 1 ELSE 0)
    BY <2>2, GrowthCounts
  <2>4. QED BY <2>3 DEF s, t
<1>4. Numbered(log')
  BY <1>1, <1>2, GrowthNumbered
<1>5. Answers(log')
  <2> SUFFICES ASSUME NEW m \in 1 .. Total(log', "result")
               PROVE  \E j \in 1 .. Len(log') : IsResult(log'[j]) /\ log'[j].call = m
    BY DEF Answers
  <2>1. Total(log, "result") \in Nat
    BY <1>1, UptoFinite DEF Total
  <2>2. CASE m \in 1 .. Total(log, "result")
    <3>1. PICK j \in 1 .. Len(log) : IsResult(log[j]) /\ log[j].call = m
      BY <2>2 DEF Answers
    <3>2. j \in 1 .. Len(log') /\ log'[j] = log[j]
      BY <1>1, <1>2 DEF Grows
    <3>3. QED BY <3>1, <3>2
  <2>3. CASE m \notin 1 .. Total(log, "result")
    <3>1. Total(log', "result") = Total(log, "result") + (IF e.event = "result" THEN 1 ELSE 0)
      BY <1>3
    <3>2. e.event = "result" /\ m = Total(log, "result") + 1
      BY <2>1, <2>3, <3>1
    <3>3. Len(log) + 1 \in 1 .. Len(log') /\ log'[Len(log) + 1] = e
      BY <1>1, <1>2 DEF Grows
    <3>4. QED BY <3>2, <3>3 DEF IsResult
  <2>4. QED BY <2>2, <2>3
<1>6. QED BY <1>2, <1>3, <1>4, <1>5 DEF Grows

(* A step that leaves the log and the counts alone keeps both.              *)
LEMMA LogStays ==
  ASSUME LogTypes, Counted, log' = log, durable' \in 0 .. Len(log),
         started' = started, committed' = committed,
         pc' = "repaired" <=> pc = "repaired",
         pc \in {"drain", "threw"} => pc' \in {"drain", "threw"}
  PROVE  (LogTypes /\ Counted)'
BY DEF LogTypes, Counted, Up, Numbered, Answers, Total, Upto

(* Every step keeps the log typed and counted.                              *)
LEMMA LogStep ==
  ASSUME FlowTypes, Order, LogTypes, Counted, [Next]_vars
  PROVE  (LogTypes /\ Counted)'
<1>1. ASSUME Abort
      PROVE  (LogTypes /\ Counted)'
  <2>1. /\ log' = log /\ started' = started /\ committed' = committed
        /\ pc' = "repaired" <=> pc = "repaired"
        /\ pc \in {"drain", "threw"} => pc' \in {"drain", "threw"}
    BY <1>1 DEF Abort, Suspensions, local, store
  <2>2. durable' \in 0 .. Len(log)
    BY <1>1, LenProperties DEF Abort, Suspensions, local, store, LogTypes
  <2>3. QED BY <2>1, <2>2, LogStays
<1>2. ASSUME Persist
      PROVE  (LogTypes /\ Counted)'
  <2>1. /\ log' = log /\ started' = started /\ committed' = committed
        /\ pc' = "repaired" <=> pc = "repaired"
        /\ pc \in {"drain", "threw"} => pc' \in {"drain", "threw"}
    BY <1>2 DEF Persist, local
  <2>2. durable' \in 0 .. Len(log)
    BY <1>2, LenProperties DEF Persist, local, LogTypes
  <2>3. QED BY <2>1, <2>2, LogStays
<1>3. ASSUME Classify
      PROVE  (LogTypes /\ Counted)'
  <2>1. /\ log' = log /\ started' = started /\ committed' = committed
        /\ pc' = "repaired" <=> pc = "repaired"
        /\ pc \in {"drain", "threw"} => pc' \in {"drain", "threw"}
    BY <1>3 DEF Classify, LastOfGroup, store
  <2>2. durable' \in 0 .. Len(log)
    BY <1>3, LenProperties DEF Classify, LastOfGroup, store, LogTypes
  <2>3. QED BY <2>1, <2>2, LogStays
<1>4. ASSUME StartCall
      PROVE  (LogTypes /\ Counted)'
  <2> DEFINE e == CallEvent(started + 1)
  <2>1. started + 1 \in Nat /\ Up /\ log' = Append(log, e) /\ started' = started + 1
        /\ committed' = committed /\ durable' = durable /\ pc = "fill" /\ pc' = "prepare"
    BY <1>4 DEF StartCall, FlowTypes, Up
  <2>2. e \in Events /\ e.event = "call" /\ e.call = started + 1
    BY <2>1 DEF CallEvent, Event, Events, Codes, Outcomes
  <2> HIDE DEF e
  <2>3. Total(log, "call") = started /\ Total(log, "result") = committed /\ Numbered(log) /\ Answers(log)
    BY <2>1 DEF Counted
  <2>4. /\ log' \in Seq(Events) /\ Len(log') = Len(log) + 1 /\ Numbered(log') /\ Answers(log')
        /\ \A kind : Total(log', kind) = Total(log, kind) + (IF e.event = kind THEN 1 ELSE 0)
    BY <2>1, <2>2, <2>3, NextEvent
  <2>5. Total(log', "call") = started + 1 /\ Total(log', "result") = committed
    BY <2>2, <2>3, <2>4 DEF FlowTypes
  <2>6. QED BY <2>1, <2>4, <2>5, LenProperties DEF LogTypes, Counted, Up
<1>5. ASSUME FillEnds
      PROVE  (LogTypes /\ Counted)'
  <2>1. /\ log' = log /\ started' = started /\ committed' = committed
        /\ pc' = "repaired" <=> pc = "repaired"
        /\ pc \in {"drain", "threw"} => pc' \in {"drain", "threw"}
    BY <1>5 DEF FillEnds, CanStart, local, store, PoolHasRoom, StaysInGroup
  <2>2. durable' \in 0 .. Len(log)
    BY <1>5, LenProperties DEF FillEnds, CanStart, local, store, PoolHasRoom, StaysInGroup, LogTypes
  <2>3. QED BY <2>1, <2>2, LogStays
<1>6. ASSUME PrepareAllows
      PROVE  (LogTypes /\ Counted)'
  <2>1. /\ log' = log /\ started' = started /\ committed' = committed
        /\ pc' = "repaired" <=> pc = "repaired"
        /\ pc \in {"drain", "threw"} => pc' \in {"drain", "threw"}
    BY <1>6 DEF PrepareAllows, store
  <2>2. durable' \in 0 .. Len(log)
    BY <1>6, LenProperties DEF PrepareAllows, store, LogTypes
  <2>3. QED BY <2>1, <2>2, LogStays
<1>7. ASSUME PrepareAnswers
      PROVE  (LogTypes /\ Counted)'
  <2>1. /\ log' = log /\ started' = started /\ committed' = committed
        /\ pc' = "repaired" <=> pc = "repaired"
        /\ pc \in {"drain", "threw"} => pc' \in {"drain", "threw"}
    BY <1>7 DEF PrepareAnswers, Slot, local, store
  <2>2. durable' \in 0 .. Len(log)
    BY <1>7, LenProperties DEF PrepareAnswers, Slot, local, store, LogTypes
  <2>3. QED BY <2>1, <2>2, LogStays
<1>8. ASSUME PrepareDiscarded
      PROVE  (LogTypes /\ Counted)'
  <2>1. /\ log' = log /\ started' = started /\ committed' = committed
        /\ pc' = "repaired" <=> pc = "repaired"
        /\ pc \in {"drain", "threw"} => pc' \in {"drain", "threw"}
    BY <1>8 DEF PrepareDiscarded, local, store
  <2>2. durable' \in 0 .. Len(log)
    BY <1>8, LenProperties DEF PrepareDiscarded, local, store, LogTypes
  <2>3. QED BY <2>1, <2>2, LogStays
<1>9. ASSUME AfterStart
      PROVE  (LogTypes /\ Counted)'
  <2>1. /\ log' = log /\ started' = started /\ committed' = committed
        /\ pc' = "repaired" <=> pc = "repaired"
        /\ pc \in {"drain", "threw"} => pc' \in {"drain", "threw"}
    BY <1>9 DEF AfterStart, local, store
  <2>2. durable' \in 0 .. Len(log)
    BY <1>9, LenProperties DEF AfterStart, local, store, LogTypes
  <2>3. QED BY <2>1, <2>2, LogStays
<1>10. ASSUME Commit
      PROVE  (LogTypes /\ Counted)'
  <2>0. PICK c \in NextSlot : \E code \in FinalCodes(c) : log' = Append(log, ResultEvent(c, code))
    BY <1>10 DEF Commit
  <2>1a. PICK code \in FinalCodes(c) : log' = Append(log, ResultEvent(c, code))
    BY <2>0
  <2>1c. c = committed + 1 /\ c \in Nat /\ c \in Calls
    BY <2>0, SchedulerAssumption DEF NextSlot, FlowTypes, Calls
  <2>1d. outcome[c] \in Outcomes
    BY <2>1c DEF FlowTypes
  <2>1b. c = committed + 1 /\ c \in Nat /\ code \in Outcomes
    BY <2>1a, <2>1c, <2>1d DEF FinalCodes, Outcomes
  <2> DEFINE e == ResultEvent(c, code)
  <2>1. Up /\ log' = Append(log, e) /\ started' = started
        /\ committed' = committed + 1 /\ durable' = durable /\ pc = "commit" /\ pc' = "commit"
    BY <1>10, <2>1a DEF Commit, Up
  <2>2. e \in Events /\ e.event = "result" /\ e.call = committed + 1
    BY <2>1, <2>1b DEF ResultEvent, Event, Events, Codes, FlowTypes
  <2> HIDE DEF e
  <2>3. Total(log, "call") = started /\ Total(log, "result") = committed /\ Numbered(log) /\ Answers(log)
    BY <2>1 DEF Counted
  <2>4. /\ log' \in Seq(Events) /\ Len(log') = Len(log) + 1 /\ Numbered(log') /\ Answers(log')
        /\ \A kind : Total(log', kind) = Total(log, kind) + (IF e.event = kind THEN 1 ELSE 0)
    BY <2>1, <2>2, <2>3, NextEvent
  <2>5. Total(log', "call") = started /\ Total(log', "result") = committed + 1
    BY <2>2, <2>3, <2>4 DEF FlowTypes
  <2>6. QED BY <2>1, <2>4, <2>5, LenProperties DEF LogTypes, Counted, Up
<1>11. ASSUME CommitEnds
      PROVE  (LogTypes /\ Counted)'
  <2>1. /\ log' = log /\ started' = started /\ committed' = committed
        /\ pc' = "repaired" <=> pc = "repaired"
        /\ pc \in {"drain", "threw"} => pc' \in {"drain", "threw"}
    BY <1>11 DEF CommitEnds, NextSlot, store
  <2>2. durable' \in 0 .. Len(log)
    BY <1>11, LenProperties DEF CommitEnds, NextSlot, store, LogTypes
  <2>3. QED BY <2>1, <2>2, LogStays
<1>12. ASSUME Race
      PROVE  (LogTypes /\ Counted)'
  <2>1. /\ log' = log /\ started' = started /\ committed' = committed
        /\ pc' = "repaired" <=> pc = "repaired"
        /\ pc \in {"drain", "threw"} => pc' \in {"drain", "threw"}
    BY <1>12 DEF Race, Over, store
  <2>2. durable' \in 0 .. Len(log)
    BY <1>12, LenProperties DEF Race, Over, store, LogTypes
  <2>3. QED BY <2>1, <2>2, LogStays
<1>13. ASSUME Throws
      PROVE  (LogTypes /\ Counted)'
  <2>1. CASE log' = log
    <3>1. /\ started' = started /\ committed' = committed /\ durable' = durable
          /\ pc # "repaired" /\ pc' = "drain"
      BY <1>13 DEF Throws
    <3>2. QED BY <2>1, <3>1, LogStays DEF LogTypes
  <2>2. CASE pc = "commit" /\ \E c \in NextSlot : \E code \in FinalCodes(c) :
                                 log' = Append(log, ResultEvent(c, code))
    <3>0. PICK c \in NextSlot : \E code \in FinalCodes(c) : log' = Append(log, ResultEvent(c, code))
      BY <2>2
    <3>0a. PICK code \in FinalCodes(c) : log' = Append(log, ResultEvent(c, code))
      BY <3>0
    <3>0b. c = committed + 1 /\ c \in Nat /\ c <= NumCalls /\ outcome[c] \in Outcomes
      BY <3>0, SchedulerAssumption DEF NextSlot, Outcomes, FlowTypes, Calls
    <3>1b. c = committed + 1 /\ c \in Nat /\ c <= NumCalls /\ code \in Outcomes
      BY <3>0a, <3>0b DEF FinalCodes, Outcomes
    <3> DEFINE e == ResultEvent(c, code)
    <3>1. Up /\ log' = Append(log, e) /\ started' = started
          /\ committed' = committed /\ durable' = durable /\ pc = "commit" /\ pc' = "drain"
      BY <1>13, <2>2, <3>0a DEF Throws, Up
    <3>2. e \in Events /\ e.event = "result" /\ e.call = committed + 1
      BY <3>1, <3>1b DEF ResultEvent, Event, Events, Codes, FlowTypes
    <3> HIDE DEF e
    <3>3. Total(log, "call") = started /\ Total(log, "result") = committed /\ Numbered(log) /\ Answers(log)
      BY <3>1 DEF Counted
    <3>4. /\ log' \in Seq(Events) /\ Len(log') = Len(log) + 1 /\ Numbered(log') /\ Answers(log')
          /\ \A kind : Total(log', kind) = Total(log, kind) + (IF e.event = kind THEN 1 ELSE 0)
      BY <3>1, <3>2, <3>3, NextEvent
    <3>5. Total(log', "call") = started /\ Total(log', "result") = committed + 1
      BY <3>2, <3>3, <3>4 DEF FlowTypes
    <3>6. committed < NumCalls
      BY <3>1b, SchedulerAssumption DEF FlowTypes
    <3>7. QED BY <3>1, <3>4, <3>5, <3>6, LenProperties DEF LogTypes, Counted, Up
  <2>3. QED BY <1>13, <2>1, <2>2 DEF Throws
<1>14. ASSUME Drain
      PROVE  (LogTypes /\ Counted)'
  <2>1. /\ log' = log /\ started' = started /\ committed' = committed
        /\ pc' = "repaired" <=> pc = "repaired"
        /\ pc \in {"drain", "threw"} => pc' \in {"drain", "threw"}
    BY <1>14 DEF Drain, Drained, local, store, Over
  <2>2. durable' \in 0 .. Len(log)
    BY <1>14, LenProperties DEF Drain, Drained, local, store, Over, LogTypes
  <2>3. QED BY <2>1, <2>2, LogStays
<1>15. ASSUME Skip
      PROVE  (LogTypes /\ Counted)'
  <2>1. CASE started = committed /\ started = LastSkipped
    <3>1. /\ log' = log /\ started' = started /\ committed' = committed /\ durable' = durable
          /\ pc = "skip" /\ pc' = "returned"
      BY <1>15, <2>1 DEF Skip
    <3>2. QED BY <3>1, LogStays DEF LogTypes
  <2>2. CASE started = committed /\ started # LastSkipped
    <3> DEFINE e == CallEvent(started + 1)
    <3>1. started + 1 \in Nat /\ Up /\ log' = Append(log, e) /\ started' = started + 1
          /\ committed' = committed /\ durable' = durable /\ pc = "skip" /\ pc' = "skip"
      BY <1>15, <2>2 DEF Skip, FlowTypes, Up
    <3>2. e \in Events /\ e.event = "call" /\ e.call = started + 1
      BY <3>1 DEF CallEvent, Event, Events, Codes, Outcomes
    <3> HIDE DEF e
    <3>3. Total(log, "call") = started /\ Total(log, "result") = committed /\ Numbered(log) /\ Answers(log)
      BY <3>1 DEF Counted
    <3>4. /\ log' \in Seq(Events) /\ Len(log') = Len(log) + 1 /\ Numbered(log') /\ Answers(log')
          /\ \A kind : Total(log', kind) = Total(log, kind) + (IF e.event = kind THEN 1 ELSE 0)
      BY <3>1, <3>2, <3>3, NextEvent
    <3>5. Total(log', "call") = started + 1 /\ Total(log', "result") = committed
      BY <3>2, <3>3, <3>4 DEF FlowTypes
    <3>6. QED BY <3>1, <3>4, <3>5, LenProperties DEF LogTypes, Counted, Up
  <2>3. CASE started # committed
    <3> DEFINE e == ResultEvent(started, "notRun")
    <3>0. started = committed + 1 /\ started \in Nat
      BY <1>15, <2>3 DEF Skip, Order, FlowTypes
    <3>1. Up /\ log' = Append(log, e) /\ started' = started
          /\ committed' = committed + 1 /\ durable' = durable /\ pc = "skip" /\ pc' = "skip"
      BY <1>15, <2>3, <3>0 DEF Skip, Up
    <3>2. e \in Events /\ e.event = "result" /\ e.call = committed + 1
      BY <3>1, <3>0 DEF ResultEvent, Event, Events, Codes, Outcomes
    <3> HIDE DEF e
    <3>3. Total(log, "call") = started /\ Total(log, "result") = committed /\ Numbered(log) /\ Answers(log)
      BY <3>1 DEF Counted
    <3>4. /\ log' \in Seq(Events) /\ Len(log') = Len(log) + 1 /\ Numbered(log') /\ Answers(log')
          /\ \A kind : Total(log', kind) = Total(log, kind) + (IF e.event = kind THEN 1 ELSE 0)
      BY <3>1, <3>2, <3>3, NextEvent
    <3>5. Total(log', "call") = started /\ Total(log', "result") = committed + 1
      BY <3>2, <3>3, <3>4 DEF FlowTypes
    <3>6. QED BY <3>1, <3>4, <3>5, LenProperties DEF LogTypes, Counted, Up
  <2>4. QED BY <2>1, <2>2, <2>3
<1>16. ASSUME Crash
      PROVE  (LogTypes /\ Counted)'
  <2>1. pc # "repaired" /\ pc' = "repaired" /\ durable' = Len(log')
        /\ log' = Kept(log, durable) \o Closers(Kept(log, durable))
    BY <1>16 DEF Crash, Kept
  <2>2. Numbered(log) /\ Answers(log) /\ Total(log, "result") <= NumCalls /\ log \in Seq(Events)
        /\ durable \in 0 .. Len(log)
    BY <2>1, SchedulerAssumption DEF Counted, Up, FlowTypes, LogTypes
  <2>3. Numbered(log') /\ (Len(log') # 0 => Total(log', "result") = NumCalls)
    BY <2>1, <2>2, Repaired
  <2>4. log' \in Seq(Events)
    BY <2>1, <2>2, RepairedLog
  <2>5. QED BY <2>1, <2>3, <2>4, LenProperties DEF LogTypes, Counted, Up
<1>17. ASSUME Finished
      PROVE  (LogTypes /\ Counted)'
  <2>1. /\ log' = log /\ started' = started /\ committed' = committed
        /\ pc' = "repaired" <=> pc = "repaired"
        /\ pc \in {"drain", "threw"} => pc' \in {"drain", "threw"}
    BY <1>17 DEF Finished, Finals, vars, local, store, Finals
  <2>2. durable' \in 0 .. Len(log)
    BY <1>17, LenProperties DEF Finished, Finals, vars, local, store, LogTypes
  <2>3. QED BY <2>1, <2>2, LogStays
<1>18. ASSUME NEW c \in Calls, Reclassify(c)
      PROVE  (LogTypes /\ Counted)'
  <2>1. /\ log' = log /\ started' = started /\ committed' = committed
        /\ pc' = "repaired" <=> pc = "repaired"
        /\ pc \in {"drain", "threw"} => pc' \in {"drain", "threw"}
    BY <1>18 DEF Reclassify, Suspensions, local, store
  <2>2. durable' \in 0 .. Len(log)
    BY <1>18, LenProperties DEF Reclassify, Suspensions, local, store, LogTypes
  <2>3. QED BY <2>1, <2>2, LogStays
<1>19. ASSUME NEW c \in Calls, BodyStarts(c)
      PROVE  (LogTypes /\ Counted)'
  <2>1. /\ log' = log /\ started' = started /\ committed' = committed
        /\ pc' = "repaired" <=> pc = "repaired"
        /\ pc \in {"drain", "threw"} => pc' \in {"drain", "threw"}
    BY <1>19 DEF BodyStarts, In, Checkpointed, local, store
  <2>2. durable' \in 0 .. Len(log)
    BY <1>19, LenProperties DEF BodyStarts, In, Checkpointed, local, store, LogTypes
  <2>3. QED BY <2>1, <2>2, LogStays
<1>20. ASSUME NEW c \in Calls, NotRun(c)
      PROVE  (LogTypes /\ Counted)'
  <2>1. /\ log' = log /\ started' = started /\ committed' = committed
        /\ pc' = "repaired" <=> pc = "repaired"
        /\ pc \in {"drain", "threw"} => pc' \in {"drain", "threw"}
    BY <1>20 DEF NotRun, In, Slot, local, store
  <2>2. durable' \in 0 .. Len(log)
    BY <1>20, LenProperties DEF NotRun, In, Slot, local, store, LogTypes
  <2>3. QED BY <2>1, <2>2, LogStays
<1>21. ASSUME NEW c \in Calls, BodySettles(c)
      PROVE  (LogTypes /\ Counted)'
  <2>1. /\ log' = log /\ started' = started /\ committed' = committed
        /\ pc' = "repaired" <=> pc = "repaired"
        /\ pc \in {"drain", "threw"} => pc' \in {"drain", "threw"}
    BY <1>21 DEF BodySettles, In, Slot, local, store
  <2>2. durable' \in 0 .. Len(log)
    BY <1>21, LenProperties DEF BodySettles, In, Slot, local, store, LogTypes
  <2>3. QED BY <2>1, <2>2, LogStays
<1>22. ASSUME NEW c \in Calls, DispatchRejects(c)
      PROVE  (LogTypes /\ Counted)'
  <2>1. /\ log' = log /\ started' = started /\ committed' = committed
        /\ pc' = "repaired" <=> pc = "repaired"
        /\ pc \in {"drain", "threw"} => pc' \in {"drain", "threw"}
    BY <1>22 DEF DispatchRejects, In, store
  <2>2. durable' \in 0 .. Len(log)
    BY <1>22, LenProperties DEF DispatchRejects, In, store, LogTypes
  <2>3. QED BY <2>1, <2>2, LogStays
<1>23. CASE UNCHANGED vars
  <2>1. /\ log' = log /\ started' = started /\ committed' = committed /\ durable' = durable /\ pc' = pc
    BY <1>23 DEF vars, local, store
  <2>2. QED BY <2>1, LogStays DEF LogTypes
<1>24. QED
  BY <1>1, <1>2, <1>3, <1>4, <1>5, <1>6, <1>7, <1>8, <1>9, <1>10, <1>11, <1>12,
     <1>13, <1>14, <1>15, <1>16, <1>17, <1>18, <1>19, <1>20, <1>21, <1>22, <1>23
     DEF Next, Scheduler, Dispatch


-----------------------------------------------------------------------------
(* What the log says of a call, and what is still to come of it.            *)
Told(e) ==
  IsResult(e) =>
    /\ e.call \in Calls
    /\ Up => \/ at[e.call] = "settled"
             \/ at[e.call] = "planned" /\ e.call <= started /\ e.code = "notRun"
    /\ e.call \in history.ran => e.code \notin {"notRun", "notStarted"}
ResultsTold == \A i \in 1 .. Len(log) : Told(log[i])

LoggedBefore(s, c, n) == \E i \in 1 .. n : i <= Len(s) /\ s[i] = CallEvent(c)

(* A started call is in the log; a checkpoint covers it; a body that ran    *)
(* has it in storage.                                                       *)
CallsLogged ==
  Up => /\ \A c \in 1 .. started : LoggedBefore(log, c, Len(log))
        /\ \A c \in Calls : at[c] = "dispatched" => LoggedBefore(log, c, mark[c])
        /\ \A c \in history.ran : /\ at[c] \in {"body", "settled", "broken"}
                                  /\ outcome[c] # "notRun"
                                  /\ LoggedBefore(log, c, durable)

ConcludedInLog == \E c \in Concluders \cap history.ran :
                    \E i \in 1 .. Len(log) : log[i] = ResultEvent(c, "ok")
Conclusion == pc \notin {"drain", "threw", "repaired"} => (concluded <=> ConcludedInLog)

RanAnswered == pc = "repaired" /\ history.ran # {} => AllAnswered(log)

(* What a step adds to the log.                                             *)
LEMMA StartGrows ==
  ASSUME FlowTypes, LogTypes, StartCall
  PROVE  Grows(log, log', CallEvent(started + 1)) /\ Len(log) \in Nat
<1>1. CallEvent(started + 1) \in Events
  BY DEF FlowTypes, CallEvent, Event, Events, Codes, Outcomes
<1>2. log \in Seq(Events) /\ log' = Append(log, CallEvent(started + 1))
  BY DEF StartCall, LogTypes
<1>3. QED BY <1>1, <1>2, AppendGrows, LenProperties

(* The same of a commit.                                                    *)
LEMMA CommitGrows ==
  ASSUME FlowTypes, LogTypes, Commit
  PROVE  /\ Len(log) \in Nat /\ committed + 1 \in Calls /\ outcome[committed + 1] # "none"
         /\ \E code \in FinalCodes(committed + 1) :
              /\ Grows(log, log', ResultEvent(committed + 1, code))
              /\ concluded' = Concludes(committed + 1, code)
<1>1. PICK c \in NextSlot : \E code \in FinalCodes(c) :
         log' = Append(log, ResultEvent(c, code)) /\ concluded' = Concludes(c, code)
  BY DEF Commit
<1>2. c = committed + 1 /\ c \in Nat /\ c \in Calls /\ outcome[c] # "none"
  BY <1>1, SchedulerAssumption DEF NextSlot, FlowTypes, Calls
<1>3. PICK code \in FinalCodes(c) :
         log' = Append(log, ResultEvent(c, code)) /\ concluded' = Concludes(c, code)
  BY <1>1
<1>4. code \in Outcomes
  BY <1>2, <1>3 DEF FinalCodes, Outcomes, FlowTypes
<1>5. ResultEvent(c, code) \in Events
  BY <1>2, <1>4 DEF ResultEvent, Event, Events, Codes
<1>6. Grows(log, log', ResultEvent(c, code)) /\ Len(log) \in Nat
  BY <1>3, <1>5, AppendGrows, LenProperties DEF LogTypes
<1>7. QED BY <1>2, <1>3, <1>6

(* The same of a failure.                                                   *)
LEMMA ThrowsGrows ==
  ASSUME FlowTypes, LogTypes, Throws
  PROVE  \/ log' = log
         \/ /\ Len(log) \in Nat /\ committed + 1 \in Calls /\ outcome[committed + 1] # "none"
            /\ \E code \in FinalCodes(committed + 1) :
                 Grows(log, log', ResultEvent(committed + 1, code))
<1>1. log' = log \/ \E c \in NextSlot : \E code \in FinalCodes(c) :
                      log' = Append(log, ResultEvent(c, code))
  BY DEF Throws
<1>2. CASE \E c \in NextSlot : \E code \in FinalCodes(c) : log' = Append(log, ResultEvent(c, code))
  <2>1. PICK c \in NextSlot : \E code \in FinalCodes(c) : log' = Append(log, ResultEvent(c, code))
    BY <1>2
  <2>2. c = committed + 1 /\ c \in Nat /\ c \in Calls /\ outcome[c] # "none"
    BY <2>1, SchedulerAssumption DEF NextSlot, FlowTypes, Calls
  <2>3. PICK code \in FinalCodes(c) : log' = Append(log, ResultEvent(c, code))
    BY <2>1
  <2>4. code \in Outcomes
    BY <2>2, <2>3 DEF FinalCodes, Outcomes, FlowTypes
  <2>5. ResultEvent(c, code) \in Events
    BY <2>2, <2>4 DEF ResultEvent, Event, Events, Codes
  <2>6. Grows(log, log', ResultEvent(c, code)) /\ Len(log) \in Nat
    BY <2>3, <2>5, AppendGrows, LenProperties DEF LogTypes
  <2>7. QED BY <2>2, <2>3, <2>6
<1>3. QED BY <1>1, <1>2

(* The same of a skip.                                                      *)
LEMMA SkipGrows ==
  ASSUME FlowTypes, LogTypes, Skip
  PROVE  /\ Len(log) \in Nat
         /\ \/ log' = log /\ started' = started
            \/ Grows(log, log', CallEvent(started + 1)) /\ started' = started + 1
            \/ /\ committed # started /\ started' = started
               /\ Grows(log, log', ResultEvent(started, "notRun"))
<1>1. \A n \in Nat : CallEvent(n) \in Events /\ ResultEvent(n, "notRun") \in Events
  BY DEF CallEvent, ResultEvent, Event, Events, Codes, Outcomes
<1>2. log \in Seq(Events) /\ Len(log) \in Nat /\ started \in Nat /\ started + 1 \in Nat
  BY LenProperties DEF LogTypes, FlowTypes
<1>3. CASE log' = log /\ started' = started
  BY <1>2, <1>3
<1>4. CASE log' = Append(log, CallEvent(started + 1)) /\ started' = started + 1
  BY <1>1, <1>2, <1>4, AppendGrows
<1>5. CASE committed # started /\ started' = started /\ log' = Append(log, ResultEvent(started, "notRun"))
  BY <1>1, <1>2, <1>5, AppendGrows
<1>6. QED BY <1>3, <1>4, <1>5 DEF Skip


(* Repair answers the calls of the message only.                            *)
LEMMA CloserIsCall ==
  ASSUME NEW s \in Seq(Events), Numbered(s), NEW d \in 0 .. Len(s), Answers(s),
         Total(s, "result") <= NumCalls,
         NEW t, t = Kept(s, d) \o Closers(Kept(s, d)),
         NEW i \in 1 .. Len(t), i > d
  PROVE  t[i].call \in Calls
<1> DEFINE k == Results(s, d)
           n == Open(s, d)
           j == i - d
<1>1. d \in Nat /\ NumCalls \in Nat /\ k \in 0 .. NumCalls /\ n \in Nat
  BY ResultsType
<1>2. n = IF d = 0 THEN 0 ELSE NumCalls - k
  BY DEF Open
<1> HIDE DEF k, n
<1>3. Len(t) = d + n /\ \A m \in 1 .. n : t[d + m] = ResultEvent(k + m, CloserCode(Kept(s, d), k + m))
  BY RepairedLog DEF k, n
<1>4. j \in 1 .. n /\ d + j = i /\ k + j \in Calls
  BY <1>1, <1>2, <1>3 DEF Calls
<1> HIDE DEF j
<1>5. t[i] = ResultEvent(k + j, CloserCode(Kept(s, d), k + j))
  BY <1>3, <1>4
<1>6. QED BY <1>4, <1>5 DEF ResultEvent, Event


(* What a crash leaves: the storage, and a result for every call it lacks.  *)
LEMMA CrashRepairs ==
  ASSUME FlowTypes, LogTypes, Counted, Crash
  PROVE  /\ pc # "repaired" /\ pc' = "repaired" /\ history' = history
         /\ Len(log) \in Nat /\ Len(log') \in Nat /\ durable \in 0 .. Len(log)
         /\ \A i \in 1 .. durable : i \in 1 .. Len(log') /\ log'[i] = log[i]
         /\ \A i \in 1 .. Len(log') : i > durable =>
               \E c \in Calls : log'[i] = ResultEvent(c, CloserCode(Kept(log, durable), c))
         /\ \A c \in Calls : LoggedBefore(log, c, durable) => CloserCode(Kept(log, durable), c) = "unknown"
         /\ durable # 0 => AllAnswered(log')
<1> DEFINE s == log
           d == durable
           t == log'
<1>1. pc # "repaired" /\ pc' = "repaired" /\ history' = history
      /\ t = Kept(s, d) \o Closers(Kept(s, d))
  BY DEF Crash, Kept
<1>2. Numbered(s) /\ Answers(s) /\ Total(s, "result") <= NumCalls /\ s \in Seq(Events) /\ d \in 0 .. Len(s)
  BY <1>1, SchedulerAssumption DEF Counted, Up, FlowTypes, LogTypes
<1> HIDE DEF s, d, t
<1>4. d \in Nat /\ Len(s) \in Nat /\ Open(s, d) \in Nat
  BY <1>2, ResultsType
<1>5. t \in Seq(Events) /\ Len(t) = d + Open(s, d) /\ \A i \in 1 .. d : t[i] = s[i]
  BY <1>1, <1>2, RepairedLog
<1>6. \A i \in 1 .. d : i \in 1 .. Len(t) /\ t[i] = s[i]
  BY <1>4, <1>5
<1>7. Closes(s, d, t)
  BY <1>1, <1>2, Repaired
<1>8. \A i \in 1 .. Len(t) : i > d => t[i].call \in Calls
  BY <1>1, <1>2, CloserIsCall
<1>9. ASSUME NEW i \in 1 .. Len(t), i > d
      PROVE  \E c \in Calls : t[i] = ResultEvent(c, CloserCode(Kept(s, d), c))
  <2>1. PICK c \in Nat : t[i] = ResultEvent(c, CloserCode(Kept(s, d), c))
    BY <1>7, <1>9 DEF Closes
  <2>2. t[i].call = c
    BY <2>1 DEF ResultEvent, Event
  <2>3. QED BY <1>8, <1>9, <2>1, <2>2
<1>10. d # 0 => AllAnswered(t)
  BY <1>1, <1>2, Repaired
<1>11. ASSUME NEW c \in Calls, LoggedBefore(s, c, d)
       PROVE  CloserCode(Kept(s, d), c) = "unknown"
  <2>1. Kept(s, d) \in Seq(Events) /\ Len(Kept(s, d)) = d /\ \A i \in 1 .. d : Kept(s, d)[i] = s[i]
    BY <1>2, OpenCalls
  <2>2. PICK i \in 1 .. d : s[i] = CallEvent(c)
    BY <1>11 DEF LoggedBefore
  <2>3. DOMAIN Kept(s, d) = 1 .. d
    BY <2>1, LenProperties
  <2>4. CallEvent(c) \in ToSet(Kept(s, d))
    BY <2>1, <2>2, <2>3 DEF ToSet
  <2>5. QED BY <2>4 DEF CloserCode
<1>12. Len(t) \in Nat
  BY <1>5, LenProperties
<1>13. QED BY <1>1, <1>2, <1>4, <1>6, <1>9, <1>10, <1>11, <1>12 DEF s, d, t

(* Every step keeps what the log says of a call.                            *)
LEMMA ToldStep ==
  ASSUME FlowTypes, Order, StagesAgree, LogTypes, Counted, CallsLogged, ResultsTold, [Next]_vars
  PROVE  ResultsTold'
<1> USE  DEF ResultsTold
<1>1. ASSUME Abort
      PROVE  ResultsTold'
  BY <1>1 DEF Abort, local, store, Told, Up, IsResult
<1>2. ASSUME Persist
      PROVE  ResultsTold'
  BY <1>2 DEF Persist, local, Told, Up, IsResult
<1>3. ASSUME Classify
      PROVE  ResultsTold'
  BY <1>3 DEF Classify, LastOfGroup, store, Told, Up, IsResult
<1>4. ASSUME StartCall
      PROVE  ResultsTold'
  <2>1. Grows(log, log', CallEvent(started + 1)) /\ Len(log) \in Nat
    BY <1>4, StartGrows
  <2>2. started' = started + 1 /\ history'.ran = history.ran /\ at' = [at EXCEPT ![started + 1] = "preparing"]
        /\ pc = "fill" /\ pc' = "prepare" /\ started + 1 \in Calls
    BY <1>4, SchedulerAssumption DEF StartCall, CanStart, FlowTypes, Calls
  <2> SUFFICES ASSUME NEW i \in 1 .. Len(log')
               PROVE  Told(log[i])'
    OBVIOUS
  <2>3. CASE i \in 1 .. Len(log)
    <3>1. log'[i] = log[i] /\ Told(log[i])
      BY <2>1, <2>3 DEF Grows
    <3> DEFINE e == log[i]
    <3> HIDE DEF e
    <3>2. Told(e) /\ e = log'[i]
      BY <3>1 DEF e
    <3>3. QED BY <2>2, <3>2 DEF Told, Up, StagesAgree, Stage, FlowTypes, Calls
  <2>4. CASE i = Len(log) + 1
    BY <2>1, <2>4 DEF Grows, Told, CallEvent, Event, IsResult
  <2>5. QED BY <2>1, <2>3, <2>4 DEF Grows
<1>5. ASSUME FillEnds
      PROVE  ResultsTold'
  BY <1>5 DEF FillEnds, CanStart, local, store, PoolHasRoom, StaysInGroup, Told,
     Up, IsResult
<1>6. ASSUME PrepareAllows
      PROVE  ResultsTold'
  BY <1>6 DEF PrepareAllows, store, Told, Up, IsResult, FlowTypes, Calls,
     StagesAgree, Stage, Order
<1>7. ASSUME PrepareAnswers
      PROVE  ResultsTold'
  BY <1>7 DEF PrepareAnswers, Slot, local, store, Told, Up, IsResult, FlowTypes,
     Calls, StagesAgree, Stage, Order
<1>8. ASSUME PrepareDiscarded
      PROVE  ResultsTold'
  BY <1>8 DEF PrepareDiscarded, local, store, Told, Up, IsResult
<1>9. ASSUME AfterStart
      PROVE  ResultsTold'
  BY <1>9 DEF AfterStart, local, store, Told, Up, IsResult
<1>10. ASSUME Commit
      PROVE  ResultsTold'
  <2>1. PICK code \in FinalCodes(committed + 1) : Grows(log, log', ResultEvent(committed + 1, code))
    BY <1>10, CommitGrows
  <2>2. Len(log) \in Nat /\ committed + 1 \in Calls /\ outcome[committed + 1] # "none"
    BY <1>10, CommitGrows
  <2>3. history' = history /\ at' = at /\ started' = started /\ pc = "commit" /\ pc' = "commit"
    BY <1>10 DEF Commit
  <2>4. committed + 1 \in history.ran => code \notin {"notRun", "notStarted"}
    <3>1. outcome[committed + 1] \in Outcomes
      BY <2>2 DEF FlowTypes
    <3>2. QED BY <2>2, <2>3, <3>1 DEF CallsLogged, Up, FinalCodes, Outcomes
  <2>5. at[committed + 1] = "settled"
    BY <2>2 DEF StagesAgree, Stage
  <2> SUFFICES ASSUME NEW i \in 1 .. Len(log')
               PROVE  Told(log[i])'
    OBVIOUS
  <2>6. CASE i \in 1 .. Len(log)
    BY <2>1, <2>3, <2>6 DEF Grows, Told, Up
  <2>7. CASE i = Len(log) + 1
    BY <2>1, <2>2, <2>3, <2>4, <2>5, <2>7 DEF Grows, Told, ResultEvent, Event, IsResult
  <2>8. QED BY <2>1, <2>2, <2>6, <2>7 DEF Grows
<1>11. ASSUME CommitEnds
      PROVE  ResultsTold'
  BY <1>11 DEF CommitEnds, NextSlot, store, Told, Up, IsResult
<1>12. ASSUME Race
      PROVE  ResultsTold'
  BY <1>12 DEF Race, Over, store, Told, Up, IsResult
<1>13. ASSUME Throws
      PROVE  ResultsTold'
  <2>1. history' = history /\ at' = at /\ started' = started /\ pc # "repaired"
    BY <1>13 DEF Throws, Suspensions
  <2>2. CASE log' = log
    BY <2>1, <2>2 DEF Told, Up
  <2>3. CASE log' # log
    <3>0. /\ Len(log) \in Nat /\ committed + 1 \in Calls /\ outcome[committed + 1] # "none"
          /\ \E code \in FinalCodes(committed + 1) : Grows(log, log', ResultEvent(committed + 1, code))
      BY <1>13, <2>3, ThrowsGrows
    <3>1. PICK code \in FinalCodes(committed + 1) : Grows(log, log', ResultEvent(committed + 1, code))
      BY <3>0
    <3>2. committed + 1 \in history.ran => code \notin {"notRun", "notStarted"}
      <4>1. outcome[committed + 1] \in Outcomes
        BY <3>0 DEF FlowTypes
      <4>2. QED BY <2>1, <3>0, <3>1, <4>1 DEF CallsLogged, Up, FinalCodes, Outcomes
    <3>3. at[committed + 1] = "settled"
      BY <3>0 DEF StagesAgree, Stage
    <3> SUFFICES ASSUME NEW i \in 1 .. Len(log')
                 PROVE  Told(log[i])'
      OBVIOUS
    <3>4. CASE i \in 1 .. Len(log)
      BY <2>1, <3>1, <3>4 DEF Grows, Told, Up
    <3>5. CASE i = Len(log) + 1
      BY <2>1, <3>0, <3>1, <3>2, <3>3, <3>5 DEF Grows, Told, ResultEvent, Event, IsResult
    <3>6. QED BY <3>0, <3>1, <3>4, <3>5 DEF Grows
  <2>4. QED BY <2>2, <2>3
<1>14. ASSUME Drain
      PROVE  ResultsTold'
  BY <1>14 DEF Drain, Drained, local, store, Over, Told, Up, IsResult
<1>15. ASSUME Skip
      PROVE  ResultsTold'
  <2>1. history' = history /\ at' = at /\ pc = "skip" /\ pc' # "repaired"
    BY <1>15 DEF Skip
  <2>2. CASE log' = log /\ started' = started
    BY <2>1, <2>2 DEF Told, Up
  <2>3. CASE Grows(log, log', CallEvent(started + 1)) /\ started' = started + 1
    <3> SUFFICES ASSUME NEW i \in 1 .. Len(log')
                 PROVE  Told(log[i])'
      OBVIOUS
    <3>1. Len(log) \in Nat
      BY <1>15, SkipGrows
    <3>2. CASE i \in 1 .. Len(log)
      <4>1. log'[i] = log[i] /\ Told(log[i])
        BY <2>3, <3>2 DEF Grows
      <4>2. QED BY <2>1, <2>3, <4>1 DEF Told, Up, FlowTypes, Calls
    <3>3. CASE i = Len(log) + 1
      BY <2>3, <3>3 DEF Grows, Told, CallEvent, Event, IsResult
    <3>4. QED BY <2>3, <3>1, <3>2, <3>3 DEF Grows
  <2>4. CASE committed # started /\ started' = started /\ Grows(log, log', ResultEvent(started, "notRun"))
    <3> SUFFICES ASSUME NEW i \in 1 .. Len(log')
                 PROVE  Told(log[i])'
      OBVIOUS
    <3>1. Len(log) \in Nat
      BY <1>15, SkipGrows
    <3>2. CASE i \in 1 .. Len(log)
      BY <2>1, <2>4, <3>2 DEF Grows, Told, Up
    <3>3. CASE i = Len(log) + 1
      <4>1. started \in Calls /\ at[started] = "planned"
        BY <2>1, <2>4 DEF Order, FlowTypes, Calls
      <4>2. started \notin history.ran
        BY <2>1, <4>1 DEF CallsLogged, Up
      <4>3. QED BY <2>1, <2>4, <3>3, <4>1, <4>2 DEF Grows, Told, ResultEvent, Event, IsResult, FlowTypes
    <3>4. QED BY <2>4, <3>1, <3>2, <3>3 DEF Grows
  <2>5. QED BY <1>15, <2>2, <2>3, <2>4, SkipGrows
<1>16. ASSUME Crash
      PROVE  ResultsTold'
  <2>1. /\ pc # "repaired" /\ pc' = "repaired" /\ history' = history
        /\ Len(log) \in Nat /\ Len(log') \in Nat /\ durable \in 0 .. Len(log)
        /\ \A i \in 1 .. durable : i \in 1 .. Len(log') /\ log'[i] = log[i]
        /\ \A i \in 1 .. Len(log') : i > durable =>
              \E c \in Calls : log'[i] = ResultEvent(c, CloserCode(Kept(log, durable), c))
        /\ \A c \in Calls : LoggedBefore(log, c, durable) => CloserCode(Kept(log, durable), c) = "unknown"
    BY <1>16, CrashRepairs
  <2> SUFFICES ASSUME NEW i \in 1 .. Len(log')
               PROVE  Told(log[i])'
    OBVIOUS
  <2>2. CASE i <= durable
    BY <2>1, <2>2 DEF Told, Up
  <2>3. CASE i > durable
    <3>1. PICK c \in Calls : log'[i] = ResultEvent(c, CloserCode(Kept(log, durable), c))
      BY <2>1, <2>3
    <3>2. c \in history.ran => CloserCode(Kept(log, durable), c) = "unknown"
      BY <2>1, <3>1 DEF CallsLogged, Up
    <3>3. QED BY <2>1, <3>1, <3>2 DEF Told, Up, ResultEvent, Event, IsResult
  <2>4. QED BY <2>1, <2>2, <2>3
<1>17. ASSUME Finished
      PROVE  ResultsTold'
  BY <1>17 DEF Finished, Finals, vars, local, store, Told, Up, IsResult
<1>18. ASSUME NEW c \in Calls, Reclassify(c)
      PROVE  ResultsTold'
  BY <1>18 DEF Reclassify, local, store, Told, Up, IsResult
<1>19. ASSUME NEW c \in Calls, BodyStarts(c)
      PROVE  ResultsTold'
  BY <1>19 DEF BodyStarts, In, Checkpointed, local, store, Told, Up, IsResult,
     FlowTypes, Calls, StagesAgree, Stage, Order
<1>20. ASSUME NEW c \in Calls, NotRun(c)
      PROVE  ResultsTold'
  BY <1>20 DEF NotRun, In, Slot, local, store, Told, Up, IsResult, FlowTypes,
     Calls, StagesAgree, Stage, Order
<1>21. ASSUME NEW c \in Calls, BodySettles(c)
      PROVE  ResultsTold'
  BY <1>21 DEF BodySettles, In, Slot, local, store, Told, Up, IsResult, FlowTypes,
     Calls, StagesAgree, Stage, Order
<1>22. ASSUME NEW c \in Calls, DispatchRejects(c)
      PROVE  ResultsTold'
  BY <1>22 DEF DispatchRejects, In, store, Told, Up, IsResult, FlowTypes, Calls,
     StagesAgree, Stage, Order
<1>23. CASE UNCHANGED vars
  BY <1>23 DEF vars, local, store, Told, Up
<1>24. QED
  BY <1>1, <1>2, <1>3, <1>4, <1>5, <1>6, <1>7, <1>8, <1>9, <1>10, <1>11, <1>12,
     <1>13, <1>14, <1>15, <1>16, <1>17, <1>18, <1>19, <1>20, <1>21, <1>22, <1>23
     DEF Next, Scheduler, Dispatch


(* What a longer log keeps.                                                 *)
LEMMA LoggedStays ==
  ASSUME CallsLogged, UNCHANGED <<started, outcome, mark, durable, history, at>>,
         Up, Len(log) \in Nat, Len(log') \in Nat, Len(log) <= Len(log'),
         \A i \in 1 .. Len(log) : log'[i] = log[i]
  PROVE  CallsLogged'
<1>1. ASSUME NEW c, NEW n, LoggedBefore(log, c, n)
      PROVE  LoggedBefore(log', c, n)
  BY <1>1 DEF LoggedBefore
<1>2. ASSUME NEW c \in 1 .. started
      PROVE  LoggedBefore(log', c, Len(log'))
  <2>1. LoggedBefore(log, c, Len(log))
    BY DEF CallsLogged
  <2>2. QED BY <2>1 DEF LoggedBefore
<1>3. /\ \A c \in Calls : at'[c] = "dispatched" => LoggedBefore(log', c, mark'[c])
      /\ \A c \in history'.ran : at'[c] \in {"body", "settled", "broken"} /\ outcome'[c] # "notRun"
                                 /\ LoggedBefore(log', c, durable')
  BY <1>1 DEF CallsLogged
<1>4. QED BY <1>2, <1>3 DEF CallsLogged, LoggedBefore

(* Every step keeps the calls logged before their bodies run.              *)
LEMMA LoggedStep ==
  ASSUME FlowTypes, Order, StagesAgree, LogTypes, Counted, CallsLogged, [Next]_vars
  PROVE  CallsLogged'
<1>1. ASSUME Abort
      PROVE  CallsLogged'
  BY <1>1 DEF Abort, local, store, CallsLogged, LoggedBefore, Up
<1>2. ASSUME Persist
      PROVE  CallsLogged'
  <2>1. /\ durable' = durable + 1 /\ durable \in Nat /\ UNCHANGED <<log, pc, started, at, outcome, mark, history>>
    BY <1>2, LenProperties DEF Persist, local, LogTypes
  <2>2. QED BY <2>1 DEF CallsLogged, Up, LoggedBefore
<1>3. ASSUME Classify
      PROVE  CallsLogged'
  BY <1>3 DEF Classify, LastOfGroup, store, CallsLogged, LoggedBefore, Up
<1>4. ASSUME StartCall
      PROVE  CallsLogged'
  <2>1. Grows(log, log', CallEvent(started + 1)) /\ Len(log) \in Nat
    BY <1>4, StartGrows
  <2>2. /\ started' = started + 1 /\ history'.ran = history.ran /\ started + 1 \in Calls
        /\ at' = [at EXCEPT ![started + 1] = "preparing"] /\ outcome' = outcome /\ mark' = mark
        /\ durable' = durable /\ pc = "fill" /\ pc' = "prepare"
    BY <1>4, SchedulerAssumption DEF StartCall, CanStart, FlowTypes, Calls
  <2>3. \A c, n : n \in Nat /\ LoggedBefore(log, c, n) => LoggedBefore(log', c, n)
    BY <2>1, LenProperties DEF Grows, LoggedBefore
  <2>4. LoggedBefore(log', started + 1, Len(log'))
    BY <2>1 DEF Grows, LoggedBefore
  <2>5. ASSUME NEW c \in 1 .. started
        PROVE  LoggedBefore(log', c, Len(log'))
    <3>1. LoggedBefore(log, c, Len(log))
      BY <2>2 DEF CallsLogged, Up
    <3>2. QED BY <2>1, <3>1 DEF Grows, LoggedBefore
  <2>6. \A c \in 1 .. started' : LoggedBefore(log', c, Len(log'))
    BY <2>2, <2>4, <2>5 DEF FlowTypes
  <2>7. ASSUME NEW c \in Calls, at'[c] = "dispatched"
        PROVE  LoggedBefore(log', c, mark'[c])
    BY <2>2, <2>3, <2>7 DEF CallsLogged, Up, FlowTypes
  <2>8. ASSUME NEW c \in history'.ran
        PROVE  at'[c] \in {"body", "settled", "broken"} /\ outcome'[c] # "notRun" /\ LoggedBefore(log', c, durable')
    BY <2>2, <2>3, <2>8 DEF CallsLogged, Up, FlowTypes, LogTypes, StagesAgree, Stage, Calls
  <2>9. QED BY <2>6, <2>7, <2>8 DEF CallsLogged, LoggedBefore
<1>5. ASSUME FillEnds
      PROVE  CallsLogged'
  BY <1>5 DEF FillEnds, CanStart, local, store, PoolHasRoom, StaysInGroup,
     CallsLogged, LoggedBefore, Up
<1>6. ASSUME PrepareAllows
      PROVE  CallsLogged'
  <2>1. /\ started' = started /\ history' = history /\ at' = [at EXCEPT ![started] = "dispatched"]
        /\ outcome' = outcome /\ mark' = [mark EXCEPT ![started] = Len(log)]
        /\ durable' = durable /\ log' = log /\ pc = "prepare" /\ pc' = "started"
    BY <1>6 DEF PrepareAllows, store
  <2>2. started \in 1 .. started /\ started \in Calls /\ at[started] = "preparing"
    BY <2>1 DEF Order, FlowTypes, Calls
  <2>3. LoggedBefore(log, started, Len(log))
    BY <2>1, <2>2 DEF CallsLogged, Up
  <2>4. QED BY <2>1, <2>2, <2>3 DEF CallsLogged, Up, FlowTypes, LoggedBefore
<1>7. ASSUME PrepareAnswers
      PROVE  CallsLogged'
  BY <1>7 DEF PrepareAnswers, Slot, local, store, CallsLogged, LoggedBefore, Up,
     FlowTypes, Calls, StagesAgree, Stage, Order
<1>8. ASSUME PrepareDiscarded
      PROVE  CallsLogged'
  BY <1>8 DEF PrepareDiscarded, local, store, CallsLogged, LoggedBefore, Up
<1>9. ASSUME AfterStart
      PROVE  CallsLogged'
  BY <1>9 DEF AfterStart, local, store, CallsLogged, LoggedBefore, Up
<1>10. ASSUME Commit
      PROVE  CallsLogged'
  <2>1. UNCHANGED <<started, outcome, mark, durable, history, at>> /\ pc = "commit" /\ pc' = "commit"
    BY <1>10 DEF Commit
  <2>2. Len(log) \in Nat /\ Len(log') \in Nat /\ Len(log) <= Len(log') /\ \A i \in 1 .. Len(log) : log'[i] = log[i]
    BY <1>10, CommitGrows DEF Grows
  <2>3. QED BY <2>1, <2>2, LoggedStays DEF Up
<1>11. ASSUME CommitEnds
      PROVE  CallsLogged'
  BY <1>11 DEF CommitEnds, NextSlot, store, CallsLogged, LoggedBefore, Up
<1>12. ASSUME Race
      PROVE  CallsLogged'
  BY <1>12 DEF Race, Over, store, CallsLogged, LoggedBefore, Up
<1>13. ASSUME Throws
      PROVE  CallsLogged'
  <2>1. UNCHANGED <<started, outcome, mark, durable, history, at>> /\ pc # "repaired" /\ pc' = "drain"
    BY <1>13 DEF Throws, Suspensions
  <2>2. Len(log) \in Nat /\ Len(log') \in Nat /\ Len(log) <= Len(log') /\ \A i \in 1 .. Len(log) : log'[i] = log[i]
    BY <1>13, ThrowsGrows, LenProperties DEF Grows, LogTypes
  <2>3. QED BY <2>1, <2>2, LoggedStays DEF Up
<1>14. ASSUME Drain
      PROVE  CallsLogged'
  BY <1>14 DEF Drain, Drained, local, store, Over, CallsLogged, LoggedBefore, Up
<1>15. ASSUME Skip
      PROVE  CallsLogged'
  <2>1. UNCHANGED <<outcome, mark, durable, history, at>> /\ pc = "skip" /\ pc' # "repaired"
    BY <1>15 DEF Skip
  <2>2. Len(log) \in Nat /\ Len(log') \in Nat /\ Len(log) <= Len(log') /\ \A i \in 1 .. Len(log) : log'[i] = log[i]
    BY <1>15, SkipGrows, LenProperties DEF Grows, LogTypes
  <2>3. CASE started' = started
    BY <2>1, <2>2, <2>3, LoggedStays DEF Up
  <2>4. CASE Grows(log, log', CallEvent(started + 1)) /\ started' = started + 1
    <3>1. ASSUME NEW c, NEW n, LoggedBefore(log, c, n)
          PROVE  LoggedBefore(log', c, n)
      BY <2>2, <3>1 DEF LoggedBefore
    <3>2. LoggedBefore(log', started + 1, Len(log'))
      BY <2>2, <2>4 DEF Grows, LoggedBefore
    <3>3. ASSUME NEW c \in 1 .. started
          PROVE  LoggedBefore(log', c, Len(log'))
      <4>1. LoggedBefore(log, c, Len(log))
        BY <2>1 DEF CallsLogged, Up
      <4>2. QED BY <2>2, <4>1 DEF LoggedBefore
    <3>4. \A c \in 1 .. started' : LoggedBefore(log', c, Len(log'))
      <4>1. \A c \in 1 .. started + 1 : c \in 1 .. started \/ c = started + 1
        BY DEF FlowTypes
      <4>2. QED BY <2>4, <3>2, <3>3, <4>1
    <3>5. /\ \A c \in Calls : at'[c] = "dispatched" => LoggedBefore(log', c, mark'[c])
          /\ \A c \in history'.ran : at'[c] \in {"body", "settled", "broken"} /\ outcome'[c] # "notRun"
                                     /\ LoggedBefore(log', c, durable')
      BY <2>1, <3>1 DEF CallsLogged, Up
    <3>6. QED BY <3>4, <3>5 DEF CallsLogged, LoggedBefore
  <2>5. QED BY <1>15, <2>3, <2>4, SkipGrows
<1>16. ASSUME Crash
      PROVE  CallsLogged'
  BY <1>16, CrashRepairs DEF CallsLogged, Up
<1>17. ASSUME Finished
      PROVE  CallsLogged'
  BY <1>17 DEF Finished, Finals, vars, local, store, CallsLogged, LoggedBefore, Up
<1>18. ASSUME NEW c \in Calls, Reclassify(c)
      PROVE  CallsLogged'
  BY <1>18 DEF Reclassify, local, store, CallsLogged, LoggedBefore, Up
<1>19. ASSUME NEW c \in Calls, BodyStarts(c)
      PROVE  CallsLogged'
  <2>1. /\ started' = started /\ history'.ran = history.ran \cup {c} /\ at' = [at EXCEPT ![c] = "body"]
        /\ outcome' = outcome /\ mark' = [mark EXCEPT ![c] = 0] /\ at[c] = "dispatched"
        /\ durable' = durable /\ log' = log /\ pc # "repaired" /\ pc' = pc /\ durable >= mark[c]
    BY <1>19 DEF BodyStarts, store, local, In, Checkpointed, FlowTypes
  <2>2. LoggedBefore(log, c, mark[c])
    BY <2>1 DEF CallsLogged, Up
  <2>3. LoggedBefore(log, c, durable)
    BY <2>1, <2>2 DEF LoggedBefore, FlowTypes, LogTypes
  <2>4. outcome[c] = "none"
    BY <2>1 DEF StagesAgree, Stage
  <2>5. at'[c] = "body" /\ \A d \in Calls : d # c => at'[d] = at[d] /\ mark'[d] = mark[d]
    BY <2>1 DEF FlowTypes
  <2>6. \A d \in Calls : at'[d] = "dispatched" => LoggedBefore(log', d, mark'[d])
    BY <2>1, <2>5 DEF CallsLogged, Up
  <2>7. \A d \in history'.ran : /\ at'[d] \in {"body", "settled", "broken"} /\ outcome'[d] # "notRun"
                              /\ LoggedBefore(log', d, durable')
    BY <2>1, <2>3, <2>4, <2>5 DEF CallsLogged, Up, FlowTypes
  <2>8. \A d \in 1 .. started' : LoggedBefore(log', d, Len(log'))
    BY <2>1 DEF CallsLogged, Up
  <2>9. QED BY <2>6, <2>7, <2>8 DEF CallsLogged
<1>20. ASSUME NEW c \in Calls, NotRun(c)
      PROVE  CallsLogged'
  BY <1>20 DEF NotRun, In, Slot, local, store, CallsLogged, LoggedBefore, Up,
     FlowTypes, Calls, StagesAgree, Stage, Order
<1>21. ASSUME NEW c \in Calls, BodySettles(c)
      PROVE  CallsLogged'
  <2>1. PICK result \in {"error", "aborted", "ok"} : Slot(c, result)
    BY <1>21 DEF BodySettles
  <2>2. /\ at' = [at EXCEPT ![c] = "settled"] /\ outcome' = [outcome EXCEPT ![c] = result]
        /\ mark' = [mark EXCEPT ![c] = 0]
    BY <2>1 DEF Slot
  <2>3. /\ started' = started /\ history' = history /\ durable' = durable /\ log' = log
        /\ pc # "repaired" /\ pc' = pc
    BY <1>21 DEF BodySettles, In, local, store
  <2>4. QED BY <2>2, <2>3 DEF CallsLogged, Up, FlowTypes, LoggedBefore
<1>22. ASSUME NEW c \in Calls, DispatchRejects(c)
      PROVE  CallsLogged'
  BY <1>22 DEF DispatchRejects, In, store, CallsLogged, LoggedBefore, Up,
     FlowTypes, Calls, StagesAgree, Stage, Order
<1>23. CASE UNCHANGED vars
  BY <1>23 DEF vars, local, store, CallsLogged, LoggedBefore, Up
<1>24. QED
  BY <1>1, <1>2, <1>3, <1>4, <1>5, <1>6, <1>7, <1>8, <1>9, <1>10, <1>11, <1>12,
     <1>13, <1>14, <1>15, <1>16, <1>17, <1>18, <1>19, <1>20, <1>21, <1>22, <1>23
     DEF Next, Scheduler, Dispatch

(* Every step keeps the bodies of a repaired log answered.                  *)
LEMMA AnsweredStep ==
  ASSUME FlowTypes, LogTypes, Counted, CallsLogged, RanAnswered, [Next]_vars
  PROVE  RanAnswered'
<1> USE  DEF RanAnswered
<1>1. ASSUME Abort
      PROVE  RanAnswered'
  BY <1>1 DEF Abort, local, store, Suspensions, AllAnswered
<1>2. ASSUME Persist
      PROVE  RanAnswered'
  BY <1>2 DEF Persist, local, Suspensions, AllAnswered
<1>3. ASSUME Classify
      PROVE  RanAnswered'
  BY <1>3 DEF Classify, LastOfGroup, store, Suspensions, AllAnswered
<1>4. ASSUME StartCall
      PROVE  RanAnswered'
  BY <1>4 DEF StartCall, Suspensions
<1>5. ASSUME FillEnds
      PROVE  RanAnswered'
  BY <1>5 DEF FillEnds, CanStart, local, store, PoolHasRoom, StaysInGroup,
     Suspensions, AllAnswered
<1>6. ASSUME PrepareAllows
      PROVE  RanAnswered'
  BY <1>6 DEF PrepareAllows, store, Suspensions, AllAnswered
<1>7. ASSUME PrepareAnswers
      PROVE  RanAnswered'
  BY <1>7 DEF PrepareAnswers, Slot, local, store, Suspensions, AllAnswered
<1>8. ASSUME PrepareDiscarded
      PROVE  RanAnswered'
  BY <1>8 DEF PrepareDiscarded, local, store, Suspensions, AllAnswered
<1>9. ASSUME AfterStart
      PROVE  RanAnswered'
  BY <1>9 DEF AfterStart, local, store, Suspensions, AllAnswered
<1>10. ASSUME Commit
      PROVE  RanAnswered'
  BY <1>10 DEF Commit, NextSlot, FinalCodes, Suspensions, AllAnswered
<1>11. ASSUME CommitEnds
      PROVE  RanAnswered'
  BY <1>11 DEF CommitEnds, NextSlot, store, Suspensions, AllAnswered
<1>12. ASSUME Race
      PROVE  RanAnswered'
  BY <1>12 DEF Race, Over, store, Suspensions, AllAnswered
<1>13. ASSUME Throws
      PROVE  RanAnswered'
  BY <1>13 DEF Throws, CanStart, NextSlot, PoolHasRoom, StaysInGroup, Suspensions,
     AllAnswered
<1>14. ASSUME Drain
      PROVE  RanAnswered'
  BY <1>14 DEF Drain, Drained, local, store, Over, Suspensions, AllAnswered
<1>15. ASSUME Skip
      PROVE  RanAnswered'
  BY <1>15 DEF Skip, LastSkipped, Suspensions, AllAnswered
<1>16. ASSUME Crash
      PROVE  RanAnswered'
  <2>1. /\ pc # "repaired" /\ history' = history /\ durable \in 0 .. Len(log)
        /\ durable # 0 => AllAnswered(log')
    BY <1>16, CrashRepairs
  <2>2. ASSUME NEW c \in history.ran
        PROVE  durable # 0
    <3>1. LoggedBefore(log, c, durable)
      BY <2>1 DEF CallsLogged, Up
    <3>2. QED BY <3>1 DEF LoggedBefore
  <2>3. QED BY <2>1, <2>2
<1>17. ASSUME Finished
      PROVE  RanAnswered'
  BY <1>17 DEF Finished, Finals, vars, local, store, Suspensions, AllAnswered
<1>18. ASSUME NEW c \in Calls, Reclassify(c)
      PROVE  RanAnswered'
  BY <1>18 DEF Reclassify, local, store, Suspensions, AllAnswered
<1>19. ASSUME NEW c \in Calls, BodyStarts(c)
      PROVE  RanAnswered'
  <2>1. pc' = pc /\ pc # "repaired"
    BY <1>19 DEF BodyStarts, In
  <2>2. QED BY <2>1
<1>20. ASSUME NEW c \in Calls, NotRun(c)
      PROVE  RanAnswered'
  BY <1>20 DEF NotRun, In, Slot, local, store, Suspensions, AllAnswered
<1>21. ASSUME NEW c \in Calls, BodySettles(c)
      PROVE  RanAnswered'
  BY <1>21 DEF BodySettles, In, Slot, local, store, Suspensions, AllAnswered
<1>22. ASSUME NEW c \in Calls, DispatchRejects(c)
      PROVE  RanAnswered'
  BY <1>22 DEF DispatchRejects, In, store, Suspensions, AllAnswered
<1>23. CASE UNCHANGED vars
  BY <1>23 DEF vars, local, store, AllAnswered
<1>24. QED
  BY <1>1, <1>2, <1>3, <1>4, <1>5, <1>6, <1>7, <1>8, <1>9, <1>10, <1>11, <1>12,
     <1>13, <1>14, <1>15, <1>16, <1>17, <1>18, <1>19, <1>20, <1>21, <1>22, <1>23
     DEF Next, Scheduler, Dispatch


(* An event that is no success leaves what the log concludes.               *)
LEMMA GrowthConcludes ==
  ASSUME NEW e, Grows(log, log', e), Len(log) \in Nat, history'.ran = history.ran,
         \A c : e # ResultEvent(c, "ok")
  PROVE  ConcludedInLog' = ConcludedInLog
<1>1. ASSUME NEW c
      PROVE  (\E i \in 1 .. Len(log') : log'[i] = ResultEvent(c, "ok")) <=>
               (\E i \in 1 .. Len(log) : log[i] = ResultEvent(c, "ok"))
  BY DEF Grows
<1>2. QED BY <1>1 DEF ConcludedInLog

(* Every step keeps the conclusion and the log in agreement.                *)
LEMMA ConcludedStep ==
  ASSUME FlowTypes, LogTypes, ResultsTold, Conclusion, [Next]_vars
  PROVE  Conclusion'
<1> USE  DEF Conclusion
<1>1. ASSUME Abort
      PROVE  Conclusion'
  <2>1. log' = log /\ history'.ran = history.ran /\ concluded' = concluded
        /\ (pc \in {"drain", "threw", "repaired"} => pc' \in {"drain", "threw", "repaired"})
    BY <1>1 DEF Abort, local, store
  <2>2. ConcludedInLog' = ConcludedInLog
    BY <2>1 DEF ConcludedInLog
  <2>3. QED BY <2>1, <2>2
<1>2. ASSUME Persist
      PROVE  Conclusion'
  <2>1. log' = log /\ history'.ran = history.ran /\ concluded' = concluded
        /\ (pc \in {"drain", "threw", "repaired"} => pc' \in {"drain", "threw", "repaired"})
    BY <1>2 DEF Persist, local
  <2>2. ConcludedInLog' = ConcludedInLog
    BY <2>1 DEF ConcludedInLog
  <2>3. QED BY <2>1, <2>2
<1>3. ASSUME Classify
      PROVE  Conclusion'
  <2>1. log' = log /\ history'.ran = history.ran /\ concluded' = concluded
        /\ (pc \in {"drain", "threw", "repaired"} => pc' \in {"drain", "threw", "repaired"})
    BY <1>3 DEF Classify, LastOfGroup, store
  <2>2. ConcludedInLog' = ConcludedInLog
    BY <2>1 DEF ConcludedInLog
  <2>3. QED BY <2>1, <2>2
<1>4. ASSUME StartCall
      PROVE  Conclusion'
  <2>1. Grows(log, log', CallEvent(started + 1)) /\ Len(log) \in Nat
    BY <1>4, StartGrows
  <2>2. history'.ran = history.ran /\ concluded' = concluded /\ pc = "fill"
    BY <1>4 DEF StartCall, FlowTypes
  <2>3. \A c : CallEvent(started + 1) # ResultEvent(c, "ok")
    BY DEF CallEvent, ResultEvent, Event
  <2>4. ConcludedInLog' = ConcludedInLog
    BY <2>1, <2>2, <2>3, GrowthConcludes
  <2>5. QED BY <2>2, <2>4
<1>5. ASSUME FillEnds
      PROVE  Conclusion'
  <2>1. log' = log /\ history'.ran = history.ran /\ concluded' = concluded
        /\ (pc \in {"drain", "threw", "repaired"} => pc' \in {"drain", "threw", "repaired"})
    BY <1>5 DEF FillEnds, CanStart, local, store, PoolHasRoom, StaysInGroup
  <2>2. ConcludedInLog' = ConcludedInLog
    BY <2>1 DEF ConcludedInLog
  <2>3. QED BY <2>1, <2>2
<1>6. ASSUME PrepareAllows
      PROVE  Conclusion'
  <2>1. log' = log /\ history'.ran = history.ran /\ concluded' = concluded
        /\ (pc \in {"drain", "threw", "repaired"} => pc' \in {"drain", "threw", "repaired"})
    BY <1>6 DEF PrepareAllows, store
  <2>2. ConcludedInLog' = ConcludedInLog
    BY <2>1 DEF ConcludedInLog
  <2>3. QED BY <2>1, <2>2
<1>7. ASSUME PrepareAnswers
      PROVE  Conclusion'
  <2>1. log' = log /\ history'.ran = history.ran /\ concluded' = concluded
        /\ (pc \in {"drain", "threw", "repaired"} => pc' \in {"drain", "threw", "repaired"})
    BY <1>7 DEF PrepareAnswers, Slot, local, store
  <2>2. ConcludedInLog' = ConcludedInLog
    BY <2>1 DEF ConcludedInLog
  <2>3. QED BY <2>1, <2>2
<1>8. ASSUME PrepareDiscarded
      PROVE  Conclusion'
  <2>1. log' = log /\ history'.ran = history.ran /\ concluded' = concluded
        /\ (pc \in {"drain", "threw", "repaired"} => pc' \in {"drain", "threw", "repaired"})
    BY <1>8 DEF PrepareDiscarded, local, store
  <2>2. ConcludedInLog' = ConcludedInLog
    BY <2>1 DEF ConcludedInLog
  <2>3. QED BY <2>1, <2>2
<1>9. ASSUME AfterStart
      PROVE  Conclusion'
  <2>1. log' = log /\ history'.ran = history.ran /\ concluded' = concluded
        /\ (pc \in {"drain", "threw", "repaired"} => pc' \in {"drain", "threw", "repaired"})
    BY <1>9 DEF AfterStart, local, store
  <2>2. ConcludedInLog' = ConcludedInLog
    BY <2>1 DEF ConcludedInLog
  <2>3. QED BY <2>1, <2>2
<1>10. ASSUME Commit
      PROVE  Conclusion'
  <2>1. PICK code \in FinalCodes(committed + 1) :
           Grows(log, log', ResultEvent(committed + 1, code)) /\ concluded' = Concludes(committed + 1, code)
    BY <1>10, CommitGrows
  <2>2. history' = history /\ pc = "commit" /\ pc' = "commit" /\ Len(log) \in Nat
    BY <1>10, CommitGrows DEF Commit
  <2>3. \A c : ResultEvent(committed + 1, code) = ResultEvent(c, "ok") <=> c = committed + 1 /\ code = "ok"
    BY DEF ResultEvent, Event
  <2>4. ConcludedInLog' <=> ConcludedInLog \/ (code = "ok" /\ committed + 1 \in Concluders \cap history.ran)
    <3>1. ASSUME NEW c
          PROVE  (\E i \in 1 .. Len(log') : log'[i] = ResultEvent(c, "ok")) <=>
                   (\E i \in 1 .. Len(log) : log[i] = ResultEvent(c, "ok")) \/ (c = committed + 1 /\ code = "ok")
      BY <2>1, <2>2, <2>3 DEF Grows
    <3>2. QED BY <2>2, <3>1 DEF ConcludedInLog
  <2>5. QED BY <2>1, <2>2, <2>4 DEF Concludes
<1>11. ASSUME CommitEnds
      PROVE  Conclusion'
  <2>1. log' = log /\ history'.ran = history.ran /\ concluded' = concluded
        /\ (pc \in {"drain", "threw", "repaired"} => pc' \in {"drain", "threw", "repaired"})
    BY <1>11 DEF CommitEnds, NextSlot, store
  <2>2. ConcludedInLog' = ConcludedInLog
    BY <2>1 DEF ConcludedInLog
  <2>3. QED BY <2>1, <2>2
<1>12. ASSUME Race
      PROVE  Conclusion'
  <2>1. log' = log /\ history'.ran = history.ran /\ concluded' = concluded
        /\ (pc \in {"drain", "threw", "repaired"} => pc' \in {"drain", "threw", "repaired"})
    BY <1>12 DEF Race, Over, store
  <2>2. ConcludedInLog' = ConcludedInLog
    BY <2>1 DEF ConcludedInLog
  <2>3. QED BY <2>1, <2>2
<1>13. ASSUME Throws
      PROVE  Conclusion'
  BY <1>13 DEF Throws
<1>14. ASSUME Drain
      PROVE  Conclusion'
  <2>1. log' = log /\ history'.ran = history.ran /\ concluded' = concluded
        /\ (pc \in {"drain", "threw", "repaired"} => pc' \in {"drain", "threw", "repaired"})
    BY <1>14 DEF Drain, Drained, local, store, Over
  <2>2. ConcludedInLog' = ConcludedInLog
    BY <2>1 DEF ConcludedInLog
  <2>3. QED BY <2>1, <2>2
<1>15. ASSUME Skip
      PROVE  Conclusion'
  <2>1. history' = history /\ concluded' = concluded /\ pc = "skip" /\ Len(log) \in Nat
    BY <1>15, SkipGrows DEF Skip
  <2>2. \A c : CallEvent(started + 1) # ResultEvent(c, "ok") /\ ResultEvent(started, "notRun") # ResultEvent(c, "ok")
    BY DEF CallEvent, ResultEvent, Event
  <2>3. ConcludedInLog' = ConcludedInLog
    <3>1. CASE log' = log
      BY <2>1, <3>1 DEF ConcludedInLog
    <3>2. CASE Grows(log, log', CallEvent(started + 1))
      BY <2>1, <2>2, <3>2, GrowthConcludes
    <3>3. CASE Grows(log, log', ResultEvent(started, "notRun"))
      BY <2>1, <2>2, <3>3, GrowthConcludes
    <3>4. QED BY <1>15, <3>1, <3>2, <3>3, SkipGrows
  <2>4. QED BY <2>1, <2>3
<1>16. ASSUME Crash
      PROVE  Conclusion'
  BY <1>16 DEF Crash
<1>17. ASSUME Finished
      PROVE  Conclusion'
  <2>1. log' = log /\ history'.ran = history.ran /\ concluded' = concluded
        /\ (pc \in {"drain", "threw", "repaired"} => pc' \in {"drain", "threw", "repaired"})
    BY <1>17 DEF Finished, Finals, vars, local, store, Finals
  <2>2. ConcludedInLog' = ConcludedInLog
    BY <2>1 DEF ConcludedInLog
  <2>3. QED BY <2>1, <2>2
<1>18. ASSUME NEW c \in Calls, Reclassify(c)
      PROVE  Conclusion'
  <2>1. log' = log /\ history'.ran = history.ran /\ concluded' = concluded
        /\ (pc \in {"drain", "threw", "repaired"} => pc' \in {"drain", "threw", "repaired"})
    BY <1>18 DEF FlowTypes, Reclassify, local, store
  <2>2. ConcludedInLog' = ConcludedInLog
    BY <2>1 DEF ConcludedInLog
  <2>3. QED BY <2>1, <2>2
<1>19. ASSUME NEW c \in Calls, BodyStarts(c)
      PROVE  Conclusion'
  <2>1. /\ log' = log /\ history'.ran = history.ran \cup {c} /\ concluded' = concluded
        /\ pc' = pc /\ pc # "repaired" /\ at[c] = "dispatched"
    BY <1>19 DEF BodyStarts, local, store, In, FlowTypes
  <2>2. \A i \in 1 .. Len(log) : log[i] # ResultEvent(c, "ok")
    BY <2>1 DEF ResultsTold, Told, Up, ResultEvent, Event, IsResult
  <2>3. ConcludedInLog' = ConcludedInLog
    BY <2>1, <2>2 DEF ConcludedInLog
  <2>4. QED BY <2>1, <2>3
<1>20. ASSUME NEW c \in Calls, NotRun(c)
      PROVE  Conclusion'
  <2>1. log' = log /\ history'.ran = history.ran /\ concluded' = concluded
        /\ (pc \in {"drain", "threw", "repaired"} => pc' \in {"drain", "threw", "repaired"})
    BY <1>20 DEF NotRun, In, Slot, local, store
  <2>2. ConcludedInLog' = ConcludedInLog
    BY <2>1 DEF ConcludedInLog
  <2>3. QED BY <2>1, <2>2
<1>21. ASSUME NEW c \in Calls, BodySettles(c)
      PROVE  Conclusion'
  <2>1. log' = log /\ history'.ran = history.ran /\ concluded' = concluded
        /\ (pc \in {"drain", "threw", "repaired"} => pc' \in {"drain", "threw", "repaired"})
    BY <1>21 DEF BodySettles, In, Slot, local, store
  <2>2. ConcludedInLog' = ConcludedInLog
    BY <2>1 DEF ConcludedInLog
  <2>3. QED BY <2>1, <2>2
<1>22. ASSUME NEW c \in Calls, DispatchRejects(c)
      PROVE  Conclusion'
  <2>1. log' = log /\ history'.ran = history.ran /\ concluded' = concluded
        /\ (pc \in {"drain", "threw", "repaired"} => pc' \in {"drain", "threw", "repaired"})
    BY <1>22 DEF DispatchRejects, In, store
  <2>2. ConcludedInLog' = ConcludedInLog
    BY <2>1 DEF ConcludedInLog
  <2>3. QED BY <2>1, <2>2
<1>23. CASE UNCHANGED vars
  BY <1>23 DEF vars, local, store, ConcludedInLog
<1>24. QED
  BY <1>1, <1>2, <1>3, <1>4, <1>5, <1>6, <1>7, <1>8, <1>9, <1>10, <1>11, <1>12,
     <1>13, <1>14, <1>15, <1>16, <1>17, <1>18, <1>19, <1>20, <1>21, <1>22, <1>23
     DEF Next, Scheduler, Dispatch


-----------------------------------------------------------------------------
(* The inductive invariant.                                                 *)
IInv == /\ FlowTypes /\ Order /\ StagesAgree /\ Pool /\ Alone
        /\ LogTypes /\ Counted /\ CallsLogged /\ ResultsTold /\ RanAnswered /\ Conclusion

(* It holds before the first call.                                          *)
LEMMA InitHolds == Init => IInv
<1> SUFFICES ASSUME Init
             PROVE  IInv
  OBVIOUS
<1> USE SchedulerAssumption DEF Init
<1>1. FlowTypes
  <2>1. NoGroup \in [mode : {"exclusive", "parallel"}, before : 0 .. NumCalls,
                     last : 0 .. NumCalls, aborted : BOOLEAN]
    BY DEF NoGroup
  <2>2. history \in [ran : SUBSET Calls, alone : SUBSET Calls, changes : 0 .. MaxReclassify]
    OBVIOUS
  <2>3. at \in [Calls -> Stages] /\ outcome \in [Calls -> Outcomes] /\ mark \in [Calls -> Nat]
    BY DEF Stages, Outcomes
  <2>4. 0 \in 0 .. NumCalls /\ pc \in Suspensions /\ parallel \subseteq Calls
    BY DEF Suspensions
  <2>5. QED BY <2>1, <2>2, <2>3, <2>4 DEF FlowTypes
<1>2. Order /\ StagesAgree
  BY DEF Order, StagesAgree, Stage, Calls, Live
<1>3. Pool /\ Alone
  BY FS_EmptySet DEF Pool, Alone, InGroup, Up
<1> DEFINE e == Event("asked", 0, "none")
<1>4. e \in Events /\ e.event = "asked"
  BY DEF Event, Events, Codes, Outcomes
<1>5. log = <<e>>
  OBVIOUS
<1> HIDE DEF e
<1>6. log \in Seq(Events) /\ Len(log) = 1 /\ log[1] = e
  BY <1>4, <1>5
<1>7. LogTypes
  BY <1>6 DEF LogTypes
<1>8. Upto(log, "call", 1) = {} /\ Upto(log, "result", 1) = {}
  BY <1>4, <1>6 DEF Upto
<1>9. Total(log, "call") = 0 /\ Total(log, "result") = 0
  BY <1>6, <1>8, FS_EmptySet DEF Total
<1>10. Counted
  BY <1>4, <1>6, <1>9 DEF Counted, Numbered, Answers, Up
<1>11. CallsLogged /\ RanAnswered
  BY DEF CallsLogged, RanAnswered
<1>12. ResultsTold /\ Conclusion
  BY <1>4, <1>6 DEF ResultsTold, Told, IsResult, Conclusion, ConcludedInLog
<1>13. QED BY <1>1, <1>2, <1>3, <1>7, <1>10, <1>11, <1>12 DEF IInv

(* Every step keeps it.                                                     *)
LEMMA StepHolds == IInv /\ [Next]_vars => IInv'
<1> SUFFICES ASSUME FlowTypes, Order, StagesAgree, Pool, Alone, LogTypes, Counted,
                    CallsLogged, ResultsTold, RanAnswered, Conclusion, [Next]_vars
             PROVE  IInv'
  BY DEF IInv
<1>1. FlowTypes' BY FlowStep
<1>2. Order' BY OrderStep
<1>3. StagesAgree' BY StageStep
<1>4. Pool' BY PoolStep
<1>5. Alone' BY AloneStep
<1>6. LogTypes' /\ Counted' BY LogStep
<1>7. CallsLogged' BY LoggedStep
<1>8. ResultsTold' BY ToldStep
<1>9. RanAnswered' BY AnsweredStep
<1>10. Conclusion' BY ConcludedStep
<1>11. QED BY <1>1, <1>2, <1>3, <1>4, <1>5, <1>6, <1>7, <1>8, <1>9, <1>10 DEF IInv

(* The scheduler, its calls and its log agree in every reachable state.     *)
THEOREM IInvHolds == Spec => []IInv
BY InitHolds, StepHolds, PTL DEF Spec

(* Every variable stays in its type.                                        *)
THEOREM TypeCorrect == Spec => []TypeOK
<1>1. IInv => TypeOK
  BY DEF IInv, FlowTypes, LogTypes, Events, TypeOK
<1>2. QED BY <1>1, IInvHolds, PTL

(* Calls and results reach the session once each and in model order,        *)
(* whatever order the bodies settle in (commitReady, and the closers of     *)
(* repair.ts).                                                              *)
THEOREM LoggedInOrder == Spec => []LoggedInModelOrder
<1>1. IInv => LoggedInModelOrder
  BY LenProperties DEF IInv, Counted, Numbered, LogTypes, LoggedInModelOrder
<1>2. QED BY <1>1, IInvHolds, PTL

(* executeToolCalls returns, and repair leaves the log, with one result for *)
(* every call of the message.                                               *)
THEOREM CallsAnswered == Spec => []EveryCallAnswered
<1>1. IInv => EveryCallAnswered
  <2> SUFFICES ASSUME IInv, pc = "returned" \/ (pc = "repaired" /\ log # <<>>)
               PROVE  Total(log, "result") = NumCalls
    BY DEF EveryCallAnswered, Total
  <2>1. CASE pc = "returned"
    BY <2>1 DEF IInv, Counted, Order, Up
  <2>2. CASE pc = "repaired" /\ log # <<>>
    <3>1. Len(log) # 0
      BY <2>2, EmptySeq DEF IInv, LogTypes
    <3>2. QED BY <2>2, <3>1 DEF IInv, Counted
  <2>3. QED BY <2>1, <2>2
<1>2. QED BY <1>1, IInvHolds, PTL

(* No more calls are running than maxParallelToolCalls.                     *)
THEOREM PoolIsBounded == Spec => []PoolBounded
<1>1. IInv => PoolBounded
  <2> SUFFICES ASSUME IInv
               PROVE  Cardinality({c \in Calls : Live(c)}) <= MaxParallel
    BY DEF PoolBounded
  <2>1. {c \in Calls : Live(c)} \in SUBSET inFlight
    BY DEF IInv, StagesAgree, Stage
  <2>2. IsFiniteSet(inFlight) /\ Cardinality(inFlight) <= MaxParallel
    BY DEF IInv, Pool
  <2> DEFINE live == {c \in Calls : Live(c)}
  <2>3. live \in SUBSET inFlight
    BY <2>1
  <2> HIDE DEF live
  <2>4. IsFiniteSet(live) /\ Cardinality(live) <= Cardinality(inFlight)
    BY <2>2, <2>3, FS_Subset
  <2>5. Cardinality(live) \in Nat /\ Cardinality(inFlight) \in Nat
    BY <2>2, <2>4, FS_CardinalityType
  <2>6. Cardinality(live) <= MaxParallel
    BY <2>2, <2>4, <2>5, SchedulerAssumption
  <2>7. QED BY <2>6 DEF live
<1>2. QED BY <1>1, IInvHolds, PTL

(* A call whose tool is exclusive when it starts runs with no other.        *)
THEOREM ExclusiveIsAlone == Spec => []ExclusiveAlone
<1>1. IInv => ExclusiveAlone
  <2> SUFFICES ASSUME IInv, NEW c \in history.alone, NEW d \in Calls, Live(c), Live(d)
               PROVE  c = d
    BY DEF ExclusiveAlone
  <2>1. c \in Calls
    BY DEF IInv, FlowTypes
  <2>2. c \in inFlight /\ d \in inFlight /\ pc # "threw"
    BY <2>1 DEF IInv, StagesAgree, Stage
  <2>3. Up
    BY <2>2 DEF IInv, Order, Up
  <2>4. InGroup
    BY <2>2, <2>3 DEF IInv, Order, InGroup, FlowTypes, Suspensions, Finals, Up
  <2>5. c > group.before /\ group.mode = "exclusive" /\ group.last = group.before + 1
        /\ d > group.before /\ c <= started /\ d <= started /\ started <= group.last
    BY <2>2, <2>3, <2>4 DEF IInv, Alone, Order
  <2>6. QED BY <2>1, <2>5 DEF IInv, FlowTypes, Calls
<1>2. QED BY <1>1, IInvHolds, PTL

(* Once the step is aborted no further call is started: the rest is only    *)
(* logged as not run (the group.aborted checks of fillPool).                *)
THEOREM AbortStops == Spec => AbortStopsStarts
<1>1. IInv /\ [Next]_vars => (signal /\ pc' # "repaired" =>
         \A c \in Calls : at[c] = "planned" => at'[c] = "planned")
  <2> SUFFICES ASSUME IInv, [Next]_vars, signal, pc' # "repaired",
                      NEW c \in Calls, at[c] = "planned"
               PROVE  at'[c] = "planned"
    OBVIOUS
  <2>1. ~StartCall
    BY DEF IInv, Order, StartCall, CanStart
  <2>2. CASE PrepareAllows \/ PrepareAnswers
    BY <2>2 DEF IInv, Order, FlowTypes, PrepareAllows, PrepareAnswers, Slot
  <2>3. CASE \E d \in Calls : Dispatch(d)
    BY <2>3 DEF IInv, FlowTypes, Dispatch, BodyStarts, NotRun, BodySettles, DispatchRejects, In, Slot
  <2>4. CASE at' = at
    BY <2>4
  <2>5. QED
    BY <2>1, <2>2, <2>3, <2>4 DEF Next, Scheduler, vars, Abort, Persist, Classify, FillEnds,
       PrepareDiscarded, AfterStart, Commit, CommitEnds, Race, Throws, Drain, Skip, Crash,
       Finished, Reclassify
<1>2. QED BY <1>1, IInvHolds, PTL DEF Spec, AbortStopsStarts

(* The step throws only after a failure, and with no call still running.    *)
THEOREM FailureIsDrained == Spec => []FailureDrains
<1>1. IInv => FailureDrains
  BY DEF IInv, Order, StagesAgree, Stage, FailureDrains
<1>2. QED BY <1>1, IInvHolds, PTL

(* A call whose body ran is never said not to have run, and a repaired log  *)
(* has a result for it: the checkpoint put the call into storage first.     *)
THEOREM BodiesOwned == Spec => []BodiesAreOwned
<1>1. IInv => BodiesAreOwned
  <2> SUFFICES ASSUME IInv
               PROVE  BodiesAreOwned
    OBVIOUS
  <2>1. log \in Seq(Events) /\ DOMAIN log = 1 .. Len(log)
    BY LenProperties DEF IInv, LogTypes
  <2>2. \A e : e \in ToSet(log) <=> \E i \in 1 .. Len(log) : e = log[i]
    BY <2>1 DEF ToSet
  <2>3. \A e \in ToSet(log) : Told(e)
    BY <2>2 DEF IInv, ResultsTold
  <2>4. pc = "repaired" => \A c \in history.ran : \E e \in ToSet(log) : IsResult(e) /\ e.call = c
    BY <2>2 DEF IInv, RanAnswered, AllAnswered, FlowTypes
  <2>5. QED BY <2>3, <2>4 DEF BodiesAreOwned, Told
<1>2. QED BY <1>1, IInvHolds, PTL

(* The step reports a conclusion exactly when a logged success made one.    *)
THEOREM ConclusionIsReported == Spec => []ConclusionReported
<1>1. IInv => ConclusionReported
  <2> SUFFICES ASSUME IInv, pc = "returned"
               PROVE  concluded <=> \E c \in Concluders \cap history.ran : ResultEvent(c, "ok") \in ToSet(log)
    BY DEF ConclusionReported
  <2>1. log \in Seq(Events) /\ DOMAIN log = 1 .. Len(log)
    BY LenProperties DEF IInv, LogTypes
  <2>2. \A e : e \in ToSet(log) <=> \E i \in 1 .. Len(log) : e = log[i]
    BY <2>1 DEF ToSet
  <2>3. QED BY <2>2 DEF IInv, Conclusion, ConcludedInLog
<1>2. QED BY <1>1, IInvHolds, PTL

=============================================================================
