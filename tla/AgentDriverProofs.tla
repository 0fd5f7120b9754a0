------------------------- MODULE AgentDriverProofs -------------------------
(***************************************************************************)
(* What holds of AgentDriver for every set of messages and every bound.    *)
(***************************************************************************)
EXTENDS AgentDriver, SequenceTheorems, TLAPS

-----------------------------------------------------------------------------
(* The sequence operators the actions are built from.                      *)

LEMMA FrontLast ==
  ASSUME NEW S, NEW s \in Seq(S), s # <<>>
  PROVE  /\ Front(s) \in Seq(S)
         /\ Last(s) \in S
         /\ Len(s) \in Nat \ {0}
         /\ DOMAIN s = 1 .. Len(s)
         /\ DOMAIN Front(s) = 1 .. Len(s) - 1
         /\ \A i \in 1 .. Len(s) - 1 : Front(s)[i] = s[i]
<1>1. Len(s) \in Nat /\ DOMAIN s = 1 .. Len(s) /\ Len(s) # 0
  BY EmptySeq, LenProperties
<1>2. Last(s) \in S
  BY <1>1, ElementOfSeq DEF Last
<1>3. /\ SubSeq(s, 1, Len(s) - 1) \in Seq(S)
      /\ Len(SubSeq(s, 1, Len(s) - 1)) = Len(s) - 1
      /\ \A i \in 1 .. Len(s) - 1 : SubSeq(s, 1, Len(s) - 1)[i] = s[i]
  BY <1>1, SubSeqProperties
<1>4. DOMAIN SubSeq(s, 1, Len(s) - 1) = 1 .. Len(s) - 1
  BY <1>3, LenProperties
<1> QED BY <1>1, <1>2, <1>3, <1>4 DEF Front

LEMMA WithoutType ==
  ASSUME NEW S, NEW s \in Seq(S), NEW m
  PROVE  Without(s, m) \in Seq(S)
<1>1. CASE m \in ToSet(s)
  <2> DEFINE i == CHOOSE i \in DOMAIN s : s[i] = m
  <2>1. i \in DOMAIN s
    BY <1>1 DEF ToSet
  <2>2. i \in 1 .. Len(s) /\ Len(s) \in Nat /\ \A j \in 1 .. Len(s) : s[j] \in S
    BY <2>1, LenProperties, ElementOfSeq
  <2>3. SubSeq(s, 1, i - 1) \in Seq(S) /\ SubSeq(s, i + 1, Len(s)) \in Seq(S)
    <3> HIDE DEF i
    <3>1. \A j \in 1 .. i - 1 : s[j] \in S
      BY <2>2
    <3>2. \A j \in i + 1 .. Len(s) : s[j] \in S
      BY <2>2
    <3> QED BY <2>2, <3>1, <3>2, SubSeqProperties
  <2>4. Without(s, m) = SubSeq(s, 1, i - 1) \o SubSeq(s, i + 1, Len(s))
    BY <1>1 DEF Without, RemoveAt
  <2> HIDE DEF i
  <2> QED BY <2>3, <2>4, ConcatProperties
<1>2. CASE m \notin ToSet(s)
  BY <1>2 DEF Without
<1> QED BY <1>1, <1>2

LEMMA ReplaceType ==
  ASSUME NEW S, NEW s \in Seq(S), NEW m, NEW n \in S
  PROVE  ReplaceAll(s, m, n) \in Seq(S)
BY DEF ReplaceAll

LEMMA ConsType ==
  ASSUME NEW S, NEW s \in Seq(S), NEW m \in S
  PROVE  Cons(m, s) \in Seq(S)
BY DEF Cons

LEMMA SingletonType ==
  ASSUME NEW S, NEW x \in S
  PROVE  <<x>> \in Seq(S)
OBVIOUS

LEMMA ToSetType ==
  ASSUME NEW S, NEW s \in Seq(S)
  PROVE  ToSet(s) \subseteq S
BY DEF ToSet

-----------------------------------------------------------------------------
(* Types.  One lemma for each operator the actions share, then one step    *)
(* for each action.                                                        *)

LEMMA FrameTypes ==
  ASSUME NEW op \in FrameOps, NEW flag \in BOOLEAN, NEW cause \in Causes \cup {"no"}
  PROVE  Frame(op, flag, cause) \in FrameType
BY DEF Frame, FrameType

LEMMA PushType ==
  ASSUME NEW rest \in Seq(FrameType), NEW op \in FrameOps, NEW flag \in BOOLEAN,
         NEW cause \in Causes \cup {"no"}
  PROVE  Append(rest, Frame(op, flag, cause)) \in Seq(FrameType)
BY FrameTypes

LEMMA PopType ==
  ASSUME TypeOK, frames # <<>>
  PROVE  /\ Front(frames) \in Seq(FrameType)
         /\ Last(frames) \in FrameType
         /\ Last(frames).flag \in BOOLEAN
         /\ Last(frames).cause \in Causes \cup {"no"}
<1>1. Front(frames) \in Seq(FrameType) /\ Last(frames) \in FrameType
  BY FrontLast DEF TypeOK
<1> QED BY <1>1 DEF FrameType

LEMMA PhaseTypes ==
  ASSUME NEW n \in Nat
  PROVE  Idle(n) \in PhaseType /\ Running(n) \in PhaseType /\ Job(n) \in PhaseType
BY DEF Idle, Running, Job, PhaseType

LEMMA PendingType ==
  ASSUME TypeOK
  PROVE  /\ Pending \subseteq Messages
         /\ ToSet(nextTurn) \subseteq Messages
         /\ ToSet(nextStep) \subseteq Messages
         /\ ToSet(turn.batch) \subseteq Messages
BY ToSetType DEF TypeOK, Pending, TurnType

LEMMA ParkType ==
  ASSUME TypeOK
  PROVE  ParkPending \in AuditType
BY PendingType DEF TypeOK, ParkPending, AuditType

LEMMA DropType ==
  ASSUME TypeOK, DropBatch
  PROVE  fate' \in [Messages -> Fates]
BY DEF TypeOK, DropBatch, Fates

LEMMA DiscardType ==
  ASSUME TypeOK, NEW S, Discard(S)
  PROVE  fate' \in [Messages -> Fates] /\ audit' \in AuditType
BY DEF TypeOK, Discard, Fates, AuditType

LEMMA SpendType ==
  ASSUME TypeOK, NEW what \in {"cancels", "jobs", "edits", "crashes"}, Spend(what)
  PROVE  used' \in UsedType
BY SMTT(30) DEF TypeOK, Spend, UsedType

LEMMA WakeType ==
  ASSUME TypeOK, NEW wakeAfterAbort \in BOOLEAN, NEW rest \in Seq(FrameType),
         WakeDriver(wakeAfterAbort, rest)
  PROVE  phase' \in PhaseType /\ frames' \in Seq(FrameType)
<1>1. phase.turn \in Nat
  BY DEF TypeOK, PhaseType
<1>2. CASE phase.kind = "idle"
  BY <1>1, <1>2, PhaseTypes, PushType DEF WakeDriver, StartDriver, FrameOps, DriverOps
<1>3. CASE phase.kind # "idle"
  BY <1>3 DEF WakeDriver, LatchIf, TypeOK, PhaseType
<1> QED BY <1>2, <1>3

LEMMA AbortType ==
  ASSUME TypeOK, NEW cause \in Causes \cup {"no"}, NEW keepInbox \in BOOLEAN,
         FireAbort(cause, keepInbox)
  PROVE  phase' \in PhaseType /\ audit' \in AuditType
<1>1. CASE phase.kind = "idle"
  BY <1>1 DEF FireAbort, TypeOK
<1>2. CASE phase.kind # "idle"
  <2> DEFINE c == IF phase.aborted = "no" THEN cause ELSE phase.aborted
             w == phase.wake /\ keepInbox
  <2>1. phase' \in PhaseType
    <3>1. phase' = [phase EXCEPT !.aborted = c, !.wake = w]
      BY <1>2 DEF FireAbort
    <3>2. c \in Causes \cup {"no"} /\ w \in BOOLEAN
      BY DEF TypeOK, PhaseType
    <3> HIDE DEF c, w
    <3> QED BY <3>1, <3>2 DEF TypeOK, PhaseType
  <2> DEFINE owed == IF keepInbox /\ Aborted THEN audit.owed ELSE audit.owed \ Pending
             kept == IF keepInbox /\ ~Aborted /\ phase.kind = "running" /\ ~AbortUnseen
                     THEN audit.kept \cup Pending ELSE audit.kept
  <2>2. audit' \in AuditType
    <3>1. audit' = [audit EXCEPT !.owed = owed, !.kept = kept]
      BY <1>2 DEF FireAbort
    <3>2. owed \subseteq Messages /\ kept \subseteq Messages
      BY PendingType DEF TypeOK, AuditType
    <3> HIDE DEF owed, kept
    <3> QED BY <3>1, <3>2 DEF TypeOK, AuditType
  <2> QED BY <2>1, <2>2
<1> QED BY <1>1, <1>2

LEMMA ClaimType ==
  ASSUME TypeOK, NEW target, NEW rest \in Seq(FrameType), ClaimStep(target, rest)
  PROVE  /\ nextTurn' \in Seq(Messages) /\ nextStep' \in Seq(Messages)
         /\ fate' \in [Messages -> Fates]
         /\ turn' \in TurnType
         /\ audit' \in AuditType
         /\ pc' \in Suspended
         /\ frames' \in Seq(FrameType)
<1> DEFINE prompt == NextPrompt(target)
           batch  == nextStep \o prompt
<1>1. prompt \in Seq(Messages) /\ (prompt # <<>> => Tail(nextTurn) \in Seq(Messages))
  <2>1. CASE nextTurn = <<>>
    BY <2>1, EmptySeq DEF NextPrompt
  <2>2. CASE nextTurn # <<>>
    BY <2>2, HeadTailProperties DEF NextPrompt, TypeOK
  <2> QED BY <2>1, <2>2
<1>2. batch \in Seq(Messages)
  BY <1>1, ConcatProperties DEF TypeOK
<1>3. ToSet(prompt) \subseteq Messages /\ ToSet(batch) \subseteq Messages
  BY <1>1, <1>2, ToSetType
<1>4. turn' = [turn EXCEPT !.batch = batch, !.prompts = @ \cup ToSet(prompt)]
  BY DEF ClaimStep
<1>5. audit' = [audit EXCEPT !.owed = @ \ ToSet(batch)]
  BY DEF ClaimStep
<1>6. fate' \in [Messages -> Fates]
  BY DEF ClaimStep, TypeOK, Fates
<1>7. nextTurn' \in Seq(Messages) /\ nextStep' \in Seq(Messages)
  BY <1>1, EmptySeq DEF ClaimStep, TypeOK
<1>8. pc' \in Suspended /\ frames' \in Seq(FrameType)
  BY DEF ClaimStep, Suspended
<1> HIDE DEF prompt, batch
<1>9. turn' \in TurnType
  BY <1>2, <1>3, <1>4 DEF TypeOK, TurnType
<1>10. audit' \in AuditType
  BY <1>5 DEF TypeOK, AuditType
<1> QED BY <1>6, <1>7, <1>8, <1>9, <1>10

LEMMA EndTurnType ==
  ASSUME TypeOK, NEW drains \in BOOLEAN, NEW rest \in Seq(FrameType), EndTurn(drains, rest)
  PROVE  /\ log' \in LogType
         /\ turn' \in TurnType
         /\ pc' = "none"
         /\ frames' \in Seq(FrameType)
<1>1. NoTurn \in TurnType
  BY EmptySeq DEF NoTurn, TurnType
<1>2. log' \in LogType
  BY DEF EndTurn, TypeOK, LogType
<1>3. frames' \in Seq(FrameType)
  BY PushType DEF EndTurn, FrameOps, DriverOps
<1> QED BY <1>1, <1>2, <1>3 DEF EndTurn

LEMMA BeginTurnType ==
  ASSUME TypeOK, NEW rest \in Seq(FrameType), BeginTurn(rest)
  PROVE  /\ phase' \in PhaseType
         /\ log' \in LogType
         /\ turn' \in TurnType
         /\ pc' \in Suspended \cup {"none"}
         /\ frames' \in Seq(FrameType)
         /\ audit' \in AuditType
<1>1. CASE pc' = "exit" /\ frames' = rest /\ audit' = ParkPending /\ UNCHANGED <<phase, turn, log>>
  BY <1>1, ParkType DEF TypeOK, Suspended
<1>2. CASE /\ log' = [log EXCEPT !.turn = phase.turn + 1, !.open = TRUE, !.step = 0]
           /\ phase' = [phase EXCEPT !.turn = @ + 1]
           /\ turn' = NoTurn
           /\ pc' = "none"
           /\ frames' = Append(rest, Frame("open", FALSE, "no"))
           /\ UNCHANGED audit
  <2> DEFINE n == phase.turn + 1
  <2>0. n \in Nat
    BY DEF TypeOK, PhaseType
  <2> HIDE DEF n
  <2>1. phase' \in PhaseType
    <3>1. phase' = [phase EXCEPT !.turn = n]
      BY <1>2 DEF n
    <3> QED BY <2>0, <3>1 DEF TypeOK, PhaseType
  <2>2. log' \in LogType
    <3>1. log' = [log EXCEPT !.turn = n, !.open = TRUE, !.step = 0]
      BY <1>2 DEF n
    <3> QED BY <2>0, <3>1 DEF TypeOK, LogType
  <2>3. turn' \in TurnType
    BY <1>2, EmptySeq DEF NoTurn, TurnType
  <2>4. frames' \in Seq(FrameType)
    BY <1>2, PushType DEF FrameOps, DriverOps
  <2> QED BY <1>2, <2>1, <2>2, <2>3, <2>4 DEF TypeOK
<1> QED BY <1>1, <1>2 DEF BeginTurn

LEMMA CallTypes == TypeOK /\ Call => TypeOK'
<1> SUFFICES ASSUME TypeOK, Call PROVE TypeOK'
  OBVIOUS
<1>1. ASSUME NEW m \in Messages, NEW target \in Targets, NEW wakeup \in BOOLEAN,
             Send(m, target, wakeup)
      PROVE  TypeOK'
  <2>1. nextTurn' \in Seq(Messages) /\ nextStep' \in Seq(Messages)
    BY <1>1, AppendProperties DEF Send, Enqueue, TypeOK
  <2>2. fate' \in [Messages -> Fates]
    BY <1>1 DEF Send, Enqueue, TypeOK, Fates
  <2>3. frames' \in Seq(FrameType)
    BY <1>1, PushType DEF Send, TypeOK, FrameOps
  <2>4. audit' \in AuditType
    BY <1>1 DEF Send, OweTurn, TypeOK, AuditType
  <2> QED BY <1>1, <2>1, <2>2, <2>3, <2>4 DEF Send, TypeOK
<1>2. ASSUME CancelKeepingInbox PROVE TypeOK'
  BY <1>2, AbortType, SpendType DEF CancelKeepingInbox, inbox, TypeOK, Causes
<1>3. ASSUME NEW cause \in Causes, Cancel(cause) PROVE TypeOK'
  <2>1. frames' \in Seq(FrameType)
    BY <1>3, PushType DEF Cancel, TypeOK, FrameOps
  <2> QED BY <1>3, <2>1, EmptySeq, DiscardType, SpendType DEF Cancel, TypeOK
<1>4. ASSUME NEW cause \in Causes, NEW keepInbox \in BOOLEAN,
             CancelInObserver(cause, keepInbox)
      PROVE  TypeOK'
  BY <1>4, AbortType, SpendType DEF CancelInObserver, inbox, TypeOK
<1>5. ASSUME RunMaintenance PROVE TypeOK'
  <2>1. phase.turn \in Nat
    BY DEF TypeOK, PhaseType
  <2> QED BY <1>5, <2>1, PhaseTypes, SpendType DEF RunMaintenance, inbox, TypeOK
<1>6. ASSUME NEW m \in Messages, RemovePending(m) PROVE TypeOK'
  BY <1>6, WithoutType, DiscardType, SpendType DEF RemovePending, TypeOK
<1>7. ASSUME NEW m \in Messages, NEW n \in Messages, ReplacePending(m, n) PROVE TypeOK'
  <2>1. nextTurn' \in Seq(Messages) /\ nextStep' \in Seq(Messages)
    BY <1>7, ReplaceType DEF ReplacePending, TypeOK
  <2>2. fate' \in [Messages -> Fates]
    BY <1>7 DEF ReplacePending, TypeOK, Fates
  <2>3. audit' \in AuditType
    BY <1>7 DEF ReplacePending, TypeOK, AuditType
  <2> QED BY <1>7, <2>1, <2>2, <2>3, SpendType DEF ReplacePending, TypeOK
<1>8. ASSUME NEW m \in Messages, NEW target \in Targets, PrependPending(m, target)
      PROVE  TypeOK'
  <2>1. nextTurn' \in Seq(Messages) /\ nextStep' \in Seq(Messages)
    BY <1>8, ConsType DEF PrependPending, TypeOK
  <2>2. fate' \in [Messages -> Fates]
    BY <1>8 DEF PrependPending, TypeOK, Fates
  <2> QED BY <1>8, <2>1, <2>2, SpendType DEF PrependPending, TypeOK
<1> QED BY <1>1, <1>2, <1>3, <1>4, <1>5, <1>6, <1>7, <1>8 DEF Call

LEMMA ContinueTypes == TypeOK /\ Continue => TypeOK'
<1> SUFFICES ASSUME TypeOK, Continue PROVE TypeOK'
  OBVIOUS
<1>0. frames # <<>>
  BY DEF Continue, Wake, CancelClearsTurns, CancelAborts, Kick, OpenTurn, FinishFailedTurn,
         AfterTurn, Relatch, Top
<1> USE PopType, <1>0
<1>1. ASSUME Wake PROVE TypeOK'
  BY <1>1, WakeType DEF Wake, inbox, TypeOK
<1>2. ASSUME CancelClearsTurns PROVE TypeOK'
  <2>1. frames' \in Seq(FrameType)
    BY <1>2, PushType DEF CancelClearsTurns, FrameOps
  <2> QED BY <1>2, <2>1, EmptySeq, DiscardType DEF CancelClearsTurns, TypeOK
<1>3. ASSUME CancelAborts PROVE TypeOK'
  BY <1>3, AbortType DEF CancelAborts, inbox, TypeOK
<1>4. ASSUME Kick PROVE TypeOK'
  BY <1>4, BeginTurnType DEF Kick, inbox, TypeOK
<1>5. ASSUME OpenTurn PROVE TypeOK'
  <2>1. CASE Aborted
    BY <1>5, <2>1, EndTurnType, ParkType DEF OpenTurn, inbox, TypeOK
  <2>2. CASE ~Aborted
    BY <1>5, <2>2, ClaimType DEF OpenTurn, TypeOK
  <2> QED BY <2>1, <2>2
<1>6. ASSUME FinishFailedTurn PROVE TypeOK'
  BY <1>6, EndTurnType, ParkType DEF FinishFailedTurn, inbox, TypeOK
<1>7. ASSUME AfterTurn PROVE TypeOK'
  <2>1. phase' \in PhaseType
    <3>1. CASE UNCHANGED phase
      BY <3>1 DEF TypeOK
    <3>2. CASE phase' = [phase EXCEPT !.aborted = "no", !.wake = FALSE, !.step = 0]
      BY <3>2 DEF TypeOK, PhaseType
    <3> QED BY <1>7, <3>1, <3>2 DEF AfterTurn
  <2> QED BY <1>7, <2>1 DEF AfterTurn, inbox, TypeOK, Suspended
<1>8. ASSUME Relatch PROVE TypeOK'
  BY <1>8, WakeType DEF Relatch, inbox, TypeOK
<1> QED BY <1>1, <1>2, <1>3, <1>4, <1>5, <1>6, <1>7, <1>8 DEF Continue

LEMMA SettleTypes == TypeOK /\ Settle => TypeOK'
<1> SUFFICES ASSUME TypeOK, Settle PROVE TypeOK'
  OBVIOUS
<1>0. NoTurn \in TurnType
  BY EmptySeq DEF NoTurn, TurnType
<1>1. ASSUME PreStepDecides PROVE TypeOK'
  <2>1. turn' \in TurnType
    BY <1>1 DEF PreStepDecides, TypeOK, TurnType
  <2> QED BY <1>1, <2>1 DEF PreStepDecides, inbox, TypeOK, Suspended
<1>2. ASSUME PreStepFails PROVE TypeOK'
  <2>1. CASE Aborted
    BY <1>2, <2>1, DropType, EndTurnType, ParkType DEF PreStepFails, TypeOK
  <2>2. CASE ~Aborted
    <3>1. turn' \in TurnType
      BY <1>2, <2>2, EmptySeq DEF PreStepFails, TypeOK, TurnType
    <3>2. frames' \in Seq(FrameType)
      <4>1. frames' = Append(frames, Frame("failing", FALSE, "no"))
        BY <1>2, <2>2 DEF PreStepFails
      <4> QED BY <4>1, PushType DEF TypeOK, FrameOps, DriverOps
    <3> QED BY <1>2, <2>2, <3>1, <3>2, DropType DEF PreStepFails, TypeOK
  <2> QED BY <2>1, <2>2
<1>3. ASSUME StepRejected PROVE TypeOK'
  BY <1>3, DropType, EndTurnType, ParkType DEF StepRejected, TypeOK
<1>4. ASSUME NothingToEnter PROVE TypeOK'
  <2>1. audit' \in AuditType
    BY <1>4, PendingType DEF NothingToEnter, TypeOK, AuditType
  <2>2. (turn.ends # "null") \in BOOLEAN
    OBVIOUS
  <2> QED BY <1>4, <2>1, <2>2, DropType, EndTurnType DEF NothingToEnter, TypeOK
<1>5. ASSUME EnterStep PROVE TypeOK'
  <2> DEFINE n == phase.step + 1
  <2>1. n \in Nat
    BY DEF TypeOK, PhaseType
  <2> HIDE DEF n
  <2>2. phase' = [phase EXCEPT !.step = n] /\ log' = [log EXCEPT !.step = n, !.stepOpen = TRUE]
    BY <1>5 DEF EnterStep, n
  <2>3. phase' \in PhaseType
    BY <2>1, <2>2 DEF TypeOK, PhaseType
  <2>4. log' \in LogType
    BY <2>1, <2>2 DEF TypeOK, LogType
  <2>5. turn' \in TurnType
    BY <1>5, EmptySeq DEF EnterStep, TypeOK, TurnType
  <2>6. fate' \in [Messages -> Fates]
    BY <1>5 DEF EnterStep, TypeOK, Fates
  <2> QED BY <1>5, <2>3, <2>4, <2>5, <2>6 DEF EnterStep, TypeOK, Suspended
<1>6. ASSUME RequestBuilt \/ StreamFailed \/ ToolsCalled PROVE TypeOK'
  BY <1>6 DEF RequestBuilt, StreamFailed, ToolsCalled, Resume, inbox, TypeOK, Suspended
<1>7. ASSUME RequestRetried PROVE TypeOK'
  <2>1. turn' \in TurnType
    <3> DEFINE n == turn.attempts + 1
    <3>1. n \in Nat
      BY DEF TypeOK, TurnType
    <3>2. turn' = [turn EXCEPT !.attempts = n]
      BY <1>7 DEF RequestRetried
    <3> HIDE DEF n
    <3> QED BY <3>1, <3>2 DEF TypeOK, TurnType
  <2> QED BY <1>7, <2>1 DEF RequestRetried, inbox, TypeOK, Suspended
<1>8. ASSUME StepReturns PROVE TypeOK'
  <2>1. turn' \in TurnType
    <3>1. PICK end \in {"completed", "max-tokens", "null"} :
            turn' = [turn EXCEPT !.ends = IF @ = "max-tokens" THEN @ ELSE end]
      BY <1>8 DEF StepReturns
    <3> DEFINE e == IF turn.ends = "max-tokens" THEN turn.ends ELSE end
    <3>2. e \in {"completed", "max-tokens", "null"} /\ turn' = [turn EXCEPT !.ends = e]
      BY <3>1
    <3> HIDE DEF e
    <3> QED BY <3>2 DEF TypeOK, TurnType
  <2> QED BY <1>8, <2>1 DEF StepReturns, inbox, TypeOK, Suspended
<1>9. ASSUME StepFails PROVE TypeOK'
  <2>1. log' \in LogType
    BY <1>9 DEF StepFails, TypeOK, LogType
  <2>2. frames' \in Seq(FrameType)
    BY <1>9, PushType DEF StepFails, TypeOK, FrameOps, DriverOps
  <2> QED BY <1>9, <2>1, <2>2 DEF StepFails, inbox, TypeOK
<1>10. ASSUME EndStep PROVE TypeOK'
  <2>1. log' \in LogType
    BY <1>10 DEF EndStep, TypeOK, LogType
  <2>2. CASE Aborted
    <3>1. frames' \in Seq(FrameType)
      BY <1>10, <2>2, PushType DEF EndStep, TypeOK, FrameOps, DriverOps
    <3> QED BY <1>10, <2>1, <2>2, <3>1 DEF EndStep, inbox, TypeOK
  <2>3. CASE ~Aborted /\ turn.ends # "null" /\ nextStep = <<>>
    BY <1>10, <2>1, <2>3 DEF EndStep, inbox, TypeOK, Suspended
  <2>4. CASE ~Aborted /\ ~(turn.ends # "null" /\ nextStep = <<>>)
    BY <1>10, <2>1, <2>4, ClaimType DEF EndStep, TypeOK
  <2> QED BY <2>2, <2>3, <2>4
<1>11. ASSUME Stop PROVE TypeOK'
  <2>1. CASE nextStep = <<>>
    BY <1>11, <2>1, EndTurnType DEF Stop, inbox, TypeOK
  <2>2. CASE nextStep # <<>>
    BY <1>11, <2>2, ClaimType DEF Stop, TypeOK
  <2> QED BY <2>1, <2>2
<1>12. ASSUME StopFails PROVE TypeOK'
  <2>1. CASE Aborted
    BY <1>12, <2>1, EndTurnType, ParkType DEF StopFails, inbox, TypeOK
  <2>2. CASE ~Aborted
    <3>1. frames' \in Seq(FrameType)
      BY <1>12, <2>2, PushType DEF StopFails, TypeOK, FrameOps, DriverOps
    <3> QED BY <1>12, <2>2, <3>1 DEF StopFails, inbox, TypeOK
  <2> QED BY <2>1, <2>2
<1>13. ASSUME NextTurn PROVE TypeOK'
  BY <1>13, BeginTurnType DEF NextTurn, inbox, TypeOK
<1>14. ASSUME Exit PROVE TypeOK'
  <2>1. phase.turn \in Nat /\ phase.wake \in BOOLEAN
    BY DEF TypeOK, PhaseType
  <2>2. frames' \in Seq(FrameType)
    BY <1>14, <2>1, PushType DEF Exit, TypeOK, FrameOps
  <2>3. audit' \in AuditType
    BY <1>14 DEF Exit, TypeOK, AuditType
  <2> QED BY <1>0, <1>14, <2>1, <2>2, <2>3, PhaseTypes DEF Exit, inbox, TypeOK
<1>15. ASSUME EndMaintenance PROVE TypeOK'
  <2>1. phase.turn \in Nat
    BY DEF TypeOK, PhaseType
  <2>2. phase' \in PhaseType
    BY <1>15, <2>1, PhaseTypes DEF EndMaintenance
  <2>3. <<Frame("kick", FALSE, "no")>> \in Seq(FrameType)
    <3>1. Frame("kick", FALSE, "no") \in FrameType
      BY FrameTypes DEF FrameOps, DriverOps
    <3> QED BY <3>1, SingletonType
  <2>4. frames' \in Seq(FrameType)
    BY <1>15, <2>3 DEF EndMaintenance, TypeOK
  <2>5. audit' \in AuditType
    BY <1>15 DEF EndMaintenance, TypeOK, AuditType
  <2> QED BY <1>15, <2>2, <2>4, <2>5 DEF EndMaintenance, inbox, TypeOK
<1> QED BY <1>1, <1>2, <1>3, <1>4, <1>5, <1>6, <1>7, <1>8, <1>9, <1>10, <1>11, <1>12,
           <1>13, <1>14, <1>15 DEF Settle

LEMMA RestartTypes == TypeOK /\ Restart => TypeOK'
<1> SUFFICES ASSUME TypeOK, Restart PROVE TypeOK'
  OBVIOUS
<1>1. phase' \in PhaseType
  BY PhaseTypes DEF Restart, ResumedTurn, TypeOK, LogType
<1>2. turn' \in TurnType
  BY EmptySeq DEF Restart, NoTurn, TurnType
<1>3. log' \in LogType
  BY DEF Restart, ClosedLog, TypeOK, LogType
<1>4. audit' \in AuditType
  BY DEF Restart, AuditType
<1>5. frames' \in Seq(FrameType)
  BY EmptySeq DEF Restart
<1> QED BY <1>1, <1>2, <1>3, <1>4, <1>5, DropType, SpendType DEF Restart, TypeOK

LEMMA InitTypes == Init => TypeOK
<1> SUFFICES ASSUME Init PROVE TypeOK
  OBVIOUS
<1>1. phase \in PhaseType
  BY PhaseTypes DEF Init
<1>2. turn \in TurnType
  BY EmptySeq DEF Init, NoTurn, TurnType
<1>3. audit \in AuditType /\ log \in LogType /\ used \in UsedType
  BY DEF Init, AuditType, LogType, UsedType
<1>4. fate \in [Messages -> Fates]
  BY DEF Init, Fates
<1> QED BY <1>1, <1>2, <1>3, <1>4, EmptySeq DEF Init, TypeOK

LEMMA NextTypes == TypeOK /\ [Next]_vars => TypeOK'
<1> SUFFICES ASSUME TypeOK, [Next]_vars PROVE TypeOK'
  OBVIOUS
<1>1. CASE UNCHANGED vars
  BY <1>1 DEF vars, TypeOK
<1> QED BY <1>1, CallTypes, ContinueTypes, SettleTypes, RestartTypes DEF Next

(* Every variable stays in its type, for every instance.                   *)
THEOREM TypeCorrect == Spec => []TypeOK
BY InitTypes, NextTypes, PTL DEF Spec

-----------------------------------------------------------------------------
(* The stack of continuations.  A listener's call puts a frame on top of a *)
(* driver's without touching it; a driver's own continuation is put on a   *)
(* stack that holds no other.                                              *)

LEMMA Push ==
  ASSUME NEW s \in Seq(FrameType), NEW op \in FrameOps, NEW flag \in BOOLEAN,
         NEW cause \in Causes \cup {"no"}, NEW ops
  PROVE  /\ Holds(Append(s, Frame(op, flag, cause)), ops) <=> Holds(s, ops) \/ op \in ops
         /\ Once(s, ops) /\ (op \in ops => ~Holds(s, ops))
            => Once(Append(s, Frame(op, flag, cause)), ops)
<1> DEFINE f == Frame(op, flag, cause)
           t == Append(s, f)
<1>1. f \in FrameType /\ f.op = op
  BY FrameTypes DEF Frame
<1> HIDE DEF f
<1>2. /\ Len(s) \in Nat /\ DOMAIN s = 1 .. Len(s) /\ t \in Seq(FrameType)
      /\ Len(t) = Len(s) + 1 /\ t[Len(s) + 1] = f
      /\ \A i \in 1 .. Len(s) : t[i] = s[i]
  BY <1>1, LenProperties, AppendProperties
<1>3. DOMAIN t = 1 .. Len(s) + 1
  BY <1>2, LenProperties
<1> HIDE DEF t
<1>4. \A i \in DOMAIN t : (i \in DOMAIN s /\ t[i] = s[i]) \/ (i = Len(s) + 1 /\ t[i].op = op)
  BY <1>1, <1>2, <1>3
<1>5. \A i \in DOMAIN s : i \in DOMAIN t /\ t[i] = s[i]
  BY <1>2, <1>3
<1>6. Len(s) + 1 \in DOMAIN t /\ t[Len(s) + 1].op = op
  BY <1>1, <1>2, <1>3
<1>7. Holds(t, ops) <=> Holds(s, ops) \/ op \in ops
  BY <1>4, <1>5, <1>6 DEF Holds
<1>8. Once(s, ops) /\ (op \in ops => ~Holds(s, ops)) => Once(t, ops)
  BY <1>4 DEF Once, Holds
<1> QED BY <1>7, <1>8 DEF t, f

LEMMA Pop ==
  ASSUME TypeOK, frames # <<>>, NEW ops
  PROVE  /\ Holds(frames, ops) <=> Holds(Front(frames), ops) \/ Last(frames).op \in ops
         /\ Once(frames, ops) =>
              /\ Once(Front(frames), ops)
              /\ Last(frames).op \in ops => ~Holds(Front(frames), ops)
<1> DEFINE n == Len(frames)
           t == Front(frames)
<1>1. /\ n \in Nat \ {0} /\ DOMAIN frames = 1 .. n
      /\ DOMAIN t = 1 .. n - 1
      /\ \A i \in 1 .. n - 1 : t[i] = frames[i]
  BY FrontLast DEF TypeOK
<1>2. Last(frames) = frames[n]
  BY DEF Last
<1> HIDE DEF n, t
<1>3. \A i \in DOMAIN frames : (i \in DOMAIN t /\ t[i] = frames[i]) \/ i = n
  BY <1>1
<1>4. \A i \in DOMAIN t : i \in DOMAIN frames /\ i # n /\ t[i] = frames[i]
  BY <1>1
<1>5. n \in DOMAIN frames
  BY <1>1
<1>6. Holds(frames, ops) <=> Holds(t, ops) \/ Last(frames).op \in ops
  BY <1>2, <1>3, <1>4, <1>5 DEF Holds
<1>7. Once(frames, ops) => Once(t, ops) /\ (Last(frames).op \in ops => ~Holds(t, ops))
  BY <1>2, <1>4, <1>5 DEF Holds, Once
<1> QED BY <1>6, <1>7 DEF t

LEMMA Empty ==
  ASSUME NEW ops
  PROVE  ~Holds(<<>>, ops) /\ Once(<<>>, ops)
BY DEF Holds, Once

(* The continuations that run inside a turn.                               *)
LogOps == {"open", "failing", "ending"}

LEMMA PushDriver ==
  ASSUME NEW rest \in Seq(FrameType), ~Holds(rest, DriverOps), NEW op \in DriverOps,
         NEW flag \in BOOLEAN,
         NEW t, t = Append(rest, Frame(op, flag, "no"))
  PROVE  /\ Once(t, DriverOps) /\ Holds(t, DriverOps)
         /\ Holds(t, LogOps) <=> op \in LogOps
         /\ Holds(t, {"kick"}) <=> op = "kick"
         /\ Holds(t, {"open"}) <=> op = "open"
<1>1. op \in FrameOps
  BY DEF FrameOps
<1>2. Once(rest, DriverOps)
  BY DEF Once, Holds
<1>3. ~Holds(rest, LogOps) /\ ~Holds(rest, {"kick"}) /\ ~Holds(rest, {"open"})
  BY DEF Holds, LogOps, DriverOps
<1>4. Once(t, DriverOps) /\ Holds(t, DriverOps)
  BY <1>1, <1>2, Push
<1>5. Holds(t, LogOps) <=> op \in LogOps
  BY <1>1, <1>3, Push
<1>6. Holds(t, {"kick"}) <=> op = "kick"
  BY <1>1, <1>3, Push
<1>7. Holds(t, {"open"}) <=> op = "open"
  BY <1>1, <1>3, Push
<1> QED BY <1>4, <1>5, <1>6, <1>7

LEMMA PopDriver ==
  ASSUME TypeOK, OneDriver, frames # <<>>, Last(frames).op \in DriverOps
  PROVE  /\ Front(frames) \in Seq(FrameType)
         /\ ~Holds(Front(frames), DriverOps)
         /\ phase.kind = "running" /\ pc = "none"
         /\ \A ops \in SUBSET DriverOps : Holds(frames, ops) <=> Last(frames).op \in ops
<1>1. ~Holds(Front(frames), DriverOps)
  BY Pop DEF OneDriver
<1>2. ASSUME NEW ops \in SUBSET DriverOps
      PROVE  Holds(frames, ops) <=> Last(frames).op \in ops
  <2>1. ~Holds(Front(frames), ops)
    BY <1>1 DEF Holds
  <2> QED BY <2>1, Pop
<1>3. Holds(frames, DriverOps)
  BY <1>2
<1> QED BY <1>1, <1>2, <1>3, PopType DEF OneDriver

(* Stacks that differ in the frames of listeners only.                     *)
SameDrivers(s, t) == /\ Once(s, DriverOps) => Once(t, DriverOps)
                     /\ \A ops \in SUBSET DriverOps : Holds(t, ops) <=> Holds(s, ops)

LEMMA PushListener ==
  ASSUME NEW s \in Seq(FrameType), NEW op \in FrameOps \ DriverOps, NEW flag \in BOOLEAN,
         NEW cause \in Causes \cup {"no"}
  PROVE  SameDrivers(s, Append(s, Frame(op, flag, cause)))
BY Push DEF SameDrivers

LEMMA PopListener ==
  ASSUME TypeOK, frames # <<>>, Last(frames).op \notin DriverOps
  PROVE  SameDrivers(frames, Front(frames)) /\ Front(frames) \in Seq(FrameType)
BY Pop, PopType DEF SameDrivers

-----------------------------------------------------------------------------
(* One driver, and its agreement with the log, are preserved together: the *)
(* first says which continuation may run, the second what it finds open.   *)

Control == TypeOK /\ OneDriver /\ LogAgrees

LEMMA ListenerSteps ==
  ASSUME Control, phase' \in PhaseType, UNCHANGED <<pc, log>>,
         phase'.kind = "running" <=> phase.kind = "running",
         phase'.turn = phase.turn, phase'.step = phase.step,
         SameDrivers(frames, frames')
  PROVE  OneDriver' /\ LogAgrees'
<1>1. /\ Once(frames', DriverOps)
      /\ Holds(frames', DriverOps) <=> Holds(frames, DriverOps)
      /\ Holds(frames', LogOps) <=> Holds(frames, LogOps)
      /\ Holds(frames', {"kick"}) <=> Holds(frames, {"kick"})
  BY DEF Control, OneDriver, SameDrivers, DriverOps, LogOps
<1>2. OneDriver'
  BY <1>1 DEF Control, OneDriver
<1>3. LogAgrees'
  BY <1>1 DEF Control, LogAgrees, LogOps
<1> QED BY <1>2, <1>3

LEMMA WakeSteps ==
  ASSUME Control, NEW rest \in Seq(FrameType), SameDrivers(frames, rest),
         NEW wakeAfterAbort \in BOOLEAN, WakeDriver(wakeAfterAbort, rest),
         UNCHANGED <<pc, log>>
  PROVE  OneDriver' /\ LogAgrees'
<1>1. CASE phase.kind # "idle"
  <2>1. phase'.kind = phase.kind /\ phase'.turn = phase.turn /\ phase'.step = phase.step
    BY <1>1 DEF WakeDriver, LatchIf, Control, TypeOK, PhaseType
  <2>2. frames' = rest
    BY <1>1 DEF WakeDriver, LatchIf
  <2>3. phase' \in PhaseType
    BY WakeType DEF Control
  <2> QED BY <2>1, <2>2, <2>3, ListenerSteps
<1>2. CASE phase.kind = "idle"
  <2>1. /\ phase' = Running(phase.turn)
        /\ frames' = Append(rest, Frame("kick", FALSE, "no"))
    BY <1>2 DEF WakeDriver, StartDriver
  <2>2. ~Holds(rest, DriverOps) /\ pc = "none"
    BY <1>2 DEF SameDrivers, Control, OneDriver
  <2>3. /\ Once(frames', DriverOps) /\ Holds(frames', DriverOps)
        /\ ~Holds(frames', LogOps)
    BY <2>1, <2>2, PushDriver DEF DriverOps, LogOps
  <2>4. phase'.kind = "running" /\ phase'.turn = phase.turn /\ phase'.step = 0
    BY <2>1 DEF Running, Idle
  <2>5. ~log.open /\ ~log.stepOpen
    <3>1. ~Holds(frames, LogOps)
      BY <1>2 DEF Control, OneDriver, Holds, LogOps, DriverOps
    <3> QED BY <2>2, <3>1 DEF Control, LogAgrees, LogOps, InTurn, InStep
  <2>6. OneDriver'
    BY <2>2, <2>3, <2>4 DEF OneDriver
  <2>7. LogAgrees'
    BY <2>2, <2>3, <2>4, <2>5 DEF Control, LogAgrees, LogOps, InTurn, InStep
  <2> QED BY <2>6, <2>7
<1> QED BY <1>1, <1>2

LEMMA EndTurnSteps ==
  ASSUME Control, NEW rest \in Seq(FrameType), ~Holds(rest, DriverOps),
         phase.kind = "running", pc \notin InStep,
         NEW drains \in BOOLEAN, EndTurn(drains, rest), UNCHANGED phase
  PROVE  OneDriver' /\ LogAgrees'
<1>1. /\ log' = [log EXCEPT !.open = FALSE]
      /\ pc' = "none"
      /\ frames' = Append(rest, Frame("close", drains, "no"))
  BY DEF EndTurn
<1>2. /\ Once(frames', DriverOps) /\ Holds(frames', DriverOps)
      /\ ~Holds(frames', LogOps) /\ ~Holds(frames', {"kick"})
  BY <1>1, PushDriver DEF DriverOps, LogOps
<1>3. ~log'.open /\ log'.turn = log.turn /\ ~log'.stepOpen
  BY <1>1 DEF Control, LogAgrees, TypeOK, LogType
<1>4. OneDriver'
  BY <1>1, <1>2 DEF OneDriver
<1>5. LogAgrees'
  BY <1>1, <1>2, <1>3 DEF Control, LogAgrees, LogOps, InTurn, InStep
<1> QED BY <1>4, <1>5

LEMMA SuspendSteps ==
  ASSUME Control, ~Holds(frames', DriverOps), phase.kind = "running",
         pc' \in Suspended, phase'.kind = "running", phase'.turn = log'.turn,
         log'.open <=> pc' \in InTurn,
         log'.stepOpen <=> pc' \in InStep,
         log'.open => log'.turn # 0 /\ log'.step = phase'.step,
         log'.stepOpen => log'.step # 0,
         pc' = "again" => phase'.step = 0
  PROVE  OneDriver' /\ LogAgrees'
<1>1. Once(frames', DriverOps) /\ ~Holds(frames', LogOps) /\ ~Holds(frames', {"kick"})
  BY DEF Holds, Once, DriverOps, LogOps
<1>2. OneDriver'
  BY <1>1 DEF OneDriver, Suspended
<1>3. LogAgrees'
  BY <1>1 DEF LogAgrees, LogOps
<1> QED BY <1>2, <1>3

LEMMA BeginTurnSteps ==
  ASSUME Control, NEW rest \in Seq(FrameType), ~Holds(rest, DriverOps),
         phase.kind = "running", ~log.open, ~log.stepOpen, phase.step = 0,
         BeginTurn(rest)
  PROVE  OneDriver' /\ LogAgrees'
<1>1. CASE pc' = "exit" /\ frames' = rest /\ UNCHANGED <<phase, log>>
  BY <1>1, SuspendSteps DEF Control, LogAgrees, Suspended, InTurn, InStep
<1>2. CASE /\ log' = [log EXCEPT !.turn = phase.turn + 1, !.open = TRUE, !.step = 0]
           /\ phase' = [phase EXCEPT !.turn = @ + 1]
           /\ pc' = "none"
           /\ frames' = Append(rest, Frame("open", FALSE, "no"))
  <2>1. /\ Once(frames', DriverOps) /\ Holds(frames', DriverOps)
        /\ Holds(frames', LogOps) /\ ~Holds(frames', {"kick"})
    BY <1>2, PushDriver DEF DriverOps, LogOps
  <2>2. /\ phase'.kind = "running" /\ phase'.turn = phase.turn + 1 /\ phase'.step = 0
        /\ log'.turn = phase.turn + 1 /\ log'.open /\ log'.step = 0 /\ ~log'.stepOpen
        /\ phase.turn \in Nat
    BY <1>2 DEF Control, TypeOK, PhaseType, LogType
  <2>3. OneDriver'
    BY <1>2, <2>1, <2>2 DEF OneDriver
  <2>4. log'.turn = phase'.turn /\ log'.turn # 0 /\ log'.step = phase'.step
    BY <2>2
  <2>5. LogAgrees'
    BY <1>2, <2>1, <2>2, <2>4 DEF LogAgrees, LogOps, InTurn, InStep
  <2> QED BY <2>3, <2>5
<1> QED BY <1>1, <1>2 DEF BeginTurn

LEMMA CallSteps == Control /\ Call => OneDriver' /\ LogAgrees'
<1> SUFFICES ASSUME Control, Call PROVE OneDriver' /\ LogAgrees'
  OBVIOUS
<1>0. TypeOK /\ TypeOK'
  BY CallTypes DEF Control
<1>1. SameDrivers(frames, frames)
  BY DEF SameDrivers
<1>2. ASSUME NEW cause \in Causes, NEW keepInbox \in BOOLEAN, FireAbort(cause, keepInbox),
             UNCHANGED <<pc, log, frames>>
      PROVE  OneDriver' /\ LogAgrees'
  <2>1. phase'.kind = phase.kind /\ phase'.turn = phase.turn /\ phase'.step = phase.step
    BY <1>0, <1>2 DEF FireAbort, TypeOK, PhaseType
  <2> QED BY <1>0, <1>1, <1>2, <2>1, ListenerSteps DEF TypeOK
<1>3. ASSUME UNCHANGED <<phase, pc, log, frames>> PROVE OneDriver' /\ LogAgrees'
  BY <1>0, <1>1, <1>3, ListenerSteps DEF TypeOK
<1>4. ASSUME NEW m \in Messages, NEW target \in Targets, NEW wakeup \in BOOLEAN,
             Send(m, target, wakeup)
      PROVE  OneDriver' /\ LogAgrees'
  <2>1. SameDrivers(frames, frames')
    <3>1. CASE wakeup
      <4> DEFINE flag == wakeup /\ phase.kind # "idle" /\ Aborted
      <4>1. frames' = Append(frames, Frame("wake", flag, "no")) /\ flag \in BOOLEAN
        BY <1>4, <3>1 DEF Send
      <4> HIDE DEF flag
      <4> QED BY <1>0, <4>1, PushListener DEF TypeOK, FrameOps, DriverOps
    <3>2. CASE ~wakeup
      BY <1>1, <1>4, <3>2 DEF Send
    <3> QED BY <3>1, <3>2
  <2> QED BY <1>0, <1>4, <2>1, ListenerSteps DEF Send, TypeOK
<1>5. ASSUME NEW cause \in Causes, Cancel(cause) PROVE OneDriver' /\ LogAgrees'
  <2> DEFINE flag == nextStep # <<>>
  <2>1. frames' = Append(frames, Frame("clearTurn", flag, cause)) /\ flag \in BOOLEAN
    BY <1>5 DEF Cancel
  <2> HIDE DEF flag
  <2>2. SameDrivers(frames, frames')
    BY <1>0, <2>1, PushListener DEF TypeOK, FrameOps, DriverOps
  <2> QED BY <1>0, <1>5, <2>2, ListenerSteps DEF Cancel, TypeOK
<1>6. ASSUME RunMaintenance PROVE OneDriver' /\ LogAgrees'
  <2>1. /\ phase'.kind = "maintenance" /\ phase.kind = "idle"
        /\ phase'.turn = phase.turn /\ phase'.step = 0
    BY <1>6 DEF RunMaintenance, Job, Idle
  <2>2. OneDriver'
    BY <1>6, <2>1 DEF RunMaintenance, Control, OneDriver
  <2>3. pc = "none" /\ ~Holds(frames, DriverOps)
    BY <2>1 DEF Control, OneDriver
  <2>4. ~Holds(frames, LogOps) /\ ~Holds(frames, {"kick"})
    BY <2>3 DEF Holds, DriverOps, LogOps
  <2>5. LogAgrees'
    BY <1>6, <2>1, <2>3, <2>4
       DEF RunMaintenance, Control, LogAgrees, LogOps, InTurn, InStep
  <2> QED BY <2>2, <2>5
<1>7. ASSUME CancelKeepingInbox PROVE OneDriver' /\ LogAgrees'
  BY <1>2, <1>7 DEF CancelKeepingInbox, Causes
<1>8. ASSUME NEW cause \in Causes, NEW keepInbox \in BOOLEAN,
             CancelInObserver(cause, keepInbox)
      PROVE  OneDriver' /\ LogAgrees'
  BY <1>2, <1>8 DEF CancelInObserver
<1>9. ASSUME NEW m \in Messages, RemovePending(m) PROVE OneDriver' /\ LogAgrees'
  BY <1>3, <1>9 DEF RemovePending
<1>10. ASSUME NEW m \in Messages, NEW n \in Messages, ReplacePending(m, n)
       PROVE  OneDriver' /\ LogAgrees'
  BY <1>3, <1>10 DEF ReplacePending
<1>11. ASSUME NEW m \in Messages, NEW target \in Targets, PrependPending(m, target)
       PROVE  OneDriver' /\ LogAgrees'
  BY <1>3, <1>11 DEF PrependPending
<1> QED BY <1>4, <1>5, <1>6, <1>7, <1>8, <1>9, <1>10, <1>11 DEF Call

LEMMA ContinueSteps == Control /\ Continue => OneDriver' /\ LogAgrees'
<1> SUFFICES ASSUME Control, Continue PROVE OneDriver' /\ LogAgrees'
  OBVIOUS
<1>0. TypeOK /\ TypeOK' /\ OneDriver /\ LogAgrees
  BY ContinueTypes DEF Control
<1>1. ASSUME Wake PROVE OneDriver' /\ LogAgrees'
  <2>1. SameDrivers(frames, Front(frames)) /\ Front(frames) \in Seq(FrameType)
    BY <1>0, <1>1, PopListener DEF Wake, Top, DriverOps
  <2>2. Last(frames).flag \in BOOLEAN
    BY <1>0, <1>1, PopType DEF Wake, Top
  <2> QED BY <1>1, <2>1, <2>2, WakeSteps DEF Wake
<1>2. ASSUME CancelClearsTurns PROVE OneDriver' /\ LogAgrees'
  <2> DEFINE flag == nextTurn # <<>>
  <2>1. SameDrivers(frames, Front(frames)) /\ Front(frames) \in Seq(FrameType)
    BY <1>0, <1>2, PopListener DEF CancelClearsTurns, Top, DriverOps
  <2>2. /\ frames' = Append(Front(frames), Frame("abort", flag, Last(frames).cause))
        /\ flag \in BOOLEAN
    BY <1>2 DEF CancelClearsTurns
  <2>3. Last(frames).cause \in Causes \cup {"no"}
    BY <1>0, <1>2, PopType DEF CancelClearsTurns, Top
  <2> HIDE DEF flag
  <2>4. SameDrivers(Front(frames), frames')
    BY <2>1, <2>2, <2>3, PushListener DEF FrameOps, DriverOps
  <2>5. SameDrivers(frames, frames')
    BY <2>1, <2>4 DEF SameDrivers
  <2> QED BY <1>0, <1>2, <2>5, ListenerSteps DEF CancelClearsTurns, TypeOK
<1>3. ASSUME CancelAborts PROVE OneDriver' /\ LogAgrees'
  <2>1. SameDrivers(frames, frames')
    BY <1>0, <1>3, PopListener DEF CancelAborts, Top, DriverOps
  <2>2. phase'.kind = phase.kind /\ phase'.turn = phase.turn /\ phase'.step = phase.step
    BY <1>0, <1>3 DEF CancelAborts, FireAbort, TypeOK, PhaseType
  <2> QED BY <1>0, <1>3, <2>1, <2>2, ListenerSteps DEF CancelAborts, TypeOK
<1>4. ASSUME Kick PROVE OneDriver' /\ LogAgrees'
  <2>1. /\ Front(frames) \in Seq(FrameType) /\ ~Holds(Front(frames), DriverOps)
        /\ phase.kind = "running" /\ pc = "none"
        /\ ~Holds(frames, LogOps) /\ Holds(frames, {"kick"})
    BY <1>0, <1>4, PopDriver DEF Kick, Top, DriverOps, LogOps
  <2>2. ~log.open /\ ~log.stepOpen /\ phase.step = 0
    BY <1>0, <2>1 DEF LogAgrees, LogOps, InTurn, InStep
  <2> QED BY <1>4, <2>1, <2>2, BeginTurnSteps DEF Kick
<1>5. ASSUME OpenTurn PROVE OneDriver' /\ LogAgrees'
  <2>1. /\ Front(frames) \in Seq(FrameType) /\ ~Holds(Front(frames), DriverOps)
        /\ phase.kind = "running" /\ pc = "none" /\ Holds(frames, LogOps)
    BY <1>0, <1>5, PopDriver DEF OpenTurn, Top, DriverOps, LogOps
  <2>2. CASE Aborted
    BY <1>5, <2>1, <2>2, EndTurnSteps DEF OpenTurn, InStep
  <2>3. CASE ~Aborted
    <3>1. frames' = Front(frames) /\ pc' = "pre" /\ UNCHANGED <<phase, log>>
      BY <1>5, <2>3 DEF OpenTurn, ClaimStep
    <3> QED BY <1>0, <2>1, <3>1, SuspendSteps DEF LogAgrees, LogOps, Suspended, InTurn, InStep
  <2> QED BY <2>2, <2>3
<1>6. ASSUME FinishFailedTurn PROVE OneDriver' /\ LogAgrees'
  <2>1. /\ Front(frames) \in Seq(FrameType) /\ ~Holds(Front(frames), DriverOps)
        /\ phase.kind = "running" /\ pc = "none"
    BY <1>0, <1>6, PopDriver DEF FinishFailedTurn, Top, DriverOps
  <2> QED BY <1>6, <2>1, EndTurnSteps DEF FinishFailedTurn, InStep
<1>7. ASSUME AfterTurn PROVE OneDriver' /\ LogAgrees'
  <2>1. /\ ~Holds(Front(frames), DriverOps)
        /\ phase.kind = "running" /\ pc = "none" /\ ~Holds(frames, LogOps)
    BY <1>0, <1>7, PopDriver DEF AfterTurn, Top, DriverOps, LogOps
  <2>2. ~log.open /\ ~log.stepOpen
    BY <1>0, <2>1 DEF LogAgrees, LogOps, InTurn, InStep
  <2>3. CASE UNCHANGED phase /\ pc' = "exit"
    BY <1>0, <1>7, <2>1, <2>2, <2>3, SuspendSteps
       DEF AfterTurn, LogAgrees, Suspended, InTurn, InStep
  <2>4. CASE /\ phase' = [phase EXCEPT !.aborted = "no", !.wake = FALSE, !.step = 0]
             /\ pc' = "again"
    <3>1. phase'.kind = phase.kind /\ phase'.turn = phase.turn /\ phase'.step = 0
      BY <1>0, <2>4 DEF TypeOK, PhaseType
    <3> QED BY <1>0, <1>7, <2>1, <2>2, <2>4, <3>1, SuspendSteps
            DEF AfterTurn, LogAgrees, Suspended, InTurn, InStep
  <2> QED BY <1>7, <2>3, <2>4 DEF AfterTurn
<1>8. ASSUME Relatch PROVE OneDriver' /\ LogAgrees'
  <2>1. SameDrivers(frames, Front(frames)) /\ Front(frames) \in Seq(FrameType)
    BY <1>0, <1>8, PopListener DEF Relatch, Top, DriverOps
  <2>2. CASE WakeDriver(FALSE, Front(frames))
    BY <1>8, <2>1, <2>2, WakeSteps DEF Relatch
  <2>3. CASE frames' = Front(frames) /\ UNCHANGED phase
    BY <1>0, <1>8, <2>1, <2>3, ListenerSteps DEF Relatch, TypeOK
  <2> QED BY <1>8, <2>2, <2>3 DEF Relatch
<1> QED BY <1>1, <1>2, <1>3, <1>4, <1>5, <1>6, <1>7, <1>8 DEF Continue

LEMMA SettleSteps == Control /\ Settle => OneDriver' /\ LogAgrees'
<1> SUFFICES ASSUME Control, Settle PROVE OneDriver' /\ LogAgrees'
  OBVIOUS
<1>0. TypeOK /\ TypeOK' /\ OneDriver /\ LogAgrees
  BY SettleTypes DEF Control
<1>1. ASSUME pc \in Suspended, frames = <<>>
      PROVE  /\ phase.kind = "running" /\ frames \in Seq(FrameType)
             /\ ~Holds(frames, DriverOps) /\ ~Holds(frames, LogOps)
             /\ log.open <=> pc \in InTurn
             /\ log.stepOpen <=> pc \in InStep
  BY <1>0, <1>1, Empty DEF OneDriver, LogAgrees, LogOps, Suspended, TypeOK
<1>2. ASSUME pc \in Suspended, frames = <<>>, pc' \in Suspended, frames' = frames,
             UNCHANGED <<phase, log>>,
             pc' \in InTurn <=> pc \in InTurn, pc' \in InStep <=> pc \in InStep, pc' # "again"
      PROVE  OneDriver' /\ LogAgrees'
  BY <1>0, <1>1, <1>2, SuspendSteps DEF LogAgrees
<1>3. ASSUME pc \in InTurn, frames = <<>>, NEW op \in LogOps,
             frames' = Append(frames, Frame(op, FALSE, "no")),
             pc' = "none", UNCHANGED phase,
             log' = [log EXCEPT !.stepOpen = FALSE] \/ (log' = log /\ pc \notin InStep)
      PROVE  OneDriver' /\ LogAgrees'
  <2>1. pc \in Suspended
    BY <1>3 DEF Suspended, InTurn, InStep
  <2>2. /\ Once(frames', DriverOps) /\ Holds(frames', DriverOps)
        /\ Holds(frames', LogOps) /\ ~Holds(frames', {"kick"})
    BY <1>1, <1>3, <2>1, PushDriver DEF DriverOps, LogOps
  <2>3. log'.open /\ ~log'.stepOpen /\ log'.turn = log.turn /\ log'.step = log.step /\ log.open
    BY <1>0, <1>1, <1>3, <2>1 DEF TypeOK, LogType
  <2>4. OneDriver'
    BY <1>1, <1>3, <2>1, <2>2 DEF OneDriver
  <2>5. LogAgrees'
    BY <1>0, <1>3, <2>2, <2>3 DEF LogAgrees, LogOps, InTurn, InStep
  <2> QED BY <2>4, <2>5
<1>4. ASSUME pc \in InTurn \ InStep, frames = <<>>, UNCHANGED phase,
             NEW drains \in BOOLEAN, EndTurn(drains, frames)
      PROVE  OneDriver' /\ LogAgrees'
  <2>1. pc \in Suspended
    BY <1>4 DEF Suspended, InTurn, InStep
  <2> QED BY <1>1, <1>4, <2>1, EndTurnSteps
<1>5. ASSUME pc \in InTurn, frames = <<>>, NEW target, ClaimStep(target, frames),
             UNCHANGED phase,
             log' = [log EXCEPT !.stepOpen = FALSE] \/ (log' = log /\ pc \notin InStep)
      PROVE  OneDriver' /\ LogAgrees'
  <2>1. pc \in Suspended
    BY <1>5 DEF Suspended, InTurn, InStep
  <2>2. log'.open /\ ~log'.stepOpen /\ log'.turn = log.turn /\ log'.step = log.step /\ log.open
    BY <1>0, <1>1, <1>5, <2>1 DEF TypeOK, LogType
  <2>3. pc' = "pre" /\ frames' = frames
    BY <1>5 DEF ClaimStep
  <2> QED BY <1>0, <1>1, <1>5, <2>1, <2>2, <2>3, SuspendSteps
          DEF LogAgrees, Suspended, InTurn, InStep
<1>6. ASSUME PreStepDecides PROVE OneDriver' /\ LogAgrees'
  BY <1>2, <1>6 DEF PreStepDecides, At, Suspended, InTurn, InStep
<1>7. ASSUME PreStepFails PROVE OneDriver' /\ LogAgrees'
  <2>1. pc \in InTurn \ InStep /\ frames = <<>>
    BY <1>7 DEF PreStepFails, At, InTurn, InStep
  <2>2. CASE Aborted
    BY <1>4, <1>7, <2>1, <2>2 DEF PreStepFails
  <2>3. CASE ~Aborted
    BY <1>3, <1>7, <2>1, <2>3 DEF PreStepFails, LogOps
  <2> QED BY <2>2, <2>3
<1>8. ASSUME StepRejected \/ NothingToEnter PROVE OneDriver' /\ LogAgrees'
  <2>1. pc \in InTurn \ InStep /\ frames = <<>>
    BY <1>8 DEF StepRejected, NothingToEnter, At, InTurn, InStep
  <2>2. CASE StepRejected
    BY <1>4, <2>1, <2>2 DEF StepRejected
  <2>3. CASE NothingToEnter
    <3> DEFINE drains == turn.ends # "null"
    <3>1. EndTurn(drains, frames) /\ drains \in BOOLEAN /\ UNCHANGED phase
      BY <2>3 DEF NothingToEnter
    <3> HIDE DEF drains
    <3> QED BY <1>4, <2>1, <3>1
  <2> QED BY <1>8, <2>2, <2>3
<1>9. ASSUME EnterStep PROVE OneDriver' /\ LogAgrees'
  <2> DEFINE n == phase.step + 1
  <2>1. n # 0
    BY <1>0 DEF TypeOK, PhaseType
  <2> HIDE DEF n
  <2>2. /\ phase' = [phase EXCEPT !.step = n]
        /\ log' = [log EXCEPT !.step = n, !.stepOpen = TRUE]
        /\ pc' = "request" /\ frames' = frames /\ pc = "decided" /\ frames = <<>>
    BY <1>9 DEF EnterStep, At, n
  <2>3. /\ phase'.kind = phase.kind /\ phase'.turn = phase.turn /\ phase'.step = n
        /\ log'.turn = log.turn /\ log'.open = log.open /\ log'.step = n /\ log'.stepOpen
    BY <1>0, <2>2 DEF TypeOK, PhaseType, LogType
  <2> QED BY <1>0, <1>1, <2>1, <2>2, <2>3, SuspendSteps
          DEF LogAgrees, Suspended, InTurn, InStep
<1>10. ASSUME RequestBuilt \/ StreamFailed \/ ToolsCalled PROVE OneDriver' /\ LogAgrees'
  BY <1>2, <1>10
     DEF RequestBuilt, StreamFailed, ToolsCalled, Resume, At, Suspended, InTurn, InStep
<1>11. ASSUME RequestRetried PROVE OneDriver' /\ LogAgrees'
  BY <1>2, <1>11 DEF RequestRetried, At, Suspended, InTurn, InStep
<1>12. ASSUME StepReturns PROVE OneDriver' /\ LogAgrees'
  BY <1>2, <1>12 DEF StepReturns, At, Suspended, InTurn, InStep
<1>13. ASSUME StepFails PROVE OneDriver' /\ LogAgrees'
  <2>1. pc \in InTurn /\ frames = <<>>
    BY <1>13 DEF StepFails, At, InTurn, InStep
  <2> QED BY <1>3, <1>13, <2>1 DEF StepFails, LogOps
<1>14. ASSUME EndStep PROVE OneDriver' /\ LogAgrees'
  <2>1. pc = "stepGap" /\ pc \in InTurn /\ frames = <<>>
    BY <1>14 DEF EndStep, At, InTurn, InStep
  <2>2. CASE Aborted
    BY <1>3, <1>14, <2>1, <2>2 DEF EndStep, LogOps
  <2>3. CASE ~Aborted /\ turn.ends # "null" /\ nextStep = <<>>
    <3>1. pc' = "stopping" /\ frames' = frames /\ log' = [log EXCEPT !.stepOpen = FALSE]
          /\ UNCHANGED phase
      BY <1>14, <2>3 DEF EndStep
    <3>2. ~log'.stepOpen /\ log'.open = log.open /\ log'.turn = log.turn
          /\ log'.step = log.step
      BY <1>0, <3>1 DEF TypeOK, LogType
    <3> QED BY <1>0, <1>1, <2>1, <3>1, <3>2, SuspendSteps
            DEF LogAgrees, Suspended, InTurn, InStep
  <2>4. CASE ~Aborted /\ ~(turn.ends # "null" /\ nextStep = <<>>)
    BY <1>5, <1>14, <2>1, <2>4 DEF EndStep
  <2> QED BY <2>2, <2>3, <2>4
<1>15. ASSUME Stop PROVE OneDriver' /\ LogAgrees'
  <2>1. pc \in InTurn \ InStep /\ frames = <<>>
    BY <1>15 DEF Stop, At, InTurn, InStep
  <2>2. CASE nextStep = <<>>
    BY <1>4, <1>15, <2>1, <2>2 DEF Stop
  <2>3. CASE nextStep # <<>>
    BY <1>5, <1>15, <2>1, <2>3 DEF Stop
  <2> QED BY <2>2, <2>3
<1>16. ASSUME StopFails PROVE OneDriver' /\ LogAgrees'
  <2>1. pc \in InTurn \ InStep /\ frames = <<>>
    BY <1>16 DEF StopFails, At, InTurn, InStep
  <2>2. CASE Aborted
    BY <1>4, <1>16, <2>1, <2>2 DEF StopFails
  <2>3. CASE ~Aborted
    BY <1>3, <1>16, <2>1, <2>3 DEF StopFails, LogOps
  <2> QED BY <2>2, <2>3
<1>17. ASSUME NextTurn PROVE OneDriver' /\ LogAgrees'
  <2>1. pc = "again" /\ frames = <<>>
    BY <1>17 DEF NextTurn, At
  <2>2. ~log.open /\ ~log.stepOpen /\ phase.step = 0
    BY <1>0, <1>1, <2>1 DEF LogAgrees, Suspended, InTurn, InStep
  <2> QED BY <1>1, <1>17, <2>1, <2>2, BeginTurnSteps DEF NextTurn, Suspended
<1>18. ASSUME Exit PROVE OneDriver' /\ LogAgrees'
  <2> DEFINE f == phase.wake
  <2>1. pc = "exit" /\ frames = <<>> /\ f \in BOOLEAN
    BY <1>0, <1>18 DEF Exit, At, TypeOK, PhaseType
  <2>2. /\ phase' = Idle(phase.turn) /\ pc' = "none" /\ UNCHANGED log
        /\ frames' = Append(frames, Frame("relatch", f, "no"))
    BY <1>18 DEF Exit
  <2> HIDE DEF f
  <2>3. SameDrivers(frames, frames')
    BY <1>0, <2>1, <2>2, PushListener DEF TypeOK, FrameOps, DriverOps
  <2>4. /\ Once(frames', DriverOps) /\ ~Holds(frames', DriverOps)
        /\ ~Holds(frames', LogOps) /\ ~Holds(frames', {"kick"})
    BY <2>1, <2>3, Empty DEF SameDrivers, DriverOps, LogOps
  <2>5. phase'.kind = "idle" /\ phase'.turn = phase.turn
    BY <2>2 DEF Idle
  <2>6. ~log.open /\ ~log.stepOpen
    BY <1>1, <2>1 DEF Suspended, InTurn, InStep
  <2>7. OneDriver'
    BY <2>2, <2>4, <2>5 DEF OneDriver
  <2>8. LogAgrees'
    BY <1>0, <2>2, <2>4, <2>5, <2>6 DEF LogAgrees, LogOps, InTurn, InStep
  <2> QED BY <2>7, <2>8
<1>19. ASSUME EndMaintenance PROVE OneDriver' /\ LogAgrees'
  <2>1. /\ frames = <<>> /\ pc = "none" /\ UNCHANGED <<pc, log>>
        /\ ~Holds(frames, DriverOps) /\ ~Holds(frames, LogOps) /\ ~Holds(frames, {"kick"})
        /\ Once(frames, DriverOps)
    BY <1>0, <1>19, Empty DEF EndMaintenance, OneDriver
  <2>2. ~log.open /\ ~log.stepOpen
    BY <1>0, <2>1 DEF LogAgrees, LogOps, InTurn, InStep
  <2>3. CASE phase' = Idle(phase.turn) /\ UNCHANGED frames
    <3>1. phase'.kind = "idle" /\ phase'.turn = phase.turn
      BY <2>3 DEF Idle
    <3>2. OneDriver'
      BY <2>1, <2>3, <3>1 DEF OneDriver
    <3>3. LogAgrees'
      BY <1>0, <2>1, <2>2, <2>3, <3>1 DEF LogAgrees, LogOps, InTurn, InStep
    <3> QED BY <3>2, <3>3
  <2>4. CASE phase' = Running(phase.turn) /\ frames' = <<Frame("kick", FALSE, "no")>>
    <3>1. phase'.kind = "running" /\ phase'.turn = phase.turn /\ phase'.step = 0
      BY <2>4 DEF Running, Idle
    <3>2. frames' = Append(frames, Frame("kick", FALSE, "no"))
      BY <2>1, <2>4
    <3>3. /\ Once(frames', DriverOps) /\ Holds(frames', DriverOps) /\ ~Holds(frames', LogOps)
      BY <1>0, <2>1, <3>2, PushDriver DEF TypeOK, DriverOps, LogOps
    <3>4. OneDriver'
      BY <2>1, <3>1, <3>3 DEF OneDriver
    <3>5. LogAgrees'
      BY <1>0, <2>1, <2>2, <3>1, <3>3 DEF LogAgrees, LogOps, InTurn, InStep
    <3> QED BY <3>4, <3>5
  <2> QED BY <1>19, <2>3, <2>4 DEF EndMaintenance
<1> QED BY <1>6, <1>7, <1>8, <1>9, <1>10, <1>11, <1>12, <1>13, <1>14, <1>15, <1>16, <1>17,
           <1>18, <1>19 DEF Settle

LEMMA RestartSteps == Control /\ Restart => OneDriver' /\ LogAgrees'
<1> SUFFICES ASSUME Control, Restart PROVE OneDriver' /\ LogAgrees'
  OBVIOUS
<1>1. /\ phase'.kind = "idle" /\ phase'.turn = log.turn
      /\ pc' = "none" /\ frames' = <<>>
  BY DEF Restart, ResumedTurn, Idle
<1>2. ~log'.open /\ ~log'.stepOpen /\ log'.turn = log.turn
  BY DEF Restart, ClosedLog, Control, TypeOK, LogType
<1>3. phase'.step = 0
  BY DEF Restart, Idle
<1>4. OneDriver'
  BY <1>1, Empty DEF OneDriver
<1>5. LogAgrees'
  BY <1>1, <1>2, <1>3, Empty DEF LogAgrees, InTurn, InStep
<1> QED BY <1>4, <1>5

LEMMA ControlInvariant == Spec => []Control
<1>1. Init => Control
  <2> SUFFICES ASSUME Init PROVE Control
    OBVIOUS
  <2>1. TypeOK
    BY InitTypes
  <2>2. OneDriver
    BY Empty DEF Init, Idle, OneDriver
  <2>3. LogAgrees
    BY Empty DEF Init, Idle, LogAgrees, InTurn, InStep
  <2> QED BY <2>1, <2>2, <2>3 DEF Control
<1>2. Control /\ [Next]_vars => Control'
  <2> SUFFICES ASSUME Control, [Next]_vars PROVE Control'
    OBVIOUS
  <2>1. TypeOK'
    BY NextTypes DEF Control
  <2>2. CASE UNCHANGED vars
    BY <2>1, <2>2 DEF vars, Control, OneDriver, LogAgrees
  <2> QED BY <2>1, <2>2, CallSteps, ContinueSteps, SettleSteps, RestartSteps DEF Next, Control
<1> QED BY <1>1, <1>2, PTL DEF Spec

(* At most one driver runs, and exactly while the phase is running.        *)
THEOREM SingleDriver == Spec => []OneDriver
<1>1. Control => OneDriver
  BY DEF Control
<1> QED BY <1>1, ControlInvariant, PTL

(* The driver and the durable log always agree on the open turn and step.  *)
THEOREM DriverAgreesWithLog == Spec => []LogAgrees
<1>1. Control => LogAgrees
  BY DEF Control
<1> QED BY <1>1, ControlInvariant, PTL

-----------------------------------------------------------------------------
(* Disposal and the latch.                                                 *)

LEMMA WakeRespectsDisposal ==
  ASSUME TypeOK, DisposedNeverLatches, NEW wakeAfterAbort \in BOOLEAN, NEW rest,
         WakeDriver(wakeAfterAbort, rest)
  PROVE  DisposedNeverLatches'
<1>1. CASE phase.kind = "idle"
  BY <1>1 DEF WakeDriver, StartDriver, Running, Idle, DisposedNeverLatches
<1>2. CASE phase.kind # "idle" /\ phase.aborted = "disposed"
  BY <1>2 DEF WakeDriver, LatchIf, DisposedNeverLatches, TypeOK, PhaseType
<1>3. CASE phase.kind # "idle" /\ phase.aborted # "disposed"
  BY <1>3 DEF WakeDriver, LatchIf, DisposedNeverLatches, TypeOK, PhaseType
<1> QED BY <1>1, <1>2, <1>3

LEMMA AbortRespectsDisposal ==
  ASSUME TypeOK, DisposedNeverLatches, NEW cause \in Causes \cup {"no"},
         NEW keepInbox \in BOOLEAN, keepInbox => cause = "user",
         FireAbort(cause, keepInbox)
  PROVE  DisposedNeverLatches'
<1>1. CASE phase.kind = "idle"
  BY <1>1 DEF FireAbort, DisposedNeverLatches
<1>2. CASE phase.kind # "idle"
  <2> DEFINE w == phase.wake /\ keepInbox
             c == IF phase.aborted = "no" THEN cause ELSE phase.aborted
  <2>1. phase' = [phase EXCEPT !.aborted = c, !.wake = w]
    BY <1>2 DEF FireAbort
  <2>2. c = "disposed" => ~w
    BY DEF DisposedNeverLatches
  <2> HIDE DEF w, c
  <2>3. phase'.aborted = c /\ phase'.wake = w
    BY <2>1 DEF TypeOK, PhaseType
  <2> QED BY <2>2, <2>3 DEF DisposedNeverLatches
<1> QED BY <1>1, <1>2

LEMMA BeginTurnRespectsDisposal ==
  ASSUME TypeOK, DisposedNeverLatches, NEW rest, BeginTurn(rest)
  PROVE  DisposedNeverLatches'
BY DEF BeginTurn, DisposedNeverLatches, TypeOK, PhaseType

(* A wake is never latched on a signal that disposal fired: nothing can    *)
(* restart a driver behind the disposal of the one it aborts.              *)
THEOREM DisposalDropsTheLatch == Spec => []DisposedNeverLatches
<1>1. Init => DisposedNeverLatches
  BY DEF Init, Idle, DisposedNeverLatches
<1>2. TypeOK /\ DisposedNeverLatches /\ [Next]_vars => DisposedNeverLatches'
  <2> SUFFICES ASSUME TypeOK, DisposedNeverLatches, [Next]_vars
               PROVE  DisposedNeverLatches'
    OBVIOUS
  <2>0. ASSUME UNCHANGED phase PROVE DisposedNeverLatches'
    BY <2>0 DEF DisposedNeverLatches
  <2>1. CASE UNCHANGED vars
    BY <2>0, <2>1 DEF vars
  <2>2. CASE Call
    <3>1. CASE CancelKeepingInbox
      BY <3>1, AbortRespectsDisposal DEF CancelKeepingInbox, Causes
    <3>2. CASE \E c \in Causes, k \in BOOLEAN : CancelInObserver(c, k)
      BY <3>2, AbortRespectsDisposal DEF CancelInObserver
    <3>3. CASE RunMaintenance
      BY <3>3 DEF RunMaintenance, Job, Idle, DisposedNeverLatches
    <3>4. CASE \/ \E m \in Messages, t \in Targets, w \in BOOLEAN : Send(m, t, w)
               \/ \E c \in Causes : Cancel(c)
               \/ \E m \in Messages : RemovePending(m)
               \/ \E m, n \in Messages : ReplacePending(m, n)
               \/ \E m \in Messages, t \in Targets : PrependPending(m, t)
      BY <2>0, <3>4 DEF Send, Cancel, RemovePending, ReplacePending, PrependPending
    <3> QED BY <2>2, <3>1, <3>2, <3>3, <3>4 DEF Call
  <2>3. CASE Continue
    <3>0. frames # <<>>
      BY <2>3 DEF Continue, Wake, CancelClearsTurns, CancelAborts, Kick, OpenTurn,
                  FinishFailedTurn, AfterTurn, Relatch, Top
    <3>1. CASE Wake
      BY <3>0, <3>1, PopType, WakeRespectsDisposal DEF Wake
    <3>2. CASE CancelAborts
      BY <3>0, <3>2, PopType, AbortRespectsDisposal DEF CancelAborts
    <3>3. CASE Kick
      BY <3>3, BeginTurnRespectsDisposal DEF Kick
    <3>4. CASE AfterTurn
      <4>1. CASE UNCHANGED phase
        BY <2>0, <4>1
      <4>2. CASE phase' = [phase EXCEPT !.aborted = "no", !.wake = FALSE, !.step = 0]
        BY <4>2 DEF DisposedNeverLatches, TypeOK, PhaseType
      <4> QED BY <3>4, <4>1, <4>2 DEF AfterTurn
    <3>5. CASE Relatch
      BY <2>0, <3>5, WakeRespectsDisposal DEF Relatch
    <3>6. CASE CancelClearsTurns \/ OpenTurn \/ FinishFailedTurn
      BY <2>0, <3>6 DEF CancelClearsTurns, OpenTurn, FinishFailedTurn
    <3> QED BY <2>3, <3>1, <3>2, <3>3, <3>4, <3>5, <3>6 DEF Continue
  <2>4. CASE Settle
    <3>1. CASE EnterStep
      <4> DEFINE n == phase.step + 1
      <4>1. phase' = [phase EXCEPT !.step = n]
        BY <3>1 DEF EnterStep
      <4> HIDE DEF n
      <4> QED BY <4>1 DEF DisposedNeverLatches, TypeOK, PhaseType
    <3>2. CASE NextTurn
      BY <3>2, BeginTurnRespectsDisposal DEF NextTurn
    <3>3. CASE Exit \/ EndMaintenance
      <4>1. phase' = Idle(phase.turn) \/ phase' = Running(phase.turn)
        BY <3>3 DEF Exit, EndMaintenance
      <4>2. phase'.aborted = "no"
        BY <4>1 DEF Running, Idle
      <4> QED BY <4>2 DEF DisposedNeverLatches
    <3>4. CASE \/ PreStepDecides \/ PreStepFails \/ StepRejected \/ NothingToEnter
               \/ RequestBuilt \/ StreamFailed \/ ToolsCalled
               \/ RequestRetried \/ StepReturns \/ StepFails \/ EndStep
               \/ Stop \/ StopFails
      BY <2>0, <3>4
         DEF PreStepDecides, PreStepFails, StepRejected, NothingToEnter, RequestBuilt,
             StreamFailed, ToolsCalled, Resume, RequestRetried, StepReturns, StepFails,
             EndStep, Stop, StopFails
    <3> QED BY <2>4, <3>1, <3>2, <3>3, <3>4 DEF Settle
  <2>5. CASE Restart
    BY <2>5 DEF Restart, Idle, DisposedNeverLatches
  <2> QED BY <2>1, <2>2, <2>3, <2>4, <2>5 DEF Next
<1> QED BY <1>1, <1>2, TypeCorrect, PTL DEF Spec

-----------------------------------------------------------------------------
(* The log refines TurnLog.  The mapped variables are functions of log, so *)
(* only the actions that append a boundary need more than a stutter.       *)

LEMMA LogStutters == UNCHANGED log => UNCHANGED Log!vars
BY DEF Log!vars

LEMMA TurnEnds ==
  ASSUME log \in LogType, log.open, ~log.stepOpen, log.turn # 0,
         log' = [log EXCEPT !.open = FALSE]
  PROVE  Log!TurnEnd
<1>1. log'.turn = log.turn /\ log'.step = log.step /\ ~log'.open /\ ~log'.stepOpen
  BY DEF LogType
<1> QED BY <1>1 DEF Log!TurnEnd

LEMMA StepEnds ==
  ASSUME log \in LogType, log.stepOpen, log.step # 0,
         log' = [log EXCEPT !.stepOpen = FALSE]
  PROVE  Log!StepEnd
<1>1. log'.turn = log.turn /\ log'.step = log.step /\ log'.open = log.open /\ ~log'.stepOpen
  BY DEF LogType
<1> QED BY <1>1 DEF Log!StepEnd

LEMMA EndTurnFollows ==
  ASSUME Control, log.open, ~log.stepOpen, NEW drains, NEW rest, EndTurn(drains, rest)
  PROVE  Log!TurnEnd
BY TurnEnds DEF EndTurn, Control, TypeOK, LogAgrees

LEMMA BeginTurnFollows ==
  ASSUME Control, ~log.open, ~log.stepOpen, NEW rest, BeginTurn(rest)
  PROVE  Log!TurnStart \/ UNCHANGED Log!vars
<1>1. CASE UNCHANGED log
  BY <1>1, LogStutters
<1>2. CASE log' = [log EXCEPT !.turn = phase.turn + 1, !.open = TRUE, !.step = 0]
  <2>1. /\ log'.turn = log.turn + 1 /\ log'.open /\ log'.step = 0 /\ ~log'.stepOpen
        /\ log.turn \in Nat
    BY <1>2 DEF Control, TypeOK, LogAgrees, LogType
  <2> QED BY <2>1 DEF Log!TurnStart
<1> QED BY <1>1, <1>2 DEF BeginTurn

LEMMA ContinueFollows == Control /\ Continue => [Log!Next]_(Log!vars)
<1> SUFFICES ASSUME Control, Continue PROVE [Log!Next]_(Log!vars)
  OBVIOUS
<1>0. TypeOK /\ OneDriver /\ LogAgrees
  BY DEF Control
<1>1. ASSUME Kick PROVE [Log!Next]_(Log!vars)
  <2>1. ~Holds(frames, LogOps) /\ pc = "none"
    BY <1>0, <1>1, PopDriver DEF Kick, Top, DriverOps, LogOps
  <2>2. ~log.open /\ ~log.stepOpen
    BY <1>0, <2>1 DEF LogAgrees, LogOps, InTurn, InStep
  <2> QED BY <1>1, <2>2, BeginTurnFollows DEF Kick, Log!Next
<1>2. ASSUME OpenTurn \/ FinishFailedTurn PROVE [Log!Next]_(Log!vars)
  <2>1. Holds(frames, LogOps) /\ pc = "none"
    BY <1>0, <1>2, PopDriver DEF OpenTurn, FinishFailedTurn, Top, DriverOps, LogOps
  <2>2. log.open /\ ~log.stepOpen
    BY <1>0, <2>1 DEF LogAgrees, LogOps, InTurn, InStep
  <2>3. CASE UNCHANGED log
    BY <2>3, LogStutters
  <2>4. CASE \E drains \in BOOLEAN : EndTurn(drains, Front(frames))
    BY <2>2, <2>4, EndTurnFollows DEF Log!Next
  <2> QED BY <1>2, <2>3, <2>4 DEF OpenTurn, FinishFailedTurn
<1>3. ASSUME Wake \/ CancelClearsTurns \/ CancelAborts \/ AfterTurn \/ Relatch
      PROVE  [Log!Next]_(Log!vars)
  BY <1>3, LogStutters DEF Wake, CancelClearsTurns, CancelAborts, AfterTurn, Relatch
<1> QED BY <1>1, <1>2, <1>3 DEF Continue

LEMMA SettleFollows == Control /\ Settle => [Log!Next]_(Log!vars)
<1> SUFFICES ASSUME Control, Settle PROVE [Log!Next]_(Log!vars)
  OBVIOUS
<1>0. log \in LogType /\ LogAgrees
  BY DEF Control, TypeOK
<1>1. ASSUME frames = <<>>
      PROVE  log.open <=> pc \in InTurn
  BY <1>0, <1>1, Empty DEF LogAgrees
<1>2. ASSUME pc \in InTurn \ InStep, frames = <<>>, NEW drains, NEW rest,
             EndTurn(drains, rest)
      PROVE  [Log!Next]_(Log!vars)
  BY <1>0, <1>1, <1>2, EndTurnFollows DEF LogAgrees, Log!Next
<1>3. ASSUME pc \in InStep, log' = [log EXCEPT !.stepOpen = FALSE]
      PROVE  [Log!Next]_(Log!vars)
  BY <1>0, <1>3, StepEnds DEF LogAgrees, Log!Next
<1>4. ASSUME UNCHANGED log PROVE [Log!Next]_(Log!vars)
  BY <1>4, LogStutters
<1>5. ASSUME PreStepFails \/ StepRejected \/ NothingToEnter \/ Stop \/ StopFails
      PROVE  [Log!Next]_(Log!vars)
  <2>1. pc \in InTurn \ InStep /\ frames = <<>>
    BY <1>5 DEF PreStepFails, StepRejected, NothingToEnter, Stop, StopFails, At, InTurn, InStep
  <2>2. UNCHANGED log \/ \E drains, rest : EndTurn(drains, rest)
    BY <1>5 DEF PreStepFails, StepRejected, NothingToEnter, Stop, StopFails
  <2> QED BY <1>2, <1>4, <2>1, <2>2
<1>6. ASSUME EnterStep PROVE [Log!Next]_(Log!vars)
  <2> DEFINE n == phase.step + 1
  <2>1. /\ log' = [log EXCEPT !.step = n, !.stepOpen = TRUE]
        /\ pc = "decided" /\ frames = <<>>
    BY <1>6 DEF EnterStep, At, n
  <2>2. log.open /\ ~log.stepOpen
    BY <1>0, <1>1, <2>1 DEF LogAgrees, InTurn, InStep
  <2>3. n = log.step + 1 /\ log.turn # 0
    BY <1>0, <2>2 DEF LogAgrees
  <2> HIDE DEF n
  <2>4. log'.turn = log.turn /\ log'.open /\ log'.stepOpen /\ log'.step = log.step + 1
    BY <1>0, <2>1, <2>2, <2>3 DEF LogType
  <2> QED BY <2>2, <2>3, <2>4 DEF Log!Next, Log!StepStart
<1>7. ASSUME StepFails \/ EndStep PROVE [Log!Next]_(Log!vars)
  BY <1>3, <1>7 DEF StepFails, EndStep, At, InStep
<1>8. ASSUME NextTurn PROVE [Log!Next]_(Log!vars)
  <2>1. pc = "again" /\ frames = <<>>
    BY <1>8 DEF NextTurn, At
  <2>2. ~log.open /\ ~log.stepOpen
    BY <1>0, <1>1, <2>1 DEF LogAgrees, InTurn, InStep
  <2> QED BY <1>8, <2>2, BeginTurnFollows DEF NextTurn, Log!Next
<1>9. ASSUME \/ PreStepDecides \/ RequestBuilt \/ StreamFailed \/ ToolsCalled
             \/ RequestRetried \/ StepReturns \/ Exit \/ EndMaintenance
      PROVE  [Log!Next]_(Log!vars)
  BY <1>4, <1>9 DEF PreStepDecides, RequestBuilt, StreamFailed, ToolsCalled, Resume,
                    RequestRetried, StepReturns, Exit, EndMaintenance
<1> QED BY <1>5, <1>6, <1>7, <1>8, <1>9 DEF Settle

LEMMA RestartFollows == Control /\ Restart => [Log!Next]_(Log!vars)
<1> SUFFICES ASSUME Control, Restart PROVE [Log!Next]_(Log!vars)
  OBVIOUS
<1>1. log \in LogType /\ LogAgrees
  BY DEF Control, TypeOK
<1>2. log'.turn = log.turn /\ log'.step = log.step /\ ~log'.open /\ ~log'.stepOpen
  BY <1>1 DEF Restart, ClosedLog, LogType
<1>3. log.stepOpen => log.open
  BY <1>1 DEF LogAgrees, InTurn
<1>4. CASE log.open
  <2>1. log.turn # 0 /\ (log.stepOpen => log.step # 0)
    BY <1>1, <1>4 DEF LogAgrees
  <2> QED BY <1>2, <1>4, <2>1 DEF Log!Next, Log!Repair
<1>5. CASE ~log.open
  BY <1>2, <1>3, <1>5 DEF Log!vars
<1> QED BY <1>4, <1>5

(* Every boundary the driver appends, and every closer a restart adds,     *)
(* follows the rules the session log promises its readers.                 *)
THEOREM LogImplementsRules == Spec => LogFollowsRules
<1>1. Init => Log!Init
  BY DEF Init, Log!Init
<1>2. Control /\ [Next]_vars => [Log!Next]_(Log!vars)
  <2> SUFFICES ASSUME Control, [Next]_vars PROVE [Log!Next]_(Log!vars)
    OBVIOUS
  <2>1. CASE UNCHANGED vars
    BY <2>1, LogStutters DEF vars
  <2>2. CASE Call
    BY <2>2, LogStutters
       DEF Call, Send, CancelKeepingInbox, Cancel, CancelInObserver, RunMaintenance,
           RemovePending, ReplacePending, PrependPending
  <2> QED BY <2>1, <2>2, ContinueFollows, SettleFollows, RestartFollows DEF Next
<1> QED BY <1>1, <1>2, ControlInvariant, PTL DEF Spec, LogFollowsRules, Log!Spec

-----------------------------------------------------------------------------
(* One prompt a turn.  Inductive with the fact that no prompt has been     *)
(* claimed while a turn is being opened.                                   *)

PromptInv == SolePrompt /\ (Holds(frames, {"open"}) => turn.prompts = {})

LEMMA PushNotOpen ==
  ASSUME NEW s \in Seq(FrameType), NEW op \in FrameOps, op # "open",
         NEW flag \in BOOLEAN, NEW cause \in Causes \cup {"no"}
  PROVE  Holds(Append(s, Frame(op, flag, cause)), {"open"}) => Holds(s, {"open"})
<1>1. op \notin {"open"}
  OBVIOUS
<1> QED BY <1>1, Push

LEMMA PromptsKept ==
  ASSUME PromptInv, turn'.prompts = turn.prompts \/ turn'.prompts = {},
         Holds(frames', {"open"}) => Holds(frames, {"open"}) \/ turn'.prompts = {}
  PROVE  PromptInv'
BY DEF PromptInv, SolePrompt

LEMMA EndTurnPrompts ==
  ASSUME PromptInv, NEW drains, NEW rest, EndTurn(drains, rest)
  PROVE  PromptInv'
<1>1. turn'.prompts = {}
  BY DEF EndTurn, NoTurn
<1> QED BY <1>1, PromptsKept

LEMMA BeginTurnPrompts ==
  ASSUME PromptInv, NEW rest, Holds(rest, {"open"}) => Holds(frames, {"open"}),
         BeginTurn(rest)
  PROVE  PromptInv'
<1>1. CASE frames' = rest /\ UNCHANGED turn
  BY <1>1, PromptsKept
<1>2. CASE turn' = NoTurn
  <2>1. turn'.prompts = {}
    BY <1>2 DEF NoTurn
  <2> QED BY <2>1, PromptsKept
<1> QED BY <1>1, <1>2 DEF BeginTurn

LEMMA ClaimPrompts ==
  ASSUME TypeOK, PromptInv, NEW target, NEW rest, ~Holds(rest, {"open"}),
         target = "next-turn" => turn.prompts = {}, ClaimStep(target, rest)
  PROVE  PromptInv'
<1>1. /\ turn' = [turn EXCEPT !.batch = nextStep \o NextPrompt(target),
                              !.prompts = @ \cup ToSet(NextPrompt(target))]
      /\ frames' = rest
  BY DEF ClaimStep
<1>2. turn'.prompts = turn.prompts \cup ToSet(NextPrompt(target))
  BY <1>1 DEF TypeOK, TurnType
<1>3. CASE target = "next-turn" /\ nextTurn # <<>>
  <2>1. ToSet(NextPrompt(target)) = {Head(nextTurn)}
    BY <1>3 DEF NextPrompt, ToSet
  <2>2. turn'.prompts = {Head(nextTurn)}
    BY <1>2, <1>3, <2>1
  <2> QED BY <1>1, <2>2 DEF PromptInv, SolePrompt
<1>4. CASE ~(target = "next-turn" /\ nextTurn # <<>>)
  <2>1. ToSet(NextPrompt(target)) = {}
    BY <1>4 DEF NextPrompt, ToSet
  <2> QED BY <1>1, <1>2, <2>1, PromptsKept
<1> QED BY <1>3, <1>4

LEMMA WakePrompts ==
  ASSUME PromptInv, NEW rest \in Seq(FrameType),
         Holds(rest, {"open"}) => Holds(frames, {"open"}),
         NEW wakeAfterAbort, WakeDriver(wakeAfterAbort, rest), UNCHANGED turn
  PROVE  PromptInv'
<1>1. frames' = rest \/ frames' = Append(rest, Frame("kick", FALSE, "no"))
  BY DEF WakeDriver, StartDriver, LatchIf
<1>2. "kick" \in FrameOps /\ "kick" # "open" /\ FALSE \in BOOLEAN /\ "no" \in Causes \cup {"no"}
  BY DEF FrameOps, DriverOps
<1>3. Holds(frames', {"open"}) => Holds(rest, {"open"})
  BY <1>1, <1>2, PushNotOpen
<1> QED BY <1>3, PromptsKept

LEMMA CallPrompts == TypeOK /\ PromptInv /\ Call => PromptInv'
<1> SUFFICES ASSUME TypeOK, PromptInv, Call PROVE PromptInv'
  OBVIOUS
<1>1. ASSUME NEW op \in {"wake", "clearTurn"}, NEW flag \in BOOLEAN,
             NEW cause \in Causes \cup {"no"},
             frames' = Append(frames, Frame(op, flag, cause)), UNCHANGED turn
      PROVE  PromptInv'
  <2>1. Holds(frames', {"open"}) => Holds(frames, {"open"})
    <3>1. op \in FrameOps /\ op # "open" /\ frames \in Seq(FrameType)
      BY DEF TypeOK, FrameOps
    <3>2. Holds(Append(frames, Frame(op, flag, cause)), {"open"}) => Holds(frames, {"open"})
      BY <3>1, PushNotOpen, Zenon
    <3> QED BY <1>1, <3>2, Zenon
  <2> QED BY <1>1, <2>1, PromptsKept
<1>2. ASSUME UNCHANGED <<frames, turn>> PROVE PromptInv'
  BY <1>2, PromptsKept
<1>3. ASSUME NEW m \in Messages, NEW target \in Targets, NEW wakeup \in BOOLEAN,
             Send(m, target, wakeup)
      PROVE  PromptInv'
  <2> DEFINE flag == wakeup /\ phase.kind # "idle" /\ Aborted
  <2>1. /\ UNCHANGED turn /\ flag \in BOOLEAN
        /\ frames' = Append(frames, Frame("wake", flag, "no")) \/ frames' = frames
    BY <1>3 DEF Send
  <2> HIDE DEF flag
  <2> QED BY <1>1, <1>2, <2>1
<1>4. ASSUME NEW cause \in Causes, Cancel(cause) PROVE PromptInv'
  <2> DEFINE flag == nextStep # <<>>
  <2>1. /\ UNCHANGED turn /\ flag \in BOOLEAN
        /\ frames' = Append(frames, Frame("clearTurn", flag, cause))
    BY <1>4 DEF Cancel
  <2> HIDE DEF flag
  <2> QED BY <1>1, <2>1
<1> QED BY <1>2, <1>3, <1>4 DEF Call, CancelKeepingInbox, CancelInObserver, RunMaintenance,
           RemovePending, ReplacePending, PrependPending

LEMMA ContinuePrompts == Control /\ PromptInv /\ Continue => PromptInv'
<1> SUFFICES ASSUME Control, PromptInv, Continue PROVE PromptInv'
  OBVIOUS
<1>0. TypeOK /\ OneDriver /\ frames # <<>>
  BY DEF Control, Continue, Wake, CancelClearsTurns, CancelAborts, Kick, OpenTurn,
         FinishFailedTurn, AfterTurn, Relatch, Top
<1>1. /\ Front(frames) \in Seq(FrameType)
      /\ Holds(Front(frames), {"open"}) => Holds(frames, {"open"})
      /\ Last(frames).cause \in Causes \cup {"no"}
  BY <1>0, Pop, PopType
<1>2. ASSUME frames' = Front(frames), UNCHANGED turn PROVE PromptInv'
  BY <1>1, <1>2, PromptsKept
<1>3. ASSUME Wake \/ Relatch PROVE PromptInv'
  BY <1>1, <1>2, <1>3, WakePrompts DEF Wake, Relatch
<1>4. ASSUME CancelClearsTurns PROVE PromptInv'
  <2> DEFINE flag == nextTurn # <<>>
  <2>1. /\ UNCHANGED turn /\ flag \in BOOLEAN
        /\ frames' = Append(Front(frames), Frame("abort", flag, Last(frames).cause))
    BY <1>4 DEF CancelClearsTurns
  <2> HIDE DEF flag
  <2>2. Holds(frames', {"open"}) => Holds(frames, {"open"})
    <3>1. "abort" \in FrameOps /\ "abort" # "open"
      BY DEF FrameOps
    <3>2. Holds(Append(Front(frames), Frame("abort", flag, Last(frames).cause)), {"open"})
          => Holds(Front(frames), {"open"})
      BY <1>1, <2>1, <3>1, PushNotOpen, Zenon
    <3> QED BY <1>1, <2>1, <3>2, Zenon
  <2> QED BY <2>1, <2>2, PromptsKept
<1>5. ASSUME CancelAborts \/ AfterTurn PROVE PromptInv'
  BY <1>2, <1>5 DEF CancelAborts, AfterTurn
<1>6. ASSUME Kick PROVE PromptInv'
  BY <1>1, <1>6, BeginTurnPrompts DEF Kick
<1>7. ASSUME OpenTurn PROVE PromptInv'
  <2>1. ~Holds(Front(frames), DriverOps) /\ Holds(frames, {"open"})
    BY <1>0, <1>7, PopDriver DEF OpenTurn, Top, DriverOps
  <2>2. ~Holds(Front(frames), {"open"})
    BY <2>1 DEF Holds, DriverOps
  <2>3. turn.prompts = {}
    BY <2>1 DEF PromptInv
  <2> QED BY <1>0, <1>7, <2>2, <2>3, EndTurnPrompts, ClaimPrompts DEF OpenTurn
<1>8. ASSUME FinishFailedTurn PROVE PromptInv'
  BY <1>8, EndTurnPrompts DEF FinishFailedTurn
<1> QED BY <1>3, <1>4, <1>5, <1>6, <1>7, <1>8 DEF Continue

LEMMA SettlePrompts == TypeOK /\ PromptInv /\ Settle => PromptInv'
<1> SUFFICES ASSUME TypeOK, PromptInv, Settle PROVE PromptInv'
  OBVIOUS
<1>1. frames = <<>>
  BY DEF Settle, PreStepDecides, PreStepFails, StepRejected, NothingToEnter, EnterStep,
         RequestBuilt, StreamFailed, ToolsCalled, Resume, RequestRetried, StepReturns,
         StepFails, EndStep, Stop, StopFails, NextTurn, Exit, EndMaintenance, At
<1>2. ~Holds(frames, {"open"}) /\ frames \in Seq(FrameType)
  BY <1>1, Empty DEF TypeOK
<1>3. ASSUME NEW op \in {"failing", "ending", "relatch", "kick"}, NEW flag \in BOOLEAN,
             frames' = Append(frames, Frame(op, flag, "no"))
      PROVE  ~Holds(frames', {"open"})
  <2>1. op \in FrameOps /\ op # "open"
    BY DEF FrameOps, DriverOps
  <2>2. "no" \in Causes \cup {"no"}
    OBVIOUS
  <2>3. Holds(Append(frames, Frame(op, flag, "no")), {"open"}) => Holds(frames, {"open"})
    BY <1>2, <2>1, <2>2, PushNotOpen, Zenon
  <2> QED BY <1>2, <1>3, <2>3, Zenon
<1>4. ASSUME frames' = frames \/ ~Holds(frames', {"open"}),
             turn'.prompts = turn.prompts \/ turn'.prompts = {}
      PROVE  PromptInv'
  BY <1>2, <1>4, PromptsKept
<1>5. ASSUME PreStepDecides \/ RequestRetried PROVE PromptInv'
  <2>1. turn'.prompts = turn.prompts /\ frames' = frames
    BY <1>5 DEF PreStepDecides, RequestRetried, TypeOK, TurnType
  <2> QED BY <1>4, <2>1
<1>6. ASSUME StepReturns \/ EnterStep PROVE PromptInv'
  <2>1. turn'.prompts = turn.prompts /\ frames' = frames
    BY <1>6 DEF StepReturns, EnterStep, TypeOK, TurnType
  <2> QED BY <1>4, <2>1
<1>7. ASSUME PreStepFails PROVE PromptInv'
  <2>1. CASE Aborted
    BY <1>7, <2>1, EndTurnPrompts DEF PreStepFails
  <2>2. CASE ~Aborted
    <3>1. /\ turn' = [turn EXCEPT !.batch = <<>>]
          /\ frames' = Append(frames, Frame("failing", FALSE, "no"))
      BY <1>7, <2>2 DEF PreStepFails
    <3>2. turn'.prompts = turn.prompts
      BY <3>1 DEF TypeOK, TurnType
    <3> QED BY <1>3, <1>4, <3>1, <3>2
  <2> QED BY <2>1, <2>2
<1>8. ASSUME StepRejected \/ NothingToEnter PROVE PromptInv'
  BY <1>8, EndTurnPrompts DEF StepRejected, NothingToEnter
<1>9. ASSUME RequestBuilt \/ StreamFailed \/ ToolsCalled PROVE PromptInv'
  BY <1>4, <1>9 DEF RequestBuilt, StreamFailed, ToolsCalled, Resume
<1>10. ASSUME StepFails PROVE PromptInv'
  <2>1. \E op \in {"failing", "ending"} : frames' = Append(frames, Frame(op, FALSE, "no"))
    BY <1>10 DEF StepFails
  <2> QED BY <1>3, <1>4, <1>10, <2>1 DEF StepFails
<1>11. ASSUME EndStep PROVE PromptInv'
  <2>1. CASE Aborted
    BY <1>3, <1>4, <1>11, <2>1 DEF EndStep
  <2>2. CASE ~Aborted /\ turn.ends # "null" /\ nextStep = <<>>
    BY <1>4, <1>11, <2>2 DEF EndStep
  <2>3. CASE ~Aborted /\ ~(turn.ends # "null" /\ nextStep = <<>>)
    BY <1>2, <1>11, <2>3, ClaimPrompts DEF EndStep
  <2> QED BY <2>1, <2>2, <2>3
<1>12. ASSUME Stop PROVE PromptInv'
  BY <1>2, <1>12, ClaimPrompts, EndTurnPrompts DEF Stop
<1>13. ASSUME StopFails PROVE PromptInv'
  <2>1. CASE Aborted
    BY <1>13, <2>1, EndTurnPrompts DEF StopFails
  <2>2. CASE ~Aborted
    BY <1>3, <1>4, <1>13, <2>2 DEF StopFails
  <2> QED BY <2>1, <2>2
<1>14. ASSUME NextTurn PROVE PromptInv'
  BY <1>14, BeginTurnPrompts DEF NextTurn
<1>15. ASSUME Exit PROVE PromptInv'
  <2> DEFINE flag == phase.wake
  <2>1. /\ frames' = Append(frames, Frame("relatch", flag, "no")) /\ flag \in BOOLEAN
        /\ turn'.prompts = {}
    BY <1>15 DEF Exit, NoTurn, TypeOK, PhaseType
  <2> HIDE DEF flag
  <2> QED BY <1>3, <1>4, <2>1
<1>16. ASSUME EndMaintenance PROVE PromptInv'
  <2>1. frames' = frames \/ frames' = Append(frames, Frame("kick", FALSE, "no"))
    <3>1. CASE frames' = <<Frame("kick", FALSE, "no")>>
      BY <1>1, <3>1
    <3>2. CASE UNCHANGED frames
      BY <3>2
    <3> QED BY <1>16, <3>1, <3>2 DEF EndMaintenance
  <2> QED BY <1>3, <1>4, <1>16, <2>1 DEF EndMaintenance
<1> QED BY <1>5, <1>6, <1>7, <1>8, <1>9, <1>10, <1>11, <1>12, <1>13, <1>14, <1>15, <1>16
        DEF Settle

(* A turn claims one queued prompt at most: follow-ups each get their own  *)
(* turn, whatever is sent, edited or canceled meanwhile.                   *)
THEOREM PromptsComeAlone == Spec => []SolePrompt
<1>1. Init => PromptInv
  BY Empty DEF Init, NoTurn, PromptInv, SolePrompt
<1>2. Control /\ PromptInv /\ [Next]_vars => PromptInv'
  <2> SUFFICES ASSUME Control, PromptInv, [Next]_vars PROVE PromptInv'
    OBVIOUS
  <2>1. CASE UNCHANGED vars
    BY <2>1 DEF vars, PromptInv, SolePrompt
  <2>2. CASE Restart
    <3>1. turn'.prompts = {}
      BY <2>2 DEF Restart, NoTurn
    <3> QED BY <3>1, PromptsKept
  <2> QED BY <2>1, <2>2, CallPrompts, ContinuePrompts, SettlePrompts DEF Next, Control
<1>3. PromptInv => SolePrompt
  BY DEF PromptInv
<1> QED BY <1>1, <1>2, <1>3, ControlInvariant, PTL DEF Spec

-----------------------------------------------------------------------------
(* No accepted message is lost or held twice.  The elements of a list, and *)
(* that none stands in it twice, under each operation on it.               *)

Single(s) == IsInjective(s)

LEMMA SingleIs ==
  ASSUME NEW S, NEW s \in Seq(S)
  PROVE  /\ Len(s) \in Nat /\ DOMAIN s = 1 .. Len(s)
         /\ ToSet(s) = {s[i] : i \in 1 .. Len(s)} /\ ToSet(s) \subseteq S
         /\ Single(s) <=> \A i, j \in 1 .. Len(s) : s[i] = s[j] => i = j
<1>1. Len(s) \in Nat /\ DOMAIN s = 1 .. Len(s)
  BY LenProperties
<1> QED BY <1>1, ToSetType DEF ToSet, Single, IsInjective

LEMMA NoElement ==
  /\ ToSet(<<>>) = {} /\ Single(<<>>)
  /\ \A S : \A s \in Seq(S) : ToSet(s) = {} <=> s = <<>>
<1>1. ToSet(<<>>) = {} /\ Single(<<>>)
  BY DEF ToSet, Single, IsInjective
<1>2. ASSUME NEW S, NEW s \in Seq(S), s # <<>> PROVE ToSet(s) # {}
  <2>1. 1 \in 1 .. Len(s)
    BY <1>2, EmptySeq
  <2> QED BY <2>1, SingleIs
<1> QED BY <1>1, <1>2

LEMMA Concatenated ==
  ASSUME NEW S, NEW s \in Seq(S), NEW t \in Seq(S)
  PROVE  /\ s \o t \in Seq(S) /\ ToSet(s \o t) = ToSet(s) \cup ToSet(t)
         /\ Single(s) /\ Single(t) /\ ToSet(s) \cap ToSet(t) = {} => Single(s \o t)
<1> DEFINE u == s \o t  m == Len(s)  n == Len(t)
<1>1. /\ m \in Nat /\ n \in Nat /\ u \in Seq(S) /\ Len(u) = m + n
      /\ \A i \in 1 .. m : u[i] = s[i]
      /\ \A i \in m + 1 .. m + n : u[i] = t[i - m]
  <2>1. m \in Nat /\ n \in Nat /\ u \in Seq(S) /\ Len(u) = m + n
        /\ \A i \in 1 .. m + n : u[i] = IF i <= m THEN s[i] ELSE t[i - m]
    BY SingleIs, ConcatProperties
  <2> HIDE DEF u, m, n
  <2> QED BY <2>1
<1>2. /\ ToSet(s) = {s[i] : i \in 1 .. m} /\ ToSet(t) = {t[i] : i \in 1 .. n}
      /\ Single(s) <=> \A i, j \in 1 .. m : s[i] = s[j] => i = j
      /\ Single(t) <=> \A i, j \in 1 .. n : t[i] = t[j] => i = j
  BY SingleIs
<1>3. /\ ToSet(u) = {u[i] : i \in 1 .. m + n}
      /\ Single(u) <=> \A i, j \in 1 .. m + n : u[i] = u[j] => i = j
  BY <1>1, SingleIs
<1> HIDE DEF u, m, n
<1>4. ToSet(s) \subseteq ToSet(u)
  BY <1>1, <1>2, <1>3
<1>5. ToSet(t) \subseteq ToSet(u)
  <2>1. ASSUME NEW i \in 1 .. n PROVE t[i] \in ToSet(u)
    <3>1. m + i \in m + 1 .. m + n /\ m + i \in 1 .. m + n /\ (m + i) - m = i
      BY <1>1
    <3>2. u[m + i] = t[i]
      BY <1>1, <3>1
    <3> QED BY <1>3, <3>1, <3>2
  <2> QED BY <1>2, <2>1
<1>6. ASSUME NEW i \in 1 .. m + n
      PROVE  (i \in 1 .. m /\ u[i] = s[i]) \/ (i - m \in 1 .. n /\ u[i] = t[i - m])
  <2>1. CASE i <= m
    BY <1>1, <2>1
  <2>2. CASE ~(i <= m)
    <3>1. i \in m + 1 .. m + n /\ i - m \in 1 .. n
      BY <1>1, <2>2
    <3> QED BY <1>1, <3>1
  <2> QED BY <2>1, <2>2
<1>7. ToSet(u) \subseteq ToSet(s) \cup ToSet(t)
  BY <1>2, <1>3, <1>6
<1>8. ASSUME Single(s), Single(t), ToSet(s) \cap ToSet(t) = {} PROVE Single(u)
  <2> SUFFICES ASSUME NEW i \in 1 .. m + n, NEW j \in 1 .. m + n, u[i] = u[j] PROVE i = j
    BY <1>3
  <2>1. i \in Int /\ j \in Int
    OBVIOUS
  <2>2. CASE i \in 1 .. m /\ u[i] = s[i] /\ j \in 1 .. m /\ u[j] = s[j]
    BY <1>2, <1>8, <2>2
  <2>3. CASE i \in 1 .. m /\ u[i] = s[i] /\ j - m \in 1 .. n /\ u[j] = t[j - m]
    <3>1. s[i] \in ToSet(s) /\ t[j - m] \in ToSet(t)
      BY <1>2, <2>3
    <3> QED BY <1>8, <2>3, <3>1
  <2>4. CASE i - m \in 1 .. n /\ u[i] = t[i - m] /\ j \in 1 .. m /\ u[j] = s[j]
    <3>1. s[j] \in ToSet(s) /\ t[i - m] \in ToSet(t)
      BY <1>2, <2>4
    <3> QED BY <1>8, <2>4, <3>1
  <2>5. CASE i - m \in 1 .. n /\ u[i] = t[i - m] /\ j - m \in 1 .. n /\ u[j] = t[j - m]
    <3>1. i - m = j - m
      BY <1>2, <1>8, <2>5
    <3> QED BY <1>1, <2>1, <3>1
  <2> QED BY <1>6, <2>2, <2>3, <2>4, <2>5
<1> QED BY <1>1, <1>4, <1>5, <1>7, <1>8 DEF u

LEMMA OneElement ==
  ASSUME NEW S, NEW x \in S
  PROVE  <<x>> \in Seq(S) /\ ToSet(<<x>>) = {x} /\ Single(<<x>>)
<1>1. <<x>> \in Seq(S) /\ Len(<<x>>) = 1 /\ <<x>>[1] = x
  OBVIOUS
<1>2. \A i \in 1 .. 1 : i = 1
  OBVIOUS
<1> DEFINE s == <<x>>
<1> HIDE DEF s
<1>3. /\ ToSet(s) = {s[i] : i \in 1 .. 1}
      /\ Single(s) <=> \A i, j \in 1 .. 1 : s[i] = s[j] => i = j
  BY <1>1, SingleIs DEF s
<1>4. s[1] = x
  BY <1>1 DEF s
<1>5. ToSet(s) = {x}
  BY <1>2, <1>3, <1>4
<1>6. Single(s)
  BY <1>2, <1>3
<1> QED BY <1>1, <1>5, <1>6 DEF s

LEMMA Appended ==
  ASSUME NEW S, NEW s \in Seq(S), NEW x \in S
  PROVE  /\ ToSet(Append(s, x)) = ToSet(s) \cup {x}
         /\ Single(s) /\ x \notin ToSet(s) => Single(Append(s, x))
<1>1. Append(s, x) = s \o <<x>>
  BY AppendIsConcat
<1>2. <<x>> \in Seq(S) /\ ToSet(<<x>>) = {x} /\ Single(<<x>>)
  BY OneElement
<1>3. /\ ToSet(s \o <<x>>) = ToSet(s) \cup ToSet(<<x>>)
      /\ Single(s) /\ Single(<<x>>) /\ ToSet(s) \cap ToSet(<<x>>) = {} => Single(s \o <<x>>)
  BY <1>2, Concatenated
<1> QED BY <1>1, <1>2, <1>3

LEMMA Prepended ==
  ASSUME NEW S, NEW s \in Seq(S), NEW x \in S
  PROVE  /\ ToSet(Cons(x, s)) = ToSet(s) \cup {x}
         /\ Single(s) /\ x \notin ToSet(s) => Single(Cons(x, s))
<1> DEFINE e == <<x>>
<1>1. Cons(x, s) = e \o s
  BY DEF Cons
<1>2. e \in Seq(S) /\ ToSet(e) = {x} /\ Single(e)
  BY OneElement
<1> HIDE DEF e
<1>3. /\ ToSet(e \o s) = ToSet(e) \cup ToSet(s)
      /\ Single(e) /\ Single(s) /\ ToSet(e) \cap ToSet(s) = {} => Single(e \o s)
  BY <1>2, Concatenated
<1>4. ToSet(Cons(x, s)) = {x} \cup ToSet(s)
  BY <1>1, <1>2, <1>3
<1>5. ASSUME Single(s), x \notin ToSet(s) PROVE Single(Cons(x, s))
  BY <1>1, <1>2, <1>3, <1>5
<1> QED BY <1>4, <1>5

LEMMA Beheaded ==
  ASSUME NEW S, NEW s \in Seq(S), s # <<>>
  PROVE  /\ Head(s) \in ToSet(s) /\ Head(s) \in S
         /\ Single(s) => Single(Tail(s)) /\ ToSet(Tail(s)) = ToSet(s) \ {Head(s)}
<1> DEFINE t == Tail(s)  n == Len(s)
<1>1. /\ n \in Nat \ {0} /\ t \in Seq(S) /\ Len(t) = n - 1 /\ Head(s) = s[1] /\ Head(s) \in S
      /\ \A i \in 1 .. n - 1 : t[i] = s[i + 1]
  BY EmptySeq, HeadTailProperties
<1>2. /\ ToSet(s) = {s[i] : i \in 1 .. n} /\ ToSet(t) = {t[i] : i \in 1 .. n - 1}
      /\ Single(s) <=> \A i, j \in 1 .. n : s[i] = s[j] => i = j
      /\ Single(t) <=> \A i, j \in 1 .. n - 1 : t[i] = t[j] => i = j
  <2>1. /\ ToSet(s) = {s[i] : i \in 1 .. n}
        /\ Single(s) <=> \A i, j \in 1 .. n : s[i] = s[j] => i = j
    BY SingleIs
  <2> HIDE DEF t
  <2>2. /\ ToSet(t) = {t[i] : i \in 1 .. Len(t)}
        /\ Single(t) <=> \A i, j \in 1 .. Len(t) : t[i] = t[j] => i = j
    BY <1>1, SingleIs
  <2> QED BY <1>1, <2>1, <2>2
<1> HIDE DEF t, n
<1>3. Head(s) \in ToSet(s)
  BY <1>1, <1>2
<1>4. ASSUME Single(s) PROVE Single(t)
  <2> SUFFICES ASSUME NEW i \in 1 .. n - 1, NEW j \in 1 .. n - 1, t[i] = t[j] PROVE i = j
    BY <1>2
  <2>1. i + 1 \in 1 .. n /\ j + 1 \in 1 .. n /\ s[i + 1] = s[j + 1]
    BY <1>1
  <2>2. i + 1 = j + 1
    BY <1>2, <1>4, <2>1
  <2> QED BY <2>2
<1>5. ASSUME Single(s) PROVE ToSet(t) = ToSet(s) \ {Head(s)}
  <2>1. ASSUME NEW i \in 1 .. n - 1 PROVE t[i] \in ToSet(s) \ {Head(s)}
    <3>1. i + 1 \in 1 .. n /\ 1 \in 1 .. n /\ i + 1 # 1 /\ t[i] = s[i + 1]
      BY <1>1
    <3> QED BY <1>1, <1>2, <1>5, <3>1
  <2>2. ASSUME NEW i \in 1 .. n, s[i] # Head(s) PROVE s[i] \in ToSet(t)
    <3>1. i - 1 \in 1 .. n - 1 /\ t[i - 1] = s[i]
      BY <1>1, <2>2
    <3> QED BY <1>2, <3>1
  <2> QED BY <1>2, <2>1, <2>2
<1> QED BY <1>1, <1>3, <1>4, <1>5 DEF t

LEMMA Removed ==
  ASSUME NEW S, NEW s \in Seq(S), NEW x, Single(s)
  PROVE  Single(Without(s, x)) /\ ToSet(Without(s, x)) = ToSet(s) \ {x}
<1>1. CASE x \notin ToSet(s)
  BY <1>1 DEF Without
<1>2. CASE x \in ToSet(s)
  <2> DEFINE k == CHOOSE i \in DOMAIN s : s[i] = x  n == Len(s)
             a == SubSeq(s, 1, k - 1)  b == SubSeq(s, k + 1, n)
  <2>1. k \in DOMAIN s /\ s[k] = x
    BY <1>2 DEF ToSet
  <2>2. /\ n \in Nat /\ DOMAIN s = 1 .. n /\ ToSet(s) = {s[i] : i \in 1 .. n}
        /\ \A i, j \in 1 .. n : s[i] = s[j] => i = j
        /\ \A i \in 1 .. n : s[i] \in S
    BY SingleIs, ElementOfSeq
  <2>3. Without(s, x) = a \o b
    BY <1>2 DEF Without, RemoveAt
  <2> HIDE DEF k, n
  <2>4. /\ a \in Seq(S) /\ Len(a) = k - 1 /\ \A i \in 1 .. k - 1 : a[i] = s[i]
    <3>1. k \in 1 .. n
      BY <2>1, <2>2
    <3>2. \A i \in 1 .. k - 1 : s[i] \in S
      BY <2>2, <3>1
    <3>3. /\ SubSeq(s, 1, k - 1) \in Seq(S)
          /\ Len(SubSeq(s, 1, k - 1)) = IF 1 <= k - 1 THEN (k - 1) - 1 + 1 ELSE 0
          /\ \A i \in 1 .. (k - 1) - 1 + 1 : SubSeq(s, 1, k - 1)[i] = s[1 + i - 1]
      BY <2>2, <3>1, <3>2, SubSeqProperties
    <3> QED BY <2>2, <3>1, <3>3
  <2>5. /\ b \in Seq(S) /\ Len(b) = n - k /\ \A i \in 1 .. n - k : b[i] = s[k + i]
    <3>1. k \in 1 .. n
      BY <2>1, <2>2
    <3>2. \A i \in k + 1 .. n : s[i] \in S
      BY <2>2, <3>1
    <3>3. /\ SubSeq(s, k + 1, n) \in Seq(S)
          /\ Len(SubSeq(s, k + 1, n)) = IF k + 1 <= n THEN n - (k + 1) + 1 ELSE 0
          /\ \A i \in 1 .. n - (k + 1) + 1 : SubSeq(s, k + 1, n)[i] = s[(k + 1) + i - 1]
      BY <2>2, <3>1, <3>2, SubSeqProperties
    <3> QED BY <2>2, <3>1, <3>3
  <2> HIDE DEF a, b
  <2>6. /\ ToSet(a) = {a[i] : i \in 1 .. k - 1} /\ ToSet(b) = {b[i] : i \in 1 .. n - k}
        /\ Single(a) <=> \A i, j \in 1 .. k - 1 : a[i] = a[j] => i = j
        /\ Single(b) <=> \A i, j \in 1 .. n - k : b[i] = b[j] => i = j
    BY <2>4, <2>5, SingleIs
  <2>7. k \in 1 .. n
    BY <2>1, <2>2
  <2>8. Single(a)
    BY <2>2, <2>4, <2>6, <2>7
  <2>9. Single(b)
    <3> SUFFICES ASSUME NEW i \in 1 .. n - k, NEW j \in 1 .. n - k, b[i] = b[j] PROVE i = j
      BY <2>6
    <3>1. k + i \in 1 .. n /\ k + j \in 1 .. n /\ s[k + i] = s[k + j]
      BY <2>2, <2>5, <2>7
    <3>2. k + i = k + j
      BY <2>2, <3>1
    <3> QED BY <2>2, <2>7, <3>2
  <2>10. \A i \in 1 .. k - 1 : i \in 1 .. n /\ i # k /\ i < k
    BY <2>2, <2>7
  <2>11. \A i \in 1 .. n - k : k + i \in 1 .. n /\ k + i # k /\ k + i > k
    BY <2>2, <2>7
  <2>12. ToSet(a) \cap ToSet(b) = {}
    <3> SUFFICES ASSUME NEW i \in 1 .. k - 1, NEW j \in 1 .. n - k, a[i] = b[j] PROVE FALSE
      BY <2>6
    <3>1. s[i] = s[k + j]
      BY <2>4, <2>5
    <3>2. i = k + j
      BY <2>2, <2>10, <2>11, <3>1
    <3>3. i < k /\ k + j > k /\ i \in Int /\ k \in Int /\ j \in Int
      BY <2>7, <2>10, <2>11
    <3> QED BY <3>2, <3>3
  <2>13. ToSet(a) \cup ToSet(b) = ToSet(s) \ {x}
    <3>1. ASSUME NEW i \in 1 .. k - 1 PROVE a[i] \in ToSet(s) \ {x}
      BY <2>1, <2>2, <2>4, <2>10
    <3>2. ASSUME NEW i \in 1 .. n - k PROVE b[i] \in ToSet(s) \ {x}
      BY <2>1, <2>2, <2>5, <2>11
    <3>3. ASSUME NEW i \in 1 .. n, s[i] # x PROVE s[i] \in ToSet(a) \cup ToSet(b)
      <4>1. CASE i < k
        <5>1. i \in 1 .. k - 1
          BY <2>2, <2>7, <4>1
        <5> QED BY <2>4, <2>6, <5>1
      <4>2. CASE i > k
        <5>1. i - k \in 1 .. n - k /\ k + (i - k) = i
          BY <2>2, <2>7, <4>2
        <5>2. b[i - k] = s[i]
          BY <2>5, <5>1
        <5> QED BY <2>6, <5>1, <5>2
      <4>3. i # k
        BY <2>1, <3>3
      <4> QED BY <2>2, <2>7, <4>1, <4>2, <4>3
    <3> QED BY <2>2, <2>6, <3>1, <3>2, <3>3
  <2> QED BY <2>3, <2>4, <2>5, <2>8, <2>9, <2>12, <2>13, Concatenated
<1> QED BY <1>1, <1>2

LEMMA Replaced ==
  ASSUME NEW S, NEW s \in Seq(S), NEW x, NEW y \in S, Single(s), y \notin ToSet(s)
  PROVE  /\ Single(ReplaceAll(s, x, y))
         /\ ToSet(ReplaceAll(s, x, y)) =
              IF x \in ToSet(s) THEN (ToSet(s) \ {x}) \cup {y} ELSE ToSet(s)
<1> DEFINE t == ReplaceAll(s, x, y)  n == Len(s)
<1>1. /\ n \in Nat /\ ToSet(s) = {s[i] : i \in 1 .. n}
      /\ \A i, j \in 1 .. n : s[i] = s[j] => i = j
  BY SingleIs
<1>2. /\ DOMAIN t = 1 .. n
      /\ \A i \in 1 .. n : t[i] = IF s[i] = x THEN y ELSE s[i]
  BY DEF ReplaceAll
<1>3. ToSet(t) = {t[i] : i \in 1 .. n}
  BY <1>2 DEF ToSet
<1>4. Single(t) <=> \A i, j \in 1 .. n : t[i] = t[j] => i = j
  BY <1>2 DEF Single, IsInjective
<1> HIDE DEF t, n
<1>5. Single(t)
  BY <1>1, <1>2, <1>4
<1>6. \A z \in ToSet(t) : (z = y /\ x \in ToSet(s)) \/ (z \in ToSet(s) /\ z # x)
  BY <1>1, <1>2, <1>3
<1>7. \A z \in ToSet(s) : z # x => z \in ToSet(t)
  BY <1>1, <1>2, <1>3
<1>8. x \in ToSet(s) => y \in ToSet(t)
  BY <1>1, <1>2, <1>3
<1> QED BY <1>5, <1>6, <1>7, <1>8 DEF t
-----------------------------------------------------------------------------
(* The ledger, place by place, and where a driver has a batch in its hands.*)
Places ==
  /\ Single(nextTurn) /\ Single(nextStep) /\ Single(turn.batch)
  /\ ToSet(nextTurn) \cap ToSet(nextStep) = {}
  /\ \A m \in Messages :
       /\ fate[m] = "pending" <=> m \in Pending
       /\ fate[m] = "claimed" <=> m \in ToSet(turn.batch)

Claiming == turn.batch # <<>> => pc \in {"pre", "decided"}

Ledger == Places /\ Claiming

LEMMA LedgerIsExact ==
  ASSUME TypeOK, Ledger
  PROVE  LedgerExact
<1>1. nextTurn \in Seq(Messages) /\ nextStep \in Seq(Messages) /\ turn.batch \in Seq(Messages)
  BY DEF TypeOK, TurnType
<1>2. /\ nextTurn \o nextStep \in Seq(Messages) /\ ToSet(nextTurn \o nextStep) = Pending
      /\ Single(nextTurn \o nextStep)
  BY <1>1, Concatenated DEF Pending, Ledger, Places
<1>3. Pending \cap ToSet(turn.batch) = {}
  <2>1. ToSet(turn.batch) \subseteq Messages
    BY PendingType
  <2> QED BY <2>1 DEF Ledger, Places
<1>4. Single((nextTurn \o nextStep) \o turn.batch)
  BY <1>1, <1>2, <1>3, Concatenated DEF Ledger, Places
<1> QED BY <1>4 DEF LedgerExact, Ledger, Places, Single

(* Nothing moves.                                                          *)
LEMMA StillLedger ==
  ASSUME Ledger, UNCHANGED inbox, turn'.batch = turn.batch,
         turn.batch # <<>> => pc' \in {"pre", "decided"}
  PROVE  Ledger'
<1>1. nextTurn' = nextTurn /\ nextStep' = nextStep /\ fate' = fate
  BY DEF inbox
<1> QED BY <1>1 DEF Ledger, Places, Claiming, Pending

(* A message that was not sent yet comes in at one place.                  *)
LEMMA EnteredLedger ==
  ASSUME TypeOK, Ledger, NEW m \in Messages, fate[m] = "unsent",
         fate' = [fate EXCEPT ![m] = "pending"], UNCHANGED <<turn, pc>>,
         \/ /\ nextStep' = nextStep
            /\ nextTurn' = Append(nextTurn, m) \/ nextTurn' = Cons(m, nextTurn)
         \/ /\ nextTurn' = nextTurn
            /\ nextStep' = Append(nextStep, m) \/ nextStep' = Cons(m, nextStep)
  PROVE  Ledger'
<1>1. /\ nextTurn \in Seq(Messages) /\ nextStep \in Seq(Messages)
      /\ fate \in [Messages -> Fates]
  BY DEF TypeOK
<1>2. m \notin ToSet(nextTurn) /\ m \notin ToSet(nextStep)
  BY DEF Ledger, Places, Pending
<1>3. \/ /\ ToSet(nextTurn') = ToSet(nextTurn) \cup {m} /\ Single(nextTurn') /\ nextStep' = nextStep
      \/ /\ ToSet(nextStep') = ToSet(nextStep) \cup {m} /\ Single(nextStep') /\ nextTurn' = nextTurn
  <2>1. ASSUME NEW s \in {nextTurn, nextStep}, NEW t, t = Append(s, m) \/ t = Cons(m, s)
        PROVE  ToSet(t) = ToSet(s) \cup {m} /\ Single(t)
    <3>1. s \in Seq(Messages) /\ m \notin ToSet(s) /\ Single(s)
      BY <1>1, <1>2 DEF Ledger, Places
    <3>2. CASE t = Append(s, m)
      BY <3>1, <3>2, Appended
    <3>3. CASE t = Cons(m, s)
      BY <3>1, <3>3, Prepended
    <3> QED BY <2>1, <3>2, <3>3
  <2> QED BY <2>1
<1>4. Pending' = Pending \cup {m}
  BY <1>3 DEF Pending
<1>5. /\ Single(nextTurn') /\ Single(nextStep') /\ Single(turn'.batch)
      /\ ToSet(nextTurn') \cap ToSet(nextStep') = {}
  BY <1>2, <1>3 DEF Ledger, Places
<1>6. ASSUME NEW n \in Messages
      PROVE  /\ fate'[n] = "pending" <=> n \in Pending'
             /\ fate'[n] = "claimed" <=> n \in ToSet(turn'.batch)
  <2>1. fate'[n] = IF n = m THEN "pending" ELSE fate[n]
    BY <1>1
  <2> QED BY <1>4, <2>1 DEF Ledger, Places
<1> QED BY <1>5, <1>6 DEF Ledger, Places, Claiming

(* What leaves the inbox is canceled.                                      *)
LEMMA DiscardedLedger ==
  ASSUME TypeOK, Ledger, NEW S, S \subseteq Pending, Discard(S), UNCHANGED <<turn, pc>>,
         Single(nextTurn'), ToSet(nextTurn') = ToSet(nextTurn) \ S,
         Single(nextStep'), ToSet(nextStep') = ToSet(nextStep) \ S
  PROVE  Ledger'
<1>1. Pending' = Pending \ S
  BY DEF Pending
<1>2. ASSUME NEW n \in Messages
      PROVE  /\ fate'[n] = "pending" <=> n \in Pending'
             /\ fate'[n] = "claimed" <=> n \in ToSet(turn'.batch)
  <2>1. fate'[n] = IF n \in S THEN "canceled" ELSE fate[n]
    BY DEF Discard
  <2>2. n \in S => fate[n] = "pending"
    BY DEF Ledger, Places
  <2> QED BY <1>1, <2>1, <2>2 DEF Ledger, Places
<1> QED BY <1>2 DEF Ledger, Places, Claiming

(* The batch leaves the hands of the driver.                               *)
LEMMA DroppedLedger ==
  ASSUME TypeOK, Ledger, UNCHANGED <<nextTurn, nextStep>>, turn'.batch = <<>>,
         \A m \in Messages : IF m \in ToSet(turn.batch)
                             THEN fate'[m] \in {"dropped", "entered"} ELSE fate'[m] = fate[m]
  PROVE  Ledger'
<1>1. Pending' = Pending
  BY DEF Pending
<1>2. ToSet(turn'.batch) = {} /\ Single(turn'.batch)
  BY NoElement
<1>3. ASSUME NEW n \in Messages
      PROVE  /\ fate'[n] = "pending" <=> n \in Pending'
             /\ fate'[n] = "claimed" <=> n \in ToSet(turn'.batch)
  BY <1>1, <1>2 DEF Ledger, Places
<1> QED BY <1>2, <1>3 DEF Ledger, Places, Claiming

LEMMA ClaimedLedger ==
  ASSUME TypeOK, Ledger, pc \notin {"pre", "decided"}, NEW target, NEW rest,
         ClaimStep(target, rest)
  PROVE  Ledger'
<1> DEFINE p == NextPrompt(target)  b == nextStep \o p
<1>1. /\ nextTurn \in Seq(Messages) /\ nextStep \in Seq(Messages) /\ turn \in TurnType
  BY DEF TypeOK
<1>2. /\ nextStep' = <<>> /\ nextTurn' = (IF p = <<>> THEN nextTurn ELSE Tail(nextTurn))
      /\ fate' = [m \in Messages |-> IF m \in ToSet(b) THEN "claimed" ELSE fate[m]]
      /\ turn' = [turn EXCEPT !.batch = b, !.prompts = @ \cup ToSet(p)]
      /\ pc' = "pre"
  BY DEF ClaimStep
<1>3. turn'.batch = b
  BY <1>1, <1>2 DEF TurnType
<1>4. /\ p \in Seq(Messages) /\ Single(p) /\ ToSet(p) \subseteq ToSet(nextTurn)
      /\ Single(nextTurn') /\ ToSet(nextTurn') = ToSet(nextTurn) \ ToSet(p)
  <2>1. CASE target = "next-turn" /\ nextTurn # <<>>
    <3>1. p = <<Head(nextTurn)>> /\ p # <<>> /\ nextTurn' = Tail(nextTurn)
      BY <1>2, <2>1 DEF NextPrompt
    <3>2. /\ Head(nextTurn) \in ToSet(nextTurn) /\ Head(nextTurn) \in Messages
          /\ Single(Tail(nextTurn)) /\ ToSet(Tail(nextTurn)) = ToSet(nextTurn) \ {Head(nextTurn)}
      BY <1>1, <2>1, Beheaded DEF Ledger, Places
    <3>3. p \in Seq(Messages) /\ ToSet(p) = {Head(nextTurn)} /\ Single(p)
      BY <3>1, <3>2, OneElement
    <3> HIDE DEF p
    <3> QED BY <3>1, <3>2, <3>3
  <2>2. CASE ~(target = "next-turn" /\ nextTurn # <<>>)
    <3>1. p = <<>> /\ nextTurn' = nextTurn
      BY <1>2, <2>2 DEF NextPrompt
    <3>2. p \in Seq(Messages) /\ ToSet(p) = {} /\ Single(p)
      BY <3>1, EmptySeq, NoElement
    <3> HIDE DEF p
    <3> QED BY <3>1, <3>2 DEF Ledger, Places
  <2> QED BY <2>1, <2>2
<1> HIDE DEF p
<1>5. ToSet(b) = ToSet(nextStep) \cup ToSet(p) /\ Single(b)
  <2>1. ToSet(nextStep) \cap ToSet(p) = {}
    BY <1>4 DEF Ledger, Places
  <2> QED BY <1>1, <1>4, <2>1, Concatenated DEF Ledger, Places
<1>6. ToSet(nextStep') = {} /\ Single(nextStep')
  BY <1>2, NoElement
<1>7. Pending' = Pending \ ToSet(b)
  BY <1>4, <1>5, <1>6 DEF Pending, Ledger, Places
<1>8. ToSet(turn.batch) = {}
  BY NoElement DEF Ledger, Claiming
<1> HIDE DEF b
<1>9. ASSUME NEW n \in Messages
      PROVE  /\ fate'[n] = "pending" <=> n \in Pending'
             /\ fate'[n] = "claimed" <=> n \in ToSet(turn'.batch)
  <2>1. fate'[n] = IF n \in ToSet(b) THEN "claimed" ELSE fate[n]
    BY <1>2
  <2> QED BY <1>3, <1>7, <1>8, <2>1 DEF Ledger, Places
<1> QED BY <1>2, <1>3, <1>4, <1>5, <1>6, <1>9 DEF Ledger, Places, Claiming
LEMMA CallLedger == TypeOK /\ Ledger /\ Call => Ledger'
<1> SUFFICES ASSUME TypeOK, Ledger, Call PROVE Ledger'
  OBVIOUS
<1>0. /\ nextTurn \in Seq(Messages) /\ nextStep \in Seq(Messages)
      /\ Single(nextTurn) /\ Single(nextStep)
      /\ ToSet(nextTurn) \cap ToSet(nextStep) = {}
      /\ Pending = ToSet(nextTurn) \cup ToSet(nextStep)
  BY DEF TypeOK, Ledger, Places, Pending
<1>1. ASSUME UNCHANGED <<inbox, turn, pc>> PROVE Ledger'
  BY <1>1, StillLedger DEF Ledger, Claiming
<1>2. ASSUME NEW m \in Messages, NEW target \in Targets, NEW wakeup \in BOOLEAN,
             Send(m, target, wakeup)
      PROVE  Ledger'
  <2>1. PICK to \in Targets : Enqueue(m, to)
    BY <1>2 DEF Send, Targets
  <2>2. fate[m] = "unsent" /\ UNCHANGED <<turn, pc>>
    BY <1>2 DEF Send
  <2> QED BY <2>1, <2>2, EnteredLedger DEF Enqueue, Targets
<1>3. ASSUME NEW cause \in Causes, Cancel(cause) PROVE Ledger'
  <2>1. /\ Discard(ToSet(nextStep)) /\ nextStep' = <<>> /\ nextTurn' = nextTurn
        /\ UNCHANGED <<turn, pc>>
    BY <1>3 DEF Cancel
  <2>2. ToSet(nextTurn') = ToSet(nextTurn) \ ToSet(nextStep)
    BY <1>0, <2>1
  <2>3. Single(nextStep') /\ ToSet(nextStep') = ToSet(nextStep) \ ToSet(nextStep)
    BY <2>1, NoElement
  <2> QED BY <1>0, <2>1, <2>2, <2>3, DiscardedLedger
<1>4. ASSUME NEW m \in Messages, RemovePending(m) PROVE Ledger'
  <2>1. /\ fate[m] = "pending" /\ nextTurn' = Without(nextTurn, m)
        /\ nextStep' = Without(nextStep, m) /\ Discard({m}) /\ UNCHANGED <<turn, pc>>
    BY <1>4 DEF RemovePending
  <2>2. {m} \subseteq Pending
    BY <2>1 DEF Ledger, Places
  <2> QED BY <1>0, <2>1, <2>2, Removed, DiscardedLedger
<1>5. ASSUME NEW m \in Messages, NEW n \in Messages, ReplacePending(m, n) PROVE Ledger'
  <2>1. /\ fate[m] = "pending" /\ fate[n] = "unsent"
        /\ nextTurn' = ReplaceAll(nextTurn, m, n) /\ nextStep' = ReplaceAll(nextStep, m, n)
        /\ fate' = [fate EXCEPT ![m] = "canceled", ![n] = "pending"] /\ UNCHANGED <<turn, pc>>
    BY <1>5 DEF ReplacePending
  <2>2. m \in Pending /\ n \notin Pending /\ n \notin ToSet(turn.batch) /\ m # n
    BY <2>1 DEF Ledger, Places
  <2>3. /\ Single(nextTurn') /\ Single(nextStep')
        /\ ToSet(nextTurn') = (IF m \in ToSet(nextTurn) THEN (ToSet(nextTurn) \ {m}) \cup {n}
                               ELSE ToSet(nextTurn))
        /\ ToSet(nextStep') = (IF m \in ToSet(nextStep) THEN (ToSet(nextStep) \ {m}) \cup {n}
                               ELSE ToSet(nextStep))
    BY <1>0, <2>1, <2>2, Replaced
  <2>4. ToSet(nextTurn') \cap ToSet(nextStep') = {}
    BY <1>0, <2>2, <2>3
  <2>5. Pending' = (Pending \ {m}) \cup {n}
    <3>1. Pending' = ToSet(nextTurn') \cup ToSet(nextStep')
      BY DEF Pending
    <3> QED BY <1>0, <2>2, <2>3, <3>1
  <2>6. ASSUME NEW x \in Messages
        PROVE  /\ fate'[x] = "pending" <=> x \in Pending'
               /\ fate'[x] = "claimed" <=> x \in ToSet(turn'.batch)
    <3>1. fate'[x] = IF x = n THEN "pending" ELSE IF x = m THEN "canceled" ELSE fate[x]
      BY <2>1, <2>2 DEF TypeOK
    <3>2. m \notin ToSet(turn.batch)
      BY <2>1 DEF Ledger, Places
    <3> QED BY <2>1, <2>2, <2>5, <3>1, <3>2 DEF Ledger, Places
  <2> QED BY <2>1, <2>3, <2>4, <2>6 DEF Ledger, Places, Claiming
<1>6. ASSUME NEW m \in Messages, NEW target \in Targets, PrependPending(m, target)
      PROVE  Ledger'
  BY <1>6, EnteredLedger DEF PrependPending, Targets
<1>7. ASSUME CancelKeepingInbox PROVE Ledger'
  BY <1>1, <1>7 DEF CancelKeepingInbox
<1>8. ASSUME NEW cause \in Causes, NEW keepInbox \in BOOLEAN, CancelInObserver(cause, keepInbox)
      PROVE  Ledger'
  BY <1>1, <1>8 DEF CancelInObserver
<1>9. ASSUME RunMaintenance PROVE Ledger'
  BY <1>1, <1>9 DEF RunMaintenance
<1> QED BY <1>2, <1>3, <1>4, <1>5, <1>6, <1>7, <1>8, <1>9 DEF Call

(* A turn ends with no batch in the hands of the driver.                   *)
LEMMA EndedLedger ==
  ASSUME TypeOK, Ledger, pc \notin {"pre", "decided"}, NEW drains, NEW rest,
         EndTurn(drains, rest), UNCHANGED inbox
  PROVE  Ledger'
BY StillLedger DEF EndTurn, NoTurn, Ledger, Claiming

LEMMA BegunLedger ==
  ASSUME TypeOK, Ledger, pc \notin {"pre", "decided"}, NEW rest, BeginTurn(rest), UNCHANGED inbox
  PROVE  Ledger'
<1>1. turn.batch = <<>>
  BY DEF Ledger, Claiming
<1>2. turn' = turn \/ turn' = NoTurn
  BY DEF BeginTurn
<1>3. turn'.batch = <<>>
  BY <1>1, <1>2 DEF NoTurn
<1> QED BY <1>1, <1>3, StillLedger

LEMMA ContinueLedger == Control /\ Ledger /\ Continue => Ledger'
<1> SUFFICES ASSUME Control, Ledger, Continue PROVE Ledger'
  OBVIOUS
<1>0. /\ TypeOK /\ OneDriver
      /\ nextTurn \in Seq(Messages) /\ nextStep \in Seq(Messages)
      /\ Single(nextTurn) /\ Single(nextStep)
      /\ ToSet(nextTurn) \cap ToSet(nextStep) = {}
      /\ Pending = ToSet(nextTurn) \cup ToSet(nextStep)
  BY DEF Control, TypeOK, Ledger, Places, Pending
<1>1. ASSUME UNCHANGED <<inbox, turn, pc>> PROVE Ledger'
  BY <1>1, StillLedger DEF Ledger, Claiming
<1>2. ASSUME NEW op \in DriverOps, Top(op) PROVE pc = "none"
  BY <1>0, <1>2, PopDriver DEF Top
<1>3. ASSUME CancelClearsTurns PROVE Ledger'
  <2>1. /\ Discard(ToSet(nextTurn)) /\ nextTurn' = <<>> /\ nextStep' = nextStep
        /\ UNCHANGED <<turn, pc>>
    BY <1>3 DEF CancelClearsTurns
  <2>2. ToSet(nextStep') = ToSet(nextStep) \ ToSet(nextTurn)
    BY <1>0, <2>1
  <2>3. Single(nextTurn') /\ ToSet(nextTurn') = ToSet(nextTurn) \ ToSet(nextTurn)
    BY <2>1, NoElement
  <2> QED BY <1>0, <2>1, <2>2, <2>3, DiscardedLedger
<1>4. ASSUME Kick PROVE Ledger'
  <2>1. pc = "none"
    BY <1>2, <1>4 DEF Kick, DriverOps
  <2> QED BY <1>0, <1>4, <2>1, BegunLedger DEF Kick
<1>5. ASSUME OpenTurn PROVE Ledger'
  <2>1. pc = "none"
    BY <1>2, <1>5 DEF OpenTurn, DriverOps
  <2> QED BY <1>0, <1>5, <2>1, EndedLedger, ClaimedLedger DEF OpenTurn
<1>6. ASSUME FinishFailedTurn PROVE Ledger'
  <2>1. pc = "none"
    BY <1>2, <1>6 DEF FinishFailedTurn, DriverOps
  <2> QED BY <1>0, <1>6, <2>1, EndedLedger DEF FinishFailedTurn
<1>7. ASSUME AfterTurn PROVE Ledger'
  <2>1. pc = "none"
    BY <1>2, <1>7 DEF AfterTurn, DriverOps
  <2> QED BY <1>7, <2>1, StillLedger DEF AfterTurn, Ledger, Claiming
<1>8. ASSUME Wake \/ CancelAborts \/ Relatch PROVE Ledger'
  BY <1>1, <1>8 DEF Wake, CancelAborts, Relatch
<1> QED BY <1>3, <1>4, <1>5, <1>6, <1>7, <1>8 DEF Continue

LEMMA SettleLedger == TypeOK /\ Ledger /\ Settle => Ledger'
<1> SUFFICES ASSUME TypeOK, Ledger, Settle PROVE Ledger'
  OBVIOUS
<1>1. turn \in TurnType
  BY DEF TypeOK
<1>2. ASSUME DropBatch, UNCHANGED <<nextTurn, nextStep>>, turn'.batch = <<>> PROVE Ledger'
  BY <1>2, DroppedLedger DEF DropBatch
<1>3. ASSUME NEW drains, NEW rest, EndTurn(drains, rest) PROVE turn'.batch = <<>>
  BY <1>3 DEF EndTurn, NoTurn
<1>4. ASSUME PreStepDecides PROVE Ledger'
  <2>1. turn'.batch = turn.batch
    BY <1>1, <1>4 DEF PreStepDecides, TurnType
  <2> QED BY <1>4, <2>1, StillLedger DEF PreStepDecides
<1>5. ASSUME PreStepFails PROVE Ledger'
  <2>1. turn'.batch = <<>>
    BY <1>1, <1>3, <1>5 DEF PreStepFails, TurnType
  <2> QED BY <1>2, <1>5, <2>1 DEF PreStepFails
<1>6. ASSUME StepRejected \/ NothingToEnter PROVE Ledger'
  BY <1>2, <1>3, <1>6 DEF StepRejected, NothingToEnter
<1>7. ASSUME EnterStep PROVE Ledger'
  <2>1. turn'.batch = <<>>
    BY <1>1, <1>7 DEF EnterStep, TurnType
  <2> QED BY <1>7, <2>1, DroppedLedger DEF EnterStep
<1>8. ASSUME pc \notin {"pre", "decided"}, UNCHANGED inbox,
             turn'.batch = turn.batch \/ turn'.batch = <<>>
      PROVE  Ledger'
  <2>1. turn.batch = <<>>
    BY <1>8 DEF Ledger, Claiming
  <2> QED BY <1>8, <2>1, StillLedger
<1>9. ASSUME RequestBuilt \/ StreamFailed \/ ToolsCalled PROVE Ledger'
  BY <1>8, <1>9 DEF RequestBuilt, StreamFailed, ToolsCalled, Resume, At
<1>10. ASSUME RequestRetried PROVE Ledger'
  <2>1. turn'.batch = turn.batch
    BY <1>1, <1>10 DEF RequestRetried, TurnType
  <2> QED BY <1>8, <1>10, <2>1 DEF RequestRetried, At
<1>11. ASSUME StepReturns PROVE Ledger'
  <2>1. turn'.batch = turn.batch
    BY <1>1, <1>11 DEF StepReturns, TurnType
  <2> QED BY <1>8, <1>11, <2>1 DEF StepReturns, At
<1>12. ASSUME StepFails PROVE Ledger'
  BY <1>8, <1>12 DEF StepFails, At
<1>13. ASSUME EndStep PROVE Ledger'
  <2>1. pc \notin {"pre", "decided"}
    BY <1>13 DEF EndStep, At
  <2> QED BY <1>8, <1>13, <2>1, ClaimedLedger DEF EndStep
<1>14. ASSUME Stop PROVE Ledger'
  <2>1. pc \notin {"pre", "decided"}
    BY <1>14 DEF Stop, At
  <2> QED BY <1>14, <2>1, EndedLedger, ClaimedLedger DEF Stop
<1>15. ASSUME StopFails PROVE Ledger'
  <2>1. pc \notin {"pre", "decided"}
    BY <1>15 DEF StopFails, At
  <2> QED BY <1>8, <1>15, <2>1, EndedLedger DEF StopFails
<1>16. ASSUME NextTurn PROVE Ledger'
  BY <1>16, BegunLedger DEF NextTurn, At
<1>17. ASSUME Exit PROVE Ledger'
  BY <1>8, <1>17 DEF Exit, At, NoTurn
<1>18. ASSUME EndMaintenance PROVE Ledger'
  BY <1>18, StillLedger DEF EndMaintenance, Ledger, Claiming
<1> QED BY <1>4, <1>5, <1>6, <1>7, <1>9, <1>10, <1>11, <1>12, <1>13, <1>14, <1>15, <1>16, <1>17,
           <1>18 DEF Settle

LEMMA RestartLedger == TypeOK /\ Ledger /\ Restart => Ledger'
<1> SUFFICES ASSUME TypeOK, Ledger, Restart PROVE Ledger'
  OBVIOUS
<1>1. turn'.batch = <<>>
  BY DEF Restart, NoTurn
<1> QED BY <1>1, DroppedLedger DEF Restart, DropBatch

LEMMA LedgerInvariant == Spec => []Ledger
<1>1. Init => Ledger
  <2> SUFFICES ASSUME Init PROVE Ledger
    OBVIOUS
  <2>1. nextTurn = <<>> /\ nextStep = <<>> /\ turn.batch = <<>>
    BY DEF Init, NoTurn
  <2>2. Pending = {}
    BY <2>1, NoElement DEF Pending
  <2>3. \A m \in Messages : fate[m] = "unsent"
    BY DEF Init
  <2> QED BY <2>1, <2>2, <2>3, NoElement DEF Ledger, Places, Claiming
<1>2. Control /\ Ledger /\ [Next]_vars => Ledger'
  <2> SUFFICES ASSUME Control, Ledger, [Next]_vars PROVE Ledger'
    OBVIOUS
  <2>1. TypeOK
    BY DEF Control
  <2>2. CASE UNCHANGED vars
    BY <2>2, StillLedger DEF vars, inbox, Ledger, Claiming
  <2> QED BY <2>1, <2>2, CallLedger, ContinueLedger, SettleLedger, RestartLedger DEF Next
<1> QED BY <1>1, <1>2, ControlInvariant, PTL DEF Spec

(* No accepted message is lost or held twice, whatever calls come between. *)
THEOREM MessagesAreAccounted == Spec => []LedgerExact
<1>1. Control /\ Ledger => LedgerExact
  BY LedgerIsExact DEF Control
<1> QED BY <1>1, LedgerInvariant, ControlInvariant, PTL
-----------------------------------------------------------------------------
(* Wakes.  Whether a stack bears a frame of a kind, and that none of one   *)
(* kind stands below one of another.                                       *)
Bears(stack, F)    == \E i \in DOMAIN stack : stack[i] \in F
Never(stack, F, G) == \A i, j \in DOMAIN stack : i < j /\ stack[i] \in F => stack[j] \notin G

Marks  == {f \in FrameType : f.op = "wake" /\ f.flag}
Wakes  == {f \in FrameType : f.op = "wake" \/ (f.op = "relatch" /\ f.flag)}
Drains == {f \in FrameType : f.op = "close" /\ f.flag}
Leaves == {f \in FrameType : f.op = "close" /\ ~f.flag}
Locks  == {f \in FrameType : f.op \in LockedOps}
Runs   == {f \in FrameType : f.op \in DriverOps}

(* A wake to be latched on a fired signal has no driver above it, and      *)
(* nothing stands on a frame that publishes a session event.               *)
Stacked == Never(frames, Marks, Runs) /\ Never(frames, Locks, FrameType)

(* Such a wake is about only while that signal is, and a live driver has   *)
(* nothing latched.                                                        *)
Latched ==
  /\ Bears(frames, Marks) => phase.kind # "idle" /\ Aborted
  /\ phase.kind = "running" /\ ~Aborted => ~phase.wake
  /\ phase.kind = "idle" => ~Aborted /\ ~phase.wake

(* Work is kept only behind a driver that has yet to see its signal, and   *)
(* where no wake that came before is still to be delivered.                *)
Parked ==
  /\ phase.wake \/ Bears(frames, Marks) => audit.kept = {}
  /\ Bears(frames, Wakes) => audit.kept = {} \/ phase.kind = "running"
  /\ phase.kind = "running" /\ audit.kept # {} => Aborted /\ ~AbortUnseen
  /\ KeptWorkParks

(* Whoever is owed a turn is in the inbox; someone who wakes the agent is  *)
(* about, or a driver that has yet to look, or it is a lapse.              *)
Safe == audit.owed \subseteq audit.gap \cup audit.empty
Watched ==
  /\ audit.owed \subseteq Pending
  /\ phase.aborted = "disposed" => audit.owed = {}
  /\ phase.kind = "idle" => Safe \/ Bears(frames, Wakes)
  /\ phase.kind = "maintenance" => Safe \/ phase.wake \/ Bears(frames, Wakes)
  /\ phase.kind = "running" /\ (Aborted \/ pc = "exit" \/ Bears(frames, Leaves))
       => Safe \/ phase.wake \/ Bears(frames, Marks)

Wakeful == Stacked /\ Latched /\ Parked /\ Watched

LEMMA Pushed ==
  ASSUME NEW s \in Seq(FrameType), NEW f \in FrameType, NEW F, NEW G
  PROVE  /\ Bears(Append(s, f), F) <=> Bears(s, F) \/ f \in F
         /\ Never(Append(s, f), F, G) <=> Never(s, F, G) /\ (Bears(s, F) => f \notin G)
<1> DEFINE t == Append(s, f)  n == Len(s)
<1>1. /\ n \in Nat /\ DOMAIN s = 1 .. n /\ DOMAIN t = 1 .. n + 1 /\ t[n + 1] = f
      /\ \A i \in 1 .. n : t[i] = s[i]
  <2>1. /\ n \in Nat /\ DOMAIN s = 1 .. n /\ t \in Seq(FrameType) /\ Len(t) = n + 1
        /\ t[n + 1] = f /\ \A i \in 1 .. n : t[i] = s[i]
    BY LenProperties, AppendProperties
  <2> HIDE DEF t
  <2> QED BY <2>1, LenProperties
<1> HIDE DEF t, n
<1>2. \A i \in DOMAIN t : (i \in DOMAIN s /\ t[i] = s[i] /\ i < n + 1) \/ (i = n + 1 /\ t[i] = f)
  BY <1>1
<1>3. /\ \A i \in DOMAIN s : i \in DOMAIN t /\ t[i] = s[i] /\ i < n + 1
      /\ n + 1 \in DOMAIN t /\ t[n + 1] = f
  BY <1>1
<1>4. Bears(t, F) <=> Bears(s, F) \/ f \in F
  BY <1>2, <1>3 DEF Bears
<1>5. ASSUME Never(t, F, G) PROVE Never(s, F, G) /\ (Bears(s, F) => f \notin G)
  BY <1>3, <1>5 DEF Bears, Never
<1>6. ASSUME Never(s, F, G), Bears(s, F) => f \notin G PROVE Never(t, F, G)
  <2> SUFFICES ASSUME NEW i \in DOMAIN t, NEW j \in DOMAIN t, i < j, t[i] \in F PROVE t[j] \notin G
    BY DEF Never
  <2>1. i \in DOMAIN s /\ t[i] = s[i]
    <3>1. j \in 1 .. n + 1 /\ i \in 1 .. n + 1
      BY <1>1
    <3>2. i # n + 1
      BY <1>1, <3>1
    <3> QED BY <1>2, <3>2
  <2>2. CASE j \in DOMAIN s /\ t[j] = s[j]
    BY <1>6, <2>1, <2>2 DEF Never
  <2>3. CASE t[j] = f
    BY <1>6, <2>1, <2>3 DEF Bears
  <2> QED BY <1>2, <2>2, <2>3
<1> QED BY <1>4, <1>5, <1>6 DEF t

LEMMA Popped ==
  ASSUME NEW s \in Seq(FrameType), s # <<>>, NEW F, NEW G
  PROVE  /\ Bears(s, F) <=> Bears(Front(s), F) \/ Last(s) \in F
         /\ Never(s, F, G) => Never(Front(s), F, G) /\ (Bears(Front(s), F) => Last(s) \notin G)
<1> DEFINE t == Front(s)  n == Len(s)
<1>1. /\ n \in Nat \ {0} /\ DOMAIN s = 1 .. n /\ DOMAIN t = 1 .. n - 1
      /\ Last(s) = s[n] /\ \A i \in 1 .. n - 1 : t[i] = s[i]
  BY FrontLast DEF Last
<1> HIDE DEF t, n
<1>2. /\ \A i \in DOMAIN s : (i \in DOMAIN t /\ t[i] = s[i]) \/ i = n
      /\ \A i \in DOMAIN t : i \in DOMAIN s /\ t[i] = s[i] /\ i < n
      /\ n \in DOMAIN s
  BY <1>1
<1>3. Bears(s, F) <=> Bears(t, F) \/ Last(s) \in F
  BY <1>1, <1>2 DEF Bears
<1>4. Never(s, F, G) => Never(t, F, G) /\ (Bears(t, F) => Last(s) \notin G)
  BY <1>1, <1>2 DEF Bears, Never
<1> QED BY <1>3, <1>4 DEF t

LEMMA EmptyStack ==
  ASSUME NEW F, NEW G
  PROVE  ~Bears(<<>>, F) /\ Never(<<>>, F, G)
BY DEF Bears, Never

(* A stack with a frame on top, ...                                        *)
LEMMA Stacks ==
  ASSUME NEW s \in Seq(FrameType), NEW f \in FrameType, NEW t, t = Append(s, f)
  PROVE  /\ Bears(t, Marks) <=> Bears(s, Marks) \/ (f.op = "wake" /\ f.flag)
         /\ Bears(t, Wakes) <=> Bears(s, Wakes) \/ f.op = "wake" \/ (f.op = "relatch" /\ f.flag)
         /\ Bears(t, Drains) <=> Bears(s, Drains) \/ (f.op = "close" /\ f.flag)
         /\ Bears(t, Leaves) <=> Bears(s, Leaves) \/ (f.op = "close" /\ ~f.flag)
         /\ Bears(t, Runs) <=> Bears(s, Runs) \/ f.op \in DriverOps
         /\ Never(t, Marks, Runs) <=>
              Never(s, Marks, Runs) /\ (Bears(s, Marks) => f.op \notin DriverOps)
         /\ Never(t, Locks, FrameType) <=> Never(s, Locks, FrameType) /\ ~Bears(s, Locks)
<1>1. /\ f \in Marks <=> f.op = "wake" /\ f.flag
      /\ f \in Wakes <=> f.op = "wake" \/ (f.op = "relatch" /\ f.flag)
      /\ f \in Drains <=> f.op = "close" /\ f.flag
      /\ f \in Leaves <=> f.op = "close" /\ ~f.flag
      /\ f \in Runs <=> f.op \in DriverOps
  BY DEF Marks, Wakes, Drains, Leaves, Runs
<1>2. ASSUME NEW F, NEW G
      PROVE  /\ Bears(t, F) <=> Bears(s, F) \/ f \in F
             /\ Never(t, F, G) <=> Never(s, F, G) /\ (Bears(s, F) => f \notin G)
  BY Pushed
<1> QED BY <1>1, <1>2

(* ... and without the one that is there.                                  *)
LEMMA Unstacks ==
  ASSUME NEW s \in Seq(FrameType), s # <<>>, NEW r, r = Front(s), NEW f, f = Last(s)
  PROVE  /\ f \in FrameType /\ r \in Seq(FrameType)
         /\ Bears(s, Marks) <=> Bears(r, Marks) \/ (f.op = "wake" /\ f.flag)
         /\ Bears(s, Wakes) <=> Bears(r, Wakes) \/ f.op = "wake" \/ (f.op = "relatch" /\ f.flag)
         /\ Bears(s, Drains) <=> Bears(r, Drains) \/ (f.op = "close" /\ f.flag)
         /\ Bears(s, Leaves) <=> Bears(r, Leaves) \/ (f.op = "close" /\ ~f.flag)
         /\ Bears(s, Runs) <=> Bears(r, Runs) \/ f.op \in DriverOps
         /\ Never(s, Marks, Runs) =>
              Never(r, Marks, Runs) /\ (Bears(r, Marks) => f.op \notin DriverOps)
         /\ Never(s, Locks, FrameType) => Never(r, Locks, FrameType) /\ ~Bears(r, Locks)
<1>1. f \in FrameType /\ r \in Seq(FrameType)
  BY FrontLast
<1>2. /\ f \in Marks <=> f.op = "wake" /\ f.flag
      /\ f \in Wakes <=> f.op = "wake" \/ (f.op = "relatch" /\ f.flag)
      /\ f \in Drains <=> f.op = "close" /\ f.flag
      /\ f \in Leaves <=> f.op = "close" /\ ~f.flag
      /\ f \in Runs <=> f.op \in DriverOps
  BY <1>1 DEF Marks, Wakes, Drains, Leaves, Runs
<1>3. ASSUME NEW F, NEW G
      PROVE  /\ Bears(s, F) <=> Bears(r, F) \/ f \in F
             /\ Never(s, F, G) => Never(r, F, G) /\ (Bears(r, F) => f \notin G)
  BY Popped
<1> QED BY <1>1, <1>2, <1>3

(* Who may call does so from no observer of a session event.               *)
LEMMA CallersUnlocked ==
  ASSUME TypeOK, Stacked, CanCall
  PROVE  ~Bears(frames, Locks)
<1>1. CASE frames = <<>>
  BY <1>1, EmptyStack
<1>2. CASE frames # <<>>
  <2>1. frames \in Seq(FrameType) /\ Never(frames, Locks, FrameType)
    BY DEF TypeOK, Stacked
  <2>2. ~Bears(Front(frames), Locks)
    BY <1>2, <2>1, Unstacks
  <2>3. Last(frames) \notin Locks
    BY <1>2 DEF CanCall, Locks
  <2> QED BY <1>2, <2>1, <2>2, <2>3, Popped
<1> QED BY <1>1, <1>2

(* What a driver goes on with: the stack below its own frame, or none.     *)
Bare(stack) == stack \in Seq(FrameType) /\ ~Bears(stack, Marks) /\ ~Bears(stack, Runs)

LEMMA BareStack ==
  ASSUME NEW s, Bare(s)
  PROVE  /\ Never(s, Marks, Runs) /\ Never(s, Locks, FrameType)
         /\ ~Bears(s, Locks) /\ ~Bears(s, Drains) /\ ~Bears(s, Leaves)
<1>1. Locks \subseteq Runs /\ Drains \subseteq Runs /\ Leaves \subseteq Runs
  BY DEF Locks, Drains, Leaves, Runs, LockedOps, DriverOps
<1> QED BY <1>1 DEF Bare, Never, Bears

LEMMA NoDrivers ==
  ASSUME NEW s \in Seq(FrameType)
  PROVE  Bears(s, Runs) <=> Holds(s, DriverOps)
<1>1. \A i \in DOMAIN s : s[i] \in FrameType
  BY LenProperties, ElementOfSeq
<1> QED BY <1>1 DEF Bears, Holds, Runs

LEMMA BearsDrain ==
  ASSUME NEW s \in Seq(FrameType)
  PROVE  Bears(s, Drains) <=> \E i \in DOMAIN s : s[i].op = "close" /\ s[i].flag
<1>1. \A i \in DOMAIN s : s[i] \in FrameType
  BY LenProperties, ElementOfSeq
<1> QED BY <1>1 DEF Bears, Drains

(* The signal goes unseen, before and after a step.                        *)
LEMMA Unseen ==
  ASSUME TypeOK, TypeOK'
  PROVE  /\ AbortUnseen <=> \/ Bears(frames, Drains)
                            \/ pc = "decided" /\ turn.verdict = "empty" /\ turn.ends # "null"
         /\ AbortUnseen' <=> \/ Bears(frames', Drains)
                             \/ pc' = "decided" /\ turn'.verdict = "empty" /\ turn'.ends # "null"
<1>1. frames \in Seq(FrameType) /\ frames' \in Seq(FrameType)
  BY DEF TypeOK
<1> QED BY <1>1, BearsDrain DEF AbortUnseen

(* The continuation of a driver.                                           *)
LEMMA DriverTop ==
  ASSUME Control, Stacked, NEW op \in DriverOps, Top(op)
  PROVE  /\ Bare(Front(frames)) /\ ~Bears(frames, Marks)
         /\ frames # <<>> /\ frames \in Seq(FrameType) /\ Last(frames).op = op
         /\ Last(frames).flag \in BOOLEAN
         /\ phase.kind = "running" /\ pc = "none"
         /\ Bears(frames, Leaves) <=> op = "close" /\ ~Last(frames).flag
         /\ Bears(frames, Drains) <=> op = "close" /\ Last(frames).flag
         /\ Bears(frames, Wakes) <=> Bears(Front(frames), Wakes)
<1>1. /\ frames # <<>> /\ frames \in Seq(FrameType) /\ Last(frames).op = op
      /\ TypeOK /\ OneDriver
  BY DEF Top, Control, TypeOK
<1>2. /\ Front(frames) \in Seq(FrameType) /\ ~Holds(Front(frames), DriverOps)
      /\ phase.kind = "running" /\ pc = "none" /\ Last(frames).flag \in BOOLEAN
  BY <1>1, PopDriver, PopType
<1>3. ~Bears(Front(frames), Runs) /\ ~Bears(Front(frames), Marks)
  BY <1>1, <1>2, NoDrivers, Unstacks DEF Stacked
<1>4. Bare(Front(frames))
  BY <1>2, <1>3 DEF Bare
<1>5. ~Bears(Front(frames), Drains) /\ ~Bears(Front(frames), Leaves)
  BY <1>4, BareStack
<1>6. op # "wake" /\ op # "relatch"
  BY DEF DriverOps
<1> QED BY <1>1, <1>2, <1>3, <1>4, <1>5, <1>6, Unstacks

(* The suspension of a driver.                                             *)
LEMMA BareTop ==
  /\ Bare(<<>>)
  /\ \A F : ~Bears(<<>>, F)
BY EmptyStack, EmptySeq DEF Bare

-----------------------------------------------------------------------------
(* What the invariant is proved with.                                      *)
Base == Control /\ Ledger /\ Wakeful

LEMMA BaseTypes ==
  ASSUME Base
  PROVE  /\ TypeOK /\ OneDriver /\ Stacked /\ Latched /\ Parked /\ Watched
         /\ phase \in PhaseType /\ audit \in AuditType /\ turn \in TurnType
         /\ frames \in Seq(FrameType)
         /\ phase.kind \in {"idle", "maintenance", "running"} /\ phase.wake \in BOOLEAN
         /\ phase.aborted \in {"no", "user", "disposed"}
         /\ Pending \cap ToSet(turn.batch) = {}
<1>1. TypeOK
  BY DEF Base, Control
<1>2. Pending \cap ToSet(turn.batch) = {}
  <2>1. ToSet(turn.batch) \subseteq Messages
    BY <1>1, PendingType
  <2> QED BY <2>1 DEF Base, Ledger, Places
<1> QED BY <1>1, <1>2 DEF Base, Control, Wakeful, TypeOK, PhaseType, Causes

(* The stacks that a step may leave as they were.                          *)
SameStack(s, t) ==
  /\ Bears(t, Marks) <=> Bears(s, Marks)
  /\ Bears(t, Wakes) <=> Bears(s, Wakes)
  /\ Bears(t, Drains) <=> Bears(s, Drains)
  /\ Bears(t, Leaves) <=> Bears(s, Leaves)

LEMMA Fired ==
  ASSUME Base, TypeOK', NEW cause \in Causes \cup {"no"}, NEW keepInbox \in BOOLEAN,
         cause = "no" => ~keepInbox, FireAbort(cause, keepInbox),
         UNCHANGED <<inbox, pc, turn>>, Stacked', SameStack(frames, frames')
  PROVE  Wakeful'
<1>0. /\ TypeOK /\ Latched /\ Parked /\ Watched /\ phase \in PhaseType /\ audit \in AuditType
      /\ phase.kind \in {"idle", "maintenance", "running"} /\ phase.wake \in BOOLEAN
      /\ phase.aborted \in {"no", "user", "disposed"}
      /\ Pending \cap ToSet(turn.batch) = {}
  BY BaseTypes
<1>1. /\ Pending' = Pending /\ AbortUnseen' = AbortUnseen /\ turn' = turn /\ pc' = pc
  <2>1. Pending' = Pending
    BY DEF inbox, Pending
  <2>2. AbortUnseen' <=> AbortUnseen
    BY <1>0, Unseen DEF SameStack
  <2>3. AbortUnseen \in BOOLEAN /\ AbortUnseen' \in BOOLEAN
    BY DEF AbortUnseen
  <2> QED BY <2>1, <2>2, <2>3
<1>2. CASE phase.kind = "idle"
  <2>1. phase' = phase /\ audit' = audit
    BY <1>2 DEF FireAbort
  <2> QED BY <1>0, <1>1, <2>1
          DEF Wakeful, Latched, Parked, Watched, Safe, KeptWorkParks, Aborted, SameStack
<1>3. CASE phase.kind # "idle"
  <2>1. /\ phase'.kind = phase.kind
        /\ phase'.aborted = (IF phase.aborted = "no" THEN cause ELSE phase.aborted)
        /\ phase'.wake = (phase.wake /\ keepInbox)
    BY <1>0, <1>3 DEF FireAbort, PhaseType
  <2>2. /\ audit'.owed = (IF keepInbox /\ Aborted THEN audit.owed ELSE audit.owed \ Pending)
        /\ audit'.kept = (IF keepInbox /\ ~Aborted /\ phase.kind = "running" /\ ~AbortUnseen
                          THEN audit.kept \cup Pending ELSE audit.kept)
        /\ audit'.gap = audit.gap /\ audit'.empty = audit.empty
    BY <1>0, <1>3 DEF FireAbort, AuditType
  <2>3. Latched'
    BY <1>0, <1>1, <1>3, <2>1 DEF Latched, Aborted, SameStack, Causes
  <2>4. Parked'
    <3>1. CASE keepInbox /\ ~Aborted /\ phase.kind = "running" /\ ~AbortUnseen
      <4>1. /\ ~phase'.wake /\ ~Bears(frames', Marks) /\ phase'.aborted # "no"
        BY <1>0, <2>1, <3>1 DEF Latched, Aborted, SameStack
      <4>2. ToSet(turn'.batch) \cap audit'.kept = {}
        BY <1>0, <1>1, <2>2, <3>1 DEF Parked, KeptWorkParks
      <4> QED BY <1>1, <2>1, <3>1, <4>1, <4>2 DEF Parked, KeptWorkParks, Aborted
    <3>2. CASE ~(keepInbox /\ ~Aborted /\ phase.kind = "running" /\ ~AbortUnseen)
      <4>1. audit'.kept = audit.kept
        BY <2>2, <3>2
      <4> QED BY <1>0, <1>1, <2>1, <4>1 DEF Parked, KeptWorkParks, Aborted, SameStack
    <3> QED BY <3>1, <3>2
  <2>5. Watched'
    <3>1. CASE keepInbox /\ Aborted
      <4>1. audit'.owed = audit.owed /\ phase'.wake = phase.wake /\ phase'.aborted = phase.aborted
        BY <1>0, <2>1, <2>2, <3>1 DEF Aborted
      <4> QED BY <1>0, <1>1, <2>1, <2>2, <4>1 DEF Watched, Safe, Aborted, SameStack
    <3>2. CASE ~(keepInbox /\ Aborted)
      <4>1. audit'.owed = {}
        BY <1>0, <2>2, <3>2 DEF Watched
      <4> QED BY <1>0, <1>1, <1>3, <2>1, <4>1 DEF Watched, Safe
    <3> QED BY <3>1, <3>2
  <2> QED BY <2>3, <2>4, <2>5 DEF Wakeful
<1> QED BY <1>2, <1>3

(* The inbox is edited: nobody is owed more than before.                   *)
LEMMA Edited ==
  ASSUME Base, UNCHANGED <<phase, pc, turn>>, Stacked', SameStack(frames, frames'), TypeOK',
         audit'.owed \subseteq audit.owed, audit'.owed \subseteq Pending',
         audit'.gap = audit.gap, audit'.empty = audit.empty, audit'.kept = audit.kept
  PROVE  Wakeful'
<1>0. /\ TypeOK /\ Latched /\ Parked /\ Watched
  BY BaseTypes
<1>1. AbortUnseen' <=> AbortUnseen
  BY <1>0, Unseen DEF SameStack
<1>2. Latched' /\ Parked'
  BY <1>0, <1>1 DEF Latched, Parked, KeptWorkParks, Aborted, SameStack
<1>3. Watched'
  BY <1>0 DEF Watched, Safe, Aborted, SameStack
<1> QED BY <1>2, <1>3 DEF Wakeful

(* The driver moves from one await to another.                             *)
LEMMA Moved ==
  ASSUME Base, TypeOK', frames = <<>>, frames' = <<>>, Pending' = Pending, audit' = audit,
         phase.kind = "running", phase'.kind = "running", phase'.aborted = phase.aborted,
         phase'.wake = phase.wake, pc' # "exit" \/ pc = "exit",
         ToSet(turn'.batch) \subseteq ToSet(turn.batch),
         Aborted => ~(pc' = "decided" /\ turn'.verdict = "empty" /\ turn'.ends # "null")
  PROVE  Wakeful'
<1>0. /\ TypeOK /\ Stacked /\ Latched /\ Parked /\ Watched /\ \A F : ~Bears(<<>>, F)
  BY BaseTypes, BareTop
<1>1. Aborted => ~AbortUnseen'
  BY <1>0, Unseen
<1>2. Stacked' /\ Latched'
  BY <1>0 DEF Latched, Stacked, Aborted
<1>3. Parked'
  BY <1>0, <1>1 DEF Parked, KeptWorkParks, Aborted
<1>4. Watched'
  BY <1>0 DEF Watched, Safe, Aborted
<1> QED BY <1>2, <1>3, <1>4 DEF Wakeful

(* A listener is called.                                                   *)
LEMMA Called ==
  ASSUME Base, CanCall, NEW f \in FrameType, f.op \in {"wake", "clearTurn"},
         NEW t, t = Append(frames, f)
  PROVE  /\ Never(t, Marks, Runs) /\ Never(t, Locks, FrameType)
         /\ Bears(t, Marks) <=> Bears(frames, Marks) \/ (f.op = "wake" /\ f.flag)
         /\ Bears(t, Wakes) <=> Bears(frames, Wakes) \/ f.op = "wake"
         /\ Bears(t, Drains) <=> Bears(frames, Drains)
         /\ Bears(t, Leaves) <=> Bears(frames, Leaves)
<1>1. /\ Stacked /\ frames \in Seq(FrameType) /\ ~Bears(frames, Locks)
  BY BaseTypes, CallersUnlocked
<1>2. f.op # "close" /\ f.op # "relatch" /\ f.op \notin DriverOps
  BY DEF DriverOps
<1> QED BY <1>1, <1>2, Stacks DEF Stacked

LEMMA SendWakes ==
  ASSUME Base, TypeOK', Ledger', NEW m \in Messages, NEW target \in Targets,
         Send(m, target, TRUE)
  PROVE  Wakeful'
<1> DEFINE flag == phase.kind # "idle" /\ Aborted
<1>0. /\ TypeOK /\ Stacked /\ Latched /\ Parked /\ Watched /\ audit \in AuditType
      /\ phase.kind \in {"idle", "maintenance", "running"}
  BY BaseTypes
<1>1. /\ CanCall /\ frames' = Append(frames, Frame("wake", flag, "no")) /\ flag \in BOOLEAN
      /\ fate' = [fate EXCEPT ![m] = "pending"] /\ audit' = OweTurn(m)
      /\ UNCHANGED <<phase, pc, turn>>
  BY DEF Send, Enqueue
<1> HIDE DEF flag
<1>2. /\ Stacked'
      /\ Bears(frames', Marks) <=> Bears(frames, Marks) \/ flag
      /\ Bears(frames', Wakes)
      /\ Bears(frames', Drains) <=> Bears(frames, Drains)
      /\ Bears(frames', Leaves) <=> Bears(frames, Leaves)
  <2> DEFINE f == Frame("wake", flag, "no")
  <2>1. f \in FrameType /\ f.op = "wake" /\ f.flag = flag
    BY <1>1, FrameTypes DEF Frame, FrameOps
  <2>2. frames' = Append(frames, f)
    BY <1>1
  <2> HIDE DEF f
  <2> QED BY <1>1, <2>1, <2>2, Called DEF Stacked
<1>3. /\ audit'.owed = (IF phase.aborted = "disposed" THEN audit.owed ELSE audit.owed \cup {m})
      /\ audit'.gap = (IF phase.kind = "running" /\ ~Aborted /\ pc = "exit" THEN audit.gap \cup {m}
                       ELSE audit.gap)
      /\ audit'.empty = audit.empty /\ audit'.kept = {}
  BY <1>0, <1>1 DEF OweTurn, AuditType
<1>4. Latched'
  BY <1>0, <1>1, <1>2 DEF Latched, Aborted, flag
<1>5. Parked'
  BY <1>3 DEF Parked, KeptWorkParks
<1>6. Pending' = Pending \cup {m}
  <2>1. \A n \in Messages : fate'[n] = "pending" <=> fate[n] = "pending" \/ n = m
    BY <1>0, <1>1 DEF TypeOK
  <2>2. \A n \in Messages : n \in Pending' <=> n \in Pending \/ n = m
    BY <2>1 DEF Base, Ledger, Places
  <2>3. Pending \subseteq Messages /\ Pending' \subseteq Messages
    <3>1. nextTurn' \in Seq(Messages) /\ nextStep' \in Seq(Messages)
      BY DEF TypeOK
    <3>2. Pending' = ToSet(nextTurn') \cup ToSet(nextStep')
      BY DEF Pending
    <3> QED BY <1>0, <3>1, <3>2, PendingType, ToSetType
  <2> QED BY <2>2, <2>3
<1>7. ~Bears(frames, Leaves)
  <2>1. ~Bears(frames, Locks)
    BY <1>0, <1>1, CallersUnlocked
  <2> QED BY <2>1 DEF Bears, Locks, Leaves, LockedOps
<1>8. Watched'
  <2>1. audit'.owed \subseteq Pending' /\ (phase'.aborted = "disposed" => audit'.owed = {})
    BY <1>0, <1>1, <1>3, <1>6 DEF Watched
  <2>2. phase'.kind = "running" /\ (Aborted' \/ pc' = "exit" \/ Bears(frames', Leaves))
          => Safe' \/ phase'.wake \/ Bears(frames', Marks)
    <3>1. CASE phase.kind = "running" /\ Aborted
      BY <1>1, <1>2, <3>1 DEF flag
    <3>2. CASE phase.kind = "running" /\ ~Aborted /\ pc = "exit"
      <4>1. Safe \/ phase.wake \/ Bears(frames, Marks)
        BY <1>0, <3>2 DEF Watched
      <4>2. Safe => Safe'
        BY <1>3, <3>2 DEF Safe
      <4> QED BY <1>1, <1>2, <4>1, <4>2
    <3> QED BY <1>1, <1>2, <1>7, <3>1, <3>2 DEF Aborted
  <2> QED BY <1>2, <2>1, <2>2 DEF Watched
<1> QED BY <1>2, <1>4, <1>5, <1>8 DEF Wakeful

LEMMA PendingFates ==
  ASSUME TypeOK, TypeOK', Ledger, Ledger'
  PROVE  /\ Pending \subseteq Messages /\ Pending' \subseteq Messages
         /\ \A m \in Messages : /\ m \in Pending <=> fate[m] = "pending"
                                /\ m \in Pending' <=> fate'[m] = "pending"
<1>1. nextTurn' \in Seq(Messages) /\ nextStep' \in Seq(Messages)
  BY DEF TypeOK
<1>2. Pending' = ToSet(nextTurn') \cup ToSet(nextStep')
  BY DEF Pending
<1>3. Pending \subseteq Messages /\ Pending' \subseteq Messages
  BY <1>1, <1>2, PendingType, ToSetType
<1> QED BY <1>3 DEF Ledger, Places

LEMMA CallWakeful == Base /\ Call => Wakeful'
<1> SUFFICES ASSUME Base, Call PROVE Wakeful'
  OBVIOUS
<1>0. /\ TypeOK /\ TypeOK' /\ Ledger /\ Ledger' /\ Stacked /\ Latched /\ Parked /\ Watched
      /\ audit \in AuditType /\ frames \in Seq(FrameType)
  BY BaseTypes, CallTypes, CallLedger DEF Base
<1>1. /\ Pending \subseteq Messages /\ Pending' \subseteq Messages
      /\ \A m \in Messages : /\ m \in Pending <=> fate[m] = "pending"
                             /\ m \in Pending' <=> fate'[m] = "pending"
  BY <1>0, PendingFates
<1>2. SameStack(frames, frames) /\ (frames' = frames => Stacked' /\ SameStack(frames, frames'))
  BY <1>0 DEF SameStack, Stacked
<1>3. ASSUME NEW m \in Messages, NEW target \in Targets, NEW wakeup \in BOOLEAN,
             Send(m, target, wakeup)
      PROVE  Wakeful'
  <2>1. CASE wakeup
    <3>1. Send(m, target, TRUE)
      BY <1>3, <2>1
    <3> QED BY <1>0, <3>1, SendWakes
  <2>2. CASE ~wakeup
    <3>1. /\ UNCHANGED <<phase, pc, turn, frames, audit>> /\ fate[m] = "unsent"
          /\ fate' = [fate EXCEPT ![m] = "pending"]
      BY <1>3, <2>2 DEF Send, Enqueue
    <3>2. Pending \subseteq Pending'
      BY <1>0, <1>1, <3>1 DEF TypeOK
    <3>3. audit'.owed \subseteq Pending'
      BY <1>0, <3>1, <3>2 DEF Watched
    <3> QED BY <1>0, <1>2, <3>1, <3>3, Edited
  <2> QED BY <2>1, <2>2
<1>4. ASSUME NEW cause \in Causes, Cancel(cause) PROVE Wakeful'
  <2> DEFINE f == Frame("clearTurn", nextStep # <<>>, cause)
  <2>1. /\ CanCall /\ frames' = Append(frames, f) /\ Discard(ToSet(nextStep))
        /\ UNCHANGED <<phase, pc, turn>>
    BY <1>4 DEF Cancel
  <2>2. f \in FrameType /\ f.op = "clearTurn"
    <3> DEFINE flag == nextStep # <<>>
    <3>1. flag \in BOOLEAN
      OBVIOUS
    <3> HIDE DEF flag
    <3>2. Frame("clearTurn", flag, cause) \in FrameType
      BY <3>1, FrameTypes DEF FrameOps
    <3> QED BY <3>2 DEF flag, Frame
  <2> HIDE DEF f
  <2>3. Stacked' /\ SameStack(frames, frames')
    BY <2>1, <2>2, Called DEF Stacked, SameStack
  <2>4. /\ audit'.owed = audit.owed \ ToSet(nextStep) /\ audit'.gap = audit.gap
        /\ audit'.empty = audit.empty /\ audit'.kept = audit.kept
    BY <1>0, <2>1 DEF Discard, AuditType
  <2>5. audit'.owed \subseteq Pending'
    <3>1. \A m \in Messages : m \in Pending /\ m \notin ToSet(nextStep) => m \in Pending'
      BY <1>1, <2>1 DEF Discard
    <3> QED BY <1>0, <1>1, <2>4, <3>1 DEF Watched
  <2> QED BY <1>0, <2>1, <2>3, <2>4, <2>5, Edited
<1>5. ASSUME CancelKeepingInbox PROVE Wakeful'
  <2>1. FireAbort("user", TRUE) /\ UNCHANGED <<inbox, pc, turn, frames>>
    BY <1>5 DEF CancelKeepingInbox
  <2> QED BY <1>0, <1>2, <2>1, Fired DEF Causes
<1>6. ASSUME NEW cause \in Causes, NEW keepInbox \in BOOLEAN, CancelInObserver(cause, keepInbox)
      PROVE  Wakeful'
  <2>1. /\ FireAbort(cause, keepInbox) /\ UNCHANGED <<inbox, pc, turn, frames>>
        /\ cause \in Causes \cup {"no"} /\ cause # "no"
    BY <1>6 DEF CancelInObserver, Causes
  <2> QED BY <1>0, <1>2, <2>1, Fired
<1>7. ASSUME RunMaintenance PROVE Wakeful'
  <2>1. /\ phase.kind = "idle" /\ phase'.kind = "maintenance" /\ phase'.aborted = "no"
        /\ ~phase'.wake /\ UNCHANGED <<inbox, pc, turn, frames, audit>>
    BY <1>7 DEF RunMaintenance, Job, Idle
  <2>2. Pending' = Pending
    BY <2>1 DEF Pending, inbox
  <2>3. Latched'
    BY <1>0, <2>1 DEF Latched, Aborted
  <2>4. Parked'
    BY <1>0, <2>1 DEF Parked, KeptWorkParks
  <2>5. Watched'
    BY <1>0, <2>1, <2>2 DEF Watched, Safe
  <2> QED BY <1>2, <2>1, <2>3, <2>4, <2>5 DEF Wakeful
<1>8. ASSUME NEW m \in Messages, RemovePending(m) PROVE Wakeful'
  <2>1. Discard({m}) /\ UNCHANGED <<phase, pc, turn, frames>>
    BY <1>8 DEF RemovePending
  <2>2. /\ audit'.owed = audit.owed \ {m} /\ audit'.gap = audit.gap
        /\ audit'.empty = audit.empty /\ audit'.kept = audit.kept
    BY <1>0, <2>1 DEF Discard, AuditType
  <2>3. audit'.owed \subseteq Pending'
    <3>1. \A n \in Messages : n \in Pending /\ n # m => n \in Pending'
      BY <1>1, <2>1 DEF Discard
    <3> QED BY <1>0, <1>1, <2>2, <3>1 DEF Watched
  <2> QED BY <1>0, <1>2, <2>1, <2>2, <2>3, Edited
<1>9. ASSUME NEW m \in Messages, NEW n \in Messages, ReplacePending(m, n) PROVE Wakeful'
  <2>1. /\ fate' = [fate EXCEPT ![m] = "canceled", ![n] = "pending"]
        /\ audit' = [audit EXCEPT !.owed = audit.owed \ {m}]
        /\ UNCHANGED <<phase, pc, turn, frames>>
    BY <1>9 DEF ReplacePending
  <2>2. /\ audit'.owed = audit.owed \ {m} /\ audit'.gap = audit.gap
        /\ audit'.empty = audit.empty /\ audit'.kept = audit.kept
    BY <1>0, <2>1 DEF AuditType
  <2>3. audit'.owed \subseteq Pending'
    <3>1. \A x \in Messages : x \in Pending /\ x # m => x \in Pending'
      <4> SUFFICES ASSUME NEW x \in Messages, fate[x] = "pending", x # m
                   PROVE  fate'[x] = "pending"
        BY <1>1
      <4> QED BY <1>0, <2>1 DEF TypeOK
    <3> QED BY <1>0, <1>1, <2>2, <3>1 DEF Watched
  <2> QED BY <1>0, <1>2, <2>1, <2>2, <2>3, Edited
<1>10. ASSUME NEW m \in Messages, NEW target \in Targets, PrependPending(m, target)
       PROVE  Wakeful'
  <2>1. /\ UNCHANGED <<phase, pc, turn, frames, audit>>
        /\ fate' = [fate EXCEPT ![m] = "pending"]
    BY <1>10 DEF PrependPending
  <2>2. Pending \subseteq Pending'
    BY <1>0, <1>1, <2>1 DEF TypeOK
  <2>3. audit'.owed \subseteq Pending'
    BY <1>0, <2>1, <2>2 DEF Watched
  <2> QED BY <1>0, <1>2, <2>1, <2>3, Edited
<1> QED BY <1>3, <1>4, <1>5, <1>6, <1>7, <1>8, <1>9, <1>10 DEF Call

-----------------------------------------------------------------------------
(* The driver, with a stack that it goes on with.                          *)
Goes(rest) ==
  /\ Bare(rest) /\ ~Bears(frames, Marks) /\ phase.kind = "running"

LEMMA Driven ==
  ASSUME Base, NEW rest, Bare(rest), NEW f \in FrameType, f.op \in DriverOps,
         NEW t, t = Append(rest, f)
  PROVE  /\ Never(t, Marks, Runs) /\ Never(t, Locks, FrameType)
         /\ ~Bears(t, Marks)
         /\ Bears(t, Drains) <=> f.op = "close" /\ f.flag
         /\ Bears(t, Leaves) <=> f.op = "close" /\ ~f.flag
<1>1. /\ rest \in Seq(FrameType) /\ ~Bears(rest, Marks) /\ Never(rest, Marks, Runs)
      /\ Never(rest, Locks, FrameType) /\ ~Bears(rest, Locks)
      /\ ~Bears(rest, Drains) /\ ~Bears(rest, Leaves)
  BY BareStack DEF Bare
<1>2. f.op # "wake"
  BY DEF DriverOps
<1> QED BY <1>1, <1>2, Stacks

LEMMA Parks ==
  ASSUME Base, audit' = ParkPending
  PROVE  /\ audit'.owed \subseteq audit.owed /\ (~phase.wake => audit'.owed = {})
         /\ audit'.gap = audit.gap /\ audit'.empty = audit.empty /\ audit'.kept = audit.kept
<1>1. audit \in AuditType /\ audit.owed \subseteq Pending
  BY BaseTypes DEF Watched
<1>2. /\ audit'.owed = (IF phase.wake THEN audit.owed ELSE audit.owed \ Pending)
      /\ audit'.gap = audit.gap /\ audit'.empty = audit.empty /\ audit'.kept = audit.kept
  BY <1>1 DEF ParkPending, AuditType
<1> QED BY <1>1, <1>2

LEMMA EndedWakeful ==
  ASSUME Base, TypeOK', NEW rest, Goes(rest), NEW drains \in BOOLEAN, EndTurn(drains, rest),
         phase' = phase, Pending' = Pending,
         audit'.owed \subseteq audit.owed, audit'.kept = audit.kept,
         drains => audit' = audit /\ (AbortUnseen \/ ~Aborted),
         ~drains => Safe' \/ phase.wake
  PROVE  Wakeful'
<1> DEFINE f == Frame("close", drains, "no")
<1>0. /\ TypeOK /\ Latched /\ Parked /\ Watched
  BY BaseTypes
<1>1. frames' = Append(rest, f) /\ turn'.batch = <<>> /\ pc' = "none"
  BY DEF EndTurn, NoTurn
<1>2. f \in FrameType /\ f.op = "close" /\ f.flag = drains /\ f.op \in DriverOps
  BY FrameTypes DEF Frame, FrameOps, DriverOps
<1> HIDE DEF f
<1>3. /\ Stacked' /\ ~Bears(frames', Marks)
      /\ Bears(frames', Drains) <=> drains
      /\ Bears(frames', Leaves) <=> ~drains
  BY <1>1, <1>2, Driven DEF Stacked, Goes
<1>4. AbortUnseen' <=> drains
  BY <1>0, <1>1, <1>3, Unseen
<1>5. Latched'
  BY <1>0, <1>3 DEF Latched, Aborted
<1>6. Parked'
  <2>1. ToSet(turn'.batch) = {}
    BY <1>1, NoElement
  <2>2. audit.kept # {} => Aborted /\ ~AbortUnseen
    BY <1>0 DEF Parked, Goes
  <2>3. audit.kept # {} => ~drains
    BY <2>2
  <2> QED BY <1>0, <1>3, <1>4, <2>1, <2>2, <2>3 DEF Parked, KeptWorkParks, Aborted, Goes
<1>7. Watched'
  <2>1. audit'.owed \subseteq Pending' /\ (phase'.aborted = "disposed" => audit'.owed = {})
    BY <1>0 DEF Watched
  <2>2. CASE drains
    <3>1. Aborted => Safe' \/ phase.wake
      BY <1>0, <2>2 DEF Watched, Safe, Goes
    <3> QED BY <1>1, <1>3, <2>1, <2>2, <3>1 DEF Watched, Aborted, Goes
  <2>3. CASE ~drains
    BY <2>1, <2>3 DEF Watched, Goes
  <2> QED BY <2>2, <2>3
<1> QED BY <1>3, <1>5, <1>6, <1>7 DEF Wakeful

LEMMA ParkedWakeful ==
  ASSUME Base, TypeOK', NEW rest, Goes(rest), EndTurn(FALSE, rest),
         phase' = phase, Pending' = Pending, audit' = ParkPending
  PROVE  Wakeful'
<1>1. /\ audit'.owed \subseteq audit.owed /\ (~phase.wake => audit'.owed = {})
      /\ audit'.kept = audit.kept /\ phase.wake \in BOOLEAN
  BY Parks, BaseTypes
<1>2. Safe' \/ phase.wake
  BY <1>1 DEF Safe
<1> QED BY <1>1, <1>2, EndedWakeful

LEMMA BegunWakeful ==
  ASSUME Base, TypeOK', NEW rest, Goes(rest), BeginTurn(rest), UNCHANGED inbox
  PROVE  Wakeful'
<1>0. /\ TypeOK /\ Stacked /\ Latched /\ Parked /\ Watched /\ phase \in PhaseType
      /\ phase.wake \in BOOLEAN
  BY BaseTypes
<1>1. Pending' = Pending
  BY DEF inbox, Pending
<1>2. CASE /\ pc' = "exit" /\ frames' = rest /\ audit' = ParkPending
           /\ UNCHANGED <<phase, turn, log>>
  <2>1. /\ Stacked' /\ ~Bears(frames', Marks) /\ ~Bears(frames', Drains)
    BY <1>2, BareStack DEF Goes, Bare, Stacked
  <2>2. ~AbortUnseen'
    BY <1>0, <1>2, <2>1, Unseen
  <2>3. /\ audit'.owed \subseteq audit.owed /\ (~phase.wake => audit'.owed = {})
        /\ audit'.kept = audit.kept
    BY <1>2, Parks
  <2>4. Latched'
    BY <1>0, <1>2, <2>1 DEF Latched, Aborted
  <2>5. Parked'
    BY <1>0, <1>2, <2>1, <2>2, <2>3 DEF Parked, KeptWorkParks, Aborted, Goes
  <2>6. Safe' \/ phase.wake
    BY <1>0, <2>3 DEF Safe
  <2>7. Watched'
    BY <1>0, <1>1, <1>2, <2>3, <2>6 DEF Watched, Goes
  <2> QED BY <2>1, <2>4, <2>5, <2>7 DEF Wakeful
<1>3. CASE /\ ~Aborted /\ phase' = [phase EXCEPT !.turn = @ + 1] /\ turn' = NoTurn
           /\ pc' = "none" /\ frames' = Append(rest, Frame("open", FALSE, "no"))
           /\ UNCHANGED audit
  <2> DEFINE f == Frame("open", FALSE, "no")
  <2>1. f \in FrameType /\ f.op = "open" /\ f.op \in DriverOps
    BY FrameTypes DEF Frame, FrameOps, DriverOps
  <2>2. frames' = Append(rest, f)
    BY <1>3
  <2> HIDE DEF f
  <2>3. /\ Stacked' /\ ~Bears(frames', Marks) /\ ~Bears(frames', Drains) /\ ~Bears(frames', Leaves)
    BY <2>1, <2>2, Driven DEF Stacked, Goes
  <2>4. phase'.kind = "running" /\ phase'.aborted = "no" /\ phase'.wake = phase.wake
    BY <1>0, <1>3 DEF PhaseType, Aborted, Goes
  <2>5. audit.kept = {} /\ ~phase.wake
    BY <1>0, <1>3 DEF Latched, Parked, Goes
  <2>6. Latched' /\ Parked'
    BY <1>3, <2>3, <2>4, <2>5 DEF Latched, Parked, KeptWorkParks, Aborted
  <2>7. Watched'
    BY <1>0, <1>1, <1>3, <2>3, <2>4 DEF Watched, Aborted
  <2> QED BY <2>3, <2>6, <2>7 DEF Wakeful
<1> QED BY <1>2, <1>3 DEF BeginTurn

LEMMA ClaimedWakeful ==
  ASSUME Base, TypeOK', Ledger', NEW rest, Goes(rest), ~Aborted, NEW target,
         ClaimStep(target, rest), phase' = phase
  PROVE  Wakeful'
<1> DEFINE b == nextStep \o NextPrompt(target)
<1>0. /\ TypeOK /\ Ledger /\ Latched /\ Parked /\ Watched /\ audit \in AuditType
  BY BaseTypes DEF Base
<1>1. /\ fate' = [m \in Messages |-> IF m \in ToSet(b) THEN "claimed" ELSE fate[m]]
      /\ audit' = [audit EXCEPT !.owed = audit.owed \ ToSet(b)] /\ pc' = "pre" /\ frames' = rest
  BY DEF ClaimStep
<1> HIDE DEF b
<1>2. audit'.owed = audit.owed \ ToSet(b) /\ audit'.kept = audit.kept
  BY <1>0, <1>1 DEF AuditType
<1>3. /\ Stacked' /\ ~Bears(frames', Marks) /\ ~Bears(frames', Drains) /\ ~Bears(frames', Leaves)
  BY <1>1, BareStack DEF Goes, Bare, Stacked
<1>4. audit.kept = {} /\ ~phase.wake
  BY <1>0 DEF Latched, Parked, Goes
<1>5. Latched' /\ Parked'
  BY <1>2, <1>3, <1>4 DEF Latched, Parked, KeptWorkParks, Aborted, Goes
<1>6. audit'.owed \subseteq Pending'
  <2>1. /\ Pending \subseteq Messages
        /\ \A m \in Messages : /\ m \in Pending <=> fate[m] = "pending"
                               /\ m \in Pending' <=> fate'[m] = "pending"
    BY <1>0, PendingFates
  <2>2. \A m \in Messages : m \in Pending /\ m \notin ToSet(b) => m \in Pending'
    BY <1>1, <2>1
  <2> QED BY <1>0, <1>2, <2>1, <2>2 DEF Watched
<1>7. Watched'
  BY <1>0, <1>1, <1>2, <1>3, <1>6 DEF Watched, Aborted, Goes
<1> QED BY <1>3, <1>5, <1>7 DEF Wakeful

(* A wake is delivered, or a latched one replayed.                         *)
LEMMA WokenWakeful ==
  ASSUME Base, TypeOK', frames # <<>>, NEW f, f = Last(frames), NEW flag \in BOOLEAN,
         \/ f.op = "wake" /\ flag = f.flag
         \/ f.op = "relatch" /\ f.flag /\ flag = FALSE,
         WakeDriver(flag, Front(frames)), UNCHANGED <<inbox, pc, turn, audit>>
  PROVE  Wakeful'
<1> DEFINE r == Front(frames)
<1>0. /\ TypeOK /\ OneDriver /\ Stacked /\ Latched /\ Parked /\ Watched /\ phase \in PhaseType
      /\ frames \in Seq(FrameType) /\ phase.wake \in BOOLEAN
      /\ phase.kind \in {"idle", "maintenance", "running"}
  BY BaseTypes
<1>1. /\ f \in FrameType /\ r \in Seq(FrameType)
      /\ Bears(frames, Marks) <=> Bears(r, Marks) \/ (f.op = "wake" /\ f.flag)
      /\ Bears(frames, Wakes)
      /\ Bears(frames, Drains) <=> Bears(r, Drains)
      /\ Bears(frames, Leaves) <=> Bears(r, Leaves)
      /\ Bears(frames, Runs) <=> Bears(r, Runs) \/ f.op \in DriverOps
      /\ Never(r, Marks, Runs) /\ Never(r, Locks, FrameType) /\ ~Bears(r, Locks)
      /\ Bears(r, Wakes) => Bears(frames, Wakes)
  <2>1. frames \in Seq(FrameType) /\ r = Front(frames)
    BY <1>0
  <2> HIDE DEF r
  <2> QED BY <1>0, <2>1, Unstacks DEF Stacked
<1>2. Pending' = Pending
  BY DEF inbox, Pending
<1>3. CASE phase.kind = "idle"
  <2> DEFINE k == Frame("kick", FALSE, "no")
  <2>1. k \in FrameType /\ k.op = "kick" /\ k.op \in DriverOps
    BY FrameTypes DEF Frame, FrameOps, DriverOps
  <2>2. phase' = Running(phase.turn) /\ frames' = Append(r, k)
    BY <1>3 DEF WakeDriver, StartDriver
  <2> HIDE DEF k
  <2>3. ~Bears(frames, Runs) /\ ~Bears(frames, Marks) /\ pc = "none"
    BY <1>0, <1>3, NoDrivers DEF OneDriver, Latched
  <2>4. Bare(r)
    BY <1>1, <2>3 DEF Bare
  <2> HIDE DEF r
  <2>5. /\ Stacked' /\ ~Bears(frames', Marks) /\ ~Bears(frames', Leaves)
    BY <2>1, <2>2, <2>4, Driven DEF Stacked
  <2>6. phase'.kind = "running" /\ phase'.aborted = "no" /\ ~phase'.wake
    BY <2>2 DEF Running, Idle
  <2>7. audit'.kept = {}
    BY <1>0, <1>1, <1>3 DEF Parked
  <2>8. Latched' /\ Parked'
    BY <2>5, <2>6, <2>7 DEF Latched, Parked, KeptWorkParks, Aborted
  <2>9. Watched'
    BY <1>0, <1>2, <2>3, <2>5, <2>6 DEF Watched, Aborted
  <2> QED BY <2>5, <2>8, <2>9 DEF Wakeful
<1>4. CASE phase.kind # "idle"
  <2> DEFINE latch == phase.aborted # "disposed" /\ (phase.kind = "maintenance" \/ flag)
  <2>1. /\ frames' = r /\ phase'.kind = phase.kind /\ phase'.aborted = phase.aborted
        /\ phase'.wake = (phase.wake \/ latch)
    BY <1>0, <1>4 DEF WakeDriver, LatchIf, PhaseType
  <2>2. latch => Bears(frames, Marks) \/ phase.kind = "maintenance"
    BY <1>1
  <2>3. latch \in BOOLEAN
    OBVIOUS
  <2>4. Bears(frames, Marks) /\ ~Bears(r, Marks) => latch \/ phase.aborted = "disposed"
    BY <1>1
  <2>5. phase.kind = "maintenance" => latch \/ phase.aborted = "disposed"
    OBVIOUS
  <2> HIDE DEF latch, r
  <2>6. Stacked'
    BY <1>1, <2>1 DEF Stacked
  <2>7. Latched'
    BY <1>0, <1>1, <1>4, <2>1, <2>2 DEF Latched, Aborted
  <2>8. AbortUnseen' <=> AbortUnseen
    BY <1>0, <1>1, <2>1, Unseen
  <2>9. Parked'
    <3>1. phase'.wake \/ Bears(frames', Marks) => audit'.kept = {}
      BY <1>0, <1>1, <2>1, <2>2 DEF Parked
    <3> QED BY <1>0, <1>1, <2>1, <2>8, <3>1 DEF Parked, KeptWorkParks, Aborted
  <2>10. Watched'
    <3>1. phase.aborted = "disposed" => Safe'
      BY <1>0 DEF Watched, Safe
    <3>2. Safe' <=> Safe
      BY DEF Safe
    <3>3. phase.kind = "maintenance" => Safe' \/ phase'.wake
      BY <2>1, <2>5, <3>1
    <3>4. phase.kind = "running" /\ (Aborted \/ pc = "exit" \/ Bears(frames', Leaves))
            => Safe' \/ phase'.wake \/ Bears(frames', Marks)
      BY <1>0, <1>1, <2>1, <2>4, <3>1, <3>2 DEF Watched
    <3> QED BY <1>0, <1>2, <1>4, <2>1, <3>3, <3>4 DEF Watched, Aborted
  <2> QED BY <2>6, <2>7, <2>9, <2>10 DEF Wakeful
<1> QED BY <1>3, <1>4

LEMMA SomePending ==
  ASSUME TypeOK
  PROVE  HasPending <=> Pending # {}
<1>1. /\ ToSet(nextTurn) = {} <=> nextTurn = <<>>
      /\ ToSet(nextStep) = {} <=> nextStep = <<>>
  BY NoElement DEF TypeOK
<1> QED BY <1>1 DEF HasPending, Pending

LEMMA AfterTurnWakeful == Base /\ TypeOK' /\ AfterTurn => Wakeful'
<1> SUFFICES ASSUME Base, TypeOK', AfterTurn PROVE Wakeful'
  OBVIOUS
<1>0. /\ TypeOK /\ Stacked /\ Latched /\ Parked /\ Watched /\ phase \in PhaseType
  BY BaseTypes
<1>1. /\ Top("close") /\ frames' = Front(frames) /\ UNCHANGED <<inbox, turn, audit>>
      /\ IF Last(frames).flag /\ HasPending
         THEN /\ phase' = [phase EXCEPT !.aborted = "no", !.wake = FALSE, !.step = 0]
              /\ pc' = "again"
         ELSE pc' = "exit" /\ UNCHANGED phase
  BY DEF AfterTurn
<1>2. /\ Bare(Front(frames)) /\ ~Bears(frames, Marks) /\ phase.kind = "running"
      /\ Last(frames).flag \in BOOLEAN
      /\ Bears(frames, Leaves) <=> ~Last(frames).flag
      /\ Bears(frames, Drains) <=> Last(frames).flag
  <2>1. "close" \in DriverOps /\ Control /\ Stacked
    BY <1>0 DEF DriverOps, Base
  <2> QED BY <1>1, <2>1, DriverTop
<1>3. /\ Stacked' /\ ~Bears(frames', Marks) /\ ~Bears(frames', Drains) /\ ~Bears(frames', Leaves)
  BY <1>1, <1>2, BareStack DEF Stacked, Bare
<1>4. Pending' = Pending
  BY <1>1 DEF inbox, Pending
<1>5. ~AbortUnseen'
  BY <1>0, <1>1, <1>3, Unseen
<1>6. CASE Last(frames).flag /\ HasPending
  <2>1. phase'.kind = "running" /\ phase'.aborted = "no" /\ ~phase'.wake /\ pc' = "again"
    BY <1>0, <1>1, <1>2, <1>6 DEF PhaseType
  <2>2. audit'.kept = {}
    <3>1. AbortUnseen
      BY <1>0, <1>2, <1>6, Unseen
    <3> QED BY <1>0, <1>1, <1>2, <3>1 DEF Parked
  <2>3. Latched' /\ Parked'
    BY <1>3, <2>1, <2>2 DEF Latched, Parked, KeptWorkParks, Aborted
  <2>4. Watched'
    BY <1>0, <1>1, <1>3, <1>4, <2>1 DEF Watched, Aborted
  <2> QED BY <1>3, <2>3, <2>4 DEF Wakeful
<1>7. CASE ~(Last(frames).flag /\ HasPending)
  <2>1. phase' = phase /\ pc' = "exit" /\ audit' = audit
    BY <1>1, <1>7
  <2>2. Latched'
    BY <1>0, <1>3, <2>1 DEF Latched, Aborted
  <2>3. Parked'
    BY <1>0, <1>1, <1>2, <1>3, <1>5, <2>1 DEF Parked, KeptWorkParks, Aborted
  <2>4. Safe \/ phase.wake
    <3>1. CASE Last(frames).flag
      <4>1. Pending = {}
        BY <1>0, <1>7, <3>1, SomePending
      <4> QED BY <1>0, <4>1 DEF Watched, Safe
    <3>2. CASE ~Last(frames).flag
      BY <1>0, <1>2, <3>2 DEF Watched
    <3> QED BY <3>1, <3>2
  <2>5. Watched'
    BY <1>0, <1>2, <1>4, <2>1, <2>4 DEF Watched, Safe
  <2> QED BY <1>3, <2>2, <2>3, <2>5 DEF Wakeful
<1> QED BY <1>6, <1>7

LEMMA RelatchWakeful == Base /\ TypeOK' /\ Relatch => Wakeful'
<1> SUFFICES ASSUME Base, TypeOK', Relatch PROVE Wakeful'
  OBVIOUS
<1> DEFINE f == Last(frames)  r == Front(frames)
<1>0. /\ TypeOK /\ Stacked /\ Latched /\ Parked /\ Watched /\ frames \in Seq(FrameType)
  BY BaseTypes
<1>1. /\ frames # <<>> /\ f.op = "relatch" /\ UNCHANGED <<inbox, pc, turn, audit>>
      /\ IF f.flag /\ HasPending THEN WakeDriver(FALSE, r) ELSE frames' = r /\ UNCHANGED phase
  BY DEF Relatch, Top
<1>2. CASE f.flag /\ HasPending
  BY <1>1, <1>2, WokenWakeful
<1>3. CASE ~(f.flag /\ HasPending)
  <2>1. frames' = r /\ phase' = phase
    BY <1>1, <1>3
  <2>2. /\ f \in FrameType /\ r \in Seq(FrameType)
        /\ Bears(frames, Marks) <=> Bears(r, Marks)
        /\ Bears(frames, Wakes) <=> Bears(r, Wakes) \/ f.flag
        /\ Bears(frames, Drains) <=> Bears(r, Drains)
        /\ Bears(frames, Leaves) <=> Bears(r, Leaves)
        /\ Never(r, Marks, Runs) /\ Never(r, Locks, FrameType)
    <3>1. r = Front(frames) /\ f = Last(frames)
      OBVIOUS
    <3> HIDE DEF r, f
    <3> QED BY <1>0, <1>1, <3>1, Unstacks DEF Stacked
  <2> HIDE DEF r, f
  <2>3. Pending' = Pending
    BY <1>1 DEF inbox, Pending
  <2>4. AbortUnseen' <=> AbortUnseen
    BY <1>0, <1>1, <2>1, <2>2, Unseen
  <2>5. Stacked' /\ Latched' /\ Parked'
    BY <1>0, <1>1, <2>1, <2>2, <2>4 DEF Stacked, Latched, Parked, KeptWorkParks, Aborted
  <2>6. Bears(r, Wakes) \/ (Bears(frames, Wakes) => Safe)
    <3>1. CASE f.flag
      <4>1. Pending = {}
        BY <1>0, <1>3, <3>1, SomePending
      <4> QED BY <1>0, <4>1 DEF Watched, Safe
    <3>2. CASE ~f.flag
      BY <2>2, <3>2
    <3> QED BY <3>1, <3>2
  <2>7. Watched'
    BY <1>0, <1>1, <2>1, <2>2, <2>3, <2>6 DEF Watched, Safe, Aborted
  <2> QED BY <2>5, <2>7 DEF Wakeful
<1> QED BY <1>2, <1>3

LEMMA ContinueWakeful == Base /\ Continue => Wakeful'
<1> SUFFICES ASSUME Base, Continue PROVE Wakeful'
  OBVIOUS
<1>0. /\ TypeOK /\ TypeOK' /\ Ledger /\ Ledger' /\ Control
      /\ Stacked /\ Latched /\ Parked /\ Watched
      /\ audit \in AuditType /\ frames \in Seq(FrameType)
  BY BaseTypes, ContinueTypes, ContinueLedger DEF Base
<1>1. UNCHANGED inbox => Pending' = Pending
  BY DEF inbox, Pending
<1>2. ASSUME NEW op \in DriverOps, Top(op)
      PROVE  Goes(Front(frames))
  BY <1>0, <1>2, DriverTop DEF Goes
<1>3. ASSUME Wake PROVE Wakeful'
  <2>1. /\ frames # <<>> /\ Last(frames).op = "wake" /\ WakeDriver(Last(frames).flag, Front(frames))
        /\ UNCHANGED <<inbox, pc, turn, audit>>
    BY <1>3 DEF Wake, Top
  <2>2. Last(frames).flag \in BOOLEAN
    BY <1>0, <2>1, PopType
  <2> QED BY <1>0, <2>1, <2>2, WokenWakeful
<1>4. ASSUME CancelClearsTurns PROVE Wakeful'
  <2> DEFINE f == Last(frames)  r == Front(frames)  g == Frame("abort", nextTurn # <<>>, f.cause)
  <2>1. /\ frames # <<>> /\ f.op = "clearTurn" /\ frames' = Append(r, g)
        /\ Discard(ToSet(nextTurn)) /\ UNCHANGED <<phase, pc, turn>>
    BY <1>4 DEF CancelClearsTurns, Top
  <2>2. g \in FrameType /\ g.op = "abort"
    <3> DEFINE flag == nextTurn # <<>>  c == f.cause
    <3>1. flag \in BOOLEAN /\ c \in Causes \cup {"no"}
      BY <1>0, <2>1, PopType
    <3> HIDE DEF flag, c
    <3>2. Frame("abort", flag, c) \in FrameType
      BY <3>1, FrameTypes DEF FrameOps
    <3> QED BY <3>2 DEF flag, c, Frame
  <2>3. /\ Stacked' /\ SameStack(frames, frames')
    <3>1. r = Front(frames) /\ f = Last(frames)
      OBVIOUS
    <3> HIDE DEF r, f, g
    <3>2. /\ f \in FrameType /\ r \in Seq(FrameType)
          /\ SameStack(r, frames)
          /\ Never(r, Marks, Runs) /\ Never(r, Locks, FrameType) /\ ~Bears(r, Locks)
      BY <1>0, <2>1, <3>1, Unstacks DEF Stacked, SameStack
    <3>3. SameStack(r, frames') /\ Stacked'
      BY <2>1, <2>2, <3>2, Stacks DEF Stacked, SameStack, DriverOps
    <3> QED BY <3>2, <3>3 DEF SameStack
  <2>4. /\ audit'.owed = audit.owed \ ToSet(nextTurn) /\ audit'.gap = audit.gap
        /\ audit'.empty = audit.empty /\ audit'.kept = audit.kept
    BY <1>0, <2>1 DEF Discard, AuditType
  <2>5. audit'.owed \subseteq Pending'
    <3>1. /\ Pending \subseteq Messages
          /\ \A m \in Messages : /\ m \in Pending <=> fate[m] = "pending"
                                 /\ m \in Pending' <=> fate'[m] = "pending"
      BY <1>0, PendingFates
    <3>2. \A m \in Messages : m \in Pending /\ m \notin ToSet(nextTurn) => m \in Pending'
      BY <2>1, <3>1 DEF Discard
    <3> QED BY <1>0, <2>4, <3>1, <3>2 DEF Watched
  <2> QED BY <1>0, <2>1, <2>3, <2>4, <2>5, Edited
<1>5. ASSUME CancelAborts PROVE Wakeful'
  <2> DEFINE f == Last(frames)  r == Front(frames)
  <2>1. /\ frames # <<>> /\ f.op = "abort" /\ frames' = r
        /\ FireAbort(f.cause, FALSE) /\ UNCHANGED <<inbox, pc, turn>>
    BY <1>5 DEF CancelAborts, Top
  <2>2. f.cause \in Causes \cup {"no"}
    BY <1>0, <2>1, PopType
  <2>3. Stacked' /\ SameStack(frames, frames')
    <3>1. r = Front(frames) /\ f = Last(frames)
      OBVIOUS
    <3> HIDE DEF r, f
    <3> QED BY <1>0, <2>1, <3>1, Unstacks DEF Stacked, SameStack, DriverOps
  <2> QED BY <1>0, <2>1, <2>2, <2>3, Fired
<1>6. ASSUME Kick PROVE Wakeful'
  <2>1. Goes(Front(frames)) /\ BeginTurn(Front(frames)) /\ UNCHANGED inbox
    BY <1>2, <1>6 DEF Kick, DriverOps
  <2> QED BY <1>0, <2>1, BegunWakeful
<1>7. ASSUME OpenTurn PROVE Wakeful'
  <2>1. Goes(Front(frames)) /\ phase' = phase
    BY <1>2, <1>7 DEF OpenTurn, DriverOps
  <2> QED BY <1>0, <1>1, <1>7, <2>1, ParkedWakeful, ClaimedWakeful DEF OpenTurn
<1>8. ASSUME FinishFailedTurn PROVE Wakeful'
  <2>1. Goes(Front(frames)) /\ phase' = phase /\ EndTurn(FALSE, Front(frames))
        /\ audit' = ParkPending /\ UNCHANGED inbox
    BY <1>2, <1>8 DEF FinishFailedTurn, DriverOps
  <2> QED BY <1>0, <1>1, <2>1, ParkedWakeful
<1>9. ASSUME AfterTurn PROVE Wakeful'
  BY <1>0, <1>9, AfterTurnWakeful
<1>10. ASSUME Relatch PROVE Wakeful'
  BY <1>0, <1>10, RelatchWakeful
<1> QED BY <1>3, <1>4, <1>5, <1>6, <1>7, <1>8, <1>9, <1>10 DEF Continue

(* A failure is published.                                                 *)
LEMMA FailsWakeful ==
  ASSUME Base, TypeOK', frames = <<>>, phase.kind = "running", NEW op \in {"failing", "ending"},
         frames' = Append(frames, Frame(op, FALSE, "no")), phase' = phase, audit' = audit,
         Pending' = Pending, pc' = "none", ToSet(turn'.batch) \subseteq ToSet(turn.batch)
  PROVE  Wakeful'
<1> DEFINE f == Frame(op, FALSE, "no")
<1>0. /\ TypeOK /\ Latched /\ Parked /\ Watched /\ Bare(<<>>) /\ \A F : ~Bears(frames, F)
  BY BaseTypes, BareTop
<1>1. f \in FrameType /\ f.op = op /\ f.op \in DriverOps
  BY FrameTypes DEF Frame, FrameOps, DriverOps
<1>2. frames' = Append(<<>>, f)
  OBVIOUS
<1> HIDE DEF f
<1>3. /\ Stacked' /\ ~Bears(frames', Marks) /\ ~Bears(frames', Drains) /\ ~Bears(frames', Leaves)
  BY <1>0, <1>1, <1>2, Driven DEF Stacked
<1>4. ~AbortUnseen'
  BY <1>0, <1>3, Unseen
<1>5. Latched' /\ Parked'
  BY <1>0, <1>3, <1>4 DEF Latched, Parked, KeptWorkParks, Aborted
<1>6. Watched'
  BY <1>0, <1>3 DEF Watched, Safe, Aborted
<1> QED BY <1>3, <1>5, <1>6 DEF Wakeful

LEMMA ExitWakeful == Base /\ TypeOK' /\ Exit => Wakeful'
<1> SUFFICES ASSUME Base, TypeOK', Exit PROVE Wakeful'
  OBVIOUS
<1>0. /\ TypeOK /\ OneDriver /\ Latched /\ Parked /\ Watched /\ phase.wake \in BOOLEAN
      /\ (\A F : ~Bears(<<>>, F)) /\ (\A F, G : Never(<<>>, F, G))
  BY BaseTypes, EmptyStack
<1>1. /\ frames = <<>> /\ pc = "exit" /\ phase' = Idle(phase.turn) /\ pc' = "none"
      /\ turn' = NoTurn /\ UNCHANGED <<inbox, audit>>
      /\ frames' = Append(frames, Frame("relatch", phase.wake, "no"))
  BY DEF Exit, At
<1>2. phase.kind = "running"
  BY <1>0, <1>1 DEF OneDriver
<1> DEFINE f == Frame("relatch", phase.wake, "no")
<1>3. f \in FrameType /\ f.op = "relatch" /\ f.flag = phase.wake /\ frames' = Append(<<>>, f)
  <2>1. f \in FrameType /\ f.op = "relatch" /\ f.flag = phase.wake
    BY <1>0, FrameTypes DEF Frame, FrameOps
  <2>2. frames' = Append(<<>>, f)
    BY <1>1
  <2> QED BY <2>1, <2>2
<1> HIDE DEF f
<1>4. /\ Stacked' /\ ~Bears(frames', Marks)
      /\ Bears(frames', Wakes) <=> phase.wake
  <2>1. <<>> \in Seq(FrameType)
    BY EmptySeq
  <2>2. /\ Bears(frames', Marks) <=> Bears(<<>>, Marks) \/ (f.op = "wake" /\ f.flag)
        /\ Bears(frames', Wakes) <=>
             Bears(<<>>, Wakes) \/ f.op = "wake" \/ (f.op = "relatch" /\ f.flag)
        /\ Never(frames', Marks, Runs) <=>
             Never(<<>>, Marks, Runs) /\ (Bears(<<>>, Marks) => f.op \notin DriverOps)
        /\ Never(frames', Locks, FrameType) <=> Never(<<>>, Locks, FrameType) /\ ~Bears(<<>>, Locks)
    BY <1>3, <2>1, Stacks
  <2> QED BY <1>0, <1>3, <2>2 DEF Stacked
<1>5. phase'.kind = "idle" /\ phase'.aborted = "no" /\ ~phase'.wake
  BY <1>1 DEF Idle
<1>6. Pending' = Pending
  BY <1>1 DEF inbox, Pending
<1>7. ToSet(turn'.batch) = {}
  BY <1>1, NoElement DEF NoTurn
<1>8. Latched'
  BY <1>4, <1>5 DEF Latched, Aborted
<1>9. Parked'
  BY <1>0, <1>1, <1>4, <1>5, <1>7 DEF Parked, KeptWorkParks
<1>10. Watched'
  <2>1. Safe \/ phase.wake
    BY <1>0, <1>1, <1>2 DEF Watched
  <2> QED BY <1>0, <1>1, <1>4, <1>5, <1>6, <2>1 DEF Watched, Safe
<1> QED BY <1>4, <1>8, <1>9, <1>10 DEF Wakeful

LEMMA EndMaintenanceWakeful == Base /\ TypeOK' /\ EndMaintenance => Wakeful'
<1> SUFFICES ASSUME Base, TypeOK', EndMaintenance PROVE Wakeful'
  OBVIOUS
<1>0. /\ TypeOK /\ OneDriver /\ Latched /\ Parked /\ Watched /\ phase.wake \in BOOLEAN
      /\ Bare(<<>>) /\ (\A F : ~Bears(<<>>, F)) /\ (\A F, G : Never(<<>>, F, G))
  BY BaseTypes, EmptyStack, BareTop
<1>1. /\ frames = <<>> /\ phase.kind = "maintenance" /\ UNCHANGED <<inbox, pc, turn, audit>>
      /\ IF phase.wake /\ HasPending
         THEN phase' = Running(phase.turn) /\ frames' = <<Frame("kick", FALSE, "no")>>
         ELSE phase' = Idle(phase.turn) /\ UNCHANGED frames
  BY DEF EndMaintenance
<1>2. pc = "none" /\ Pending' = Pending
  BY <1>0, <1>1 DEF OneDriver, inbox, Pending, Holds
<1>3. CASE phase.wake /\ HasPending
  <2> DEFINE f == Frame("kick", FALSE, "no")
  <2>0. frames' = <<f>>
    BY <1>1, <1>3 DEF f
  <2>1. f \in FrameType /\ f.op = "kick" /\ f.op \in DriverOps
    BY FrameTypes DEF Frame, FrameOps, DriverOps
  <2> HIDE DEF f
  <2>2. frames' = Append(<<>>, f)
    BY <2>0, <2>1
  <2>3. /\ Stacked' /\ ~Bears(frames', Marks) /\ ~Bears(frames', Leaves)
    BY <1>0, <2>1, <2>2, Driven DEF Stacked
  <2>4. phase'.kind = "running" /\ phase'.aborted = "no" /\ ~phase'.wake
    BY <1>1, <1>3 DEF Running, Idle
  <2>5. audit'.kept = {}
    BY <1>0, <1>1, <1>3 DEF Parked
  <2>6. Latched' /\ Parked'
    BY <2>3, <2>4, <2>5 DEF Latched, Parked, KeptWorkParks, Aborted
  <2>7. Watched'
    BY <1>0, <1>1, <1>2, <2>3, <2>4 DEF Watched, Aborted
  <2> QED BY <2>3, <2>6, <2>7 DEF Wakeful
<1>4. CASE ~(phase.wake /\ HasPending)
  <2>0. phase' = Idle(phase.turn) /\ frames' = frames
    BY <1>1, <1>4, Zenon
  <2>1. phase'.kind = "idle" /\ phase'.aborted = "no" /\ ~phase'.wake /\ frames' = <<>>
    BY <1>1, <2>0 DEF Idle
  <2>2. Stacked' /\ Latched' /\ Parked'
    BY <1>0, <1>1, <2>1 DEF Stacked, Latched, Parked, KeptWorkParks, Aborted
  <2>3. Safe
    <3>1. CASE phase.wake
      <4>1. Pending = {}
        BY <1>0, <1>4, <3>1, SomePending
      <4> QED BY <1>0, <4>1 DEF Watched, Safe
    <3>2. CASE ~phase.wake
      BY <1>0, <1>1, <3>2 DEF Watched
    <3> QED BY <3>1, <3>2
  <2>4. Watched'
    BY <1>0, <1>1, <1>2, <2>1, <2>3 DEF Watched, Safe
  <2> QED BY <2>2, <2>4 DEF Wakeful
<1> QED BY <1>3, <1>4

LEMMA SettleWakeful == Base /\ Settle => Wakeful'
<1> SUFFICES ASSUME Base, Settle PROVE Wakeful'
  OBVIOUS
<1>0. /\ TypeOK /\ TypeOK' /\ OneDriver /\ Ledger' /\ phase \in PhaseType /\ turn \in TurnType
      /\ audit \in AuditType /\ audit.owed \subseteq Pending
  <2>1. TypeOK /\ Ledger /\ Watched
    BY BaseTypes DEF Base
  <2>2. TypeOK' /\ Ledger'
    BY <2>1, SettleTypes, SettleLedger
  <2> QED BY <2>1, <2>2, BaseTypes DEF Watched
<1>1. ASSUME NEW await \in Suspended, At(await)
      PROVE  frames = <<>> /\ pc = await /\ phase.kind = "running" /\ Goes(frames)
  <2>1. frames = <<>> /\ pc = await /\ pc # "none"
    BY <1>1 DEF At, Suspended
  <2> QED BY <1>0, <2>1, BareTop DEF OneDriver, Goes
<1>2. UNCHANGED <<nextTurn, nextStep>> => Pending' = Pending
  BY DEF Pending
<1>3. ASSUME PreStepDecides PROVE Wakeful'
  <2>1. frames = <<>> /\ phase.kind = "running"
    BY <1>1, <1>3 DEF PreStepDecides, Suspended
  <2>2. /\ turn'.batch = turn.batch /\ ~Aborted /\ phase' = phase /\ audit' = audit
        /\ frames' = frames /\ Pending' = Pending /\ pc' = "decided"
    BY <1>0, <1>2, <1>3 DEF PreStepDecides, TurnType, inbox
  <2> QED BY <1>0, <2>1, <2>2, Moved
<1>4. ASSUME PreStepFails PROVE Wakeful'
  <2>1. frames = <<>> /\ phase.kind = "running" /\ Goes(frames)
    BY <1>1, <1>4 DEF PreStepFails, Suspended
  <2>2. phase' = phase /\ Pending' = Pending
    BY <1>2, <1>4 DEF PreStepFails
  <2>3. CASE Aborted
    BY <1>0, <1>4, <2>1, <2>2, <2>3, ParkedWakeful DEF PreStepFails
  <2>4. CASE ~Aborted
    <3>1. /\ pc' = "none" /\ frames' = Append(frames, Frame("failing", FALSE, "no"))
          /\ audit' = audit /\ turn'.batch = <<>>
      BY <1>0, <1>4, <2>4 DEF PreStepFails, TurnType
    <3>2. ToSet(turn'.batch) \subseteq ToSet(turn.batch)
      BY <3>1, NoElement
    <3> QED BY <1>0, <2>1, <2>2, <3>1, <3>2, FailsWakeful
  <2> QED BY <2>3, <2>4
<1>5. ASSUME StepRejected PROVE Wakeful'
  <2>1. Goes(frames)
    BY <1>1, <1>5 DEF StepRejected, Suspended
  <2>2. /\ phase' = phase /\ Pending' = Pending /\ EndTurn(FALSE, frames) /\ audit' = ParkPending
    BY <1>2, <1>5 DEF StepRejected
  <2> QED BY <1>0, <2>1, <2>2, ParkedWakeful
<1>6. ASSUME NothingToEnter PROVE Wakeful'
  <2> DEFINE drains == turn.ends # "null"
  <2>1. Goes(frames) /\ pc = "decided" /\ turn.verdict = "empty"
    BY <1>1, <1>6 DEF NothingToEnter, Suspended
  <2>2. /\ phase' = phase /\ Pending' = Pending /\ EndTurn(drains, frames) /\ drains \in BOOLEAN
        /\ audit' = IF ~drains THEN [audit EXCEPT !.empty = audit.empty \cup Pending] ELSE audit
    BY <1>2, <1>6 DEF NothingToEnter
  <2>3. drains => AbortUnseen
    BY <1>0, <2>1, Unseen
  <2> HIDE DEF drains
  <2>4. CASE drains
    <3>1. audit' = audit
      BY <2>2, <2>4
    <3> QED BY <1>0, <2>1, <2>2, <2>3, <2>4, <3>1, EndedWakeful
  <2>5. CASE ~drains
    <3>1. /\ audit'.owed = audit.owed /\ audit'.kept = audit.kept
          /\ audit'.empty = audit.empty \cup Pending
      BY <1>0, <2>2, <2>5 DEF AuditType
    <3>2. Safe'
      BY <1>0, <3>1 DEF Safe
    <3> QED BY <1>0, <2>1, <2>2, <2>5, <3>1, <3>2, EndedWakeful
  <2> QED BY <2>2, <2>4, <2>5
<1>7. ASSUME EnterStep PROVE Wakeful'
  <2>1. frames = <<>> /\ phase.kind = "running"
    BY <1>1, <1>7 DEF EnterStep, Suspended
  <2>2. /\ turn'.batch = <<>> /\ ~Aborted /\ audit' = audit /\ frames' = frames
        /\ phase'.kind = phase.kind /\ phase'.aborted = phase.aborted /\ phase'.wake = phase.wake
        /\ Pending' = Pending /\ pc' = "request"
    BY <1>0, <1>2, <1>7 DEF EnterStep, TurnType, PhaseType
  <2>3. ToSet(turn'.batch) \subseteq ToSet(turn.batch)
    BY <2>2, NoElement
  <2> QED BY <1>0, <2>1, <2>2, <2>3, Moved
<1>8. ASSUME NEW from \in {"request", "stream"}, NEW to \in {"stream", "recover", "tools"},
             Resume(from, to)
      PROVE  Wakeful'
  <2>1. frames = <<>> /\ phase.kind = "running"
    BY <1>1, <1>8 DEF Resume, Suspended
  <2>2. /\ turn' = turn /\ phase' = phase /\ audit' = audit
        /\ frames' = frames /\ Pending' = Pending /\ pc' = to /\ pc' # "exit" /\ pc' # "decided"
    BY <1>2, <1>8 DEF Resume, inbox
  <2> QED BY <1>0, <2>1, <2>2, Moved
<1>9. ASSUME RequestRetried \/ StepReturns PROVE Wakeful'
  <2>1. frames = <<>> /\ phase.kind = "running"
    BY <1>1, <1>9 DEF RequestRetried, StepReturns, Suspended
  <2>2. /\ turn'.batch = turn.batch /\ phase' = phase /\ audit' = audit
        /\ frames' = frames /\ Pending' = Pending /\ pc' # "exit" /\ pc' # "decided"
    BY <1>0, <1>2, <1>9 DEF RequestRetried, StepReturns, TurnType, inbox
  <2> QED BY <1>0, <2>1, <2>2, Moved
<1>10. ASSUME StepFails PROVE Wakeful'
  <2>1. frames = <<>> /\ phase.kind = "running"
    BY <1>1, <1>10 DEF StepFails, Suspended
  <2>2. PICK op \in {"failing", "ending"} : frames' = Append(frames, Frame(op, FALSE, "no"))
    BY <1>10 DEF StepFails
  <2>3. /\ turn' = turn /\ phase' = phase /\ audit' = audit /\ Pending' = Pending /\ pc' = "none"
    BY <1>2, <1>10 DEF StepFails, inbox
  <2> QED BY <1>0, <2>1, <2>2, <2>3, FailsWakeful
<1>11. ASSUME EndStep PROVE Wakeful'
  <2>1. frames = <<>> /\ phase.kind = "running" /\ Goes(frames) /\ phase' = phase
    BY <1>1, <1>11 DEF EndStep, Suspended
  <2>2. CASE Aborted
    <3>1. /\ pc' = "none" /\ frames' = Append(frames, Frame("ending", FALSE, "no"))
          /\ turn' = turn /\ audit' = audit /\ Pending' = Pending
      BY <1>2, <1>11, <2>2 DEF EndStep, inbox
    <3> QED BY <1>0, <2>1, <3>1, FailsWakeful
  <2>3. CASE ~Aborted /\ turn.ends # "null" /\ nextStep = <<>>
    <3>1. /\ pc' = "stopping" /\ turn' = turn /\ frames' = frames /\ audit' = audit
          /\ Pending' = Pending
      BY <1>2, <1>11, <2>3 DEF EndStep, inbox
    <3> QED BY <1>0, <2>1, <3>1, Moved
  <2>4. CASE ~Aborted /\ ~(turn.ends # "null" /\ nextStep = <<>>)
    <3>1. ClaimStep("next-step", frames)
      BY <1>11, <2>4 DEF EndStep
    <3> QED BY <1>0, <2>1, <2>4, <3>1, ClaimedWakeful
  <2> QED BY <2>2, <2>3, <2>4
<1>12. ASSUME Stop PROVE Wakeful'
  <2>1. Goes(frames) /\ phase' = phase /\ ~Aborted
    BY <1>1, <1>12 DEF Stop, Suspended
  <2>2. CASE EndTurn(TRUE, frames) /\ UNCHANGED <<inbox, audit>>
    <3>1. Pending' = Pending /\ audit' = audit
      BY <1>2, <2>2 DEF inbox
    <3> QED BY <1>0, <2>1, <2>2, <3>1, EndedWakeful
  <2>3. CASE ClaimStep("next-step", frames)
    BY <1>0, <2>1, <2>3, ClaimedWakeful
  <2> QED BY <1>12, <2>2, <2>3 DEF Stop
<1>13. ASSUME StopFails PROVE Wakeful'
  <2>1. frames = <<>> /\ phase.kind = "running" /\ Goes(frames) /\ phase' = phase
    BY <1>1, <1>13 DEF StopFails, Suspended
  <2>2. Pending' = Pending
    BY <1>2, <1>13 DEF StopFails, inbox
  <2>3. CASE EndTurn(FALSE, frames) /\ audit' = ParkPending
    BY <1>0, <2>1, <2>2, <2>3, ParkedWakeful
  <2>4. CASE /\ pc' = "none" /\ frames' = Append(frames, Frame("failing", FALSE, "no"))
             /\ UNCHANGED <<turn, log, audit>>
    BY <1>0, <2>1, <2>2, <2>4, FailsWakeful
  <2> QED BY <1>13, <2>3, <2>4 DEF StopFails
<1>14. ASSUME NextTurn PROVE Wakeful'
  <2>1. Goes(frames) /\ BeginTurn(frames) /\ UNCHANGED inbox
    BY <1>1, <1>14 DEF NextTurn, Suspended
  <2> QED BY <1>0, <2>1, BegunWakeful
<1>15. ASSUME Exit PROVE Wakeful'
  BY <1>0, <1>15, ExitWakeful
<1>16. ASSUME EndMaintenance PROVE Wakeful'
  BY <1>0, <1>16, EndMaintenanceWakeful
<1>17. ASSUME RequestBuilt \/ StreamFailed \/ ToolsCalled PROVE Wakeful'
  BY <1>8, <1>17 DEF RequestBuilt, StreamFailed, ToolsCalled
<1> QED BY <1>3, <1>4, <1>5, <1>6, <1>7, <1>9, <1>10, <1>11, <1>12, <1>13, <1>14, <1>15, <1>16,
           <1>17 DEF Settle

LEMMA RestartWakeful == Restart => Wakeful'
<1> SUFFICES ASSUME Restart PROVE Wakeful'
  OBVIOUS
<1>1. /\ phase'.kind = "idle" /\ phase'.aborted = "no" /\ ~phase'.wake /\ frames' = <<>>
      /\ audit'.owed = {} /\ audit'.kept = {}
  BY DEF Restart, Idle
<1>2. (\A F : ~Bears(frames', F)) /\ (\A F, G : Never(frames', F, G))
  BY <1>1, EmptyStack
<1> QED BY <1>1, <1>2 DEF Wakeful, Stacked, Latched, Parked, Watched, Safe, KeptWorkParks, Aborted

LEMMA BaseInvariant == Spec => []Base
<1>1. Init => Wakeful
  <2> SUFFICES ASSUME Init PROVE Wakeful
    OBVIOUS
  <2>1. /\ phase.kind = "idle" /\ phase.aborted = "no" /\ ~phase.wake /\ frames = <<>>
        /\ audit.owed = {} /\ audit.kept = {}
    BY DEF Init, Idle
  <2>2. (\A F : ~Bears(frames, F)) /\ (\A F, G : Never(frames, F, G))
    BY <2>1, EmptyStack
  <2> QED BY <2>1, <2>2 DEF Wakeful, Stacked, Latched, Parked, Watched, Safe, KeptWorkParks, Aborted
<1>2. Base /\ [Next]_vars => Wakeful'
  <2> SUFFICES ASSUME Base, [Next]_vars PROVE Wakeful'
    OBVIOUS
  <2>1. CASE UNCHANGED vars
    BY <2>1 DEF vars, Base, Wakeful, Stacked, Latched, Parked, Watched, Safe, KeptWorkParks,
                Aborted, AbortUnseen, Pending
  <2> QED BY <2>1, CallWakeful, ContinueWakeful, SettleWakeful, RestartWakeful DEF Next
<1>3. Control /\ Ledger /\ Wakeful <=> Base
  BY DEF Base
<1> QED BY <1>1, <1>2, <1>3, ControlInvariant, LedgerInvariant, PTL DEF Spec

(* No wake is lost but in the two lapses: the message that arrives after   *)
(* the driver's last look, and the one behind a turn with nothing to enter.*)
THEOREM WakesAreDelivered == Spec => []NoStrandedWake
<1>1. Base => NoStrandedWake
  <2>1. \A F : ~Bears(<<>>, F)
    BY BareTop
  <2> QED BY <2>1 DEF Base, Wakeful, Watched, Safe, NoStrandedWake, AtRest
<1> QED BY <1>1, BaseInvariant, PTL

(* What a cancel kept behind an aborted turn waits for a later wake.       *)
THEOREM KeptWorkIsParked == Spec => []KeptWorkParks
<1>1. Base => KeptWorkParks
  BY DEF Base, Wakeful, Parked
<1> QED BY <1>1, BaseInvariant, PTL
=============================================================================
