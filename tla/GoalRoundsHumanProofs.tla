----------------------- MODULE GoalRoundsHumanProofs -----------------------
(* A round yields to a person, for every value of GoalRounds' constants: a   *)
(* round over which a prompt was submitted while it was queued never enters, *)
(* unless a drive during maintenance had reserved it a second time.          *)
(*                                                                           *)
(* What must be shown relates history to the attempt: a round that history   *)
(* has as overtaken is not the attempt, or makes it stale, and has not       *)
(* passed the fence (Yields).  A lemma ..Moves says what a call may do to    *)
(* the queue and the attempt, its cascade of listeners included: Plain, it   *)
(* reserves and claims nothing; Passive, it reserves nothing; Makes, it      *)
(* reserves where there was no attempt.  A lemma ..Yields, one for each      *)
(* action, keeps the invariant.                                              *)
(*                                                                           *)
(* The hard step is a turn that opens and at once drives again: Owes says    *)
(* why a round vetoed because its goal was revised is not followed, within   *)
(* the same step, by a reservation that would let an older prompt pass.      *)
EXTENDS GoalRoundsProofs

(* A turn opens with what waits in the inbox, the attempt is dropped, kept   *)
(* or claimed by that turn: no round is reserved.                            *)
Passive(s, t) ==
  /\ \A x \in About(t) : x.from = "goal" => x \in About(s)
  /\ \A x \in ToSet(t.agent.nextTurn) : x.from = "goal" => x \in ToSet(s.agent.nextTurn)
  /\ \/ t.drv.attempt.msg = NoMsg
     \/ /\ t.drv.attempt.msg = s.drv.attempt.msg
        /\ s.drv.attempt.stale => t.drv.attempt.stale
        /\ \/ t.drv.attempt.phase = s.drv.attempt.phase
           \/ SameRound(t.agent.prompt, t.drv.attempt.msg)

(* The same, and the attempt is not claimed.                                 *)
Plain(s, t) ==
  Passive(s, t) /\ (t.drv.attempt.msg = NoMsg \/ t.drv.attempt.phase = s.drv.attempt.phase)

(* A round is reserved where there was no attempt.                           *)
Makes(s, t) ==
  /\ s.drv.attempt.phase = "none" /\ t.drv.attempt.phase # "none"
  /\ t.drv.attempt.msg \in About(t)
  /\ \A x \in About(t) : x.from = "goal" => x \in About(s) \/ x = t.drv.attempt.msg
  /\ t.drv.attempt.phase = "queued" \/ SameRound(t.agent.prompt, t.drv.attempt.msg)

Moves(s, t) == Passive(s, t) \/ Makes(s, t)

(* No drive of this state reserves a round.                                  *)
Barren(s) ==
  s.drv.fiber # "active" \/ s.drv.run # 0 \/ s.drv.checkpoint \/ ~Continuing(s.goal)

LEMMA LoopedMoves ==
  ASSUME NEW s, NEW t, Looped(s, t)
  PROVE  Plain(s, t)
BY DEF Looped, Plain, Passive, About

LEMMA OpenedMoves ==
  ASSUME NEW s \in States, NEW t, Opened(s, t)
  PROVE  Passive(s, t)
<1>1. \A x \in About(t) : x.from = "goal" => x \in About(s)
  BY AboutOpened DEF NoMsg
<1>2. \A x \in ToSet(t.agent.nextTurn) : x.from = "goal" => x \in ToSet(s.agent.nextTurn)
  <2>1. s.agent.nextTurn \in Seq(Messages)
    BY StateTypes
  <2> QED BY <2>1, Popped, EmptyQueue DEF Opened
<1>3. /\ t.drv.attempt.msg = s.drv.attempt.msg /\ t.drv.attempt.stale = s.drv.attempt.stale
      /\ \/ t.drv.attempt.phase = s.drv.attempt.phase
         \/ SameRound(t.agent.prompt, t.drv.attempt.msg)
  BY DEF Opened
<1> QED BY <1>1, <1>2, <1>3 DEF Passive

LEMMA PlainFirst ==
  ASSUME NEW s, NEW u, NEW t, Plain(s, u)
  PROVE  /\ Passive(u, t) => Passive(s, t)
         /\ Plain(u, t) => Plain(s, t)
         /\ Makes(u, t) /\ s.drv.attempt.phase = "none" => Makes(s, t)
<1>1. Passive(u, t) => Passive(s, t)
  BY DEF Plain, Passive
<1>2. Plain(u, t) => Plain(s, t)
  BY <1>1 DEF Plain, Passive
<1>3. Makes(u, t) /\ s.drv.attempt.phase = "none" => Makes(s, t)
  BY DEF Plain, Passive, Makes
<1> QED BY <1>1, <1>2, <1>3

LEMMA ReservedMoves ==
  ASSUME NEW s \in States, NEW t, Reserved(s, t)
  PROVE  Makes(s, t)
<1> DEFINE m == t.drv.attempt.msg  q == Append(s.agent.nextTurn, m)
<1>1. m \in Messages /\ s.agent.nextTurn \in Seq(Messages) /\ s.drv.attempt.phase = "none"
  BY StateTypes DEF Reserved
<1>2. q \in Seq(Messages) /\ q # <<>> /\ ToSet(q) = ToSet(s.agent.nextTurn) \cup {m}
  BY <1>1, Queued
<1> HIDE DEF q
<1>3. CASE t.agent = [s.agent EXCEPT !.nextTurn = q, !.wake = TRUE] /\ t.drv.attempt.phase = "queued"
  <2>1. t.agent.nextTurn = q /\ t.agent.prompt = s.agent.prompt
    BY <1>3 DEF States, Agents
  <2> QED BY <1>1, <1>2, <1>3, <2>1 DEF Makes, About
<1>4. CASE /\ t.agent.nextTurn = Tail(q) /\ t.agent.prompt = Head(q)
           /\ t.drv.attempt.phase = IF SameRound(Head(q), m) THEN "claimed" ELSE "queued"
  <2>1. About(t) = ToSet(q)
    BY <1>2, <1>4, Popped DEF About
  <2>2. \A x \in About(t) : x.from = "goal" => x \in About(s) \/ x = m
    BY <1>2, <2>1 DEF About
  <2> QED BY <1>1, <1>2, <1>4, <2>1, <2>2 DEF Makes
<1> QED BY <1>3, <1>4 DEF Reserved, q

LEMMA ContinuedMoves ==
  ASSUME NEW s \in States, NEW t, Continued(s, t)
  PROVE  /\ Plain(s, t) \/ Makes(s, t)
         /\ ~Continuing(s.goal) \/ ~Ready(s) => Plain(s, t)
         /\ Makes(s, t) => s.agent.pc \in {"idle", "maintenance"} /\ t.agent.pc \in {"assemble", "maintenance"}
                           /\ (s.agent.pc = "idle" => t.agent.pc = "assemble")
<1>1. CASE Looped(s, t)
  BY <1>1, LoopedMoves DEF Makes, Looped
<1>2. CASE Resolved(s, t)
  <2>1. NoAttempt.msg = NoMsg /\ NoAttempt.phase = "none"
    BY DEF NoAttempt
  <2> QED BY <1>2, <2>1 DEF Resolved, Plain, Passive, Makes, About
<1>3. CASE Exhausted(s, t)
  BY <1>3 DEF Exhausted, Committed, Plain, Passive, Makes, About
<1>4. CASE Reserved(s, t)
  <2>1. Makes(s, t) /\ Continuing(s.goal) /\ Ready(s)
    BY <1>4, ReservedMoves DEF Reserved
  <2>2. \/ s.agent.pc = "maintenance"
           /\ t.agent = [s.agent EXCEPT !.nextTurn = Append(s.agent.nextTurn, t.drv.attempt.msg), !.wake = TRUE]
        \/ s.agent.pc = "idle" /\ t.agent.pc = "assemble"
    BY <1>4 DEF Reserved
  <2>3. s.agent \in Agents
    BY DEF States
  <2>4. s.agent.pc = "maintenance" => t.agent.pc = "maintenance"
    BY <2>2, <2>3 DEF Agents
  <2> QED BY <2>1, <2>2, <2>4
<1> QED BY <1>1, <1>2, <1>3, <1>4 DEF Continued

LEMMA OnIdleMoves ==
  ASSUME NEW s \in States, Able(s), Traced(s), s.agent.pc = "idle", s.agent.prompt = NoMsg
  PROVE  LET t == OnIdle(s)
         IN  /\ Moves(s, t) /\ (Barren(s) => Passive(s, t))
             /\ t.agent.pc = "idle" => Plain(s, t)
<1> DEFINE a == s.drv.attempt
           u == [s EXCEPT !.drv.competing = FALSE]
           v == [u EXCEPT !.drv.attempt = NoAttempt]
           dropped == /\ a.phase \in {"queued", "claimed"} \/ a.cancelled
                      /\ Continuing(s.goal)
                      /\ OwnsGoal(a, s.goal)
           w == IF dropped THEN Commit(v, "paused", FALSE) ELSE u
           t == OnIdle(s)
<1>1. /\ u \in States /\ u.goal = s.goal /\ u.agent = s.agent /\ u.drv.attempt = a
      /\ u.drv.fiber = s.drv.fiber /\ u.drv.run = s.drv.run /\ u.drv.loops = s.drv.loops
      /\ u.drv.checkpoint = s.drv.checkpoint
  BY DEF States, Drivers
<1>2. /\ v \in States /\ v.goal = s.goal /\ v.agent = s.agent /\ v.drv.attempt = NoAttempt
      /\ v.drv.fiber = s.drv.fiber /\ v.drv.run = s.drv.run /\ v.drv.loops = s.drv.loops
  BY <1>1, MsgTypes DEF States, Drivers
<1>3. t = RequestDrive(w)
  BY DEF OnIdle
<1>4. Able(u) /\ Able(v)
  BY <1>1, <1>2 DEF Able, Room, Free
<1> HIDE DEF u, v, t
<1>5. CASE dropped
  <2>1. w \in States /\ Committed(v, w, "paused") /\ (v.drv.fiber = "active" => w.drv.run # 0)
    BY <1>2, <1>4, <1>5, AbleStarts, CommitEffect
  <2>2. t = RequestDrive(w)
    BY <1>3
  <2> HIDE DEF w
  <2>3. Able(w)
    BY <2>1 DEF Able, Committed
  <2>4. Continued(w, t)
    BY <2>1, <2>2, <2>3, RequestDriveEffect
  <2>5. ~Continuing(w.goal) /\ w.agent = s.agent /\ w.drv.attempt = NoAttempt
    BY <2>1, <1>2 DEF Committed, Continuing, States, Goals
  <2>6. Plain(s, w)
    BY <2>5 DEF Plain, Passive, About, NoAttempt
  <2>7. Plain(w, t)
    BY <2>1, <2>4, <2>5, ContinuedMoves
  <2>8. Plain(s, t)
    BY <2>6, <2>7, PlainFirst
  <2> QED BY <2>8 DEF Moves, Plain, t
<1>6. CASE ~dropped
  <2>1. t = RequestDrive(u)
    BY <1>3, <1>6 DEF w
  <2>2. Continued(u, t) /\ (u.drv.run # 0 \/ u.drv.checkpoint \/ ~Ready(u) => Looped(u, t))
    BY <1>1, <1>4, <2>1, RequestDriveEffect
  <2>3. Plain(s, u)
    BY <1>1 DEF Plain, Passive, About
  <2>4. /\ Plain(u, t) \/ Makes(u, t)
        /\ ~Continuing(u.goal) => Plain(u, t)
        /\ Makes(u, t) /\ u.agent.pc = "idle" => t.agent.pc = "assemble"
    BY <1>1, <2>2, ContinuedMoves
  <2>5. Barren(s) => Plain(u, t)
    BY <1>1, <2>2, <2>4, LoopedMoves DEF Barren, Ready
  <2>6. s.drv.attempt.phase = u.drv.attempt.phase /\ u.agent.pc = "idle"
    BY <1>1
  <2>7. Makes(u, t) => Makes(s, t) /\ t.agent.pc = "assemble"
    BY <2>3, <2>4, <2>6, PlainFirst DEF Makes
  <2>8. Plain(u, t) => Plain(s, t)
    BY <2>3, PlainFirst
  <2> QED BY <2>4, <2>5, <2>7, <2>8 DEF Moves, Plain, t
<1> QED BY <1>5, <1>6 DEF t

LEMMA RetireMoves ==
  ASSUME NEW s \in States, Able(s), Traced(s)
  PROVE  LET t == Retire(s)
         IN  Moves(s, t) /\ (Barren(s) => Passive(s, t))
<1> DEFINE v == [s EXCEPT !.agent = [@ EXCEPT !.pc = "idle", !.prompt = NoMsg, !.batch = {},
                                              !.aborted = FALSE, !.wake = FALSE]]
           u == IF s.drv.fiber = "closed" THEN v ELSE OnIdle(v)
           t == Retire(s)
<1>1. /\ v \in States /\ v.goal = s.goal /\ v.drv = s.drv /\ v.agent.pc = "idle" /\ v.agent.prompt = NoMsg
      /\ v.agent.nextTurn = s.agent.nextTurn
  BY MsgTypes DEF States, Agents
<1>2. t = IF s.agent.wake /\ u.agent.pc = "idle" /\ Pending(u) THEN OpenTurn(u) ELSE u
  BY DEF Retire
<1> HIDE DEF v, t
<1>3. Plain(s, v) /\ v.drv.attempt.phase = s.drv.attempt.phase
  BY <1>1 DEF Plain, Passive, About, NoMsg
<1>4. Able(v) /\ Traced(v)
  <2>1. Less(s, v)
    BY <1>1 DEF Less
  <2> QED BY <1>1, <2>1, TracedLater DEF Able, Room, Free
<1>5. u \in States
  BY <1>1, <1>4, OnIdleEffect
<1>6. /\ Moves(v, u) /\ (Barren(v) => Passive(v, u))
      /\ u.agent.pc = "idle" => Plain(v, u)
  <2>1. Plain(v, v)
    BY DEF Plain, Passive
  <2> QED BY <1>1, <1>4, <2>1, OnIdleMoves DEF Moves, Plain
<1>7. Barren(v) <=> Barren(s)
  BY <1>1 DEF Barren
<1> HIDE DEF u
<1>8. /\ Moves(s, u) /\ (Barren(s) => Passive(s, u))
      /\ u.agent.pc = "idle" => Plain(s, u)
  BY <1>3, <1>6, <1>7, PlainFirst DEF Moves, Makes
<1>9. CASE s.agent.wake /\ u.agent.pc = "idle" /\ Pending(u)
  <2>1. Passive(u, t)
    BY <1>2, <1>5, <1>9, OpenTurnEffect, OpenedMoves
  <2> QED BY <1>8, <1>9, <2>1, PlainFirst DEF Moves, t
<1>10. CASE ~(s.agent.wake /\ u.agent.pc = "idle" /\ Pending(u))
  BY <1>2, <1>8, <1>10 DEF t
<1> QED BY <1>9, <1>10

LEMMA SettledMoves ==
  ASSUME NEW s \in States, NEW kind
  PROVE  LET t == Settled(s, kind)
         IN  /\ Plain(s, t) /\ t.drv.attempt.phase = s.drv.attempt.phase
             /\ Barren(s) => Barren(t)
<1> DEFINE t == Settled(s, kind)
<1>1. /\ t.agent = s.agent /\ t.drv.attempt.msg = s.drv.attempt.msg /\ t.drv.attempt.phase = s.drv.attempt.phase
      /\ t.drv.fiber = s.drv.fiber /\ t.drv.run = s.drv.run /\ Goes(s.goal, t.goal)
  BY SettledEffect
<1>2. t.drv.attempt.stale = s.drv.attempt.stale /\ t.drv.checkpoint = s.drv.checkpoint
  BY DEF Settled, Disarmed, States, Drivers, Attempts
<1> HIDE DEF t
<1>3. Plain(s, t)
  BY <1>1, <1>2 DEF Plain, Passive, About
<1>4. Barren(s) => Barren(t)
  BY <1>1, <1>2 DEF Barren, Goes
<1> QED BY <1>1, <1>3, <1>4 DEF t

LEMMA EndTurnMoves ==
  ASSUME NEW s \in States, Able(s), Traced(s), NEW kind
  PROVE  LET t == EndTurn(s, kind)
         IN  Moves(s, t) /\ (Barren(s) => Passive(s, t))
<1> DEFINE v == Settled(s, kind)
           t == EndTurn(s, kind)
<1>1. /\ v \in States /\ v.agent = s.agent /\ Goes(s.goal, v.goal)
      /\ v.goal.rev = s.goal.rev /\ v.goal.cap = s.goal.cap
      /\ v.drv.fiber = s.drv.fiber /\ v.drv.attempt.msg = s.drv.attempt.msg
      /\ v.drv.attempt.phase = s.drv.attempt.phase
      /\ v.drv.run = s.drv.run /\ v.drv.loops = s.drv.loops
  BY SettledEffect
<1>2. Plain(s, v) /\ (Barren(s) => Barren(v))
  BY SettledMoves
<1>3. t = IF kind \in {"completed", "max-tokens"} /\ Pending(s) THEN OpenTurn(v) ELSE Retire(v)
  BY DEF EndTurn
<1> HIDE DEF v, t
<1>4. Able(v)
  BY <1>1 DEF Able, Room, Free
<1>5. Traced(v)
  <2>1. Less(s, v)
    BY <1>1 DEF Less
  <2> QED BY <1>1, <2>1, TracedLater DEF Goes
<1>6. Moves(v, t) /\ (Barren(v) => Passive(v, t))
  BY <1>1, <1>3, <1>4, <1>5, OpenTurnEffect, OpenedMoves, RetireMoves DEF Moves
<1>7. v.drv.attempt.phase = s.drv.attempt.phase
  BY <1>1
<1> QED BY <1>2, <1>6, <1>7, PlainFirst DEF Moves, Makes, t

-----------------------------------------------------------------------------
(* The inductive invariant, with the history `h` that a state comes with.    *)

(* Two reservations of one round are seen when they are about together.      *)
TwinsTold(s, h) == Twins(s) => h.twins

(* A round that a person's prompt came over is not the attempt, or makes it  *)
(* a stale one.                                                              *)
Overruled(s, h) ==
  ~h.twins => \A x \in h.overtaken \cap About(s) :
                SameRound(x, s.drv.attempt.msg) => s.drv.attempt.stale

(* A round that has been claimed is no longer in the inbox.                  *)
Alone(s, h) ==
  ~h.twins /\ s.drv.attempt.phase \in {"claimed", "admitted"} => ~Queues(s.agent.nextTurn, s.drv.attempt.msg)

(* The fence has let no such round pass, ...                                 *)
OuterYields(s, h) ==
  ~h.twins /\ s.agent.pc = "outer" /\ s.agent.prompt.from = "goal" /\ s.drv.fiber # "closed"
    => s.agent.prompt \notin h.overtaken

(* ... and whoever revises the goal under the hooks leaves a checkpoint to   *)
(* take before another round is reserved.                                    *)
Owes(s) ==
  s.agent.pc = "hooks" /\ s.drv.fiber = "active" /\ s.agent.prompt.from = "goal"
  /\ ~OwnsGoal([msg |-> s.agent.prompt], s.goal)
    => s.drv.checkpoint

Yields(s, h) == TwinsTold(s, h) /\ Overruled(s, h) /\ Alone(s, h) /\ OuterYields(s, h) /\ Owes(s)

HInv == IInv /\ (~goal.failed => Yields(state, audit))

(* What a step owes the property.                                            *)
Yielded == RoundEnters /\ ~audit.twins => agent.prompt \notin audit.overtaken

LEMMA Reached ==
  ASSUME IInv, NEW s \in States, state' = s, IInv', ~s.goal.failed
  PROVE  Traced(s)
<1>1. goal' = s.goal
  BY DEF state
<1> QED BY <1>1 DEF IInv, Control, Kept

(* Whoever moves without a second prompt keeps the first three parts.        *)
LEMMA MovesKeep ==
  ASSUME NEW r \in States, NEW s \in States, Traced(r), Traced(s), Moves(r, s),
         NEW h \in Audits, NEW k \in Audits, k.twins = (h.twins \/ Twins(s)),
         k.overtaken \subseteq h.overtaken, Makes(r, s) => s.drv.attempt.msg \notin k.overtaken,
         Overruled(r, h), Alone(r, h)
  PROVE  TwinsTold(s, k) /\ Overruled(s, k) /\ Alone(s, k)
<1> DEFINE a == s.drv.attempt  q == s.agent.nextTurn  p == s.agent.prompt
<1>1. /\ q \in Seq(Messages) /\ a.msg \in Messages /\ r.drv.attempt.msg \in Messages /\ p \in Messages
      /\ \A x \in About(s) : x \in Messages
  BY StateTypes
<1>2. /\ Apart(q, p)
      /\ a.phase = "none" <=> a.msg = NoMsg
      /\ r.drv.attempt.phase = "none" <=> r.drv.attempt.msg = NoMsg
  BY DEF Traced, Ordered, NoMsg
<1>3. TwinsTold(s, k)
  BY DEF TwinsTold, Audits
<1>4. ASSUME ~k.twins, NEW x \in k.overtaken \cap About(s), SameRound(x, a.msg)
      PROVE  a.stale
  <2>1. x.from = "goal" /\ x \in Messages /\ ~h.twins /\ ~Twins(s)
    BY <1>1, <1>4, RoundFields DEF Audits
  <2>2. CASE Makes(r, s)
    <3>1. x # a.msg /\ a.msg \in About(s)
      BY <1>4, <2>2 DEF Makes
    <3> QED BY <1>4, <2>1, <3>1 DEF Twins, About
  <2>3. CASE Passive(r, s)
    <3>1. a.msg # NoMsg
      BY <1>4, <2>1, NoRound
    <3>2. a.msg = r.drv.attempt.msg /\ (r.drv.attempt.stale => a.stale)
      BY <2>3, <3>1 DEF Passive
    <3>3. x \in h.overtaken \cap About(r)
      BY <1>4, <2>1, <2>3 DEF Passive
    <3> QED BY <1>4, <2>1, <3>2, <3>3 DEF Overruled
  <2> QED BY <2>2, <2>3 DEF Moves
<1>5. ASSUME ~k.twins, a.phase \in {"claimed", "admitted"}, Queues(q, a.msg)
      PROVE  FALSE
  <2>1. PICK i \in DOMAIN q : SameRound(q[i], a.msg)
    BY <1>5 DEF Queues
  <2>2. q[i] \in Messages /\ q[i].from = "goal" /\ q[i] \in ToSet(q) /\ q[i] # p
    BY <1>1, <1>2, <2>1, RoundFields DEF ToSet, Apart
  <2>3. ~h.twins /\ ~Twins(s)
    BY <1>5 DEF Audits
  <2>4. CASE SameRound(p, a.msg)
    <3>1. SameRound(q[i], p)
      BY <1>1, <2>1, <2>2, <2>4, RoundFields
    <3> QED BY <2>2, <2>3, <3>1 DEF Twins
  <2>5. CASE ~SameRound(p, a.msg)
    <3>1. Passive(r, s)
      BY <1>5, <2>5 DEF Moves, Makes
    <3>2. a.msg = r.drv.attempt.msg /\ a.phase = r.drv.attempt.phase
      BY <1>2, <1>5, <2>5, <3>1 DEF Passive
    <3>3. q[i] \in ToSet(r.agent.nextTurn)
      BY <2>2, <3>1 DEF Passive
    <3>4. Queues(r.agent.nextTurn, a.msg)
      BY <2>1, <3>3 DEF Queues, ToSet
    <3> QED BY <1>5, <2>3, <3>2, <3>4 DEF Alone
  <2> QED BY <2>4, <2>5
<1> QED BY <1>3, <1>4, <1>5 DEF Overruled, Alone

LEMMA Recording ==
  ASSUME TypeOK, NEW s \in States, NEW halt, Step(s, halt) \/ FenceStep(s)
  PROVE  /\ audit'.twins = (audit.twins \/ Twins(s))
         /\ audit'.overtaken = IF Reserves(s) THEN audit.overtaken \ {s.drv.attempt.msg} ELSE audit.overtaken
         /\ state' = s
<1>1. audit \in Audits
  BY DEF TypeOK
<1>2. ASSUME NEW g
      PROVE  /\ Observed(s, g) \in Audits
             /\ Observed(s, g).twins = (audit.twins \/ Twins(s))
             /\ Observed(s, g).overtaken = IF Reserves(s) THEN audit.overtaken \ {s.drv.attempt.msg} ELSE audit.overtaken
  <2>1. Observed(s, g) \in Audits
    BY Observing
  <2> QED BY <1>1, <2>1 DEF Observed, Audits
<1>3. CASE Step(s, halt)
  BY <1>2, <1>3, Became DEF Step
<1>4. CASE FenceStep(s)
  <2> DEFINE o == Observed(s, "no")  l == agent.batch \ (s.agent.nextStep \cup s.agent.batch)
  <2>1. audit' = [o EXCEPT !.lost = @ \cup l] /\ o \in Audits /\ Become(s)
    BY <1>2, <1>4 DEF FenceStep
  <2>2. o.twins = (audit.twins \/ Twins(s))
        /\ o.overtaken = IF Reserves(s) THEN audit.overtaken \ {s.drv.attempt.msg} ELSE audit.overtaken
    BY <1>2
  <2> HIDE DEF o, l
  <2>3. audit'.twins = o.twins /\ audit'.overtaken = o.overtaken
    BY <2>1 DEF Audits
  <2> QED BY <2>1, <2>2, <2>3, Became
<1> QED BY <1>3, <1>4

(* The step of an action that moves.                                         *)
LEMMA Yielding ==
  ASSUME HInv, IInv', NEW s \in States, NEW halt, Step(s, halt) \/ FenceStep(s), Moves(state, s),
         s.agent.pc = "outer" => /\ s.agent.prompt = agent.prompt
                                 /\ drv.fiber = "closed" => s.drv.fiber = "closed"
                                 /\ agent.pc = "outer" \/ (Fenced(state) => Valid(state)),
         ~s.goal.failed => Owes(s),
         s.goal.rounds = goal.rounds + 1 /\ s.goal.id = goal.id /\ drv.fiber # "closed"
           => agent.prompt.from = "goal" /\ (agent.pc = "outer" \/ Valid(state))
  PROVE  HInv' /\ Yielded
<1>1. /\ TypeOK /\ IInv /\ Traced(state) /\ state \in States /\ audit \in Audits /\ ~goal.failed
      /\ state.goal = goal /\ state.drv = drv /\ state.agent = agent
  BY Before DEF HInv
<1>2. /\ TwinsTold(state, audit) /\ Overruled(state, audit) /\ Alone(state, audit) /\ OuterYields(state, audit)
  BY <1>1 DEF HInv, Yields
<1>3. /\ audit'.twins = (audit.twins \/ Twins(s)) /\ state' = s /\ audit' \in Audits
      /\ audit'.overtaken = IF Reserves(s) THEN audit.overtaken \ {s.drv.attempt.msg} ELSE audit.overtaken
      /\ goal' = s.goal
  <2>1. audit' \in Audits
    BY DEF IInv, TypeOK
  <2> QED BY <1>1, <2>1, Recording DEF state
<1>4. audit'.overtaken \subseteq audit.overtaken
  BY <1>3
<1>5. Makes(state, s) => s.drv.attempt.msg \notin audit'.overtaken
  BY <1>1, <1>3 DEF Makes, Reserves
(* A round that is valid has not been overtaken.                             *)
<1>6. Valid(state) /\ ~audit.twins => agent.prompt \notin audit.overtaken
  <2>1. agent.prompt \in About(state)
    BY <1>1 DEF About
  <2> QED BY <1>1, <1>2, <2>1 DEF Valid, Overruled
<1>7. ASSUME ~s.goal.failed
      PROVE  Yields(s, audit')
  <2>1. Traced(s)
    BY <1>1, <1>3, <1>7, Reached
  <2>2. TwinsTold(s, audit') /\ Overruled(s, audit') /\ Alone(s, audit')
    BY <1>1, <1>2, <1>3, <1>4, <1>5, <2>1, MovesKeep
  <2>3. OuterYields(s, audit')
    <3> SUFFICES ASSUME ~audit'.twins, s.agent.pc = "outer", s.agent.prompt.from = "goal", s.drv.fiber # "closed"
                 PROVE  s.agent.prompt \notin audit.overtaken
      BY <1>4 DEF OuterYields
    <3>1. ~audit.twins /\ s.agent.prompt = agent.prompt /\ drv.fiber # "closed"
      BY <1>1, <1>3 DEF Audits
    <3>2. CASE agent.pc = "outer"
      BY <1>1, <1>2, <3>1, <3>2 DEF OuterYields
    <3>3. CASE Fenced(state) => Valid(state)
      BY <1>1, <1>6, <3>1, <3>3 DEF Fenced
    <3> QED BY <3>2, <3>3
  <2> QED BY <1>7, <2>2, <2>3 DEF Yields
<1>8. Yielded
  <2> SUFFICES ASSUME RoundEnters, ~audit.twins
               PROVE  agent.prompt \notin audit.overtaken
    BY DEF Yielded
  <2>1. agent.prompt.from = "goal" /\ (agent.pc = "outer" \/ Valid(state)) /\ drv.fiber # "closed"
    BY <1>3 DEF RoundEnters
  <2> QED BY <1>1, <1>2, <1>6, <2>1 DEF OuterYields
<1> HIDE DEF Yields
<1> QED BY <1>3, <1>7, <1>8 DEF HInv

-----------------------------------------------------------------------------
(* The turn of the agent.                                                    *)

LEMMA LeftYields ==
  ASSUME HInv, IInv', NEW s \in States, NEW halt, Step(s, halt) \/ FenceStep(s), Moves(state, s),
         s.agent.pc \notin {"hooks", "outer"}, Goes(goal, s.goal)
  PROVE  HInv' /\ Yielded
<1>1. goal.rounds \in Nat
  BY DEF HInv, IInv, TypeOK, Goals
<1>2. s.goal.rounds # goal.rounds + 1
  BY <1>1 DEF Goes
<1>3. Owes(s)
  BY DEF Owes
<1> QED BY <1>2, <1>3, Yielding

LEMMA EndsYield ==
  ASSUME HInv, IInv', NEW v \in States, NEW kind, NEW halt,
         Step(EndTurn(v, kind), halt) \/ FenceStep(EndTurn(v, kind)),
         Able(v), Traced(v), Goes(goal, v.goal), Plain(state, v),
         v.drv.attempt.phase = drv.attempt.phase \/ Barren(v)
  PROVE  HInv' /\ Yielded
<1> DEFINE s == EndTurn(v, kind)
<1>1. s \in States /\ Goes(v.goal, s.goal) /\ s.agent.pc \in {"idle", "assemble"}
  BY EndTurnEffect DEF Ended
<1>2. Moves(v, s) /\ (Barren(v) => Passive(v, s))
  BY EndTurnMoves
<1> HIDE DEF s
<1>3. state.drv = drv
  BY DEF state
<1>4. Moves(state, s)
  BY <1>2, <1>3, PlainFirst DEF Moves, Makes
<1>5. Goes(goal, s.goal)
  BY <1>1, GoesTwice
<1> QED BY <1>1, <1>4, <1>5, LeftYields DEF s

LEMMA PlainSame == \A s : Plain(s, s)
BY DEF Plain, Passive

LEMMA EndsPlainly ==
  ASSUME HInv, IInv', NEW kind, NEW halt, Step(EndTurn(state, kind), halt)
  PROVE  HInv' /\ Yielded
<1>1. Able(state) /\ Traced(state) /\ state \in States /\ state.goal = goal /\ state.drv = drv
  BY Before DEF HInv
<1> QED BY <1>1, PlainSame, SameGoes, EndsYield

LEMMA FenceYields ==
  ASSUME HInv, IInv', NEW v, FenceStep(EndTurn(v, "blocked")), v \in {FirstRejected(state), Dropped(state)},
         Running(state)
  PROVE  HInv' /\ Yielded
<1> DEFINE u == [state EXCEPT !.drv.attempt = NoAttempt]
<1>1. Able(state) /\ Traced(state) /\ state \in States /\ state.goal = goal /\ state.drv = drv
  BY Before DEF HInv
<1>2. Rejected(state, v)
  BY <1>1, DroppedEffect
<1>3. /\ u \in States /\ Traced(u) /\ u.goal = goal /\ u.agent = state.agent
      /\ u.drv.fiber = drv.fiber /\ u.drv.run = drv.run /\ u.drv.loops = drv.loops
      /\ u.drv.attempt = NoAttempt
  BY <1>1, ForgetEffect
<1>4. v = RequestDrive(RestoreOthers(u)) \/ v = RequestDrive(RestoreOthers(state))
  BY DEF FirstRejected, Dropped
<1>5. Plain(state, u)
  BY <1>3 DEF Plain, Passive, About, NoAttempt
<1> HIDE DEF u
<1>6. ASSUME NEW r \in {u, state}, v = RequestDrive(RestoreOthers(r))
      PROVE  Plain(r, v) /\ Barren(v)
  <2> DEFINE w == RestoreOthers(r)
  <2>1. r \in States /\ Able(r) /\ Running(r)
    BY <1>1, <1>3 DEF Able, Room, Free, Running
  <2>2. /\ w \in States /\ w.goal = r.goal /\ w.drv = r.drv /\ About(w) = About(r)
        /\ w.agent = [r.agent EXCEPT !.nextStep = r.agent.batch \cup @]
    BY <2>1, RestoreEffect
  <2>3. v = RequestDrive(w)
    BY <1>6
  <2> HIDE DEF w
  <2>4. Able(w) /\ w.agent.nextTurn = r.agent.nextTurn /\ w.agent.pc = r.agent.pc
    BY <2>1, <2>2 DEF Able, Room, Free, States, Agents
  <2>5. ~Ready(w)
    BY <2>1, <2>4 DEF Running, RunningPCs, Ready
  <2>6. Looped(w, v) /\ (w.drv.fiber = "active" => v.drv.run # 0)
    BY <2>2, <2>3, <2>4, <2>5, RequestDriveEffect
  <2>7. Plain(r, w)
    BY <2>2, <2>4 DEF Plain, Passive
  <2>8. Plain(r, v)
    BY <2>6, <2>7, LoopedMoves, PlainFirst
  <2> QED BY <2>6, <2>8 DEF Barren, Looped
<1>7. Plain(state, v) /\ Barren(v)
  BY <1>4, <1>5, <1>6, PlainFirst
<1>8. v \in States /\ Able(v) /\ Traced(v) /\ Goes(goal, v.goal)
  BY <1>1, <1>2, SameGoes DEF Rejected
<1> QED BY <1>7, <1>8, EndsYield

LEMMA HooksAbortYields ==
  ASSUME HInv, IInv', NEW entering \in BOOLEAN, HooksAbort(entering)
  PROVE  HInv' /\ Yielded
<1> DEFINE v == IF entering /\ Fenced(state) THEN RestoreOthers(state) ELSE state
<1>1. Step(EndTurn(v, "aborted"), "no")
  BY DEF HooksAbort
<1>2. state \in States /\ Traced(state) /\ Able(state) /\ state.goal = goal /\ state.drv = drv
  BY <1>1, Before DEF HInv
<1>3. v \in States /\ v.goal = goal /\ v.drv = drv /\ About(v) = About(state)
      /\ v.agent.nextTurn = state.agent.nextTurn /\ v.agent.prompt = state.agent.prompt
  <2>1. CASE v = state
    BY <1>2, <2>1
  <2>2. CASE v = RestoreOthers(state)
    <3>1. /\ v \in States /\ v.goal = state.goal /\ v.drv = state.drv /\ About(v) = About(state)
          /\ v.agent = [state.agent EXCEPT !.nextStep = state.agent.batch \cup @]
      BY <1>2, <2>2, RestoreEffect
    <3> HIDE DEF v
    <3> QED BY <3>1, <1>2 DEF States, Agents
  <2> QED BY <2>1, <2>2
<1> HIDE DEF v
<1>4. Traced(v) /\ Able(v)
  BY <1>2, <1>3 DEF Traced, Ordered, Able, Room, Free
<1>5. Plain(state, v)
  BY <1>2, <1>3 DEF Plain, Passive
<1> QED BY <1>1, <1>3, <1>4, <1>5, SameGoes, EndsYield

LEMMA HooksRejectYields ==
  ASSUME HInv, IInv', HooksReject
  PROVE  HInv' /\ Yielded
<1> DEFINE u == [state EXCEPT !.drv.attempt = NoAttempt]
           v == Vetoed(state)
           halt == IF Blocks(state) THEN "stop" ELSE "no"
<1>1. Step(EndTurn(v, "blocked"), halt) /\ agent.pc = "hooks"
  BY DEF HooksReject
<1>2. state \in States /\ Traced(state) /\ Able(state) /\ state.goal = goal /\ state.drv = drv
      /\ state.agent = agent /\ ~goal.failed
  BY <1>1, Before DEF HInv
<1>3. /\ v \in States /\ Able(v) /\ Traced(v) /\ Goes(goal, v.goal) /\ v.drv.fiber = drv.fiber
      /\ Blocks(state) => ~Continuing(v.goal)
  BY <1>2, VetoedEffect
<1>4. /\ u \in States /\ Traced(u) /\ u.goal = goal /\ u.agent = agent
      /\ u.drv.fiber = drv.fiber /\ u.drv.run = drv.run /\ u.drv.loops = drv.loops
      /\ u.drv.attempt = NoAttempt
  BY <1>2, ForgetEffect
<1>5. u.drv.checkpoint = drv.checkpoint
  BY <1>2 DEF States, Drivers
<1>6. v = IF ~Fenced(state) THEN state ELSE IF Blocks(state) THEN Commit(u, "blocked", FALSE) ELSE u
  BY DEF Vetoed
<1> HIDE DEF u, v, halt
<1>7. Plain(state, u)
  BY <1>2, <1>4 DEF Plain, Passive, About, NoAttempt
<1>8. CASE ~Fenced(state)
  BY <1>1, <1>2, <1>6, <1>8, EndsPlainly
<1>9. CASE Blocks(state)
  <2>1. v = Commit(u, "blocked", FALSE)
    BY <1>6, <1>9 DEF Blocks
  <2>2. Able(u)
    BY <1>2, <1>4 DEF Able, Room, Free
  <2>3. Committed(u, v, "blocked")
    BY <1>4, <2>1, <2>2, AbleStarts, CommitEffect
  <2>4. Plain(u, v)
    BY <2>3 DEF Committed, Plain, Passive, About
  <2>5. Plain(state, v) /\ Barren(v)
    BY <1>3, <1>7, <1>9, <2>4, PlainFirst DEF Barren
  <2> QED BY <1>1, <1>3, <2>5, EndsYield
<1>10. CASE Fenced(state) /\ ~Blocks(state)
  <2>1. v = u
    BY <1>6, <1>10
  <2>2. Owes(state)
    BY <1>2 DEF HInv, Yields
  <2>3. Barren(u)
    <3>1. agent.prompt.from = "goal"
      BY <1>2, <1>10 DEF Fenced
    <3>2. OwnsGoal([msg |-> agent.prompt], goal) => ~Continuing(goal)
      BY <1>2, <1>10 DEF Blocks
    <3>3. drv.fiber = "active" /\ ~OwnsGoal([msg |-> agent.prompt], goal) => drv.checkpoint
      BY <1>1, <1>2, <2>2, <3>1 DEF Owes
    <3> QED BY <1>4, <1>5, <3>2, <3>3 DEF Barren
  <2> QED BY <1>1, <1>3, <1>7, <2>1, <2>3, EndsYield
<1> QED BY <1>8, <1>9, <1>10 DEF Blocks

LEMMA HooksThrowYields ==
  ASSUME HInv, IInv', HooksThrow
  PROVE  HInv' /\ Yielded
<1> DEFINE u == [state EXCEPT !.drv.attempt = NoAttempt]
           v == IF Fenced(state) THEN RequestDrive(u) ELSE state
<1>1. Step(EndTurn(v, "error"), "stop") /\ agent.pc = "hooks"
  BY DEF HooksThrow
<1>2. state \in States /\ Traced(state) /\ Able(state) /\ state.goal = goal /\ state.drv = drv
      /\ state.agent = agent
  BY <1>1, Before DEF HInv
<1>3. /\ u \in States /\ Traced(u) /\ u.goal = goal /\ u.agent = agent
      /\ u.drv.fiber = drv.fiber /\ u.drv.run = drv.run /\ u.drv.loops = drv.loops
      /\ u.drv.attempt = NoAttempt
  BY <1>2, ForgetEffect
<1> HIDE DEF u
<1>4. Able(u) /\ Running(u) /\ ~Ready(u)
  BY <1>1, <1>2, <1>3 DEF Able, Room, Free, Running, RunningPCs, Ready
<1>5. CASE Fenced(state)
  <2>1. v = RequestDrive(u)
    BY <1>5
  <2> HIDE DEF v
  <2>2. v \in States /\ Able(v) /\ Traced(v) /\ Looped(u, v)
    BY <1>3, <1>4, <2>1, RedriveEffect
  <2>3. u.drv.fiber = "active" => v.drv.run # 0
    BY <1>3, <1>4, <2>1, RequestDriveEffect
  <2>4. Barren(v) /\ v.goal = goal
    BY <1>3, <2>2, <2>3 DEF Barren, Looped
  <2>5. Plain(state, u)
    BY <1>2, <1>3 DEF Plain, Passive, About, NoAttempt
  <2>6. Plain(state, v)
    BY <2>2, <2>5, LoopedMoves, PlainFirst
  <2> QED BY <1>1, <2>2, <2>4, <2>6, SameGoes, EndsYield
<1>6. CASE ~Fenced(state)
  BY <1>1, <1>6, EndsPlainly
<1> QED BY <1>5, <1>6

LEMMA HooksBeginYields ==
  ASSUME HInv, IInv', HooksBegin
  PROVE  HInv' /\ Yielded
<1> DEFINE s == [state EXCEPT !.agent.pc = "hooks"]
<1>1. Step(s, "no") /\ (Fenced(state) => Valid(state))
  BY DEF HooksBegin
<1>2. state \in States /\ state.goal = goal /\ state.drv = drv /\ state.agent = agent /\ goal.rounds \in Nat
  BY <1>1, Before DEF HInv
<1>3. /\ s \in States /\ s.goal = goal /\ s.drv = drv /\ s.agent.pc = "hooks"
      /\ s.agent.nextTurn = agent.nextTurn /\ s.agent.prompt = agent.prompt
  BY <1>2 DEF States, Agents, RunningPCs
<1> HIDE DEF s
<1>4. Moves(state, s)
  BY <1>2, <1>3 DEF Moves, Passive, About
<1>5. Owes(s)
  <2>1. SUFFICES ASSUME drv.fiber = "active", agent.prompt.from = "goal"
                 PROVE  OwnsGoal([msg |-> agent.prompt], goal)
    BY <1>3 DEF Owes
  <2>2. IsNext(agent.prompt, goal)
    BY <1>1, <1>2, <2>1 DEF Fenced, Valid
  <2>3. Round(goal, 0) \in Messages /\ agent.prompt \in Messages
    BY <1>2, StateTypes, MsgTypes
  <2>4. agent.prompt.id = Round(goal, 0).id /\ agent.prompt.rev = Round(goal, 0).rev
    BY <2>2, <2>3, RoundFields DEF IsNext
  <2> QED BY <2>4 DEF OwnsGoal, Round
<1> QED BY <1>1, <1>2, <1>3, <1>4, <1>5, Yielding

(* A step that leaves the turn where it is.                                  *)
LEMMA StaysYields ==
  ASSUME HInv, IInv', NEW s \in States, NEW halt, Step(s, halt), Plain(state, s),
         s.agent.pc = agent.pc, s.agent.prompt = agent.prompt,
         drv.fiber = "closed" => s.drv.fiber = "closed", s.drv.fiber = "active" => drv.fiber = "active",
         agent.pc = "hooks" /\ s.drv.fiber = "active" =>
           \/ s.drv.checkpoint
           \/ s.goal.id = goal.id /\ s.goal.rev = goal.rev /\ s.drv.checkpoint = drv.checkpoint,
         s.goal.id # goal.id \/ s.goal.rounds # goal.rounds + 1
  PROVE  HInv' /\ Yielded
<1>1. state.goal = goal /\ state.drv = drv /\ state.agent = agent /\ ~goal.failed
  BY Before DEF HInv
<1>2. Owes(state)
  BY <1>1 DEF HInv, Yields
<1>3. Owes(s)
  BY <1>1, <1>2 DEF Owes, OwnsGoal
<1> QED BY <1>3, Yielding DEF Moves, Plain

LEMMA StepClaimsYields ==
  ASSUME HInv, IInv', StepClaims
  PROVE  HInv' /\ Yielded
<1> DEFINE s == [state EXCEPT !.agent.nextStep = {}]
<1>1. Step(s, "no") /\ agent.pc = "step"
  BY DEF StepClaims
<1>2. state \in States /\ state.goal = goal /\ state.drv = drv /\ state.agent = agent /\ goal.rounds \in Nat
  BY <1>1, Before DEF HInv
<1>3. /\ s \in States /\ s.goal = goal /\ s.drv = drv /\ s.agent.pc = "step"
      /\ s.agent.nextTurn = agent.nextTurn /\ s.agent.prompt = agent.prompt
  BY <1>1, <1>2 DEF States, Agents
<1> HIDE DEF s
<1>4. Plain(state, s)
  BY <1>2, <1>3 DEF Plain, Passive, About
<1> QED BY <1>1, <1>2, <1>3, <1>4, StaysYields

LEMMA EnterYields ==
  ASSUME HInv, IInv', Step(Enter(state), "no"), agent.pc \in {"hooks", "outer"},
         agent.pc = "hooks" => (Fenced(state) => Valid(state))
  PROVE  HInv' /\ Yielded
<1> DEFINE m == agent.prompt
           u == [state EXCEPT !.agent.pc = "step", !.agent.batch = {}]
           f == [u EXCEPT !.goal.failed = TRUE]
           e == [u EXCEPT !.goal.rounds = m.round,
                          !.drv.attempt.phase = IF drv.attempt.msg = m THEN "admitted" ELSE @]
           s == Enter(state)
<1>1. /\ state \in States /\ state.goal = goal /\ state.drv = drv /\ state.agent = agent
      /\ ~goal.failed /\ goal.rounds \in Nat
  BY Before DEF HInv
<1>2. CASE m = NoMsg /\ agent.batch = {}
  <2>1. s = EndTurn(state, "blocked")
    BY <1>1, <1>2 DEF Enter
  <2> QED BY <2>1, EndsPlainly
<1>3. /\ u \in States /\ u.goal = goal /\ u.drv = drv /\ u.agent.pc = "step"
      /\ u.agent.prompt = m /\ u.agent.nextTurn = agent.nextTurn
  BY <1>1 DEF States, Agents, RunningPCs
<1>4. Plain(state, u)
  BY <1>1, <1>3 DEF Plain, Passive, About
<1>5. CASE ~(m = NoMsg /\ agent.batch = {}) /\ m.from # "goal"
  <2>1. s = u
    BY <1>1, <1>5 DEF Enter
  <2> HIDE DEF s, u
  <2> QED BY <1>3, <1>4, <2>1, SameGoes, LeftYields DEF Moves, Plain, s
<1>6. CASE m.from = "goal" /\ Admissible(goal, m)
  <2>1. s = e
    BY <1>1, <1>6 DEF Enter, NoMsg
  <2>2. m.round \in Nat
    BY <1>1, StateTypes DEF Messages
  <2>3. /\ e \in States /\ e.agent = u.agent /\ e.drv.fiber = drv.fiber
        /\ e.drv.attempt.msg = drv.attempt.msg /\ e.drv.attempt.stale = drv.attempt.stale
        /\ \/ drv.attempt.msg = m /\ e.drv.attempt.phase = "admitted"
           \/ e.drv.attempt.phase = drv.attempt.phase
    BY <1>3, <2>2 DEF States, Goals, Drivers, Attempts
  <2> HIDE DEF e, u, s
  <2>4. SameRound(m, m)
    BY <1>6 DEF SameRound
  <2>5. Moves(state, e)
    BY <1>1, <1>3, <2>3, <2>4 DEF Moves, Passive, About
  <2>6. Owes(e)
    BY <1>3, <2>3 DEF Owes
  <2>7. drv.fiber # "closed" => agent.pc = "outer" \/ Valid(state)
    BY <1>1, <1>6 DEF Fenced
  <2> QED BY <1>3, <1>6, <2>1, <2>3, <2>5, <2>6, <2>7, Yielding DEF s
<1>7. CASE m.from = "goal" /\ ~Admissible(goal, m)
  <2>1. s = f
    BY <1>1, <1>7 DEF Enter, NoMsg
  <2>2. /\ f \in States /\ f.agent = u.agent /\ f.drv = drv /\ f.goal.rounds = goal.rounds /\ f.goal.failed
    BY <1>3 DEF States, Goals
  <2> HIDE DEF f, u, s
  <2>3. Moves(state, f)
    BY <1>1, <1>3, <2>2 DEF Moves, Passive, About
  <2>4. f.goal.rounds # goal.rounds + 1
    BY <1>1, <2>2
  <2> QED BY <1>3, <2>1, <2>2, <2>3, <2>4, Yielding DEF s
<1> QED BY <1>2, <1>5, <1>6, <1>7

LEMMA HooksEnterYields ==
  ASSUME HInv, IInv', HooksEnter
  PROVE  HInv' /\ Yielded
<1> DEFINE s == [state EXCEPT !.agent.pc = "outer"]
<1>1. /\ agent.pc = "hooks" /\ (Fenced(state) => Valid(state))
      /\ Step(IF OuterAwaits THEN s ELSE Enter(state), "no")
  BY DEF HooksEnter
<1>2. CASE ~OuterAwaits
  BY <1>1, <1>2, EnterYields
<1>3. CASE OuterAwaits
  <2>1. Step(s, "no")
    BY <1>1, <1>3
  <2>2. state \in States /\ state.goal = goal /\ state.drv = drv /\ state.agent = agent /\ goal.rounds \in Nat
    BY <2>1, Before DEF HInv
  <2>3. /\ s \in States /\ s.goal = goal /\ s.drv = drv /\ s.agent.pc = "outer"
        /\ s.agent.nextTurn = agent.nextTurn /\ s.agent.prompt = agent.prompt
    BY <2>2 DEF States, Agents, RunningPCs
  <2> HIDE DEF s
  <2>4. Moves(state, s)
    BY <2>2, <2>3 DEF Moves, Passive, About
  <2>5. Owes(s)
    BY <2>3 DEF Owes
  <2> QED BY <1>1, <2>1, <2>2, <2>3, <2>4, <2>5, Yielding
<1> QED BY <1>2, <1>3

-----------------------------------------------------------------------------
(* The loops of the driver, maintenance, the process and the plugin.         *)

LEMMA DrivesYield ==
  ASSUME HInv, IInv', NEW s \in States, Step(s, "no"), Continued(state, s),
         ~Ready(state) => s.drv.checkpoint = drv.checkpoint
  PROVE  HInv' /\ Yielded
<1>1. /\ state \in States /\ state.goal = goal /\ state.drv = drv /\ state.agent = agent /\ goal.rounds \in Nat
  BY Before DEF HInv
<1>2. Goes(goal, s.goal) /\ s.drv.fiber = drv.fiber
  BY <1>1, ContinuedGoes
<1>3. CASE Ready(state)
  <2>1. Moves(state, s)
    BY <1>1, ContinuedMoves DEF Moves, Plain
  <2>2. s.agent.pc \in {"idle", "maintenance", "assemble"}
    BY <1>1, <1>3, ContinuedGoes DEF Ready
  <2> QED BY <1>2, <2>1, <2>2, LeftYields
<1>4. CASE ~Ready(state)
  <2>1. Looped(state, s)
    BY <1>1, <1>4, ContinuedGoes
  <2>2. Plain(state, s)
    BY <2>1, LoopedMoves
  <2> QED BY <1>1, <1>2, <1>4, <2>1, <2>2, StaysYields DEF Looped
<1> QED BY <1>3, <1>4

LEMMA FlushedYields ==
  ASSUME HInv, IInv', NEW i \in Loops, Flushed(i)
  PROVE  HInv' /\ Yielded
<1> DEFINE u == [state EXCEPT !.drv.loops[i] = "turn"]
           s == IF Ready(u) /\ ~drv.checkpoint THEN Continue(u) ELSE u
<1>1. Step(s, "no")
  BY DEF Flushed
<1>2. state \in States /\ Room(state) /\ state.drv = drv
  BY <1>1, Before DEF HInv
<1>3. /\ u \in States /\ Looped(state, u) /\ u.drv.loops = [state.drv.loops EXCEPT ![i] = "turn"]
      /\ u.drv.checkpoint = drv.checkpoint
  BY <1>2 DEF States, Drivers, Looped
<1> HIDE DEF u
<1>4. CanStart(u)
  <2>1. \A j \in Free(state) \ {i} : j \in Free(u)
    BY <1>2, <1>3 DEF Free, States, Drivers
  <2> QED BY <1>2, <2>1 DEF Room, CanStart
<1>5. CASE Ready(u) /\ ~drv.checkpoint
  <2>1. s \in States /\ Continued(u, s)
    BY <1>3, <1>4, <1>5, ContinueEffect
  <2>2. Ready(state)
    BY <1>3, <1>5, ReadySame
  <2> HIDE DEF s
  <2>3. Continued(state, s)
    BY <1>3, <2>1, LoopedFirst
  <2> QED BY <1>1, <2>1, <2>2, <2>3, DrivesYield
<1>6. CASE ~(Ready(u) /\ ~drv.checkpoint)
  <2>1. s = u
    BY <1>6
  <2> QED BY <1>1, <1>3, <2>1, DrivesYield DEF Continued
<1> QED BY <1>5, <1>6

LEMMA LoopTurnsYields ==
  ASSUME HInv, IInv', NEW i \in Loops, LoopTurns(i)
  PROVE  HInv' /\ Yielded
<1> DEFINE u == [state EXCEPT !.drv.requested = FALSE]
           v == [state EXCEPT !.drv.loops[i] = "none", !.drv.run = 0]
           s == IF drv.requested /\ drv.fiber = "active" THEN Drive(u, i) ELSE v
<1>1. Step(s, "no")
  BY DEF LoopTurns
<1>2. state \in States /\ Room(state) /\ state.drv = drv
  BY <1>1, Before DEF HInv
<1>3. CASE drv.requested /\ drv.fiber = "active"
  <2>1. u \in States /\ Looped(state, u) /\ u.drv.loops = state.drv.loops /\ u.drv.checkpoint = drv.checkpoint
    BY <1>2 DEF States, Drivers, Looped
  <2>2. s = Drive(u, i)
    BY <1>3
  <2> HIDE DEF u, s
  <2>3. Free(u) \ {i} # {}
    BY <1>2, <2>1 DEF Room, Free
  <2>4. s \in States /\ Continued(u, s) /\ (~Ready(u) => s.drv.checkpoint = u.drv.checkpoint)
    BY <2>1, <2>2, <2>3, DriveEffect
  <2>5. Continued(state, s) /\ Ready(u) = Ready(state)
    BY <2>1, <2>4, LoopedFirst, ReadySame
  <2> QED BY <1>1, <2>1, <2>4, <2>5, DrivesYield
<1>4. CASE ~(drv.requested /\ drv.fiber = "active")
  <2>1. v \in States /\ Looped(state, v) /\ v.drv.checkpoint = drv.checkpoint
    <3>1. 0 \in 0 .. MaxLoops
      BY BoundsAssumption
    <3> QED BY <1>2, <3>1 DEF States, Drivers, Looped
  <2>2. s = v
    BY <1>4
  <2> HIDE DEF v, s
  <2>3. Continued(state, s)
    BY <2>1, <2>2 DEF Continued
  <2> QED BY <1>1, <2>1, <2>2, <2>3, DrivesYield
<1> QED BY <1>3, <1>4

LEMMA CancelledMoves ==
  ASSUME NEW s \in States, NEW keepInbox \in BOOLEAN
  PROVE  Plain(s, Cancelled(s, keepInbox))
<1> DEFINE t == Cancelled(s, keepInbox)
<1>1. /\ t.agent.prompt = s.agent.prompt /\ t.drv.attempt.phase = s.drv.attempt.phase
      /\ t.drv.attempt.msg = s.drv.attempt.msg
  BY CancelledEffect
<1>2. t.agent.nextTurn \in {s.agent.nextTurn, <<>>} /\ t.drv.attempt.stale = s.drv.attempt.stale
  BY DEF Cancelled, States, Agents, Drivers, Attempts
<1> HIDE DEF t
<1>3. Plain(s, t)
  BY <1>1, <1>2, EmptyQueue DEF Plain, Passive, About
<1> QED BY <1>3 DEF t

LEMMA FlushFailsYields ==
  ASSUME HInv, IInv', NEW i \in Loops, FlushFails(i)
  PROVE  HInv' /\ Yielded
<1> DEFINE s == Disarmed([state EXCEPT !.drv.loops[i] = "turn"])
           halt == IF agent.pc = "outer" THEN "late" ELSE "stop"
<1>1. Step(s, halt)
  BY DEF FlushFails
<1>2. state \in States /\ state.goal = goal /\ state.drv = drv /\ state.agent = agent /\ goal.rounds \in Nat
  BY <1>1, Before DEF HInv
<1>3. /\ s \in States /\ s.agent = agent /\ s.drv.fiber = drv.fiber /\ s.drv.attempt = drv.attempt
      /\ s.drv.checkpoint = drv.checkpoint /\ s.goal = [goal EXCEPT !.armed = FALSE]
  BY <1>2 DEF Disarmed, States, Goals, Drivers
<1> HIDE DEF s, halt
<1>4. s.goal.id = goal.id /\ s.goal.rev = goal.rev /\ s.goal.rounds = goal.rounds
  BY <1>2, <1>3 DEF States, Goals
<1>5. Plain(state, s)
  BY <1>2, <1>3 DEF Plain, Passive, About
<1>6. s.goal.rounds # goal.rounds + 1
  BY <1>2, <1>4
<1>7. s \in States /\ s.agent = agent /\ s.drv.fiber = drv.fiber /\ s.drv.checkpoint = drv.checkpoint
  BY <1>3
<1> QED BY <1>1, <1>4, <1>5, <1>6, <1>7, StaysYields

LEMMA StartJobYields ==
  ASSUME HInv, IInv', StartJob
  PROVE  HInv' /\ Yielded
<1> DEFINE s == [state EXCEPT !.agent.pc = "maintenance"]
<1>1. Step(s, "no")
  BY DEF StartJob
<1>2. state \in States /\ state.goal = goal /\ state.drv = drv /\ state.agent = agent
  BY <1>1, Before DEF HInv
<1>3. /\ s \in States /\ s.goal = goal /\ s.drv = drv /\ s.agent.pc = "maintenance"
      /\ s.agent.nextTurn = agent.nextTurn /\ s.agent.prompt = agent.prompt
  BY <1>2 DEF States, Agents
<1> HIDE DEF s
<1>4. Moves(state, s)
  BY <1>2, <1>3 DEF Moves, Passive, About
<1> QED BY <1>1, <1>3, <1>4, SameGoes, LeftYields

LEMMA JobEndsYields ==
  ASSUME HInv, IInv', JobEnds
  PROVE  HInv' /\ Yielded
<1> DEFINE u == [state EXCEPT !.agent.pc = "idle", !.agent.aborted = FALSE, !.agent.wake = FALSE]
           s == IF agent.wake /\ Pending(u) THEN OpenTurn(u) ELSE u
<1>1. Step(s, "no")
  BY DEF JobEnds
<1>2. state \in States /\ state.goal = goal /\ state.drv = drv /\ state.agent = agent
  BY <1>1, Before DEF HInv
<1>3. /\ u \in States /\ u.goal = goal /\ u.drv = drv /\ u.agent.pc = "idle"
      /\ u.agent.nextTurn = agent.nextTurn /\ u.agent.prompt = agent.prompt
  BY <1>2 DEF States, Agents
<1> HIDE DEF u
<1>4. Plain(state, u)
  BY <1>2, <1>3 DEF Plain, Passive, About
<1>5. CASE agent.wake /\ Pending(u)
  <2>1. s = OpenTurn(u)
    BY <1>5
  <2> HIDE DEF s
  <2>2. s \in States /\ Opened(u, s)
    BY <1>3, <2>1, OpenTurnEffect
  <2>3. Moves(state, s)
    BY <1>3, <1>4, <2>2, OpenedMoves, PlainFirst DEF Moves
  <2>4. s.goal = goal /\ s.agent.pc = "assemble"
    BY <1>3, <2>2 DEF Opened
  <2> QED BY <1>1, <2>2, <2>3, <2>4, SameGoes, LeftYields
<1>6. CASE ~(agent.wake /\ Pending(u))
  BY <1>1, <1>3, <1>4, <1>6, SameGoes, LeftYields DEF Moves, Plain
<1> QED BY <1>5, <1>6

LEMMA RestartYields ==
  ASSUME HInv, IInv', Restart
  PROVE  HInv' /\ Yielded
<1> DEFINE d == [fiber |-> "active", attempt |-> NoAttempt, competing |-> FALSE,
                 checkpoint |-> FALSE, requested |-> FALSE, run |-> 0,
                 loops |-> [i \in Loops |-> "none"],
                 waits |-> [idle |-> FALSE, run |-> 0]]
           a == [agent EXCEPT !.pc = "idle", !.prompt = NoMsg, !.batch = {},
                              !.aborted = FALSE, !.wake = FALSE]
           s == [state EXCEPT !.goal.armed = FALSE, !.agent = a, !.drv = d]
<1>1. Step(s, "stop")
  BY DEF Restart, state
<1>2. state \in States /\ state.goal = goal /\ state.drv = drv /\ state.agent = agent
  BY <1>1, Before DEF HInv
<1>3. s \in States
  <2>1. d \in Drivers
    <3>1. 0 \in 0 .. MaxLoops
      BY BoundsAssumption
    <3> QED BY <3>1, MsgTypes DEF Drivers
  <2>2. a \in Agents
    BY <1>2, MsgTypes DEF States, Agents
  <2> HIDE DEF d, a
  <2> QED BY <1>2, <2>1, <2>2 DEF States, Goals
<1>4. /\ s.agent.pc = "idle" /\ s.agent.prompt = NoMsg /\ s.agent.nextTurn = agent.nextTurn
      /\ s.drv.attempt.msg = NoMsg
      /\ s.goal.id = goal.id /\ s.goal.rounds = goal.rounds /\ s.goal.failed = goal.failed /\ ~s.goal.armed
  BY <1>2 DEF States, Goals, Agents, NoAttempt
<1> HIDE DEF s
<1>5. Moves(state, s)
  BY <1>2, <1>4 DEF Moves, Passive, About, NoMsg
<1>6. Goes(goal, s.goal)
  BY <1>4 DEF Goes, Continuing
<1> QED BY <1>1, <1>3, <1>4, <1>5, <1>6, LeftYields

LEMMA UnloadYields ==
  ASSUME HInv, IInv', Unload
  PROVE  HInv' /\ Yielded
<1> DEFINE st == drv.attempt.phase # "none"
           w == [idle |-> drv.attempt.phase # "none" /\ Running(state), run |-> drv.run]
           u == [Disarmed(state) EXCEPT !.drv.fiber = "closing", !.drv.attempt.stale = st, !.drv.waits = w]
           s == IF u.drv.waits.idle THEN Cancelled(u, FALSE) ELSE u
<1>1. drv.fiber = "active" /\ Step(s, "stop")
  BY DEF Unload
<1>2. /\ state \in States /\ Traced(state) /\ state.goal = goal /\ state.drv = drv /\ state.agent = agent
      /\ goal.rounds \in Nat
  BY <1>1, Before DEF HInv
<1>3. st \in BOOLEAN /\ w \in [idle : BOOLEAN, run : 0 .. MaxLoops]
  BY <1>2 DEF States, Drivers, Running
<1>4. st <=> drv.attempt.phase # "none"
  OBVIOUS
<1> HIDE DEF st, w
<1>5. /\ u \in States /\ u.agent = agent /\ u.drv.fiber = "closing" /\ u.drv.attempt.stale = st
      /\ u.drv.attempt.phase = drv.attempt.phase /\ u.drv.attempt.msg = drv.attempt.msg
      /\ u.goal = [goal EXCEPT !.armed = FALSE]
  BY <1>2, <1>3 DEF Disarmed, States, Goals, Drivers, Attempts
<1> HIDE DEF u
<1>6. Plain(state, u)
  <2>1. drv.attempt.phase = "none" => drv.attempt.msg = NoMsg
    BY <1>2 DEF Traced, Ordered
  <2> QED BY <1>2, <1>4, <1>5, <2>1 DEF Plain, Passive, About
<1>7. /\ s \in States /\ s.goal = u.goal /\ s.drv.fiber = "closing"
      /\ s.agent.pc = agent.pc /\ s.agent.prompt = agent.prompt /\ Plain(u, s)
  BY <1>5, CancelledEffect, CancelledMoves, PlainSame
<1> HIDE DEF s
<1>8. Plain(state, s)
  BY <1>6, <1>7, PlainFirst
<1>9. s.goal.rounds = goal.rounds
  BY <1>2, <1>5, <1>7 DEF States, Goals
<1> QED BY <1>1, <1>2, <1>7, <1>8, <1>9, StaysYields

LEMMA UnloadedYields ==
  ASSUME HInv, IInv', Unloaded
  PROVE  HInv' /\ Yielded
<1> DEFINE s == [state EXCEPT !.drv.fiber = "closed", !.drv.attempt = NoAttempt, !.drv.run = 0]
<1>1. Step(s, "no")
  BY DEF Unloaded
<1>2. state \in States /\ state.goal = goal /\ state.drv = drv /\ state.agent = agent /\ goal.rounds \in Nat
  BY <1>1, Before DEF HInv
<1>3. s \in States /\ s.goal = goal /\ s.agent = agent /\ s.drv.attempt = NoAttempt /\ s.drv.fiber = "closed"
  <2>1. 0 \in 0 .. MaxLoops
    BY BoundsAssumption
  <2> QED BY <1>2, <2>1, MsgTypes DEF States, Drivers
<1> HIDE DEF s
<1>4. Plain(state, s)
  BY <1>2, <1>3 DEF Plain, Passive, About, NoAttempt
<1> QED BY <1>1, <1>2, <1>3, <1>4, StaysYields

-----------------------------------------------------------------------------
(* People.                                                                   *)

LEMMA InjectYields ==
  ASSUME HInv, IInv', NEW c \in Contexts, Inject(c)
  PROVE  HInv' /\ Yielded
<1> DEFINE n == agent.nextStep \cup {c}
           s == [state EXCEPT !.agent.nextStep = n]
<1>1. Step([state EXCEPT !.agent.nextStep = @ \cup {c}], "no")
  BY DEF Inject
<1>2. state \in States /\ state.goal = goal /\ state.drv = drv /\ state.agent = agent /\ goal.rounds \in Nat
  BY <1>1, Before DEF HInv
<1>3. n \in SUBSET Contexts
  BY <1>2, StateTypes
<1>4. Step(s, "no")
  BY <1>1, <1>2
<1> HIDE DEF n
<1>5. /\ s \in States /\ s.goal = goal /\ s.drv = drv /\ s.agent.pc = agent.pc
      /\ s.agent.nextTurn = agent.nextTurn /\ s.agent.prompt = agent.prompt
  BY <1>2, <1>3 DEF States, Agents
<1> HIDE DEF s
<1>6. Plain(state, s)
  BY <1>2, <1>5 DEF Plain, Passive, About
<1> QED BY <1>2, <1>4, <1>5, <1>6, StaysYields

LEMMA CancelYields ==
  ASSUME HInv, IInv', NEW keepInbox \in BOOLEAN, Cancel(keepInbox)
  PROVE  HInv' /\ Yielded
<1> DEFINE s == Cancelled(state, keepInbox)
           halt == IF Running(state) \/ (s.drv.attempt.cancelled /\ ~drv.attempt.cancelled) THEN "stop" ELSE "no"
<1>1. Step(s, halt)
  BY DEF Cancel
<1>2. state \in States /\ state.goal = goal /\ state.drv = drv /\ state.agent = agent /\ goal.rounds \in Nat
  BY <1>1, Before DEF HInv
<1>3. /\ s \in States /\ s.goal = goal /\ s.agent.pc = agent.pc /\ s.agent.prompt = agent.prompt
      /\ s.drv.fiber = drv.fiber /\ s.drv.checkpoint = drv.checkpoint /\ Plain(state, s)
  BY <1>2, CancelledEffect, CancelledMoves
<1> HIDE DEF s, halt
<1> QED BY <1>1, <1>2, <1>3, StaysYields

LEMMA MutateYields ==
  ASSUME HInv, IInv', NEW op \in Operations, NEW cap \in Caps \cup {goal.cap}, NEW host \in BOOLEAN,
         Mutate(op, cap, host)
  PROVE  HInv' /\ Yielded
<1> DEFINE g == Revised(op, cap)
           u == [state EXCEPT !.goal = g]
           t == IF op = "pause" /\ host /\ Running(u) /\ drv.fiber # "closed"
                THEN Cancelled(u, TRUE) ELSE u
           s == Changed(t)
           halt == IF op \in {"create", "edit", "resume"} THEN "go" ELSE "stop"
<1>1. Allowed(op) /\ Step(s, halt)
  BY DEF Mutate
<1>2. /\ TypeOK /\ state \in States /\ state.goal = goal /\ state.drv = drv /\ state.agent = agent
      /\ goal.rounds \in Nat /\ Able(state)
  BY <1>1, Before DEF HInv
<1>3. /\ g \in Goals
      /\ \/ g.id = goal.id + 1
         \/ g.id = goal.id /\ g.rounds \in {goal.rounds, 0}
  BY <1>1, <1>2, RevisedOK
<1> HIDE DEF g
<1>4. u \in States /\ u.goal = g /\ u.drv = drv /\ u.agent = agent
  BY <1>2, <1>3 DEF States
<1> HIDE DEF u
<1>5. Plain(state, u) /\ Able(u)
  BY <1>2, <1>4 DEF Plain, Passive, About, Able, Room, Free
<1>6. /\ t \in States /\ t.goal = g /\ Able(t) /\ Plain(u, t)
      /\ t.agent.pc = agent.pc /\ t.agent.prompt = agent.prompt /\ t.drv.fiber = drv.fiber
  <2>1. CASE t = u
    BY <1>4, <1>5, <2>1, PlainSame
  <2>2. CASE t = Cancelled(u, TRUE)
    <3> HIDE DEF t
    <3>1. /\ t \in States /\ t.goal = u.goal
          /\ t.agent.pc = u.agent.pc /\ t.agent.prompt = u.agent.prompt
          /\ t.drv.fiber = u.drv.fiber /\ t.drv.run = u.drv.run /\ t.drv.loops = u.drv.loops
          /\ Plain(u, t)
      BY <1>4, <2>2, CancelledEffect, CancelledMoves
    <3> QED BY <1>4, <1>5, <3>1 DEF Able, Room, Free
  <2> QED BY <2>1, <2>2
<1> HIDE DEF t
<1>7. /\ s \in States /\ Looped(t, s)
      /\ t.drv.fiber = "active" => (~Ready(t) => s.drv.checkpoint)
  BY <1>6, AbleStarts, ChangedEffect
<1> HIDE DEF s, halt
<1>8. Plain(state, s)
  BY <1>5, <1>6, <1>7, LoopedMoves, PlainFirst
<1>9. /\ s.goal = g /\ s.agent.pc = agent.pc /\ s.agent.prompt = agent.prompt /\ s.drv.fiber = drv.fiber
      /\ agent.pc = "hooks" /\ s.drv.fiber = "active" => s.drv.checkpoint
  BY <1>6, <1>7 DEF Looped, Ready
<1>10. g.id # goal.id \/ g.rounds # goal.rounds + 1
  BY <1>2, <1>3 DEF States, Goals
<1> QED BY <1>1, <1>7, <1>8, <1>9, <1>10, StaysYields

(* A prompt comes over every round in the inbox, the attempt's among them.   *)
LEMMA SubmitYields ==
  ASSUME HInv, IInv', Submit
  PROVE  HInv' /\ Yielded
<1> DEFINE m == Prompt(used.sends + 1)
           u == Insert(state, m)
           s == WakeDriver(u)
           x == {y \in ToSet(agent.nextTurn) : y.from = "goal"}
<1>1. ~goal.failed /\ Become(s) /\ audit' = [audit EXCEPT !.overtaken = @ \cup x]
  BY DEF Submit
<1>2. TypeOK /\ Control(state, audit) /\ Yields(state, audit) /\ audit \in Audits /\ audit' \in Audits
      /\ goal.rounds \in Nat
  BY <1>1 DEF HInv, IInv, TypeOK, Goals
<1>3. state \in States /\ state.goal = goal /\ state.drv = drv /\ state.agent = agent
  BY <1>2, StateOK
<1>4. m \in Messages /\ m.from = "human"
  <2>1. used.sends + 1 \in Nat
    BY <1>2 DEF TypeOK, Budgets
  <2> QED BY <2>1, MsgTypes DEF Prompt, NoMsg
<1> HIDE DEF m
<1>5. Kept(state) /\ Traced(state)
  BY <1>2 DEF Control, Kept
<1>6. /\ s \in States /\ Traced(s) /\ s.goal = goal /\ s.drv.fiber = drv.fiber
      /\ \/ agent.pc = "idle" /\ s.agent.pc = "assemble"
         \/ s.agent.pc = agent.pc /\ s.agent.prompt = agent.prompt
  BY <1>3, <1>4, <1>5, PromptEffect DEF Kept
<1>7. state' = s /\ goal' = goal
  BY <1>1, <1>6, Became
<1>8. audit'.twins = audit.twins /\ audit'.overtaken = audit.overtaken \cup x
  BY <1>1, <1>2 DEF Audits
(* The insertion: no new round, and a queued attempt turns stale.            *)
<1>9. /\ u \in States /\ u.goal = goal /\ u.drv.fiber = drv.fiber /\ u.drv.checkpoint = drv.checkpoint
      /\ u.agent.prompt = agent.prompt
      /\ ToSet(u.agent.nextTurn) = ToSet(agent.nextTurn) \cup {m}
      /\ u.drv.attempt.msg = drv.attempt.msg /\ u.drv.attempt.phase = drv.attempt.phase
      /\ u.drv.attempt.stale = (drv.attempt.stale \/ drv.attempt.phase = "queued")
  <2> DEFINE q == Append(agent.nextTurn, m)
             st == drv.attempt.stale \/ drv.attempt.phase = "queued"
  <2>1. agent.nextTurn \in Seq(Messages) /\ q \in Seq(Messages) /\ ToSet(q) = ToSet(agent.nextTurn) \cup {m}
    BY <1>3, <1>4, StateTypes, Queued
  <2>2. ~SameRound(m, drv.attempt.msg) /\ st \in BOOLEAN
    BY <1>3, <1>4 DEF SameRound, States, Drivers, Attempts
  <2>3. u = [state EXCEPT !.agent.nextTurn = q, !.drv.competing = TRUE, !.drv.attempt.stale = st]
    BY <1>3, <2>2 DEF Insert
  <2> HIDE DEF q, u
  <2> QED BY <1>3, <2>1, <2>2, <2>3 DEF States, Drivers, Attempts, Agents
<1> HIDE DEF u
<1>10. /\ Passive(u, s)
       /\ s.agent.prompt = agent.prompt => s.drv.checkpoint = drv.checkpoint \/ s.agent.pc = "assemble"
  <2>1. CASE u.agent.pc = "idle"
    <3>1. s = OpenTurn(u)
      BY <2>1 DEF WakeDriver
    <3> HIDE DEF s
    <3> QED BY <1>9, <3>1, OpenTurnEffect, OpenedMoves DEF Opened
  <2>2. CASE u.agent.pc # "idle"
    <3>1. s.drv = u.drv /\ s.agent.nextTurn = u.agent.nextTurn /\ s.agent.prompt = u.agent.prompt
      BY <1>9, <2>2 DEF WakeDriver, States, Agents
    <3> HIDE DEF s
    <3> QED BY <1>9, <3>1 DEF Passive, About
  <2> QED BY <2>1, <2>2
<1> HIDE DEF s
<1>11. Plain(state, u)
  BY <1>3, <1>4, <1>9 DEF Plain, Passive, About
<1>12. Passive(state, s)
  BY <1>10, <1>11, PlainFirst
<1>13. \A y \in About(s) : y.from = "goal" => y \in About(u) /\ y \in About(state)
  BY <1>10, <1>12 DEF Passive
<1>14. ~Twins(s) \/ Twins(state)
  <2>1. ASSUME NEW y \in About(s), NEW z \in About(s), y # z, SameRound(y, z)
        PROVE  Twins(state)
    <3>1. y \in Messages /\ z \in Messages
      BY <1>6, StateTypes
    <3>2. y.from = "goal" /\ z.from = "goal"
      BY <2>1, <3>1, RoundFields
    <3> QED BY <1>3, <1>13, <2>1, <3>2 DEF Twins, About
  <2> QED BY <2>1 DEF Twins, About
<1>15. TwinsTold(s, audit')
  BY <1>2, <1>8, <1>14 DEF Yields, TwinsTold
<1>16. Overruled(s, audit')
  <2> SUFFICES ASSUME ~audit.twins, NEW y \in audit'.overtaken \cap About(s), SameRound(y, s.drv.attempt.msg)
               PROVE  s.drv.attempt.stale
    BY <1>8 DEF Overruled
  <2>1. y \in Messages /\ s.drv.attempt.msg \in Messages /\ drv.attempt.msg \in Messages
    BY <1>3, <1>6, StateTypes
  <2>2. y.from = "goal" /\ y \in About(state)
    BY <1>13, <2>1, RoundFields
  <2>3. s.drv.attempt.msg # NoMsg
    BY <2>1, NoRound
  <2>4. s.drv.attempt.msg = drv.attempt.msg /\ (u.drv.attempt.stale => s.drv.attempt.stale)
    BY <1>9, <1>10, <2>3 DEF Passive
  <2>5. CASE y \in audit.overtaken
    <3>1. drv.attempt.stale
      BY <1>2, <1>3, <2>2, <2>4, <2>5 DEF Yields, Overruled
    <3> QED BY <1>9, <2>4, <3>1
  <2>6. CASE y \in x
    <3>1. Queues(agent.nextTurn, drv.attempt.msg)
      BY <2>4, <2>6 DEF Queues, ToSet
    <3>2. drv.attempt.phase \notin {"claimed", "admitted"}
      BY <1>2, <1>3, <3>1 DEF Yields, Alone
    <3>3. drv.attempt.phase # "none"
      BY <1>3, <1>5, <2>3, <2>4 DEF Traced, Ordered
    <3>4. drv.attempt.phase = "queued"
      BY <1>3, <3>2, <3>3 DEF States, Drivers, Attempts
    <3> QED BY <1>9, <2>4, <3>4
  <2> QED BY <1>8, <2>5, <2>6
<1>17. Alone(s, audit')
  <2>1. audit.twins = (audit.twins \/ Twins(s))
    BY <1>2, <1>14 DEF Yields, TwinsTold, Audits
  <2>2. ~Makes(state, s) \/ s.drv.attempt.msg \notin audit.overtaken
    <3>1. CASE Makes(state, s)
      <4>1. drv.attempt.phase = "none" /\ s.drv.attempt.phase # "none" /\ drv.attempt.msg = NoMsg
        BY <1>3, <1>5, <3>1 DEF Makes, Traced, Ordered
      <4> QED BY <1>3, <1>6, <1>12, <4>1 DEF Passive, Traced, Ordered, NoMsg
    <3> QED BY <3>1
  <2>3. Overruled(state, audit) /\ Alone(state, audit)
    BY <1>2 DEF Yields
  <2>4. Alone(s, audit)
    BY <1>2, <1>3, <1>5, <1>6, <1>12, <2>1, <2>2, <2>3, MovesKeep DEF Moves
  <2> QED BY <1>8, <2>4 DEF Alone
<1>18. OuterYields(s, audit')
  <2> SUFFICES ASSUME ~audit.twins, s.agent.pc = "outer", s.agent.prompt.from = "goal", s.drv.fiber # "closed"
               PROVE  s.agent.prompt \notin audit'.overtaken
    BY <1>8 DEF OuterYields
  <2>1. agent.pc = "outer" /\ s.agent.prompt = agent.prompt /\ drv.fiber # "closed"
    BY <1>6
  <2>2. agent.prompt \notin audit.overtaken
    BY <1>2, <1>3, <2>1 DEF Yields, OuterYields
  <2>3. agent.prompt \notin x
    BY <1>3, <1>5, <2>1 DEF Traced, Ordered, Apart, ToSet
  <2> QED BY <1>8, <2>1, <2>2, <2>3
<1>19. Owes(s)
  BY <1>2, <1>3, <1>6, <1>10 DEF Yields, Owes
<1>20. Yielded
  BY <1>2, <1>7 DEF Yielded, RoundEnters
<1>21. HInv'
  BY <1>7, <1>15, <1>16, <1>17, <1>18, <1>19 DEF HInv, Yields
<1> QED BY <1>20, <1>21

-----------------------------------------------------------------------------
LEMMA NextYields ==
  ASSUME HInv, [Next]_vars
  PROVE  HInv' /\ Yielded
<1>1. IInv'
  BY NextStep DEF HInv
<1>2. CASE Turn
  <2>1. CASE AssembleAborts \/ OuterAborts \/ StepAborts
    BY <1>1, <2>1, EndsPlainly DEF AssembleAborts, OuterAborts, StepAborts, Aborts
  <2>2. CASE FenceRejects
    <3>1. Running(state)
      BY <2>2 DEF FenceRejects, Running, RunningPCs, state
    <3> QED BY <1>1, <2>2, <3>1, FenceYields DEF FenceRejects
  <2>3. CASE FenceRechecks
    <3>1. Running(state)
      BY <2>3 DEF FenceRechecks, Running, RunningPCs, state
    <3> QED BY <1>1, <2>3, <3>1, FenceYields DEF FenceRechecks
  <2>4. CASE HooksBegin
    BY <1>1, <2>4, HooksBeginYields
  <2>5. CASE \E entering \in BOOLEAN : HooksAbort(entering)
    BY <1>1, <2>5, HooksAbortYields
  <2>6. CASE HooksEnter
    BY <1>1, <2>6, HooksEnterYields
  <2>7. CASE OuterEnters
    BY <1>1, <2>7, EnterYields DEF OuterEnters
  <2>8. CASE StepClaims
    BY <1>1, <2>8, StepClaimsYields
  <2>9. CASE TurnCompletes
    BY <1>1, <2>9, EndsPlainly DEF TurnCompletes
  <2> QED BY <1>2, <2>1, <2>2, <2>3, <2>4, <2>5, <2>6, <2>7, <2>8, <2>9 DEF Turn
<1>3. CASE Faults
  <2>1. CASE AssembleFails
    BY <1>1, <2>1, EndsPlainly DEF AssembleFails
  <2>2. CASE HooksReject
    BY <1>1, <2>2, HooksRejectYields
  <2>3. CASE HooksThrow
    BY <1>1, <2>3, HooksThrowYields
  <2>4. CASE \E kind \in {"max-tokens", "error", "blocked"} : TurnFails(kind)
    BY <1>1, <2>4, EndsPlainly DEF TurnFails
  <2>5. CASE \E i \in Loops : FlushFails(i)
    BY <1>1, <2>5, FlushFailsYields
  <2> QED BY <1>3, <2>1, <2>2, <2>3, <2>4, <2>5 DEF Faults
<1>4. CASE Driver
  BY <1>1, <1>4, FlushedYields, LoopTurnsYields DEF Driver
<1>5. CASE People
  <2>1. CASE Submit
    BY <1>1, <2>1, SubmitYields
  <2>2. CASE \E c \in Contexts : Inject(c)
    BY <1>1, <2>2, InjectYields
  <2>3. CASE \E keepInbox \in BOOLEAN : Cancel(keepInbox)
    BY <1>1, <2>3, CancelYields
  <2>4. CASE HostMutates \/ ModelMutates
    <3>1. PICK op \in Operations, cap \in Caps \cup {goal.cap}, host \in BOOLEAN : Mutate(op, cap, host)
      BY <2>4 DEF HostMutates, ModelMutates
    <3> QED BY <1>1, <3>1, MutateYields
  <2> QED BY <1>5, <2>1, <2>2, <2>3, <2>4 DEF People
<1>6. CASE StartJob \/ JobEnds
  BY <1>1, <1>6, StartJobYields, JobEndsYields
<1>7. CASE Restart \/ Unload \/ Unloaded
  BY <1>1, <1>7, RestartYields, UnloadYields, UnloadedYields
<1>8. CASE UNCHANGED vars
  <2>1. goal' = goal /\ audit' = audit /\ state' = state
    BY <1>8 DEF vars, state
  <2>2. HInv'
    BY <1>1, <2>1 DEF HInv
  <2>3. goal.rounds \in Nat
    BY DEF HInv, IInv, TypeOK, Goals
  <2> QED BY <2>1, <2>2, <2>3 DEF Yielded, RoundEnters
<1> QED BY <1>2, <1>3, <1>4, <1>5, <1>6, <1>7, <1>8 DEF Next

(* A round that was queued when a person's prompt came never enters before   *)
(* that prompt is answered: the round goes stale with the insertion, however *)
(* cancels, edits, failures and maintenance fall in between, as long as no   *)
(* drive during maintenance reserves the same round twice.                   *)
THEOREM PeopleGoFirst == Spec => HumanFirst
<1>1. Init => HInv
  <2> SUFFICES ASSUME Init PROVE HInv
    OBVIOUS
  <2>1. state.agent.nextTurn = <<>> /\ state.agent.prompt = NoMsg /\ state.agent.pc = "idle"
        /\ state.drv.attempt = NoAttempt /\ audit.overtaken = {}
    BY DEF Init, state
  <2>2. ~Twins(state)
    BY <2>1, EmptyQueue DEF Twins
  <2>3. Yields(state, audit)
    BY <2>1, <2>2, EmptyQueue DEF Yields, TwinsTold, Overruled, Alone, OuterYields, Owes
  <2> QED BY <2>3, Initially DEF HInv
<1>2. HInv /\ [Next]_vars => HInv' /\ Yielded
  BY NextYields
<1>3. HInv /\ [Next]_vars => [RoundEnters /\ ~audit.twins => agent.prompt \notin audit.overtaken]_vars
  BY <1>2 DEF Yielded
<1> QED BY <1>1, <1>2, <1>3, PTL DEF Spec, HumanFirst

=============================================================================
