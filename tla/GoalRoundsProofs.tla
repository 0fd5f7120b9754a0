-------------------------- MODULE GoalRoundsProofs --------------------------
(* What holds of GoalRounds for every set of contexts and of round caps, any *)
(* budget of prompts, mutations, stops, failures and maintenance tasks, any  *)
(* number of loops, and whether or not a listener awaits outside the fence.  *)
(*                                                                           *)
(* A state `s` is the record of goal, driver and agent that the operators of *)
(* GoalRounds take.  A lemma ..Effect says what one call of the code does,   *)
(* its whole cascade of listeners included; a relation between two states    *)
(* (Looped, Committed, Reserved, Continued, Ended, Rejected) is what such a  *)
(* call may have done.  A lemma ..Step, one for each action, shows that the  *)
(* action keeps the invariant IInv and owes nothing to the properties about  *)
(* steps.                                                                    *)
(*                                                                           *)
(* A stop is final because the goal it leaves armed is one that the end of   *)
(* the aborted turn will pause (Halted), and because a round already past    *)
(* the fence is aborted with it (Barred).  That pause needs the reservation  *)
(* to be of the round that runs, which is what Traced, AtRest and InJob say  *)
(* of queue, turn and attempt.                                               *)
EXTENDS GoalRounds, FiniteSetTheorems, TLAPS

(* The states the cascades work on, and the messages about in one.           *)
States == [goal : Goals, drv : Drivers, agent : Agents]
About(s) == ToSet(s.agent.nextTurn) \cup {s.agent.prompt}

LEMMA MsgTypes ==
  /\ NoMsg \in Messages /\ NoAttempt \in Attempts
  /\ \A n \in Nat : Prompt(n) \in Messages
  /\ \A g \in Goals, k \in Nat : Round(g, k) \in Messages
<1>1. NoMsg \in Messages
  BY DEF NoMsg, Messages
<1>2. NoAttempt \in Attempts
  BY <1>1 DEF NoAttempt, Attempts
<1>3. ASSUME NEW n \in Nat PROVE Prompt(n) \in Messages
  BY DEF Prompt, NoMsg, Messages
<1>4. ASSUME NEW g \in Goals, NEW k \in Nat PROVE Round(g, k) \in Messages
  BY DEF Round, Goals, Messages
<1> QED BY <1>1, <1>2, <1>3, <1>4

(* Only the loops of the driver, and what they remember, change.             *)
Looped(s, t) ==
  /\ t.goal = s.goal /\ t.agent = s.agent
  /\ t.drv.fiber = s.drv.fiber /\ t.drv.attempt = s.drv.attempt
  /\ t.drv.competing = s.drv.competing /\ t.drv.waits = s.drv.waits

(* A turn has been opened with the head of the queue.                        *)
Opened(s, t) ==
  LET q == s.agent.nextTurn
  IN  /\ t.goal = s.goal
      /\ t.drv.fiber = s.drv.fiber /\ t.drv.competing = s.drv.competing /\ t.drv.waits = s.drv.waits
      /\ t.drv.checkpoint = s.drv.checkpoint /\ t.drv.requested = s.drv.requested
      /\ t.drv.run = s.drv.run /\ t.drv.loops = s.drv.loops
      /\ t.drv.attempt.msg = s.drv.attempt.msg
      /\ t.drv.attempt.cancelled = s.drv.attempt.cancelled
      /\ t.drv.attempt.stale = s.drv.attempt.stale
      /\ t.drv.attempt.phase = IF SameRound(t.agent.prompt, s.drv.attempt.msg) THEN "claimed"
                               ELSE s.drv.attempt.phase
      /\ t.agent.pc = "assemble" /\ t.agent.batch = s.agent.nextStep /\ t.agent.nextStep = {}
      /\ ~t.agent.aborted /\ ~t.agent.wake
      /\ \/ q = <<>> /\ t.agent.nextTurn = <<>> /\ t.agent.prompt = NoMsg
         \/ q # <<>> /\ t.agent.nextTurn = Tail(q) /\ t.agent.prompt = Head(q)

LEMMA OpenTurnEffect ==
  ASSUME NEW s \in States
  PROVE  OpenTurn(s) \in States /\ Opened(s, OpenTurn(s))
<1> DEFINE q == s.agent.nextTurn
           p == IF q = <<>> THEN NoMsg ELSE Head(q)
           t == OpenTurn(s)
<1>1. p \in Messages /\ q \in Seq(Messages) /\ (q # <<>> => Tail(q) \in Seq(Messages)) /\ s.agent.nextStep \in SUBSET Contexts
  BY MsgTypes DEF States, Agents
<1>2. t = [s EXCEPT !.agent = [pc |-> "assemble", prompt |-> p, batch |-> s.agent.nextStep,
                           aborted |-> FALSE, wake |-> FALSE, nextStep |-> {},
                           nextTurn |-> IF q = <<>> THEN q ELSE Tail(q)],
                !.drv.attempt.phase = IF SameRound(p, s.drv.attempt.msg)
                                      THEN "claimed" ELSE @]
  BY DEF OpenTurn
<1> HIDE DEF p, t
<1>3. t \in States
  BY <1>1, <1>2, ZenonT(60) DEF States, Drivers, Attempts, Agents, RunningPCs
<1>4. Opened(s, t)
  BY <1>1, <1>2 DEF Opened, States, Drivers, Attempts, Agents, p
<1> QED BY <1>3, <1>4 DEF t

LEMMA TakesLoop ==
  ASSUME NEW s \in States, Free(s) # {}
  PROVE  NewLoop(s) \in Loops /\ s.drv.loops[NewLoop(s)] = "none"
BY DEF NewLoop, Free

LEMMA CheckpointEffect ==
  ASSUME NEW s \in States, NEW i \in Loops
  PROVE  LET t == Checkpoint(s, i)
         IN  t \in States /\ Looped(s, t) /\ t.drv.run = s.drv.run
             /\ (~Ready(s) => t.drv.checkpoint = s.drv.checkpoint)
<1> DEFINE t == Checkpoint(s, i)
<1>1. t \in States
  BY DEF Checkpoint, States, Drivers
<1>2. Looped(s, t) /\ t.drv.run = s.drv.run /\ (~Ready(s) => t.drv.checkpoint = s.drv.checkpoint)
  BY DEF Checkpoint, States, Drivers, Looped
<1> QED BY <1>1, <1>2

(* A loop can be started where one has to be.                                *)
CanStart(s) == s.drv.fiber = "active" /\ s.drv.run = 0 => Free(s) # {}

LEMMA ReadySame ==
  ASSUME NEW s, NEW t, Looped(s, t)
  PROVE  Ready(t) = Ready(s)
BY DEF Looped, Ready

LEMMA ChangedEffect ==
  ASSUME NEW s \in States, CanStart(s)
  PROVE  LET t == Changed(s)
         IN  /\ t \in States /\ Looped(s, t)
             /\ s.drv.fiber = "active" => t.drv.run # 0 /\ (~Ready(s) => t.drv.checkpoint)
<1> DEFINE t == Changed(s)
           u == [s EXCEPT !.drv.checkpoint = TRUE]
           v == [u EXCEPT !.drv.requested = FALSE]
           i == NewLoop(s)
<1>1. u \in States /\ v \in States
  BY DEF States, Drivers
<1>2. Looped(s, u) /\ Looped(s, v) /\ v.drv.checkpoint /\ v.drv.run = s.drv.run /\ u.drv.run = s.drv.run
      /\ u.drv.checkpoint
  BY DEF States, Drivers, Looped
<1> HIDE DEF u, v
<1>3. CASE s.drv.fiber # "active"
  <2>1. t = s \/ t = u
    BY <1>3 DEF Changed, u, States, Drivers
  <2> QED BY <2>1, <1>1, <1>2, <1>3 DEF Looped
<1>4. CASE s.drv.fiber = "active" /\ s.drv.run # 0
  <2>1. t = [u EXCEPT !.drv.requested = TRUE]
    BY <1>4 DEF Changed, u
  <2> HIDE DEF t
  <2>2. t \in States
    BY <2>1, <1>1 DEF States, Drivers
  <2>3. Looped(u, t) /\ t.drv.run = s.drv.run /\ t.drv.checkpoint
    BY <2>1, <1>1, <1>2 DEF States, Drivers, Looped
  <2> QED BY <2>2, <2>3, <1>2, <1>4 DEF Looped, t
<1>5. CASE s.drv.fiber = "active" /\ s.drv.run = 0
  <2>1. i \in Loops
    BY <1>5, TakesLoop DEF CanStart
  <2>2. t = [Checkpoint(v, i) EXCEPT !.drv.run = i]
    BY <1>5 DEF Changed, u, v
  <2> DEFINE w == Checkpoint(v, i)
  <2>3. w \in States /\ Looped(v, w) /\ (~Ready(v) => w.drv.checkpoint)
    BY <1>1, <1>2, <2>1, CheckpointEffect
  <2> HIDE DEF w, i
  <2>4. t = [w EXCEPT !.drv.run = i] /\ i \in 0 .. MaxLoops /\ i # 0
    BY <2>1, <2>2 DEF w, Loops
  <2> HIDE DEF t
  <2>5. t \in States
    BY <2>3, <2>4 DEF States, Drivers
  <2>6. Looped(w, t) /\ t.drv.run = i /\ t.drv.checkpoint = w.drv.checkpoint
    BY <2>3, <2>4 DEF States, Drivers, Looped
  <2>7. Looped(s, t)
    BY <1>2, <2>3, <2>6 DEF Looped
  <2>8. ~Ready(s) => t.drv.checkpoint
    BY <1>2, <2>3, <2>6, ReadySame
  <2> QED BY <2>4, <2>5, <2>6, <2>7, <2>8 DEF t
<1>6. s.drv.fiber = "active" \/ s.drv.fiber # "active"
  OBVIOUS
<1> HIDE DEF t
<1> QED BY <1>3, <1>4, <1>5, <1>6 DEF t

(* A revision of the goal that stops it.                                     *)
Committed(s, t, phase) ==
  /\ t.goal = [s.goal EXCEPT !.rev = @ + 1, !.phase = phase, !.armed = FALSE]
  /\ t.agent = s.agent
  /\ t.drv.fiber = s.drv.fiber /\ t.drv.attempt = s.drv.attempt
  /\ t.drv.competing = s.drv.competing /\ t.drv.waits = s.drv.waits

LEMMA CommitEffect ==
  ASSUME NEW s \in States, CanStart(s), NEW phase \in {"paused", "blocked"}
  PROVE  LET t == Commit(s, phase, FALSE)
         IN  /\ t \in States /\ Committed(s, t, phase)
             /\ s.drv.fiber = "active" => t.drv.run # 0
<1> DEFINE u == [s EXCEPT !.goal.rev = @ + 1, !.goal.phase = phase, !.goal.armed = FALSE]
<1>1. u \in States
  <2>1. s.goal.rev + 1 \in Nat
    BY DEF States, Goals
  <2> QED BY <2>1 DEF States, Goals
<1>2. /\ u.goal = [s.goal EXCEPT !.rev = @ + 1, !.phase = phase, !.armed = FALSE]
      /\ u.agent = s.agent /\ u.drv = s.drv
  BY DEF States, Goals
<1>3. Commit(s, phase, FALSE) = Changed(u)
  BY DEF Commit
<1> HIDE DEF u
<1>4. CanStart(u)
  BY <1>2 DEF CanStart, Free
<1>5. Changed(u) \in States /\ Looped(u, Changed(u)) /\ (u.drv.fiber = "active" => Changed(u).drv.run # 0)
  BY <1>1, <1>4, ChangedEffect
<1> QED BY <1>2, <1>3, <1>5 DEF Looped, Committed

-----------------------------------------------------------------------------
(* A round is reserved.                                                      *)
LEMMA Finite ==
  ASSUME NEW q \in Seq(Messages), NEW p \in Messages
  PROVE  LET about == {m.key : m \in ToSet(q) \cup {p}}
         IN  IsFiniteSet(about) /\ Cardinality(about) \in Nat
<1> DEFINE about == {m.key : m \in ToSet(q) \cup {p}}
           D == 0 .. Len(q)
           f == [i \in D |-> IF i = 0 THEN p.key ELSE q[i].key]
<1>1. f \in Surjection(D, about)
  <2>1. \A i \in D : f[i] \in about
    BY DEF ToSet
  <2>2. ASSUME NEW k \in about PROVE \E i \in D : f[i] = k
    <3>1. PICK m \in ToSet(q) \cup {p} : k = m.key
      OBVIOUS
    <3>2. CASE m = p
      <4>1. 0 \in D /\ f[0] = k
        BY <3>1, <3>2
      <4> QED BY <4>1
    <3>3. CASE m \in ToSet(q)
      <4>1. PICK i \in DOMAIN q : q[i] = m
        BY <3>3 DEF ToSet
      <4>2. i \in D /\ i # 0
        OBVIOUS
      <4>3. f[i] = k
        BY <3>1, <4>1, <4>2
      <4> QED BY <4>2, <4>3
    <3> QED BY <3>2, <3>3
  <2> QED BY <2>1, <2>2 DEF Surjection
<1>2. IsFiniteSet(D)
  BY FS_Interval
<1>3. IsFiniteSet(about)
  BY <1>1, <1>2, FS_Surjection
<1>4. Cardinality(about) \in Nat
  BY <1>3, FS_CardinalityType
<1> QED BY <1>3, <1>4

LEMMA FreshKey ==
  ASSUME NEW q \in Seq(Messages), NEW p \in Messages
  PROVE  LET about == {m.key : m \in ToSet(q) \cup {p}}
             k == CHOOSE k \in 1 .. Cardinality(about) + 1 : k \notin about
         IN  k \in Nat /\ \A m \in ToSet(q) \cup {p} : m.key # k
<1> DEFINE about == {m.key : m \in ToSet(q) \cup {p}}
           n == Cardinality(about)
           K == 1 .. n + 1
<1>1. IsFiniteSet(about) /\ n \in Nat
  BY Finite
<1>2. \E k \in K : k \notin about
  <2> SUFFICES ASSUME K \subseteq about PROVE FALSE
    OBVIOUS
  <2>1. Cardinality(K) = n + 1
    <3>1. 1 \in Int /\ n + 1 \in Int /\ ~(1 > n + 1) /\ n + 1 - 1 + 1 = n + 1
      BY <1>1
    <3> HIDE DEF n
    <3> QED BY <3>1, FS_Interval
  <2>2. Cardinality(K) <= n
    BY <1>1, FS_Subset
  <2> HIDE DEF K, n
  <2> QED BY <1>1, <2>1, <2>2
<1> DEFINE k == CHOOSE k \in K : k \notin about
<1>3. k \in K /\ k \notin about
  <2> HIDE DEF K, about
  <2> QED BY <1>2
<1>4. k \in Nat
  <2> HIDE DEF k, n
  <2> QED BY <1>1, <1>3
<1>5. \A m \in ToSet(q) \cup {p} : m.key # k
  <2> HIDE DEF k
  <2> QED BY <1>3
<1> QED BY <1>4, <1>5

Reserved(s, t) ==
  LET m == t.drv.attempt.msg
      q == Append(s.agent.nextTurn, m)
  IN  /\ Ready(s) /\ s.drv.attempt.phase = "none" /\ Continuing(s.goal) /\ s.goal.rounds < s.goal.cap
      /\ m \in Messages /\ m = Round(s.goal, m.key) /\ \A x \in About(s) : x.key # m.key
      /\ t.goal = s.goal
      /\ t.drv.fiber = s.drv.fiber /\ t.drv.competing = s.drv.competing /\ t.drv.waits = s.drv.waits
      /\ ~t.drv.attempt.cancelled /\ ~t.drv.attempt.stale
      /\ \/ /\ s.agent.pc = "maintenance"
            /\ t.agent = [s.agent EXCEPT !.nextTurn = q, !.wake = TRUE]
            /\ t.drv.attempt.phase = "queued"
         \/ /\ s.agent.pc = "idle"
            /\ t.agent.pc = "assemble" /\ t.agent.batch = s.agent.nextStep /\ t.agent.nextStep = {}
            /\ ~t.agent.aborted /\ ~t.agent.wake
            /\ t.agent.nextTurn = Tail(q) /\ t.agent.prompt = Head(q)
            /\ t.drv.attempt.phase = IF SameRound(Head(q), m) THEN "claimed" ELSE "queued"

LEMMA ReserveEffect ==
  ASSUME NEW s \in States, Ready(s), s.drv.attempt.phase = "none", Continuing(s.goal),
         s.goal.rounds < s.goal.cap
  PROVE  LET t == Reserve(s)
         IN  t \in States /\ Reserved(s, t) /\ t.drv.run = s.drv.run
<1> DEFINE about == {m.key : m \in ToSet(s.agent.nextTurn) \cup {s.agent.prompt}}
           k == CHOOSE k \in 1 .. Cardinality(about) + 1 : k \notin about
           m == Round(s.goal, k)
           a == [NoAttempt EXCEPT !.msg = m, !.phase = "queued"]
           u == [s EXCEPT !.drv.attempt = a]
           v == [u EXCEPT !.agent.nextTurn = Append(@, m)]
<1>1. k \in Nat /\ \A x \in About(s) : x.key # k
  BY FreshKey DEF States, Agents, About
<1> HIDE DEF k
<1>2. m \in Messages /\ m.key = k /\ m.from = "goal"
  BY <1>1, MsgTypes DEF States, Round
<1>3. SameRound(m, m)
  BY <1>2 DEF SameRound
<1>4. a \in Attempts /\ a.msg = m /\ a.phase = "queued" /\ ~a.cancelled /\ ~a.stale
  BY <1>2 DEF NoAttempt, Attempts
<1>5. Reserve(s) = WakeDriver(Insert(u, m))
  BY DEF Reserve, k
<1>c. m = Round(s.goal, m.key)
  BY <1>2
<1> HIDE DEF m, a
<1>6. u \in States /\ u.drv.attempt = a /\ u.agent = s.agent /\ u.goal = s.goal /\ u.drv.run = s.drv.run
      /\ u.drv.fiber = s.drv.fiber /\ u.drv.competing = s.drv.competing /\ u.drv.waits = s.drv.waits
  BY <1>4 DEF States, Drivers
<1> HIDE DEF u
<1>7. v \in States /\ v.drv = u.drv /\ v.goal = s.goal /\ v.agent = [s.agent EXCEPT !.nextTurn = Append(@, m)]
  <2>1. s.agent.nextTurn \in Seq(Messages) /\ Append(s.agent.nextTurn, m) \in Seq(Messages)
    BY <1>2 DEF States, Agents
  <2> DEFINE q == Append(s.agent.nextTurn, m)
  <2>2. v = [u EXCEPT !.agent.nextTurn = q]
    BY <1>6
  <2> HIDE DEF q, v
  <2>3. q \in Seq(Messages)
    BY <2>1 DEF q
  <2>4. v \in States
    BY <2>2, <2>3, <1>6 DEF States, Agents
  <2>5. v.drv = u.drv /\ v.goal = u.goal /\ v.agent = [u.agent EXCEPT !.nextTurn = q]
    BY <2>2, <1>6 DEF States, Agents
  <2> QED BY <2>4, <2>5, <1>6 DEF q
<1>8. Insert(u, m) = v
  BY <1>3, <1>4, <1>6 DEF Insert
<1> HIDE DEF v
<1>9. s.agent.pc \in {"idle", "maintenance"}
  BY DEF Ready
<1>10. CASE s.agent.pc = "idle"
  <2>1. Reserve(s) = OpenTurn(v)
    BY <1>5, <1>7, <1>8, <1>10 DEF WakeDriver, States, Agents
  <2>2. OpenTurn(v) \in States /\ Opened(v, OpenTurn(v))
    BY <1>7, OpenTurnEffect
  <2> DEFINE t == OpenTurn(v)  q == Append(s.agent.nextTurn, m)
  <2>3. v.agent.nextTurn = q /\ q # <<>> /\ v.agent.nextStep = s.agent.nextStep
    BY <1>7, <1>2 DEF States, Agents
  <2> HIDE DEF t, q
  <2>4. t.drv.attempt.msg = m /\ t.drv.run = s.drv.run /\ t.goal = s.goal
        /\ t.drv.fiber = s.drv.fiber /\ t.drv.competing = s.drv.competing /\ t.drv.waits = s.drv.waits
        /\ ~t.drv.attempt.cancelled /\ ~t.drv.attempt.stale
    BY <2>2, <1>4, <1>6, <1>7 DEF Opened, t
  <2>5. t.agent.pc = "assemble" /\ t.agent.batch = s.agent.nextStep /\ t.agent.nextStep = {}
        /\ ~t.agent.aborted /\ ~t.agent.wake
        /\ t.agent.nextTurn = Tail(q) /\ t.agent.prompt = Head(q)
    BY <2>2, <2>3 DEF Opened, t
  <2>6. t.drv.attempt.phase = IF SameRound(Head(q), m) THEN "claimed" ELSE "queued"
    BY <2>2, <2>5, <1>4, <1>6, <1>7 DEF Opened, t
  <2>7. Reserved(s, t)
    BY <2>4, <2>5, <2>6, <1>1, <1>2, <1>c, <1>10 DEF Reserved, q
  <2> QED BY <2>1, <2>2, <2>4, <2>7 DEF t
<1>11. CASE s.agent.pc = "maintenance"
  <2> DEFINE t == [v EXCEPT !.agent.wake = TRUE]
  <2>1. Reserve(s) = t
    <3>1. v.agent.pc = "maintenance" /\ v.agent.wake \in BOOLEAN
      BY <1>7, <1>11 DEF States, Agents
    <3>2. WakeDriver(v) = [v EXCEPT !.agent.wake = @ \/ v.agent.pc = "maintenance" \/ v.agent.aborted]
      BY <3>1 DEF WakeDriver
    <3>3. WakeDriver(v) = t
      BY <3>1, <3>2
    <3> QED BY <3>3, <1>5, <1>8
  <2>2. t \in States /\ t.drv = u.drv /\ t.goal = s.goal
        /\ t.agent = [s.agent EXCEPT !.nextTurn = Append(@, m), !.wake = TRUE]
    BY <1>7, <1>6 DEF States, Agents
  <2> HIDE DEF t
  <2>3. Reserved(s, t)
    BY <2>2, <1>6, <1>4, <1>1, <1>2, <1>c, <1>11 DEF Reserved
  <2> QED BY <2>1, <2>2, <2>3, <1>6
<1> QED BY <1>9, <1>10, <1>11

-----------------------------------------------------------------------------
(* The loops of the driver.                                                  *)

(* The attempt that went before is settled.                                  *)
Resolved(s, t) ==
  /\ Ready(s) /\ s.drv.attempt.phase # "none"
  /\ t.goal = s.goal /\ t.agent = s.agent
  /\ t.drv.fiber = s.drv.fiber /\ t.drv.attempt = NoAttempt
  /\ t.drv.competing = s.drv.competing /\ t.drv.waits = s.drv.waits

(* The goal is blocked: its rounds are used up or the next is not queued.    *)
Exhausted(s, t) ==
  /\ Ready(s) /\ s.drv.attempt.phase = "none" /\ Continuing(s.goal)
  /\ Committed(s, t, "blocked")

(* drive() settles, stops, reserves, or touches nothing but the loops.       *)
Continued(s, t) == Looped(s, t) \/ Resolved(s, t) \/ Exhausted(s, t) \/ Reserved(s, t)

LEMMA ContinueEffect ==
  ASSUME NEW s \in States, Ready(s), CanStart(s)
  PROVE  Continue(s) \in States /\ Continued(s, Continue(s))
<1> DEFINE t == Continue(s)
<1>1. CASE s.drv.attempt.phase # "none"
  <2>1. t = [s EXCEPT !.drv.attempt = NoAttempt, !.drv.checkpoint = TRUE, !.drv.requested = TRUE]
    BY <1>1 DEF Continue
  <2> HIDE DEF t
  <2>2. t \in States
    BY <2>1, MsgTypes DEF States, Drivers
  <2>3. Resolved(s, t)
    BY <2>1, <1>1 DEF Resolved, States, Drivers
  <2> QED BY <2>2, <2>3 DEF Continued, t
<1>2. CASE s.drv.attempt.phase = "none" /\ ~Continuing(s.goal)
  <2>1. t = s
    BY <1>2 DEF Continue
  <2> QED BY <2>1 DEF Continued, Looped
<1>3. CASE s.drv.attempt.phase = "none" /\ Continuing(s.goal) /\ (s.goal.rounds >= s.goal.cap \/ QueueFails(s))
  <2>1. t = Commit(s, "blocked", FALSE)
    BY <1>3 DEF Continue
  <2>2. t \in States /\ Committed(s, t, "blocked")
    BY <2>1, CommitEffect
  <2> QED BY <2>2, <1>3 DEF Continued, Exhausted
<1>4. CASE s.drv.attempt.phase = "none" /\ Continuing(s.goal) /\ ~(s.goal.rounds >= s.goal.cap \/ QueueFails(s))
  <2>1. t = Reserve(s)
    BY <1>4 DEF Continue
  <2>2. s.goal.rounds < s.goal.cap
    BY <1>4 DEF States, Goals
  <2>3. t \in States /\ Reserved(s, t)
    BY <2>1, <2>2, <1>4, ReserveEffect
  <2> QED BY <2>3 DEF Continued
<1> QED BY <1>1, <1>2, <1>3, <1>4

(* What holds of a loop that goes on holds of the state it found.            *)
LEMMA LoopedFirst ==
  ASSUME NEW s, NEW u, NEW t, Looped(s, u), Continued(u, t)
  PROVE  Continued(s, t)
<1>1. CASE Looped(u, t)
  BY <1>1 DEF Looped, Continued
<1>2. CASE Resolved(u, t)
  BY <1>2 DEF Looped, Continued, Resolved, Ready
<1>3. CASE Exhausted(u, t)
  BY <1>3 DEF Looped, Continued, Exhausted, Committed, Ready
<1>4. CASE Reserved(u, t)
  <2>1. u.goal = s.goal /\ u.agent = s.agent /\ u.drv.attempt = s.drv.attempt /\ About(u) = About(s)
        /\ (Ready(u) => Ready(s))
    BY DEF Looped, About, Ready
  <2>2. u.drv.fiber = s.drv.fiber /\ u.drv.competing = s.drv.competing /\ u.drv.waits = s.drv.waits
    BY DEF Looped
  <2>3. Reserved(s, t)
    BY <1>4, <2>1, <2>2 DEF Reserved
  <2> QED BY <2>3 DEF Continued
<1> QED BY <1>1, <1>2, <1>3, <1>4 DEF Continued

LEMMA LoopedLast ==
  ASSUME NEW s, NEW u, NEW t, Continued(s, u), Looped(u, t)
  PROVE  Continued(s, t)
<1>1. CASE Looped(s, u)
  BY <1>1 DEF Looped, Continued
<1>2. CASE Resolved(s, u)
  BY <1>2 DEF Looped, Continued, Resolved, Ready
<1>3. CASE Exhausted(s, u)
  BY <1>3 DEF Looped, Continued, Exhausted, Committed, Ready
<1>4. CASE Reserved(s, u)
  <2>1. u.goal = t.goal /\ u.agent = t.agent /\ u.drv.attempt = t.drv.attempt
    BY DEF Looped
  <2>2. u.drv.fiber = t.drv.fiber /\ u.drv.competing = t.drv.competing /\ u.drv.waits = t.drv.waits
    BY DEF Looped
  <2>3. Reserved(s, t)
    BY <1>4, <2>1, <2>2 DEF Reserved
  <2> QED BY <2>3 DEF Continued
<1> QED BY <1>1, <1>2, <1>3, <1>4 DEF Continued

(* drive(): it does nothing but take a checkpoint while it is not ready or owes one. *)
LEMMA DriveEffect ==
  ASSUME NEW s \in States, NEW i \in Loops, s.drv.fiber = "active" /\ s.drv.run = 0 => Free(s) \ {i} # {}
  PROVE  LET t == Drive(s, i)
         IN  /\ t \in States /\ Continued(s, t)
             /\ s.drv.checkpoint \/ ~Ready(s) => Looped(s, t)
             /\ ~Ready(s) => t.drv.checkpoint = s.drv.checkpoint
<1> DEFINE u == [s EXCEPT !.drv.loops[i] = "turn"]
           t == Drive(s, i)
<1>1. /\ u \in States /\ Looped(s, u) /\ u.drv.checkpoint = s.drv.checkpoint
      /\ u.drv.run = s.drv.run /\ u.drv.loops = [s.drv.loops EXCEPT ![i] = "turn"]
  BY DEF States, Drivers, Looped
<1>2. t = IF ~Ready(s) THEN u ELSE IF s.drv.checkpoint THEN Checkpoint(s, i) ELSE Continue(u)
  BY DEF Drive
<1> HIDE DEF u, t
<1>3. CASE ~Ready(s)
  BY <1>1, <1>2, <1>3 DEF Continued, t
<1>4. CASE Ready(s) /\ s.drv.checkpoint
  <2>1. t = Checkpoint(s, i)
    BY <1>2, <1>4
  <2>2. t \in States /\ Looped(s, t)
    BY <2>1, CheckpointEffect
  <2> QED BY <2>2, <1>4 DEF Continued, t
<1>5. CASE Ready(s) /\ ~s.drv.checkpoint
  <2>1. t = Continue(u)
    BY <1>2, <1>5
  <2>2. CanStart(u) /\ Ready(u)
    <3>1. \A j \in Free(s) \ {i} : j \in Free(u)
      BY <1>1 DEF Free, States, Drivers
    <3> QED BY <3>1, <1>1, <1>5, ReadySame DEF CanStart, Looped
  <2>3. t \in States /\ Continued(u, t)
    BY <2>1, <2>2, <1>1, ContinueEffect
  <2>4. Continued(s, t)
    BY <1>1, <2>3, LoopedFirst
  <2> QED BY <2>3, <2>4, <1>5 DEF t
<1> QED BY <1>3, <1>4, <1>5

(* Two loops can be started where one has to be.                             *)
Able(s) == s.drv.fiber = "active" /\ s.drv.run = 0 => Room(s)

LEMMA RoomFree ==
  ASSUME NEW s, Room(s)
  PROVE  Free(s) # {}
<1>1. 1 \in Loops
  BY BoundsAssumption DEF Loops
<1> QED BY <1>1 DEF Room

LEMMA AbleStarts ==
  ASSUME NEW s, Able(s)
  PROVE  CanStart(s)
BY RoomFree DEF Able, CanStart

LEMMA RequestDriveEffect ==
  ASSUME NEW s \in States, Able(s)
  PROVE  LET t == RequestDrive(s)
         IN  /\ t \in States /\ Continued(s, t)
             /\ s.drv.fiber = "active" => t.drv.run # 0
             /\ s.drv.run # 0 \/ s.drv.checkpoint \/ ~Ready(s) => Looped(s, t)
             /\ ~Ready(s) => t.drv.checkpoint = s.drv.checkpoint
<1> DEFINE t == RequestDrive(s)
<1>1. CASE s.drv.fiber # "active"
  <2>1. t = s
    BY <1>1 DEF RequestDrive
  <2> QED BY <2>1, <1>1 DEF Continued, Looped
<1>2. CASE s.drv.fiber = "active" /\ s.drv.run # 0
  <2>1. t = [s EXCEPT !.drv.requested = TRUE]
    BY <1>2 DEF RequestDrive
  <2> HIDE DEF t
  <2>2. t \in States /\ Looped(s, t) /\ t.drv.run = s.drv.run /\ t.drv.checkpoint = s.drv.checkpoint
    BY <2>1 DEF States, Drivers, Looped
  <2> QED BY <2>2, <1>2 DEF Continued, t
<1>3. CASE s.drv.fiber = "active" /\ s.drv.run = 0
  <2> DEFINE i == NewLoop(s)
             u == [s EXCEPT !.drv.requested = FALSE]
             v == Drive(u, i)
  <2>1. i \in Loops /\ i \in 0 .. MaxLoops /\ i # 0
    <3>1. i \in Loops
      BY <1>3, RoomFree, TakesLoop DEF Able
    <3> QED BY <3>1 DEF Loops
  <2>2. u \in States /\ Looped(s, u) /\ u.drv.checkpoint = s.drv.checkpoint /\ Free(u) = Free(s)
    BY DEF States, Drivers, Looped, Free
  <2>3. t = [v EXCEPT !.drv.run = i]
    BY <1>3 DEF RequestDrive
  <2> HIDE DEF i, u, t
  <2>4. Free(u) \ {i} # {} /\ Ready(u) = Ready(s)
    BY <1>3, <2>1, <2>2, ReadySame DEF Able, Room
  <2>5. /\ v \in States /\ Continued(u, v)
        /\ u.drv.checkpoint \/ ~Ready(u) => Looped(u, v)
        /\ ~Ready(u) => v.drv.checkpoint = u.drv.checkpoint
    BY <2>1, <2>2, <2>4, DriveEffect
  <2> HIDE DEF v
  <2>6. t \in States /\ Looped(v, t) /\ t.drv.run = i /\ t.drv.checkpoint = v.drv.checkpoint
    BY <2>1, <2>3, <2>5 DEF States, Drivers, Looped
  <2>7. Continued(s, t)
    BY <2>2, <2>5, <2>6, LoopedFirst, LoopedLast
  <2>8. s.drv.checkpoint \/ ~Ready(s) => Looped(s, t)
    BY <2>2, <2>4, <2>5, <2>6 DEF Looped
  <2> QED BY <1>3, <2>1, <2>2, <2>4, <2>5, <2>6, <2>7, <2>8 DEF t
<1> QED BY <1>1, <1>2, <1>3

-----------------------------------------------------------------------------
(* Messages and queues.                                                      *)
LEMMA RoundFields ==
  ASSUME NEW m \in Messages, NEW n \in Messages
  PROVE  SameRound(m, n) <=> /\ m.from = "goal" /\ n.from = "goal"
                             /\ m.id = n.id /\ m.rev = n.rev /\ m.round = n.round
<1> DEFINE x == [m EXCEPT !.key = 0]  y == [n EXCEPT !.key = 0]
<1>1. /\ x.from = m.from /\ x.id = m.id /\ x.rev = m.rev /\ x.round = m.round
      /\ y.from = n.from /\ y.id = n.id /\ y.rev = n.rev /\ y.round = n.round
  BY DEF Messages
<1>2. m.from = n.from /\ m.id = n.id /\ m.rev = n.rev /\ m.round = n.round => x = y
  BY DEF Messages
<1>3. SameRound(m, n) <=> m.from = "goal" /\ x = y
  BY DEF SameRound
<1> HIDE DEF x, y
<1> QED BY <1>1, <1>2, <1>3

LEMMA NoRound ==
  ASSUME NEW m \in Messages
  PROVE  ~SameRound(m, NoMsg)
BY RoundFields, MsgTypes DEF NoMsg

LEMMA Queued ==
  ASSUME NEW q \in Seq(Messages), NEW m \in Messages
  PROVE  /\ Append(q, m) \in Seq(Messages) /\ Append(q, m) # <<>>
         /\ ToSet(Append(q, m)) = ToSet(q) \cup {m}
         /\ Len(q) + 1 \in DOMAIN Append(q, m) /\ Append(q, m)[Len(q) + 1] = m
         /\ \A i \in DOMAIN q : i \in DOMAIN Append(q, m) /\ Append(q, m)[i] = q[i] /\ i < Len(q) + 1
         /\ \A i \in DOMAIN Append(q, m) : i \in DOMAIN q \/ i = Len(q) + 1
<1> DEFINE r == Append(q, m)
<1>1. r \in Seq(Messages) /\ Len(r) = Len(q) + 1 /\ DOMAIN r = 1 .. Len(q) + 1 /\ DOMAIN q = 1 .. Len(q)
      /\ Len(q) \in Nat
  OBVIOUS
<1>2. r[Len(q) + 1] = m /\ \A i \in DOMAIN q : r[i] = q[i]
  OBVIOUS
<1> HIDE DEF r
<1>3. \A i \in DOMAIN r : i \in DOMAIN q \/ i = Len(q) + 1
  BY <1>1
<1>4. \A i \in DOMAIN q : i \in DOMAIN r /\ i < Len(q) + 1
  BY <1>1
<1>5. Len(q) + 1 \in DOMAIN r
  BY <1>1
<1>6. r # <<>>
  BY <1>5
<1>7. ToSet(r) = ToSet(q) \cup {m}
  <2>1. ASSUME NEW x \in ToSet(r) PROVE x \in ToSet(q) \cup {m}
    BY <1>2, <1>3 DEF ToSet
  <2>2. ASSUME NEW x \in ToSet(q) PROVE x \in ToSet(r)
    BY <1>2, <1>4 DEF ToSet
  <2>3. m \in ToSet(r)
    BY <1>2, <1>5 DEF ToSet
  <2> QED BY <2>1, <2>2, <2>3
<1> QED BY <1>1, <1>2, <1>3, <1>4, <1>5, <1>6, <1>7 DEF r

LEMMA Popped ==
  ASSUME NEW q \in Seq(Messages), q # <<>>
  PROVE  /\ Tail(q) \in Seq(Messages) /\ Head(q) \in Messages
         /\ ToSet(q) = ToSet(Tail(q)) \cup {Head(q)}
         /\ 1 \in DOMAIN q /\ q[1] = Head(q)
         /\ \A i \in DOMAIN Tail(q) : i \in Nat /\ i + 1 \in DOMAIN q /\ Tail(q)[i] = q[i + 1] /\ i + 1 # 1
         /\ \A i \in DOMAIN q : i \in Nat /\ (i # 1 => i - 1 \in DOMAIN Tail(q) /\ Tail(q)[i - 1] = q[i])
<1> DEFINE r == Tail(q)
<1>1. r \in Seq(Messages) /\ DOMAIN r = 1 .. Len(q) - 1 /\ DOMAIN q = 1 .. Len(q) /\ Len(q) \in Nat \ {0}
      /\ \A i \in 1 .. Len(q) - 1 : r[i] = q[i + 1]
  OBVIOUS
<1>2. Head(q) = q[1] /\ Head(q) \in Messages
  OBVIOUS
<1> HIDE DEF r
<1>3. 1 \in DOMAIN q
  BY <1>1
<1>4. \A i \in DOMAIN r : i \in Nat /\ i + 1 \in DOMAIN q /\ r[i] = q[i + 1] /\ i + 1 # 1
  BY <1>1
<1>5. ASSUME NEW i \in DOMAIN q
      PROVE  i \in Nat /\ (i # 1 => i - 1 \in DOMAIN r /\ r[i - 1] = q[i])
  <2>1. i \in Nat /\ (i # 1 => i - 1 \in 1 .. Len(q) - 1 /\ (i - 1) + 1 = i)
    BY <1>1
  <2> QED BY <2>1, <1>1
<1>6. ToSet(q) = ToSet(r) \cup {Head(q)}
  <2>1. ASSUME NEW x \in ToSet(q) PROVE x \in ToSet(r) \cup {Head(q)}
    BY <1>2, <1>5 DEF ToSet
  <2>2. ASSUME NEW x \in ToSet(r) PROVE x \in ToSet(q)
    BY <1>4 DEF ToSet
  <2>3. Head(q) \in ToSet(q)
    BY <1>2, <1>3 DEF ToSet
  <2> QED BY <2>1, <2>2, <2>3
<1> QED BY <1>1, <1>2, <1>3, <1>4, <1>5, <1>6 DEF r

(* No round is twice in the inbox and the turn.                              *)
Apart(q, p) ==
  /\ \A i, j \in DOMAIN q : q[i].from = "goal" /\ q[i] = q[j] => i = j
  /\ \A i \in DOMAIN q : q[i].from = "goal" => q[i] # p

(* The reservation is behind all others of the same round.                   *)
Newest(q, m) == \A i \in DOMAIN q : SameRound(q[i], m) => \E j \in DOMAIN q : i <= j /\ q[j] = m

Queues(q, m) == \E i \in DOMAIN q : SameRound(q[i], m)

LEMMA ApartAppend ==
  ASSUME NEW q \in Seq(Messages), NEW p, NEW m \in Messages, Apart(q, p), m # p \/ m.from # "goal",
         \A x \in ToSet(q) : x # m
  PROVE  Apart(Append(q, m), p)
<1> DEFINE r == Append(q, m)
<1>1. \A i \in DOMAIN r : (i \in DOMAIN q /\ r[i] = q[i]) \/ (i = Len(q) + 1 /\ r[i] = m)
  BY Queued
<1>2. \A i \in DOMAIN q : q[i] # m
  BY DEF ToSet
<1> HIDE DEF r
<1>3. \A i, j \in DOMAIN r : r[i].from = "goal" /\ r[i] = r[j] => i = j
  BY <1>1, <1>2 DEF Apart
<1>4. \A i \in DOMAIN r : r[i].from = "goal" => r[i] # p
  BY <1>1 DEF Apart
<1> QED BY <1>3, <1>4 DEF Apart, r

LEMMA ApartHuman ==
  ASSUME NEW q \in Seq(Messages), NEW p, NEW m \in Messages, Apart(q, p), m.from # "goal"
  PROVE  Apart(Append(q, m), p)
<1> DEFINE r == Append(q, m)
<1>1. \A i \in DOMAIN r : (i \in DOMAIN q /\ r[i] = q[i]) \/ (i = Len(q) + 1 /\ r[i] = m)
  BY Queued
<1> HIDE DEF r
<1>3. \A i, j \in DOMAIN r : r[i].from = "goal" /\ r[i] = r[j] => i = j
  BY <1>1 DEF Apart
<1>4. \A i \in DOMAIN r : r[i].from = "goal" => r[i] # p
  BY <1>1 DEF Apart
<1> QED BY <1>3, <1>4 DEF Apart, r

LEMMA ApartPop ==
  ASSUME NEW q \in Seq(Messages), q # <<>>, NEW p, Apart(q, p)
  PROVE  Apart(Tail(q), Head(q)) /\ Apart(Tail(q), p)
<1>1. \A i \in DOMAIN Tail(q) : i \in Nat /\ i + 1 \in DOMAIN q /\ Tail(q)[i] = q[i + 1] /\ i + 1 # 1
  BY Popped
<1>2. ASSUME NEW i \in DOMAIN Tail(q), NEW j \in DOMAIN Tail(q),
             Tail(q)[i].from = "goal" /\ Tail(q)[i] = Tail(q)[j]
      PROVE  i = j
  <2>1. i + 1 = j + 1
    BY <1>1, <1>2 DEF Apart
  <2> QED BY <1>1, <2>1
<1>3. ASSUME NEW i \in DOMAIN Tail(q), Tail(q)[i].from = "goal" PROVE Tail(q)[i] # Head(q) /\ Tail(q)[i] # p
  <2>1. 1 \in DOMAIN q /\ q[1] = Head(q)
    BY Popped
  <2> QED BY <1>1, <1>3, <2>1 DEF Apart
<1> QED BY <1>2, <1>3 DEF Apart

LEMMA NewestAppend ==
  ASSUME NEW q \in Seq(Messages), NEW m \in Messages
  PROVE  Newest(Append(q, m), m)
<1> SUFFICES ASSUME NEW i \in DOMAIN Append(q, m)
             PROVE  \E j \in DOMAIN Append(q, m) : i <= j /\ Append(q, m)[j] = m
  BY DEF Newest
<1>1. i <= Len(q) + 1
  OBVIOUS
<1> QED BY <1>1, Queued

LEMMA NewestOther ==
  ASSUME NEW q \in Seq(Messages), NEW m \in Messages, NEW a \in Messages, ~SameRound(m, a)
  PROVE  /\ Newest(q, a) => Newest(Append(q, m), a)
         /\ Queues(Append(q, m), a) => Queues(q, a)
<1> DEFINE r == Append(q, m)
<1>1. \A i \in DOMAIN r : (i \in DOMAIN q /\ r[i] = q[i]) \/ (i = Len(q) + 1 /\ r[i] = m)
  BY Queued
<1>2. \A i \in DOMAIN q : i \in DOMAIN r /\ r[i] = q[i]
  BY Queued
<1> HIDE DEF r
<1>3. Newest(q, a) => Newest(r, a)
  BY <1>1, <1>2 DEF Newest
<1>4. Queues(r, a) => Queues(q, a)
  BY <1>1 DEF Queues
<1> QED BY <1>3, <1>4 DEF r

LEMMA NewestPop ==
  ASSUME NEW q \in Seq(Messages), q # <<>>, NEW a
  PROVE  /\ Newest(q, a) => Newest(Tail(q), a)
         /\ Queues(Tail(q), a) => Queues(q, a)
<1>1. \A i \in DOMAIN Tail(q) : i \in Nat /\ i + 1 \in DOMAIN q /\ Tail(q)[i] = q[i + 1] /\ i + 1 # 1
  BY Popped
<1>2. ASSUME Newest(q, a), NEW i \in DOMAIN Tail(q), SameRound(Tail(q)[i], a)
      PROVE  \E j \in DOMAIN Tail(q) : i <= j /\ Tail(q)[j] = a
  <2>1. PICK j \in DOMAIN q : i + 1 <= j /\ q[j] = a
    BY <1>1, <1>2 DEF Newest
  <2>2. i \in Nat \ {0} /\ j \in Nat
    <3>1. i # 0
      OBVIOUS
    <3> QED BY <1>1, <3>1, Popped
  <2>3. j # 1 /\ i <= j - 1
    BY <2>1, <2>2
  <2>4. j - 1 \in DOMAIN Tail(q) /\ Tail(q)[j - 1] = a
    BY <2>1, <2>3, Popped
  <2> QED BY <2>3, <2>4
<1>3. Queues(Tail(q), a) => Queues(q, a)
  BY <1>1 DEF Queues
<1>4. Newest(q, a) => Newest(Tail(q), a)
  BY <1>2 DEF Newest
<1> QED BY <1>3, <1>4

-----------------------------------------------------------------------------
(* What holds of the inbox and the reservation in every state.               *)

(* A round comes from a revision the goal has had, and keeps within its cap. *)
Issued(m, g) ==
  m.from = "goal" => /\ m.id <= g.id
                     /\ m.id = g.id => /\ m.rev <= g.rev
                                       /\ m.rev = g.rev => m.round <= g.cap

(* No message is twice in inbox and turn, the reservation is the last of its *)
(* round, and one that has entered has left no other behind.                 *)
Ordered(s) ==
  LET q == s.agent.nextTurn  a == s.drv.attempt
  IN  /\ Apart(q, s.agent.prompt) /\ Newest(q, a.msg)
      /\ IF a.phase = "none" THEN a.msg = NoMsg ELSE a.msg.from = "goal"
      /\ a.phase = "admitted" => ~Queues(q, a.msg)

Traced(s) ==
  /\ \A m \in About(s) \cup {s.drv.attempt.msg} : Issued(m, s.goal)
  /\ Ordered(s)

(* A reservation of the present goal has yet to enter.                       *)
Waits(s) ==
  /\ s.drv.fiber # "closed"
  /\ s.drv.attempt.phase \in {"queued", "claimed"} /\ ~s.drv.attempt.cancelled
  /\ Continuing(s.goal) /\ OwnsGoal(s.drv.attempt, s.goal)

(* It never waits on an agent at rest, and a maintenance task will open its turn. *)
AtRest(s) == s.agent.pc = "idle" => ~Waits(s)
InJob(s)  == s.agent.pc = "maintenance" /\ Waits(s)
               => s.agent.wake /\ Queues(s.agent.nextTurn, s.drv.attempt.msg)

Kept(s) == Traced(s) /\ AtRest(s) /\ InJob(s)

(* Automatic work goes no further than it was allowed to.                    *)
Goes(g, h) == /\ h.id = g.id /\ h.rounds = g.rounds /\ h.failed = g.failed
              /\ Continuing(h) => h = g

LEMMA GoesTwice ==
  ASSUME NEW g, NEW h, NEW k, Goes(g, h), Goes(h, k)
  PROVE  Goes(g, k)
BY DEF Goes

LEMMA StateTypes ==
  ASSUME NEW s \in States
  PROVE  /\ s.agent.nextTurn \in Seq(Messages) /\ s.agent.prompt \in Messages
         /\ s.drv.attempt \in Attempts /\ s.drv.attempt.msg \in Messages /\ s.goal \in Goals
         /\ \A m \in About(s) : m \in Messages
         /\ s.agent.nextStep \in SUBSET Contexts /\ s.agent.batch \in SUBSET Contexts
<1>1. /\ s.agent.nextTurn \in Seq(Messages) /\ s.agent.prompt \in Messages
      /\ s.drv.attempt \in Attempts /\ s.drv.attempt.msg \in Messages /\ s.goal \in Goals
      /\ s.agent.nextStep \in SUBSET Contexts /\ s.agent.batch \in SUBSET Contexts
  BY DEF States, Agents, Drivers, Attempts
<1> QED BY <1>1 DEF About, ToSet

LEMMA NoneIssued == \A g : Issued(NoMsg, g)
BY DEF Issued, NoMsg

LEMMA IssuedLater ==
  ASSUME NEW m \in Messages, NEW g \in Goals, Issued(m, g), NEW h \in Goals,
         \/ h.id = g.id /\ h.rev = g.rev + 1
         \/ h.id = g.id + 1
         \/ h.id = g.id /\ h.rev = g.rev /\ h.cap = g.cap
  PROVE  Issued(m, h)
BY DEF Issued, Messages, Goals

LEMMA EmptyQueue ==
  ASSUME NEW p, NEW a
  PROVE  Apart(<<>>, p) /\ Newest(<<>>, a) /\ ~Queues(<<>>, a) /\ ToSet(<<>>) = {}
BY DEF Apart, Newest, Queues, ToSet

LEMMA NoneWaits ==
  ASSUME NEW q \in Seq(Messages)
  PROVE  Newest(q, NoMsg) /\ ~Queues(q, NoMsg)
<1>1. \A i \in DOMAIN q : q[i] \in Messages
  OBVIOUS
<1> QED BY <1>1, NoRound DEF Newest, Queues

(* A step that queues and claims nothing.                                    *)
Less(s, t) ==
  /\ t.agent.nextTurn \in {s.agent.nextTurn, <<>>} /\ t.agent.prompt \in {s.agent.prompt, NoMsg}
  /\ \/ t.drv.attempt.msg = s.drv.attempt.msg /\ t.drv.attempt.phase = s.drv.attempt.phase
     \/ t.drv.attempt.msg = NoMsg /\ t.drv.attempt.phase = "none"

LEMMA OrderedLess ==
  ASSUME NEW s \in States, NEW t, Less(s, t), Ordered(s)
  PROVE  Ordered(t)
<1> DEFINE q == s.agent.nextTurn  a == s.drv.attempt
<1>1. q \in Seq(Messages)
  BY StateTypes
<1>2. Apart(q, s.agent.prompt) /\ Newest(q, a.msg) /\ (IF a.phase = "none" THEN a.msg = NoMsg ELSE a.msg.from = "goal")
      /\ (a.phase = "admitted" => ~Queues(q, a.msg))
  BY DEF Ordered
<1>3. Apart(t.agent.nextTurn, t.agent.prompt)
  <2>1. Apart(q, NoMsg)
    BY <1>2 DEF Apart, NoMsg
  <2> QED BY <1>2, <2>1, EmptyQueue DEF Less
<1>4. Newest(t.agent.nextTurn, t.drv.attempt.msg)
  BY <1>1, <1>2, NoneWaits, EmptyQueue DEF Less
<1>5. IF t.drv.attempt.phase = "none" THEN t.drv.attempt.msg = NoMsg ELSE t.drv.attempt.msg.from = "goal"
  BY <1>2 DEF Less
<1>6. t.drv.attempt.phase = "admitted" => ~Queues(t.agent.nextTurn, t.drv.attempt.msg)
  BY <1>2, EmptyQueue DEF Less
<1> QED BY <1>3, <1>4, <1>5, <1>6 DEF Ordered

LEMMA TracedLater ==
  ASSUME NEW s \in States, Traced(s), NEW t \in States, Less(s, t),
         \/ t.goal.id = s.goal.id /\ t.goal.rev = s.goal.rev + 1
         \/ t.goal.id = s.goal.id + 1
         \/ t.goal.id = s.goal.id /\ t.goal.rev = s.goal.rev /\ t.goal.cap = s.goal.cap
  PROVE  Traced(t)
<1>1. ASSUME NEW m \in About(s) \cup {s.drv.attempt.msg} PROVE Issued(m, t.goal)
  <2>1. m \in Messages /\ s.goal \in Goals /\ t.goal \in Goals /\ Issued(m, s.goal)
    BY StateTypes DEF Traced
  <2> QED BY <2>1, IssuedLater
<1>2. About(t) \subseteq About(s) \cup {NoMsg}
  BY EmptyQueue DEF Less, About
<1>3. t.drv.attempt.msg \in {s.drv.attempt.msg, NoMsg}
  BY DEF Less
<1> QED BY <1>1, <1>2, <1>3, NoneIssued, OrderedLess DEF Traced

LEMMA AboutOpened ==
  ASSUME NEW s \in States, NEW t, Opened(s, t)
  PROVE  About(t) \subseteq About(s) \cup {NoMsg}
<1> DEFINE q == s.agent.nextTurn
<1>1. q \in Seq(Messages)
  BY StateTypes
<1>2. CASE q = <<>>
  <2>1. t.agent.nextTurn = <<>> /\ t.agent.prompt = NoMsg
    BY <1>2 DEF Opened
  <2>2. ToSet(<<>>) = {}
    BY DEF ToSet
  <2> QED BY <2>1, <2>2 DEF About
<1>3. CASE q # <<>>
  <2>1. t.agent.nextTurn = Tail(q) /\ t.agent.prompt = Head(q)
    BY <1>3 DEF Opened
  <2>2. ToSet(q) = ToSet(Tail(q)) \cup {Head(q)}
    BY <1>1, <1>3, Popped
  <2> QED BY <2>1, <2>2 DEF About
<1> QED BY <1>2, <1>3

LEMMA OrderedOpened ==
  ASSUME NEW s \in States, NEW t, Opened(s, t), Ordered(s)
  PROVE  Ordered(t)
<1> DEFINE q == s.agent.nextTurn  a == s.drv.attempt.msg  p == t.agent.prompt
<1>1. q \in Seq(Messages) /\ a \in Messages /\ t.drv.attempt.msg = a
  BY StateTypes DEF Opened
<1>2. t.drv.attempt.phase = IF SameRound(p, a) THEN "claimed" ELSE s.drv.attempt.phase
  BY DEF Opened
<1>3. p \in Messages /\ Apart(t.agent.nextTurn, p) /\ Newest(t.agent.nextTurn, a)
      /\ (Queues(t.agent.nextTurn, a) => Queues(q, a))
  <2>1. CASE q = <<>>
    <3>1. t.agent.nextTurn = <<>> /\ p = NoMsg
      BY <2>1 DEF Opened
    <3> QED BY <3>1, MsgTypes, EmptyQueue
  <2>2. CASE q # <<>>
    <3>1. t.agent.nextTurn = Tail(q) /\ p = Head(q)
      BY <2>2 DEF Opened
    <3>2. Apart(Tail(q), Head(q)) /\ Newest(Tail(q), a) /\ (Queues(Tail(q), a) => Queues(q, a))
      BY <1>1, <2>2, ApartPop, NewestPop DEF Ordered
    <3> QED BY <3>1, <3>2, <1>1, <2>2, Popped
  <2> QED BY <2>1, <2>2
<1>4. SameRound(p, a) => a.from = "goal"
  BY <1>1, <1>3, RoundFields
<1>5. IF t.drv.attempt.phase = "none" THEN t.drv.attempt.msg = NoMsg ELSE t.drv.attempt.msg.from = "goal"
  BY <1>1, <1>2, <1>4 DEF Ordered
<1>6. t.drv.attempt.phase = "admitted" => ~Queues(t.agent.nextTurn, a)
  BY <1>2, <1>3 DEF Ordered
<1> QED BY <1>1, <1>3, <1>5, <1>6 DEF Ordered

LEMMA KeptOpened ==
  ASSUME NEW s \in States, NEW t \in States, Opened(s, t), Traced(s)
  PROVE  Kept(t)
<1>1. About(t) \subseteq About(s) \cup {NoMsg} /\ t.drv.attempt.msg = s.drv.attempt.msg /\ t.goal = s.goal
  BY AboutOpened DEF Opened
<1>2. Traced(t)
  BY <1>1, NoneIssued, OrderedOpened DEF Traced
<1>3. t.agent.pc = "assemble"
  BY DEF Opened
<1> QED BY <1>2, <1>3 DEF Kept, AtRest, InJob

LEMMA TracedReserved ==
  ASSUME NEW s \in States, NEW t \in States, Reserved(s, t), Traced(s)
  PROVE  Traced(t) /\ (t.agent.pc = "maintenance" => Queues(t.agent.nextTurn, t.drv.attempt.msg))
<1> DEFINE q == s.agent.nextTurn  m == t.drv.attempt.msg  r == Append(q, m)
<1>1. q \in Seq(Messages) /\ m \in Messages /\ s.goal \in Goals /\ t.goal = s.goal
  BY StateTypes DEF Reserved
<1>2. r \in Seq(Messages) /\ r # <<>> /\ ToSet(r) = ToSet(q) \cup {m}
      /\ Len(q) + 1 \in DOMAIN r /\ r[Len(q) + 1] = m
  BY <1>1, Queued
<1>3. m = Round(s.goal, m.key) /\ s.goal.rounds < s.goal.cap
  BY DEF Reserved
<1>4. m.from = "goal" /\ m.id = s.goal.id /\ m.rev = s.goal.rev /\ m.round = s.goal.rounds + 1
  BY <1>3 DEF Round
<1>5. Issued(m, s.goal)
  BY <1>1, <1>3, <1>4 DEF Issued, Goals
<1> HIDE DEF r
<1>6. About(t) \subseteq About(s) \cup {m}
  <2>1. CASE s.agent.pc = "maintenance"
    <3>1. t.agent = [s.agent EXCEPT !.nextTurn = r, !.wake = TRUE]
      BY <2>1 DEF Reserved, r
    <3>2. t.agent.nextTurn = r /\ t.agent.prompt = s.agent.prompt
      BY <3>1 DEF States, Agents
    <3> QED BY <3>2, <1>2 DEF About
  <2>2. CASE s.agent.pc # "maintenance"
    <3>1. t.agent.nextTurn = Tail(r) /\ t.agent.prompt = Head(r)
      BY <2>2 DEF Reserved, r
    <3>2. ToSet(r) = ToSet(Tail(r)) \cup {Head(r)}
      BY <1>2, Popped
    <3> QED BY <3>1, <3>2, <1>2 DEF About
  <2> QED BY <2>1, <2>2
<1>9. Ordered(t)
  <2>1. Apart(q, s.agent.prompt) /\ s.agent.prompt \in Messages /\ \A x \in About(s) : x # m
    BY StateTypes DEF Traced, Ordered, Reserved
  <2>2. Apart(r, s.agent.prompt) /\ Newest(r, m)
    BY <1>1, <2>1, ApartAppend, NewestAppend DEF About, r
  <2>3. t.drv.attempt.phase # "none" /\ t.drv.attempt.phase # "admitted"
    BY DEF Reserved
  <2>4. CASE s.agent.pc = "maintenance"
    <3>1. t.agent = [s.agent EXCEPT !.nextTurn = r, !.wake = TRUE]
      BY <2>4 DEF Reserved, r
    <3>2. t.agent.nextTurn = r /\ t.agent.prompt = s.agent.prompt
      BY <3>1 DEF States, Agents
    <3> QED BY <3>2, <2>2, <2>3, <1>4 DEF Ordered
  <2>5. CASE s.agent.pc # "maintenance"
    <3>1. t.agent.nextTurn = Tail(r) /\ t.agent.prompt = Head(r)
      BY <2>5 DEF Reserved, r
    <3>2. Apart(Tail(r), Head(r)) /\ Newest(Tail(r), m)
      BY <1>2, <2>2, ApartPop, NewestPop
    <3> QED BY <3>1, <3>2, <2>3, <1>4 DEF Ordered
  <2> QED BY <2>4, <2>5
<1>7. Traced(t)
  BY <1>1, <1>5, <1>6, <1>9 DEF Traced
<1>8. ASSUME t.agent.pc = "maintenance" PROVE Queues(t.agent.nextTurn, m)
  <2>1. s.agent.pc = "maintenance" /\ t.agent = [s.agent EXCEPT !.nextTurn = r, !.wake = TRUE]
    BY <1>8 DEF Reserved, r
  <2>2. t.agent.nextTurn = r
    BY <2>1 DEF States, Agents
  <2>3. SameRound(m, m)
    BY <1>4 DEF SameRound
  <2> QED BY <2>2, <2>3, <1>2 DEF Queues
<1> QED BY <1>7, <1>8

LEMMA ContinuedKeeps ==
  ASSUME NEW s \in States, NEW t \in States, Continued(s, t), Kept(s)
  PROVE  Kept(t)
<1>1. CASE Looped(s, t)
  BY <1>1 DEF Looped, Kept, Traced, Ordered, About, AtRest, InJob, Waits
<1>2. CASE Resolved(s, t)
  <2>1. t.goal = s.goal /\ t.agent = s.agent /\ t.drv.attempt = NoAttempt
    BY <1>2 DEF Resolved
  <2>2. NoAttempt.msg = NoMsg /\ NoAttempt.phase = "none" /\ About(t) = About(s)
    BY <2>1 DEF NoAttempt, About
  <2>3. Traced(t)
    BY <2>1, <2>2, TracedLater DEF Kept, Less
  <2>4. ~Waits(t)
    BY <2>1, <2>2 DEF Waits
  <2> QED BY <2>3, <2>4 DEF Kept, AtRest, InJob
<1>3. CASE Exhausted(s, t)
  <2>1. t.goal = [s.goal EXCEPT !.rev = @ + 1, !.phase = "blocked", !.armed = FALSE] /\ t.agent = s.agent
        /\ t.drv.attempt = s.drv.attempt
    BY <1>3 DEF Exhausted, Committed
  <2>2. t.goal.id = s.goal.id /\ t.goal.rev = s.goal.rev + 1 /\ ~Continuing(t.goal) /\ About(t) = About(s)
    BY <2>1 DEF States, Goals, Continuing, About
  <2>3. Traced(t)
    BY <2>1, <2>2, TracedLater DEF Kept, Less
  <2>4. ~Waits(t)
    BY <2>2 DEF Waits
  <2> QED BY <2>3, <2>4 DEF Kept, AtRest, InJob
<1>4. CASE Reserved(s, t)
  <2>1. Traced(t) /\ (t.agent.pc = "maintenance" => Queues(t.agent.nextTurn, t.drv.attempt.msg))
    BY <1>4, TracedReserved DEF Kept
  <2>2. t.agent.pc = "assemble" \/ (t.agent.pc = "maintenance" /\ t.agent.wake)
    BY <1>4 DEF Reserved, States, Agents
  <2> QED BY <2>1, <2>2 DEF Kept, AtRest, InJob
<1> QED BY <1>1, <1>2, <1>3, <1>4 DEF Continued

(* What a drive may do to the goal and the agent.                            *)
LEMMA ContinuedGoes ==
  ASSUME NEW s \in States, NEW t \in States, Continued(s, t)
  PROVE  /\ Goes(s.goal, t.goal) /\ t.drv.fiber = s.drv.fiber
         /\ ~Ready(s) => Looped(s, t)
         /\ \/ t.agent = s.agent
            \/ /\ Ready(s) /\ s.agent.pc = "maintenance" /\ t.agent.pc = "maintenance"
               /\ t.agent.nextStep = s.agent.nextStep /\ t.agent.batch = s.agent.batch
            \/ /\ Ready(s) /\ s.agent.pc = "idle" /\ t.agent.pc = "assemble" /\ ~t.agent.aborted
               /\ t.agent.batch = s.agent.nextStep
<1>1. CASE Looped(s, t)
  BY <1>1 DEF Looped, Goes
<1>2. CASE Resolved(s, t)
  BY <1>2 DEF Resolved, Goes
<1>3. CASE Exhausted(s, t)
  <2>1. t.goal = [s.goal EXCEPT !.rev = @ + 1, !.phase = "blocked", !.armed = FALSE] /\ t.agent = s.agent
        /\ t.drv.fiber = s.drv.fiber /\ Ready(s)
    BY <1>3 DEF Exhausted, Committed
  <2>2. Goes(s.goal, t.goal)
    BY <2>1 DEF States, Goals, Continuing, Goes
  <2> QED BY <2>1, <2>2
<1>4. CASE Reserved(s, t)
  <2>1. Goes(s.goal, t.goal) /\ t.drv.fiber = s.drv.fiber /\ Ready(s)
    BY <1>4 DEF Reserved, Goes
  <2>2. \/ /\ s.agent.pc = "maintenance" /\ t.agent.pc = "maintenance"
           /\ t.agent.nextStep = s.agent.nextStep /\ t.agent.batch = s.agent.batch
        \/ /\ s.agent.pc = "idle" /\ t.agent.pc = "assemble" /\ ~t.agent.aborted
           /\ t.agent.batch = s.agent.nextStep
    BY <1>4 DEF Reserved, States, Agents
  <2> QED BY <2>1, <2>2
<1> QED BY <1>1, <1>2, <1>3, <1>4 DEF Continued

-----------------------------------------------------------------------------
(* The end of a turn.                                                        *)
Bound(s) == s.drv.attempt.phase # "none" => OwnsGoal(s.drv.attempt, s.goal)

LEMMA OnIdleEffect ==
  ASSUME NEW s \in States, Able(s), Traced(s), s.agent.pc = "idle"
  PROVE  LET t == OnIdle(s)
         IN  /\ t \in States /\ Kept(t) /\ Goes(s.goal, t.goal) /\ t.drv.fiber = s.drv.fiber
             /\ s.drv.attempt.cancelled /\ OwnsGoal(s.drv.attempt, s.goal) => ~Continuing(t.goal)
             /\ \/ t.agent = s.agent
                \/ t.agent.pc = "assemble" /\ ~t.agent.aborted /\ t.agent.batch = s.agent.nextStep
<1> DEFINE a == s.drv.attempt
           u == [s EXCEPT !.drv.competing = FALSE]
           v == [u EXCEPT !.drv.attempt = NoAttempt]
           dropped == /\ a.phase \in {"queued", "claimed"} \/ a.cancelled
                      /\ Continuing(s.goal)
                      /\ OwnsGoal(a, s.goal)
           w == IF dropped THEN Commit(v, "paused", FALSE) ELSE u
           t == OnIdle(s)
<1>1. /\ u \in States /\ u.goal = s.goal /\ u.agent = s.agent /\ u.drv.attempt = a
      /\ u.drv.fiber = s.drv.fiber /\ u.drv.run = s.drv.run /\ u.drv.loops = s.drv.loops
  BY DEF States, Drivers
<1>2. /\ v \in States /\ v.goal = s.goal /\ v.agent = s.agent /\ v.drv.attempt = NoAttempt
      /\ v.drv.fiber = s.drv.fiber /\ v.drv.run = s.drv.run /\ v.drv.loops = s.drv.loops
  BY <1>1, MsgTypes DEF States, Drivers
<1>3. t = RequestDrive(w)
  BY DEF OnIdle
<1>4. Able(u) /\ Able(v)
  BY <1>1, <1>2 DEF Able, Room, Free
<1> HIDE DEF u, v, t
<1>5. /\ w \in States /\ Able(w) /\ Kept(w) /\ Goes(s.goal, w.goal) /\ w.agent = s.agent
      /\ w.drv.fiber = s.drv.fiber
      /\ a.cancelled /\ OwnsGoal(a, s.goal) => ~Continuing(w.goal)
  <2>1. CASE dropped
    <3>1. w = Commit(v, "paused", FALSE)
      BY <2>1
    <3>2. w \in States /\ Committed(v, w, "paused") /\ (v.drv.fiber = "active" => w.drv.run # 0)
      BY <3>1, <1>2, <1>4, AbleStarts, CommitEffect
    <3> HIDE DEF w
    <3>3. w.goal = [s.goal EXCEPT !.rev = @ + 1, !.phase = "paused", !.armed = FALSE] /\ w.agent = s.agent
          /\ w.drv.attempt = NoAttempt /\ w.drv.fiber = s.drv.fiber
      BY <3>2, <1>2 DEF Committed
    <3>4. w.goal.id = s.goal.id /\ w.goal.rev = s.goal.rev + 1 /\ ~Continuing(w.goal)
          /\ Goes(s.goal, w.goal) /\ About(w) = About(s)
      BY <3>3 DEF States, Goals, Continuing, About, Goes
    <3>5. w.drv.attempt.msg = NoMsg /\ w.drv.attempt.phase = "none"
      BY <3>3 DEF NoAttempt
    <3>6. Traced(w)
      BY <3>2, <3>3, <3>4, <3>5, TracedLater DEF Less
    <3>7. Kept(w)
      BY <3>4, <3>6 DEF Kept, AtRest, InJob, Waits
    <3>8. Able(w)
      BY <3>2, <3>3, <1>2 DEF Able
    <3> QED BY <3>2, <3>3, <3>4, <3>7, <3>8
  <2>2. CASE ~dropped
    <3>1. w = u
      BY <2>2
    <3>2. Traced(u)
      BY <1>1 DEF Traced, Ordered, About
    <3>3. ~Waits(u)
      BY <2>2, <1>1 DEF Waits
    <3>4. Goes(s.goal, u.goal)
      BY <1>1 DEF Goes
    <3>5. a.cancelled /\ OwnsGoal(a, s.goal) => ~Continuing(u.goal)
      BY <2>2, <1>1
    <3> HIDE DEF w, dropped
    <3> QED BY <3>1, <3>2, <3>3, <3>4, <3>5, <1>1, <1>4 DEF Kept, AtRest, InJob
  <2> QED BY <2>1, <2>2
<1> HIDE DEF w
<1>6. t \in States /\ Continued(w, t)
  BY <1>3, <1>5, RequestDriveEffect
<1>7. Kept(t)
  BY <1>5, <1>6, ContinuedKeeps
<1>8. /\ Goes(w.goal, t.goal) /\ t.drv.fiber = w.drv.fiber
      /\ \/ t.agent = w.agent
         \/ t.agent.pc = "assemble" /\ ~t.agent.aborted /\ t.agent.batch = w.agent.nextStep
  BY <1>5, <1>6, ContinuedGoes
<1>9. Goes(s.goal, t.goal)
  BY <1>5, <1>8, GoesTwice
<1>10. a.cancelled /\ OwnsGoal(a, s.goal) => ~Continuing(t.goal)
  BY <1>5, <1>8 DEF Goes
<1> QED BY <1>5, <1>6, <1>7, <1>8, <1>9, <1>10 DEF t

(* The end of a turn: the goal goes no further and no context is lost.       *)
Ended(s, t) ==
  /\ t \in States /\ Kept(t) /\ Goes(s.goal, t.goal) /\ t.drv.fiber = s.drv.fiber
  /\ t.agent.pc \in {"idle", "assemble"} /\ ~t.agent.aborted
  /\ s.agent.nextStep \subseteq t.agent.nextStep \cup t.agent.batch

LEMMA RetireEffect ==
  ASSUME NEW s \in States, Able(s), Traced(s)
  PROVE  LET t == Retire(s)
         IN  /\ Ended(s, t)
             /\ s.drv.fiber # "closed" /\ s.drv.attempt.cancelled /\ OwnsGoal(s.drv.attempt, s.goal)
                  => ~Continuing(t.goal)
<1> DEFINE r == [s EXCEPT !.agent = [@ EXCEPT !.pc = "idle", !.prompt = NoMsg, !.batch = {},
                                              !.aborted = FALSE, !.wake = FALSE]]
           u == IF r.drv.fiber = "closed" THEN r ELSE OnIdle(r)
           t == Retire(s)
<1>1. /\ r \in States /\ r.goal = s.goal /\ r.drv = s.drv /\ r.agent.pc = "idle" /\ ~r.agent.aborted
      /\ r.agent.nextStep = s.agent.nextStep /\ r.agent.nextTurn = s.agent.nextTurn /\ r.agent.prompt = NoMsg
  BY MsgTypes DEF States, Agents
<1>2. t = IF s.agent.wake /\ u.agent.pc = "idle" /\ Pending(u) THEN OpenTurn(u) ELSE u
  BY DEF Retire
<1> HIDE DEF r, t
<1>3. Traced(r) /\ Able(r)
  <2>1. About(r) \subseteq About(s) \cup {NoMsg}
    BY <1>1 DEF About
  <2>2. Traced(r)
    BY <1>1, <2>1, TracedLater DEF Less
  <2> QED BY <2>2, <1>1 DEF Able, Room, Free
<1>4. /\ Ended(s, u) /\ (u.agent.pc = "idle" => u.agent.nextStep = s.agent.nextStep)
      /\ s.drv.fiber # "closed" /\ s.drv.attempt.cancelled /\ OwnsGoal(s.drv.attempt, s.goal)
           => ~Continuing(u.goal)
  <2>1. CASE s.drv.fiber = "closed"
    <3>1. u = r
      BY <2>1, <1>1
    <3>2. Kept(r)
      BY <2>1, <1>1, <1>3 DEF Kept, AtRest, InJob, Waits
    <3> QED BY <2>1, <3>1, <3>2, <1>1 DEF Ended, Goes
  <2>2. CASE s.drv.fiber # "closed"
    <3>1. u = OnIdle(r)
      BY <2>2, <1>1
    <3> HIDE DEF u
    <3>2. /\ u \in States /\ Kept(u) /\ Goes(r.goal, u.goal) /\ u.drv.fiber = r.drv.fiber
          /\ r.drv.attempt.cancelled /\ OwnsGoal(r.drv.attempt, r.goal) => ~Continuing(u.goal)
          /\ \/ u.agent = r.agent
             \/ u.agent.pc = "assemble" /\ ~u.agent.aborted /\ u.agent.batch = r.agent.nextStep
      BY <3>1, <1>1, <1>3, OnIdleEffect
    <3> QED BY <3>2, <1>1 DEF Ended
  <2> QED BY <2>1, <2>2
<1> HIDE DEF u
<1>5. CASE t = u
  BY <1>4, <1>5 DEF t
<1>6. CASE u.agent.pc = "idle" /\ t = OpenTurn(u)
  <2>1. u \in States /\ Traced(u)
    BY <1>4 DEF Ended, Kept
  <2>2. t \in States /\ Opened(u, t)
    BY <2>1, <1>6, OpenTurnEffect
  <2>3. Kept(t)
    BY <2>1, <2>2, KeptOpened
  <2>4. t.goal = u.goal /\ t.drv.fiber = u.drv.fiber /\ t.agent.pc = "assemble" /\ ~t.agent.aborted
        /\ t.agent.batch = u.agent.nextStep
    BY <2>2 DEF Opened
  <2> QED BY <1>4, <1>6, <2>2, <2>3, <2>4 DEF Ended, t
<1> QED BY <1>2, <1>5, <1>6

LEMMA SettledEffect ==
  ASSUME NEW s \in States, NEW kind
  PROVE  LET t == Settled(s, kind)
         IN  /\ t \in States /\ t.agent = s.agent /\ Goes(s.goal, t.goal)
             /\ t.goal.rev = s.goal.rev /\ t.goal.cap = s.goal.cap
             /\ t.drv.fiber = s.drv.fiber /\ t.drv.attempt.msg = s.drv.attempt.msg
             /\ t.drv.attempt.phase = s.drv.attempt.phase
             /\ t.drv.run = s.drv.run /\ t.drv.loops = s.drv.loops
             /\ s.drv.fiber # "closed" /\ kind \in {"max-tokens", "error"} => ~Continuing(t.goal)
             /\ s.drv.fiber # "closed" /\ kind = "aborted" /\ Bound(s)
                  => ~Continuing(t.goal) \/ (t.drv.attempt.cancelled /\ OwnsGoal(t.drv.attempt, t.goal))
<1> DEFINE t == Settled(s, kind)
<1>1. CASE t = s /\ (s.drv.fiber = "closed" \/ kind \notin {"max-tokens", "error", "aborted"})
  <2> HIDE DEF t
  <2> QED BY <1>1 DEF Goes, t
<1>2. CASE t = Disarmed(s)
  <2>1. t = [s EXCEPT !.goal.armed = FALSE]
    BY <1>2 DEF Disarmed
  <2> HIDE DEF t
  <2>2. t \in States /\ t.agent = s.agent /\ t.drv = s.drv /\ ~Continuing(t.goal)
        /\ t.goal.rev = s.goal.rev /\ t.goal.cap = s.goal.cap
        /\ t.goal.id = s.goal.id /\ t.goal.rounds = s.goal.rounds /\ t.goal.failed = s.goal.failed
    BY <2>1 DEF States, Goals, Continuing
  <2> QED BY <2>2 DEF Goes, t
<1>3. CASE t = [s EXCEPT !.drv.attempt.cancelled = TRUE] /\ s.drv.attempt.phase \in {"claimed", "admitted"}
           /\ kind = "aborted"
  <2> HIDE DEF t
  <2>1. t \in States /\ t.agent = s.agent /\ t.goal = s.goal /\ t.drv.fiber = s.drv.fiber
        /\ t.drv.attempt.msg = s.drv.attempt.msg /\ t.drv.attempt.cancelled
        /\ t.drv.attempt.phase = s.drv.attempt.phase
        /\ t.drv.run = s.drv.run /\ t.drv.loops = s.drv.loops
    BY <1>3 DEF States, Drivers, Attempts
  <2>2. Bound(s) => OwnsGoal(t.drv.attempt, t.goal)
    BY <1>3, <2>1 DEF Bound, OwnsGoal
  <2>3. Goes(s.goal, t.goal)
    BY <2>1 DEF Goes
  <2> HIDE <1>3
  <2> QED BY <1>3, <2>1, <2>2, <2>3 DEF t
<1>4. \/ t = s /\ (s.drv.fiber = "closed" \/ kind \notin {"max-tokens", "error", "aborted"})
      \/ t = Disarmed(s)
      \/ t = [s EXCEPT !.drv.attempt.cancelled = TRUE] /\ s.drv.attempt.phase \in {"claimed", "admitted"}
         /\ kind = "aborted"
  BY DEF Settled
<1> HIDE DEF t
<1> QED BY <1>1, <1>2, <1>3, <1>4 DEF t

LEMMA EndTurnEffect ==
  ASSUME NEW s \in States, Able(s), Traced(s), NEW kind
  PROVE  LET t == EndTurn(s, kind)
         IN  /\ Ended(s, t)
             /\ s.drv.fiber # "closed" /\ kind \in {"max-tokens", "error"} => ~Continuing(t.goal)
             /\ s.drv.fiber # "closed" /\ kind = "aborted" /\ Bound(s) => ~Continuing(t.goal)
<1> DEFINE u == Settled(s, kind)
           t == EndTurn(s, kind)
<1>1. /\ u \in States /\ u.agent = s.agent /\ Goes(s.goal, u.goal)
      /\ u.goal.rev = s.goal.rev /\ u.goal.cap = s.goal.cap
      /\ u.drv.fiber = s.drv.fiber /\ u.drv.attempt.msg = s.drv.attempt.msg
      /\ u.drv.attempt.phase = s.drv.attempt.phase
      /\ u.drv.run = s.drv.run /\ u.drv.loops = s.drv.loops
      /\ s.drv.fiber # "closed" /\ kind \in {"max-tokens", "error"} => ~Continuing(u.goal)
      /\ s.drv.fiber # "closed" /\ kind = "aborted" /\ Bound(s)
           => ~Continuing(u.goal) \/ (u.drv.attempt.cancelled /\ OwnsGoal(u.drv.attempt, u.goal))
  BY SettledEffect
<1>2. t = IF kind \in {"completed", "max-tokens"} /\ Pending(s) THEN OpenTurn(u) ELSE Retire(u)
  BY DEF EndTurn
<1> HIDE DEF u, t
<1>3. Traced(u) /\ Able(u)
  <2>1. About(u) = About(s) /\ u.goal.id = s.goal.id
    BY <1>1 DEF About, Goes
  <2>2. Traced(u)
    BY <1>1, <2>1, TracedLater DEF Less
  <2> QED BY <2>2, <1>1 DEF Able, Room, Free
<1>4. CASE kind # "aborted" /\ t = OpenTurn(u)
  <2>1. t \in States /\ Opened(u, t)
    BY <1>1, <1>4, OpenTurnEffect
  <2>2. Kept(t)
    BY <1>1, <1>3, <2>1, KeptOpened
  <2>3. t.goal = u.goal /\ t.drv.fiber = u.drv.fiber /\ t.agent.pc = "assemble" /\ ~t.agent.aborted
        /\ t.agent.batch = u.agent.nextStep
    BY <2>1 DEF Opened
  <2> QED BY <1>1, <1>4, <2>1, <2>2, <2>3 DEF Ended, t
<1>5. CASE t = Retire(u)
  <2>1. /\ Ended(u, t)
        /\ u.drv.fiber # "closed" /\ u.drv.attempt.cancelled /\ OwnsGoal(u.drv.attempt, u.goal)
             => ~Continuing(t.goal)
    BY <1>1, <1>3, <1>5, RetireEffect
  <2>2. Goes(s.goal, t.goal)
    BY <1>1, <2>1, GoesTwice DEF Ended
  <2>3. Continuing(t.goal) => Continuing(u.goal)
    BY <2>1 DEF Ended, Goes
  <2> QED BY <1>1, <2>1, <2>2, <2>3 DEF Ended, t
<1>6. t = Retire(u) \/ (kind # "aborted" /\ t = OpenTurn(u))
  BY <1>2
<1> QED BY <1>4, <1>5, <1>6

-----------------------------------------------------------------------------
(* What the fence puts back, what a cancel leaves and what a prompt adds.    *)
LEMMA RestoreEffect ==
  ASSUME NEW s \in States
  PROVE  LET t == RestoreOthers(s)
         IN  /\ t \in States /\ t.goal = s.goal /\ t.drv = s.drv /\ About(t) = About(s)
             /\ t.agent = [s.agent EXCEPT !.nextStep = s.agent.batch \cup @]
             /\ s.agent.batch \subseteq t.agent.nextStep
<1> DEFINE n == s.agent.batch \cup s.agent.nextStep
           t == RestoreOthers(s)
<1>1. n \in SUBSET Contexts /\ s.agent.batch \subseteq n
  BY StateTypes
<1>2. t = [s EXCEPT !.agent.nextStep = n]
  BY DEF RestoreOthers
<1> HIDE DEF n, t
<1>3. t \in States /\ t.goal = s.goal /\ t.drv = s.drv /\ t.agent = [s.agent EXCEPT !.nextStep = n]
      /\ t.agent.nextStep = n /\ t.agent.nextTurn = s.agent.nextTurn /\ t.agent.prompt = s.agent.prompt
  BY <1>1, <1>2 DEF States, Agents
<1> QED BY <1>1, <1>3 DEF About, n, t

(* What the fence leaves of a batch it rejects: nothing of it is lost.       *)
Rejected(s, t) ==
  /\ t \in States /\ Able(t) /\ Traced(t) /\ t.goal = s.goal /\ t.drv.fiber = s.drv.fiber
  /\ s.agent.batch \subseteq t.agent.nextStep

LEMMA ForgetEffect ==
  ASSUME NEW s \in States, Traced(s)
  PROVE  LET t == [s EXCEPT !.drv.attempt = NoAttempt]
         IN  /\ t \in States /\ Traced(t) /\ t.goal = s.goal /\ t.agent = s.agent /\ ~Waits(t)
             /\ t.drv.fiber = s.drv.fiber /\ t.drv.run = s.drv.run /\ t.drv.loops = s.drv.loops
             /\ t.drv.attempt = NoAttempt /\ t.drv.competing = s.drv.competing
<1> DEFINE t == [s EXCEPT !.drv.attempt = NoAttempt]
<1>1. /\ t \in States /\ t.goal = s.goal /\ t.agent = s.agent /\ t.drv.attempt = NoAttempt
      /\ t.drv.fiber = s.drv.fiber /\ t.drv.run = s.drv.run /\ t.drv.loops = s.drv.loops
      /\ t.drv.competing = s.drv.competing
  BY MsgTypes DEF States, Drivers
<1> HIDE DEF t
<1>2. NoAttempt.msg = NoMsg /\ NoAttempt.phase = "none" /\ About(t) = About(s)
  BY <1>1 DEF NoAttempt, About
<1>3. Traced(t)
  BY <1>1, <1>2, TracedLater DEF Less
<1>4. ~Waits(t)
  BY <1>1, <1>2 DEF Waits
<1> QED BY <1>1, <1>3, <1>4 DEF t

LEMMA RedriveEffect ==
  ASSUME NEW s \in States, Able(s), Traced(s), Running(s)
  PROVE  LET t == RequestDrive(s)
         IN  t \in States /\ Able(t) /\ Traced(t) /\ Looped(s, t)
<1> DEFINE t == RequestDrive(s)
<1>1. ~Ready(s)
  BY DEF Running, RunningPCs, Ready
<1>2. t \in States /\ Looped(s, t) /\ (s.drv.fiber = "active" => t.drv.run # 0)
  BY <1>1, RequestDriveEffect
<1> HIDE DEF t
<1>3. Able(t)
  BY <1>2 DEF Able, Looped
<1>4. Traced(t)
  BY <1>2 DEF Traced, Ordered, Looped, About
<1> QED BY <1>2, <1>3, <1>4 DEF t

LEMMA PutBackEffect ==
  ASSUME NEW s \in States, Able(s), Traced(s), Running(s)
  PROVE  Rejected(s, RequestDrive(RestoreOthers(s)))
<1> DEFINE u == RestoreOthers(s)  t == RequestDrive(u)
<1>1. /\ u \in States /\ u.goal = s.goal /\ u.drv = s.drv /\ About(u) = About(s)
      /\ u.agent = [s.agent EXCEPT !.nextStep = s.agent.batch \cup @]
      /\ s.agent.batch \subseteq u.agent.nextStep
  BY RestoreEffect
<1> HIDE DEF u
<1>2. Able(u) /\ Traced(u)
  BY <1>1 DEF Able, Room, Free, Traced, Ordered
<1>3. Running(u)
  BY <1>1 DEF Running, States, Agents
<1>4. t \in States /\ Able(t) /\ Traced(t) /\ Looped(u, t)
  BY <1>1, <1>2, <1>3, RedriveEffect
<1> QED BY <1>1, <1>4 DEF Rejected, Looped, u

LEMMA DroppedEffect ==
  ASSUME NEW s \in States, Able(s), Traced(s), Running(s)
  PROVE  Rejected(s, Dropped(s)) /\ Rejected(s, FirstRejected(s))
<1> DEFINE u == [s EXCEPT !.drv.attempt = NoAttempt]
<1>1. /\ u \in States /\ Traced(u) /\ u.goal = s.goal /\ u.agent = s.agent
      /\ u.drv.fiber = s.drv.fiber /\ u.drv.run = s.drv.run /\ u.drv.loops = s.drv.loops
  BY ForgetEffect
<1>2. Dropped(s) = RequestDrive(RestoreOthers(u))
  BY DEF Dropped
<1> HIDE DEF u
<1>3. Able(u) /\ Running(u)
  BY <1>1 DEF Able, Room, Free, Running
<1>4. Rejected(u, Dropped(s))
  BY <1>1, <1>2, <1>3, PutBackEffect
<1>5. Rejected(s, Dropped(s))
  BY <1>1, <1>4 DEF Rejected
<1>6. Rejected(s, RequestDrive(RestoreOthers(s)))
  BY PutBackEffect
<1> QED BY <1>5, <1>6 DEF FirstRejected

LEMMA VetoedEffect ==
  ASSUME NEW s \in States, Able(s), Traced(s)
  PROVE  LET t == Vetoed(s)
         IN  /\ t \in States /\ Able(t) /\ Traced(t) /\ Goes(s.goal, t.goal) /\ t.drv.fiber = s.drv.fiber
             /\ Blocks(s) => ~Continuing(t.goal)
<1> DEFINE u == [s EXCEPT !.drv.attempt = NoAttempt]
           t == Vetoed(s)
<1>1. /\ u \in States /\ Traced(u) /\ u.goal = s.goal /\ u.agent = s.agent
      /\ u.drv.fiber = s.drv.fiber /\ u.drv.run = s.drv.run /\ u.drv.loops = s.drv.loops
  BY ForgetEffect
<1>2. Able(u)
  BY <1>1 DEF Able, Room, Free
<1>3. t = IF ~Fenced(s) THEN s ELSE IF Blocks(s) THEN Commit(u, "blocked", FALSE) ELSE u
  BY DEF Vetoed
<1> HIDE DEF u, t
<1>4. CASE ~Blocks(s)
  <2>1. t = s \/ t = u
    BY <1>3, <1>4
  <2> QED BY <1>1, <1>2, <1>4, <2>1 DEF Goes, t
<1>5. CASE Blocks(s)
  <2>1. t = Commit(u, "blocked", FALSE)
    BY <1>3, <1>5 DEF Blocks
  <2>2. t \in States /\ Committed(u, t, "blocked") /\ (u.drv.fiber = "active" => t.drv.run # 0)
    BY <2>1, <1>1, <1>2, AbleStarts, CommitEffect
  <2>3. t.goal = [s.goal EXCEPT !.rev = @ + 1, !.phase = "blocked", !.armed = FALSE] /\ t.agent = s.agent
        /\ t.drv.attempt = u.drv.attempt /\ t.drv.fiber = s.drv.fiber
    BY <2>2, <1>1 DEF Committed
  <2>4. t.goal.id = u.goal.id /\ t.goal.rev = u.goal.rev + 1 /\ ~Continuing(t.goal)
        /\ Goes(s.goal, t.goal) /\ About(t) = About(u)
    BY <1>1, <2>3 DEF States, Goals, Continuing, About, Goes
  <2>5. Traced(t)
    BY <1>1, <2>2, <2>3, <2>4, TracedLater DEF Less
  <2>6. Able(t)
    BY <1>1, <2>2, <2>3 DEF Able
  <2> QED BY <2>2, <2>3, <2>4, <2>5, <2>6 DEF t
<1> QED BY <1>4, <1>5

LEMMA CancelledEffect ==
  ASSUME NEW s \in States, NEW keepInbox \in BOOLEAN
  PROVE  LET t == Cancelled(s, keepInbox)
         IN  /\ t \in States /\ t.goal = s.goal /\ (Traced(s) => Traced(t)) /\ (Kept(s) => Kept(t))
             /\ t.agent.pc = s.agent.pc /\ t.agent.prompt = s.agent.prompt
             /\ t.agent.aborted = (s.agent.pc # "idle")
             /\ t.drv.fiber = s.drv.fiber /\ t.drv.attempt.phase = s.drv.attempt.phase
             /\ t.drv.attempt.msg = s.drv.attempt.msg
             /\ t.drv.run = s.drv.run /\ t.drv.loops = s.drv.loops /\ t.drv.checkpoint = s.drv.checkpoint
             /\ s.drv.attempt.cancelled => t.drv.attempt.cancelled
             /\ ~s.drv.attempt.cancelled /\ t.drv.attempt.cancelled
                  => Queues(s.agent.nextTurn, s.drv.attempt.msg)
<1> DEFINE q == s.agent.nextTurn
           mine == \E m \in ToSet(q) : SameRound(m, s.drv.attempt.msg)
           t == Cancelled(s, keepInbox)
<1>1. mine <=> Queues(q, s.drv.attempt.msg)
  BY DEF ToSet, Queues
<1>2. CASE keepInbox
  <2>1. t = [s EXCEPT !.agent.aborted = (s.agent.pc # "idle")]
    BY <1>2 DEF Cancelled
  <2> HIDE DEF t
  <2>2. /\ t \in States /\ t.goal = s.goal /\ t.drv = s.drv /\ t.agent.pc = s.agent.pc
        /\ t.agent.prompt = s.agent.prompt /\ t.agent.aborted = (s.agent.pc # "idle")
        /\ t.agent.nextTurn = q /\ t.agent.wake = s.agent.wake
    BY <2>1 DEF States, Agents
  <2>3. (Traced(s) => Traced(t)) /\ (Kept(s) => Kept(t))
    BY <2>2 DEF Kept, Traced, Ordered, About, AtRest, InJob, Waits
  <2> QED BY <2>2, <2>3 DEF t
<1>3. CASE ~keepInbox
  <2> DEFINE c == s.drv.attempt.cancelled \/ mine
  <2>1. t = [s EXCEPT !.agent.nextTurn = <<>>, !.agent.nextStep = {}, !.agent.wake = FALSE,
                      !.drv.attempt.cancelled = c, !.agent.aborted = (s.agent.pc # "idle")]
    BY <1>3 DEF Cancelled
  <2>2. c \in BOOLEAN
    BY DEF States, Drivers, Attempts
  <2> HIDE DEF t, mine, c
  <2>3. /\ t \in States /\ t.goal = s.goal /\ t.agent.pc = s.agent.pc
        /\ t.agent.prompt = s.agent.prompt /\ t.agent.aborted = (s.agent.pc # "idle")
        /\ t.agent.nextTurn = <<>>
    <3>1. <<>> \in Seq(Messages) /\ {} \in SUBSET Contexts
      OBVIOUS
    <3>2. t \in States
      <4>1. t.drv = [s.drv EXCEPT !.attempt.cancelled = c] /\ t.goal = s.goal
        BY <2>1 DEF States
      <4>2. t.agent = [s.agent EXCEPT !.nextTurn = <<>>, !.nextStep = {}, !.wake = FALSE,
                                      !.aborted = (s.agent.pc # "idle")]
        BY <2>1 DEF States
      <4>3. t.drv \in Drivers
        BY <4>1, <2>2 DEF States, Drivers, Attempts
      <4>4. t.agent \in Agents
        BY <4>2, <3>1 DEF States, Agents
      <4>5. t = [goal |-> t.goal, drv |-> t.drv, agent |-> t.agent]
        BY <2>1 DEF States
      <4> QED BY <4>1, <4>3, <4>4, <4>5 DEF States
    <3> QED BY <3>2, <2>1, ZenonT(60) DEF States, Agents
  <2>4. /\ t.drv.fiber = s.drv.fiber /\ t.drv.attempt.phase = s.drv.attempt.phase
        /\ t.drv.attempt.msg = s.drv.attempt.msg /\ t.drv.attempt.cancelled = c
        /\ t.drv.run = s.drv.run /\ t.drv.loops = s.drv.loops /\ t.drv.checkpoint = s.drv.checkpoint
    BY <2>1, <2>2 DEF States, Drivers, Attempts
  <2>5. About(t) \subseteq About(s)
    <3>1. ToSet(<<>>) = {}
      BY DEF ToSet
    <3> QED BY <3>1, <2>3 DEF About
  <2>6. Traced(s) => Traced(t)
    BY <2>3, <2>4, <2>5, TracedLater DEF Less
  <2>7. Kept(s) => Kept(t)
    <3>1. Waits(t) => Waits(s) /\ ~mine
      BY <2>3, <2>4 DEF Waits, c, OwnsGoal
    <3> QED BY <3>1, <2>3, <2>6, <1>1 DEF Kept, AtRest, InJob
  <2> QED BY <2>3, <2>4, <2>6, <2>7, <1>1 DEF t, c
<1> QED BY <1>2, <1>3

LEMMA PromptEffect ==
  ASSUME NEW s \in States, NEW m \in Messages, m.from = "human", Kept(s)
  PROVE  LET t == WakeDriver(Insert(s, m))
         IN  /\ t \in States /\ Kept(t) /\ t.goal = s.goal /\ t.drv.fiber = s.drv.fiber
             /\ \/ s.agent.pc = "idle" /\ t.agent.pc = "assemble"
                \/ /\ t.agent.pc = s.agent.pc /\ t.agent.prompt = s.agent.prompt
                   /\ t.agent.aborted = s.agent.aborted
                   /\ t.drv.attempt.phase = s.drv.attempt.phase /\ t.drv.attempt.msg = s.drv.attempt.msg
<1> DEFINE q == Append(s.agent.nextTurn, m)
           st == s.drv.attempt.stale \/ s.drv.attempt.phase = "queued"
           u == Insert(s, m)
           t == WakeDriver(u)
<1>1. s.agent.nextTurn \in Seq(Messages) /\ q \in Seq(Messages) /\ ToSet(q) = ToSet(s.agent.nextTurn) \cup {m}
      /\ \A i \in DOMAIN s.agent.nextTurn : i \in DOMAIN q /\ q[i] = s.agent.nextTurn[i]
  BY StateTypes, Queued
<1>2. ~SameRound(m, s.drv.attempt.msg) /\ st \in BOOLEAN
  BY DEF SameRound, States, Drivers, Attempts
<1>3. u = [s EXCEPT !.agent.nextTurn = q, !.drv.competing = TRUE, !.drv.attempt.stale = st]
  BY <1>2 DEF Insert
<1> HIDE DEF q, st, u
<1>4. /\ u \in States /\ u.goal = s.goal /\ u.agent = [s.agent EXCEPT !.nextTurn = q]
      /\ u.drv.fiber = s.drv.fiber /\ u.drv.attempt.phase = s.drv.attempt.phase
      /\ u.drv.attempt.msg = s.drv.attempt.msg /\ u.drv.attempt.cancelled = s.drv.attempt.cancelled
  BY <1>1, <1>2, <1>3 DEF States, Drivers, Attempts, Agents
<1>5. /\ u.agent.nextTurn = q /\ u.agent.prompt = s.agent.prompt /\ u.agent.pc = s.agent.pc
      /\ u.agent.aborted = s.agent.aborted /\ u.agent.wake = s.agent.wake
  BY <1>4 DEF States, Agents
<1>6. Issued(m, s.goal)
  BY DEF Issued
<1>11. Ordered(u)
  <2>1. /\ Ordered(s) /\ s.agent.prompt \in Messages /\ s.drv.attempt.msg \in Messages
    BY StateTypes DEF Kept, Traced
  <2>2. Apart(q, s.agent.prompt)
    BY <1>1, <2>1, ApartHuman DEF Ordered, q
  <2>3. Newest(q, s.drv.attempt.msg) /\ (Queues(q, s.drv.attempt.msg) => Queues(s.agent.nextTurn, s.drv.attempt.msg))
    BY <1>1, <1>2, <2>1, NewestOther DEF Ordered, q
  <2> QED BY <1>4, <1>5, <2>1, <2>2, <2>3 DEF Ordered
<1>7. Traced(u)
  BY <1>1, <1>4, <1>5, <1>6, <1>11 DEF Traced, About, Kept
<1>8. Waits(u) <=> Waits(s)
  BY <1>4 DEF Waits, OwnsGoal
<1>9. CASE s.agent.pc = "idle"
  <2>1. t = OpenTurn(u)
    BY <1>5, <1>9 DEF WakeDriver
  <2> HIDE DEF t
  <2>2. t \in States /\ Opened(u, t)
    BY <1>4, <2>1, OpenTurnEffect
  <2>3. Kept(t)
    BY <1>4, <1>7, <2>2, KeptOpened
  <2> QED BY <1>4, <1>9, <2>2, <2>3 DEF Opened, t, u
<1>10. CASE s.agent.pc # "idle"
  <2> DEFINE w == u.agent.wake \/ u.agent.pc = "maintenance" \/ u.agent.aborted
  <2>1. t = [u EXCEPT !.agent.wake = w] /\ w \in BOOLEAN
    BY <1>4, <1>5, <1>10 DEF WakeDriver, States, Agents
  <2> HIDE DEF t, w
  <2>2. /\ t \in States /\ t.goal = u.goal /\ t.drv = u.drv /\ t.agent.nextTurn = q
        /\ t.agent.prompt = s.agent.prompt /\ t.agent.pc = s.agent.pc /\ t.agent.aborted = s.agent.aborted
        /\ t.agent.wake = w
    BY <2>1, <1>4, <1>5 DEF States, Agents
  <2>3. Traced(t)
    BY <2>2, <1>5, <1>7 DEF Traced, Ordered, About
  <2>4. Waits(t) => Waits(s)
    BY <2>2, <1>8 DEF Waits
  <2>5. InJob(t)
    <3>1. SUFFICES ASSUME s.agent.pc = "maintenance", Waits(s)
                   PROVE  w /\ Queues(q, s.drv.attempt.msg)
      BY <2>2, <2>4, <1>4 DEF InJob
    <3>2. s.agent.wake /\ Queues(s.agent.nextTurn, s.drv.attempt.msg)
      BY <3>1 DEF Kept, InJob
    <3> QED BY <3>2, <1>1, <1>5 DEF w, Queues, q
  <2>6. AtRest(t)
    BY <2>2, <1>10 DEF AtRest
  <2> QED BY <2>2, <2>3, <2>5, <2>6, <1>4 DEF Kept, t, u
<1> QED BY <1>9, <1>10

-----------------------------------------------------------------------------
(* The inductive invariant, with the history `h` that a state comes with.    *)

(* A round past the fence holds the attempt, ...                             *)
OuterHeld(s) ==
  s.agent.pc = "outer" /\ s.agent.prompt.from = "goal" /\ s.drv.fiber = "active"
    => s.drv.attempt.phase # "none"

(* ... is still the next one if nobody has revised the goal, ...             *)
OuterNext(s, h) ==
  s.agent.pc = "outer" /\ s.agent.prompt.from = "goal" /\ s.drv.fiber # "closed" /\ ~h.window
    => s.goal.phase = "active" /\ IsNext(s.agent.prompt, s.goal)

(* ... and is aborted by what stops automatic work, but for a late failure.  *)
Barred(s, h) ==
  h.quelled /\ s.agent.pc = "outer" /\ s.agent.prompt.from = "goal" /\ s.drv.fiber # "closed"
  /\ s.goal.phase = "active" /\ IsNext(s.agent.prompt, s.goal)
    => s.agent.aborted \/ h.slipped

(* A stop leaves the goal armed only where the end of an aborted turn will   *)
(* pause it.                                                                 *)
Halted(s, h) ==
  h.quelled /\ s.drv.fiber # "closed" /\ Continuing(s.goal)
    => s.agent.aborted /\ Running(s) /\ Bound(s)

Control(s, h) == Kept(s) /\ OuterHeld(s) /\ OuterNext(s, h) /\ Halted(s, h) /\ Barred(s, h)

IInv == TypeOK /\ FoldGuarded /\ FenceKeepsContext /\ (~goal.failed => Control(state, audit))

(* What a step owes the properties about steps.                              *)
Held == RoundEnters /\ audit.quelled => audit.slipped

LEMMA StateOK ==
  ASSUME TypeOK
  PROVE  state \in States /\ state.goal = goal /\ state.drv = drv /\ state.agent = agent
BY DEF TypeOK, state, States

LEMMA Became ==
  ASSUME NEW s \in States, Become(s)
  PROVE  state' = s /\ goal' = s.goal /\ drv' = s.drv /\ agent' = s.agent
         /\ goal' \in Goals /\ drv' \in Drivers /\ agent' \in Agents
BY DEF Become, state, States

LEMMA Observing ==
  ASSUME TypeOK, NEW s \in States, NEW halt
  PROVE  LET h == Observed(s, halt)
         IN  /\ h \in Audits /\ h.lost = audit.lost
             /\ h.window = (agent.pc = "outer" /\ (audit.window \/ s.goal.rev # goal.rev))
             /\ h.slipped = (agent.pc = "outer" /\ (audit.slipped \/ halt = "late"))
             /\ h.quelled = \/ /\ halt \in {"stop", "late"} /\ agent.pc # "maintenance" /\ Bound(state)
                            \/ audit.quelled /\ halt # "go"
<1> DEFINE q == \/ /\ halt \in {"stop", "late"} /\ agent.pc # "maintenance"
                   /\ drv.attempt.phase # "none" => OwnsGoal(drv.attempt, goal)
                \/ audit.quelled /\ halt # "go"
           w == agent.pc = "outer" /\ (audit.window \/ s.goal.rev # goal.rev)
           l == agent.pc = "outer" /\ (audit.slipped \/ halt = "late")
           m == audit.muted \/ (agent.pc = "maintenance" /\ s.agent.aborted)
           n == audit.twins \/ Twins(s)
           o == IF Reserves(s) THEN audit.overtaken \ {s.drv.attempt.msg} ELSE audit.overtaken
           h == Observed(s, halt)
<1>1. h = [audit EXCEPT !.quelled = q, !.window = w, !.slipped = l, !.muted = m, !.twins = n, !.overtaken = o]
  BY DEF Observed
<1>2. audit \in Audits
  BY DEF TypeOK
<1>3. q \in BOOLEAN /\ w \in BOOLEAN /\ l \in BOOLEAN /\ m \in BOOLEAN /\ n \in BOOLEAN
  <2>1. audit.quelled \in BOOLEAN /\ audit.window \in BOOLEAN /\ audit.slipped \in BOOLEAN /\ audit.muted \in BOOLEAN
        /\ audit.twins \in BOOLEAN /\ s.agent.aborted \in BOOLEAN
    BY <1>2 DEF Audits, States, Agents
  <2>2. Twins(s) \in BOOLEAN
    BY DEF Twins
  <2>3. OwnsGoal(drv.attempt, goal) \in BOOLEAN
    BY DEF OwnsGoal
  <2> QED BY <2>1, <2>2, <2>3
<1>4. o \in SUBSET Messages
  BY <1>2 DEF Audits
<1>5. q = \/ /\ halt \in {"stop", "late"} /\ agent.pc # "maintenance" /\ Bound(state)
          \/ audit.quelled /\ halt # "go"
  BY DEF Bound, state
<1> HIDE DEF q, w, l, m, n, o, h
<1>6. /\ h = [quelled |-> q, window |-> w, slipped |-> l, muted |-> m, twins |-> n, overtaken |-> o,
               lost |-> audit.lost]
      /\ audit.lost \in SUBSET Contexts
  BY <1>1, <1>2 DEF Audits
<1>7. h \in Audits
  BY <1>3, <1>4, <1>6 DEF Audits
<1>8. h.lost = audit.lost /\ h.window = w /\ h.slipped = l /\ h.quelled = q
  BY <1>6
<1> QED BY <1>5, <1>7, <1>8 DEF h, w, l

(* A step to `s` leaves the goal where it found it, or stops it.             *)
LEMMA Steps ==
  ASSUME IInv, NEW s \in States, NEW halt, Step(s, halt), used' \in Budgets,
         ~s.goal.failed => Control(s, Observed(s, halt)),
         s.goal.failed => Observed(s, halt).window \/ s.drv.fiber = "closed",
         s.goal.id = goal.id /\ s.goal.rounds = goal.rounds + 1 /\ drv.fiber # "closed" /\ audit.quelled
           => audit.slipped
  PROVE  IInv' /\ Held
<1>1. TypeOK /\ audit.lost = {} /\ audit' = Observed(s, halt)
  BY DEF IInv, FenceKeepsContext, Step
<1>2. audit' \in Audits /\ audit'.lost = {}
  BY <1>1, Observing
<1>3. state' = s /\ goal' = s.goal /\ drv' = s.drv /\ goal' \in Goals /\ drv' \in Drivers /\ agent' \in Agents
  BY Became DEF Step
<1>4. TypeOK'
  BY <1>2, <1>3 DEF TypeOK
<1>5. FoldGuarded' /\ FenceKeepsContext'
  BY <1>1, <1>2, <1>3 DEF FoldGuarded, FenceKeepsContext
<1>6. ~goal'.failed => Control(state', audit')
  BY <1>1, <1>3
<1>7. Held
  BY <1>3 DEF Held, RoundEnters
<1> HIDE DEF Control
<1> QED BY <1>4, <1>5, <1>6, <1>7 DEF IInv

LEMMA Spending ==
  ASSUME TypeOK
  PROVE  /\ UNCHANGED used => used' \in Budgets
         /\ used.sends < MaxSends /\ Spend("sends") => used' \in Budgets
         /\ used.mutations < MaxMutations /\ Spend("mutations") => used' \in Budgets
         /\ used.stops < MaxStops /\ Spend("stops") => used' \in Budgets
         /\ used.faults < MaxFaults /\ Spend("faults") => used' \in Budgets
         /\ used.jobs < MaxJobs /\ Spend("jobs") => used' \in Budgets
<1>1. used \in Budgets
  BY DEF TypeOK
<1>2. MaxSends \in Nat /\ MaxMutations \in Nat /\ MaxStops \in Nat /\ MaxFaults \in Nat /\ MaxJobs \in Nat
  BY BoundsAssumption
<1>3. UNCHANGED used => used' \in Budgets
  BY <1>1
<1>4. used.sends < MaxSends /\ Spend("sends") => used' \in Budgets
  BY <1>1, <1>2 DEF Spend, Budgets
<1>5. used.mutations < MaxMutations /\ Spend("mutations") => used' \in Budgets
  BY <1>1, <1>2 DEF Spend, Budgets
<1>6. used.stops < MaxStops /\ Spend("stops") => used' \in Budgets
  BY <1>1, <1>2 DEF Spend, Budgets
<1>7. used.faults < MaxFaults /\ Spend("faults") => used' \in Budgets
  BY <1>1, <1>2 DEF Spend, Budgets
<1>8. used.jobs < MaxJobs /\ Spend("jobs") => used' \in Budgets
  BY <1>1, <1>2 DEF Spend, Budgets
<1> QED BY <1>3, <1>4, <1>5, <1>6, <1>7, <1>8

(* What every step may use.                                                  *)
LEMMA Before ==
  ASSUME IInv, NEW s, NEW halt, Step(s, halt) \/ FenceStep(s)
  PROVE  /\ TypeOK /\ Control(state, audit) /\ Kept(state) /\ Traced(state) /\ Room(state) /\ Able(state)
         /\ state \in States /\ state.goal = goal /\ state.drv = drv /\ state.agent = agent
         /\ audit \in Audits /\ ~goal.failed /\ goal.rounds \in Nat
<1>1. TypeOK /\ Room(state) /\ ~goal.failed
  BY DEF IInv, Step, FenceStep
<1>2. state \in States /\ state.goal = goal /\ state.drv = drv /\ state.agent = agent
  BY <1>1, StateOK
<1>3. Control(state, audit)
  BY <1>1 DEF IInv
<1>4. Kept(state) /\ Traced(state) /\ Able(state)
  BY <1>1, <1>3 DEF Control, Kept, Able
<1> QED BY <1>1, <1>2, <1>3, <1>4 DEF TypeOK, Goals

(* A step that ends at a start or an end of a turn.                          *)
LEMMA LeftNo ==
  ASSUME IInv, NEW s \in States, Step(s, "no"), used' \in Budgets,
         Kept(s), Goes(goal, s.goal), s.drv.fiber # "closed" => drv.fiber # "closed",
         s.agent.pc # "outer",
         agent.aborted /\ Running(state) /\ Bound(state) /\ drv.fiber # "closed" => ~Continuing(s.goal)
  PROVE  IInv' /\ Held
<1> DEFINE h == Observed(s, "no")
<1>1. /\ TypeOK /\ Control(state, audit) /\ state.goal = goal /\ state.drv = drv /\ state.agent = agent
      /\ audit \in Audits /\ ~goal.failed /\ goal.rounds \in Nat
  BY Before
<1>2. h.quelled => audit.quelled
  BY <1>1, Observing
<1> HIDE DEF h
<1>3. Halted(s, h)
  <2>1. Continuing(s.goal) => Continuing(goal)
    BY DEF Goes
  <2> QED BY <1>1, <1>2, <2>1 DEF Halted, Control
<1>4. OuterHeld(s) /\ OuterNext(s, h) /\ Barred(s, h)
  BY DEF OuterHeld, OuterNext, Barred
<1>5. ~s.goal.failed /\ s.goal.rounds # goal.rounds + 1
  BY <1>1 DEF Goes
<1> QED BY <1>3, <1>4, <1>5, Steps DEF Control, h

LEMMA LeftStop ==
  ASSUME IInv, NEW s \in States, Step(s, "stop"), used' \in Budgets,
         Kept(s), ~Continuing(s.goal) \/ s.drv.fiber = "closed", Goes(goal, s.goal),
         s.agent.pc # "outer"
  PROVE  IInv' /\ Held
<1>1. ~goal.failed /\ goal.rounds \in Nat
  BY Before
<1>2. Halted(s, Observed(s, "stop"))
  BY DEF Halted
<1>3. OuterHeld(s) /\ OuterNext(s, Observed(s, "stop")) /\ Barred(s, Observed(s, "stop"))
  BY DEF OuterHeld, OuterNext, Barred
<1>4. ~s.goal.failed /\ s.goal.rounds # goal.rounds + 1
  BY <1>1 DEF Goes
<1> QED BY <1>2, <1>3, <1>4, Steps DEF Control

(* A step that moves neither the turn nor the goal.                          *)
LEMMA Stays ==
  ASSUME IInv, NEW s \in States, Step(s, "no"), used' \in Budgets, Kept(s),
         s.goal = goal, s.drv.fiber = drv.fiber, s.agent.pc = agent.pc, s.agent.prompt = agent.prompt,
         s.agent.aborted = agent.aborted, s.drv.attempt.phase = drv.attempt.phase,
         s.drv.attempt.msg = drv.attempt.msg
  PROVE  IInv' /\ Held
<1> DEFINE h == Observed(s, "no")
<1>1. /\ TypeOK /\ Control(state, audit) /\ state.goal = goal /\ state.drv = drv /\ state.agent = agent
      /\ audit \in Audits /\ ~goal.failed /\ goal.rounds \in Nat
  BY Before
<1>2. /\ h.quelled => audit.quelled
      /\ agent.pc = "outer" => (h.window <=> audit.window) /\ (h.slipped <=> audit.slipped)
  BY <1>1, Observing DEF Audits
<1> HIDE DEF h
<1>3. Halted(s, h)
  BY <1>1, <1>2 DEF Halted, Control, Running, Bound, OwnsGoal
<1>4. OuterHeld(s) /\ OuterNext(s, h) /\ Barred(s, h)
  BY <1>1, <1>2 DEF OuterHeld, OuterNext, Barred, Control
<1>5. ~s.goal.failed /\ s.goal.rounds # goal.rounds + 1
  BY <1>1
<1> QED BY <1>3, <1>4, <1>5, Steps DEF Control, h

-----------------------------------------------------------------------------
(* The turn of the agent.                                                    *)
LEMMA FenceLosesNothing ==
  ASSUME IInv, NEW s \in States, FenceStep(s), agent.batch \subseteq s.agent.nextStep \cup s.agent.batch
  PROVE  Step(s, "no")
<1> DEFINE h == Observed(s, "no")
           x == agent.batch \ (s.agent.nextStep \cup s.agent.batch)
<1>1. TypeOK
  BY DEF IInv
<1>2. h \in Audits
  BY <1>1, Observing
<1>3. audit' = [h EXCEPT !.lost = @ \cup x]
  BY DEF FenceStep
<1>4. x = {}
  OBVIOUS
<1> HIDE DEF h, x
<1>5. h.lost \cup x = h.lost
  BY <1>4
<1>6. audit' = h
  BY <1>2, <1>3, <1>5 DEF Audits
<1> QED BY <1>6 DEF FenceStep, Step, h

(* A turn that ends, whatever was put back or given up before.               *)
LEMMA EndsNo ==
  ASSUME IInv, NEW v \in States, NEW kind, Step(EndTurn(v, kind), "no"), used' \in Budgets,
         Able(v), Traced(v), Goes(goal, v.goal), v.drv.fiber = drv.fiber,
         agent.aborted => kind = "aborted" /\ v.goal = goal /\ v.drv = drv
  PROVE  IInv' /\ Held
<1> DEFINE s == EndTurn(v, kind)
<1>1. /\ Ended(v, s)
      /\ v.drv.fiber # "closed" /\ kind = "aborted" /\ Bound(v) => ~Continuing(s.goal)
  BY EndTurnEffect
<1>2. state.goal = goal /\ state.drv = drv /\ state.agent = agent
  BY Before
<1> HIDE DEF s
<1>3. s \in States /\ Kept(s) /\ s.drv.fiber = drv.fiber /\ s.agent.pc # "outer"
  BY <1>1 DEF Ended
<1>4. Goes(goal, s.goal)
  BY <1>1, GoesTwice DEF Ended
<1>5. agent.aborted /\ Bound(state) /\ drv.fiber # "closed" => ~Continuing(s.goal)
  BY <1>1, <1>2 DEF Bound
<1> QED BY <1>3, <1>4, <1>5, LeftNo DEF s

LEMMA EndsStop ==
  ASSUME IInv, NEW v \in States, NEW kind, Step(EndTurn(v, kind), "stop"), used' \in Budgets,
         Able(v), Traced(v), Goes(goal, v.goal), v.drv.fiber = drv.fiber,
         kind \in {"max-tokens", "error"} \/ ~Continuing(v.goal)
  PROVE  IInv' /\ Held
<1> DEFINE s == EndTurn(v, kind)
<1>1. /\ Ended(v, s)
      /\ v.drv.fiber # "closed" /\ kind \in {"max-tokens", "error"} => ~Continuing(s.goal)
  BY EndTurnEffect
<1> HIDE DEF s
<1>2. s \in States /\ Kept(s) /\ s.drv.fiber = v.drv.fiber /\ s.agent.pc # "outer"
  BY <1>1 DEF Ended
<1>3. Goes(goal, s.goal)
  BY <1>1, GoesTwice DEF Ended
<1>4. ~Continuing(s.goal) \/ s.drv.fiber = "closed"
  BY <1>1, <1>2 DEF Ended, Goes
<1> QED BY <1>2, <1>3, <1>4, LeftStop DEF s

LEMMA SameGoes == \A g : Goes(g, g)
BY DEF Goes

LEMMA AbortsStep ==
  ASSUME IInv, NEW pc, Aborts(pc)
  PROVE  IInv' /\ Held
<1>1. Step(EndTurn(state, "aborted"), "no") /\ UNCHANGED used
  BY DEF Aborts
<1>2. /\ TypeOK /\ Traced(state) /\ Able(state) /\ state \in States /\ state.goal = goal /\ state.drv = drv
  BY <1>1, Before
<1>3. used' \in Budgets
  BY <1>1, <1>2, Spending
<1> QED BY <1>1, <1>2, <1>3, EndsNo, SameGoes

LEMMA AssembleFailsStep ==
  ASSUME IInv, AssembleFails
  PROVE  IInv' /\ Held
<1>1. Step(EndTurn(state, "error"), "stop") /\ used.faults < MaxFaults /\ Spend("faults")
  BY DEF AssembleFails
<1>2. /\ TypeOK /\ Traced(state) /\ Able(state) /\ state \in States /\ state.goal = goal /\ state.drv = drv
  BY <1>1, Before
<1>3. used' \in Budgets
  BY <1>1, <1>2, Spending
<1> QED BY <1>1, <1>2, <1>3, EndsStop, SameGoes

LEMMA TurnCompletesStep ==
  ASSUME IInv, TurnCompletes
  PROVE  IInv' /\ Held
<1>1. Step(EndTurn(state, "completed"), "no") /\ UNCHANGED used /\ ~agent.aborted
  BY DEF TurnCompletes
<1>2. /\ TypeOK /\ Traced(state) /\ Able(state) /\ state \in States /\ state.goal = goal /\ state.drv = drv
  BY <1>1, Before
<1>3. used' \in Budgets
  BY <1>1, <1>2, Spending
<1> QED BY <1>1, <1>2, <1>3, EndsNo, SameGoes

LEMMA TurnFailsStep ==
  ASSUME IInv, NEW kind \in {"max-tokens", "error", "blocked"}, TurnFails(kind)
  PROVE  IInv' /\ Held
<1>1. /\ Step(EndTurn(state, kind), IF kind = "blocked" THEN "no" ELSE "stop")
      /\ used.faults < MaxFaults /\ Spend("faults") /\ ~agent.aborted
  BY DEF TurnFails
<1>2. /\ TypeOK /\ Traced(state) /\ Able(state) /\ state \in States /\ state.goal = goal /\ state.drv = drv
  BY <1>1, Before
<1>3. used' \in Budgets
  BY <1>1, <1>2, Spending
<1>4. CASE kind = "blocked"
  BY <1>1, <1>2, <1>3, <1>4, EndsNo, SameGoes
<1>5. CASE kind # "blocked"
  BY <1>1, <1>2, <1>3, <1>5, EndsStop, SameGoes
<1> QED BY <1>4, <1>5

LEMMA FenceStepOK ==
  ASSUME IInv, NEW v, FenceStep(EndTurn(v, "blocked")), Rejected(state, v), ~agent.aborted, UNCHANGED used
  PROVE  IInv' /\ Held
<1> DEFINE s == EndTurn(v, "blocked")
<1>1. TypeOK /\ state \in States /\ state.goal = goal /\ state.drv = drv /\ state.agent = agent
  BY Before
<1>2. /\ v \in States /\ Able(v) /\ Traced(v) /\ v.goal = goal /\ v.drv.fiber = drv.fiber
      /\ agent.batch \subseteq v.agent.nextStep
  BY <1>1 DEF Rejected
<1>3. Ended(v, s)
  BY <1>2, EndTurnEffect
<1> HIDE DEF s
<1>4. s \in States /\ agent.batch \subseteq s.agent.nextStep \cup s.agent.batch
  BY <1>2, <1>3 DEF Ended
<1>5. Step(s, "no")
  BY <1>4, FenceLosesNothing DEF s
<1>6. used' \in Budgets
  BY <1>1, Spending
<1>7. Goes(goal, v.goal)
  BY <1>2, SameGoes
<1> QED BY <1>2, <1>5, <1>6, <1>7, EndsNo DEF s

LEMMA FenceRejectsStep ==
  ASSUME IInv, FenceRejects
  PROVE  IInv' /\ Held
<1>1. FenceStep(EndTurn(FirstRejected(state), "blocked")) /\ ~agent.aborted /\ UNCHANGED used
      /\ agent.pc = "assemble"
  BY DEF FenceRejects
<1>2. state \in States /\ Able(state) /\ Traced(state) /\ state.agent = agent
  BY <1>1, Before
<1>3. Running(state)
  BY <1>1, <1>2 DEF Running, RunningPCs
<1>4. Rejected(state, FirstRejected(state))
  BY <1>2, <1>3, DroppedEffect
<1> QED BY <1>1, <1>4, FenceStepOK

LEMMA FenceRechecksStep ==
  ASSUME IInv, FenceRechecks
  PROVE  IInv' /\ Held
<1>1. FenceStep(EndTurn(Dropped(state), "blocked")) /\ ~agent.aborted /\ UNCHANGED used
      /\ agent.pc = "hooks"
  BY DEF FenceRechecks
<1>2. state \in States /\ Able(state) /\ Traced(state) /\ state.agent = agent
  BY <1>1, Before
<1>3. Running(state)
  BY <1>1, <1>2 DEF Running, RunningPCs
<1>4. Rejected(state, Dropped(state))
  BY <1>2, <1>3, DroppedEffect
<1> QED BY <1>1, <1>4, FenceStepOK

LEMMA HooksBeginStep ==
  ASSUME IInv, HooksBegin
  PROVE  IInv' /\ Held
<1> DEFINE s == [state EXCEPT !.agent.pc = "hooks"]
<1>1. Step(s, "no") /\ ~agent.aborted /\ UNCHANGED used /\ agent.pc = "assemble"
  BY DEF HooksBegin
<1>2. TypeOK /\ state \in States /\ Traced(state) /\ state.goal = goal /\ state.drv = drv /\ state.agent = agent
  BY <1>1, Before
<1>3. /\ s \in States /\ s.goal = goal /\ s.drv = drv /\ s.agent.pc = "hooks"
      /\ s.agent.nextTurn = state.agent.nextTurn /\ s.agent.prompt = state.agent.prompt
  BY <1>2 DEF States, Agents, RunningPCs
<1> HIDE DEF s
<1>4. Traced(s)
  BY <1>2, <1>3 DEF Traced, Ordered, About
<1>5. Kept(s)
  BY <1>3, <1>4 DEF Kept, AtRest, InJob
<1>6. used' \in Budgets
  BY <1>1, <1>2, Spending
<1>7. Goes(goal, s.goal)
  BY <1>3, SameGoes
<1> QED BY <1>1, <1>3, <1>5, <1>6, <1>7, LeftNo

LEMMA HooksAbortStep ==
  ASSUME IInv, NEW entering \in BOOLEAN, HooksAbort(entering)
  PROVE  IInv' /\ Held
<1> DEFINE v == IF entering /\ Fenced(state) THEN RestoreOthers(state) ELSE state
<1>1. Step(EndTurn(v, "aborted"), "no") /\ UNCHANGED used
  BY DEF HooksAbort
<1>2. TypeOK /\ state \in States /\ Traced(state) /\ Able(state) /\ state.goal = goal /\ state.drv = drv
      /\ state.agent = agent
  BY <1>1, Before
<1>3. v \in States /\ v.goal = goal /\ v.drv = drv /\ About(v) = About(state)
      /\ v.agent.nextTurn = state.agent.nextTurn /\ v.agent.prompt = state.agent.prompt
  <2>1. CASE v = state
    BY <1>2, <2>1
  <2>2. CASE v = RestoreOthers(state)
    <3>1. /\ v \in States /\ v.goal = state.goal /\ v.drv = state.drv /\ About(v) = About(state)
          /\ v.agent = [state.agent EXCEPT !.nextStep = state.agent.batch \cup @]
      BY <1>2, <2>2, RestoreEffect
    <3> HIDE DEF v
    <3> QED BY <3>1, <1>2 DEF States, Agents
  <2> QED BY <2>1, <2>2
<1> HIDE DEF v
<1>4. Traced(v) /\ Able(v)
  BY <1>2, <1>3 DEF Traced, Ordered, Able, Room, Free
<1>5. used' \in Budgets
  BY <1>1, <1>2, Spending
<1>6. Goes(goal, v.goal)
  BY <1>3, SameGoes
<1> QED BY <1>1, <1>3, <1>4, <1>5, <1>6, EndsNo

LEMMA HooksRejectStep ==
  ASSUME IInv, HooksReject
  PROVE  IInv' /\ Held
<1> DEFINE v == Vetoed(state)
<1>1. /\ Step(EndTurn(v, "blocked"), IF Blocks(state) THEN "stop" ELSE "no")
      /\ used.faults < MaxFaults /\ Spend("faults") /\ ~agent.aborted
  BY DEF HooksReject
<1>2. TypeOK /\ state \in States /\ Traced(state) /\ Able(state) /\ state.goal = goal /\ state.drv = drv
  BY <1>1, Before
<1>3. /\ v \in States /\ Able(v) /\ Traced(v) /\ Goes(goal, v.goal) /\ v.drv.fiber = drv.fiber
      /\ Blocks(state) => ~Continuing(v.goal)
  BY <1>2, VetoedEffect
<1> HIDE DEF v
<1>4. used' \in Budgets
  BY <1>1, <1>2, Spending
<1>5. CASE Blocks(state)
  BY <1>1, <1>3, <1>4, <1>5, EndsStop
<1>6. CASE ~Blocks(state)
  BY <1>1, <1>3, <1>4, <1>6, EndsNo
<1> QED BY <1>5, <1>6

LEMMA HooksThrowStep ==
  ASSUME IInv, HooksThrow
  PROVE  IInv' /\ Held
<1> DEFINE u == [state EXCEPT !.drv.attempt = NoAttempt]
           v == IF Fenced(state) THEN RequestDrive(u) ELSE state
<1>1. /\ Step(EndTurn(v, "error"), "stop") /\ used.faults < MaxFaults /\ Spend("faults") /\ agent.pc = "hooks"
  BY DEF HooksThrow
<1>2. TypeOK /\ state \in States /\ Traced(state) /\ Able(state) /\ state.goal = goal /\ state.drv = drv
      /\ state.agent = agent
  BY <1>1, Before
<1>3. /\ u \in States /\ Traced(u) /\ u.goal = goal /\ u.agent = agent
      /\ u.drv.fiber = drv.fiber /\ u.drv.run = drv.run /\ u.drv.loops = drv.loops
  BY <1>2, ForgetEffect
<1> HIDE DEF u
<1>4. Able(u) /\ Running(u)
  BY <1>1, <1>2, <1>3 DEF Able, Room, Free, Running, RunningPCs
<1>5. RequestDrive(u) \in States /\ Able(RequestDrive(u)) /\ Traced(RequestDrive(u)) /\ Looped(u, RequestDrive(u))
  BY <1>3, <1>4, RedriveEffect
<1>6. v \in States /\ Able(v) /\ Traced(v) /\ v.goal = goal /\ v.drv.fiber = drv.fiber
  BY <1>2, <1>3, <1>5 DEF Looped
<1> HIDE DEF v
<1>7. used' \in Budgets
  BY <1>1, <1>2, Spending
<1>8. Goes(goal, v.goal)
  BY <1>6, SameGoes
<1> QED BY <1>1, <1>6, <1>7, <1>8, EndsStop

LEMMA StepClaimsStep ==
  ASSUME IInv, StepClaims
  PROVE  IInv' /\ Held
<1> DEFINE s == [state EXCEPT !.agent.nextStep = {}]
<1>1. Step(s, "no") /\ UNCHANGED used /\ agent.pc = "step"
  BY DEF StepClaims
<1>2. TypeOK /\ state \in States /\ Traced(state) /\ state.goal = goal /\ state.drv = drv /\ state.agent = agent
  BY <1>1, Before
<1>3. /\ s \in States /\ s.goal = goal /\ s.drv = drv /\ s.agent.pc = "step" /\ s.agent.aborted = agent.aborted
      /\ s.agent.nextTurn = state.agent.nextTurn /\ s.agent.prompt = agent.prompt
  BY <1>1, <1>2 DEF States, Agents
<1> HIDE DEF s
<1>4. Traced(s)
  BY <1>2, <1>3 DEF Traced, Ordered, About
<1>5. Kept(s)
  BY <1>3, <1>4 DEF Kept, AtRest, InJob
<1>6. used' \in Budgets
  BY <1>1, <1>2, Spending
<1> QED BY <1>1, <1>3, <1>5, <1>6, Stays

-----------------------------------------------------------------------------
(* A round enters.                                                           *)
LEMMA Capped ==
  ASSUME NEW s \in States, Traced(s), s.agent.prompt.from = "goal", s.goal.phase = "active",
         IsNext(s.agent.prompt, s.goal)
  PROVE  Admissible(s.goal, s.agent.prompt)
<1> DEFINE m == s.agent.prompt  n == Round(s.goal, 0)
<1>1. m \in Messages /\ s.goal \in Goals /\ n \in Messages /\ Issued(m, s.goal)
  BY StateTypes, MsgTypes DEF Traced, About
<1>2. m.id = n.id /\ m.rev = n.rev /\ m.round = n.round
  BY <1>1, RoundFields DEF IsNext
<1>3. m.id = s.goal.id /\ m.rev = s.goal.rev
  BY <1>2 DEF Round
<1>4. m.round <= s.goal.cap
  BY <1>1, <1>3 DEF Issued
<1> QED BY <1>4 DEF Admissible

LEMMA AdmittedOK ==
  ASSUME NEW s \in States, Traced(s), s.agent.prompt.from = "goal", NEW t \in States,
         t.agent.nextTurn = s.agent.nextTurn, t.agent.prompt = s.agent.prompt,
         t.drv.attempt.msg = s.drv.attempt.msg,
         t.drv.attempt.phase = IF s.drv.attempt.msg = s.agent.prompt THEN "admitted" ELSE s.drv.attempt.phase,
         t.goal.id = s.goal.id, t.goal.rev = s.goal.rev, t.goal.cap = s.goal.cap
  PROVE  Traced(t)
<1> DEFINE q == s.agent.nextTurn  p == s.agent.prompt  a == s.drv.attempt.msg
<1>1. Ordered(s)
  BY DEF Traced
<1>2. ASSUME a = p PROVE ~Queues(q, a)
  <2>1. SUFFICES ASSUME NEW i \in DOMAIN q, SameRound(q[i], a) PROVE FALSE
    BY DEF Queues
  <2>2. PICK j \in DOMAIN q : i <= j /\ q[j] = a
    BY <1>1, <2>1 DEF Ordered, Newest
  <2> QED BY <1>1, <1>2, <2>2 DEF Ordered, Apart
<1>3. Ordered(t)
  BY <1>1, <1>2 DEF Ordered
<1>4. About(t) = About(s) /\ \A m : Issued(m, s.goal) => Issued(m, t.goal)
  BY DEF About, Issued
<1> QED BY <1>3, <1>4 DEF Traced

(* The step of a turn that enters: past the fence, or past all listeners.    *)
LEMMA EnterStep ==
  ASSUME IInv, Step(Enter(state), "no"), UNCHANGED used, ~agent.aborted, agent.pc \in {"hooks", "outer"},
         agent.pc = "hooks" => (Fenced(state) => Valid(state))
  PROVE  IInv' /\ Held
<1> DEFINE m == agent.prompt
           u == [state EXCEPT !.agent.pc = "step", !.agent.batch = {}]
           s == Enter(state)
           h == Observed(s, "no")
<1>1. /\ TypeOK /\ Control(state, audit) /\ state \in States /\ Traced(state) /\ Able(state)
      /\ state.goal = goal /\ state.drv = drv /\ state.agent = agent /\ ~goal.failed /\ goal.rounds \in Nat
  BY Before
<1>2. used' \in Budgets
  BY <1>1, Spending
<1>3. /\ u \in States /\ u.goal = goal /\ u.drv = drv /\ u.agent.pc = "step" /\ ~u.agent.aborted
      /\ u.agent.nextTurn = agent.nextTurn /\ u.agent.prompt = m
  BY <1>1 DEF States, Agents, RunningPCs
<1>4. s = IF m = NoMsg /\ agent.batch = {} THEN EndTurn(state, "blocked")
          ELSE IF m.from # "goal" THEN u
          ELSE IF Admissible(goal, m)
               THEN [u EXCEPT !.goal.rounds = m.round,
                              !.drv.attempt.phase = IF drv.attempt.msg = m THEN "admitted" ELSE @]
               ELSE [u EXCEPT !.goal.failed = TRUE]
  BY <1>1 DEF Enter
<1>5. m \in Messages
  BY <1>1, StateTypes
<1> HIDE DEF u
<1>6. CASE s = EndTurn(state, "blocked")
  <2> HIDE DEF s
  <2>1. Step(EndTurn(state, "blocked"), "no")
    BY <1>6 DEF s
  <2> QED BY <1>1, <1>2, <2>1, EndsNo, SameGoes
<1>7. CASE s = u
  <2>1. Traced(u)
    BY <1>1, <1>3 DEF Traced, Ordered, About
  <2>2. Kept(u)
    BY <1>3, <2>1 DEF Kept, AtRest, InJob
  <2>3. Goes(goal, u.goal)
    BY <1>3, SameGoes
  <2>4. Step(u, "no")
    BY <1>7
  <2> HIDE DEF s
  <2> QED BY <1>2, <1>3, <2>2, <2>3, <2>4, LeftNo
<1>8. CASE m.from = "goal" /\ Admissible(goal, m)
           /\ s = [u EXCEPT !.goal.rounds = m.round,
                            !.drv.attempt.phase = IF drv.attempt.msg = m THEN "admitted" ELSE @]
  <2> DEFINE ph == IF drv.attempt.msg = m THEN "admitted" ELSE drv.attempt.phase
  <2>1. m.round \in Nat /\ ph \in {"none", "queued", "claimed", "admitted"}
    BY <1>1, <1>5 DEF Messages, States, Drivers, Attempts
  <2>2. s = [u EXCEPT !.goal.rounds = m.round, !.drv.attempt.phase = ph]
    BY <1>3, <1>8
  <2> HIDE DEF s, ph
  <2>3. /\ s \in States /\ s.goal = [goal EXCEPT !.rounds = m.round] /\ s.agent = u.agent
        /\ s.drv.fiber = drv.fiber /\ s.drv.attempt.msg = drv.attempt.msg /\ s.drv.attempt.phase = ph
    BY <1>1, <1>3, <2>1, <2>2 DEF States, Goals, Drivers, Attempts
  <2>4. s.goal.id = goal.id /\ s.goal.rev = goal.rev /\ s.goal.cap = goal.cap /\ s.goal.failed = goal.failed
        /\ (Continuing(s.goal) => Continuing(goal))
    BY <1>1, <2>3 DEF States, Goals, Continuing
  <2>5. Traced(s)
    <3>1. /\ state.agent.prompt.from = "goal" /\ s.agent.nextTurn = state.agent.nextTurn
          /\ s.agent.prompt = state.agent.prompt /\ s.drv.attempt.msg = state.drv.attempt.msg
          /\ s.drv.attempt.phase = IF state.drv.attempt.msg = state.agent.prompt THEN "admitted"
                                   ELSE state.drv.attempt.phase
          /\ s.goal.id = state.goal.id /\ s.goal.rev = state.goal.rev /\ s.goal.cap = state.goal.cap
      BY <1>1, <1>3, <1>8, <2>3, <2>4 DEF ph
    <3> QED BY <1>1, <2>3, <3>1, AdmittedOK
  <2>6. Kept(s)
    BY <1>3, <2>3, <2>5 DEF Kept, AtRest, InJob
  <2>7. h.quelled => audit.quelled
    BY <1>1, <2>3, Observing
  <2> HIDE DEF h
  <2>8. ASSUME audit.quelled, drv.fiber # "closed" PROVE audit.slipped /\ ~Continuing(goal)
    <3>1. Halted(state, audit) /\ Barred(state, audit)
      BY <1>1 DEF Control
    <3>2. ~Continuing(goal)
      BY <1>1, <2>8, <3>1 DEF Halted
    <3>3. agent.pc = "outer"
      <4>1. Fenced(state)
        BY <1>1, <1>8, <2>8 DEF Fenced
      <4>2. agent.pc = "hooks" => Continuing(goal)
        BY <1>1, <4>1 DEF Valid
      <4> QED BY <3>2, <4>2
    <3>4. goal.phase = "active" /\ IsNext(m, goal)
      BY <1>8 DEF Admissible
    <3> QED BY <1>1, <1>8, <2>8, <3>1, <3>2, <3>3, <3>4 DEF Barred
  <2>9. Halted(s, h)
    BY <2>3, <2>4, <2>7, <2>8 DEF Halted
  <2>10. OuterHeld(s) /\ OuterNext(s, h) /\ Barred(s, h)
    BY <1>3, <2>3 DEF OuterHeld, OuterNext, Barred
  <2>11. Control(s, h)
    BY <2>6, <2>9, <2>10 DEF Control
  <2>12. Step(s, "no")
    BY DEF s
  <2> QED BY <1>1, <1>2, <2>3, <2>4, <2>8, <2>11, <2>12, Steps DEF h
<1>9. CASE m.from = "goal" /\ ~Admissible(goal, m) /\ s = [u EXCEPT !.goal.failed = TRUE]
  <2> HIDE DEF s
  <2>1. /\ s \in States /\ s.goal = [goal EXCEPT !.failed = TRUE] /\ s.drv = drv
    BY <1>1, <1>3, <1>9 DEF States, Goals
  <2>2. s.goal.rev = goal.rev /\ s.goal.failed /\ s.goal.rounds = goal.rounds
    BY <1>1, <2>1 DEF States, Goals
  <2>3. h.window = (agent.pc = "outer" /\ (audit.window \/ s.goal.rev # goal.rev))
    BY <1>1, <2>1, Observing
  <2> HIDE DEF h
  <2>4. ASSUME drv.fiber # "closed" PROVE h.window
    <3>1. ~(goal.phase = "active" /\ IsNext(m, goal))
      BY <1>1, <1>9, Capped
    <3>2. Fenced(state)
      BY <1>1, <1>9, <2>4 DEF Fenced
    <3>3. agent.pc = "outer"
      <4>1. Valid(state) => goal.phase = "active" /\ IsNext(m, goal)
        BY <1>1 DEF Valid, Continuing
      <4> QED BY <3>1, <3>2, <4>1
    <3>4. OuterNext(state, audit)
      BY <1>1 DEF Control
    <3>5. audit.window
      BY <1>1, <1>9, <2>4, <3>1, <3>3, <3>4 DEF OuterNext
    <3>6. audit \in Audits
      BY <1>1 DEF TypeOK
    <3> QED BY <2>3, <3>3, <3>5
  <2>5. Step(s, "no") /\ s.goal.rounds # goal.rounds + 1
    BY <1>1, <2>2 DEF s
  <2> QED BY <1>2, <2>1, <2>2, <2>4, <2>5, Steps DEF h
<1> QED BY <1>4, <1>6, <1>7, <1>8, <1>9

LEMMA OuterEntersStep ==
  ASSUME IInv, OuterEnters
  PROVE  IInv' /\ Held
BY EnterStep DEF OuterEnters

LEMMA HooksEnterStep ==
  ASSUME IInv, HooksEnter
  PROVE  IInv' /\ Held
<1> DEFINE s == [state EXCEPT !.agent.pc = "outer"]
           h == Observed(s, "no")
<1>1. /\ agent.pc = "hooks" /\ ~agent.aborted /\ UNCHANGED used /\ (Fenced(state) => Valid(state))
      /\ Step(IF OuterAwaits THEN s ELSE Enter(state), "no")
  BY DEF HooksEnter
<1>2. CASE ~OuterAwaits
  BY <1>1, <1>2, EnterStep
<1>3. CASE OuterAwaits
  <2>1. Step(s, "no")
    BY <1>1, <1>3
  <2>2. /\ TypeOK /\ Control(state, audit) /\ state \in States /\ Traced(state)
        /\ state.goal = goal /\ state.drv = drv /\ state.agent = agent /\ ~goal.failed /\ goal.rounds \in Nat
    BY <2>1, Before
  <2>3. used' \in Budgets
    BY <1>1, <2>2, Spending
  <2>4. /\ s \in States /\ s.goal = goal /\ s.drv = drv /\ s.agent.pc = "outer" /\ ~s.agent.aborted
        /\ s.agent.nextTurn = agent.nextTurn /\ s.agent.prompt = agent.prompt
    BY <1>1, <2>2 DEF States, Agents, RunningPCs
  <2> HIDE DEF s
  <2>5. Traced(s)
    BY <2>2, <2>4 DEF Traced, Ordered, About
  <2>6. Kept(s)
    BY <2>4, <2>5 DEF Kept, AtRest, InJob
  <2>7. h.quelled => audit.quelled
    BY <2>2, <2>4, Observing
  <2> HIDE DEF h
  <2>8. s.agent.prompt.from = "goal" /\ drv.fiber # "closed"
          => Valid(state)
    BY <1>1, <2>2, <2>4 DEF Fenced
  <2>9. Valid(state) => drv.attempt.phase = "claimed" /\ Continuing(goal) /\ IsNext(agent.prompt, goal)
    BY <2>2 DEF Valid
  <2>10. audit.quelled /\ drv.fiber # "closed" => ~Continuing(goal)
    BY <1>1, <2>2 DEF Control, Halted
  <2>11. Halted(s, h)
    BY <2>4, <2>7, <2>10 DEF Halted
  <2>12. OuterHeld(s) /\ OuterNext(s, h)
    BY <2>4, <2>8, <2>9 DEF OuterHeld, OuterNext, Continuing
  <2>13. Barred(s, h)
    BY <2>4, <2>7, <2>8, <2>9, <2>10 DEF Barred
  <2>14. Control(s, h)
    BY <2>6, <2>11, <2>12, <2>13 DEF Control
  <2>15. ~s.goal.failed /\ s.goal.rounds # goal.rounds + 1
    BY <2>2, <2>4
  <2> QED BY <2>1, <2>3, <2>4, <2>14, <2>15, Steps DEF h
<1> QED BY <1>2, <1>3

-----------------------------------------------------------------------------
(* People.                                                                   *)
LEMMA SubmitStep ==
  ASSUME IInv, Submit
  PROVE  IInv' /\ Held
<1> DEFINE m == Prompt(used.sends + 1)
           s == WakeDriver(Insert(state, m))
           x == {y \in ToSet(agent.nextTurn) : y.from = "goal"}
<1>1. used.sends < MaxSends /\ Spend("sends") /\ ~goal.failed /\ Become(s)
      /\ audit' = [audit EXCEPT !.overtaken = @ \cup x]
  BY DEF Submit
<1>2. TypeOK /\ Control(state, audit) /\ audit \in Audits /\ used \in Budgets /\ audit.lost = {}
  BY <1>1 DEF IInv, FenceKeepsContext, TypeOK
<1>3. state \in States /\ state.goal = goal /\ state.drv = drv /\ state.agent = agent
  BY <1>2, StateOK
<1>4. m \in Messages /\ m.from = "human"
  <2>1. used.sends + 1 \in Nat
    BY <1>2 DEF Budgets
  <2> QED BY <2>1, MsgTypes DEF Prompt, NoMsg
<1>5. Kept(state)
  BY <1>2 DEF Control
<1> HIDE DEF m
<1>6. /\ s \in States /\ Kept(s) /\ s.goal = goal /\ s.drv.fiber = drv.fiber
      /\ \/ agent.pc = "idle" /\ s.agent.pc = "assemble"
         \/ /\ s.agent.pc = agent.pc /\ s.agent.prompt = agent.prompt
            /\ s.agent.aborted = agent.aborted
            /\ s.drv.attempt.phase = drv.attempt.phase /\ s.drv.attempt.msg = drv.attempt.msg
  BY <1>3, <1>4, <1>5, PromptEffect
<1> HIDE DEF s
<1>7. x \in SUBSET Messages
  BY <1>3, StateTypes DEF About
<1> HIDE DEF x
<1>8. audit' \in Audits /\ audit'.quelled = audit.quelled /\ audit'.window = audit.window
      /\ audit'.slipped = audit.slipped /\ audit'.lost = {}
  BY <1>1, <1>2, <1>7 DEF Audits
<1>9. state' = s /\ goal' = s.goal /\ drv' = s.drv /\ goal' \in Goals /\ drv' \in Drivers /\ agent' \in Agents
  BY <1>1, <1>6, Became
<1>10. used' \in Budgets
  BY <1>1, <1>2, Spending
<1>11. Control(s, audit')
  <2>1. CASE agent.pc = "idle" /\ s.agent.pc = "assemble"
    <3>1. ~Running(state)
      BY <1>3, <2>1 DEF Running, RunningPCs
    <3>2. Halted(s, audit')
      BY <1>2, <1>3, <1>6, <1>8, <3>1 DEF Control, Halted
    <3> QED BY <1>6, <2>1, <3>2 DEF Control, OuterHeld, OuterNext, Barred
  <2>2. CASE /\ s.agent.pc = agent.pc /\ s.agent.prompt = agent.prompt
             /\ s.agent.aborted = agent.aborted
             /\ s.drv.attempt.phase = drv.attempt.phase /\ s.drv.attempt.msg = drv.attempt.msg
    <3>1. Halted(s, audit')
      BY <1>2, <1>3, <1>6, <1>8, <2>2 DEF Control, Halted, Running, Bound, OwnsGoal
    <3>2. OuterHeld(s) /\ OuterNext(s, audit') /\ Barred(s, audit')
      BY <1>2, <1>3, <1>6, <1>8, <2>2 DEF Control, OuterHeld, OuterNext, Barred
    <3> QED BY <1>6, <3>1, <3>2 DEF Control
  <2> QED BY <1>6, <2>1, <2>2
<1>12. TypeOK'
  BY <1>8, <1>9, <1>10 DEF TypeOK
<1>13. FoldGuarded' /\ FenceKeepsContext'
  BY <1>1, <1>6, <1>8, <1>9 DEF FoldGuarded, FenceKeepsContext
<1>14. Held
  BY <1>3, <1>6, <1>9 DEF Held, RoundEnters, States, Goals
<1> QED BY <1>9, <1>11, <1>12, <1>13, <1>14 DEF IInv

LEMMA InjectStep ==
  ASSUME IInv, NEW c \in Contexts, Inject(c)
  PROVE  IInv' /\ Held
<1> DEFINE n == agent.nextStep \cup {c}
           s == [state EXCEPT !.agent.nextStep = n]
<1>1. /\ used.sends < MaxSends /\ used' = [used EXCEPT !.sends = @ + 1, !.injected = @ \cup {c}]
      /\ Step([state EXCEPT !.agent.nextStep = @ \cup {c}], "no")
  BY DEF Inject
<1>2. TypeOK /\ state \in States /\ Kept(state) /\ state.goal = goal /\ state.drv = drv /\ state.agent = agent
  BY <1>1, Before
<1>3. n \in SUBSET Contexts
  BY <1>2, StateTypes
<1>4. Step(s, "no")
  BY <1>1, <1>2
<1> HIDE DEF n
<1>5. /\ s \in States /\ s.goal = goal /\ s.drv = drv /\ s.agent.pc = agent.pc /\ s.agent.aborted = agent.aborted
      /\ s.agent.nextTurn = agent.nextTurn /\ s.agent.prompt = agent.prompt /\ s.agent.wake = agent.wake
  BY <1>2, <1>3 DEF States, Agents
<1> HIDE DEF s
<1>6. Kept(s)
  BY <1>2, <1>5 DEF Kept, Traced, Ordered, About, AtRest, InJob, Waits
<1>7. used' \in Budgets
  <2>1. used \in Budgets /\ MaxSends \in Nat
    BY <1>2, BoundsAssumption DEF TypeOK
  <2>2. used.sends + 1 \in 0 .. MaxSends /\ used.injected \cup {c} \in SUBSET Contexts
    BY <1>1, <2>1 DEF Budgets
  <2> QED BY <1>1, <2>1, <2>2 DEF Budgets
<1> QED BY <1>4, <1>5, <1>6, <1>7, Stays

LEMMA CancelStep ==
  ASSUME IInv, NEW keepInbox \in BOOLEAN, Cancel(keepInbox)
  PROVE  IInv' /\ Held
<1> DEFINE s == Cancelled(state, keepInbox)
           discards == s.drv.attempt.cancelled /\ ~drv.attempt.cancelled
           halt == IF Running(state) \/ discards THEN "stop" ELSE "no"
           h == Observed(s, halt)
<1>1. used.stops < MaxStops /\ Spend("stops") /\ Step(s, halt)
  BY DEF Cancel
<1>2. /\ TypeOK /\ Control(state, audit) /\ Kept(state) /\ state \in States /\ audit \in Audits
      /\ state.goal = goal /\ state.drv = drv /\ state.agent = agent /\ ~goal.failed /\ goal.rounds \in Nat
  BY <1>1, Before
<1>3. /\ s \in States /\ s.goal = goal /\ Kept(s)
      /\ s.agent.pc = agent.pc /\ s.agent.prompt = agent.prompt /\ s.agent.aborted = (agent.pc # "idle")
      /\ s.drv.fiber = drv.fiber /\ s.drv.attempt.phase = drv.attempt.phase
      /\ s.drv.attempt.msg = drv.attempt.msg
      /\ discards => Queues(agent.nextTurn, drv.attempt.msg)
  BY <1>2, CancelledEffect
<1>4. used' \in Budgets
  BY <1>1, <1>2, Spending
<1>5. discards /\ drv.attempt.phase # "none" => drv.attempt.phase \in {"queued", "claimed"}
  <2>1. drv.attempt.phase = "admitted" => ~Queues(agent.nextTurn, drv.attempt.msg)
    BY <1>2 DEF Kept, Traced, Ordered
  <2>2. drv.attempt.phase \in {"none", "queued", "claimed", "admitted"}
    BY <1>2 DEF States, Drivers, Attempts
  <2> QED BY <1>3, <2>1, <2>2
<1>6. discards => drv.attempt.phase # "none" /\ ~drv.attempt.cancelled
  <2>1. drv.attempt.phase = "none" => drv.attempt.msg = NoMsg
    BY <1>2 DEF Kept, Traced, Ordered
  <2>2. ~Queues(agent.nextTurn, NoMsg)
    BY <1>2, StateTypes, NoneWaits
  <2> QED BY <1>3, <2>1, <2>2
<1> HIDE DEF s, discards
<1>7. /\ h.window = (agent.pc = "outer" /\ audit.window)
      /\ h.slipped = (agent.pc = "outer" /\ audit.slipped)
      /\ h.quelled = \/ /\ halt = "stop" /\ agent.pc # "maintenance" /\ Bound(state)
                     \/ audit.quelled
  <2>1. halt \in {"stop", "no"}
    OBVIOUS
  <2> HIDE DEF halt
  <2> QED BY <1>2, <1>3, <2>1, Observing DEF Audits
<1> HIDE DEF h
<1>8. agent.pc = "idle" => ~Waits(state)
  BY <1>2 DEF Kept, AtRest
<1>9. ASSUME h.quelled, drv.fiber # "closed", Continuing(goal) PROVE Running(state) /\ Bound(state)
  <2>1. CASE audit.quelled
    BY <1>2, <1>9, <2>1 DEF Control, Halted
  <2>2. CASE halt = "stop" /\ agent.pc # "maintenance" /\ Bound(state)
    <3>1. SUFFICES ASSUME ~Running(state) PROVE FALSE
      BY <2>2
    <3>2. discards
      BY <2>2, <3>1
    <3>3. agent.pc = "idle"
      BY <1>2, <2>2, <3>1 DEF States, Agents, Running
    <3>4. Waits(state)
      BY <1>2, <1>5, <1>6, <1>9, <2>2, <3>2 DEF Waits, Bound
    <3> QED BY <1>8, <3>3, <3>4
  <2> QED BY <1>7, <1>9, <2>1, <2>2
<1>10. Halted(s, h)
  <2>1. Running(state) => agent.pc # "idle"
    BY <1>2 DEF Running, RunningPCs
  <2>2. (Running(state) => Running(s)) /\ (Bound(state) => Bound(s))
    BY <1>2, <1>3 DEF Running, Bound, OwnsGoal
  <2> QED BY <1>3, <1>9, <2>1, <2>2 DEF Halted
<1>11. OuterHeld(s) /\ OuterNext(s, h) /\ Barred(s, h)
  BY <1>2, <1>3, <1>7 DEF Control, OuterHeld, OuterNext, Barred
<1>12. Control(s, h)
  BY <1>3, <1>10, <1>11 DEF Control
<1>13. ~s.goal.failed /\ s.goal.rounds # goal.rounds + 1
  BY <1>2, <1>3
<1> HIDE DEF halt
<1> QED BY <1>1, <1>3, <1>4, <1>12, <1>13, Steps DEF h

LEMMA RevisedOK ==
  ASSUME TypeOK, NEW op \in Operations, Allowed(op), NEW cap \in Caps \cup {goal.cap}
  PROVE  LET g == Revised(op, cap)
         IN  /\ g \in Goals
             /\ \/ op = "create" /\ g.id = goal.id + 1
                \/ op # "create" /\ g.id = goal.id /\ g.rev = goal.rev + 1 /\ g.failed = goal.failed
                   /\ g.rounds \in {goal.rounds, 0}
             /\ op = "create" => goal.phase \in {"none", "complete"} /\ ~g.failed
             /\ op \notin {"create", "edit", "resume"} => ~g.armed /\ g.phase # "active"
<1>1. goal \in Goals /\ cap \in Nat
  BY CapsAssumption DEF TypeOK, Goals
<1>2. goal.rev + 1 \in Nat /\ goal.id + 1 \in Nat /\ goal.armed \in BOOLEAN
  BY <1>1 DEF Goals
<1> DEFINE next == [goal EXCEPT !.rev = @ + 1, !.armed = FALSE]
<1>3. /\ next \in Goals /\ next.id = goal.id /\ next.rev = goal.rev + 1 /\ next.rounds = goal.rounds
      /\ next.failed = goal.failed /\ ~next.armed
  BY <1>1, <1>2 DEF Goals
<1> HIDE DEF next
<1>4. CASE op = "create"
  <2>1. Revised(op, cap) = [id |-> goal.id + 1, rev |-> 1, phase |-> "active", rounds |-> 0,
                            cap |-> cap, armed |-> TRUE, failed |-> FALSE]
    BY <1>4 DEF Revised
  <2>2. goal.phase \in {"none", "complete"}
    BY <1>4 DEF Allowed
  <2> DEFINE x == Revised(op, cap)
  <2>3. x \in Goals
    BY <1>1, <1>2, <2>1 DEF Goals
  <2>4. x.id = goal.id + 1 /\ ~x.failed
    BY <2>1
  <2> HIDE DEF x
  <2> QED BY <1>4, <2>2, <2>3, <2>4 DEF x
<1>5. CASE op = "edit"
  <2>1. Revised(op, cap) = [next EXCEPT !.cap = cap, !.armed = goal.armed]
    BY <1>5 DEF Revised, next
  <2> QED BY <1>1, <1>2, <1>3, <1>5, <2>1 DEF Goals
<1>6. CASE op = "resume"
  <2>1. Revised(op, cap) = [next EXCEPT !.phase = "active", !.armed = TRUE]
    BY <1>6 DEF Revised, next
  <2> QED BY <1>1, <1>2, <1>3, <1>6, <2>1 DEF Goals
<1>7. CASE op = "pause"
  <2>1. Revised(op, cap) = [next EXCEPT !.phase = "paused"]
    BY <1>7 DEF Revised, next
  <2> QED BY <1>1, <1>2, <1>3, <1>7, <2>1 DEF Goals
<1>8. CASE op = "complete"
  <2>1. Revised(op, cap) = [next EXCEPT !.phase = "complete"]
    BY <1>8 DEF Revised, next
  <2> QED BY <1>1, <1>2, <1>3, <1>8, <2>1 DEF Goals
<1>9. CASE op = "block"
  <2>1. Revised(op, cap) = [next EXCEPT !.phase = "blocked"]
    BY <1>9 DEF Revised, next
  <2> QED BY <1>1, <1>2, <1>3, <1>9, <2>1 DEF Goals
<1>10. CASE op = "clear"
  <2>1. Revised(op, cap) = [next EXCEPT !.phase = "none", !.rounds = 0, !.cap = 0]
    BY <1>10 DEF Revised, next
  <2> DEFINE x == Revised(op, cap)
  <2> HIDE DEF x
  <2>2. x = [next EXCEPT !.phase = "none", !.rounds = 0, !.cap = 0]
    BY <2>1 DEF x
  <2>3. x \in Goals /\ x.id = next.id /\ x.rev = next.rev /\ x.failed = next.failed /\ x.rounds = 0
        /\ ~x.armed /\ x.phase = "none"
    BY <1>3, <2>2 DEF Goals
  <2>4. op # "create"
    BY <1>10
  <2> QED BY <1>3, <2>3, <2>4 DEF x
<1> QED BY <1>4, <1>5, <1>6, <1>7, <1>8, <1>9, <1>10 DEF Operations

LEMMA MutateStep ==
  ASSUME IInv, NEW op \in Operations, NEW cap \in Caps \cup {goal.cap}, NEW host \in BOOLEAN,
         Mutate(op, cap, host)
  PROVE  IInv' /\ Held
<1> DEFINE g == Revised(op, cap)
           u == [state EXCEPT !.goal = g]
           t == IF op = "pause" /\ host /\ Running(u) /\ drv.fiber # "closed"
                THEN Cancelled(u, TRUE) ELSE u
           s == Changed(t)
           halt == IF op \in {"create", "edit", "resume"} THEN "go" ELSE "stop"
           h == Observed(s, halt)
<1>1. used.mutations < MaxMutations /\ Allowed(op) /\ Spend("mutations") /\ Step(s, halt)
  BY DEF Mutate
<1>2. /\ TypeOK /\ Control(state, audit) /\ Kept(state) /\ Traced(state) /\ state \in States /\ audit \in Audits
      /\ state.goal = goal /\ state.drv = drv /\ state.agent = agent /\ ~goal.failed /\ goal.rounds \in Nat
      /\ Able(state)
  BY <1>1, Before
<1>3. /\ g \in Goals
      /\ \/ op = "create" /\ g.id = goal.id + 1
         \/ op # "create" /\ g.id = goal.id /\ g.rev = goal.rev + 1 /\ g.failed = goal.failed
            /\ g.rounds \in {goal.rounds, 0}
      /\ op = "create" => goal.phase \in {"none", "complete"} /\ ~g.failed
      /\ op \notin {"create", "edit", "resume"} => ~g.armed /\ g.phase # "active"
  BY <1>1, <1>2, RevisedOK
<1> HIDE DEF g
<1>4. u \in States /\ u.goal = g /\ u.drv = drv /\ u.agent = agent
  BY <1>2, <1>3 DEF States
<1> HIDE DEF u
<1>5. Traced(u)
  BY <1>2, <1>3, <1>4, TracedLater DEF Less
<1>6. /\ t \in States /\ t.goal = g /\ Traced(t) /\ Able(t)
      /\ t.agent.pc = agent.pc /\ t.agent.prompt = agent.prompt
      /\ t.drv.fiber = drv.fiber /\ t.drv.attempt.phase = drv.attempt.phase
      /\ t.drv.attempt.msg = drv.attempt.msg
  <2>1. Able(u)
    BY <1>2, <1>4 DEF Able, Room, Free
  <2>2. CASE t = u
    BY <1>4, <1>5, <2>1, <2>2
  <2>3. CASE t = Cancelled(u, TRUE)
    <3> HIDE DEF t
    <3>1. /\ t \in States /\ t.goal = u.goal /\ (Traced(u) => Traced(t))
          /\ t.agent.pc = u.agent.pc /\ t.agent.prompt = u.agent.prompt
          /\ t.drv.fiber = u.drv.fiber /\ t.drv.attempt.phase = u.drv.attempt.phase
          /\ t.drv.attempt.msg = u.drv.attempt.msg
          /\ t.drv.run = u.drv.run /\ t.drv.loops = u.drv.loops
      BY <1>4, <2>3, CancelledEffect
    <3> QED BY <1>4, <1>5, <2>1, <3>1 DEF Able, Room, Free
  <2> QED BY <2>2, <2>3
<1> HIDE DEF t
<1>7. s \in States /\ Looped(t, s)
  BY <1>6, AbleStarts, ChangedEffect
<1> HIDE DEF s
<1>8. /\ s.goal = g /\ s.agent.pc = agent.pc /\ s.agent.prompt = agent.prompt /\ s.drv.fiber = drv.fiber
      /\ s.drv.attempt.phase = drv.attempt.phase /\ s.drv.attempt.msg = drv.attempt.msg /\ Traced(s)
  BY <1>6, <1>7 DEF Looped, Traced, Ordered, About
<1>9. drv.attempt.phase # "none" => ~OwnsGoal(s.drv.attempt, g)
  <2>1. SUFFICES ASSUME drv.attempt.phase # "none" PROVE ~OwnsGoal(s.drv.attempt, g)
    OBVIOUS
  <2>2. drv.attempt.msg.from = "goal" /\ Issued(drv.attempt.msg, goal) /\ drv.attempt.msg \in Messages /\ goal \in Goals
    BY <1>2, <2>1, StateTypes DEF Traced, Ordered
  <2>3. \/ drv.attempt.msg.id # g.id
        \/ drv.attempt.msg.rev # g.rev
    BY <1>3, <2>2 DEF Issued, Messages, Goals
  <2> QED BY <1>8, <2>3 DEF OwnsGoal
<1>10. Kept(s)
  BY <1>8, <1>9 DEF Kept, AtRest, InJob, Waits
<1>11. used' \in Budgets
  BY <1>1, <1>2, Spending
<1>12. /\ h.window = (agent.pc = "outer" /\ (audit.window \/ g.rev # goal.rev))
       /\ halt = "go" => ~h.quelled
  <2> HIDE DEF halt
  <2> QED BY <1>2, <1>7, <1>8, Observing
<1> HIDE DEF h
<1>13. halt = "go" \/ (~Continuing(g) /\ g.phase # "active")
  BY <1>3 DEF Continuing
<1> HIDE DEF halt
<1>14. Halted(s, h) /\ Barred(s, h)
  BY <1>8, <1>12, <1>13 DEF Halted, Barred
<1>15. OuterHeld(s)
  BY <1>2, <1>8 DEF Control, OuterHeld
<1>16. OuterNext(s, h)
  <2>1. SUFFICES ASSUME agent.pc = "outer", agent.prompt.from = "goal", drv.fiber # "closed", ~h.window
                 PROVE  FALSE
    BY <1>8 DEF OuterNext
  <2>2. ~audit.window /\ g.rev = goal.rev
    BY <1>12, <2>1
  <2>3. goal.phase = "active"
    BY <1>2, <2>1, <2>2 DEF Control, OuterNext
  <2>4. goal.rev \in Nat
    BY <1>2 DEF States, Goals
  <2> QED BY <1>3, <2>2, <2>3, <2>4
<1>17. Control(s, h)
  BY <1>10, <1>14, <1>15, <1>16 DEF Control
<1>18. ~s.goal.failed /\ ~(s.goal.id = goal.id /\ s.goal.rounds = goal.rounds + 1)
  <2>1. goal.id \in Nat /\ goal.rounds \in Nat
    BY <1>2 DEF States, Goals
  <2> QED BY <1>2, <1>3, <1>8, <2>1
<1> QED BY <1>1, <1>7, <1>11, <1>17, <1>18, Steps DEF h

-----------------------------------------------------------------------------
(* Maintenance, the process and the plugin.                                  *)
LEMMA StartJobStep ==
  ASSUME IInv, StartJob
  PROVE  IInv' /\ Held
<1> DEFINE s == [state EXCEPT !.agent.pc = "maintenance"]
<1>1. used.jobs < MaxJobs /\ Spend("jobs") /\ agent.pc = "idle" /\ Step(s, "no")
  BY DEF StartJob
<1>2. /\ TypeOK /\ Kept(state) /\ state \in States /\ state.goal = goal /\ state.drv = drv /\ state.agent = agent
  BY <1>1, Before
<1>3. /\ s \in States /\ s.goal = goal /\ s.drv = drv /\ s.agent.pc = "maintenance"
      /\ s.agent.nextTurn = agent.nextTurn /\ s.agent.prompt = agent.prompt
  BY <1>2 DEF States, Agents
<1> HIDE DEF s
<1>4. Traced(s)
  BY <1>2, <1>3 DEF Kept, Traced, Ordered, About
<1>5. Waits(s) => Waits(state)
  BY <1>2, <1>3 DEF Waits
<1>6. Kept(s)
  BY <1>1, <1>2, <1>3, <1>4, <1>5 DEF Kept, AtRest, InJob
<1>7. used' \in Budgets /\ Goes(goal, s.goal)
  BY <1>1, <1>2, <1>3, Spending, SameGoes
<1>8. ~Running(state)
  BY <1>1, <1>2 DEF Running, RunningPCs
<1> QED BY <1>1, <1>3, <1>6, <1>7, <1>8, LeftNo

LEMMA JobEndsStep ==
  ASSUME IInv, JobEnds
  PROVE  IInv' /\ Held
<1> DEFINE u == [state EXCEPT !.agent.pc = "idle", !.agent.aborted = FALSE, !.agent.wake = FALSE]
           s == IF agent.wake /\ Pending(u) THEN OpenTurn(u) ELSE u
<1>1. UNCHANGED used /\ agent.pc = "maintenance" /\ Step(s, "no")
  BY DEF JobEnds
<1>2. /\ TypeOK /\ Kept(state) /\ state \in States /\ state.goal = goal /\ state.drv = drv /\ state.agent = agent
  BY <1>1, Before
<1>3. /\ u \in States /\ u.goal = goal /\ u.drv = drv /\ u.agent.pc = "idle"
      /\ u.agent.nextTurn = agent.nextTurn /\ u.agent.prompt = agent.prompt
  BY <1>2 DEF States, Agents
<1> HIDE DEF u
<1>4. Traced(u)
  BY <1>2, <1>3 DEF Kept, Traced, Ordered, About
<1>5. s \in States /\ Kept(s) /\ s.goal = goal /\ s.drv.fiber = drv.fiber /\ s.agent.pc # "outer"
  <2>1. CASE agent.wake /\ Pending(u)
    <3>1. s = OpenTurn(u)
      BY <2>1
    <3> HIDE DEF s
    <3>2. s \in States /\ Opened(u, s)
      BY <1>3, <3>1, OpenTurnEffect
    <3> QED BY <1>3, <1>4, <3>2, KeptOpened DEF Opened
  <2>2. CASE ~(agent.wake /\ Pending(u))
    <3>1. s = u
      BY <2>2
    <3>2. ~Waits(u)
      <4>1. SUFFICES ASSUME Waits(u) PROVE FALSE
        OBVIOUS
      <4>2. Waits(state)
        BY <1>2, <1>3, <4>1 DEF Waits
      <4>3. agent.wake /\ Queues(agent.nextTurn, drv.attempt.msg)
        BY <1>1, <1>2, <4>2 DEF Kept, InJob
      <4>4. agent.nextTurn # <<>>
        BY <4>3, EmptyQueue
      <4> QED BY <1>3, <2>2, <4>3, <4>4 DEF Pending
    <3> QED BY <1>3, <1>4, <3>1, <3>2 DEF Kept, AtRest, InJob
  <2> QED BY <2>1, <2>2
<1> HIDE DEF s
<1>6. ~Running(state)
  BY <1>1, <1>2 DEF Running, RunningPCs
<1>7. used' \in Budgets /\ Goes(goal, s.goal)
  BY <1>1, <1>2, <1>5, Spending, SameGoes
<1> QED BY <1>1, <1>5, <1>6, <1>7, LeftNo

LEMMA RestartStep ==
  ASSUME IInv, Restart
  PROVE  IInv' /\ Held
<1> DEFINE d == [fiber |-> "active", attempt |-> NoAttempt, competing |-> FALSE,
                 checkpoint |-> FALSE, requested |-> FALSE, run |-> 0,
                 loops |-> [i \in Loops |-> "none"],
                 waits |-> [idle |-> FALSE, run |-> 0]]
           a == [agent EXCEPT !.pc = "idle", !.prompt = NoMsg, !.batch = {},
                              !.aborted = FALSE, !.wake = FALSE]
           s == [state EXCEPT !.goal.armed = FALSE, !.agent = a, !.drv = d]
<1>1. /\ used.faults < MaxFaults /\ Spend("faults")
      /\ Step([state EXCEPT !.goal.armed = FALSE,
                        !.agent = [@ EXCEPT !.pc = "idle", !.prompt = NoMsg, !.batch = {},
                                            !.aborted = FALSE, !.wake = FALSE],
                        !.drv = d], "stop")
  BY DEF Restart
<1>2. /\ TypeOK /\ Kept(state) /\ state \in States /\ state.goal = goal /\ state.drv = drv /\ state.agent = agent
  BY <1>1, Before
<1>3. Step(s, "stop")
  BY <1>1, <1>2 DEF state
<1>4. d \in Drivers /\ d.attempt = NoAttempt
  <2>1. 0 \in 0 .. MaxLoops
    BY BoundsAssumption
  <2> QED BY <2>1, MsgTypes DEF Drivers
<1>5. a \in Agents /\ a.pc = "idle" /\ a.nextTurn = agent.nextTurn /\ a.prompt = NoMsg
  BY <1>2, MsgTypes DEF States, Agents
<1> HIDE DEF d, a
<1>6. /\ s \in States /\ s.drv = d /\ s.agent = a /\ ~Continuing(s.goal)
      /\ s.goal.id = goal.id /\ s.goal.rev = goal.rev /\ s.goal.cap = goal.cap
      /\ s.goal.rounds = goal.rounds /\ s.goal.failed = goal.failed
  BY <1>2, <1>4, <1>5 DEF States, Goals, Continuing
<1> HIDE DEF s
<1>7. NoAttempt.msg = NoMsg /\ NoAttempt.phase = "none"
  BY DEF NoAttempt
<1>8. Less(state, s)
  BY <1>2, <1>4, <1>5, <1>6, <1>7 DEF Less
<1>9. Traced(s)
  BY <1>2, <1>6, <1>8, TracedLater DEF Kept
<1>10. Kept(s)
  BY <1>6, <1>9 DEF Kept, AtRest, InJob, Waits
<1>11. used' \in Budgets /\ Goes(goal, s.goal)
  BY <1>1, <1>2, <1>6, Spending DEF Goes
<1> QED BY <1>3, <1>5, <1>6, <1>10, <1>11, LeftStop

LEMMA UnloadStep ==
  ASSUME IInv, Unload
  PROVE  IInv' /\ Held
<1> DEFINE st == drv.attempt.phase # "none"
           w == [idle |-> drv.attempt.phase # "none" /\ Running(state), run |-> drv.run]
           u == [Disarmed(state) EXCEPT !.drv.fiber = "closing", !.drv.attempt.stale = st, !.drv.waits = w]
           s == IF u.drv.waits.idle THEN Cancelled(u, FALSE) ELSE u
           h == Observed(s, "stop")
<1>1. used.stops < MaxStops /\ Spend("stops") /\ drv.fiber = "active" /\ Step(s, "stop")
  BY DEF Unload
<1>2. /\ TypeOK /\ Control(state, audit) /\ Kept(state) /\ Traced(state) /\ state \in States /\ audit \in Audits
      /\ state.goal = goal /\ state.drv = drv /\ state.agent = agent /\ ~goal.failed /\ goal.rounds \in Nat
  BY <1>1, Before
<1>3. st \in BOOLEAN /\ w \in [idle : BOOLEAN, run : 0 .. MaxLoops]
  BY <1>2 DEF States, Drivers, Running
<1>4. w.idle = (drv.attempt.phase # "none" /\ Running(state))
  OBVIOUS
<1> HIDE DEF st, w
<1>5. /\ u \in States /\ u.agent = agent /\ u.drv.fiber = "closing" /\ u.drv.waits = w
      /\ u.drv.attempt.phase = drv.attempt.phase /\ u.drv.attempt.msg = drv.attempt.msg
      /\ u.goal = [goal EXCEPT !.armed = FALSE]
  BY <1>2, <1>3 DEF Disarmed, States, Goals, Drivers, Attempts
<1> HIDE DEF u
<1>6. /\ ~Continuing(u.goal) /\ u.goal.phase = goal.phase /\ u.goal.id = goal.id /\ u.goal.rev = goal.rev
      /\ u.goal.cap = goal.cap /\ u.goal.rounds = goal.rounds /\ u.goal.failed = goal.failed
  BY <1>2, <1>5 DEF States, Goals, Continuing
<1>7. Traced(u)
  BY <1>2, <1>5, <1>6, TracedLater DEF Less
<1>8. /\ s \in States /\ s.goal = u.goal /\ Traced(s) /\ s.drv.fiber = "closing"
      /\ s.agent.pc = agent.pc /\ s.agent.prompt = agent.prompt
      /\ w.idle /\ agent.pc # "idle" => s.agent.aborted
  <2>1. CASE u.drv.waits.idle
    <3>1. s = Cancelled(u, FALSE)
      BY <2>1
    <3> HIDE DEF s
    <3>2. /\ s \in States /\ s.goal = u.goal /\ (Traced(u) => Traced(s))
          /\ s.agent.pc = u.agent.pc /\ s.agent.prompt = u.agent.prompt
          /\ s.agent.aborted = (u.agent.pc # "idle") /\ s.drv.fiber = u.drv.fiber
      BY <1>5, <3>1, CancelledEffect
    <3> QED BY <1>5, <1>7, <3>2
  <2>2. CASE ~u.drv.waits.idle
    BY <1>5, <1>7, <2>2
  <2> QED BY <2>1, <2>2
<1> HIDE DEF s
<1>9. Kept(s)
  BY <1>6, <1>8, SMTT(30) DEF Kept, AtRest, InJob, Waits
<1>10. h.window = (agent.pc = "outer" /\ audit.window)
  BY <1>2, <1>6, <1>8, Observing DEF Audits
<1> HIDE DEF h
<1>11. Halted(s, h) /\ OuterHeld(s)
  BY <1>6, <1>8 DEF Halted, OuterHeld
<1>12. OuterNext(s, h)
  BY <1>1, <1>2, <1>6, <1>8, <1>10 DEF Control, OuterNext, IsNext, Round
<1>13. Barred(s, h)
  <2>1. SUFFICES ASSUME agent.pc = "outer", agent.prompt.from = "goal" PROVE s.agent.aborted
    BY <1>8 DEF Barred
  <2>2. drv.attempt.phase # "none"
    BY <1>1, <1>2, <2>1 DEF Control, OuterHeld
  <2>3. Running(state)
    BY <1>2, <2>1 DEF Running, RunningPCs
  <2> QED BY <1>4, <1>8, <2>1, <2>2, <2>3
<1>14. Control(s, h)
  BY <1>9, <1>11, <1>12, <1>13 DEF Control
<1>15. ~s.goal.failed /\ s.goal.rounds # goal.rounds + 1
  BY <1>2, <1>6, <1>8
<1>16. used' \in Budgets
  BY <1>1, <1>2, Spending
<1> QED BY <1>1, <1>8, <1>14, <1>15, <1>16, Steps DEF h

LEMMA UnloadedStep ==
  ASSUME IInv, Unloaded
  PROVE  IInv' /\ Held
<1> DEFINE s == [state EXCEPT !.drv.fiber = "closed", !.drv.attempt = NoAttempt, !.drv.run = 0]
<1>1. UNCHANGED used /\ Step(s, "no")
  BY DEF Unloaded
<1>2. /\ TypeOK /\ Kept(state) /\ state \in States /\ state.goal = goal /\ state.drv = drv /\ state.agent = agent
      /\ ~goal.failed /\ goal.rounds \in Nat
  BY <1>1, Before
<1>3. s \in States /\ s.goal = goal /\ s.agent = agent /\ s.drv.attempt = NoAttempt /\ s.drv.fiber = "closed"
  <2>1. 0 \in 0 .. MaxLoops
    BY BoundsAssumption
  <2> QED BY <1>2, <2>1, MsgTypes DEF States, Drivers
<1> HIDE DEF s
<1>4. NoAttempt.msg = NoMsg /\ NoAttempt.phase = "none"
  BY DEF NoAttempt
<1>5. Traced(s)
  BY <1>2, <1>3, <1>4, TracedLater DEF Less, Kept
<1>6. Kept(s)
  BY <1>3, <1>5 DEF Kept, AtRest, InJob, Waits
<1>7. Control(s, Observed(s, "no"))
  BY <1>3, <1>6 DEF Control, OuterHeld, OuterNext, Halted, Barred
<1>8. used' \in Budgets
  BY <1>1, <1>2, Spending
<1>9. ~s.goal.failed /\ s.goal.rounds # goal.rounds + 1
  BY <1>2, <1>3
<1> QED BY <1>1, <1>3, <1>7, <1>8, <1>9, Steps

-----------------------------------------------------------------------------
(* The loops of the driver.                                                  *)

(* A drive: nothing, but while the agent is at rest.                         *)
LEMMA Drives ==
  ASSUME IInv, NEW s \in States, Step(s, "no"), UNCHANGED used, Continued(state, s)
  PROVE  IInv' /\ Held
<1>1. /\ TypeOK /\ Kept(state) /\ state \in States /\ state.goal = goal /\ state.drv = drv /\ state.agent = agent
  BY Before
<1>2. used' \in Budgets /\ Kept(s)
  BY <1>1, Spending, ContinuedKeeps
<1>3. /\ Goes(goal, s.goal) /\ s.drv.fiber = drv.fiber
      /\ ~Ready(state) => Looped(state, s)
      /\ s.agent = agent \/ s.agent.pc \in {"maintenance", "assemble"}
  BY <1>1, ContinuedGoes
<1>4. CASE Ready(state)
  <2>1. agent.pc \in {"idle", "maintenance"}
    BY <1>1, <1>4 DEF Ready
  <2>2. ~Running(state) /\ s.agent.pc # "outer"
    BY <1>1, <1>3, <2>1 DEF Running, RunningPCs
  <2> QED BY <1>2, <1>3, <2>2, LeftNo
<1>5. CASE ~Ready(state)
  <2>1. s.goal = goal /\ s.agent = agent /\ s.drv.attempt = drv.attempt
    BY <1>1, <1>3, <1>5 DEF Looped
  <2> QED BY <1>2, <1>3, <2>1, Stays
<1> QED BY <1>4, <1>5

LEMMA FlushedStep ==
  ASSUME IInv, NEW i \in Loops, Flushed(i)
  PROVE  IInv' /\ Held
<1> DEFINE u == [state EXCEPT !.drv.loops[i] = "turn"]
           s == IF Ready(u) /\ ~drv.checkpoint THEN Continue(u) ELSE u
<1>1. UNCHANGED used /\ drv.loops[i] = "flush" /\ Step(s, "no")
  BY DEF Flushed
<1>2. TypeOK /\ state \in States /\ Room(state) /\ state.drv = drv
  BY <1>1, Before
<1>3. u \in States /\ Looped(state, u) /\ u.drv.loops = [state.drv.loops EXCEPT ![i] = "turn"]
  BY <1>2 DEF States, Drivers, Looped
<1> HIDE DEF u
<1>4. CanStart(u)
  <2>1. \A j \in Free(state) \ {i} : j \in Free(u)
    BY <1>2, <1>3 DEF Free, States, Drivers
  <2> QED BY <1>2, <2>1 DEF Room, CanStart
<1>5. s \in States /\ Continued(u, s)
  <2>1. CASE Ready(u) /\ ~drv.checkpoint
    BY <1>3, <1>4, <2>1, ContinueEffect
  <2>2. CASE ~(Ready(u) /\ ~drv.checkpoint)
    BY <1>3, <2>2 DEF Continued, Looped
  <2> QED BY <2>1, <2>2
<1>6. Continued(state, s)
  <2> HIDE DEF s
  <2> QED BY <1>3, <1>5, LoopedFirst
<1> QED BY <1>1, <1>5, <1>6, Drives

LEMMA LoopTurnsStep ==
  ASSUME IInv, NEW i \in Loops, LoopTurns(i)
  PROVE  IInv' /\ Held
<1> DEFINE u == [state EXCEPT !.drv.requested = FALSE]
           v == [state EXCEPT !.drv.loops[i] = "none", !.drv.run = 0]
           s == IF drv.requested /\ drv.fiber = "active" THEN Drive(u, i) ELSE v
<1>1. UNCHANGED used /\ Step(s, "no")
  BY DEF LoopTurns
<1>2. TypeOK /\ state \in States /\ Room(state) /\ state.drv = drv
  BY <1>1, Before
<1>3. CASE drv.requested /\ drv.fiber = "active"
  <2>1. u \in States /\ Looped(state, u) /\ u.drv.loops = state.drv.loops
    BY <1>2 DEF States, Drivers, Looped
  <2>2. s = Drive(u, i)
    BY <1>3
  <2> HIDE DEF u, s
  <2>3. Free(u) \ {i} # {}
    BY <1>2, <2>1 DEF Room, Free
  <2>4. s \in States /\ Continued(u, s)
    BY <2>1, <2>2, <2>3, DriveEffect
  <2>5. Continued(state, s)
    BY <2>1, <2>4, LoopedFirst
  <2> QED BY <1>1, <2>4, <2>5, Drives
<1>4. CASE ~(drv.requested /\ drv.fiber = "active")
  <2>1. v \in States /\ Looped(state, v)
    <3>1. 0 \in 0 .. MaxLoops
      BY BoundsAssumption
    <3> QED BY <1>2, <3>1 DEF States, Drivers, Looped
  <2>2. s = v
    BY <1>4
  <2> HIDE DEF v, s
  <2>3. Continued(state, s)
    BY <2>1, <2>2 DEF Continued
  <2> QED BY <1>1, <2>1, <2>2, <2>3, Drives
<1> QED BY <1>3, <1>4

LEMMA FlushFailsStep ==
  ASSUME IInv, NEW i \in Loops, FlushFails(i)
  PROVE  IInv' /\ Held
<1> DEFINE s == Disarmed([state EXCEPT !.drv.loops[i] = "turn"])
           halt == IF agent.pc = "outer" THEN "late" ELSE "stop"
           h == Observed(s, halt)
<1>1. used.faults < MaxFaults /\ Spend("faults") /\ Step(s, halt)
  BY DEF FlushFails
<1>2. /\ TypeOK /\ Control(state, audit) /\ Kept(state) /\ Traced(state) /\ state \in States /\ audit \in Audits
      /\ state.goal = goal /\ state.drv = drv /\ state.agent = agent /\ ~goal.failed /\ goal.rounds \in Nat
  BY <1>1, Before
<1>3. /\ s \in States /\ s.agent = agent /\ s.drv.fiber = drv.fiber /\ s.drv.attempt = drv.attempt
      /\ s.goal = [goal EXCEPT !.armed = FALSE]
  BY <1>2 DEF Disarmed, States, Goals, Drivers
<1> HIDE DEF s
<1>4. /\ ~Continuing(s.goal) /\ s.goal.phase = goal.phase /\ s.goal.id = goal.id /\ s.goal.rev = goal.rev
      /\ s.goal.cap = goal.cap /\ s.goal.rounds = goal.rounds /\ s.goal.failed = goal.failed
  BY <1>2, <1>3 DEF States, Goals, Continuing
<1>5. Traced(s)
  BY <1>2, <1>3, <1>4, TracedLater DEF Less
<1>6. Kept(s)
  BY <1>4, <1>5 DEF Kept, AtRest, InJob, Waits
<1>7. h.window = (agent.pc = "outer" /\ audit.window) /\ (agent.pc = "outer" => h.slipped)
  BY <1>2, <1>3, <1>4, Observing DEF Audits
<1> HIDE DEF h
<1>8. Halted(s, h) /\ Barred(s, h)
  BY <1>3, <1>4, <1>7 DEF Halted, Barred
<1>9. OuterHeld(s)
  BY <1>2, <1>3 DEF Control, OuterHeld
<1>10. OuterNext(s, h)
  BY <1>2, <1>3, <1>4, <1>7 DEF Control, OuterNext, IsNext, Round
<1>11. Control(s, h)
  BY <1>6, <1>8, <1>9, <1>10 DEF Control
<1>12. ~s.goal.failed /\ s.goal.rounds # goal.rounds + 1
  BY <1>2, <1>4
<1>13. used' \in Budgets
  BY <1>1, <1>2, Spending
<1> HIDE DEF halt
<1> QED BY <1>1, <1>3, <1>11, <1>12, <1>13, Steps DEF h

-----------------------------------------------------------------------------
(* The invariant holds at first and every step keeps it.                     *)
LEMMA Initially ==
  ASSUME Init
  PROVE  IInv
<1>1. goal \in Goals
  BY DEF Init, Goals
<1>2. drv \in Drivers
  <2>1. NoAttempt \in Attempts /\ 0 \in 0 .. MaxLoops
    BY MsgTypes, BoundsAssumption DEF Attempts, NoAttempt
  <2>2. [i \in Loops |-> "none"] \in [Loops -> {"none", "turn", "flush"}]
    OBVIOUS
  <2>3. [idle |-> FALSE, run |-> 0] \in [idle : BOOLEAN, run : 0 .. MaxLoops]
    BY <2>1
  <2> QED BY <2>1, <2>2, <2>3 DEF Init, Drivers
<1>3. agent \in Agents
  <2>1. NoMsg \in Messages /\ <<>> \in Seq(Messages)
    BY MsgTypes
  <2> QED BY <2>1 DEF Init, Agents
<1>4. audit \in Audits /\ audit.lost = {} /\ ~audit.quelled
  BY DEF Init, Audits
<1>5. used \in Budgets
  BY BoundsAssumption DEF Init, Budgets
<1>6. TypeOK
  BY <1>1, <1>2, <1>3, <1>4, <1>5 DEF TypeOK
<1>7. state.goal = goal /\ state.drv = drv /\ state.agent = agent /\ ~goal.failed
  BY DEF Init, state
<1>8. /\ state.agent.nextTurn = <<>> /\ state.agent.prompt = NoMsg /\ state.agent.pc = "idle"
      /\ state.drv.attempt = NoAttempt /\ state.goal.phase = "none"
  BY <1>7 DEF Init
<1>9. NoAttempt.phase = "none" /\ NoAttempt.msg = NoMsg
  BY DEF NoAttempt
<1>10. Traced(state)
  <2>1. Ordered(state)
    BY <1>8, <1>9, EmptyQueue DEF Ordered
  <2>2. About(state) = {NoMsg}
    BY <1>8, EmptyQueue DEF About
  <2> QED BY <1>8, <1>9, <2>1, <2>2, NoneIssued DEF Traced
<1>11. Kept(state)
  BY <1>8, <1>9, <1>10 DEF Kept, AtRest, InJob, Waits
<1>12. OuterHeld(state) /\ OuterNext(state, audit) /\ Halted(state, audit) /\ Barred(state, audit)
  BY <1>4, <1>8 DEF OuterHeld, OuterNext, Halted, Barred
<1> QED BY <1>4, <1>6, <1>7, <1>11, <1>12 DEF IInv, Control, FoldGuarded, FenceKeepsContext

LEMMA StutterOK ==
  ASSUME IInv, UNCHANGED vars
  PROVE  IInv' /\ Held
<1>1. goal' = goal /\ drv' = drv /\ agent' = agent /\ audit' = audit /\ used' = used
  BY DEF vars
<1>2. state' = state
  BY <1>1 DEF state
<1>3. TypeOK' /\ FoldGuarded' /\ FenceKeepsContext'
  BY <1>1 DEF IInv, TypeOK, FoldGuarded, FenceKeepsContext
<1>4. ~goal'.failed => Control(state', audit')
  BY <1>1, <1>2 DEF IInv
<1>5. goal.rounds \in Nat
  BY DEF IInv, TypeOK, Goals
<1>6. Held
  BY <1>1, <1>5 DEF Held, RoundEnters
<1> HIDE DEF Control
<1> QED BY <1>3, <1>4, <1>6 DEF IInv

LEMMA TurnStep ==
  ASSUME IInv, Turn
  PROVE  IInv' /\ Held
<1>1. CASE AssembleAborts \/ OuterAborts \/ StepAborts
  BY <1>1, AbortsStep DEF AssembleAborts, OuterAborts, StepAborts
<1>2. CASE FenceRejects
  BY <1>2, FenceRejectsStep
<1>3. CASE HooksBegin
  BY <1>3, HooksBeginStep
<1>4. CASE \E entering \in BOOLEAN : HooksAbort(entering)
  BY <1>4, HooksAbortStep
<1>5. CASE FenceRechecks
  BY <1>5, FenceRechecksStep
<1>6. CASE HooksEnter
  BY <1>6, HooksEnterStep
<1>7. CASE OuterEnters
  BY <1>7, OuterEntersStep
<1>8. CASE StepClaims
  BY <1>8, StepClaimsStep
<1>9. CASE TurnCompletes
  BY <1>9, TurnCompletesStep
<1> QED BY <1>1, <1>2, <1>3, <1>4, <1>5, <1>6, <1>7, <1>8, <1>9 DEF Turn

LEMMA FaultsStep ==
  ASSUME IInv, Faults
  PROVE  IInv' /\ Held
<1>1. CASE AssembleFails
  BY <1>1, AssembleFailsStep
<1>2. CASE HooksReject
  BY <1>2, HooksRejectStep
<1>3. CASE HooksThrow
  BY <1>3, HooksThrowStep
<1>4. CASE \E kind \in {"max-tokens", "error", "blocked"} : TurnFails(kind)
  BY <1>4, TurnFailsStep
<1>5. CASE \E i \in Loops : FlushFails(i)
  BY <1>5, FlushFailsStep
<1> QED BY <1>1, <1>2, <1>3, <1>4, <1>5 DEF Faults

LEMMA PeopleStep ==
  ASSUME IInv, People
  PROVE  IInv' /\ Held
<1>1. CASE Submit
  BY <1>1, SubmitStep
<1>2. CASE \E c \in Contexts : Inject(c)
  BY <1>2, InjectStep
<1>3. CASE \E keepInbox \in BOOLEAN : Cancel(keepInbox)
  BY <1>3, CancelStep
<1>4. CASE HostMutates \/ ModelMutates
  <2>1. PICK op \in Operations, cap \in Caps \cup {goal.cap}, host \in BOOLEAN : Mutate(op, cap, host)
    BY <1>4 DEF HostMutates, ModelMutates
  <2> QED BY <2>1, MutateStep
<1> QED BY <1>1, <1>2, <1>3, <1>4 DEF People

LEMMA NextStep ==
  ASSUME IInv, [Next]_vars
  PROVE  IInv' /\ Held
<1>1. CASE Turn
  BY <1>1, TurnStep
<1>2. CASE Faults
  BY <1>2, FaultsStep
<1>3. CASE Driver
  BY <1>3, FlushedStep, LoopTurnsStep DEF Driver
<1>4. CASE People
  BY <1>4, PeopleStep
<1>5. CASE StartJob
  BY <1>5, StartJobStep
<1>6. CASE JobEnds
  BY <1>6, JobEndsStep
<1>7. CASE Restart
  BY <1>7, RestartStep
<1>8. CASE Unload
  BY <1>8, UnloadStep
<1>9. CASE Unloaded
  BY <1>9, UnloadedStep
<1>10. CASE UNCHANGED vars
  BY <1>10, StutterOK
<1> QED BY <1>1, <1>2, <1>3, <1>4, <1>5, <1>6, <1>7, <1>8, <1>9, <1>10 DEF Next

-----------------------------------------------------------------------------
(* The theorems.                                                             *)

(* Whatever people, the model, failures, restarts and the plugin's unload    *)
(* interleave, goal, driver and inbox keep the relations of IInv: what the   *)
(* driver's reservation, the queue and the turn know of a round agree, and a *)
(* stop leaves nothing that would go on by itself.                           *)
THEOREM IInvHolds == Spec => []IInv
<1>1. Init => IInv
  BY Initially
<1>2. IInv /\ [Next]_vars => IInv'
  BY NextStep
<1> QED BY <1>1, <1>2, PTL DEF Spec

(* GoalService, the round driver and the agent keep their declared shapes    *)
(* through every cascade of listeners.                                       *)
THEOREM TypeCorrect == Spec => []TypeOK
<1>1. IInv => TypeOK
  BY DEF IInv
<1> QED BY <1>1, IInvHolds, PTL

(* The goal's fold never meets a round that is not the next one within its   *)
(* cap while the fence is up, unless the goal was changed while a listener   *)
(* outside the fence awaited: index.ts's two checks are enough.              *)
THEOREM RoundsFollow == Spec => []FoldGuarded
<1>1. IInv => FoldGuarded
  BY DEF IInv
<1> QED BY <1>1, IInvHolds, PTL

(* The fence gives back all context claimed together with a round it         *)
(* rejects, at its first check and at its second.                            *)
THEOREM FenceLosesNoContext == Spec => []FenceKeepsContext
<1>1. IInv => FenceKeepsContext
  BY DEF IInv
<1> QED BY <1>1, IInvHolds, PTL

(* What cancels, fails, pauses, restarts or unloads the automatic work keeps *)
(* a further round from entering until someone changes the goal, unless the  *)
(* flush of a second loop fails once the round has passed the fence.         *)
THEOREM StopsHold == Spec => NoSelfRestart
<1>1. IInv /\ [Next]_vars => Held
  BY NextStep
<1>2. IInv /\ [Next]_vars => [RoundEnters /\ audit.quelled => audit.slipped]_vars
  BY <1>1 DEF Held
<1> QED BY <1>2, IInvHolds, PTL DEF Spec, NoSelfRestart

=============================================================================
