----------------------- MODULE SessionScheduleProofs -----------------------
(***************************************************************************)
(* Proofs about SessionSchedule, for every number of calls, every interval *)
(* and delay, every horizon and every bound.                               *)
(***************************************************************************)
EXTENDS SessionSchedule, FiniteSetTheorems, WellFoundedInduction, TLAPS

(* What the fold knows of an id once it has replayed a log.                 *)
Known == [state : {"new", "active", "gone"}, kind : {"once", "every"}, at : Instants]
(* The fold has not thrown, and the ids in use are the first ones.          *)
GoodFold(fold) ==
  /\ fold \in [Ids -> Known]
  /\ \A i \in Ids : fold[i].state # "new" => \A j \in 1 .. i : fold[j].state # "new"
GoodLog(events) == \A n \in 0 .. Len(events) : GoodFold(Replay(events)[n])

(* A transaction under way is the head of the FIFO.                         *)
AtHead(x) == queue # <<>> /\ Head(queue) = x
HeadOnly ==
  /\ \A c \in Calls : calls[c].pc \in {"preflight", "barrier"} => AtHead(c)
  /\ owner.run \in {"preflight", "claimed", "barrier"} => AtHead(Owner)
(* So no other one logs between its flush and its answer.                   *)
Marked == \A c \in Calls : calls[c].pc = "preflight" => calls[c].mark = Len(log)

(* Calls not begun and calls that are over have no mark.                    *)
Rest == \A c \in Calls : calls[c].pc \in {"none", "done"} => calls[c].mark = 0

(* What goes with the owner's run.                                          *)
OwnSide ==
  /\ agent.phase = "own" <=> owner.run = "claimed"
  /\ owner.sent => owner.run \in {"claimed", "barrier"}
  /\ owner.faulted => owner.run \in {"claimed", "ended", "none"} /\ ~owner.sent
  /\ owner.requested => owner.run # "none"

(* An occurrence shown in this life is behind the reminder.                 *)
Behind(n) ==
  log[n].type = "message" =>
    /\ log[n].life <= used.crashes
    /\ log[n].life = used.crashes =>
         \A d \in log[n].due :
           /\ Fold(log)[d.id].state # "new"
           /\ Fold(log)[d.id].state = "active" => owner.faulted \/ d.at < Fold(log)[d.id].at
ShownBehind == \A n \in 1 .. Len(log) : Behind(n)

(* The wake of every active reminder: a timer, or something under way that  *)
(* looks at them again.                                                     *)
Armed(r) == /\ owner.timer # NoTimer
            /\ used.jumps = 0 => owner.timer = 0 \/ clock + owner.timer <= r.at
Awaited == \/ owner.requested \/ owner.idleWait \/ owner.sent
           \/ owner.run \in {"queued", "preflight", "barrier"}
Awake == ~owner.lapsed /\ Heeds(owner) => Awaited \/ \A r \in Active : Armed(r)

(* The type invariant, in parts.                                            *)
Small ==
  /\ clock \in Instants
  /\ agent \in [phase : {"idle", "running", "own", "other"}, latched : BOOLEAN,
                aborted : BOOLEAN]
  /\ calls \in [Calls -> CallRec] /\ owner \in OwnerRec
  /\ used \in [turns : 0 .. MaxTurns, troubles : 0 .. MaxTroubles, jumps : 0 .. MaxTroubles,
               crashes : 0 .. MaxTroubles]
  /\ used.jumps <= used.troubles /\ used.crashes <= used.troubles
LogTyped ==
  /\ log \in Seq(Events) /\ stored \in 0 .. Len(log) /\ relied \in 0 .. Len(log)
  /\ owner.mark <= Len(log) /\ \A c \in Calls : calls[c].mark <= Len(log)
Waiting(o) == IF o.run \in {"none", "ended"} THEN {} ELSE {Owner}
Fifo ==
  /\ queue \in Seq(Calls \cup {Owner}) /\ IsInjective(queue)
  /\ ToSet(queue) = Open \cup Waiting(owner)

IInv == /\ TypeOK /\ GoodLog(log) /\ HeadOnly /\ Marked /\ Rest /\ OwnSide
        /\ AnswersAreDurable /\ DispatchIsBacked /\ RepeatsOnlyAfterCrash
        /\ ShownBehind /\ Awake
-----------------------------------------------------------------------------
(* Induction over data, from the least number of a set.                     *)

(* A set of numbers that is not empty has a least one.                      *)
LEMMA LeastOf ==
  ASSUME NEW S \in SUBSET Nat, S # {}
  PROVE  \E n \in S : \A k \in S : n <= k
<1>1. PICK n \in S : \A k \in S : ~(<<k, n>> \in OpToRel(<, Nat))
  BY NatLessThanWellFounded, WFMin, Zenon
<1>2. \A k \in S : ~(k < n)
  BY <1>1 DEF OpToRel
<1>3. QED BY <1>2

(* Replay is what its recursion says: a function that follows the recursion *)
(* up to k exists for every k.                                              *)
Fresh == [id \in Ids |-> New]
Obeys(g, events, k) ==
  g = [n \in 0 .. k |-> IF n = 0 THEN Fresh ELSE Change(g[n - 1], events[n])]

(* The fold's recursion has a solution.                                     *)
LEMMA ReplayExists ==
  ASSUME NEW events, NEW k \in Nat
  PROVE  \E g : Obeys(g, events, k)
<1> DEFINE S == {n \in Nat : ~ \E g : Obeys(g, events, n)}
<1>1. SUFFICES ASSUME S # {} PROVE FALSE
  BY Zenon
<1>2. PICK n \in S : \A j \in S : n <= j
  BY <1>1, LeastOf
<1>3. n # 0
  <2>1. Obeys([i \in 0 .. 0 |-> Fresh], events, 0)
    BY DEF Obeys
  <2>2. 0 \notin S
    BY <2>1, Zenon
  <2>3. QED BY <2>2
<1>4. PICK g : Obeys(g, events, n - 1)
  <2>1. n - 1 \in Nat /\ n - 1 \notin S
    BY <1>2, <1>3
  <2>2. QED BY <2>1, Zenon
<1> DEFINE h == [i \in 0 .. n |-> IF i = n THEN Change(g[n - 1], events[n]) ELSE g[i]]
           r == [i \in 0 .. n |-> IF i = 0 THEN Fresh ELSE Change(h[i - 1], events[i])]
<1>5. ASSUME NEW i \in 0 .. n
      PROVE  h[i] = r[i]
  <2>1. CASE i = n
    BY <2>1, <1>3, <1>2
  <2>2. CASE i # n
    <3>1. i \in 0 .. n - 1
      BY <2>2, <1>2
    <3>2. g[i] = IF i = 0 THEN Fresh ELSE Change(g[i - 1], events[i])
      BY <1>4, <3>1 DEF Obeys
    <3>3. i # 0 => h[i - 1] = g[i - 1]
      BY <3>1, <1>2
    <3> HIDE DEF h
    <3>4. h[i] = g[i]
      BY <2>2 DEF h
    <3>5. QED BY <3>2, <3>3, <3>4
  <2>3. QED BY <2>1, <2>2
<1>6. h = r
  BY <1>5
<1> HIDE DEF h
<1>7. Obeys(h, events, n)
  BY <1>6 DEF Obeys
<1>8. QED BY <1>7, <1>2, Zenon

(* The fold starts fresh and replays one event at a time.                   *)
LEMMA ReplayStep ==
  ASSUME NEW events, Len(events) \in Nat
  PROVE  /\ Replay(events)[0] = Fresh
         /\ \A n \in 1 .. Len(events) :
              Replay(events)[n] = Change(Replay(events)[n - 1], events[n])
<1>1. Replay(events) = CHOOSE g : Obeys(g, events, Len(events))
  BY DEF Replay, Obeys, Fresh
<1>2. Obeys(Replay(events), events, Len(events))
  BY <1>1, ReplayExists, Zenon
<1>3. \A n \in 0 .. Len(events) :
        Replay(events)[n] = IF n = 0 THEN Fresh ELSE Change(Replay(events)[n - 1], events[n])
  <2> DEFINE f == Replay(events)
  <2> HIDE DEF f
  <2>1. f = [n \in 0 .. Len(events) |-> IF n = 0 THEN Fresh ELSE Change(f[n - 1], events[n])]
    BY <1>2 DEF Obeys, f
  <2>2. \A n \in 0 .. Len(events) :
          f[n] = IF n = 0 THEN Fresh ELSE Change(f[n - 1], events[n])
    BY <2>1
  <2>3. QED BY <2>2 DEF f
<1>4. QED BY <1>3

(* Two logs that agree up to k are replayed alike up to k.                  *)
LEMMA ReplayPrefix ==
  ASSUME NEW a, NEW b, Len(a) \in Nat, Len(b) \in Nat,
         NEW k \in Nat, k <= Len(a), k <= Len(b),
         \A n \in 1 .. k : a[n] = b[n]
  PROVE  \A n \in 0 .. k : Replay(a)[n] = Replay(b)[n]
<1> DEFINE S == {n \in 0 .. k : Replay(a)[n] # Replay(b)[n]}
<1>1. SUFFICES ASSUME S # {} PROVE FALSE
  OBVIOUS
<1>2. PICK n \in S : \A j \in S : n <= j
  <2>1. S \in SUBSET Nat
    OBVIOUS
  <2>2. QED BY <1>1, <2>1, LeastOf, Zenon
<1>3. n \in 1 .. k
  BY <1>2, ReplayStep
<1>4. Replay(a)[n - 1] = Replay(b)[n - 1]
  BY <1>2, <1>3
<1>5. Replay(a)[n] = Change(Replay(a)[n - 1], a[n]) /\ Replay(b)[n] = Change(Replay(b)[n - 1], b[n])
  BY <1>3, ReplayStep
<1>6. QED BY <1>2, <1>3, <1>4, <1>5

(* The fold of a log with one more event.                                   *)
LEMMA ReplayAppend ==
  ASSUME NEW S, NEW a \in Seq(S), NEW e \in S
  PROVE  /\ \A n \in 0 .. Len(a) : Replay(Append(a, e))[n] = Replay(a)[n]
         /\ Fold(Append(a, e)) = Change(Fold(a), e)
<1> DEFINE b == Append(a, e)
<1>1. b \in Seq(S) /\ Len(b) = Len(a) + 1 /\ Len(a) \in Nat /\ b[Len(a) + 1] = e
  OBVIOUS
<1>2. \A n \in 1 .. Len(a) : b[n] = a[n]
  OBVIOUS
<1> HIDE DEF b
<1>3. \A n \in 0 .. Len(a) : Replay(b)[n] = Replay(a)[n]
  BY <1>1, <1>2, ReplayPrefix
<1>4. Replay(b)[Len(b)] = Change(Replay(b)[Len(b) - 1], b[Len(b)])
  BY <1>1, ReplayStep
<1>5. Fold(b) = Change(Fold(a), e)
  BY <1>1, <1>3, <1>4 DEF Fold
<1>6. QED BY <1>3, <1>5 DEF b

(* The fold of the first k events of a log.                                 *)
LEMMA ReplaySubSeq ==
  ASSUME NEW S, NEW a \in Seq(S), NEW k \in 0 .. Len(a)
  PROVE  /\ \A n \in 0 .. k : Replay(SubSeq(a, 1, k))[n] = Replay(a)[n]
         /\ Fold(SubSeq(a, 1, k)) = Replay(a)[k]
<1> DEFINE b == SubSeq(a, 1, k)
<1>1. b \in Seq(S) /\ Len(b) = k /\ Len(a) \in Nat /\ k \in Nat /\ k <= Len(a)
  OBVIOUS
<1>2. \A n \in 1 .. k : b[n] = a[n]
  OBVIOUS
<1> HIDE DEF b
<1>3. \A n \in 0 .. k : Replay(b)[n] = Replay(a)[n]
  BY <1>1, <1>2, ReplayPrefix
<1>4. QED BY <1>1, <1>3 DEF b, Fold

-----------------------------------------------------------------------------
(* Occurrences and their order.                                             *)

(* The occurrence by t lies between the creation and t.                     *)
LEMMA OccurrenceBounds ==
  ASSUME NEW at \in Nat, NEW t \in Nat, at <= t
  PROVE  /\ at + ((t - at) \div Interval) * Interval \in Nat
         /\ at <= at + ((t - at) \div Interval) * Interval
         /\ at + ((t - at) \div Interval) * Interval <= t
<1>1. Interval \in Nat /\ Interval > 0 /\ t - at \in Nat
  BY ScheduleAssumption
<1> DEFINE q == (t - at) \div Interval
           m == (t - at) % Interval
<1>2. q \in Nat /\ m \in Nat /\ t - at = Interval * q + m
  BY <1>1
<1> HIDE DEF q, m
<1>3. Interval * q \in Nat /\ Interval * q = q * Interval
  BY <1>1, <1>2
<1>4. at + q * Interval \in Nat /\ at <= at + q * Interval /\ at + q * Interval <= t
  BY <1>2, <1>3
<1>5. QED BY <1>4 DEF q

(* Reminders that Before puts in one order.                                 *)
Distinct(B) == /\ \A r \in B : r.at \in Nat /\ r.id \in Nat
               /\ \A r, q \in B : r.id = q.id => r = q
Sorts(s, B) == /\ s \in [1 .. Cardinality(B) -> B]
               /\ \A i, j \in 1 .. Cardinality(B) : i < j => Before(s[i], s[j])
               /\ \A r \in B : \E i \in 1 .. Cardinality(B) : s[i] = r

(* A set of reminders that is not empty has a first one.                    *)
LEMMA FirstExists ==
  ASSUME NEW B, Distinct(B), B # {}
  PROVE  \E r \in B : \A q \in B \ {r} : Before(r, q)
<1> DEFINE A == {r.at : r \in B}
<1>1. A \in SUBSET Nat /\ A # {}
  BY DEF Distinct
<1>2. PICK n \in A : \A k \in A : n <= k
  BY <1>1, LeastOf
<1> DEFINE I == {r.id : r \in {q \in B : q.at = n}}
<1>3. I \in SUBSET Nat /\ I # {}
  BY <1>2 DEF Distinct
<1>4. PICK i \in I : \A k \in I : i <= k
  BY <1>3, LeastOf
<1>5. PICK r \in B : r.at = n /\ r.id = i
  BY <1>4
<1>6. ASSUME NEW q \in B \ {r}
      PROVE  Before(r, q)
  <2>1. q.at \in A /\ r.id # q.id /\ q.at \in Nat /\ r.at \in Nat /\ r.id \in Nat /\ q.id \in Nat
    BY <1>5 DEF Distinct
  <2>2. r.at <= q.at
    BY <1>2, <1>5, <2>1
  <2>3. q.at = n => i <= q.id
    BY <1>4
  <2>4. QED BY <2>1, <2>2, <2>3, <1>5 DEF Before
<1>7. QED BY <1>6

(* A finite set of reminders can be enumerated in order.                    *)
LEMMA SortExists ==
  ASSUME NEW B, IsFiniteSet(B), Distinct(B)
  PROVE  \E s : Sorts(s, B)
<1> DEFINE Fails(n) == \E X : /\ IsFiniteSet(X) /\ Distinct(X) /\ Cardinality(X) = n
                              /\ ~ \E s : Sorts(s, X)
           S == {n \in Nat : Fails(n)}
<1>1. SUFFICES ASSUME S # {} PROVE FALSE
  <2>1. ASSUME ~ \E s : Sorts(s, B) PROVE S # {}
    <3>1. Fails(Cardinality(B))
      BY <2>1, Zenon
    <3>2. Cardinality(B) \in Nat
      BY FS_CardinalityType
    <3> HIDE DEF Fails
    <3>3. QED BY <3>1, <3>2
  <2>2. QED BY <2>1, Zenon
<1>2. PICK n \in S : \A j \in S : n <= j
  BY <1>1, LeastOf
<1>3. PICK X : /\ IsFiniteSet(X) /\ Distinct(X) /\ Cardinality(X) = n
               /\ ~ \E s : Sorts(s, X)
  BY <1>2
<1>4. X # {}
  <2>1. ASSUME X = {} PROVE FALSE
    <3>1. Cardinality(X) = 0 /\ n = 0
      BY <2>1, <1>3, FS_EmptySet
    <3>2. Sorts([i \in 1 .. 0 |-> 0], X)
      BY <2>1, <3>1 DEF Sorts
    <3>3. QED BY <3>2, <1>3, Zenon
  <2>2. QED BY <2>1
<1>5. PICK r \in X : \A q \in X \ {r} : Before(r, q)
  BY <1>3, <1>4, FirstExists
<1> DEFINE Y == X \ {r}
<1>6. IsFiniteSet(Y) /\ Cardinality(Y) = n - 1 /\ n \in Nat /\ n - 1 \in Nat
  <2>1. IsFiniteSet(Y) /\ Cardinality(Y) = n - 1
    BY <1>3, <1>5, FS_RemoveElement
  <2>2. Cardinality(Y) \in Nat /\ n \in Nat
    BY <2>1, FS_CardinalityType, <1>2
  <2>3. QED BY <2>1, <2>2
<1>7. Distinct(Y)
  BY <1>3 DEF Distinct
<1>8. PICK s : Sorts(s, Y)
  <2>1. n - 1 \notin S
    BY <1>2, <1>6
  <2>2. ~Fails(n - 1)
    BY <2>1, <1>6
  <2>3. QED BY <2>2, <1>6, <1>7, Zenon
<1> DEFINE u == [i \in 1 .. n |-> IF i = 1 THEN r ELSE s[i - 1]]
<1>9. /\ s \in [1 .. n - 1 -> Y]
      /\ \A i, j \in 1 .. n - 1 : i < j => Before(s[i], s[j])
      /\ \A q \in Y : \E i \in 1 .. n - 1 : s[i] = q
  BY <1>6, <1>8 DEF Sorts
<1>10. u \in [1 .. n -> X]
  BY <1>9, <1>5, <1>6
<1>11. ASSUME NEW i \in 1 .. n, NEW j \in 1 .. n, i < j
       PROVE  Before(u[i], u[j])
  <2>1. j - 1 \in 1 .. n - 1 /\ u[j] = s[j - 1]
    BY <1>11, <1>6
  <2>2. CASE i = 1
    BY <2>1, <2>2, <1>5, <1>9
  <2>3. CASE i # 1
    <3>1. i - 1 \in 1 .. n - 1 /\ u[i] = s[i - 1] /\ i - 1 < j - 1
      BY <1>11, <1>6, <2>3
    <3>2. QED BY <2>1, <3>1, <1>9
  <2>4. QED BY <2>2, <2>3
<1>12. ASSUME NEW q \in X
       PROVE  \E i \in 1 .. n : u[i] = q
  <2>1. CASE q = r
    BY <2>1, <1>6, <1>4, <1>3, FS_EmptySet
  <2>2. CASE q # r
    <3>1. PICK i \in 1 .. n - 1 : s[i] = q
      BY <2>2, <1>9
    <3>2. i + 1 \in 1 .. n /\ u[i + 1] = q
      BY <3>1, <1>6
    <3>3. QED BY <3>2
  <2>3. QED BY <2>1, <2>2
<1> HIDE DEF u
<1>13. Sorts(u, X)
  BY <1>3, <1>10, <1>11, <1>12 DEF Sorts
<1>14. QED BY <1>13, <1>3, Zenon

(* The order in which a batch is dispatched holds each reminder once.       *)
LEMMA BatchSorted ==
  ASSUME NEW B, IsFiniteSet(B), Distinct(B)
  PROVE  /\ Sorts(InOrder(B), B)
         /\ \A i, j \in 1 .. Cardinality(B) : i # j => InOrder(B)[i].id # InOrder(B)[j].id
<1> DEFINE n == Cardinality(B)
           s == InOrder(B)
<1>1. n \in Nat
  BY FS_CardinalityType
<1>2. /\ s \in [1 .. n -> B]
      /\ \A i, j \in 1 .. n : i < j => Before(s[i], s[j])
  <2>1. \E w : Sorts(w, B)
    BY SortExists
  <2>2. QED BY <2>1 DEF InOrder, Sorts
<1> HIDE DEF n, s
<1>3. ASSUME NEW i \in 1 .. n, NEW j \in 1 .. n, i # j
      PROVE  s[i].id # s[j].id
  <2>1. ASSUME NEW k \in 1 .. n, NEW l \in 1 .. n, k < l
        PROVE  s[k].id # s[l].id
    <3>1. Before(s[k], s[l]) /\ s[k] \in B /\ s[l] \in B
      BY <2>1, <1>2
    <3>2. s[k].at \in Nat /\ s[l].at \in Nat /\ s[k].id \in Nat /\ s[l].id \in Nat
      BY <3>1 DEF Distinct
    <3>3. s[k].id = s[l].id => s[k] = s[l]
      BY <3>1 DEF Distinct
    <3>4. QED BY <3>1, <3>2, <3>3 DEF Before
  <2>2. i < j \/ j < i
    BY <1>1, <1>3
  <2>3. QED BY <2>1, <2>2
<1>4. \A r \in B : \E i \in 1 .. n : s[i] = r
  <2>1. s \in Injection(1 .. n, B)
    BY <1>2, <1>3 DEF Injection, IsInjective
  <2>2. Cardinality(1 .. n) = n /\ IsFiniteSet(1 .. n)
    BY <1>1, FS_Interval
  <2>3. s \in Surjection(1 .. n, B)
    BY <2>1, <2>2, FS_Injection DEF n
  <2>4. QED BY <2>3 DEF Surjection
<1>5. QED BY <1>2, <1>3, <1>4 DEF Sorts, n, s

-----------------------------------------------------------------------------
(* What one change does to the fold.                                        *)

Legal(fold, e) ==
  \/ e.type = "message"
  \/ /\ e.type = "create" /\ e.kind \in {"once", "every"} /\ e.at \in Instants
     /\ e.id \in Nat
     /\ e.id \in Ids => /\ fold[e.id].state = "new"
                        /\ \A j \in 1 .. e.id - 1 : fold[j].state # "new"
  \/ e.type = "delete" /\ e.id \in Ids /\ fold[e.id].state = "active"
  \/ /\ e.type = "dispatch" /\ e.id \in Ids /\ fold[e.id].state = "active"
     /\ fold[e.id].kind = "once" => e.accepted = NoTime
     /\ fold[e.id].kind = "every" => e.accepted \in Instants /\ fold[e.id].at <= e.accepted

(* The dispatched reminder is gone or has moved on.                         *)
LEMMA DispatchedForms ==
  ASSUME NEW r \in Known, NEW t \in Instants, r.kind = "every" => r.at <= t
  PROVE  LET a == AfterDispatch(r, IF r.kind = "every" THEN t ELSE NoTime)
         IN  /\ a \in Known
             /\ r.state = "active" => a.state \in {"active", "gone"}
             /\ a.state = "active" /\ r.state = "active" =>
                  r.kind = "every" /\ r.at < a.at /\ Occurrence(r, t) < a.at
<1>1. Instants \subseteq Nat /\ Gone \in Known /\ Gone.state = "gone" /\ r.at \in Nat /\ t \in Nat
  BY ScheduleAssumption DEF Instants, Gone, New, Known
<1>2. CASE r.kind = "once"
  BY <1>1, <1>2 DEF AfterDispatch
<1>3. CASE r.kind = "every"
  <2>1. r.at <= t /\ NoTime # t /\ ~(t < r.at)
    BY <1>1, <1>3 DEF NoTime
  <2>2. Occurrence(r, t) \in Nat /\ r.at <= Occurrence(r, t)
    BY <2>1, <1>1, <1>3, OccurrenceBounds DEF Occurrence
  <2>3. NextAt(r, t) \in Nat /\ Occurrence(r, t) < NextAt(r, t) /\ r.at < NextAt(r, t)
    BY <2>2, <1>1, ScheduleAssumption DEF NextAt
  <2>4. AfterDispatch(r, t) =
          IF NextAt(r, t) <= Horizon THEN [r EXCEPT !.at = NextAt(r, t)] ELSE Gone
    BY <1>3, <2>1 DEF AfterDispatch
  <2>5. CASE NextAt(r, t) <= Horizon
    <3>1. NextAt(r, t) \in Instants
      BY <2>3, <2>5, ScheduleAssumption DEF Instants
    <3>2. [r EXCEPT !.at = NextAt(r, t)] \in Known /\ [r EXCEPT !.at = NextAt(r, t)].at = NextAt(r, t)
          /\ [r EXCEPT !.at = NextAt(r, t)].state = r.state
      BY <3>1 DEF Known
    <3>3. QED BY <3>2, <2>3, <2>4, <2>5, <1>3
  <2>6. CASE ~(NextAt(r, t) <= Horizon)
    BY <2>4, <2>6, <1>1, <1>3
  <2>7. QED BY <2>5, <2>6
<1>4. r.kind \in {"once", "every"}
  BY DEF Known
<1>5. QED BY <1>2, <1>3, <1>4

(* The fold of the empty log is good.                                       *)
LEMMA GoodInit == GoodFold(Fresh)
BY ScheduleAssumption DEF GoodFold, Fresh, New, Known, Instants

(* A legal change keeps the fold good.                                      *)
LEMMA GoodChange ==
  ASSUME NEW fold, GoodFold(fold), NEW e, Legal(fold, e)
  PROVE  GoodFold(Change(fold, e))
<1>1. CASE e.type = "message"
  BY <1>1 DEF Change
<1>2. CASE e.type # "message" /\ e.id \notin Ids
  <2>1. Change(fold, e) = fold
    BY <1>2 DEF Change, GoodFold
  <2>2. QED BY <2>1
<1>3. CASE e.type # "message" /\ e.id \in Ids
  <2> DEFINE a == After(fold[e.id], e)
  <2>1. Change(fold, e) = [fold EXCEPT ![e.id] = a]
    BY <1>3 DEF Change, GoodFold
  <2>2. fold[e.id] \in Known /\ Ids \subseteq Nat
    BY <1>3, ScheduleAssumption DEF GoodFold, Ids
  <2>3. a \in Known /\ a.state # "new"
    <3>1. CASE e.type = "create"
      BY <3>1, <1>3 DEF Legal, After, Known
    <3>2. CASE e.type = "delete"
      BY <3>2, <1>3, ScheduleAssumption DEF Legal, After, Known, Gone, New, Instants
    <3>3. CASE e.type = "dispatch"
      <4>1. /\ fold[e.id].state = "active"
            /\ a = AfterDispatch(fold[e.id], e.accepted)
        BY <3>3, <1>3 DEF Legal, After
      <4>2. CASE fold[e.id].kind = "every"
        BY <4>1, <4>2, <3>3, <1>3, <2>2, DispatchedForms DEF Legal
      <4>3. CASE fold[e.id].kind = "once"
        <5>1. 0 \in Instants /\ e.accepted = NoTime
          BY <4>3, <3>3, <1>3, ScheduleAssumption DEF Instants, Legal
        <5>2. QED BY <4>1, <4>3, <5>1, <2>2, DispatchedForms
      <4>4. QED BY <4>2, <4>3, <2>2 DEF Known
    <3>4. QED BY <3>1, <3>2, <3>3, <1>3 DEF Legal
  <2> HIDE DEF a
  <2>4. Change(fold, e) \in [Ids -> Known]
    BY <2>1, <2>3 DEF GoodFold
  <2>5. ASSUME NEW i \in Ids, Change(fold, e)[i].state # "new", NEW j \in 1 .. i
        PROVE  Change(fold, e)[j].state # "new"
    <3>1. j \in Ids /\ i \in Nat /\ j \in Nat /\ j <= i
      BY ScheduleAssumption DEF Ids
    <3>2. CASE j = e.id
      BY <3>1, <3>2, <2>1, <2>3 DEF GoodFold
    <3>3. CASE j # e.id /\ i # e.id
      BY <3>1, <3>3, <2>1, <2>5 DEF GoodFold
    <3>4. CASE j # e.id /\ i = e.id
      <4>1. Change(fold, e)[j] = fold[j]
        BY <3>1, <3>4, <2>1 DEF GoodFold
      <4>2. CASE e.type = "create"
        BY <4>1, <4>2, <3>1, <3>4, <1>3 DEF Legal
      <4>3. CASE e.type # "create"
        <5>1. fold[i].state = "active"
          BY <4>3, <3>4, <1>3 DEF Legal
        <5>2. QED BY <4>1, <5>1, <3>1 DEF GoodFold
      <4>4. QED BY <4>2, <4>3
    <3>5. QED BY <3>2, <3>3, <3>4
  <2>6. QED BY <2>4, <2>5 DEF GoodFold
<1>4. QED BY <1>1, <1>2, <1>3

(* The allocated id is the first one not in use.                            *)
LEMMA AllocatedIsNew ==
  ASSUME GoodFold(Fold(log))
  PROVE  /\ Allocated \in Nat
         /\ Allocated \in Ids => /\ Fold(log)[Allocated].state = "new"
                                 /\ \A j \in 1 .. Allocated - 1 : Fold(log)[j].state # "new"
<1> DEFINE F == Fold(log)
           U == {n \in Nat \ {0} : n \notin Seen(F)}
<1>1. U \in SUBSET Nat /\ U # {}
  <2>1. NumCalls + 1 \in U
    BY ScheduleAssumption DEF Seen, Ids
  <2>2. QED BY <2>1
<1> HIDE DEF F
<1>2. PICK n \in U : \A k \in U : n <= k
  BY <1>1, LeastOf
<1>3. n \in Nat /\ n > 0 /\ n \notin Seen(F)
  BY <1>2
<1>4. Seen(F) = 1 .. n - 1
  <2>1. ASSUME NEW i \in 1 .. n - 1 PROVE i \in Seen(F)
    <3>1. i \in Nat \ {0} /\ ~(n <= i)
      BY <1>3
    <3>2. QED BY <3>1, <1>2
  <2>2. ASSUME NEW i \in Seen(F) PROVE i \in 1 .. n - 1
    <3>1. i \in Ids /\ i \in Nat /\ i > 0 /\ F[i].state # "new"
      BY <2>2, ScheduleAssumption DEF Seen, Ids
    <3>2. ASSUME n <= i PROVE FALSE
      <4>1. n \in 1 .. i /\ n \in Ids
        BY <3>1, <3>2, <1>3, ScheduleAssumption DEF Ids
      <4>2. F[n].state # "new"
        BY <4>1, <3>1 DEF GoodFold, F
      <4>3. QED BY <4>1, <4>2, <1>3 DEF Seen
    <3>3. QED BY <3>1, <3>2, <1>3
  <2>3. QED BY <2>1, <2>2
<1>5. Cardinality(Seen(F)) = n - 1
  BY <1>3, <1>4, FS_Interval
<1>6. Allocated = n
  BY <1>5, <1>3 DEF Allocated, F
<1>7. QED BY <1>6, <1>3, <1>4 DEF Seen, F

(* The active reminders of a good fold.                                     *)
LEMMA ActivesForms ==
  ASSUME NEW fold, GoodFold(fold)
  PROVE  /\ \A r \in Actives(fold) :
              /\ r.id \in Ids /\ r.at \in Instants /\ r.kind \in {"once", "every"}
              /\ fold[r.id].state = "active" /\ fold[r.id].kind = r.kind /\ fold[r.id].at = r.at
         /\ \A i \in Ids : fold[i].state = "active" =>
              \E r \in Actives(fold) : r.id = i /\ r.kind = fold[i].kind /\ r.at = fold[i].at
         /\ IsFiniteSet(Actives(fold)) /\ Distinct(Actives(fold))
<1>1. ASSUME NEW r \in Actives(fold)
      PROVE  /\ r.id \in Ids /\ r.at \in Instants /\ r.kind \in {"once", "every"}
             /\ fold[r.id].state = "active" /\ fold[r.id].kind = r.kind /\ fold[r.id].at = r.at
             /\ r = [id |-> r.id, kind |-> fold[r.id].kind, at |-> fold[r.id].at]
  BY DEF Actives, GoodFold, Known
<1>2. \A i \in Ids : fold[i].state = "active" =>
        \E r \in Actives(fold) : r.id = i /\ r.kind = fold[i].kind /\ r.at = fold[i].at
  <2> SUFFICES ASSUME NEW i \in Ids, fold[i].state = "active"
               PROVE  \E r \in Actives(fold) :
                        r.id = i /\ r.kind = fold[i].kind /\ r.at = fold[i].at
    OBVIOUS
  <2> DEFINE r == [id |-> i, kind |-> fold[i].kind, at |-> fold[i].at]
  <2>1. r \in Actives(fold)
    BY DEF Actives
  <2>2. r.id = i /\ r.kind = fold[i].kind /\ r.at = fold[i].at
    OBVIOUS
  <2>3. QED BY <2>1, <2>2
<1>3. Instants \subseteq Nat /\ Ids \subseteq Nat
  BY ScheduleAssumption DEF Instants, Ids
<1>4. Distinct(Actives(fold))
  <2>1. ASSUME NEW r \in Actives(fold), NEW q \in Actives(fold), r.id = q.id
        PROVE  r = q
    BY <1>1, <2>1
  <2>2. QED BY <1>1, <1>3, <2>1 DEF Distinct
<1>5. IsFiniteSet(Actives(fold))
  <2> DEFINE f == [r \in Actives(fold) |-> r.id]
  <2>1. f \in [Actives(fold) -> Ids]
    BY <1>1
  <2>2. IsInjective(f)
    BY <1>4 DEF IsInjective, Distinct
  <2>3. f \in Injection(Actives(fold), Ids)
    BY <2>1, <2>2 DEF Injection
  <2>4. IsFiniteSet(Ids)
    BY FS_Interval, ScheduleAssumption DEF Ids
  <2>5. QED BY <2>3, <2>4, FS_Injection
<1>6. QED BY <1>1, <1>2, <1>4, <1>5

-----------------------------------------------------------------------------
(* What the owner logs when it hands a batch out.                           *)

Batch(fold, B, t) ==
  /\ B \subseteq Actives(fold) /\ t \in Instants
  /\ \A r \in B : r.at <= t

(* A batch is finite and enumerated in order, its dispatches are events.    *)
LEMMA BatchForms ==
  ASSUME NEW fold, GoodFold(fold), NEW B, NEW t, Batch(fold, B, t)
  PROVE  /\ Cardinality(B) \in Nat
         /\ Sorts(InOrder(B), B)
         /\ \A i, j \in 1 .. Cardinality(B) : i # j => InOrder(B)[i].id # InOrder(B)[j].id
         /\ Dispatches(B, t) \in Seq(Events) /\ Len(Dispatches(B, t)) = Cardinality(B)
         /\ \A i \in 1 .. Cardinality(B) : Dispatches(B, t)[i] = Dispatch(InOrder(B)[i], t)
<1>1. IsFiniteSet(B) /\ Distinct(B) /\ Cardinality(B) \in Nat
  <2>1. IsFiniteSet(Actives(fold)) /\ Distinct(Actives(fold))
    BY ActivesForms
  <2>2. IsFiniteSet(B)
    BY <2>1, FS_Subset DEF Batch
  <2>3. Distinct(B)
    BY <2>1 DEF Batch, Distinct
  <2>4. QED BY <2>2, <2>3, FS_CardinalityType
<1> DEFINE n == Cardinality(B)
           s == InOrder(B)
<1>2. Sorts(s, B) /\ \A i, j \in 1 .. n : i # j => s[i].id # s[j].id
  BY <1>1, BatchSorted
<1>3. ASSUME NEW i \in 1 .. n
      PROVE  Dispatch(s[i], t) \in Events
  <2>1. s[i] \in Actives(fold)
    BY <1>2 DEF Sorts, Batch
  <2>2. s[i].id \in Ids
    BY <2>1, ActivesForms
  <2>3. QED BY <2>2 DEF Dispatch, Events, Batch
<1>4. Dispatches(B, t) = [i \in 1 .. n |-> Dispatch(s[i], t)]
  BY DEF Dispatches
<1> HIDE DEF n, s
<1>5. Dispatches(B, t) \in Seq(Events) /\ Len(Dispatches(B, t)) = n
      /\ \A i \in 1 .. n : Dispatches(B, t)[i] = Dispatch(s[i], t)
  BY <1>1, <1>3, <1>4 DEF n
<1>6. QED BY <1>1, <1>2, <1>5 DEF n, s

(* The message shows the batch, and the dispatches follow it.               *)
LEMMA MessageForms ==
  ASSUME NEW fold, GoodFold(fold), NEW B, NEW t, Batch(fold, B, t), used.crashes \in Nat
  PROVE  /\ Message(Due(B, t)) \in Events
         /\ Sent(B, t) \in Seq(Events) /\ Len(Sent(B, t)) = Cardinality(B) + 1
         /\ Sent(B, t)[1] = Message(Due(B, t))
         /\ \A i \in 1 .. Cardinality(B) : Sent(B, t)[i + 1] = Dispatch(InOrder(B)[i], t)
<1>1. ASSUME NEW r \in B
      PROVE  r.id \in Ids /\ Occurrence(r, t) \in Instants
  <2>1. r.id \in Ids /\ r.at \in Instants /\ r.at <= t /\ t \in Instants
    BY ActivesForms DEF Batch
  <2>2. Instants = 0 .. Horizon /\ Horizon \in Nat
    BY ScheduleAssumption DEF Instants
  <2>3. r.at \in Nat /\ t \in Nat
    BY <2>1, <2>2
  <2>4. /\ r.at + ((t - r.at) \div Interval) * Interval \in Nat
        /\ r.at + ((t - r.at) \div Interval) * Interval <= t
    BY <2>1, <2>3, OccurrenceBounds
  <2>5. QED BY <2>1, <2>2, <2>3, <2>4 DEF Occurrence
<1>2. Due(B, t) \subseteq [id : Ids, at : Instants]
  BY <1>1 DEF Due
<1>3. Message(Due(B, t)) \in Events
  BY <1>2 DEF Message, Events
<1>4. /\ Cardinality(B) \in Nat /\ Dispatches(B, t) \in Seq(Events)
      /\ Len(Dispatches(B, t)) = Cardinality(B)
      /\ \A i \in 1 .. Cardinality(B) : Dispatches(B, t)[i] = Dispatch(InOrder(B)[i], t)
  BY BatchForms
<1> DEFINE m == Message(Due(B, t))
           d == Dispatches(B, t)
<1> HIDE DEF m, d
<1>5. /\ <<m>> \o d \in Seq(Events) /\ Len(<<m>> \o d) = Cardinality(B) + 1
      /\ (<<m>> \o d)[1] = m
      /\ \A i \in 1 .. Cardinality(B) : (<<m>> \o d)[i + 1] = d[i]
  BY <1>3, <1>4 DEF m, d
<1>6. Sent(B, t) = <<m>> \o d
  BY DEF Sent, m, d
<1>7. QED BY <1>3, <1>4, <1>5, <1>6 DEF m, d

(* The log with the first k events of what is handed out.                   *)
Handed(B, t, k) == log \o SubSeq(Sent(B, t), 1, k)

(* What the log holds when k events have been handed out.                   *)
LEMMA HandedForms ==
  ASSUME log \in Seq(Events), GoodLog(log), used.crashes \in Nat,
         NEW B, NEW t, Batch(Fold(log), B, t), NEW k \in 1 .. Cardinality(B) + 1
  PROVE  /\ Cardinality(B) \in Nat
         /\ Handed(B, t, k) \in Seq(Events) /\ Len(Handed(B, t, k)) = Len(log) + k
         /\ \A n \in 1 .. Len(log) : Handed(B, t, k)[n] = log[n]
         /\ Handed(B, t, k)[Len(log) + 1] = Message(Due(B, t))
         /\ \A i \in 1 .. k - 1 : Handed(B, t, k)[Len(log) + 1 + i] = Dispatch(InOrder(B)[i], t)
<1>1. GoodFold(Fold(log)) /\ Len(log) \in Nat
  BY DEF GoodLog, Fold
<1> DEFINE s == Sent(B, t)
           c == Cardinality(B)
<1>2. /\ s \in Seq(Events) /\ Len(s) = c + 1 /\ c \in Nat
      /\ s[1] = Message(Due(B, t))
      /\ \A i \in 1 .. c : s[i + 1] = Dispatch(InOrder(B)[i], t)
  BY <1>1, MessageForms, BatchForms
<1> HIDE DEF s, c
<1> DEFINE p == SubSeq(s, 1, k)
<1>3. k \in 1 .. c + 1 /\ k \in Nat
  BY <1>2 DEF c
<1>4. p \in Seq(Events) /\ Len(p) = k /\ \A i \in 1 .. k : p[i] = s[i]
  BY <1>2, <1>3
<1> HIDE DEF p
<1>5. /\ log \o p \in Seq(Events) /\ Len(log \o p) = Len(log) + k
      /\ \A n \in 1 .. Len(log) : (log \o p)[n] = log[n]
      /\ \A i \in 1 .. k : (log \o p)[Len(log) + i] = p[i]
  BY <1>1, <1>3, <1>4
<1>6. (log \o p)[Len(log) + 1] = Message(Due(B, t))
  BY <1>2, <1>3, <1>4, <1>5
<1>7. ASSUME NEW i \in 1 .. k - 1
      PROVE  (log \o p)[Len(log) + 1 + i] = Dispatch(InOrder(B)[i], t)
  <2>1. i \in 1 .. c /\ i + 1 \in 1 .. k /\ Len(log) + 1 + i = Len(log) + (i + 1)
    BY <1>1, <1>2, <1>3
  <2>2. (log \o p)[Len(log) + (i + 1)] = p[i + 1]
    BY <1>5, <2>1
  <2>3. p[i + 1] = s[i + 1]
    BY <1>4, <2>1
  <2>4. s[i + 1] = Dispatch(InOrder(B)[i], t)
    BY <1>2, <2>1
  <2>5. QED BY <2>1, <2>2, <2>3, <2>4
<1>8. QED BY <1>2, <1>5, <1>6, <1>7 DEF Handed, p, s, c

(* The fold behind the first i dispatches of the batch.                     *)
Accepted(r, t) == IF r.kind = "every" THEN t ELSE NoTime
Dispatched(fold, B, t, i) ==
  [id \in Ids |-> IF \E j \in 1 .. i : InOrder(B)[j].id = id
                    THEN AfterDispatch(fold[id], Accepted(fold[id], t)) ELSE fold[id]]

(* What the fold makes of the events that were handed out.                  *)
LEMMA HandedFold ==
  ASSUME log \in Seq(Events), GoodLog(log), used.crashes \in Nat,
         NEW B, NEW t, Batch(Fold(log), B, t), NEW k \in 1 .. Cardinality(B) + 1
  PROVE  /\ \A n \in 0 .. Len(log) : Replay(Handed(B, t, k))[n] = Replay(log)[n]
         /\ \A i \in 0 .. k - 1 :
              Replay(Handed(B, t, k))[Len(log) + 1 + i] = Dispatched(Fold(log), B, t, i)
<1> DEFINE L == Handed(B, t, k)
           F == Fold(log)
           R == Replay(L)
           s == InOrder(B)
           c == Cardinality(B)
<1>1. /\ c \in Nat /\ L \in Seq(Events) /\ Len(L) = Len(log) + k /\ Len(log) \in Nat
      /\ \A n \in 1 .. Len(log) : L[n] = log[n]
      /\ L[Len(log) + 1] = Message(Due(B, t))
      /\ \A i \in 1 .. k - 1 : L[Len(log) + 1 + i] = Dispatch(s[i], t)
  BY HandedForms
<1>2. GoodFold(F) /\ F = Replay(log)[Len(log)]
  BY <1>1 DEF GoodLog, Fold
<1>3. k \in Nat /\ k >= 1 /\ k - 1 <= c
  BY <1>1
<1>4. /\ Sorts(s, B)
      /\ \A i, j \in 1 .. c : i # j => s[i].id # s[j].id
  BY <1>2, BatchForms
<1>5. \A r \in B : /\ r.id \in Ids /\ F[r.id].state = "active" /\ F[r.id].kind = r.kind
  BY <1>2, ActivesForms DEF Batch
<1> HIDE DEF L, F, s, c
<1>6. \A n \in 0 .. Len(log) : R[n] = Replay(log)[n]
  <2>1. Len(L) \in Nat /\ Len(log) \in Nat /\ Len(log) <= Len(L) /\ Len(log) <= Len(log)
    BY <1>1, <1>3
  <2>2. \A n \in 1 .. Len(log) : L[n] = log[n]
    BY <1>1
  <2>3. QED BY <2>1, <2>2, ReplayPrefix
<1>7. \A n \in 1 .. Len(log) + k : R[n] = Change(R[n - 1], L[n])
  BY <1>1, <1>3, ReplayStep
<1> HIDE DEF R
<1>8. R[Len(log) + 1] = Dispatched(F, B, t, 0)
  <2>1. R[Len(log) + 1] = Change(R[Len(log)], L[Len(log) + 1])
    BY <1>1, <1>3, <1>7
  <2>2. R[Len(log) + 1] = F
    BY <2>1, <1>1, <1>2, <1>6 DEF Change, Message
  <2>3. Dispatched(F, B, t, 0) = F
    BY <1>2 DEF Dispatched, GoodFold
  <2>4. QED BY <2>2, <2>3
<1> DEFINE S == {i \in 0 .. k - 1 : R[Len(log) + 1 + i] # Dispatched(F, B, t, i)}
<1>9. S = {}
  <2>1. SUFFICES ASSUME S # {} PROVE FALSE
    OBVIOUS
  <2>2. S \in SUBSET Nat
    BY <1>3
  <2>3. PICK i \in S : \A j \in S : i <= j
    BY <2>1, <2>2, LeastOf, Zenon
  <2>4. i \in 1 .. k - 1
    BY <1>8, <1>3, <2>3, <1>1
  <2>5. i - 1 \in 0 .. k - 1 /\ i - 1 \notin S
    BY <2>3, <2>4, <1>3
  <2>6. R[Len(log) + 1 + (i - 1)] = Dispatched(F, B, t, i - 1)
    BY <2>5
  <2>7. R[Len(log) + 1 + i] = Change(Dispatched(F, B, t, i - 1), Dispatch(s[i], t))
    <3>1. Len(log) + 1 + i \in 1 .. Len(log) + k /\ (Len(log) + 1 + i) - 1 = Len(log) + 1 + (i - 1)
      BY <2>4, <1>1, <1>3
    <3>2. R[Len(log) + 1 + i] = Change(R[Len(log) + 1 + (i - 1)], L[Len(log) + 1 + i])
      BY <3>1, <1>7
    <3>3. QED BY <3>2, <2>6, <2>4, <1>1
  <2> DEFINE r == s[i]
             P == Dispatched(F, B, t, i - 1)
  <2>8. r \in B /\ i \in 1 .. c
    <3>1. i \in 1 .. c
      BY <2>4, <1>1, <1>3
    <3>2. s \in [1 .. c -> B]
      BY <1>4 DEF Sorts, c
    <3>3. QED BY <3>1, <3>2
  <2>9. ~ \E j \in 1 .. i - 1 : s[j].id = r.id
    <3>1. ASSUME NEW j \in 1 .. i - 1 PROVE s[j].id # r.id
      <4>1. j \in 1 .. c /\ j # i
        BY <2>8, <1>1
      <4>2. QED BY <4>1, <2>8, <1>4
    <3>2. QED BY <3>1
  <2>10. r.id \in Ids /\ P[r.id] = F[r.id]
    BY <2>8, <2>9, <1>5 DEF Dispatched, s
  <2>11. Change(P, Dispatch(r, t)) = [P EXCEPT ![r.id] = After(P[r.id], Dispatch(r, t))]
    BY <2>10 DEF Change, Dispatch, Dispatched
  <2>12. After(P[r.id], Dispatch(r, t)) = AfterDispatch(F[r.id], Accepted(F[r.id], t))
    BY <2>8, <2>10, <1>5 DEF After, Dispatch, Accepted
  <2>13. ASSUME NEW id \in Ids
         PROVE  Dispatched(F, B, t, i)[id] =
                  IF id = r.id THEN AfterDispatch(F[id], Accepted(F[id], t)) ELSE P[id]
    <3>1. (\E j \in 1 .. i : s[j].id = id) <=> (id = r.id \/ \E j \in 1 .. i - 1 : s[j].id = id)
      <4>1. \A j \in 1 .. i : j = i \/ j \in 1 .. i - 1
        BY <2>4
      <4>2. i \in 1 .. i /\ \A j \in 1 .. i - 1 : j \in 1 .. i
        BY <2>4
      <4>3. QED BY <4>1, <4>2
    <3>2. QED BY <3>1, <2>9 DEF Dispatched, s
  <2> HIDE DEF r
  <2>14. DOMAIN P = Ids
    BY DEF Dispatched
  <2> HIDE DEF P
  <2>15. Dispatched(F, B, t, i) = [P EXCEPT ![r.id] = AfterDispatch(F[r.id], Accepted(F[r.id], t))]
    <3>1. Dispatched(F, B, t, i) = [id \in Ids |-> Dispatched(F, B, t, i)[id]]
      BY DEF Dispatched
    <3>2. QED BY <3>1, <2>13, <2>14, <2>10
  <2>16. R[Len(log) + 1 + i] = Dispatched(F, B, t, i)
    BY <2>7, <2>11, <2>12, <2>15 DEF P, r
  <2>17. QED BY <2>16, <2>3
<1>10. QED BY <1>6, <1>9 DEF L, R, F

-----------------------------------------------------------------------------
(* The delay of a segment, and the last change of the log.                  *)

(* A segment ends no later than any reminder that is not due.               *)
LEMMA DelayForms ==
  ASSUME NEW fold, GoodFold(fold), NEW t \in Instants
  PROVE  LET A == Actives(fold)
         IN  /\ Delay(A, t) \in {NoTimer} \cup 0 .. MaxDelay
             /\ \A r \in A : r.at > t => Delay(A, t) # NoTimer /\ t + Delay(A, t) <= r.at
<1> DEFINE A == Actives(fold)
           T == {r.at : r \in {q \in A : q.at > t}}
<1>1. \A r \in A : r.at \in Nat
  BY ActivesForms DEF Distinct
<1>2. t \in Nat /\ MaxDelay \in Nat /\ MaxDelay > 0 /\ NoTimer = -1
  BY ScheduleAssumption DEF Instants, NoTimer
<1> HIDE DEF A
<1>3. CASE T = {}
  <2>1. Delay(A, t) = NoTimer
    BY <1>3 DEF Delay
  <2>2. \A r \in A : ~(r.at > t)
    BY <1>3
  <2>3. QED BY <2>1, <2>2 DEF A
<1>4. CASE T # {}
  <2>1. T \in SUBSET Nat
    BY <1>1
  <2>2. \E m \in T : \A k \in T : m <= k
    BY <1>4, <2>1, LeastOf, Zenon
  <2> DEFINE next == CHOOSE m \in T : \A k \in T : m <= k
  <2>3. next \in T /\ \A k \in T : next <= k
    BY <2>2
  <2>4. Delay(A, t) = IF next - t < MaxDelay THEN next - t ELSE MaxDelay
    BY <1>4 DEF Delay
  <2> HIDE DEF next
  <2>5. next \in Nat /\ next > t
    BY <2>1, <2>3
  <2>6. Delay(A, t) \in 0 .. MaxDelay /\ t + Delay(A, t) <= next /\ Delay(A, t) # NoTimer
    BY <2>4, <2>5, <1>2
  <2>7. ASSUME NEW r \in A, r.at > t PROVE t + Delay(A, t) <= r.at
    BY <2>3, <2>5, <2>6, <2>7, <1>1, <1>2
  <2> HIDE DEF T
  <2>8. QED BY <2>6, <2>7 DEF A
<1>5. QED BY <1>3, <1>4

(* The extent lies in the log.                                              *)
LEMMA ExtentForms ==
  ASSUME log \in Seq(Events)
  PROVE  Extent(log) \in 0 .. Len(log)
<1> DEFINE I == {n \in 1 .. Len(log) : log[n].type # "message"}
           J == {Len(log) - n : n \in I}
<1>1. Len(log) \in Nat
  OBVIOUS
<1>2. CASE I = {}
  BY <1>1, <1>2 DEF Extent
<1>3. CASE I # {}
  <2>1. J \in SUBSET Nat /\ J # {}
    BY <1>1, <1>3
  <2>2. PICK m \in J : \A k \in J : m <= k
    BY <2>1, LeastOf, Zenon
  <2>3. PICK n \in I : m = Len(log) - n
    BY <2>2
  <2>4. ASSUME NEW k \in I PROVE k <= n
    <3>1. Len(log) - k \in J
      OBVIOUS
    <3>2. Len(log) - n <= Len(log) - k
      BY <3>1, <2>2, <2>3
    <3>3. QED BY <3>2, <1>1
  <2>5. Extent(log) = CHOOSE n1 \in I : \A k \in I : k <= n1
    BY <1>3 DEF Extent
  <2>6. Extent(log) \in I
    BY <2>3, <2>4, <2>5
  <2>7. QED BY <2>6, <1>1
<1>4. QED BY <1>2, <1>3

(* The FIFO without its head, and with one more at its end.                 *)
LEMMA TailForms ==
  ASSUME NEW S, NEW q \in Seq(S), q # <<>>, IsInjective(q)
  PROVE  /\ Tail(q) \in Seq(S) /\ IsInjective(Tail(q))
         /\ Head(q) \in ToSet(q) /\ ToSet(Tail(q)) = ToSet(q) \ {Head(q)}
<1>1. Len(q) \in Nat /\ Len(q) > 0 /\ DOMAIN q = 1 .. Len(q) /\ Head(q) = q[1]
  OBVIOUS
<1>2. /\ Tail(q) \in Seq(S) /\ DOMAIN Tail(q) = 1 .. Len(q) - 1
      /\ \A i \in 1 .. Len(q) - 1 : Tail(q)[i] = q[i + 1]
  OBVIOUS
<1>3. IsInjective(Tail(q))
  <2>1. ASSUME NEW i \in 1 .. Len(q) - 1, NEW j \in 1 .. Len(q) - 1, Tail(q)[i] = Tail(q)[j]
        PROVE  i = j
    <3>1. i + 1 \in DOMAIN q /\ j + 1 \in DOMAIN q /\ q[i + 1] = q[j + 1]
      BY <1>1, <1>2, <2>1
    <3>2. i + 1 = j + 1
      BY <3>1 DEF IsInjective
    <3>3. QED BY <3>2, <1>1
  <2>2. QED BY <2>1, <1>2 DEF IsInjective
<1>4. ASSUME NEW x
      PROVE  x \in ToSet(Tail(q)) <=> x \in ToSet(q) /\ x # q[1]
  <2>1. ASSUME x \in ToSet(Tail(q)) PROVE x \in ToSet(q) /\ x # q[1]
    <3>1. PICK i \in 1 .. Len(q) - 1 : x = q[i + 1]
      BY <2>1, <1>2 DEF ToSet
    <3>2. i + 1 \in DOMAIN q /\ 1 \in DOMAIN q /\ i + 1 # 1
      BY <1>1
    <3>3. QED BY <3>1, <3>2 DEF ToSet, IsInjective
  <2>2. ASSUME x \in ToSet(q), x # q[1] PROVE x \in ToSet(Tail(q))
    <3>1. PICK i \in 1 .. Len(q) : x = q[i]
      BY <2>2, <1>1 DEF ToSet
    <3>2. i - 1 \in 1 .. Len(q) - 1 /\ Tail(q)[i - 1] = x
      BY <3>1, <2>2, <1>1, <1>2
    <3>3. QED BY <3>2, <1>2 DEF ToSet
  <2>3. QED BY <2>1, <2>2
<1>5. q[1] \in ToSet(q)
  BY <1>1 DEF ToSet
<1>6. QED BY <1>1, <1>2, <1>3, <1>4, <1>5

(* The FIFO with one more at its end.                                       *)
LEMMA AppendForms ==
  ASSUME NEW S, NEW q \in Seq(S), IsInjective(q), NEW x \in S, x \notin ToSet(q)
  PROVE  /\ Append(q, x) \in Seq(S) /\ IsInjective(Append(q, x))
         /\ ToSet(Append(q, x)) = ToSet(q) \cup {x}
<1> DEFINE a == Append(q, x)
<1>1. /\ Len(q) \in Nat /\ DOMAIN q = 1 .. Len(q)
      /\ a \in Seq(S) /\ DOMAIN a = 1 .. Len(q) + 1 /\ a[Len(q) + 1] = x
      /\ \A i \in 1 .. Len(q) : a[i] = q[i]
  OBVIOUS
<1> HIDE DEF a
<1>2. \A i \in 1 .. Len(q) : q[i] # x
  BY <1>1 DEF ToSet
<1>3. IsInjective(a)
  <2>1. ASSUME NEW i \in 1 .. Len(q) + 1, NEW j \in 1 .. Len(q) + 1, a[i] = a[j]
        PROVE  i = j
    <3>1. CASE i \in 1 .. Len(q) /\ j \in 1 .. Len(q)
      BY <3>1, <2>1, <1>1 DEF IsInjective
    <3>2. CASE i = Len(q) + 1 \/ j = Len(q) + 1
      BY <3>2, <2>1, <1>1, <1>2
    <3>3. QED BY <3>1, <3>2, <1>1
  <2>2. QED BY <2>1, <1>1 DEF IsInjective
<1>4. ToSet(a) = ToSet(q) \cup {x}
  <2>1. ASSUME NEW y PROVE y \in ToSet(a) <=> y \in ToSet(q) \/ y = x
    <3>1. y \in ToSet(a) <=> \E i \in 1 .. Len(q) + 1 : a[i] = y
      BY <1>1 DEF ToSet
    <3>2. y \in ToSet(q) <=> \E i \in 1 .. Len(q) : q[i] = y
      BY <1>1 DEF ToSet
    <3>3. Len(q) + 1 \in 1 .. Len(q) + 1 /\ \A i \in 1 .. Len(q) : i \in 1 .. Len(q) + 1
      BY <1>1
    <3>4. \A i \in 1 .. Len(q) + 1 : i \in 1 .. Len(q) \/ i = Len(q) + 1
      BY <1>1
    <3>5. QED BY <3>1, <3>2, <3>3, <3>4, <1>1
  <2>2. QED BY <2>1
<1>5. QED BY <1>1, <1>3, <1>4 DEF a

-----------------------------------------------------------------------------
(* Steps.                                                                   *)

(* The fold of a good log is good.                                          *)
LEMMA FoldIsGood ==
  ASSUME log \in Seq(Events), GoodLog(log)
  PROVE  GoodFold(Fold(log))
BY DEF GoodLog, Fold

(* The segment the owner arms.                                              *)
LEMMA ActiveDelay ==
  ASSUME log \in Seq(Events), GoodLog(log), NEW t \in Instants
  PROVE  /\ Delay(Active, t) \in {NoTimer} \cup 0 .. MaxDelay
         /\ \A r \in Active : r.at > t => Delay(Active, t) # NoTimer /\ t + Delay(Active, t) <= r.at
BY FoldIsGood, DelayForms DEF Active

(* What the owner's updates keep.                                           *)
LEMMA OwnerMoves ==
  ASSUME NEW p \in OwnerRec
  PROVE  /\ Ended(p) \in OwnerRec /\ Requested(p) \in OwnerRec /\ Faulted(p) \in OwnerRec
         /\ [p EXCEPT !.timer = NoTimer] \in OwnerRec
         /\ \A m \in Nat : /\ [p EXCEPT !.run = "preflight", !.mark = m] \in OwnerRec
                           /\ [p EXCEPT !.run = "barrier", !.mark = m] \in OwnerRec
         /\ \A d \in {NoTimer} \cup 0 .. MaxDelay :
              /\ [p EXCEPT !.timer = d] \in OwnerRec
              /\ [p EXCEPT !.timer = d, !.lapsed = FALSE] \in OwnerRec
         /\ [p EXCEPT !.lapsed = TRUE] \in OwnerRec /\ [p EXCEPT !.sent = TRUE] \in OwnerRec
         /\ \A b \in BOOLEAN : [p EXCEPT !.faulted = b] \in OwnerRec
         /\ \A b \in BOOLEAN : [p EXCEPT !.idleWait = b, !.lapsed = FALSE] \in OwnerRec
         /\ [p EXCEPT !.run = "claimed", !.lapsed = FALSE] \in OwnerRec
         /\ [p EXCEPT !.run = "queued", !.requested = FALSE] \in OwnerRec
         /\ [p EXCEPT !.run = "none", !.requested = FALSE] \in OwnerRec
         /\ [p EXCEPT !.idleWait = FALSE] \in OwnerRec
         /\ [p EXCEPT !.stopping = TRUE, !.requested = FALSE, !.timer = NoTimer] \in OwnerRec
<1> USE DEF OwnerRec
<1>1. Ended(p) \in OwnerRec
  BY DEF Ended
<1>2. Requested(p) \in OwnerRec
  BY DEF Requested
<1>3. Faulted(p) \in OwnerRec
  BY DEF Faulted
<1>4. [p EXCEPT !.timer = NoTimer] \in OwnerRec
  OBVIOUS
<1>5. \A m \in Nat : /\ [p EXCEPT !.run = "preflight", !.mark = m] \in OwnerRec
                     /\ [p EXCEPT !.run = "barrier", !.mark = m] \in OwnerRec
  OBVIOUS
<1>6. \A d \in {NoTimer} \cup 0 .. MaxDelay :
        /\ [p EXCEPT !.timer = d] \in OwnerRec
        /\ [p EXCEPT !.timer = d, !.lapsed = FALSE] \in OwnerRec
  OBVIOUS
<1>7. [p EXCEPT !.lapsed = TRUE] \in OwnerRec /\ [p EXCEPT !.sent = TRUE] \in OwnerRec
  OBVIOUS
<1>8. \A b \in BOOLEAN : [p EXCEPT !.faulted = b] \in OwnerRec
  OBVIOUS
<1>9. \A b \in BOOLEAN : [p EXCEPT !.idleWait = b, !.lapsed = FALSE] \in OwnerRec
  OBVIOUS
<1>10. /\ [p EXCEPT !.run = "claimed", !.lapsed = FALSE] \in OwnerRec
       /\ [p EXCEPT !.run = "queued", !.requested = FALSE] \in OwnerRec
       /\ [p EXCEPT !.run = "none", !.requested = FALSE] \in OwnerRec
  OBVIOUS
<1>11. [p EXCEPT !.idleWait = FALSE] \in OwnerRec
  OBVIOUS
<1>12. [p EXCEPT !.stopping = TRUE, !.requested = FALSE, !.timer = NoTimer] \in OwnerRec
  OBVIOUS
<1> HIDE DEF OwnerRec
<1>13. QED BY <1>1, <1>2, <1>3, <1>4, <1>5, <1>6, <1>7, <1>8, <1>9, <1>10, <1>11, <1>12

(* What the updates of a call keep.                                         *)
LEMMA CallMoves ==
  ASSUME NEW p \in CallRec
  PROVE  /\ Closed \in CallRec
         /\ \A m \in Nat : /\ [p EXCEPT !.pc = "preflight", !.mark = m] \in CallRec
                           /\ [p EXCEPT !.pc = "barrier", !.mark = m] \in CallRec
         /\ \A op \in {"once", "every", "list", "delete"}, id \in Ids \cup {0} :
              [p EXCEPT !.pc = "queued", !.op = op, !.id = id] \in CallRec
BY DEF CallRec, Closed, NewCall

(* The owner's type.                                                       *)
LEMMA OwnerTypeStep ==
  ASSUME owner \in OwnerRec, clock \in Instants, log \in Seq(Events), GoodLog(log),
         [Next]_vars
  PROVE  (owner \in OwnerRec)'
<1>1. ASSUME DriveBegins
      PROVE  (owner \in OwnerRec)'
  <2> DEFINE p == [owner EXCEPT !.timer = NoTimer]
  <2>1. [owner EXCEPT !.timer = NoTimer] \in OwnerRec
    BY OwnerMoves
  <2>2. p \in OwnerRec
    BY <2>1
  <2> HIDE DEF p
  <2>3. CASE owner.stopping
    <3>1. owner' = Ended(p)
      BY <1>1, <2>3 DEF DriveBegins, p
    <3>2. QED BY <2>2, <3>1, OwnerMoves
  <2>4. CASE ~owner.stopping
    <3>1. owner' = [p EXCEPT !.run = "preflight", !.mark = Len(log)] /\ Len(log) \in Nat
      BY <1>1, <2>4 DEF DriveBegins, p
    <3>2. QED BY <2>2, <3>1, OwnerMoves
  <2>5. QED BY <2>3, <2>4
<1>2. ASSUME DriveFails
      PROVE  (owner \in OwnerRec)'
  <2>1. Ended(owner) \in OwnerRec
    BY OwnerMoves
  <2>2. owner' = [Ended(owner) EXCEPT !.lapsed = TRUE]
    BY <1>2 DEF DriveFails
  <2>3. QED BY <2>1, <2>2, OwnerMoves
<1>3. ASSUME DriveStops
      PROVE  (owner \in OwnerRec)'
  <2>1. owner' = [Ended(owner) EXCEPT !.faulted = Ended(owner).faulted \/ Runnable]
    BY <1>3 DEF DriveStops
  <2>2. (Ended(owner).faulted \/ Runnable) \in BOOLEAN
    OBVIOUS
  <2>3. QED BY <2>1, <2>2, OwnerMoves, Zenon
<1>4. ASSUME DriveArms
      PROVE  (owner \in OwnerRec)'
  <2>1. Ended(owner) \in OwnerRec
    BY OwnerMoves
  <2>2. owner' = [Ended(owner) EXCEPT !.timer = Delay(Active, clock), !.lapsed = FALSE]
    BY <1>4 DEF DriveArms
  <2>3. QED BY <2>1, <2>2, OwnerMoves, ActiveDelay
<1>5. ASSUME DriveWaits
      PROVE  (owner \in OwnerRec)'
  <2>1. owner' = [Ended(owner) EXCEPT !.idleWait = Ended(owner).idleWait \/ WaitsForIdle, !.lapsed = FALSE]
    BY <1>5 DEF DriveWaits
  <2>2. (Ended(owner).idleWait \/ WaitsForIdle) \in BOOLEAN
    OBVIOUS
  <2>3. QED BY <2>1, <2>2, OwnerMoves, Zenon
<1>6. ASSUME ClaimArms
      PROVE  (owner \in OwnerRec)'
  <2>1. Ended(owner) \in OwnerRec
    BY OwnerMoves
  <2>2. Claimed \in OwnerRec
    BY <2>1, OwnerMoves DEF Claimed
  <2>3. \E t \in Instants : owner' = [Claimed EXCEPT !.timer = Delay(Active, t)]
    BY <1>6 DEF ClaimArms
  <2>4. QED BY <2>2, <2>3, OwnerMoves, ActiveDelay
<1>7. ASSUME ClaimThrows
      PROVE  (owner \in OwnerRec)'
  <2>1. Ended(owner) \in OwnerRec
    BY OwnerMoves
  <2>2. Claimed \in OwnerRec
    BY <2>1, OwnerMoves DEF Claimed
  <2>3. owner' = [Claimed EXCEPT !.lapsed = TRUE]
    BY <1>7 DEF ClaimThrows
  <2>4. QED BY <2>2, <2>3, OwnerMoves
<1>8. ASSUME ClaimSends
      PROVE  (owner \in OwnerRec)'
  <2>1. Ended(owner) \in OwnerRec
    BY OwnerMoves
  <2>2. Claimed \in OwnerRec
    BY <2>1, OwnerMoves DEF Claimed
  <2>3. owner' = [Claimed EXCEPT !.sent = TRUE]
    BY <1>8 DEF ClaimSends
  <2>4. QED BY <2>2, <2>3, OwnerMoves
<1>9. ASSUME ClaimFaults
      PROVE  (owner \in OwnerRec)'
  <2>1. Ended(owner) \in OwnerRec
    BY OwnerMoves
  <2>2. Claimed \in OwnerRec
    BY <2>1, OwnerMoves DEF Claimed
  <2>3. owner' = Faulted(Claimed)
    BY <1>9 DEF ClaimFaults
  <2>4. QED BY <2>2, <2>3, OwnerMoves
<1>10. ASSUME BarrierPasses
      PROVE  (owner \in OwnerRec)'
  <2>1. Ended(owner) \in OwnerRec
    BY OwnerMoves
  <2>2. owner' = Requested(Ended(owner))
    BY <1>10 DEF BarrierPasses
  <2>3. QED BY <2>1, <2>2, OwnerMoves
<1>11. ASSUME Retires
      PROVE  (owner \in OwnerRec)'
  BY <1>11, OwnerMoves DEF Retires
<1>12. ASSUME MaintenanceEnds
      PROVE  (owner \in OwnerRec)'
  <2>1. CASE owner.sent
    <3>1. owner' = [owner EXCEPT !.run = "barrier", !.mark = Len(log)] /\ Len(log) \in Nat
      BY <1>12, <2>1 DEF MaintenanceEnds
    <3>2. QED BY <3>1, OwnerMoves
  <2>2. CASE ~owner.sent
    BY <1>12, <2>2, OwnerMoves DEF MaintenanceEnds
  <2>3. QED BY <2>1, <2>2
<1>13. ASSUME TurnEnds
      PROVE  (owner \in OwnerRec)'
  BY <1>13, OwnerMoves DEF TurnEnds, Open, RequestDrive
<1>14. ASSUME OtherEnds
      PROVE  (owner \in OwnerRec)'
  BY <1>14, OwnerMoves DEF OtherEnds
<1>15. ASSUME TimerFires
      PROVE  (owner \in OwnerRec)'
  BY <1>15, OwnerMoves DEF TimerFires, RequestDrive
<1>16. ASSUME IdleWaitEnds
      PROVE  (owner \in OwnerRec)'
  <2>1. [owner EXCEPT !.idleWait = FALSE] \in OwnerRec
    BY OwnerMoves
  <2>2. owner' = Requested([owner EXCEPT !.idleWait = FALSE])
    BY <1>16 DEF IdleWaitEnds
  <2>3. QED BY <2>1, <2>2, OwnerMoves
<1>17. ASSUME Tick
      PROVE  (owner \in OwnerRec)'
  <2>1. owner.timer \in {NoTimer} \cup 0 .. MaxDelay
    BY DEF OwnerRec
  <2>2. owner' = [owner EXCEPT !.timer = IF owner.timer > 0 THEN owner.timer - 1 ELSE owner.timer]
    BY <1>17 DEF Tick
  <2>3. (IF owner.timer > 0 THEN owner.timer - 1 ELSE owner.timer) \in {NoTimer} \cup 0 .. MaxDelay
    BY <2>1, ScheduleAssumption DEF NoTimer
  <2>4. QED BY <2>2, <2>3, OwnerMoves
<1>18. ASSUME NEW c \in Calls, Issue(c)
      PROVE  (owner \in OwnerRec)'
  BY <1>18, OwnerMoves DEF Issue
<1>19. ASSUME NEW c \in Calls, CallBegins(c)
      PROVE  (owner \in OwnerRec)'
  BY <1>19, OwnerMoves DEF CallBegins
<1>20. ASSUME NEW c \in Calls, FlushFails(c)
      PROVE  (owner \in OwnerRec)'
  BY <1>20, OwnerMoves DEF FlushFails, Trouble
<1>21. ASSUME NEW c \in Calls, Reads(c)
      PROVE  (owner \in OwnerRec)'
  BY <1>21, OwnerMoves DEF Reads, Passes, Answered, Notified
<1>22. ASSUME NEW c \in Calls, Refuses(c)
      PROVE  (owner \in OwnerRec)'
  BY <1>22, OwnerMoves DEF Refuses, Passes, Answered, Notified
<1>23. ASSUME NEW c \in Calls, Appends(c)
      PROVE  (owner \in OwnerRec)'
  BY <1>23, OwnerMoves DEF Appends, Passes, Notified
<1>24. ASSUME NEW c \in Calls, AppendThrows(c)
      PROVE  (owner \in OwnerRec)'
  BY <1>24, OwnerMoves DEF AppendThrows, Passes, Trouble, Answered, Notified
<1>25. ASSUME NEW c \in Calls, Confirms(c)
      PROVE  (owner \in OwnerRec)'
  BY <1>25, OwnerMoves DEF Confirms, Passes, Answered, Notified
<1>26. ASSUME Stop
      PROVE  (owner \in OwnerRec)'
  BY <1>26, OwnerMoves DEF Stop, Trouble
<1>27. ASSUME PersonSpeaks
      PROVE  (owner \in OwnerRec)'
  BY <1>27, OwnerMoves DEF PersonSpeaks, Speaks
<1>28. ASSUME OtherWork
      PROVE  (owner \in OwnerRec)'
  BY <1>28, OwnerMoves DEF OtherWork, Trouble
<1>29. ASSUME Cancel
      PROVE  (owner \in OwnerRec)'
  BY <1>29, OwnerMoves DEF Cancel, Trouble
<1>30. ASSUME ClockJumps
      PROVE  (owner \in OwnerRec)'
  BY <1>30, OwnerMoves DEF ClockJumps, Jump
<1>31. ASSUME Crash
      PROVE  (owner \in OwnerRec)'
  BY <1>31, ScheduleAssumption DEF Crash, Started, OwnerRec, NoTimer
<1>32. CASE UNCHANGED vars
  BY <1>32 DEF vars
<1>33. QED
  BY <1>1, <1>2, <1>3, <1>4, <1>5, <1>6, <1>7, <1>8, <1>9, <1>10, <1>11, <1>12,
     <1>13, <1>14, <1>15, <1>16, <1>17, <1>18, <1>19, <1>20, <1>21, <1>22, <1>23,
     <1>24, <1>25, <1>26, <1>27, <1>28, <1>29, <1>30, <1>31, <1>32 DEF Next,
     OwnerStep, AgentStep, CallStep

(* The type of the calls.                                                   *)
LEMMA CallsStep ==
  ASSUME calls \in [Calls -> CallRec], log \in Seq(Events), Len(log') \in Nat, [Next]_vars
  PROVE  (calls \in [Calls -> CallRec])'
<1>1. ASSUME DriveBegins
      PROVE  (calls \in [Calls -> CallRec])'
  BY <1>1, CallMoves DEF DriveBegins
<1>2. ASSUME DriveFails
      PROVE  (calls \in [Calls -> CallRec])'
  BY <1>2, CallMoves DEF DriveFails
<1>3. ASSUME DriveStops
      PROVE  (calls \in [Calls -> CallRec])'
  BY <1>3, CallMoves DEF DriveStops, Drives
<1>4. ASSUME DriveArms
      PROVE  (calls \in [Calls -> CallRec])'
  BY <1>4, CallMoves DEF DriveArms, Drives
<1>5. ASSUME DriveWaits
      PROVE  (calls \in [Calls -> CallRec])'
  BY <1>5, CallMoves DEF DriveWaits, Drives, WaitsForIdle
<1>6. ASSUME ClaimArms
      PROVE  (calls \in [Calls -> CallRec])'
  BY <1>6, CallMoves DEF ClaimArms, Claims, Drives
<1>7. ASSUME ClaimThrows
      PROVE  (calls \in [Calls -> CallRec])'
  BY <1>7, CallMoves DEF ClaimThrows, Claims, Drives
<1>8. ASSUME ClaimSends
      PROVE  (calls \in [Calls -> CallRec])'
  BY <1>8, CallMoves DEF ClaimSends, Claims, Drives
<1>9. ASSUME ClaimFaults
      PROVE  (calls \in [Calls -> CallRec])'
  BY <1>9, CallMoves DEF ClaimFaults, Claims, Drives
<1>10. ASSUME BarrierPasses
      PROVE  (calls \in [Calls -> CallRec])'
  BY <1>10, CallMoves DEF BarrierPasses
<1>11. ASSUME Retires
      PROVE  (calls \in [Calls -> CallRec])'
  BY <1>11, CallMoves DEF Retires
<1>12. ASSUME MaintenanceEnds
      PROVE  (calls \in [Calls -> CallRec])'
  BY <1>12, CallMoves DEF MaintenanceEnds
<1>13. ASSUME TurnEnds
      PROVE  (calls \in [Calls -> CallRec])'
  BY <1>13, CallMoves DEF TurnEnds, RequestDrive
<1>14. ASSUME OtherEnds
      PROVE  (calls \in [Calls -> CallRec])'
  BY <1>14, CallMoves DEF OtherEnds
<1>15. ASSUME TimerFires
      PROVE  (calls \in [Calls -> CallRec])'
  BY <1>15, CallMoves DEF TimerFires, RequestDrive
<1>16. ASSUME IdleWaitEnds
      PROVE  (calls \in [Calls -> CallRec])'
  BY <1>16, CallMoves DEF IdleWaitEnds
<1>17. ASSUME Tick
      PROVE  (calls \in [Calls -> CallRec])'
  BY <1>17, CallMoves DEF Tick
<1>18. ASSUME NEW c \in Calls, Issue(c)
      PROVE  (calls \in [Calls -> CallRec])'
  <2>1. PICK op \in {"once", "every", "list", "delete"}, id \in Ids \cup {0} :
          calls' = [calls EXCEPT ![c] = [calls[c] EXCEPT !.pc = "queued", !.op = op, !.id = id]]
    BY <1>18 DEF Issue
  <2>2. [calls[c] EXCEPT !.pc = "queued", !.op = op, !.id = id] \in CallRec
    BY CallMoves
  <2>3. QED BY <2>1, <2>2
<1>19. ASSUME NEW c \in Calls, CallBegins(c)
      PROVE  (calls \in [Calls -> CallRec])'
  <2>1. \/ calls' = [calls EXCEPT ![c] = Closed]
        \/ calls' = [calls EXCEPT ![c] = [calls[c] EXCEPT !.pc = "preflight", !.mark = Len(log)]]
    BY <1>19 DEF CallBegins
  <2>2. calls[c] \in CallRec /\ Len(log) \in Nat
    OBVIOUS
  <2>3. [calls[c] EXCEPT !.pc = "preflight", !.mark = Len(log)] \in CallRec /\ Closed \in CallRec
    BY <2>2, CallMoves
  <2>4. QED BY <2>1, <2>3
<1>20. ASSUME NEW c \in Calls, FlushFails(c)
      PROVE  (calls \in [Calls -> CallRec])'
  BY <1>20, CallMoves DEF FlushFails
<1>21. ASSUME NEW c \in Calls, Reads(c)
      PROVE  (calls \in [Calls -> CallRec])'
  BY <1>21, CallMoves DEF Reads, Passes, Answered
<1>22. ASSUME NEW c \in Calls, Refuses(c)
      PROVE  (calls \in [Calls -> CallRec])'
  BY <1>22, CallMoves DEF Refuses, Passes, Answered
<1>23. ASSUME NEW c \in Calls, Appends(c)
      PROVE  (calls \in [Calls -> CallRec])'
  BY <1>23, CallMoves DEF Appends, Passes
<1>24. ASSUME NEW c \in Calls, AppendThrows(c)
      PROVE  (calls \in [Calls -> CallRec])'
  BY <1>24, CallMoves DEF AppendThrows, Passes, Answered
<1>25. ASSUME NEW c \in Calls, Confirms(c)
      PROVE  (calls \in [Calls -> CallRec])'
  BY <1>25, CallMoves DEF Confirms, Passes, Answered
<1>26. ASSUME Stop
      PROVE  (calls \in [Calls -> CallRec])'
  BY <1>26, CallMoves DEF Stop
<1>27. ASSUME PersonSpeaks
      PROVE  (calls \in [Calls -> CallRec])'
  BY <1>27, CallMoves DEF PersonSpeaks
<1>28. ASSUME OtherWork
      PROVE  (calls \in [Calls -> CallRec])'
  BY <1>28, CallMoves DEF OtherWork
<1>29. ASSUME Cancel
      PROVE  (calls \in [Calls -> CallRec])'
  BY <1>29, CallMoves DEF Cancel
<1>30. ASSUME ClockJumps
      PROVE  (calls \in [Calls -> CallRec])'
  BY <1>30, CallMoves DEF ClockJumps
<1>31. ASSUME Crash
      PROVE  (calls \in [Calls -> CallRec])'
  BY <1>31, CallMoves DEF Crash
<1>32. CASE UNCHANGED vars
  BY <1>32 DEF vars
<1>33. QED
  BY <1>1, <1>2, <1>3, <1>4, <1>5, <1>6, <1>7, <1>8, <1>9, <1>10, <1>11, <1>12,
     <1>13, <1>14, <1>15, <1>16, <1>17, <1>18, <1>19, <1>20, <1>21, <1>22, <1>23,
     <1>24, <1>25, <1>26, <1>27, <1>28, <1>29, <1>30, <1>31, <1>32 DEF Next,
     OwnerStep, AgentStep, CallStep

UsedTyped ==
  /\ used \in [turns : 0 .. MaxTurns, troubles : 0 .. MaxTroubles, jumps : 0 .. MaxTroubles,
               crashes : 0 .. MaxTroubles]
  /\ used.jumps <= used.troubles /\ used.crashes <= used.troubles
(* The bounds are kept, and only a death counts as a crash.                 *)
LEMMA UsedMoves ==
  ASSUME UsedTyped
  PROVE  /\ Speaks => UsedTyped'
         /\ Trouble => UsedTyped'
         /\ Jump => UsedTyped'
         /\ Death => UsedTyped'
         /\ used' = used => UsedTyped'
         /\ Speaks \/ Trouble \/ Jump => used'.crashes = used.crashes
         /\ Death => used'.crashes = used.crashes + 1
<1> USE ScheduleAssumption DEF UsedTyped
<1>1. Speaks => UsedTyped'
  BY DEF Speaks
<1>2. Trouble => UsedTyped'
  BY DEF Trouble
<1>3. ASSUME Jump PROVE UsedTyped'
  <2>1. /\ MaxTroubles \in Nat /\ used.troubles \in 0 .. MaxTroubles /\ used.jumps \in Nat
        /\ used.jumps <= used.troubles /\ used.troubles < MaxTroubles
    BY <1>3 DEF Jump
  <2>2. used.troubles + 1 \in 0 .. MaxTroubles /\ used.jumps + 1 \in 0 .. MaxTroubles
    BY <2>1
  <2>3. used' = [used EXCEPT !.troubles = used.troubles + 1, !.jumps = used.jumps + 1]
    BY <1>3 DEF Jump
  <2>4. /\ used'.troubles = used.troubles + 1 /\ used'.jumps = used.jumps + 1
        /\ used' \in [turns : 0 .. MaxTurns, troubles : 0 .. MaxTroubles,
                     jumps : 0 .. MaxTroubles, crashes : 0 .. MaxTroubles]
    BY <2>2, <2>3
  <2>5. QED BY <2>1, <2>3, <2>4
<1>4. ASSUME Death PROVE UsedTyped'
  <2>1. /\ MaxTroubles \in Nat /\ used.troubles \in 0 .. MaxTroubles /\ used.crashes \in Nat
        /\ used.crashes <= used.troubles /\ used.troubles < MaxTroubles
    BY <1>4 DEF Death
  <2>2. used.troubles + 1 \in 0 .. MaxTroubles /\ used.crashes + 1 \in 0 .. MaxTroubles
    BY <2>1
  <2>3. used' = [used EXCEPT !.troubles = used.troubles + 1, !.crashes = used.crashes + 1]
    BY <1>4 DEF Death
  <2>4. /\ used'.troubles = used.troubles + 1 /\ used'.crashes = used.crashes + 1
        /\ used' \in [turns : 0 .. MaxTurns, troubles : 0 .. MaxTroubles,
                     jumps : 0 .. MaxTroubles, crashes : 0 .. MaxTroubles]
    BY <2>2, <2>3
  <2>5. QED BY <2>1, <2>3, <2>4
<1>5. used' = used => UsedTyped'
  OBVIOUS
<1>6. Speaks \/ Trouble \/ Jump => used'.crashes = used.crashes
  BY DEF Speaks, Trouble, Jump
<1>7. Death => used'.crashes = used.crashes + 1
  BY DEF Death
<1> HIDE DEF UsedTyped
<1>8. QED BY <1>1, <1>2, <1>3, <1>4, <1>5, <1>6, <1>7

(* What is spent of the bounds.                                             *)
LEMMA UsedStep ==
  ASSUME UsedTyped, [Next]_vars
  PROVE  UsedTyped'
<1> USE UsedMoves
<1>1. ASSUME DriveBegins
      PROVE  UsedTyped'
  BY <1>1 DEF DriveBegins
<1>2. ASSUME DriveFails
      PROVE  UsedTyped'
  BY <1>2 DEF DriveFails
<1>3. ASSUME DriveStops
      PROVE  UsedTyped'
  BY <1>3 DEF DriveStops, Drives
<1>4. ASSUME DriveArms
      PROVE  UsedTyped'
  BY <1>4 DEF DriveArms, Drives
<1>5. ASSUME DriveWaits
      PROVE  UsedTyped'
  BY <1>5 DEF DriveWaits, Drives, WaitsForIdle
<1>6. ASSUME ClaimArms
      PROVE  UsedTyped'
  BY <1>6 DEF ClaimArms, Claims, Drives, Reread
<1>7. ASSUME ClaimThrows
      PROVE  UsedTyped'
  BY <1>7 DEF ClaimThrows, Claims, Drives
<1>8. ASSUME ClaimSends
      PROVE  UsedTyped'
  BY <1>8 DEF ClaimSends, Claims, Drives, Reread
<1>9. ASSUME ClaimFaults
      PROVE  UsedTyped'
  BY <1>9 DEF ClaimFaults, Claims, Drives
<1>10. ASSUME BarrierPasses
      PROVE  UsedTyped'
  BY <1>10 DEF BarrierPasses
<1>11. ASSUME Retires
      PROVE  UsedTyped'
  BY <1>11 DEF Retires
<1>12. ASSUME MaintenanceEnds
      PROVE  UsedTyped'
  BY <1>12 DEF MaintenanceEnds
<1>13. ASSUME TurnEnds
      PROVE  UsedTyped'
  BY <1>13 DEF TurnEnds, RequestDrive
<1>14. ASSUME OtherEnds
      PROVE  UsedTyped'
  BY <1>14 DEF OtherEnds
<1>15. ASSUME TimerFires
      PROVE  UsedTyped'
  BY <1>15 DEF TimerFires, RequestDrive
<1>16. ASSUME IdleWaitEnds
      PROVE  UsedTyped'
  BY <1>16 DEF IdleWaitEnds
<1>17. ASSUME Tick
      PROVE  UsedTyped'
  BY <1>17 DEF Tick
<1>18. ASSUME NEW c \in Calls, Issue(c)
      PROVE  UsedTyped'
  BY <1>18 DEF Issue
<1>19. ASSUME NEW c \in Calls, CallBegins(c)
      PROVE  UsedTyped'
  BY <1>19 DEF CallBegins
<1>20. ASSUME NEW c \in Calls, FlushFails(c)
      PROVE  UsedTyped'
  BY <1>20 DEF FlushFails
<1>21. ASSUME NEW c \in Calls, Reads(c)
      PROVE  UsedTyped'
  BY <1>21 DEF Reads, Passes, Answered
<1>22. ASSUME NEW c \in Calls, Refuses(c)
      PROVE  UsedTyped'
  BY <1>22 DEF Refuses, Passes, Answered
<1>23. ASSUME NEW c \in Calls, Appends(c)
      PROVE  UsedTyped'
  BY <1>23 DEF Appends, Passes
<1>24. ASSUME NEW c \in Calls, AppendThrows(c)
      PROVE  UsedTyped'
  BY <1>24 DEF AppendThrows, Passes, Answered
<1>25. ASSUME NEW c \in Calls, Confirms(c)
      PROVE  UsedTyped'
  BY <1>25 DEF Confirms, Passes, Answered
<1>26. ASSUME Stop
      PROVE  UsedTyped'
  BY <1>26 DEF Stop
<1>27. ASSUME PersonSpeaks
      PROVE  UsedTyped'
  BY <1>27 DEF PersonSpeaks
<1>28. ASSUME OtherWork
      PROVE  UsedTyped'
  BY <1>28 DEF OtherWork
<1>29. ASSUME Cancel
      PROVE  UsedTyped'
  BY <1>29 DEF Cancel
<1>30. ASSUME ClockJumps
      PROVE  UsedTyped'
  BY <1>30 DEF ClockJumps
<1>31. ASSUME Crash
      PROVE  UsedTyped'
  BY <1>31 DEF Crash
<1>32. CASE UNCHANGED vars
  BY <1>32 DEF vars
<1>33. QED
  BY <1>1, <1>2, <1>3, <1>4, <1>5, <1>6, <1>7, <1>8, <1>9, <1>10, <1>11, <1>12,
     <1>13, <1>14, <1>15, <1>16, <1>17, <1>18, <1>19, <1>20, <1>21, <1>22, <1>23,
     <1>24, <1>25, <1>26, <1>27, <1>28, <1>29, <1>30, <1>31, <1>32 DEF Next,
     OwnerStep, AgentStep, CallStep

AgentTyped ==
  /\ clock \in Instants
  /\ agent \in [phase : {"idle", "running", "own", "other"}, latched : BOOLEAN,
                aborted : BOOLEAN]

(* The agent and the clock.                                                 *)
LEMMA AgentTypeStep ==
  ASSUME AgentTyped, [Next]_vars
  PROVE  AgentTyped'
<1> USE  DEF AgentTyped
<1>1. ASSUME DriveBegins
      PROVE  AgentTyped'
  BY <1>1 DEF DriveBegins
<1>2. ASSUME DriveFails
      PROVE  AgentTyped'
  BY <1>2 DEF DriveFails
<1>3. ASSUME DriveStops
      PROVE  AgentTyped'
  BY <1>3 DEF DriveStops, Drives
<1>4. ASSUME DriveArms
      PROVE  AgentTyped'
  BY <1>4 DEF DriveArms, Drives
<1>5. ASSUME DriveWaits
      PROVE  AgentTyped'
  BY <1>5 DEF DriveWaits, Drives, WaitsForIdle
<1>6. ASSUME ClaimArms
      PROVE  AgentTyped'
  BY <1>6 DEF ClaimArms, Claims, Drives, Held, Reread
<1>7. ASSUME ClaimThrows
      PROVE  AgentTyped'
  BY <1>7 DEF ClaimThrows, Claims, Drives, Held
<1>8. ASSUME ClaimSends
      PROVE  AgentTyped'
  BY <1>8 DEF ClaimSends, Claims, Drives, Held
<1>9. ASSUME ClaimFaults
      PROVE  AgentTyped'
  BY <1>9 DEF ClaimFaults, Claims, Drives, Held
<1>10. ASSUME BarrierPasses
      PROVE  AgentTyped'
  BY <1>10 DEF BarrierPasses
<1>11. ASSUME Retires
      PROVE  AgentTyped'
  BY <1>11 DEF Retires
<1>12. ASSUME MaintenanceEnds
      PROVE  AgentTyped'
  BY <1>12 DEF MaintenanceEnds, Released
<1>13. ASSUME TurnEnds
      PROVE  AgentTyped'
  BY <1>13 DEF TurnEnds, RequestDrive, AtRest
<1>14. ASSUME OtherEnds
      PROVE  AgentTyped'
  BY <1>14 DEF OtherEnds, Released
<1>15. ASSUME TimerFires
      PROVE  AgentTyped'
  BY <1>15 DEF TimerFires, RequestDrive
<1>16. ASSUME IdleWaitEnds
      PROVE  AgentTyped'
  BY <1>16 DEF IdleWaitEnds
<1>17. ASSUME Tick
      PROVE  AgentTyped'
  BY <1>17, ScheduleAssumption DEF Tick, Instants
<1>18. ASSUME NEW c \in Calls, Issue(c)
      PROVE  AgentTyped'
  BY <1>18 DEF Issue
<1>19. ASSUME NEW c \in Calls, CallBegins(c)
      PROVE  AgentTyped'
  BY <1>19 DEF CallBegins
<1>20. ASSUME NEW c \in Calls, FlushFails(c)
      PROVE  AgentTyped'
  BY <1>20 DEF FlushFails
<1>21. ASSUME NEW c \in Calls, Reads(c)
      PROVE  AgentTyped'
  BY <1>21 DEF Reads, Passes, Answered
<1>22. ASSUME NEW c \in Calls, Refuses(c)
      PROVE  AgentTyped'
  BY <1>22 DEF Refuses, Passes, Answered
<1>23. ASSUME NEW c \in Calls, Appends(c)
      PROVE  AgentTyped'
  BY <1>23 DEF Appends, Passes
<1>24. ASSUME NEW c \in Calls, AppendThrows(c)
      PROVE  AgentTyped'
  BY <1>24 DEF AppendThrows, Passes, Answered
<1>25. ASSUME NEW c \in Calls, Confirms(c)
      PROVE  AgentTyped'
  BY <1>25 DEF Confirms, Passes, Answered
<1>26. ASSUME Stop
      PROVE  AgentTyped'
  BY <1>26 DEF Stop
<1>27. ASSUME PersonSpeaks
      PROVE  AgentTyped'
  BY <1>27 DEF PersonSpeaks
<1>28. ASSUME OtherWork
      PROVE  AgentTyped'
  BY <1>28 DEF OtherWork
<1>29. ASSUME Cancel
      PROVE  AgentTyped'
  BY <1>29 DEF Cancel
<1>30. ASSUME ClockJumps
      PROVE  AgentTyped'
  BY <1>30 DEF ClockJumps
<1>31. ASSUME Crash
      PROVE  AgentTyped'
  BY <1>31, ScheduleAssumption DEF Crash, AtRest, Instants
<1>32. CASE UNCHANGED vars
  BY <1>32 DEF vars
<1>33. QED
  BY <1>1, <1>2, <1>3, <1>4, <1>5, <1>6, <1>7, <1>8, <1>9, <1>10, <1>11, <1>12,
     <1>13, <1>14, <1>15, <1>16, <1>17, <1>18, <1>19, <1>20, <1>21, <1>22, <1>23,
     <1>24, <1>25, <1>26, <1>27, <1>28, <1>29, <1>30, <1>31, <1>32 DEF Next,
     OwnerStep, AgentStep, CallStep

(* The four ways in which the log moves.                                    *)
Same    == log' = log /\ used'.crashes = used.crashes /\ (owner.faulted => owner'.faulted)
Adds(e) == /\ e \in Events /\ e.type \in {"create", "delete"} /\ Legal(Fold(log), e)
           /\ log' = Append(log, e) /\ used'.crashes = used.crashes
           /\ owner.faulted => owner'.faulted
Hands(t, k) ==
  /\ t \in Instants /\ clock' = t /\ Batch(Fold(log), Decided(t), t)
  /\ k \in 1 .. Cardinality(Decided(t)) + 1 /\ log' = Handed(Decided(t), t, k)
  /\ owner.run = "preflight" /\ Runnable
  /\ used'.crashes = used.crashes
  /\ owner'.faulted \/ k = Cardinality(Decided(t)) + 1
Cuts(n) == n \in stored .. Len(log) /\ log' = SubSeq(log, 1, n) /\ used'.crashes = used.crashes + 1
LogMove == \/ Same \/ \E e \in Events : Adds(e)
           \/ \E t \in Instants : \E k \in Nat : Hands(t, k)
           \/ \E n \in Nat : Cuts(n)

(* What the owner decides on is a batch.                                    *)
LEMMA DecidedBatch ==
  ASSUME log \in Seq(Events), GoodLog(log), NEW t \in Instants
  PROVE  Batch(Fold(log), Decided(t), t) /\ Cardinality(Decided(t)) \in Nat
<1>1. Batch(Fold(log), Decided(t), t)
  <2>1. \A r \in Active : r.kind \in {"once", "every"}
    BY FoldIsGood, ActivesForms DEF Active
  <2>2. Chosen(Active, t) \subseteq {r \in Active : r.at <= t}
    BY <2>1 DEF Chosen, OneShots
  <2>3. QED BY <2>2 DEF Batch, Decided, Active
<1>2. QED BY <1>1, FoldIsGood, BatchForms

(* A change a call appends is legal.                                        *)
LEMMA ChangesLegal ==
  ASSUME log \in Seq(Events), GoodLog(log), clock \in Instants, calls \in [Calls -> CallRec],
         NEW c \in Calls, NEW e \in Changes(c)
  PROVE  e \in Events /\ e.type \in {"create", "delete"} /\ Legal(Fold(log), e)
<1> DEFINE F == Fold(log)
<1>1. GoodFold(F)
  BY FoldIsGood
<1>2. Allocated \in Nat /\ (Allocated \in Ids => /\ F[Allocated].state = "new"
                                             /\ \A j \in 1 .. Allocated - 1 : F[j].state # "new")
  BY <1>1, AllocatedIsNew
<1>3. \A r \in Active : r.id \in Ids /\ F[r.id].state = "active"
  BY <1>1, ActivesForms DEF Active
<1>4. Instants = 0 .. Horizon /\ Horizon \in Nat /\ clock \in Nat /\ clock <= Horizon
      /\ Interval \in Nat
  BY ScheduleAssumption DEF Instants
<1> HIDE DEF F
<1>5. CASE calls[c].op = "once"
  <2>1. PICK t \in clock + 1 .. Horizon : e = Create(Allocated, "once", t)
    BY <1>5 DEF Changes
  <2>2. t \in Instants
    BY <1>4
  <2>3. QED BY <2>1, <2>2, <1>2 DEF Create, Events, Legal, F
<1>6. CASE calls[c].op = "every"
  <2>1. PICK t \in Instants : e = Create(Allocated, "every", t)
    BY <1>6 DEF Changes
  <2>2. QED BY <2>1, <1>2 DEF Create, Events, Legal, F
<1>7. CASE calls[c].op = "delete"
  <2>1. PICK r \in Active : e = Delete(r.id)
    BY <1>7 DEF Changes
  <2>2. QED BY <2>1, <1>3 DEF Delete, Events, Legal, F
<1>8. CASE calls[c].op = "list"
  BY <1>8 DEF Changes
<1>9. QED BY <1>5, <1>6, <1>7, <1>8 DEF CallRec

(* An owner that gave up stays so.                                          *)
LEMMA OwnerFaulted ==
  ASSUME NEW p \in OwnerRec
  PROVE  /\ Ended(p).faulted = p.faulted /\ Requested(p).faulted = p.faulted
         /\ [p EXCEPT !.idleWait = FALSE].faulted = p.faulted
BY DEF OwnerRec, Ended, Requested

(* Every step moves the log in one of these ways.                           *)
LEMMA LogMoves ==
  ASSUME UsedTyped, clock \in Instants, calls \in [Calls -> CallRec], owner \in OwnerRec,
         LogTyped, log \in Seq(Events), GoodLog(log), [Next]_vars
  PROVE  LogMove
<1> USE  DEF Same
<1>1. ASSUME DriveBegins
      PROVE  LogMove
  <2>1. log' = log /\ used'.crashes = used.crashes
    BY <1>1, UsedMoves DEF DriveBegins
  <2>2. owner.faulted => owner'.faulted
    BY <1>1 DEF DriveBegins, Ended, OwnerRec
  <2>3. QED BY <2>1, <2>2 DEF LogMove, Same
<1>2. ASSUME DriveFails
      PROVE  LogMove
  BY <1>2, OwnerFaulted DEF DriveFails, OwnerTurn, Trouble, Ended, Leave, Turn,
     LogMove
<1>3. ASSUME DriveStops
      PROVE  LogMove
  <2>1. log' = log /\ used'.crashes = used.crashes
    BY <1>3, UsedMoves DEF DriveStops
  <2>2. owner.faulted => owner'.faulted
    BY <1>3 DEF DriveStops, Ended, OwnerRec
  <2>3. QED BY <2>1, <2>2 DEF LogMove, Same
<1>4. ASSUME DriveArms
      PROVE  LogMove
  BY <1>4, OwnerFaulted DEF DriveArms, Drives, Runnable, Ended, Leave, OwnerTurn,
     Confirmed, Turn, LogMove
<1>5. ASSUME DriveWaits
      PROVE  LogMove
  BY <1>5, OwnerFaulted DEF DriveWaits, Drives, Runnable, Ended, WaitsForIdle,
     Leave, OwnerTurn, Confirmed, Turn, LogMove
<1>6. ASSUME ClaimArms
      PROVE  LogMove
  <2>1. log' = log /\ used'.crashes = used.crashes
    BY <1>6, UsedMoves DEF ClaimArms, Reread
  <2>2. owner.faulted => owner'.faulted
    BY <1>6 DEF ClaimArms, Claimed, Ended, OwnerRec
  <2>3. QED BY <2>1, <2>2 DEF LogMove, Same
<1>7. ASSUME ClaimThrows
      PROVE  LogMove
  BY <1>7, OwnerFaulted DEF ClaimThrows, Claims, Trouble, Claimed, Held, Drives,
     Runnable, Ended, OwnerTurn, Confirmed, Turn, LogMove
<1>8. ASSUME ClaimSends
      PROVE  LogMove
  <2>1. PICK t \in Instants : /\ Claims(t) /\ Reread(t) /\ log' = log \o Sent(Decided(t), t)
    BY <1>8 DEF ClaimSends
  <2> DEFINE k == Cardinality(Decided(t)) + 1
             s == Sent(Decided(t), t)
  <2>2. Batch(Fold(log), Decided(t), t) /\ Cardinality(Decided(t)) \in Nat
    BY DecidedBatch
  <2>3. s \in Seq(Events) /\ Len(s) = k
    <3>1. used.crashes \in Nat /\ GoodFold(Fold(log))
      BY FoldIsGood DEF UsedTyped
    <3>2. QED BY <2>2, <3>1, MessageForms
  <2>4. k \in Nat /\ k \in 1 .. Cardinality(Decided(t)) + 1
    BY <2>2
  <2> HIDE DEF s
  <2>5. SubSeq(s, 1, Len(s)) = s
    BY <2>3
  <2>6. log' = Handed(Decided(t), t, k)
    BY <2>1, <2>3, <2>5 DEF Handed, s
  <2>7. used'.crashes = used.crashes
    BY <2>1, UsedMoves DEF Reread
  <2>8. clock' = t /\ owner.run = "preflight" /\ Runnable
    BY <2>1 DEF Claims, Drives, OwnerTurn
  <2>9. Hands(t, k)
    BY <2>2, <2>4, <2>6, <2>7, <2>8 DEF Hands
  <2>10. QED BY <2>4, <2>9 DEF LogMove
<1>9. ASSUME ClaimFaults
      PROVE  LogMove
  <2>1. PICK k \in 1 .. Cardinality(Decided(clock)) :
          log' = log \o SubSeq(Sent(Decided(clock), clock), 1, k)
    BY <1>9 DEF ClaimFaults
  <2>2. Batch(Fold(log), Decided(clock), clock) /\ Cardinality(Decided(clock)) \in Nat
    BY DecidedBatch
  <2>3. k \in Nat /\ k \in 1 .. Cardinality(Decided(clock)) + 1
    BY <2>2
  <2>4. used'.crashes = used.crashes
    BY <1>9 DEF ClaimFaults, Trouble
  <2>5. clock' = clock /\ owner.run = "preflight" /\ Runnable
    BY <1>9 DEF ClaimFaults, Claims, Drives, OwnerTurn
  <2>6. owner'.faulted
    BY <1>9 DEF ClaimFaults, Faulted, Claimed, Ended, OwnerRec
  <2>7. Hands(clock, k)
    BY <2>1, <2>2, <2>3, <2>4, <2>5, <2>6 DEF Hands, Handed
  <2>8. QED BY <2>3, <2>7 DEF LogMove
<1>10. ASSUME BarrierPasses
      PROVE  LogMove
  BY <1>10, OwnerFaulted DEF BarrierPasses, OwnerTurn, Confirmed, Requested, Ended,
     Leave, Turn, Heeds, NoTimer, LogMove
<1>11. ASSUME Retires
      PROVE  LogMove
  <2>1. log' = log /\ used'.crashes = used.crashes
    BY <1>11, UsedMoves DEF Retires
  <2>2. owner.faulted => owner'.faulted
    BY <1>11 DEF Retires, OwnerRec
  <2>3. QED BY <2>1, <2>2 DEF LogMove, Same
<1>12. ASSUME MaintenanceEnds
      PROVE  LogMove
  <2>1. log' = log /\ used'.crashes = used.crashes
    BY <1>12, UsedMoves DEF MaintenanceEnds
  <2>2. owner.faulted => owner'.faulted
    BY <1>12 DEF MaintenanceEnds, Ended, OwnerRec
  <2>3. QED BY <2>1, <2>2 DEF LogMove, Same
<1>13. ASSUME TurnEnds
      PROVE  LogMove
  BY <1>13, OwnerFaulted DEF TurnEnds, Open, AtRest, RequestDrive, Requested,
     Queued, Heeds, NoTimer, LogMove
<1>14. ASSUME OtherEnds
      PROVE  LogMove
  BY <1>14, OwnerFaulted DEF OtherEnds, Released, LogMove
<1>15. ASSUME TimerFires
      PROVE  LogMove
  BY <1>15, OwnerFaulted DEF TimerFires, RequestDrive, Requested, Queued, Heeds,
     NoTimer, LogMove
<1>16. ASSUME IdleWaitEnds
      PROVE  LogMove
  BY <1>16, OwnerFaulted DEF IdleWaitEnds, Requested, Queued, Heeds, NoTimer,
     LogMove
<1>17. ASSUME Tick
      PROVE  LogMove
  BY <1>17, OwnerFaulted DEF Tick, LogMove
<1>18. ASSUME NEW c \in Calls, Issue(c)
      PROVE  LogMove
  BY <1>18, OwnerFaulted DEF Issue, LogMove
<1>19. ASSUME NEW c \in Calls, CallBegins(c)
      PROVE  LogMove
  BY <1>19, OwnerFaulted DEF CallBegins, Turn, Closed, Leave, NewCall, LogMove
<1>20. ASSUME NEW c \in Calls, FlushFails(c)
      PROVE  LogMove
  BY <1>20, OwnerFaulted DEF FlushFails, Trouble, Closed, Leave, NewCall, LogMove
<1>21. ASSUME NEW c \in Calls, Reads(c)
      PROVE  LogMove
  BY <1>21, OwnerFaulted DEF Reads, Passes, Answered, Confirmed, Notified, Closed,
     Queued, Leave, Requested, NewCall, Heeds, NoTimer, LogMove
<1>22. ASSUME NEW c \in Calls, Refuses(c)
      PROVE  LogMove
  BY <1>22, OwnerFaulted DEF Refuses, Passes, Answered, Confirmed, Notified,
     Closed, Queued, Leave, Requested, NewCall, Heeds, NoTimer, LogMove
<1>23. ASSUME NEW c \in Calls, Appends(c)
      PROVE  LogMove
  <2>1. PICK e \in Changes(c) : log' = Append(log, e)
    BY <1>23 DEF Appends
  <2>2. e \in Events /\ e.type \in {"create", "delete"} /\ Legal(Fold(log), e)
    BY ChangesLegal
  <2>3. used' = used /\ owner' = Requested(owner)
    BY <1>23 DEF Appends, Passes, Notified
  <2>4. owner.faulted => owner'.faulted
    BY <2>3, OwnerFaulted
  <2>5. Adds(e)
    BY <2>1, <2>2, <2>3, <2>4 DEF Adds
  <2>6. QED BY <2>2, <2>5 DEF LogMove
<1>24. ASSUME NEW c \in Calls, AppendThrows(c)
      PROVE  LogMove
  BY <1>24, OwnerFaulted DEF AppendThrows, Passes, Trouble, Answered, Confirmed,
     Notified, Closed, Queued, Leave, Requested, NewCall, Heeds, NoTimer, LogMove
<1>25. ASSUME NEW c \in Calls, Confirms(c)
      PROVE  LogMove
  BY <1>25, OwnerFaulted DEF Confirms, Passes, Answered, Confirmed, Notified,
     Closed, Queued, Leave, Requested, NewCall, Heeds, NoTimer, LogMove
<1>26. ASSUME Stop
      PROVE  LogMove
  BY <1>26, OwnerFaulted DEF Stop, Trouble, NoTimer, LogMove
<1>27. ASSUME PersonSpeaks
      PROVE  LogMove
  BY <1>27, OwnerFaulted DEF PersonSpeaks, Speaks, LogMove
<1>28. ASSUME OtherWork
      PROVE  LogMove
  BY <1>28, OwnerFaulted DEF OtherWork, Trouble, LogMove
<1>29. ASSUME Cancel
      PROVE  LogMove
  BY <1>29, OwnerFaulted DEF Cancel, Trouble, LogMove
<1>30. ASSUME ClockJumps
      PROVE  LogMove
  BY <1>30, OwnerFaulted DEF ClockJumps, Jump, LogMove
<1>31. ASSUME Crash
      PROVE  LogMove
  <2>1. PICK n \in stored .. Len(log) : log' = SubSeq(log, 1, n)
    BY <1>31 DEF Crash
  <2>2. used'.crashes = used.crashes + 1
    BY <1>31, UsedMoves DEF Crash
  <2>3. n \in Nat
    BY DEF LogTyped
  <2>4. Cuts(n)
    BY <2>1, <2>2 DEF Cuts
  <2>5. QED BY <2>3, <2>4 DEF LogMove
<1>32. CASE UNCHANGED vars
  BY <1>32 DEF vars, LogMove
<1>33. QED
  BY <1>1, <1>2, <1>3, <1>4, <1>5, <1>6, <1>7, <1>8, <1>9, <1>10, <1>11, <1>12,
     <1>13, <1>14, <1>15, <1>16, <1>17, <1>18, <1>19, <1>20, <1>21, <1>22, <1>23,
     <1>24, <1>25, <1>26, <1>27, <1>28, <1>29, <1>30, <1>31, <1>32 DEF Next,
     OwnerStep, AgentStep, CallStep

(* The log stays a sequence of events, and shrinks only in a crash.         *)
LEMMA LogTypes ==
  ASSUME log \in Seq(Events), GoodLog(log), UsedTyped, stored \in Nat, LogMove
  PROVE  /\ log' \in Seq(Events) /\ Len(log) \in Nat /\ Len(log') \in Nat
         /\ Len(log) <= Len(log') \/ \E n \in Nat : Cuts(n) /\ Len(log') = n
<1>1. CASE Same
  BY <1>1 DEF Same
<1>2. CASE \E e \in Events : Adds(e)
  BY <1>2 DEF Adds
<1>3. ASSUME NEW t \in Instants, NEW k \in Nat, Hands(t, k)
      PROVE  log' \in Seq(Events) /\ Len(log') = Len(log) + k
  <2>1. /\ Batch(Fold(log), Decided(t), t) /\ k \in 1 .. Cardinality(Decided(t)) + 1
        /\ log' = Handed(Decided(t), t, k)
    BY <1>3 DEF Hands
  <2>2. used.crashes \in Nat
    BY DEF UsedTyped
  <2>3. QED BY <2>1, <2>2, HandedForms
<1>4. ASSUME NEW n \in Nat, Cuts(n), stored \in Nat
      PROVE  log' \in Seq(Events) /\ Len(log') = n
  BY <1>4 DEF Cuts
<1>5. QED BY <1>1, <1>2, <1>3, <1>4 DEF LogMove

(* The marks an update leaves.                                              *)
LEMMA MarkMoves ==
  ASSUME owner \in OwnerRec
  PROVE  /\ DriveBegins => owner'.mark \in {0, Len(log)}
         /\ MaintenanceEnds => owner'.mark \in {0, Len(log)}
         /\ Closed.mark = 0
         /\ \A p \in CallRec, m \in Nat : [p EXCEPT !.pc = "preflight", !.mark = m].mark = m
<1>1. DriveBegins => owner'.mark \in {0, Len(log)}
  <2> DEFINE p == [owner EXCEPT !.timer = NoTimer]
  <2>1. p \in OwnerRec
    BY OwnerMoves
  <2>2. DriveBegins => \/ owner' = Ended(p)
                      \/ owner' = [p EXCEPT !.run = "preflight", !.mark = Len(log)]
    BY DEF DriveBegins
  <2> HIDE DEF p
  <2>3. Ended(p).mark = 0 /\ [p EXCEPT !.run = "preflight", !.mark = Len(log)].mark = Len(log)
    BY <2>1 DEF OwnerRec, Ended
  <2>4. QED BY <2>2, <2>3
<1>2. MaintenanceEnds => owner'.mark \in {0, Len(log)}
  <2>1. MaintenanceEnds => \/ owner' = Ended(owner)
                          \/ owner' = [owner EXCEPT !.run = "barrier", !.mark = Len(log)]
    BY DEF MaintenanceEnds
  <2>2. Ended(owner).mark = 0 /\ [owner EXCEPT !.run = "barrier", !.mark = Len(log)].mark = Len(log)
    BY DEF OwnerRec, Ended
  <2>3. QED BY <2>1, <2>2
<1>3. Closed.mark = 0
  BY DEF Closed, NewCall
<1>4. \A p \in CallRec, m \in Nat : [p EXCEPT !.pc = "preflight", !.mark = m].mark = m
  BY DEF CallRec
<1>5. QED BY <1>1, <1>2, <1>3, <1>4

(* A trigger leaves the mark.                                               *)
LEMMA RequestedMark ==
  ASSUME NEW p \in OwnerRec
  PROVE  Requested(p).mark = p.mark
BY DEF Requested, OwnerRec

(* Answers rely on what is durable.                                         *)
LEMMA DurableStep ==
  ASSUME Small, LogTyped, AnswersAreDurable, Marked, log' \in Seq(Events), Rest, LogMove,
         GoodLog(log), [Next]_vars
  PROVE  (LogTyped /\ AnswersAreDurable)'
<1> USE  DEF LogTyped, AnswersAreDurable, Small, OwnerRec, CallRec
<1>1. ASSUME DriveBegins
      PROVE  (LogTyped /\ AnswersAreDurable)'
  <2>1. log' = log /\ calls' = calls /\ relied' = relied /\ Len(log) \in Nat
    BY <1>1 DEF DriveBegins
  <2>2. owner'.mark \in {0, Len(log)}
    BY <1>1, MarkMoves
  <2>3. stored' \in 0 .. Len(log) /\ relied <= stored'
    BY <1>1 DEF DriveBegins, Confirmed
  <2>4. QED BY <2>1, <2>2, <2>3
<1>2. ASSUME DriveFails
      PROVE  (LogTyped /\ AnswersAreDurable)'
  BY <1>2 DEF DriveFails, OwnerTurn, Trouble, Ended, Leave, Turn
<1>3. ASSUME DriveStops
      PROVE  (LogTyped /\ AnswersAreDurable)'
  BY <1>3 DEF DriveStops, Drives, Runnable, Ended, Leave, OwnerTurn, Confirmed,
     Turn
<1>4. ASSUME DriveArms
      PROVE  (LogTyped /\ AnswersAreDurable)'
  BY <1>4 DEF DriveArms, Drives, Runnable, Ended, Leave, OwnerTurn, Confirmed, Turn
<1>5. ASSUME DriveWaits
      PROVE  (LogTyped /\ AnswersAreDurable)'
  BY <1>5 DEF DriveWaits, Drives, Runnable, Ended, WaitsForIdle, Leave, OwnerTurn,
     Confirmed, Turn
<1>6. ASSUME ClaimArms
      PROVE  (LogTyped /\ AnswersAreDurable)'
  BY <1>6 DEF ClaimArms, Claims, Reread, Claimed, Held, Drives, Runnable, Jump,
     Ended, OwnerTurn, Confirmed, Turn
<1>7. ASSUME ClaimThrows
      PROVE  (LogTyped /\ AnswersAreDurable)'
  BY <1>7 DEF ClaimThrows, Claims, Trouble, Claimed, Held, Drives, Runnable, Ended,
     OwnerTurn, Confirmed, Turn
<1>8. ASSUME ClaimSends
      PROVE  (LogTyped /\ AnswersAreDurable)'
  BY <1>8 DEF ClaimSends, Claims, Reread, Claimed, Held, Drives, Runnable, Jump,
     Ended, OwnerTurn, Confirmed, Turn
<1>9. ASSUME ClaimFaults
      PROVE  (LogTyped /\ AnswersAreDurable)'
  BY <1>9 DEF ClaimFaults, Claims, Trouble, Faulted, Claimed, Held, Drives,
     Runnable, NoTimer, Ended, OwnerTurn, Confirmed, Turn
<1>10. ASSUME BarrierPasses
      PROVE  (LogTyped /\ AnswersAreDurable)'
  <2>1. log' = log /\ calls' = calls /\ relied' = relied /\ Len(log) \in Nat
    BY <1>10 DEF BarrierPasses
  <2>2. owner'.mark <= Len(log)
    BY <1>10, <2>1, RequestedMark DEF BarrierPasses, Requested, Ended, OwnerRec
  <2>3. stored' \in 0 .. Len(log) /\ relied <= stored'
    BY <1>10 DEF BarrierPasses, Confirmed
  <2>4. QED BY <2>1, <2>2, <2>3
<1>11. ASSUME Retires
      PROVE  (LogTyped /\ AnswersAreDurable)'
  BY <1>11 DEF Retires, Again, Heeds
<1>12. ASSUME MaintenanceEnds
      PROVE  (LogTyped /\ AnswersAreDurable)'
  <2>1. log' = log /\ calls' = calls /\ relied' = relied /\ Len(log) \in Nat
    BY <1>12 DEF MaintenanceEnds
  <2>2. owner'.mark \in {0, Len(log)}
    BY <1>12, MarkMoves
  <2>3. stored' \in 0 .. Len(log) /\ relied <= stored'
    BY <1>12 DEF MaintenanceEnds, Confirmed
  <2>4. QED BY <2>1, <2>2, <2>3
<1>13. ASSUME TurnEnds
      PROVE  (LogTyped /\ AnswersAreDurable)'
  <2>1. log' = log /\ calls' = calls /\ relied' = relied /\ Len(log) \in Nat
    BY <1>13 DEF TurnEnds
  <2>2. owner'.mark <= Len(log)
    BY <1>13, <2>1, RequestedMark DEF TurnEnds, RequestDrive
  <2>3. stored' \in 0 .. Len(log) /\ relied <= stored'
    BY <1>13 DEF TurnEnds, Confirmed
  <2>4. QED BY <2>1, <2>2, <2>3
<1>14. ASSUME OtherEnds
      PROVE  (LogTyped /\ AnswersAreDurable)'
  BY <1>14 DEF OtherEnds, Released
<1>15. ASSUME TimerFires
      PROVE  (LogTyped /\ AnswersAreDurable)'
  <2>1. log' = log /\ calls' = calls /\ relied' = relied /\ Len(log) \in Nat
    BY <1>15 DEF TimerFires
  <2>2. owner'.mark <= Len(log)
    BY <1>15, <2>1, RequestedMark DEF TimerFires, RequestDrive, OwnerRec
  <2>3. stored' \in 0 .. Len(log) /\ relied <= stored'
    BY <1>15 DEF TimerFires, Confirmed
  <2>4. QED BY <2>1, <2>2, <2>3
<1>16. ASSUME IdleWaitEnds
      PROVE  (LogTyped /\ AnswersAreDurable)'
  <2>1. log' = log /\ calls' = calls /\ relied' = relied /\ Len(log) \in Nat
    BY <1>16 DEF IdleWaitEnds
  <2>2. owner'.mark <= Len(log)
    BY <1>16, <2>1, RequestedMark DEF IdleWaitEnds, Requested, OwnerRec
  <2>3. stored' \in 0 .. Len(log) /\ relied <= stored'
    BY <1>16 DEF IdleWaitEnds, Confirmed
  <2>4. QED BY <2>1, <2>2, <2>3
<1>17. ASSUME Tick
      PROVE  (LogTyped /\ AnswersAreDurable)'
  BY <1>17 DEF Tick
<1>18. ASSUME NEW c \in Calls, Issue(c)
      PROVE  (LogTyped /\ AnswersAreDurable)'
  BY <1>18 DEF Issue
<1>19. ASSUME NEW c \in Calls, CallBegins(c)
      PROVE  (LogTyped /\ AnswersAreDurable)'
  <2>1. log' = log /\ owner' = owner /\ relied' = relied /\ stored' = stored /\ Len(log) \in Nat
    BY <1>19 DEF CallBegins
  <2>2. \/ calls' = [calls EXCEPT ![c] = Closed]
        \/ calls' = [calls EXCEPT ![c] = [calls[c] EXCEPT !.pc = "preflight", !.mark = Len(log)]]
    BY <1>19 DEF CallBegins
  <2>3. ASSUME NEW d \in Calls PROVE calls'[d].mark <= Len(log)
    <3>1. CASE d = c
      <4>1. calls'[c].mark \in {0, Len(log)}
        <5>1. calls[c] \in CallRec
          OBVIOUS
        <5> HIDE DEF CallRec
        <5>2. [calls[c] EXCEPT !.pc = "preflight", !.mark = Len(log)].mark = Len(log) /\ Closed.mark = 0
          BY <5>1, <2>1, MarkMoves
        <5>3. calls'[c] = Closed \/ calls'[c] = [calls[c] EXCEPT !.pc = "preflight", !.mark = Len(log)]
          BY <2>2
        <5>4. QED BY <5>2, <5>3
      <4>2. QED BY <3>1, <4>1, <2>1
    <3>2. CASE d # c
      BY <2>2, <3>2
    <3>3. QED BY <3>1, <3>2
  <2>4. QED BY <2>1, <2>3
<1>20. ASSUME NEW c \in Calls, FlushFails(c)
      PROVE  (LogTyped /\ AnswersAreDurable)'
  BY <1>20 DEF FlushFails, Trouble, Closed, Leave, NewCall
<1>21. ASSUME NEW c \in Calls, Reads(c)
      PROVE  (LogTyped /\ AnswersAreDurable)'
  BY <1>21, ExtentForms, RequestedMark DEF Reads, Passes, Answered, Confirmed,
     Notified, Closed, Queued, Leave, NewCall, Heeds, Marked
<1>22. ASSUME NEW c \in Calls, Refuses(c)
      PROVE  (LogTyped /\ AnswersAreDurable)'
  BY <1>22, RequestedMark DEF Refuses, Passes, Answered, Confirmed, Notified,
     Closed, Queued, Leave, NewCall, Heeds
<1>23. ASSUME NEW c \in Calls, Appends(c)
      PROVE  (LogTyped /\ AnswersAreDurable)'
  <2>1. /\ Len(log') = Len(log) + 1 /\ Len(log) \in Nat
    BY <1>23 DEF Appends
  <2>2. /\ stored' = Confirmed(calls[c].mark) /\ relied' = relied /\ owner' = Requested(owner)
    BY <1>23 DEF Appends, Passes, Notified
  <2>3. calls' = [calls EXCEPT ![c] = [calls[c] EXCEPT !.pc = "barrier", !.mark = Len(log')]]
    BY <1>23 DEF Appends
  <2>4. owner'.mark = owner.mark
    BY <2>2 DEF Requested, OwnerRec
  <2>5. stored' \in 0 .. Len(log') /\ relied' \in 0 .. Len(log') /\ relied' <= stored'
    BY <2>1, <2>2 DEF Confirmed
  <2>6. \A d \in Calls : calls'[d].mark <= Len(log')
    BY <2>1, <2>3
  <2>7. QED BY <2>1, <2>4, <2>5, <2>6
<1>24. ASSUME NEW c \in Calls, AppendThrows(c)
      PROVE  (LogTyped /\ AnswersAreDurable)'
  BY <1>24, RequestedMark DEF AppendThrows, Passes, Trouble, Answered, Confirmed,
     Notified, Closed, Queued, Leave, NewCall, Heeds
<1>25. ASSUME NEW c \in Calls, Confirms(c)
      PROVE  (LogTyped /\ AnswersAreDurable)'
  BY <1>25, RequestedMark DEF Confirms, Passes, Answered, Confirmed, Notified,
     Closed, Queued, Leave, NewCall, Heeds
<1>26. ASSUME Stop
      PROVE  (LogTyped /\ AnswersAreDurable)'
  BY <1>26 DEF Stop, Trouble, NoTimer
<1>27. ASSUME PersonSpeaks
      PROVE  (LogTyped /\ AnswersAreDurable)'
  BY <1>27 DEF PersonSpeaks, Speaks
<1>28. ASSUME OtherWork
      PROVE  (LogTyped /\ AnswersAreDurable)'
  BY <1>28 DEF OtherWork, Trouble
<1>29. ASSUME Cancel
      PROVE  (LogTyped /\ AnswersAreDurable)'
  BY <1>29 DEF Cancel, Trouble
<1>30. ASSUME ClockJumps
      PROVE  (LogTyped /\ AnswersAreDurable)'
  BY <1>30 DEF ClockJumps, Jump
<1>31. ASSUME Crash
      PROVE  (LogTyped /\ AnswersAreDurable)'
  <2>1. PICK n \in stored .. Len(log) : log' = SubSeq(log, 1, n) /\ stored' = n
    BY <1>31 DEF Crash
  <2>2. n \in Nat /\ Len(log') = n /\ relied' = relied
    BY <1>31, <2>1 DEF Crash
  <2>3. owner'.mark = 0
    BY <1>31 DEF Crash, Started
  <2>4. ASSUME NEW d \in Calls PROVE calls'[d].mark <= Len(log')
    <3>1. calls[d] \in CallRec /\ calls[d].pc \in {"none", "done"} => calls[d].mark = 0
      BY DEF Rest
    <3>2. calls'[d] = IF d \in Open THEN Closed ELSE calls[d]
      BY <1>31 DEF Crash
    <3>3. calls'[d].mark = 0
      BY <3>1, <3>2 DEF Open, Closed, NewCall
    <3>4. QED BY <3>3, <2>2
  <2>5. QED BY <2>1, <2>2, <2>3, <2>4
<1>32. CASE UNCHANGED vars
  BY <1>32 DEF vars
<1>33. QED
  BY <1>1, <1>2, <1>3, <1>4, <1>5, <1>6, <1>7, <1>8, <1>9, <1>10, <1>11, <1>12,
     <1>13, <1>14, <1>15, <1>16, <1>17, <1>18, <1>19, <1>20, <1>21, <1>22, <1>23,
     <1>24, <1>25, <1>26, <1>27, <1>28, <1>29, <1>30, <1>31, <1>32 DEF Next,
     OwnerStep, AgentStep, CallStep

(* No mark is left behind.                                                  *)
LEMMA RestStep ==
  ASSUME calls \in [Calls -> CallRec], Rest, [Next]_vars
  PROVE  Rest'
<1> USE  DEF Rest, CallRec, Closed, NewCall
<1>1. ASSUME DriveBegins
      PROVE  Rest'
  BY <1>1 DEF DriveBegins
<1>2. ASSUME DriveFails
      PROVE  Rest'
  BY <1>2 DEF DriveFails
<1>3. ASSUME DriveStops
      PROVE  Rest'
  BY <1>3 DEF DriveStops, Drives
<1>4. ASSUME DriveArms
      PROVE  Rest'
  BY <1>4 DEF DriveArms, Drives
<1>5. ASSUME DriveWaits
      PROVE  Rest'
  BY <1>5 DEF DriveWaits, Drives, WaitsForIdle
<1>6. ASSUME ClaimArms
      PROVE  Rest'
  BY <1>6 DEF ClaimArms, Claims, Drives
<1>7. ASSUME ClaimThrows
      PROVE  Rest'
  BY <1>7 DEF ClaimThrows, Claims, Drives
<1>8. ASSUME ClaimSends
      PROVE  Rest'
  BY <1>8 DEF ClaimSends, Claims, Drives
<1>9. ASSUME ClaimFaults
      PROVE  Rest'
  BY <1>9 DEF ClaimFaults, Claims, Drives
<1>10. ASSUME BarrierPasses
      PROVE  Rest'
  BY <1>10 DEF BarrierPasses
<1>11. ASSUME Retires
      PROVE  Rest'
  BY <1>11 DEF Retires
<1>12. ASSUME MaintenanceEnds
      PROVE  Rest'
  BY <1>12 DEF MaintenanceEnds
<1>13. ASSUME TurnEnds
      PROVE  Rest'
  BY <1>13 DEF TurnEnds, RequestDrive
<1>14. ASSUME OtherEnds
      PROVE  Rest'
  BY <1>14 DEF OtherEnds
<1>15. ASSUME TimerFires
      PROVE  Rest'
  BY <1>15 DEF TimerFires, RequestDrive
<1>16. ASSUME IdleWaitEnds
      PROVE  Rest'
  BY <1>16 DEF IdleWaitEnds
<1>17. ASSUME Tick
      PROVE  Rest'
  BY <1>17 DEF Tick
<1>18. ASSUME NEW c \in Calls, Issue(c)
      PROVE  Rest'
  BY <1>18 DEF Issue
<1>19. ASSUME NEW c \in Calls, CallBegins(c)
      PROVE  Rest'
  BY <1>19 DEF CallBegins
<1>20. ASSUME NEW c \in Calls, FlushFails(c)
      PROVE  Rest'
  BY <1>20 DEF FlushFails
<1>21. ASSUME NEW c \in Calls, Reads(c)
      PROVE  Rest'
  BY <1>21 DEF Reads, Passes, Answered
<1>22. ASSUME NEW c \in Calls, Refuses(c)
      PROVE  Rest'
  BY <1>22 DEF Refuses, Passes, Answered
<1>23. ASSUME NEW c \in Calls, Appends(c)
      PROVE  Rest'
  BY <1>23 DEF Appends, Passes
<1>24. ASSUME NEW c \in Calls, AppendThrows(c)
      PROVE  Rest'
  BY <1>24 DEF AppendThrows, Passes, Answered
<1>25. ASSUME NEW c \in Calls, Confirms(c)
      PROVE  Rest'
  BY <1>25 DEF Confirms, Passes, Answered
<1>26. ASSUME Stop
      PROVE  Rest'
  BY <1>26 DEF Stop
<1>27. ASSUME PersonSpeaks
      PROVE  Rest'
  BY <1>27 DEF PersonSpeaks
<1>28. ASSUME OtherWork
      PROVE  Rest'
  BY <1>28 DEF OtherWork
<1>29. ASSUME Cancel
      PROVE  Rest'
  BY <1>29 DEF Cancel
<1>30. ASSUME ClockJumps
      PROVE  Rest'
  BY <1>30 DEF ClockJumps
<1>31. ASSUME Crash
      PROVE  Rest'
  BY <1>31 DEF Crash, Open
<1>32. CASE UNCHANGED vars
  BY <1>32 DEF vars
<1>33. QED
  BY <1>1, <1>2, <1>3, <1>4, <1>5, <1>6, <1>7, <1>8, <1>9, <1>10, <1>11, <1>12,
     <1>13, <1>14, <1>15, <1>16, <1>17, <1>18, <1>19, <1>20, <1>21, <1>22, <1>23,
     <1>24, <1>25, <1>26, <1>27, <1>28, <1>29, <1>30, <1>31, <1>32 DEF Next,
     OwnerStep, AgentStep, CallStep

(* The agent is held by the owner exactly while it claims.                 *)
LEMMA OwnSideStep ==
  ASSUME Small, OwnSide, [Next]_vars
  PROVE  OwnSide'
<1> USE  DEF Small, OwnSide, OwnerRec
<1>1. ASSUME DriveBegins
      PROVE  OwnSide'
  BY <1>1 DEF DriveBegins, OwnerTurn, NoTimer, Ended, Leave, Turn
<1>2. ASSUME DriveFails
      PROVE  OwnSide'
  BY <1>2 DEF DriveFails, OwnerTurn, Ended, Leave, Turn
<1>3. ASSUME DriveStops
      PROVE  OwnSide'
  BY <1>3 DEF DriveStops, Drives, Runnable, Ended, Leave, OwnerTurn, Turn
<1>4. ASSUME DriveArms
      PROVE  OwnSide'
  BY <1>4 DEF DriveArms, Drives, Runnable, Ended, Leave, OwnerTurn, Turn
<1>5. ASSUME DriveWaits
      PROVE  OwnSide'
  BY <1>5 DEF DriveWaits, Drives, Runnable, Ended, WaitsForIdle, Leave, OwnerTurn,
     Turn
<1>6. ASSUME ClaimArms
      PROVE  OwnSide'
  BY <1>6 DEF ClaimArms, Claims, Reread, Claimed, Held, Drives, Runnable, Ended,
     OwnerTurn, Turn
<1>7. ASSUME ClaimThrows
      PROVE  OwnSide'
  BY <1>7 DEF ClaimThrows, Claims, Claimed, Held, Drives, Runnable, Ended,
     OwnerTurn, Turn
<1>8. ASSUME ClaimSends
      PROVE  OwnSide'
  BY <1>8 DEF ClaimSends, Claims, Reread, Claimed, Held, Drives, Runnable, Ended,
     OwnerTurn, Turn
<1>9. ASSUME ClaimFaults
      PROVE  OwnSide'
  BY <1>9 DEF ClaimFaults, Claims, Faulted, Claimed, Held, Drives, Runnable,
     NoTimer, Ended, OwnerTurn, Turn
<1>10. ASSUME BarrierPasses
      PROVE  OwnSide'
  BY <1>10 DEF BarrierPasses, OwnerTurn, Requested, Ended, Leave, Turn, Heeds,
     NoTimer
<1>11. ASSUME Retires
      PROVE  OwnSide'
  BY <1>11 DEF Retires, Again, Heeds
<1>12. ASSUME MaintenanceEnds
      PROVE  OwnSide'
  BY <1>12 DEF MaintenanceEnds, Released, Ended, Leave
<1>13. ASSUME TurnEnds
      PROVE  OwnSide'
  BY <1>13 DEF TurnEnds, Open, AtRest, RequestDrive, Requested, Queued, Heeds,
     NoTimer
<1>14. ASSUME OtherEnds
      PROVE  OwnSide'
  BY <1>14 DEF OtherEnds, Released
<1>15. ASSUME TimerFires
      PROVE  OwnSide'
  BY <1>15 DEF TimerFires, RequestDrive, Requested, Queued, Heeds, NoTimer
<1>16. ASSUME IdleWaitEnds
      PROVE  OwnSide'
  BY <1>16 DEF IdleWaitEnds, Requested, Queued, Heeds, NoTimer
<1>17. ASSUME Tick
      PROVE  OwnSide'
  BY <1>17 DEF Tick
<1>18. ASSUME NEW c \in Calls, Issue(c)
      PROVE  OwnSide'
  BY <1>18 DEF Issue
<1>19. ASSUME NEW c \in Calls, CallBegins(c)
      PROVE  OwnSide'
  BY <1>19 DEF CallBegins, Turn, Closed, Leave, NewCall
<1>20. ASSUME NEW c \in Calls, FlushFails(c)
      PROVE  OwnSide'
  BY <1>20 DEF FlushFails, Closed, Leave, NewCall
<1>21. ASSUME NEW c \in Calls, Reads(c)
      PROVE  OwnSide'
  BY <1>21 DEF Reads, Passes, Answered, Notified, Closed, Queued, Leave, Requested,
     NewCall, Heeds, NoTimer
<1>22. ASSUME NEW c \in Calls, Refuses(c)
      PROVE  OwnSide'
  BY <1>22 DEF Refuses, Passes, Answered, Notified, Closed, Queued, Leave,
     Requested, NewCall, Heeds, NoTimer
<1>23. ASSUME NEW c \in Calls, Appends(c)
      PROVE  OwnSide'
  BY <1>23 DEF Appends, Passes, Queued, Notified, Heeds, Requested, NoTimer
<1>24. ASSUME NEW c \in Calls, AppendThrows(c)
      PROVE  OwnSide'
  BY <1>24 DEF AppendThrows, Passes, Answered, Notified, Closed, Queued, Leave,
     Requested, NewCall, Heeds, NoTimer
<1>25. ASSUME NEW c \in Calls, Confirms(c)
      PROVE  OwnSide'
  BY <1>25 DEF Confirms, Passes, Answered, Notified, Closed, Queued, Leave,
     Requested, NewCall, Heeds, NoTimer
<1>26. ASSUME Stop
      PROVE  OwnSide'
  BY <1>26 DEF Stop, NoTimer
<1>27. ASSUME PersonSpeaks
      PROVE  OwnSide'
  BY <1>27 DEF PersonSpeaks, Speaks
<1>28. ASSUME OtherWork
      PROVE  OwnSide'
  BY <1>28 DEF OtherWork
<1>29. ASSUME Cancel
      PROVE  OwnSide'
  BY <1>29 DEF Cancel
<1>30. ASSUME ClockJumps
      PROVE  OwnSide'
  BY <1>30 DEF ClockJumps
<1>31. ASSUME Crash
      PROVE  OwnSide'
  BY <1>31 DEF Crash, AtRest, Open, Closed, Started, NewCall, NoTimer
<1>32. CASE UNCHANGED vars
  BY <1>32 DEF vars
<1>33. QED
  BY <1>1, <1>2, <1>3, <1>4, <1>5, <1>6, <1>7, <1>8, <1>9, <1>10, <1>11, <1>12,
     <1>13, <1>14, <1>15, <1>16, <1>17, <1>18, <1>19, <1>20, <1>21, <1>22, <1>23,
     <1>24, <1>25, <1>26, <1>27, <1>28, <1>29, <1>30, <1>31, <1>32 DEF Next,
     OwnerStep, AgentStep, CallStep

(* Nothing is logged between a flush and its answer.                       *)
LEMMA MarkedStep ==
  ASSUME Small, Marked, LogTyped, HeadOnly, log' \in Seq(Events), [Next]_vars
  PROVE  Marked'
<1> USE  DEF Small, Marked, CallRec, HeadOnly, AtHead, Closed, NewCall
<1>1. ASSUME DriveBegins
      PROVE  Marked'
  BY <1>1 DEF DriveBegins, OwnerTurn, Turn
<1>2. ASSUME DriveFails
      PROVE  Marked'
  BY <1>2 DEF DriveFails, OwnerTurn, Turn
<1>3. ASSUME DriveStops
      PROVE  Marked'
  BY <1>3 DEF DriveStops, Drives, OwnerTurn, Turn
<1>4. ASSUME DriveArms
      PROVE  Marked'
  BY <1>4 DEF DriveArms, Drives, OwnerTurn, Turn
<1>5. ASSUME DriveWaits
      PROVE  Marked'
  BY <1>5 DEF DriveWaits, Drives, WaitsForIdle, OwnerTurn, Turn
<1>6. ASSUME ClaimArms
      PROVE  Marked'
  BY <1>6 DEF ClaimArms, Claims, Drives, OwnerTurn, Turn
<1>7. ASSUME ClaimThrows
      PROVE  Marked'
  BY <1>7 DEF ClaimThrows, Claims, Drives, OwnerTurn, Turn
<1>8. ASSUME ClaimSends
      PROVE  Marked'
  <2>1. owner.run = "preflight" /\ Turn(Owner) /\ calls' = calls
    BY <1>8 DEF ClaimSends, Claims, Drives, OwnerTurn
  <2>2. ASSUME NEW d \in Calls, calls[d].pc = "preflight"
        PROVE  FALSE
    <3>1. Head(queue) = d /\ Head(queue) = Owner
      BY <2>1, <2>2 DEF Turn
    <3>2. QED BY <3>1, ScheduleAssumption DEF Calls
  <2>3. QED BY <2>1, <2>2
<1>9. ASSUME ClaimFaults
      PROVE  Marked'
  <2>1. owner.run = "preflight" /\ Turn(Owner) /\ calls' = calls
    BY <1>9 DEF ClaimFaults, Claims, Drives, OwnerTurn
  <2>2. ASSUME NEW d \in Calls, calls[d].pc = "preflight"
        PROVE  FALSE
    <3>1. Head(queue) = d /\ Head(queue) = Owner
      BY <2>1, <2>2 DEF Turn
    <3>2. QED BY <3>1, ScheduleAssumption DEF Calls
  <2>3. QED BY <2>1, <2>2
<1>10. ASSUME BarrierPasses
      PROVE  Marked'
  BY <1>10 DEF BarrierPasses, OwnerTurn, Turn
<1>11. ASSUME Retires
      PROVE  Marked'
  BY <1>11 DEF Retires
<1>12. ASSUME MaintenanceEnds
      PROVE  Marked'
  BY <1>12 DEF MaintenanceEnds
<1>13. ASSUME TurnEnds
      PROVE  Marked'
  BY <1>13 DEF TurnEnds, Open, RequestDrive
<1>14. ASSUME OtherEnds
      PROVE  Marked'
  BY <1>14 DEF OtherEnds
<1>15. ASSUME TimerFires
      PROVE  Marked'
  BY <1>15 DEF TimerFires, RequestDrive
<1>16. ASSUME IdleWaitEnds
      PROVE  Marked'
  BY <1>16 DEF IdleWaitEnds
<1>17. ASSUME Tick
      PROVE  Marked'
  BY <1>17 DEF Tick
<1>18. ASSUME NEW c \in Calls, Issue(c)
      PROVE  Marked'
  BY <1>18 DEF Issue
<1>19. ASSUME NEW c \in Calls, CallBegins(c)
      PROVE  Marked'
  <2>1. \/ calls' = [calls EXCEPT ![c] = Closed]
        \/ calls' = [calls EXCEPT ![c] = [calls[c] EXCEPT !.pc = "preflight", !.mark = Len(log)]]
    BY <1>19 DEF CallBegins
  <2>2. log' = log /\ Len(log) \in Nat
    BY <1>19 DEF CallBegins, LogTyped
  <2>3. ASSUME NEW d \in Calls, calls'[d].pc = "preflight"
        PROVE  calls'[d].mark = Len(log)
    <3>1. CASE d = c
      <4>1. calls[c] \in CallRec
        OBVIOUS
      <4> HIDE DEF CallRec
      <4>2. [calls[c] EXCEPT !.pc = "preflight", !.mark = Len(log)].mark = Len(log)
        BY <4>1, <2>2, MarkMoves
      <4>3. Closed.pc # "preflight"
        OBVIOUS
      <4>4. calls'[c] = Closed \/ calls'[c] = [calls[c] EXCEPT !.pc = "preflight", !.mark = Len(log)]
        BY <2>1
      <4>5. QED BY <2>3, <3>1, <4>2, <4>3, <4>4
    <3>2. CASE d # c
      BY <2>1, <2>3, <3>2
    <3>3. QED BY <3>1, <3>2
  <2>4. QED BY <2>2, <2>3
<1>20. ASSUME NEW c \in Calls, FlushFails(c)
      PROVE  Marked'
  BY <1>20 DEF FlushFails
<1>21. ASSUME NEW c \in Calls, Reads(c)
      PROVE  Marked'
  BY <1>21 DEF Reads, Passes, Answered
<1>22. ASSUME NEW c \in Calls, Refuses(c)
      PROVE  Marked'
  BY <1>22 DEF Refuses, Passes, Answered
<1>23. ASSUME NEW c \in Calls, Appends(c)
      PROVE  Marked'
  BY <1>23 DEF Appends, Passes
<1>24. ASSUME NEW c \in Calls, AppendThrows(c)
      PROVE  Marked'
  BY <1>24 DEF AppendThrows, Passes, Answered
<1>25. ASSUME NEW c \in Calls, Confirms(c)
      PROVE  Marked'
  BY <1>25 DEF Confirms, Passes, Answered
<1>26. ASSUME Stop
      PROVE  Marked'
  BY <1>26 DEF Stop
<1>27. ASSUME PersonSpeaks
      PROVE  Marked'
  BY <1>27 DEF PersonSpeaks
<1>28. ASSUME OtherWork
      PROVE  Marked'
  BY <1>28 DEF OtherWork
<1>29. ASSUME Cancel
      PROVE  Marked'
  BY <1>29 DEF Cancel
<1>30. ASSUME ClockJumps
      PROVE  Marked'
  BY <1>30 DEF ClockJumps
<1>31. ASSUME Crash
      PROVE  Marked'
  BY <1>31 DEF Crash, Open
<1>32. CASE UNCHANGED vars
  BY <1>32 DEF vars
<1>33. QED
  BY <1>1, <1>2, <1>3, <1>4, <1>5, <1>6, <1>7, <1>8, <1>9, <1>10, <1>11, <1>12,
     <1>13, <1>14, <1>15, <1>16, <1>17, <1>18, <1>19, <1>20, <1>21, <1>22, <1>23,
     <1>24, <1>25, <1>26, <1>27, <1>28, <1>29, <1>30, <1>31, <1>32 DEF Next,
     OwnerStep, AgentStep, CallStep

(* The ways in which the FIFO moves.                                        *)
Runs == {"queued", "preflight", "claimed", "barrier"}
Stays == /\ \A c \in Calls : calls'[c].pc = calls[c].pc
         /\ \/ owner'.run = owner.run
            \/ /\ AtHead(Owner) /\ owner.run \in Runs
               /\ owner'.run \in {"preflight", "claimed", "barrier"}
            \/ owner.run = "ended" /\ owner'.run = "none"
         /\ queue' = queue
OwnerLeaves == /\ \A c \in Calls : calls'[c].pc = calls[c].pc
               /\ AtHead(Owner) /\ owner.run \in Runs /\ owner'.run = "ended"
               /\ queue' = Tail(queue)
OwnerJoins == /\ \A c \in Calls : calls'[c].pc = calls[c].pc
              /\ owner.run \in {"none", "ended"} /\ owner'.run = "queued"
              /\ queue' = Append(queue, Owner)
Others(c) == \A d \in Calls \ {c} : calls'[d].pc = calls[d].pc
CallJoins(c) == /\ Others(c) /\ calls[c].pc = "none" /\ calls'[c].pc = "queued"
                /\ owner'.run = owner.run /\ queue' = Append(queue, c)
CallStays(c) == /\ Others(c) /\ AtHead(c) /\ c \in Open /\ calls'[c].pc \in {"preflight", "barrier"}
                /\ \/ owner'.run = owner.run /\ queue' = queue
                   \/ /\ owner.run = "none" /\ owner'.run = "queued"
                      /\ queue' = Append(queue, Owner)
CallLeaves(c) == /\ Others(c) /\ AtHead(c) /\ c \in Open /\ calls'[c].pc = "done"
                 /\ \/ owner'.run = owner.run /\ queue' = Tail(queue)
                    \/ /\ owner.run = "none" /\ owner'.run = "queued"
                       /\ queue' = Append(Tail(queue), Owner)
Restarts == /\ \A c \in Calls : calls'[c].pc \in {"none", "done"}
            /\ owner'.run = "queued" /\ queue' = <<Owner>>
FifoMove == \/ Stays \/ OwnerLeaves \/ OwnerJoins \/ Restarts
            \/ \E c \in Calls : CallJoins(c) \/ CallStays(c) \/ CallLeaves(c)

(* The run an update of the owner leaves.                                   *)
LEMMA RunMoves ==
  ASSUME NEW p \in OwnerRec
  PROVE  /\ Ended(p).run = "ended" /\ Faulted(p).run = p.run
         /\ Requested(p).run = IF Heeds(p) /\ p.run = "none" THEN "queued" ELSE p.run
         /\ [p EXCEPT !.lapsed = TRUE].run = p.run /\ [p EXCEPT !.sent = TRUE].run = p.run
         /\ \A b : [p EXCEPT !.faulted = b].run = p.run
         /\ \A b : [p EXCEPT !.idleWait = b, !.lapsed = FALSE].run = p.run
         /\ \A d : [p EXCEPT !.timer = d, !.lapsed = FALSE].run = p.run
         /\ \A d : [p EXCEPT !.timer = d].run = p.run
         /\ [p EXCEPT !.run = "claimed", !.lapsed = FALSE].run = "claimed"
BY DEF OwnerRec, Ended, Faulted, Requested

(* Every step moves the FIFO in one of these ways.                          *)
LEMMA FifoMoves ==
  ASSUME calls \in [Calls -> CallRec], owner \in OwnerRec, OwnSide, HeadOnly, [Next]_vars
  PROVE  FifoMove
<1>1. ASSUME DriveBegins
      PROVE  FifoMove
  <2>1. AtHead(Owner) /\ owner.run \in Runs /\ calls' = calls
    BY <1>1 DEF DriveBegins, OwnerTurn, Turn, AtHead, Runs
  <2>2. CASE owner.stopping
    <3>1. owner'.run = "ended" /\ queue' = Tail(queue)
      BY <1>1, <2>2 DEF DriveBegins, Ended, Leave, OwnerRec
    <3>2. QED BY <2>1, <3>1 DEF FifoMove, OwnerLeaves
  <2>3. CASE ~owner.stopping
    <3>1. owner'.run = "preflight" /\ queue' = queue
      BY <1>1, <2>3 DEF DriveBegins, OwnerRec
    <3>2. QED BY <2>1, <3>1 DEF FifoMove, Stays
  <2>4. QED BY <2>2, <2>3
<1>2. ASSUME DriveFails
      PROVE  FifoMove
  <2>1. owner' = [Ended(owner) EXCEPT !.lapsed = TRUE]
    BY <1>2 DEF DriveFails
  <2>2. Ended(owner) \in OwnerRec /\ Ended(owner).run = "ended"
    BY RunMoves, OwnerMoves
  <2>3. owner'.run = "ended"
    BY <2>1, <2>2, RunMoves
  <2>4. calls' = calls /\ queue' = Tail(queue) /\ AtHead(Owner) /\ owner.run \in Runs
    BY <1>2 DEF DriveFails, Leave, Drives, OwnerTurn, Turn, AtHead, Runs
  <2>5. QED BY <2>3, <2>4 DEF FifoMove, OwnerLeaves
<1>3. ASSUME DriveStops
      PROVE  FifoMove
  <2>1. owner' = [Ended(owner) EXCEPT !.faulted = Ended(owner).faulted \/ Runnable]
    BY <1>3 DEF DriveStops
  <2>2. Ended(owner) \in OwnerRec /\ Ended(owner).run = "ended"
    BY RunMoves, OwnerMoves
  <2>3. owner'.run = "ended"
    BY <2>1, <2>2, RunMoves
  <2>4. calls' = calls /\ queue' = Tail(queue) /\ AtHead(Owner) /\ owner.run \in Runs
    BY <1>3 DEF DriveStops, Leave, Drives, OwnerTurn, Turn, AtHead, Runs
  <2>5. QED BY <2>3, <2>4 DEF FifoMove, OwnerLeaves
<1>4. ASSUME DriveArms
      PROVE  FifoMove
  <2>1. owner' = [Ended(owner) EXCEPT !.timer = Delay(Active, clock), !.lapsed = FALSE]
    BY <1>4 DEF DriveArms
  <2>2. Ended(owner) \in OwnerRec /\ Ended(owner).run = "ended"
    BY RunMoves, OwnerMoves
  <2>3. owner'.run = "ended"
    BY <2>1, <2>2, RunMoves
  <2>4. calls' = calls /\ queue' = Tail(queue) /\ AtHead(Owner) /\ owner.run \in Runs
    BY <1>4 DEF DriveArms, Leave, Drives, OwnerTurn, Turn, AtHead, Runs
  <2>5. QED BY <2>3, <2>4 DEF FifoMove, OwnerLeaves
<1>5. ASSUME DriveWaits
      PROVE  FifoMove
  <2>1. owner' = [Ended(owner) EXCEPT !.idleWait = Ended(owner).idleWait \/ WaitsForIdle, !.lapsed = FALSE]
    BY <1>5 DEF DriveWaits
  <2>2. Ended(owner) \in OwnerRec /\ Ended(owner).run = "ended"
    BY RunMoves, OwnerMoves
  <2>3. owner'.run = "ended"
    BY <2>1, <2>2, RunMoves
  <2>4. calls' = calls /\ queue' = Tail(queue) /\ AtHead(Owner) /\ owner.run \in Runs
    BY <1>5 DEF DriveWaits, Leave, Drives, OwnerTurn, Turn, AtHead, Runs
  <2>5. QED BY <2>3, <2>4 DEF FifoMove, OwnerLeaves
<1>6. ASSUME ClaimArms
      PROVE  FifoMove
  <2>1. \E t \in Instants : owner' = [Claimed EXCEPT !.timer = Delay(Active, t)]
    BY <1>6 DEF ClaimArms
  <2>2. Ended(owner) \in OwnerRec
    BY OwnerMoves
  <2>3. Claimed \in OwnerRec /\ Claimed.run = "claimed"
    BY <2>2, RunMoves, OwnerMoves DEF Claimed
  <2>4. owner'.run = "claimed"
    BY <2>1, <2>3, RunMoves
  <2>5. calls' = calls /\ queue' = queue /\ AtHead(Owner) /\ owner.run \in Runs
    BY <1>6 DEF ClaimArms, Claims, Drives, OwnerTurn, Turn, AtHead, Runs
  <2>6. QED BY <2>4, <2>5 DEF FifoMove, Stays
<1>7. ASSUME ClaimThrows
      PROVE  FifoMove
  <2>1. owner' = [Claimed EXCEPT !.lapsed = TRUE]
    BY <1>7 DEF ClaimThrows
  <2>2. Ended(owner) \in OwnerRec
    BY OwnerMoves
  <2>3. Claimed \in OwnerRec /\ Claimed.run = "claimed"
    BY <2>2, RunMoves, OwnerMoves DEF Claimed
  <2>4. owner'.run = "claimed"
    BY <2>1, <2>3, RunMoves
  <2>5. calls' = calls /\ queue' = queue /\ AtHead(Owner) /\ owner.run \in Runs
    BY <1>7 DEF ClaimThrows, Claims, Drives, OwnerTurn, Turn, AtHead, Runs
  <2>6. QED BY <2>4, <2>5 DEF FifoMove, Stays
<1>8. ASSUME ClaimSends
      PROVE  FifoMove
  <2>1. owner' = [Claimed EXCEPT !.sent = TRUE]
    BY <1>8 DEF ClaimSends
  <2>2. Ended(owner) \in OwnerRec
    BY OwnerMoves
  <2>3. Claimed \in OwnerRec /\ Claimed.run = "claimed"
    BY <2>2, RunMoves, OwnerMoves DEF Claimed
  <2>4. owner'.run = "claimed"
    BY <2>1, <2>3, RunMoves
  <2>5. calls' = calls /\ queue' = queue /\ AtHead(Owner) /\ owner.run \in Runs
    BY <1>8 DEF ClaimSends, Claims, Drives, OwnerTurn, Turn, AtHead, Runs
  <2>6. QED BY <2>4, <2>5 DEF FifoMove, Stays
<1>9. ASSUME ClaimFaults
      PROVE  FifoMove
  <2>1. owner' = Faulted(Claimed)
    BY <1>9 DEF ClaimFaults
  <2>2. Ended(owner) \in OwnerRec
    BY OwnerMoves
  <2>3. Claimed \in OwnerRec /\ Claimed.run = "claimed"
    BY <2>2, RunMoves, OwnerMoves DEF Claimed
  <2>4. owner'.run = "claimed"
    BY <2>1, <2>3, RunMoves
  <2>5. calls' = calls /\ queue' = queue /\ AtHead(Owner) /\ owner.run \in Runs
    BY <1>9 DEF ClaimFaults, Claims, Drives, OwnerTurn, Turn, AtHead, Runs
  <2>6. QED BY <2>4, <2>5 DEF FifoMove, Stays
<1>10. ASSUME BarrierPasses
      PROVE  FifoMove
  <2>1. owner' = Requested(Ended(owner))
    BY <1>10 DEF BarrierPasses
  <2>2. Ended(owner) \in OwnerRec /\ Ended(owner).run = "ended"
    BY RunMoves, OwnerMoves
  <2>3. owner'.run = "ended"
    BY <2>1, <2>2, RunMoves
  <2>4. calls' = calls /\ queue' = Tail(queue) /\ AtHead(Owner) /\ owner.run \in Runs
    BY <1>10 DEF BarrierPasses, Leave, Drives, OwnerTurn, Turn, AtHead, Runs
  <2>5. QED BY <2>3, <2>4 DEF FifoMove, OwnerLeaves
<1>11. ASSUME Retires
      PROVE  FifoMove
  <2>1. calls' = calls /\ owner.run = "ended"
    BY <1>11 DEF Retires
  <2>2. CASE Again
    <3>1. owner'.run = "queued" /\ queue' = Append(queue, Owner)
      BY <1>11, <2>2 DEF Retires, OwnerRec
    <3>2. QED BY <2>1, <3>1 DEF FifoMove, OwnerJoins
  <2>3. CASE ~Again
    <3>1. owner'.run = "none" /\ queue' = queue
      BY <1>11, <2>3 DEF Retires, OwnerRec
    <3>2. QED BY <2>1, <3>1 DEF FifoMove, Stays
  <2>4. QED BY <2>2, <2>3
<1>12. ASSUME MaintenanceEnds
      PROVE  FifoMove
  <2>1. AtHead(Owner) /\ owner.run \in Runs /\ calls' = calls
    BY <1>12 DEF MaintenanceEnds, OwnSide, HeadOnly, Runs
  <2>2. CASE ~owner.sent
    <3>1. owner'.run = "ended" /\ queue' = Tail(queue)
      BY <1>12, <2>2 DEF MaintenanceEnds, Ended, Leave, OwnerRec
    <3>2. QED BY <2>1, <3>1 DEF FifoMove, OwnerLeaves
  <2>3. CASE owner.sent
    <3>1. owner'.run = "barrier" /\ queue' = queue
      BY <1>12, <2>3 DEF MaintenanceEnds, OwnerRec
    <3>2. QED BY <2>1, <3>1 DEF FifoMove, Stays
  <2>4. QED BY <2>2, <2>3
<1>13. ASSUME TurnEnds
      PROVE  FifoMove
  <2>1. CASE Extent(log) = 0
    BY <1>13, <2>1 DEF TurnEnds, FifoMove, Stays
  <2>2. CASE Extent(log) # 0
    <3>1. calls' = calls /\ owner' = Requested(owner) /\ queue' = Queued(queue, owner)
      BY <1>13, <2>2 DEF TurnEnds, RequestDrive
    <3>2. owner'.run = IF Heeds(owner) /\ owner.run = "none" THEN "queued" ELSE owner.run
      BY <3>1, RunMoves
    <3>3. CASE Heeds(owner) /\ owner.run = "none"
      BY <3>1, <3>2, <3>3 DEF FifoMove, OwnerJoins, Queued
    <3>4. CASE ~(Heeds(owner) /\ owner.run = "none")
      BY <3>1, <3>2, <3>4 DEF FifoMove, Stays, Queued
    <3>5. QED BY <3>3, <3>4
  <2>3. QED BY <2>1, <2>2
<1>14. ASSUME OtherEnds
      PROVE  FifoMove
  <2>1. owner'.run = owner.run /\ calls' = calls /\ queue' = queue
    BY <1>14 DEF OtherEnds, OwnerRec
  <2>2. QED BY <2>1 DEF FifoMove, Stays
<1>15. ASSUME TimerFires
      PROVE  FifoMove
  <2> DEFINE p == owner
  <2>1. owner \in OwnerRec
    BY OwnerMoves
  <2>2. p.run = owner.run
    BY DEF OwnerRec
  <2>3. p \in OwnerRec
    BY <2>1
  <2>4. calls' = calls /\ owner' = Requested(p) /\ queue' = Queued(queue, p)
    BY <1>15 DEF TimerFires, RequestDrive
  <2> HIDE DEF p
  <2>5. owner'.run = IF Heeds(p) /\ p.run = "none" THEN "queued" ELSE p.run
    BY <2>3, <2>4, RunMoves
  <2>6. CASE Heeds(p) /\ p.run = "none"
    BY <2>2, <2>4, <2>5, <2>6 DEF FifoMove, OwnerJoins, Queued
  <2>7. CASE ~(Heeds(p) /\ p.run = "none")
    BY <2>2, <2>4, <2>5, <2>7 DEF FifoMove, Stays, Queued
  <2>8. QED BY <2>6, <2>7
<1>16. ASSUME IdleWaitEnds
      PROVE  FifoMove
  <2> DEFINE p == [owner EXCEPT !.idleWait = FALSE]
  <2>1. [owner EXCEPT !.idleWait = FALSE] \in OwnerRec
    BY OwnerMoves
  <2>2. p.run = owner.run
    BY DEF OwnerRec
  <2>3. p \in OwnerRec
    BY <2>1
  <2>4. calls' = calls /\ owner' = Requested(p) /\ queue' = Queued(queue, p)
    BY <1>16 DEF IdleWaitEnds, RequestDrive
  <2> HIDE DEF p
  <2>5. owner'.run = IF Heeds(p) /\ p.run = "none" THEN "queued" ELSE p.run
    BY <2>3, <2>4, RunMoves
  <2>6. CASE Heeds(p) /\ p.run = "none"
    BY <2>2, <2>4, <2>5, <2>6 DEF FifoMove, OwnerJoins, Queued
  <2>7. CASE ~(Heeds(p) /\ p.run = "none")
    BY <2>2, <2>4, <2>5, <2>7 DEF FifoMove, Stays, Queued
  <2>8. QED BY <2>6, <2>7
<1>17. ASSUME Tick
      PROVE  FifoMove
  <2>1. owner'.run = owner.run /\ calls' = calls /\ queue' = queue
    BY <1>17 DEF Tick, OwnerRec
  <2>2. QED BY <2>1 DEF FifoMove, Stays
<1>18. ASSUME NEW c \in Calls, Issue(c)
      PROVE  FifoMove
  <2>1. PICK op \in {"once", "every", "list", "delete"}, id \in Ids \cup {0} :
          calls' = [calls EXCEPT ![c] = [calls[c] EXCEPT !.pc = "queued", !.op = op, !.id = id]]
    BY <1>18 DEF Issue
  <2>2. calls'[c].pc = "queued" /\ Others(c)
    BY <2>1 DEF Others, CallRec
  <2>3. calls[c].pc = "none" /\ owner' = owner /\ queue' = Append(queue, c)
    BY <1>18 DEF Issue
  <2>4. QED BY <2>2, <2>3 DEF FifoMove, CallJoins
<1>19. ASSUME NEW c \in Calls, CallBegins(c)
      PROVE  FifoMove
  <2>1. AtHead(c) /\ c \in Open /\ owner' = owner
    BY <1>19 DEF CallBegins, Turn, AtHead, Open
  <2>2. CASE agent.aborted
    <3>1. calls'[c].pc = "done" /\ Others(c) /\ queue' = Tail(queue)
      BY <1>19, <2>2 DEF CallBegins, Others, Closed, NewCall, Leave
    <3>2. QED BY <2>1, <3>1 DEF FifoMove, CallLeaves
  <2>3. CASE ~agent.aborted
    <3>1. calls'[c].pc = "preflight" /\ Others(c) /\ queue' = queue
      BY <1>19, <2>3 DEF CallBegins, Others, CallRec
    <3>2. QED BY <2>1, <3>1 DEF FifoMove, CallStays
  <2>4. QED BY <2>2, <2>3
<1>20. ASSUME NEW c \in Calls, FlushFails(c)
      PROVE  FifoMove
  <2>1. AtHead(c) /\ c \in Open /\ owner' = owner
    BY <1>20 DEF FlushFails, HeadOnly, Open
  <2>2. calls'[c].pc = "done" /\ Others(c) /\ queue' = Tail(queue)
    BY <1>20 DEF FlushFails, Others, Closed, NewCall, Leave
  <2>3. QED BY <2>1, <2>2 DEF FifoMove, CallLeaves
<1>21. ASSUME NEW c \in Calls, Reads(c)
      PROVE  FifoMove
  <2>1. AtHead(c) /\ c \in Open
    BY <1>21 DEF Reads, Passes, HeadOnly, Open
  <2>2. calls'[c].pc = "done" /\ Others(c)
    BY <1>21 DEF Reads, Answered, Others, Closed, NewCall
  <2>3. owner' = Requested(owner) /\ queue' = Queued(Tail(queue), owner)
    BY <1>21 DEF Reads, Answered, Passes, Notified, Leave
  <2>4. owner'.run = IF Heeds(owner) /\ owner.run = "none" THEN "queued" ELSE owner.run
    BY <2>3, RunMoves
  <2>5. CASE Heeds(owner) /\ owner.run = "none"
    BY <2>1, <2>2, <2>3, <2>4, <2>5 DEF FifoMove, CallLeaves, Queued
  <2>6. CASE ~(Heeds(owner) /\ owner.run = "none")
    BY <2>1, <2>2, <2>3, <2>4, <2>6 DEF FifoMove, CallLeaves, Queued
  <2>7. QED BY <2>5, <2>6
<1>22. ASSUME NEW c \in Calls, Refuses(c)
      PROVE  FifoMove
  <2>1. AtHead(c) /\ c \in Open
    BY <1>22 DEF Refuses, Passes, HeadOnly, Open
  <2>2. calls'[c].pc = "done" /\ Others(c)
    BY <1>22 DEF Refuses, Answered, Others, Closed, NewCall
  <2>3. owner' = Requested(owner) /\ queue' = Queued(Tail(queue), owner)
    BY <1>22 DEF Refuses, Answered, Passes, Notified, Leave
  <2>4. owner'.run = IF Heeds(owner) /\ owner.run = "none" THEN "queued" ELSE owner.run
    BY <2>3, RunMoves
  <2>5. CASE Heeds(owner) /\ owner.run = "none"
    BY <2>1, <2>2, <2>3, <2>4, <2>5 DEF FifoMove, CallLeaves, Queued
  <2>6. CASE ~(Heeds(owner) /\ owner.run = "none")
    BY <2>1, <2>2, <2>3, <2>4, <2>6 DEF FifoMove, CallLeaves, Queued
  <2>7. QED BY <2>5, <2>6
<1>23. ASSUME NEW c \in Calls, Appends(c)
      PROVE  FifoMove
  <2>1. AtHead(c) /\ c \in Open
    BY <1>23 DEF Appends, Passes, HeadOnly, Open
  <2>2. calls'[c].pc = "barrier" /\ Others(c)
    BY <1>23 DEF Appends, Others, CallRec
  <2>3. owner' = Requested(owner) /\ queue' = Queued(queue, owner)
    BY <1>23 DEF Appends, Passes, Notified
  <2>4. owner'.run = IF Heeds(owner) /\ owner.run = "none" THEN "queued" ELSE owner.run
    BY <2>3, RunMoves
  <2>5. CASE Heeds(owner) /\ owner.run = "none"
    BY <2>1, <2>2, <2>3, <2>4, <2>5 DEF FifoMove, CallStays, Queued
  <2>6. CASE ~(Heeds(owner) /\ owner.run = "none")
    BY <2>1, <2>2, <2>3, <2>4, <2>6 DEF FifoMove, CallStays, Queued
  <2>7. QED BY <2>5, <2>6
<1>24. ASSUME NEW c \in Calls, AppendThrows(c)
      PROVE  FifoMove
  <2>1. AtHead(c) /\ c \in Open
    BY <1>24 DEF AppendThrows, Passes, HeadOnly, Open
  <2>2. calls'[c].pc = "done" /\ Others(c)
    BY <1>24 DEF AppendThrows, Answered, Others, Closed, NewCall
  <2>3. owner' = Requested(owner) /\ queue' = Queued(Tail(queue), owner)
    BY <1>24 DEF AppendThrows, Answered, Passes, Notified, Leave
  <2>4. owner'.run = IF Heeds(owner) /\ owner.run = "none" THEN "queued" ELSE owner.run
    BY <2>3, RunMoves
  <2>5. CASE Heeds(owner) /\ owner.run = "none"
    BY <2>1, <2>2, <2>3, <2>4, <2>5 DEF FifoMove, CallLeaves, Queued
  <2>6. CASE ~(Heeds(owner) /\ owner.run = "none")
    BY <2>1, <2>2, <2>3, <2>4, <2>6 DEF FifoMove, CallLeaves, Queued
  <2>7. QED BY <2>5, <2>6
<1>25. ASSUME NEW c \in Calls, Confirms(c)
      PROVE  FifoMove
  <2>1. AtHead(c) /\ c \in Open
    BY <1>25 DEF Confirms, Passes, HeadOnly, Open
  <2>2. calls'[c].pc = "done" /\ Others(c)
    BY <1>25 DEF Confirms, Answered, Others, Closed, NewCall
  <2>3. owner' = Requested(owner) /\ queue' = Queued(Tail(queue), owner)
    BY <1>25 DEF Confirms, Answered, Passes, Notified, Leave
  <2>4. owner'.run = IF Heeds(owner) /\ owner.run = "none" THEN "queued" ELSE owner.run
    BY <2>3, RunMoves
  <2>5. CASE Heeds(owner) /\ owner.run = "none"
    BY <2>1, <2>2, <2>3, <2>4, <2>5 DEF FifoMove, CallLeaves, Queued
  <2>6. CASE ~(Heeds(owner) /\ owner.run = "none")
    BY <2>1, <2>2, <2>3, <2>4, <2>6 DEF FifoMove, CallLeaves, Queued
  <2>7. QED BY <2>5, <2>6
<1>26. ASSUME Stop
      PROVE  FifoMove
  <2>1. owner'.run = owner.run /\ calls' = calls /\ queue' = queue
    BY <1>26 DEF Stop, OwnerRec
  <2>2. QED BY <2>1 DEF FifoMove, Stays
<1>27. ASSUME PersonSpeaks
      PROVE  FifoMove
  <2>1. owner'.run = owner.run /\ calls' = calls /\ queue' = queue
    BY <1>27 DEF PersonSpeaks, OwnerRec
  <2>2. QED BY <2>1 DEF FifoMove, Stays
<1>28. ASSUME OtherWork
      PROVE  FifoMove
  <2>1. owner'.run = owner.run /\ calls' = calls /\ queue' = queue
    BY <1>28 DEF OtherWork, OwnerRec
  <2>2. QED BY <2>1 DEF FifoMove, Stays
<1>29. ASSUME Cancel
      PROVE  FifoMove
  <2>1. owner'.run = owner.run /\ calls' = calls /\ queue' = queue
    BY <1>29 DEF Cancel, OwnerRec
  <2>2. QED BY <2>1 DEF FifoMove, Stays
<1>30. ASSUME ClockJumps
      PROVE  FifoMove
  <2>1. owner'.run = owner.run /\ calls' = calls /\ queue' = queue
    BY <1>30 DEF ClockJumps, OwnerRec
  <2>2. QED BY <2>1 DEF FifoMove, Stays
<1>31. ASSUME Crash
      PROVE  FifoMove
  <2>1. \A c \in Calls : calls'[c] = IF c \in Open THEN Closed ELSE calls[c]
    BY <1>31 DEF Crash
  <2>2. \A c \in Calls : calls'[c].pc \in {"none", "done"}
    BY <2>1 DEF Open, Closed, NewCall
  <2>3. owner'.run = "queued" /\ queue' = <<Owner>>
    BY <1>31 DEF Crash, Started
  <2>4. QED BY <2>2, <2>3 DEF FifoMove, Restarts
<1>32. CASE UNCHANGED vars
  BY <1>32 DEF vars, FifoMove, Stays
<1>33. QED
  BY <1>1, <1>2, <1>3, <1>4, <1>5, <1>6, <1>7, <1>8, <1>9, <1>10, <1>11, <1>12,
     <1>13, <1>14, <1>15, <1>16, <1>17, <1>18, <1>19, <1>20, <1>21, <1>22, <1>23,
     <1>24, <1>25, <1>26, <1>27, <1>28, <1>29, <1>30, <1>31, <1>32 DEF Next,
     OwnerStep, AgentStep, CallStep

(* The FIFO holds what is not settled, each once.                           *)
LEMMA FifoStep ==
  ASSUME Fifo, HeadOnly, FifoMove
  PROVE  Fifo'
<1> DEFINE Q == Calls \cup {Owner}
           M == Open \cup Waiting(owner)
<1>1. /\ queue \in Seq(Q) /\ IsInjective(queue) /\ ToSet(queue) = M
      /\ Owner \notin Calls /\ Open \subseteq Calls /\ Waiting(owner) \subseteq {Owner}
  BY ScheduleAssumption DEF Fifo, Calls, Open, Waiting
<1>2. SUFFICES queue' \in Seq(Q) /\ IsInjective(queue') /\ ToSet(queue') = M'
  BY DEF Fifo, Calls
<1>3. queue # <<>> => /\ Tail(queue) \in Seq(Q) /\ IsInjective(Tail(queue))
                      /\ Head(queue) \in M /\ ToSet(Tail(queue)) = M \ {Head(queue)}
  BY <1>1, TailForms
<1>4. \A x \in Q \ M : /\ Append(queue, x) \in Seq(Q) /\ IsInjective(Append(queue, x))
                       /\ ToSet(Append(queue, x)) = M \cup {x}
  BY <1>1, AppendForms
<1>5. CASE Stays
  <2>1. Open' = Open
    BY <1>5 DEF Stays, Open, Calls
  <2>2. Waiting(owner)' = Waiting(owner)
    BY <1>5 DEF Stays, Waiting, Runs
  <2>3. QED BY <1>1, <1>5, <2>1, <2>2 DEF Stays
<1>6. CASE OwnerLeaves
  <2>1. Open' = Open
    BY <1>6 DEF OwnerLeaves, Open, Calls
  <2>2. Waiting(owner)' = {} /\ Waiting(owner) = {Owner} /\ Head(queue) = Owner /\ queue # <<>>
    BY <1>6 DEF OwnerLeaves, Waiting, Runs, AtHead
  <2>3. QED BY <1>1, <1>3, <1>6, <2>1, <2>2 DEF OwnerLeaves
<1>7. CASE OwnerJoins
  <2>1. Open' = Open
    BY <1>7 DEF OwnerJoins, Open, Calls
  <2>2. Waiting(owner)' = {Owner} /\ Waiting(owner) = {}
    BY <1>7 DEF OwnerJoins, Waiting
  <2>3. Owner \in Q \ M
    BY <1>1, <2>2
  <2>4. QED BY <1>4, <1>7, <2>1, <2>2, <2>3 DEF OwnerJoins
<1>8. CASE Restarts
  <2>1. Open' = {}
    BY <1>8 DEF Restarts, Open, Calls
  <2>2. Waiting(owner)' = {Owner}
    BY <1>8 DEF Restarts, Waiting
  <2>3. <<Owner>> \in Seq(Q) /\ IsInjective(<<Owner>>) /\ ToSet(<<Owner>>) = {Owner}
    BY DEF IsInjective, ToSet
  <2>4. QED BY <1>8, <2>1, <2>2, <2>3 DEF Restarts
<1>9. ASSUME NEW c \in Calls, CallJoins(c)
      PROVE  queue' \in Seq(Q) /\ IsInjective(queue') /\ ToSet(queue') = M'
  <2>1. Open' = Open \cup {c} /\ c \notin Open
    BY <1>9 DEF CallJoins, Others, Open, Calls
  <2>2. Waiting(owner)' = Waiting(owner)
    BY <1>9 DEF CallJoins, Waiting
  <2>3. c \in Q \ M
    BY <1>1, <2>1
  <2>4. QED BY <1>4, <1>9, <2>1, <2>2, <2>3 DEF CallJoins
<1>10. ASSUME NEW c \in Calls, CallStays(c)
       PROVE  queue' \in Seq(Q) /\ IsInjective(queue') /\ ToSet(queue') = M'
  <2>1. Open' = Open
    BY <1>10 DEF CallStays, Others, Open, Calls
  <2>2. CASE owner'.run = owner.run /\ queue' = queue
    BY <2>1, <2>2, <1>1 DEF Waiting
  <2>3. CASE owner.run = "none" /\ owner'.run = "queued" /\ queue' = Append(queue, Owner)
    <3>1. Waiting(owner)' = {Owner} /\ Waiting(owner) = {}
      BY <2>3 DEF Waiting
    <3>2. Owner \in Q \ M
      BY <1>1, <3>1
    <3>3. QED BY <1>4, <2>1, <2>3, <3>1, <3>2
  <2>4. QED BY <1>10, <2>2, <2>3 DEF CallStays
<1>11. ASSUME NEW c \in Calls, CallLeaves(c)
       PROVE  queue' \in Seq(Q) /\ IsInjective(queue') /\ ToSet(queue') = M'
  <2>1. Open' = Open \ {c} /\ c \in Open
    BY <1>11 DEF CallLeaves, Others, Open, Calls
  <2>2. queue # <<>> /\ Head(queue) = c
    BY <1>11 DEF CallLeaves, AtHead
  <2>3. CASE owner'.run = owner.run /\ queue' = Tail(queue)
    <3>1. Waiting(owner)' = Waiting(owner) /\ M' = M \ {c}
      BY <2>1, <2>3, <1>1 DEF Waiting
    <3>2. QED BY <1>3, <2>2, <2>3, <3>1
  <2>4. CASE owner.run = "none" /\ owner'.run = "queued" /\ queue' = Append(Tail(queue), Owner)
    <3>1. Waiting(owner)' = {Owner} /\ Waiting(owner) = {}
      BY <2>4 DEF Waiting
    <3>2. ToSet(Tail(queue)) = M \ {c} /\ Owner \notin M /\ Tail(queue) \in Seq(Q)
          /\ IsInjective(Tail(queue)) /\ Owner \notin ToSet(Tail(queue)) /\ Owner \in Q
      BY <1>1, <1>3, <2>2, <3>1
    <3> DEFINE q == Tail(queue)
    <3> HIDE DEF q, Q
    <3>3. /\ Append(q, Owner) \in Seq(Q) /\ IsInjective(Append(q, Owner))
          /\ ToSet(Append(q, Owner)) = (M \ {c}) \cup {Owner}
      <4>1. q \in Seq(Q) /\ IsInjective(q) /\ Owner \in Q /\ Owner \notin ToSet(q)
            /\ ToSet(q) = M \ {c}
        BY <3>2 DEF q
      <4>2. QED BY <4>1, AppendForms
    <3>4. M' = (M \ {c}) \cup {Owner}
      BY <2>1, <3>1, <1>1
    <3>5. QED BY <2>4, <3>3, <3>4 DEF q
  <2>5. QED BY <1>11, <2>3, <2>4 DEF CallLeaves
<1>12. QED BY <1>5, <1>6, <1>7, <1>8, <1>9, <1>10, <1>11 DEF FifoMove

(* Only the head of the FIFO is under way.                                  *)
LEMMA HeadStep ==
  ASSUME Fifo, HeadOnly, FifoMove
  PROVE  HeadOnly'
<1>1. Owner \notin Calls /\ queue \in Seq(Calls \cup {Owner})
  BY ScheduleAssumption DEF Calls, Fifo
<1>2. \A x : queue # <<>> => Append(queue, x) # <<>> /\ Head(Append(queue, x)) = Head(queue)
  BY <1>1
<1>3. CASE Stays
  BY <1>1, <1>3 DEF Stays, HeadOnly, AtHead, Calls, Runs
<1>4. CASE OwnerLeaves
  BY <1>1, <1>4 DEF OwnerLeaves, HeadOnly, AtHead, Calls
<1>5. CASE OwnerJoins
  BY <1>1, <1>2, <1>5 DEF OwnerJoins, HeadOnly, AtHead, Calls
<1>6. CASE Restarts
  BY <1>6 DEF Restarts, HeadOnly, AtHead, Calls
<1>7. ASSUME NEW c \in Calls, CallJoins(c) PROVE HeadOnly'
  BY <1>1, <1>2, <1>7 DEF CallJoins, Others, HeadOnly, AtHead, Calls
<1>8. ASSUME NEW c \in Calls, CallStays(c) PROVE HeadOnly'
  BY <1>1, <1>2, <1>8 DEF CallStays, Others, HeadOnly, AtHead, Calls
<1>9. ASSUME NEW c \in Calls, CallLeaves(c) PROVE HeadOnly'
  BY <1>1, <1>9 DEF CallLeaves, Others, HeadOnly, AtHead, Calls
<1>10. QED BY <1>3, <1>4, <1>5, <1>6, <1>7, <1>8, <1>9 DEF FifoMove

-----------------------------------------------------------------------------
(* What the moves of the log keep.                                          *)

(* A batch that is handed out leaves a good fold, and each of its reminders *)
(* is gone or behind the occurrence that was shown.                         *)
LEMMA DispatchedGood ==
  ASSUME NEW fold, GoodFold(fold), NEW B, NEW t, Batch(fold, B, t),
         NEW k \in 0 .. Cardinality(B)
  PROVE  /\ GoodFold(Dispatched(fold, B, t, k))
         /\ \A id \in Ids :
              /\ fold[id].state # "new" => Dispatched(fold, B, t, k)[id].state # "new"
              /\ Dispatched(fold, B, t, k)[id].state = "active" =>
                   fold[id].state = "active" /\ fold[id].at <= Dispatched(fold, B, t, k)[id].at
         /\ \A j \in 1 .. k : LET r == InOrder(B)[j] IN
              Dispatched(fold, B, t, k)[r.id].state = "active" =>
                Occurrence(r, t) < Dispatched(fold, B, t, k)[r.id].at
<1> DEFINE s == InOrder(B)
           P == Dispatched(fold, B, t, k)
<1>1. Cardinality(B) \in Nat /\ s \in [1 .. Cardinality(B) -> B]
  BY BatchForms DEF Sorts
<1>2. t \in Instants /\ B \subseteq Actives(fold) /\ Instants \subseteq Nat
      /\ fold \in [Ids -> Known]
  BY ScheduleAssumption DEF Batch, Instants, GoodFold
<1>3. ASSUME NEW j \in 1 .. k
      PROVE  /\ s[j] \in B /\ s[j].id \in Ids /\ s[j].at <= t
             /\ fold[s[j].id].state = "active" /\ fold[s[j].id].kind = s[j].kind
             /\ fold[s[j].id].at = s[j].at
  <2>1. s[j] \in B /\ s[j] \in Actives(fold)
    BY <1>1, <1>2
  <2>2. QED BY <2>1, ActivesForms DEF Batch
<1> HIDE DEF s
<1> DEFINE a(id) == AfterDispatch(fold[id], Accepted(fold[id], t))
<1>4. ASSUME NEW j \in 1 .. k, NEW id \in Ids, id = s[j].id
      PROVE  /\ a(id) \in Known /\ a(id).state \in {"active", "gone"}
             /\ a(id).state = "active" => fold[id].at <= a(id).at /\ Occurrence(s[j], t) < a(id).at
  <2>1. fold[id] \in Known /\ fold[id].state = "active" /\ fold[id].at <= t
    BY <1>2, <1>3, <1>4
  <2>2. /\ a(id) \in Known /\ a(id).state \in {"active", "gone"}
        /\ a(id).state = "active" => /\ fold[id].kind = "every" /\ fold[id].at < a(id).at
                                     /\ Occurrence(fold[id], t) < a(id).at
    BY <2>1, <1>2, DispatchedForms DEF Accepted
  <2>3. Occurrence(s[j], t) = Occurrence(fold[id], t)
    BY <1>3, <1>4 DEF Occurrence
  <2>4. a(id).state = "active" => fold[id].at <= a(id).at
    <3>1. fold[id].at \in Nat /\ a(id).at \in Nat
      BY <2>1, <2>2, <1>2 DEF Known
    <3>2. QED BY <2>2, <3>1
  <2>5. QED BY <2>2, <2>3, <2>4
<1> HIDE DEF a
<1>5. ASSUME NEW id \in Ids
      PROVE  P[id] = IF \E j \in 1 .. k : s[j].id = id THEN a(id) ELSE fold[id]
  BY DEF Dispatched, a, s
<1>6. P \in [Ids -> Known]
  <2>1. P = [id \in Ids |-> P[id]]
    BY DEF Dispatched
  <2>2. \A id \in Ids : P[id] \in Known
    BY <1>2, <1>4, <1>5
  <2> HIDE DEF P
  <2>3. QED BY <2>1, <2>2
<1> HIDE DEF P
<1>7. ASSUME NEW id \in Ids
      PROVE  /\ fold[id].state = "new" <=> P[id].state = "new"
             /\ P[id].state = "active" => fold[id].state = "active" /\ fold[id].at <= P[id].at
  <2>1. CASE \E j \in 1 .. k : s[j].id = id
    <3>1. PICK j \in 1 .. k : s[j].id = id
      BY <2>1
    <3>2. P[id] = a(id)
      BY <1>5, <2>1
    <3>3. fold[id].state = "active"
      BY <1>3, <3>1
    <3>4. QED BY <1>4, <3>1, <3>2, <3>3
  <2>2. CASE ~ \E j \in 1 .. k : s[j].id = id
    <3>1. P[id] = fold[id] /\ fold[id].at \in Nat
      BY <1>2, <1>5, <2>2 DEF Known
    <3>2. QED BY <3>1
  <2>3. QED BY <2>1, <2>2
<1>8. \A i \in Ids : P[i].state # "new" => \A j \in 1 .. i : P[j].state # "new"
  <2>1. \A i \in Ids : \A j \in 1 .. i : j \in Ids
    BY ScheduleAssumption DEF Ids
  <2>2. QED BY <1>7, <2>1 DEF GoodFold
<1>9. ASSUME NEW j \in 1 .. k
      PROVE  P[s[j].id].state = "active" => Occurrence(s[j], t) < P[s[j].id].at
  BY <1>3, <1>4, <1>5
<1>10. QED BY <1>6, <1>7, <1>8, <1>9 DEF P, s, GoodFold

(* The log keeps replaying.                                                 *)
LEMMA GoodLogStep ==
  ASSUME log \in Seq(Events), GoodLog(log), UsedTyped, stored \in Nat, LogMove
  PROVE  GoodLog(log')
<1>1. CASE Same
  BY <1>1 DEF Same
<1>2. ASSUME NEW e \in Events, Adds(e) PROVE GoodLog(log')
  <2>1. log' = Append(log, e) /\ Legal(Fold(log), e) /\ Len(log) \in Nat
    BY <1>2 DEF Adds
  <2>2. /\ \A n \in 0 .. Len(log) : Replay(Append(log, e))[n] = Replay(log)[n]
        /\ Fold(Append(log, e)) = Change(Fold(log), e)
    BY ReplayAppend
  <2>3. GoodFold(Change(Fold(log), e))
    BY <2>1, FoldIsGood, GoodChange
  <2>4. Len(Append(log, e)) = Len(log) + 1
    OBVIOUS
  <2>5. ASSUME NEW n \in 0 .. Len(log) + 1 PROVE GoodFold(Replay(Append(log, e))[n])
    <3>1. CASE n \in 0 .. Len(log)
      BY <2>2, <3>1 DEF GoodLog
    <3>2. CASE n = Len(log) + 1
      BY <2>2, <2>3, <2>4, <3>2 DEF Fold
    <3>3. QED BY <3>1, <3>2
  <2>6. QED BY <2>1, <2>4, <2>5 DEF GoodLog
<1>3. ASSUME NEW t \in Instants, NEW k \in Nat, Hands(t, k) PROVE GoodLog(log')
  <2> DEFINE B == Decided(t)
  <2>1. /\ Batch(Fold(log), B, t) /\ k \in 1 .. Cardinality(B) + 1
        /\ log' = Handed(B, t, k) /\ used.crashes \in Nat
    BY <1>3 DEF Hands, UsedTyped
  <2> HIDE DEF B
  <2>2. /\ \A n \in 0 .. Len(log) : Replay(Handed(B, t, k))[n] = Replay(log)[n]
        /\ \A i \in 0 .. k - 1 :
             Replay(Handed(B, t, k))[Len(log) + 1 + i] = Dispatched(Fold(log), B, t, i)
    BY <2>1, HandedFold
  <2>3. Cardinality(B) \in Nat /\ Len(Handed(B, t, k)) = Len(log) + k /\ Len(log) \in Nat
    BY <2>1, HandedForms
  <2>4. ASSUME NEW i \in 0 .. k - 1 PROVE GoodFold(Dispatched(Fold(log), B, t, i))
    <3>1. i \in 0 .. Cardinality(B)
      BY <2>1, <2>3
    <3>2. QED BY <2>1, <3>1, FoldIsGood, DispatchedGood
  <2>5. ASSUME NEW n \in 0 .. Len(log) + k PROVE GoodFold(Replay(Handed(B, t, k))[n])
    <3>1. CASE n \in 0 .. Len(log)
      BY <2>2, <3>1 DEF GoodLog
    <3>2. CASE n \notin 0 .. Len(log)
      <4>1. n - Len(log) - 1 \in 0 .. k - 1 /\ n = Len(log) + 1 + (n - Len(log) - 1)
        BY <2>3, <3>2
      <4>2. QED BY <2>2, <2>4, <4>1
    <3>3. QED BY <2>1, <3>1, <3>2
  <2>6. QED BY <2>1, <2>3, <2>5 DEF GoodLog
<1>4. ASSUME NEW n \in Nat, Cuts(n) PROVE GoodLog(log')
  <2>1. n \in 0 .. Len(log) /\ log' = SubSeq(log, 1, n) /\ Len(SubSeq(log, 1, n)) = n
    BY <1>4 DEF Cuts
  <2>2. \A m \in 0 .. n : Replay(SubSeq(log, 1, n))[m] = Replay(log)[m]
    BY <2>1, ReplaySubSeq
  <2>3. QED BY <2>1, <2>2 DEF GoodLog
<1>5. QED BY <1>1, <1>2, <1>3, <1>4 DEF LogMove

(* One dispatch is backed; one pair of messages repeats nothing.            *)
Backed(events, n) ==
  events[n].type = "dispatch" =>
    \E m \in 1 .. n - 1 :
      /\ events[m].type = "message"
      /\ \E d \in events[m].due, r \in Actives(Fold(SubSeq(events, 1, n - 1))) :
           d.id = events[n].id /\ r.id = d.id
           /\ d.at = IF r.kind = "every" THEN Occurrence(r, events[n].accepted) ELSE r.at
      /\ \A k \in m + 1 .. n - 1 : events[k].type = "dispatch" /\ events[k].id # events[n].id
ShownAt(e, id) == {d.at : d \in {x \in e.due : x.id = id}}
Orderly(e, f) ==
  (e.type = "message" /\ f.type = "message" /\ e.life = f.life)
    => \A id \in Ids : \A a \in ShownAt(e, id), b \in ShownAt(f, id) : a < b
(* The two properties, one event or one pair at a time.                     *)
LEMMA LogProperties ==
  /\ DispatchIsBacked <=> \A n \in 1 .. Len(log) : Backed(log, n)
  /\ RepeatsOnlyAfterCrash <=> \A m, n \in 1 .. Len(log) : m < n => Orderly(log[m], log[n])
<1>1. DispatchIsBacked <=> \A n \in 1 .. Len(log) : Backed(log, n)
  BY DEF DispatchIsBacked, Backed
<1>2. RepeatsOnlyAfterCrash <=> \A m, n \in 1 .. Len(log) : m < n => Orderly(log[m], log[n])
  BY Zenon DEF RepeatsOnlyAfterCrash, Orderly, Shown, ShownAt
<1>3. QED BY <1>1, <1>2

(* Only what is before a dispatch backs it.                                 *)
LEMMA BackedPrefix ==
  ASSUME NEW a \in Seq(Events), NEW b \in Seq(Events), NEW n \in Nat,
         n >= 1, n <= Len(a), n <= Len(b), \A m \in 1 .. n : a[m] = b[m], Backed(a, n)
  PROVE  Backed(b, n)
<1>1. n - 1 \in 0 .. Len(a) /\ n - 1 \in 0 .. Len(b) /\ Len(a) \in Nat /\ Len(b) \in Nat
      /\ n \in 1 .. n /\ \A m \in 1 .. n - 1 : m \in 1 .. n
  OBVIOUS
<1>2. Fold(SubSeq(a, 1, n - 1)) = Replay(a)[n - 1] /\ Fold(SubSeq(b, 1, n - 1)) = Replay(b)[n - 1]
  BY <1>1, ReplaySubSeq
<1>3. Replay(a)[n - 1] = Replay(b)[n - 1]
  <2>1. \A m \in 1 .. n - 1 : b[m] = a[m]
    BY <1>1
  <2>2. n - 1 \in Nat /\ n - 1 <= Len(a) /\ n - 1 <= Len(b) /\ n - 1 \in 0 .. n - 1
    BY <1>1
  <2>3. QED BY <2>1, <2>2, <1>1, ReplayPrefix
<1>4. a[n] = b[n] /\ \A m \in 1 .. n - 1 : a[m] = b[m]
  BY <1>1
<1>5. SUFFICES ASSUME b[n].type = "dispatch"
               PROVE  \E m \in 1 .. n - 1 :
      /\ b[m].type = "message"
      /\ \E d \in b[m].due, r \in Actives(Fold(SubSeq(b, 1, n - 1))) :
           d.id = b[n].id /\ r.id = d.id
           /\ d.at = IF r.kind = "every" THEN Occurrence(r, b[n].accepted) ELSE r.at
      /\ \A k \in m + 1 .. n - 1 : b[k].type = "dispatch" /\ b[k].id # b[n].id
  BY DEF Backed
<1>6. PICK m \in 1 .. n - 1 :
      /\ a[m].type = "message"
      /\ \E d \in a[m].due, r \in Actives(Fold(SubSeq(a, 1, n - 1))) :
           d.id = a[n].id /\ r.id = d.id
           /\ d.at = IF r.kind = "every" THEN Occurrence(r, a[n].accepted) ELSE r.at
      /\ \A k \in m + 1 .. n - 1 : a[k].type = "dispatch" /\ a[k].id # a[n].id
  BY <1>4, <1>5 DEF Backed
<1>7. a[m] = b[m] /\ \A k \in m + 1 .. n - 1 : a[k] = b[k]
  BY <1>4, <1>6
<1>8. QED BY <1>2, <1>3, <1>4, <1>6, <1>7

(* Every dispatch stays backed.                                             *)
LEMMA BackedStep ==
  ASSUME log \in Seq(Events), GoodLog(log), UsedTyped, stored \in Nat, LogMove,
         DispatchIsBacked
  PROVE  DispatchIsBacked'
<1>1. \A n \in 1 .. Len(log) : Backed(log, n)
  BY LogProperties
<1>2. SUFFICES \A n \in 1 .. Len(log') : Backed(log', n)
  BY DEF DispatchIsBacked, Backed
<1>3. log' \in Seq(Events)
  BY LogTypes
<1>4. ASSUME NEW n \in 1 .. Len(log), n \in 1 .. Len(log'), \A m \in 1 .. n : log'[m] = log[m]
      PROVE  Backed(log', n)
  <2>1. n \in Nat /\ n >= 1 /\ n <= Len(log) /\ n <= Len(log')
    BY <1>3, <1>4
  <2>2. Backed(log, n) /\ \A m \in 1 .. n : log[m] = log'[m]
    BY <1>1, <1>4
  <2>3. QED BY <2>1, <2>2, <1>3, BackedPrefix
<1>5. CASE Same
  BY <1>1, <1>5 DEF Same
<1>6. ASSUME NEW e \in Events, Adds(e), NEW n \in 1 .. Len(log') PROVE Backed(log', n)
  <2>1. log' = Append(log, e) /\ e.type \in {"create", "delete"}
    BY <1>6 DEF Adds
  <2>2. CASE n \in 1 .. Len(log)
    BY <2>1, <2>2, <1>4
  <2>3. CASE n \notin 1 .. Len(log)
    <3>1. log'[n] = e
      BY <2>1, <2>3
    <3>2. QED BY <3>1, <2>1 DEF Backed
  <2>4. QED BY <2>2, <2>3
<1>7. ASSUME NEW t \in Instants, NEW k \in Nat, Hands(t, k), NEW n \in 1 .. Len(log')
      PROVE  Backed(log', n)
  <2> DEFINE B == Decided(t)
             L == Handed(B, t, k)
             s == InOrder(B)
             F == Fold(log)
  <2>1. /\ Batch(F, B, t) /\ k \in 1 .. Cardinality(B) + 1
        /\ log' = L /\ used.crashes \in Nat
    BY <1>7 DEF Hands, UsedTyped
  <2> HIDE DEF B
  <2>2. /\ Cardinality(B) \in Nat /\ Len(log) \in Nat
        /\ L \in Seq(Events) /\ Len(L) = Len(log) + k
        /\ \A m \in 1 .. Len(log) : L[m] = log[m]
        /\ L[Len(log) + 1] = Message(Due(B, t))
        /\ \A i \in 1 .. k - 1 : L[Len(log) + 1 + i] = Dispatch(s[i], t)
    <3>1. Len(log) \in Nat
      OBVIOUS
    <3>2. Batch(Fold(log), B, t) /\ k \in 1 .. Cardinality(B) + 1 /\ used.crashes \in Nat
      BY <2>1
    <3> HIDE DEF F
    <3>3. QED BY <3>1, <3>2, HandedForms
  <2>3. \A i \in 0 .. k - 1 : Replay(L)[Len(log) + 1 + i] = Dispatched(F, B, t, i)
    BY <2>1, HandedFold
  <2>4. GoodFold(F) /\ s \in [1 .. Cardinality(B) -> B]
        /\ \A i, j \in 1 .. Cardinality(B) : i # j => s[i].id # s[j].id
    BY <2>1, FoldIsGood, BatchForms DEF Sorts
  <2> HIDE DEF L, s, F
  <2>5. CASE n \in 1 .. Len(log)
    BY <2>1, <2>2, <2>5, <1>4
  <2>6. CASE n = Len(log) + 1
    BY <2>1, <2>2, <2>6 DEF Backed, Message
  <2>7. ASSUME NEW i \in 1 .. k - 1, n = Len(log) + 1 + i
        PROVE  Backed(L, n)
    <3> DEFINE r == s[i]
               q == Len(log) + 1
    <3>1. i \in 1 .. Cardinality(B) /\ i \in Nat /\ k \in Nat /\ k - 1 <= Cardinality(B)
      BY <2>1, <2>2
    <3>2. r \in B /\ r \in Actives(F)
      BY <3>1, <2>1, <2>4 DEF Batch
    <3>3. L[n] = Dispatch(r, t)
      BY <2>2, <2>7
    <3>4. q \in 1 .. n - 1 /\ L[q].type = "message" /\ L[q].due = Due(B, t)
      BY <2>2, <2>7, <3>1 DEF Message
    <3>5. Fold(SubSeq(L, 1, n - 1)) = Dispatched(F, B, t, i - 1)
      <4>1. n - 1 \in 0 .. Len(L) /\ n - 1 = Len(log) + 1 + (i - 1) /\ i - 1 \in 0 .. k - 1
        <5>1. Len(log) \in Nat /\ Len(L) = Len(log) + k
          BY <2>2
        <5>2. QED BY <5>1, <2>7, <3>1
      <4>2. Fold(SubSeq(L, 1, n - 1)) = Replay(L)[n - 1]
        BY <2>2, <4>1, ReplaySubSeq
      <4>3. QED BY <2>3, <4>1, <4>2
    <3>6. r.id \in Ids /\ F[r.id].state = "active" /\ r = [id |-> r.id, kind |-> F[r.id].kind,
                                                          at |-> F[r.id].at]
      BY <3>2 DEF Actives
    <3>7. Dispatched(F, B, t, i - 1)[r.id] = F[r.id]
      <4>1. \A j \in 1 .. i - 1 : j \in 1 .. Cardinality(B) /\ j # i
        BY <3>1, <2>2
      <4>2. \A j \in 1 .. i - 1 : s[j].id # r.id
        BY <4>1, <3>1, <2>4
      <4>3. QED BY <4>2, <3>6 DEF Dispatched, s
    <3>8. r \in Actives(Dispatched(F, B, t, i - 1))
      BY <3>6, <3>7 DEF Actives
    <3> DEFINE d == [id |-> r.id, at |-> Occurrence(r, t)]
    <3>9. d \in L[q].due
      BY <3>2, <3>4 DEF Due
    <3>10. /\ L[n].id = r.id /\ d.id = r.id
           /\ r.kind = "every" => L[n].accepted = t
           /\ d.at = IF r.kind = "every" THEN Occurrence(r, L[n].accepted) ELSE r.at
      BY <3>3 DEF Dispatch, Occurrence
    <3>11. ASSUME NEW m \in q + 1 .. n - 1
           PROVE  L[m].type = "dispatch" /\ L[m].id # L[n].id
      <4>1. m - q \in 1 .. k - 1 /\ m = Len(log) + 1 + (m - q) /\ m - q \in 1 .. Cardinality(B)
            /\ m - q # i
        BY <2>2, <2>7, <3>1
      <4>2. L[m] = Dispatch(s[m - q], t) /\ s[m - q].id # r.id
        BY <2>2, <2>4, <3>1, <4>1
      <4>3. QED BY <3>10, <4>2 DEF Dispatch
    <3> HIDE DEF d, r, q
    <3>12. /\ L[q].type = "message"
           /\ \E d1 \in L[q].due, r1 \in Actives(Fold(SubSeq(L, 1, n - 1))) :
                d1.id = L[n].id /\ r1.id = d1.id
                /\ d1.at = IF r1.kind = "every" THEN Occurrence(r1, L[n].accepted) ELSE r1.at
           /\ \A m \in q + 1 .. n - 1 : L[m].type = "dispatch" /\ L[m].id # L[n].id
      BY <3>4, <3>5, <3>8, <3>9, <3>10, <3>11
    <3>13. QED BY <3>4, <3>12 DEF Backed
  <2>8. CASE n \notin 1 .. Len(log) + 1
    <3>1. n - Len(log) - 1 \in 1 .. k - 1 /\ n = Len(log) + 1 + (n - Len(log) - 1)
      BY <2>1, <2>2, <2>8
    <3>2. QED BY <2>1, <2>7, <3>1
  <2>9. QED BY <2>2, <2>5, <2>6, <2>8
<1>8. ASSUME NEW m \in Nat, Cuts(m), NEW n \in 1 .. Len(log') PROVE Backed(log', n)
  <2>1. m \in 0 .. Len(log) /\ log' = SubSeq(log, 1, m)
    BY <1>8 DEF Cuts
  <2>2. n \in 1 .. Len(log) /\ \A j \in 1 .. n : log'[j] = log[j]
    BY <2>1
  <2>3. QED BY <2>2, <1>4
<1>9. QED BY <1>5, <1>6, <1>7, <1>8 DEF LogMove

(* What is shown is behind the reminder it is of, and so never again.       *)
LEMMA ShownStep ==
  ASSUME log \in Seq(Events), GoodLog(log), UsedTyped, stored \in Nat, LogMove, OwnSide,
         ShownBehind
  PROVE  ShownBehind'
<1> DEFINE F == Fold(log)
<1>1. GoodFold(F) /\ used.crashes \in Nat
  BY FoldIsGood DEF UsedTyped
<1>2. log' \in Seq(Events) /\ Len(log) \in Nat
  BY LogTypes
<1>3. ASSUME NEW n \in 1 .. Len(log), log[n].type = "message", log[n].life = used.crashes,
             NEW d \in log[n].due
      PROVE  /\ d.id \in Ids /\ d.at \in Nat /\ F[d.id].state # "new"
             /\ F[d.id].state = "active" => owner.faulted \/ d.at < F[d.id].at
  <2>1. log[n] \in Events
    OBVIOUS
  <2>2. d \in [id : Ids, at : Instants]
    BY <1>3, <2>1 DEF Events
  <2>3. d.id \in Ids /\ d.at \in Nat
    BY <2>2, ScheduleAssumption DEF Instants
  <2>4. QED BY <1>3, <2>3 DEF ShownBehind, Behind
<1>4. \A n \in 1 .. Len(log) : log[n].type = "message" => log[n].life <= used.crashes
  BY DEF ShownBehind, Behind
<1>5. CASE Same
  BY <1>5 DEF Same, ShownBehind, Behind
<1>6. ASSUME NEW e \in Events, Adds(e) PROVE ShownBehind'
  <2>1. /\ log' = Append(log, e) /\ e.type \in {"create", "delete"} /\ Legal(F, e)
        /\ used'.crashes = used.crashes /\ (owner.faulted => owner'.faulted)
    BY <1>6 DEF Adds
  <2>2. Fold(log') = Change(F, e)
    BY <2>1, ReplayAppend
  <2> HIDE DEF F
  <2>3. ASSUME NEW id \in Ids, F[id].state # "new"
        PROVE  /\ Fold(log')[id].state # "new"
               /\ Fold(log')[id].state = "active" => Fold(log')[id] = F[id]
    <3>1. CASE e.type = "create"
      <4>1. e.id # id
        BY <2>1, <2>3, <3>1 DEF Legal
      <4>2. Fold(log')[id] = F[id]
        BY <1>1, <2>2, <3>1, <4>1 DEF Change, GoodFold
      <4>3. QED BY <2>3, <4>2
    <3>2. CASE e.type = "delete"
      <4>1. e.id \in Ids /\ F[e.id].state = "active"
        BY <2>1, <3>2 DEF Legal
      <4>2. Fold(log')[id] = IF id = e.id THEN Gone ELSE F[id]
        BY <1>1, <2>2, <3>2, <4>1 DEF Change, GoodFold, After
      <4>3. QED BY <2>3, <4>2 DEF Gone, New
    <3>3. QED BY <2>1, <3>1, <3>2
  <2>4. ASSUME NEW n \in 1 .. Len(log') PROVE Behind(n)'
    <3>1. CASE n \in 1 .. Len(log)
      <4>1. log'[n] = log[n]
        BY <2>1, <3>1
      <4>2. QED BY <1>3, <1>4, <2>1, <2>3, <3>1, <4>1 DEF Behind
    <3>2. CASE n \notin 1 .. Len(log)
      <4>1. log'[n] = e
        BY <2>1, <3>2
      <4>2. QED BY <2>1, <4>1 DEF Behind
    <3>3. QED BY <3>1, <3>2
  <2>5. QED BY <2>4 DEF ShownBehind
<1>7. ASSUME NEW t \in Instants, NEW k \in Nat, Hands(t, k) PROVE ShownBehind'
  <2> DEFINE B == Decided(t)
             s == InOrder(B)
             c == Cardinality(B)
             P == Dispatched(F, B, t, k - 1)
  <2>1. /\ Batch(F, B, t) /\ k \in 1 .. c + 1
        /\ log' = Handed(B, t, k) /\ used'.crashes = used.crashes
        /\ owner'.faulted \/ k = c + 1
        /\ owner.run = "preflight"
    BY <1>7 DEF Hands
  <2>2. ~owner.faulted
    BY <2>1 DEF OwnSide
  <2> HIDE DEF B
  <2>3. /\ c \in Nat /\ Len(log') = Len(log) + k
        /\ \A n \in 1 .. Len(log) : log'[n] = log[n]
        /\ log'[Len(log) + 1] = Message(Due(B, t))
        /\ \A i \in 1 .. k - 1 : log'[Len(log) + 1 + i] = Dispatch(s[i], t)
    <3>1. Batch(Fold(log), B, t) /\ k \in 1 .. Cardinality(B) + 1 /\ used.crashes \in Nat
      BY <1>1, <2>1
    <3>2. /\ Cardinality(B) \in Nat /\ Len(Handed(B, t, k)) = Len(log) + k
          /\ \A n \in 1 .. Len(log) : Handed(B, t, k)[n] = log[n]
          /\ Handed(B, t, k)[Len(log) + 1] = Message(Due(B, t))
          /\ \A i \in 1 .. k - 1 :
               Handed(B, t, k)[Len(log) + 1 + i] = Dispatch(InOrder(B)[i], t)
      <4> HIDE DEF F, s, c, P
      <4>1. QED BY <3>1, HandedForms
    <3>3. QED BY <2>1, <3>1, <3>2
  <2>4. Fold(log') = P
    <3>1. k - 1 \in 0 .. k - 1 /\ Len(log) + 1 + (k - 1) = Len(log')
      BY <1>2, <2>1, <2>3
    <3>2. Replay(Handed(B, t, k))[Len(log) + 1 + (k - 1)] = P
      BY <1>1, <2>1, <3>1, HandedFold
    <3>3. QED BY <2>1, <3>1, <3>2 DEF Fold
  <2>5. k - 1 \in 0 .. c
    BY <2>1, <2>3
  <2>6. /\ \A id \in Ids : /\ F[id].state # "new" => P[id].state # "new"
                           /\ P[id].state = "active" => F[id].state = "active" /\ F[id].at <= P[id].at
        /\ \A j \in 1 .. k - 1 : P[s[j].id].state = "active" => Occurrence(s[j], t) < P[s[j].id].at
        /\ GoodFold(P)
    BY <1>1, <2>1, <2>5, DispatchedGood
  <2>7. \A r \in B : \E i \in 1 .. c : s[i] = r
    BY <1>1, <2>1, BatchForms DEF Sorts
  <2>8. \A r \in B : r.id \in Ids /\ F[r.id].state = "active"
    BY <1>1, <2>1, ActivesForms DEF Batch
  <2>9. \A id \in Ids : F[id].at \in Nat /\ P[id].at \in Nat
    BY <1>1, <2>6, ScheduleAssumption DEF GoodFold, Known, Instants
  <2> HIDE DEF s, c, P, F
  <2>10. ASSUME NEW n \in 1 .. Len(log') PROVE Behind(n)'
    <3>1. CASE n \in 1 .. Len(log)
      <4>1. log'[n] = log[n]
        BY <2>3, <3>1
      <4>2. ASSUME log[n].type = "message", log[n].life = used.crashes, NEW d \in log[n].due
            PROVE  P[d.id].state # "new" /\ (P[d.id].state = "active" => d.at < P[d.id].at)
        BY <1>3, <2>2, <2>6, <2>9, <3>1, <4>2
      <4>3. QED BY <1>4, <2>1, <2>4, <3>1, <4>1, <4>2 DEF Behind
    <3>2. CASE n = Len(log) + 1
      <4>1. log'[n].type = "message" /\ log'[n].life = used.crashes /\ log'[n].due = Due(B, t)
        BY <2>3, <3>2 DEF Message
      <4>2. ASSUME NEW d \in Due(B, t)
            PROVE  P[d.id].state # "new" /\ (P[d.id].state = "active" => owner'.faulted \/ d.at < P[d.id].at)
        <5>1. PICK r \in B : d = [id |-> r.id, at |-> Occurrence(r, t)]
          BY DEF Due
        <5>2. PICK i \in 1 .. c : s[i] = r
          BY <2>7
        <5>3. P[r.id].state # "new"
          BY <2>6, <2>8
        <5>4. owner'.faulted \/ i \in 1 .. k - 1
          BY <2>1, <2>3
        <5>5. QED BY <2>6, <5>1, <5>2, <5>3, <5>4
      <4>3. QED BY <1>1, <2>1, <2>4, <4>1, <4>2 DEF Behind
    <3>3. CASE n \notin 1 .. Len(log) + 1
      <4>1. n - Len(log) - 1 \in 1 .. k - 1 /\ n = Len(log) + 1 + (n - Len(log) - 1)
        BY <1>2, <2>1, <2>3, <3>3
      <4>2. log'[n] = Dispatch(s[n - Len(log) - 1], t)
        BY <2>3, <4>1
      <4>3. QED BY <4>2 DEF Behind, Dispatch
    <3>4. QED BY <3>1, <3>2, <3>3, <1>2
  <2>11. QED BY <2>10 DEF ShownBehind
<1>8. ASSUME NEW m \in Nat, Cuts(m) PROVE ShownBehind'
  <2>1. m \in 0 .. Len(log) /\ log' = SubSeq(log, 1, m) /\ used'.crashes = used.crashes + 1
    BY <1>8 DEF Cuts
  <2>2. ASSUME NEW n \in 1 .. Len(log') PROVE Behind(n)'
    <3>1. n \in 1 .. Len(log) /\ log'[n] = log[n]
      BY <2>1
    <3>2. log[n].type = "message" => log[n].life \in Nat /\ log[n].life <= used.crashes
      <4>1. log[n] \in Events
        BY <3>1
      <4>2. QED BY <4>1, <3>1, <1>4 DEF Events
    <3>3. QED BY <1>1, <2>1, <3>1, <3>2 DEF Behind
  <2>3. QED BY <2>2 DEF ShownBehind
<1>9. QED BY <1>5, <1>6, <1>7, <1>8 DEF LogMove

(* No message repeats an occurrence of its life.                            *)
LEMMA RepeatsStep ==
  ASSUME log \in Seq(Events), GoodLog(log), UsedTyped, stored \in Nat, LogMove, OwnSide,
         ShownBehind, RepeatsOnlyAfterCrash
  PROVE  RepeatsOnlyAfterCrash'
<1>1. \A m, n \in 1 .. Len(log) : m < n => Orderly(log[m], log[n])
  BY LogProperties
<1>2. SUFFICES \A m, n \in 1 .. Len(log') : m < n => Orderly(log'[m], log'[n])
  BY Zenon DEF RepeatsOnlyAfterCrash, Orderly, Shown, ShownAt
<1>3. log' \in Seq(Events) /\ Len(log) \in Nat
  BY LogTypes
<1>4. CASE Same
  BY <1>1, <1>4 DEF Same
<1>5. ASSUME NEW e \in Events, Adds(e), NEW m \in 1 .. Len(log'), NEW n \in 1 .. Len(log'), m < n
      PROVE  Orderly(log'[m], log'[n])
  <2>1. log' = Append(log, e) /\ e.type \in {"create", "delete"}
    BY <1>5 DEF Adds
  <2>2. CASE n \in 1 .. Len(log)
    <3>1. m \in 1 .. Len(log) /\ log'[m] = log[m] /\ log'[n] = log[n]
      BY <2>1, <2>2, <1>3, <1>5
    <3>2. QED BY <1>1, <1>5, <2>2, <3>1
  <2>3. CASE n \notin 1 .. Len(log)
    <3>1. log'[n] = e
      BY <2>1, <2>3
    <3>2. QED BY <3>1, <2>1 DEF Orderly
  <2>4. QED BY <2>2, <2>3
<1>6. ASSUME NEW t \in Instants, NEW k \in Nat, Hands(t, k),
             NEW m \in 1 .. Len(log'), NEW n \in 1 .. Len(log'), m < n
      PROVE  Orderly(log'[m], log'[n])
  <2> DEFINE B == Decided(t)
             s == InOrder(B)
             F == Fold(log)
  <2>1. /\ Batch(F, B, t) /\ k \in 1 .. Cardinality(B) + 1
        /\ log' = Handed(B, t, k) /\ owner.run = "preflight" /\ used.crashes \in Nat
    BY <1>6 DEF Hands, UsedTyped
  <2>2. ~owner.faulted
    BY <2>1 DEF OwnSide
  <2> HIDE DEF B
  <2>3. /\ Cardinality(B) \in Nat /\ Len(log') = Len(log) + k
        /\ \A j \in 1 .. Len(log) : log'[j] = log[j]
        /\ log'[Len(log) + 1] = Message(Due(B, t))
        /\ \A i \in 1 .. k - 1 : log'[Len(log) + 1 + i] = Dispatch(s[i], t)
    BY <2>1, HandedForms
  <2>4. GoodFold(F)
    BY FoldIsGood
  <2> HIDE DEF s, F
  <2>5. CASE n \in 1 .. Len(log)
    <3>1. m \in 1 .. Len(log) /\ log'[m] = log[m] /\ log'[n] = log[n]
      BY <2>3, <2>5, <1>3, <1>6
    <3>2. QED BY <1>1, <1>6, <2>5, <3>1
  <2>6. CASE n = Len(log) + 1
    <3>1. m \in 1 .. Len(log) /\ log'[m] = log[m]
      BY <2>3, <2>6, <1>3, <1>6
    <3>2. log'[n].life = used.crashes /\ log'[n].due = Due(B, t)
      BY <2>3, <2>6 DEF Message
    <3>3. ASSUME log[m].type = "message", log[m].life = used.crashes, NEW id \in Ids,
                 NEW d \in log[m].due, d.id = id, NEW b \in Due(B, t), b.id = id
          PROVE  d.at < b.at
      <4>1. PICK r \in B : b = [id |-> r.id, at |-> Occurrence(r, t)]
        BY DEF Due
      <4>2. /\ r.id = id /\ F[id].state = "active" /\ F[id].at = r.at /\ r.at \in Instants
            /\ r.at <= t /\ t \in Instants
        BY <2>1, <2>4, <3>3, <4>1, ActivesForms DEF Batch
      <4>3. d.at < r.at
        BY <2>2, <3>1, <3>3, <4>2 DEF ShownBehind, Behind, F
      <4>4. r.at <= Occurrence(r, t) /\ Occurrence(r, t) \in Nat /\ r.at \in Nat
        <5>1. r.at \in Nat /\ t \in Nat
          BY <4>2, ScheduleAssumption DEF Instants
        <5>2. /\ r.at + ((t - r.at) \div Interval) * Interval \in Nat
              /\ r.at <= r.at + ((t - r.at) \div Interval) * Interval
          BY <4>2, <5>1, OccurrenceBounds
        <5>3. QED BY <5>1, <5>2 DEF Occurrence
      <4>5. d.at \in Nat
        <5>1. log[m] \in Events
          BY <3>1
        <5>2. d \in [id : Ids, at : Instants]
          BY <3>3, <5>1 DEF Events
        <5>3. QED BY <5>2, ScheduleAssumption DEF Instants
      <4>6. QED BY <4>1, <4>3, <4>4, <4>5
    <3>4. QED BY <3>1, <3>2, <3>3 DEF Orderly, ShownAt
  <2>7. CASE n \notin 1 .. Len(log) + 1
    <3>1. n - Len(log) - 1 \in 1 .. k - 1 /\ n = Len(log) + 1 + (n - Len(log) - 1)
      BY <1>3, <2>1, <2>3, <2>7
    <3>2. log'[n] = Dispatch(s[n - Len(log) - 1], t)
      BY <2>3, <3>1
    <3>3. QED BY <3>2 DEF Orderly, Dispatch
  <2>8. QED BY <2>5, <2>6, <2>7, <1>3
<1>7. ASSUME NEW j \in Nat, Cuts(j), NEW m \in 1 .. Len(log'), NEW n \in 1 .. Len(log'), m < n
      PROVE  Orderly(log'[m], log'[n])
  <2>1. j \in 0 .. Len(log) /\ log' = SubSeq(log, 1, j)
    BY <1>7 DEF Cuts
  <2>2. m \in 1 .. Len(log) /\ n \in 1 .. Len(log) /\ log'[m] = log[m] /\ log'[n] = log[n]
    BY <2>1
  <2>3. QED BY <1>1, <1>7, <2>2
<1>8. QED BY <1>4, <1>5, <1>6, <1>7 DEF LogMove

(* Nothing is handed out before it is due, and nothing after the stop.      *)
LEMMA HandedInTime ==
  ASSUME log \in Seq(Events), GoodLog(log), UsedTyped, stored \in Nat, LogMove,
         NEW n \in Len(log) + 1 .. Len(log')
  PROVE  /\ log'[n].type = "dispatch" => \E r \in Active : r.id = log'[n].id /\ r.at <= clock'
         /\ owner.stopping => log'[n].type \notin {"message", "dispatch"}
<1>1. log' \in Seq(Events) /\ Len(log) \in Nat
  BY LogTypes
<1>2. CASE Same
  BY <1>1, <1>2 DEF Same
<1>3. ASSUME NEW e \in Events, Adds(e)
      PROVE  log'[n].type \in {"create", "delete"}
  <2>1. log' = Append(log, e) /\ e.type \in {"create", "delete"}
    BY <1>3 DEF Adds
  <2>2. QED BY <2>1
<1>4. ASSUME NEW t \in Instants, NEW k \in Nat, Hands(t, k)
      PROVE  /\ log'[n].type = "dispatch" => \E r \in Active : r.id = log'[n].id /\ r.at <= clock'
             /\ ~owner.stopping
  <2> DEFINE B == Decided(t)
             s == InOrder(B)
  <2>1. /\ Batch(Fold(log), B, t) /\ k \in 1 .. Cardinality(B) + 1 /\ clock' = t
        /\ log' = Handed(B, t, k) /\ used.crashes \in Nat /\ ~owner.stopping
    BY <1>4 DEF Hands, UsedTyped, Runnable
  <2> HIDE DEF B
  <2>2. /\ Cardinality(B) \in Nat /\ Len(log') = Len(log) + k
        /\ log'[Len(log) + 1] = Message(Due(B, t))
        /\ \A i \in 1 .. k - 1 : log'[Len(log) + 1 + i] = Dispatch(s[i], t)
    BY <2>1, HandedForms
  <2>3. s \in [1 .. Cardinality(B) -> B]
    BY <2>1, FoldIsGood, BatchForms DEF Sorts
  <2> HIDE DEF s
  <2>4. CASE n = Len(log) + 1
    BY <2>1, <2>2, <2>4 DEF Message
  <2>5. CASE n # Len(log) + 1
    <3> DEFINE i == n - Len(log) - 1
    <3>1. i \in 1 .. k - 1 /\ n = Len(log) + 1 + i /\ i \in 1 .. Cardinality(B)
      BY <1>1, <2>1, <2>2, <2>5
    <3> HIDE DEF i
    <3>2. log'[n] = Dispatch(s[i], t) /\ s[i] \in B
      BY <2>2, <2>3, <3>1
    <3>3. s[i] \in Active /\ s[i].at <= t
      BY <2>1, <3>2 DEF Batch, Active
    <3>4. QED BY <2>1, <3>2, <3>3 DEF Dispatch
  <2>6. QED BY <2>4, <2>5
<1>5. ASSUME NEW m \in Nat, Cuts(m) PROVE FALSE
  <2>1. m \in 0 .. Len(log) /\ log' = SubSeq(log, 1, m)
    BY <1>5 DEF Cuts
  <2>2. QED BY <1>1, <2>1
<1>6. QED BY <1>2, <1>3, <1>4, <1>5 DEF LogMove
-----------------------------------------------------------------------------
(* The wakes of the reminders.                                              *)

(* What concerns neither log, owner nor clock leaves the wakes.             *)
LEMMA AwakeKept ==
  ASSUME Awake, log' = log, owner' = owner, clock' = clock, used'.jumps = used.jumps
  PROVE  Awake'
<1>1. Active' = Active
  BY DEF Active
<1>2. QED BY <1>1 DEF Awake, Armed, Awaited, Heeds

(* A trigger is a wake.                                                     *)
LEMMA RequestedWakes ==
  ASSUME NEW p \in OwnerRec, owner' = Requested(p)
  PROVE  Awake'
<1>1. CASE Heeds(p)
  <2>1. Requested(p).requested \/ Requested(p).run = "queued"
    BY <1>1 DEF Requested, OwnerRec
  <2>2. QED BY <2>1 DEF Awake, Awaited
<1>2. CASE ~Heeds(p)
  BY <1>2 DEF Requested, Awake, Heeds
<1>3. QED BY <1>1, <1>2

(* A fresh segment reaches every reminder that is not due.                  *)
LEMMA SegmentWakes ==
  ASSUME log \in Seq(Events), GoodLog(log), NEW t \in Instants, Chosen(Active, t) = {},
         log' = log, clock' = t, owner'.timer = Delay(Active, t)
  PROVE  Awake'
<1>1. Active' = Active
  BY DEF Active
<1>2. ASSUME NEW r \in Active PROVE r.at > t
  <2>1. r.kind \in {"once", "every"} /\ r.at \in Nat /\ t \in Nat
    BY FoldIsGood, ActivesForms, ScheduleAssumption DEF Active, Instants
  <2>2. OneShots(Active, t) = {}
    <3> DEFINE B == OneShots(Active, t)
    <3>1. SUFFICES ASSUME B # {} PROVE FALSE
      OBVIOUS
    <3>2. Distinct(B)
      BY FoldIsGood, ActivesForms DEF Active, OneShots, Distinct
    <3>3. PICK q \in B : \A p \in B \ {q} : Before(q, p)
      BY <3>1, <3>2, FirstExists
    <3>4. q \in Chosen(Active, t)
      BY <3>1, <3>3 DEF Chosen
    <3>5. QED BY <3>4
  <2>3. ~(r.at <= t)
    BY <2>1, <2>2 DEF Chosen, OneShots
  <2>4. QED BY <2>1, <2>3
<1>3. \A r \in Active : Delay(Active, t) # NoTimer /\ t + Delay(Active, t) <= r.at
  BY <1>2, ActiveDelay
<1>4. QED BY <1>1, <1>3 DEF Awake, Armed

(* Every active reminder keeps its wake.                                    *)
LEMMA AwakeStep ==
  ASSUME log \in Seq(Events), GoodLog(log), owner \in OwnerRec, clock \in Instants,
         UsedTyped, OwnSide, Awake, [Next]_vars
  PROVE  Awake'
<1>1. ASSUME DriveBegins
      PROVE  Awake'
  <2>1. CASE owner.stopping
    <3>1. owner' = Ended([owner EXCEPT !.timer = NoTimer])
      BY <1>1, <2>1 DEF DriveBegins
    <3>2. owner'.stopping
      BY <2>1, <3>1 DEF Ended, OwnerRec
    <3>3. QED BY <3>2 DEF Awake, Heeds
  <2>2. CASE ~owner.stopping
    <3>1. owner'.run = "preflight"
      BY <1>1, <2>2 DEF DriveBegins, OwnerRec
    <3>2. QED BY <3>1 DEF Awake, Awaited
  <2>3. QED BY <2>1, <2>2
<1>2. ASSUME DriveFails
      PROVE  Awake'
  <2>1. Ended(owner) \in OwnerRec
    BY OwnerMoves
  <2>2. owner' = [Ended(owner) EXCEPT !.lapsed = TRUE]
    BY <1>2 DEF DriveFails
  <2>3. owner'.lapsed
    BY <2>1, <2>2 DEF OwnerRec
  <2>4. QED BY <2>3 DEF Awake
<1>3. ASSUME DriveStops
      PROVE  Awake'
  <2>1. owner' = [Ended(owner) EXCEPT !.faulted = Ended(owner).faulted \/ Runnable]
    BY <1>3 DEF DriveStops
  <2>2. Ended(owner).stopping = owner.stopping /\ Ended(owner) \in OwnerRec
    <3>1. Ended(owner) \in OwnerRec
      BY OwnerMoves
    <3>2. Ended(owner).stopping = owner.stopping
      BY DEF Ended, OwnerRec
    <3>3. QED BY <3>1, <3>2
  <2>3. CASE owner.stopping
    <3>1. owner'.stopping
      BY <2>1, <2>2, <2>3 DEF OwnerRec
    <3>2. QED BY <3>1 DEF Awake, Heeds
  <2>4. CASE ~owner.stopping
    <3>1. Runnable
      BY <2>4 DEF Runnable
    <3>2. owner'.faulted
      BY <2>1, <2>2, <3>1 DEF OwnerRec
    <3>3. QED BY <3>2 DEF Awake, Heeds
  <2>5. QED BY <2>3, <2>4
<1>4. ASSUME DriveArms
      PROVE  Awake'
  <2>1. Ended(owner) \in OwnerRec
    BY OwnerMoves
  <2>2. /\ owner' = [Ended(owner) EXCEPT !.timer = Delay(Active, clock), !.lapsed = FALSE]
        /\ Chosen(Active, clock) = {} /\ log' = log /\ clock' = clock
    BY <1>4 DEF DriveArms
  <2>3. owner'.timer = Delay(Active, clock)
    BY <2>1, <2>2 DEF OwnerRec
  <2>4. QED BY <2>2, <2>3, SegmentWakes
<1>5. ASSUME DriveWaits
      PROVE  Awake'
  <2>1. Ended(owner) \in OwnerRec
    BY OwnerMoves
  <2>2. owner' = [Ended(owner) EXCEPT !.idleWait = Ended(owner).idleWait \/ WaitsForIdle,
                                      !.lapsed = FALSE]
    BY <1>5 DEF DriveWaits
  <2>3. owner'.idleWait
    BY <2>1, <2>2 DEF OwnerRec, WaitsForIdle
  <2>4. QED BY <2>3 DEF Awake, Awaited
<1>6. ASSUME ClaimArms
      PROVE  Awake'
  <2>1. Ended(owner) \in OwnerRec
    BY OwnerMoves
  <2>2. Claimed \in OwnerRec
    BY <2>1, OwnerMoves DEF Claimed
  <2>3. PICK t \in Instants : /\ Claims(t) /\ Decided(t) = {}
                              /\ owner' = [Claimed EXCEPT !.timer = Delay(Active, t)]
    BY <1>6 DEF ClaimArms
  <2>4. log' = log /\ clock' = t /\ Chosen(Active, t) = {}
    BY <1>6, <2>3 DEF ClaimArms, Claims, Decided
  <2>5. owner'.timer = Delay(Active, t)
    BY <2>2, <2>3 DEF OwnerRec
  <2>6. QED BY <2>4, <2>5, SegmentWakes
<1>7. ASSUME ClaimThrows
      PROVE  Awake'
  <2>1. Ended(owner) \in OwnerRec
    BY OwnerMoves
  <2>2. Claimed \in OwnerRec
    BY <2>1, OwnerMoves DEF Claimed
  <2>3. owner' = [Claimed EXCEPT !.lapsed = TRUE]
    BY <1>7 DEF ClaimThrows
  <2>4. owner'.lapsed
    BY <2>2, <2>3 DEF OwnerRec
  <2>5. QED BY <2>4 DEF Awake
<1>8. ASSUME ClaimSends
      PROVE  Awake'
  <2>1. Ended(owner) \in OwnerRec
    BY OwnerMoves
  <2>2. Claimed \in OwnerRec
    BY <2>1, OwnerMoves DEF Claimed
  <2>3. owner' = [Claimed EXCEPT !.sent = TRUE]
    BY <1>8 DEF ClaimSends
  <2>4. owner'.sent
    BY <2>2, <2>3 DEF OwnerRec
  <2>5. QED BY <2>4 DEF Awake, Awaited
<1>9. ASSUME ClaimFaults
      PROVE  Awake'
  <2>1. Ended(owner) \in OwnerRec
    BY OwnerMoves
  <2>2. Claimed \in OwnerRec
    BY <2>1, OwnerMoves DEF Claimed
  <2>3. owner' = Faulted(Claimed)
    BY <1>9 DEF ClaimFaults
  <2>4. owner'.faulted
    BY <2>2, <2>3 DEF OwnerRec, Faulted
  <2>5. QED BY <2>4 DEF Awake, Heeds
<1>10. ASSUME BarrierPasses
      PROVE  Awake'
  <2>1. Ended(owner) \in OwnerRec
    BY OwnerMoves
  <2>2. owner' = Requested(Ended(owner))
    BY <1>10 DEF BarrierPasses
  <2>3. QED BY <2>1, <2>2, RequestedWakes
<1>11. ASSUME Retires
      PROVE  Awake'
  <2>1. owner.run = "ended" /\ log' = log /\ clock' = clock /\ used' = used
    BY <1>11 DEF Retires
  <2>2. CASE Again
    <3>1. owner'.run = "queued"
      BY <1>11, <2>2 DEF Retires, OwnerRec
    <3>2. QED BY <3>1 DEF Awake, Awaited
  <2>3. CASE ~Again
    <3>1. owner' = [owner EXCEPT !.run = "none", !.requested = FALSE]
      BY <1>11, <2>3 DEF Retires
    <3>2. /\ owner'.timer = owner.timer /\ owner'.idleWait = owner.idleWait
          /\ owner'.lapsed = owner.lapsed /\ Heeds(owner)' = Heeds(owner)
      BY <3>1 DEF OwnerRec, Heeds
    <3>3. Heeds(owner) => ~owner.requested /\ ~owner.sent
      BY <2>1, <2>3 DEF Again, OwnSide
    <3>4. Active' = Active
      BY <2>1 DEF Active
    <3>5. QED BY <2>1, <3>2, <3>3, <3>4 DEF Awake, Awaited, Armed
  <2>4. QED BY <2>2, <2>3
<1>12. ASSUME MaintenanceEnds
      PROVE  Awake'
  <2>1. owner.run = "claimed" /\ log' = log /\ clock' = clock /\ used' = used
    BY <1>12 DEF MaintenanceEnds, OwnSide
  <2>2. CASE owner.sent
    <3>1. owner'.run = "barrier"
      BY <1>12, <2>2 DEF MaintenanceEnds, OwnerRec
    <3>2. QED BY <3>1 DEF Awake, Awaited
  <2>3. CASE ~owner.sent
    <3>1. owner' = Ended(owner)
      BY <1>12, <2>3 DEF MaintenanceEnds
    <3>2. /\ owner'.timer = owner.timer /\ owner'.idleWait = owner.idleWait
          /\ owner'.requested = owner.requested
          /\ owner'.lapsed = owner.lapsed /\ Heeds(owner)' = Heeds(owner)
      BY <3>1 DEF OwnerRec, Heeds, Ended
    <3>3. Active' = Active
      BY <2>1 DEF Active
    <3>4. QED BY <2>1, <2>3, <3>2, <3>3 DEF Awake, Awaited, Armed
  <2>4. QED BY <2>2, <2>3
<1>13. ASSUME TurnEnds
      PROVE  Awake'
  <2>1. CASE Extent(log) # 0
    <3>1. owner' = Requested(owner)
      BY <1>13, <2>1 DEF TurnEnds, RequestDrive
    <3>2. QED BY <3>1, RequestedWakes
  <2>2. CASE Extent(log) = 0
    <3>1. log' = log /\ owner' = owner /\ clock' = clock /\ used'.jumps = used.jumps
      BY <1>13, <2>2 DEF TurnEnds
    <3>2. QED BY <3>1, AwakeKept
  <2>3. QED BY <2>1, <2>2
<1>14. ASSUME OtherEnds
      PROVE  Awake'
  <2>1. log' = log /\ owner' = owner /\ clock' = clock /\ used'.jumps = used.jumps
    BY <1>14 DEF OtherEnds, Trouble, Speaks
  <2>2. QED BY <2>1, AwakeKept
<1>15. ASSUME TimerFires
      PROVE  Awake'
  <2>1. owner' = Requested(owner)
    BY <1>15 DEF TimerFires, RequestDrive
  <2>2. QED BY <2>1, RequestedWakes
<1>16. ASSUME IdleWaitEnds
      PROVE  Awake'
  <2>1. [owner EXCEPT !.idleWait = FALSE] \in OwnerRec
    BY OwnerMoves
  <2>2. owner' = Requested([owner EXCEPT !.idleWait = FALSE])
    BY <1>16 DEF IdleWaitEnds
  <2>3. QED BY <2>1, <2>2, RequestedWakes
<1>17. ASSUME Tick
      PROVE  Awake'
  <2>1. /\ owner' = [owner EXCEPT !.timer = IF owner.timer > 0 THEN owner.timer - 1 ELSE owner.timer]
        /\ clock' = IF clock < Horizon THEN clock + 1 ELSE clock
        /\ log' = log /\ used' = used
    BY <1>17 DEF Tick
  <2>2. /\ owner'.timer = IF owner.timer > 0 THEN owner.timer - 1 ELSE owner.timer
        /\ owner'.idleWait = owner.idleWait /\ owner'.requested = owner.requested
        /\ owner'.sent = owner.sent /\ owner'.run = owner.run
        /\ owner'.lapsed = owner.lapsed /\ Heeds(owner)' = Heeds(owner)
    BY <2>1 DEF OwnerRec, Heeds
  <2>3. owner.timer \in Int /\ (owner.timer < 0 => owner.timer = NoTimer) /\ NoTimer = -1
    BY ScheduleAssumption DEF OwnerRec, NoTimer
  <2>4. Active' = Active /\ clock \in Int /\ \A r \in Active : r.at \in Int
    BY <2>1, FoldIsGood, ActivesForms, ScheduleAssumption DEF Active, Instants
  <2>5. ASSUME NEW r \in Active, Armed(r) PROVE Armed(r)'
    <3>1. owner'.timer # NoTimer
      BY <2>2, <2>3, <2>5 DEF Armed
    <3>2. CASE owner.timer > 0
      <4>1. owner'.timer = owner.timer - 1 /\ clock' <= clock + 1 /\ clock' \in Int /\ r.at \in Int
        BY <2>1, <2>2, <2>4, <3>2
      <4>2. used.jumps = 0 => clock + owner.timer <= r.at
        BY <2>5, <3>2, <2>3 DEF Armed
      <4>3. used.jumps = 0 => clock' + owner'.timer <= r.at
        BY <4>1, <4>2, <2>3, <2>4
      <4>4. QED BY <3>1, <4>3, <2>1 DEF Armed
    <3>3. CASE ~(owner.timer > 0)
      <4>1. owner'.timer = 0
        BY <2>2, <2>3, <2>5, <3>3 DEF Armed
      <4>2. QED BY <3>1, <4>1 DEF Armed
    <3>4. QED BY <3>2, <3>3
  <2>6. QED BY <2>2, <2>4, <2>5 DEF Awake, Awaited
<1>18. ASSUME NEW c \in Calls, Issue(c)
      PROVE  Awake'
  <2>1. log' = log /\ owner' = owner /\ clock' = clock /\ used'.jumps = used.jumps
    BY <1>18 DEF Issue, Trouble, Speaks
  <2>2. QED BY <2>1, AwakeKept
<1>19. ASSUME NEW c \in Calls, CallBegins(c)
      PROVE  Awake'
  <2>1. log' = log /\ owner' = owner /\ clock' = clock /\ used'.jumps = used.jumps
    BY <1>19 DEF CallBegins, Trouble, Speaks
  <2>2. QED BY <2>1, AwakeKept
<1>20. ASSUME NEW c \in Calls, FlushFails(c)
      PROVE  Awake'
  <2>1. log' = log /\ owner' = owner /\ clock' = clock /\ used'.jumps = used.jumps
    BY <1>20 DEF FlushFails, Trouble, Speaks
  <2>2. QED BY <2>1, AwakeKept
<1>21. ASSUME NEW c \in Calls, Reads(c)
      PROVE  Awake'
  <2>1. owner' = Requested(owner)
    BY <1>21 DEF Reads, Passes, Notified
  <2>2. QED BY <2>1, RequestedWakes
<1>22. ASSUME NEW c \in Calls, Refuses(c)
      PROVE  Awake'
  <2>1. owner' = Requested(owner)
    BY <1>22 DEF Refuses, Passes, Notified
  <2>2. QED BY <2>1, RequestedWakes
<1>23. ASSUME NEW c \in Calls, Appends(c)
      PROVE  Awake'
  <2>1. owner' = Requested(owner)
    BY <1>23 DEF Appends, Passes, Notified
  <2>2. QED BY <2>1, RequestedWakes
<1>24. ASSUME NEW c \in Calls, AppendThrows(c)
      PROVE  Awake'
  <2>1. owner' = Requested(owner)
    BY <1>24 DEF AppendThrows, Passes, Notified
  <2>2. QED BY <2>1, RequestedWakes
<1>25. ASSUME NEW c \in Calls, Confirms(c)
      PROVE  Awake'
  <2>1. owner' = Requested(owner)
    BY <1>25 DEF Confirms, Passes, Notified
  <2>2. QED BY <2>1, RequestedWakes
<1>26. ASSUME Stop
      PROVE  Awake'
  <2>1. owner' = [owner EXCEPT !.stopping = TRUE, !.requested = FALSE, !.timer = NoTimer]
    BY <1>26 DEF Stop
  <2>2. owner'.stopping
    BY <2>1 DEF OwnerRec
  <2>3. QED BY <2>2 DEF Awake, Heeds
<1>27. ASSUME PersonSpeaks
      PROVE  Awake'
  <2>1. log' = log /\ owner' = owner /\ clock' = clock /\ used'.jumps = used.jumps
    BY <1>27 DEF PersonSpeaks, Trouble, Speaks
  <2>2. QED BY <2>1, AwakeKept
<1>28. ASSUME OtherWork
      PROVE  Awake'
  <2>1. log' = log /\ owner' = owner /\ clock' = clock /\ used'.jumps = used.jumps
    BY <1>28 DEF OtherWork, Trouble, Speaks
  <2>2. QED BY <2>1, AwakeKept
<1>29. ASSUME Cancel
      PROVE  Awake'
  <2>1. log' = log /\ owner' = owner /\ clock' = clock /\ used'.jumps = used.jumps
    BY <1>29 DEF Cancel, Trouble, Speaks
  <2>2. QED BY <2>1, AwakeKept
<1>30. ASSUME ClockJumps
      PROVE  Awake'
  <2>1. log' = log /\ owner' = owner /\ used'.jumps = used.jumps + 1 /\ used.jumps \in Nat
    BY <1>30 DEF ClockJumps, Jump, UsedTyped
  <2>2. Active' = Active /\ used'.jumps # 0
    BY <2>1 DEF Active
  <2>3. \A r \in Active : Armed(r) => Armed(r)'
    BY <2>1, <2>2 DEF Armed
  <2>4. QED BY <2>1, <2>2, <2>3 DEF Awake, Awaited, Heeds
<1>31. ASSUME Crash
      PROVE  Awake'
  <2>1. owner'.run = "queued"
    BY <1>31 DEF Crash, Started
  <2>2. QED BY <2>1 DEF Awake, Awaited
<1>32. CASE UNCHANGED vars
  BY <1>32, AwakeKept DEF vars
<1>33. QED
  BY <1>1, <1>2, <1>3, <1>4, <1>5, <1>6, <1>7, <1>8, <1>9, <1>10, <1>11, <1>12,
     <1>13, <1>14, <1>15, <1>16, <1>17, <1>18, <1>19, <1>20, <1>21, <1>22, <1>23,
     <1>24, <1>25, <1>26, <1>27, <1>28, <1>29, <1>30, <1>31, <1>32 DEF Next,
     OwnerStep, AgentStep, CallStep

-----------------------------------------------------------------------------
(* The inductive invariant and what follows.                                *)

(* The parts of the type invariant.                                         *)
LEMMA TypeParts ==
  TypeOK <=> Small /\ LogTyped /\ Fifo
BY DEF TypeOK, Small, LogTyped, Fifo, Waiting

(* The parts of the variables' types.                                       *)
LEMMA SmallParts ==
  Small <=> UsedTyped /\ AgentTyped /\ calls \in [Calls -> CallRec] /\ owner \in OwnerRec
BY DEF Small, UsedTyped, AgentTyped

(* The invariant holds initially.                                           *)
LEMMA InitHolds ==
  ASSUME Init
  PROVE  IInv
<1> USE ScheduleAssumption
<1>1. /\ log = <<>> /\ stored = 0 /\ relied = 0 /\ clock = 0
      /\ agent = [phase |-> "idle", latched |-> FALSE, aborted |-> FALSE]
      /\ calls = [c \in Calls |-> NewCall] /\ owner = Started /\ queue = <<Owner>>
      /\ used = [turns |-> 0, troubles |-> 0, jumps |-> 0, crashes |-> 0]
  BY DEF Init, AtRest
<1>2. log \in Seq(Events) /\ Len(log) = 0
  BY <1>1
<1>3. GoodLog(log)
  <2>1. Replay(log)[0] = Fresh
    BY <1>2, ReplayStep
  <2>2. QED BY <1>2, <2>1, GoodInit DEF GoodLog
<1>4. UsedTyped /\ AgentTyped
  BY <1>1 DEF UsedTyped, AgentTyped, Instants
<1>5. NewCall \in CallRec /\ NewCall.pc = "none" /\ NewCall.mark = 0
  BY DEF NewCall, CallRec
<1>6. calls \in [Calls -> CallRec] /\ \A c \in Calls : calls[c].pc = "none" /\ calls[c].mark = 0
  BY <1>1, <1>5
<1>7. /\ owner \in OwnerRec /\ owner.mark = 0 /\ owner.run = "queued" /\ ~owner.sent
      /\ ~owner.faulted /\ ~owner.requested
  BY <1>1 DEF Started, OwnerRec, NoTimer
<1>8. LogTyped /\ Rest /\ Marked
  BY <1>1, <1>2, <1>6, <1>7 DEF LogTyped, Rest, Marked
<1>9. Fifo
  <2>1. Open = {} /\ Waiting(owner) = {Owner}
    BY <1>6, <1>7 DEF Open, Waiting
  <2>2. <<Owner>> \in Seq(Calls \cup {Owner}) /\ IsInjective(<<Owner>>) /\ ToSet(<<Owner>>) = {Owner}
    BY DEF IsInjective, ToSet
  <2>3. QED BY <1>1, <2>1, <2>2 DEF Fifo
<1>10. HeadOnly /\ OwnSide
  BY <1>1, <1>6, <1>7 DEF HeadOnly, OwnSide
<1>11. /\ AnswersAreDurable /\ DispatchIsBacked /\ RepeatsOnlyAfterCrash /\ ShownBehind
       /\ Awake
  BY <1>1, <1>2, <1>7 DEF AnswersAreDurable, DispatchIsBacked, RepeatsOnlyAfterCrash, ShownBehind,
     Awake, Awaited
<1>12. QED BY <1>3, <1>4, <1>6, <1>7, <1>8, <1>9, <1>10, <1>11, TypeParts, SmallParts DEF IInv

(* Every step keeps the invariant.                                          *)
LEMMA StepHolds ==
  ASSUME IInv, [Next]_vars
  PROVE  IInv' /\ LogMove
<1>1. /\ Small /\ LogTyped /\ Fifo /\ UsedTyped /\ AgentTyped /\ calls \in [Calls -> CallRec]
      /\ owner \in OwnerRec /\ GoodLog(log) /\ HeadOnly /\ Marked /\ Rest /\ OwnSide
      /\ AnswersAreDurable /\ DispatchIsBacked /\ RepeatsOnlyAfterCrash /\ ShownBehind /\ Awake
  BY TypeParts, SmallParts DEF IInv
<1>2. log \in Seq(Events) /\ clock \in Instants /\ stored \in Nat
  BY <1>1 DEF LogTyped, AgentTyped
<1>3. LogMove
  BY <1>1, <1>2, LogMoves
<1>4. log' \in Seq(Events) /\ Len(log') \in Nat
  BY <1>1, <1>2, <1>3, LogTypes
<1>5. owner' \in OwnerRec /\ calls' \in [Calls -> CallRec] /\ UsedTyped' /\ AgentTyped'
  <2>1. (owner \in OwnerRec)'
    BY <1>1, <1>2, OwnerTypeStep
  <2>2. (calls \in [Calls -> CallRec])'
    BY <1>1, <1>2, <1>4, CallsStep
  <2>3. UsedTyped' /\ AgentTyped'
    BY <1>1, UsedStep, AgentTypeStep
  <2>4. OwnerRec' = OwnerRec /\ CallRec' = CallRec /\ Calls' = Calls
    BY DEF OwnerRec, CallRec, Calls, Ids
  <2>5. QED BY <2>1, <2>2, <2>3, <2>4
<1>6. Small'
  BY <1>5 DEF Small, UsedTyped, AgentTyped, Calls, CallRec, OwnerRec, Ids, Instants
<1>7. LogTyped' /\ AnswersAreDurable'
  BY <1>1, <1>3, <1>4, DurableStep
<1>8. FifoMove
  BY <1>1, FifoMoves
<1>9. Fifo' /\ HeadOnly'
  BY <1>1, <1>8, FifoStep, HeadStep
<1>10. TypeOK'
  BY <1>6, <1>7, <1>9 DEF TypeOK, Small, LogTyped, Fifo, Waiting
<1>11. GoodLog(log)'
  <2>1. GoodLog(log')
    BY <1>1, <1>2, <1>3, GoodLogStep
  <2>2. QED BY <2>1 DEF GoodLog
<1>12. Marked' /\ Rest' /\ OwnSide'
  BY <1>1, <1>4, MarkedStep, RestStep, OwnSideStep
<1>13. DispatchIsBacked' /\ ShownBehind' /\ RepeatsOnlyAfterCrash'
  BY <1>1, <1>2, <1>3, BackedStep, ShownStep, RepeatsStep
<1>14. Awake'
  BY <1>1, <1>2, AwakeStep
<1>15. QED BY <1>3, <1>7, <1>9, <1>10, <1>11, <1>12, <1>13, <1>14 DEF IInv

(* The invariant holds in every state of every behavior.                    *)
THEOREM IInvHolds == Spec => []IInv
<1>1. Init => IInv
  BY InitHolds
<1>2. IInv /\ [Next]_vars => IInv'
  BY StepHolds
<1>3. QED BY <1>1, <1>2, PTL DEF Spec

(* Every variable keeps its type, the marks lie in the log, and the FIFO    *)
(* holds each transaction that is not settled, once.                        *)
THEOREM TypeCorrect == Spec => []TypeOK
<1>1. IInv => TypeOK
  BY DEF IInv
<1>2. QED BY <1>1, IInvHolds, PTL

(* The schedule changes of the log always replay: the fold of domain.ts     *)
(* never meets an id used twice, a deletion or a dispatch of what is not    *)
(* active, or a dispatch of the wrong form.                                 *)
THEOREM LogAlwaysReplays == Spec => []LogReplays
<1>1. IInv => LogReplays
  <2>1. SUFFICES ASSUME IInv PROVE LogReplays
    OBVIOUS
  <2>2. log \in Seq(Events) /\ GoodLog(log)
    BY <2>1, TypeParts DEF IInv, LogTyped
  <2>3. GoodFold(Fold(log))
    BY <2>2, FoldIsGood
  <2>4. QED BY <2>3 DEF LogReplays, Folds, Replays, GoodFold, Known
<1>2. QED BY <1>1, IInvHolds, PTL

(* Every dispatch has the message that shows it before it, and nothing but  *)
(* dispatches of other reminders between them.                              *)
THEOREM DispatchesAreBacked == Spec => []DispatchIsBacked
<1>1. IInv => DispatchIsBacked
  BY DEF IInv
<1>2. QED BY <1>1, IInvHolds, PTL

(* No occurrence is shown twice in one life of the process.                 *)
THEOREM NoRepeats == Spec => []RepeatsOnlyAfterCrash
<1>1. IInv => RepeatsOnlyAfterCrash
  BY DEF IInv
<1>2. QED BY <1>1, IInvHolds, PTL

(* What a tool answered is durable when it answers.                         *)
THEOREM AnswersDurable == Spec => []AnswersAreDurable
<1>1. IInv => AnswersAreDurable
  BY DEF IInv
<1>2. QED BY <1>1, IInvHolds, PTL

(* While nothing is under way every active reminder has a timer that fires  *)
(* in time, unless a failure left it to the next trigger.                   *)
THEOREM WakesAreKept == Spec => []NoLostWake
<1>1. IInv => NoLostWake
  <2>1. SUFFICES ASSUME IInv, Quiet, ~owner.lapsed, Heeds(owner)
                 PROVE  \A r \in Active : Armed(r)
    BY DEF NoLostWake, Armed
  <2>2. owner.run = "none" /\ ~owner.idleWait /\ OwnSide /\ Awake
    BY <2>1 DEF IInv, Quiet
  <2>3. ~Awaited
    BY <2>2 DEF Awaited, OwnSide
  <2>4. QED BY <2>1, <2>2, <2>3 DEF Awake
<1>2. QED BY <1>1, IInvHolds, PTL

(* What a step hands out is due, and the owner not stopped.                 *)
LEMMA TimeOfSteps ==
  ASSUME IInv, [Next]_vars, NEW n \in Len(log) + 1 .. Len(log')
  PROVE  /\ log'[n].type = "dispatch" => \E r \in Active : r.id = log'[n].id /\ r.at <= clock'
         /\ owner.stopping => log'[n].type \notin {"message", "dispatch"}
<1>1. Small /\ LogTyped /\ UsedTyped /\ GoodLog(log) /\ LogMove
  BY TypeParts, SmallParts, StepHolds DEF IInv
<1>2. log \in Seq(Events) /\ stored \in Nat
  BY <1>1 DEF LogTyped
<1>3. QED BY <1>1, <1>2, HandedInTime

(* No reminder is handed out before it is due.                              *)
THEOREM NeverBeforeDue == Spec => NeverEarly
<1>1. IInv /\ [Next]_vars =>
        [\A n \in Len(log) + 1 .. Len(log') :
           log'[n].type = "dispatch" =>
             \E r \in Active : r.id = log'[n].id /\ r.at <= clock']_vars
  BY TimeOfSteps
<1>2. QED BY <1>1, IInvHolds, PTL DEF Spec, NeverEarly

(* Nothing is handed out after the stop.                                    *)
THEOREM QuietAfterStop == Spec => StopsQuietly
<1>1. IInv /\ [Next]_vars =>
        [owner.stopping =>
           \A n \in Len(log) + 1 .. Len(log') : log'[n].type \notin {"message", "dispatch"}]_vars
  BY TimeOfSteps
<1>2. QED BY <1>1, IInvHolds, PTL DEF Spec, StopsQuietly
=============================================================================
