------------------------ MODULE BackgroundJobsProofs ------------------------
(***************************************************************************)
(* Proofs about BackgroundJobs, for every set of jobs, agents and waits,    *)
(* every limit and every wake budget.                                       *)
(***************************************************************************)
EXTENDS BackgroundJobs, FiniteSetTheorems, TLAPS

(* The type of each variable.                                               *)
JobRec == [status : {"new", "running", "stopping"} \cup Outcomes, owner : Owners,
           reported : BOOLEAN, stored : BOOLEAN,
           producer : {"none", "working", "stopping", "ended"}]
AgentRec == [phase : {"live", "leaving", "unloading", "draining", "gone"},
             turn : {"idle", "busy"}, spent : 0 .. WakeBudget,
             cleanup : BOOLEAN, owned : SUBSET Jobs]
WaitRec == [pc : {"none", "waiting", "resolved"}, on : SUBSET Jobs, counted : BOOLEAN]
ServiceRec == [phase : {"active", "unloading", "draining", "gone"}, all : SUBSET Jobs]
AuditRec == [noticed : [Jobs -> Nat], asked : SUBSET Jobs, unheard : SUBSET Jobs,
             told : SUBSET Jobs, wakes : [Agents -> Nat]]

JobType     == job \in [Jobs -> JobRec]
AgentType   == agent \in [Agents -> AgentRec]
WaitType    == waits \in [Waits -> WaitRec]
ServiceType == service \in ServiceRec /\ controls \in BOOLEAN
AuditType   == audit \in AuditRec
Typed == JobType /\ AgentType /\ WaitType /\ ServiceType /\ AuditType

(* A job that runs is in the store, and the store of an agent's jobs is     *)
(* someone's to empty: its cleanup's, or the one that is draining.          *)
Kept(j) ==
  /\ Active(j) => job[j].stored
  /\ job[j].stored => job[j].status # "new"
  /\ job[j].stored /\ job[j].owner \in Agents =>
       \/ agent[job[j].owner].cleanup /\ agent[job[j].owner].phase \notin {"draining", "gone"}
       \/ agent[job[j].owner].phase = "draining" /\ j \in agent[job[j].owner].owned
  /\ job[j].stored => /\ service.phase # "gone"
                      /\ service.phase = "draining" => j \in service.all
StoreKept == \A j \in Jobs : Kept(j)

(* Who was asked to stop has nothing left to announce.                      *)
Asked(j) ==
  /\ j \in audit.asked => job[j].reported /\ job[j].status # "new"
  /\ ~Terminal(j) /\ job[j].reported => j \in audit.asked
AskedReported == \A j \in Jobs : Asked(j)

(* A wait is on one job, and is only left waiting while that one runs.      *)
WaitOK(w) ==
  /\ waits[w].pc = "none" => waits[w].on = {}
  /\ waits[w].pc # "none" => waits[w].counted /\ \E j \in Jobs : waits[w].on = {j}
  /\ \A j \in Jobs : waits[w].on = {j} => job[j].status # "new"
  /\ \A j \in Jobs : waits[w].on = {j} /\ waits[w].pc = "waiting" => Active(j)
WaitsOK == \A w \in Waits : WaitOK(w)

(* Before a job ends nobody has heard of its end.                           *)
Told(j) ==
  /\ ~Terminal(j) => audit.noticed[j] = 0 /\ j \notin audit.told
  /\ Terminal(j) /\ job[j].owner # Shared /\ j \notin audit.asked \cup audit.unheard =>
       \/ audit.noticed[j] = 1 /\ ~Owed(j)
       \/ audit.noticed[j] = 0 /\ Owed(j)
AllTold == \A j \in Jobs : Told(j)

(* The wakes since a person's message are what the budget has spent.        *)
Budgeted == \A a \in Agents : audit.wakes[a] <= agent[a].spent

-----------------------------------------------------------------------------


(* A job's record with other fields is a job's record.                      *)
LEMMA JobFields ==
  ASSUME NEW r \in JobRec, NEW s \in {"stopping"} \cup Outcomes, NEW b \in BOOLEAN,
         NEW p \in {"working", "stopping", "ended"}
  PROVE  /\ [r EXCEPT !.reported = b] \in JobRec /\ [r EXCEPT !.stored = FALSE] \in JobRec
         /\ [r EXCEPT !.producer = p] \in JobRec
         /\ [r EXCEPT !.status = s, !.reported = b] \in JobRec
         /\ [r EXCEPT !.reported = b, !.status = s] \in JobRec
         /\ [r EXCEPT !.status = s, !.reported = b, !.producer = p] \in JobRec
         /\ [r EXCEPT !.reported = b, !.status = s, !.producer = p] \in JobRec
BY DEF JobRec

(* The same of an agent's record.                                           *)
LEMMA AgentFields ==
  ASSUME NEW r \in AgentRec, NEW ph \in {"leaving", "unloading", "draining", "gone"},
         NEW t \in {"idle", "busy"}, NEW n \in 0 .. WakeBudget, NEW b \in BOOLEAN,
         NEW S \in SUBSET Jobs
  PROVE  /\ [r EXCEPT !.turn = t] \in AgentRec /\ [r EXCEPT !.spent = n] \in AgentRec
         /\ [r EXCEPT !.turn = t, !.spent = n] \in AgentRec
         /\ [r EXCEPT !.phase = ph, !.cleanup = b, !.owned = S] \in AgentRec
         /\ [r EXCEPT !.phase = ph, !.owned = S] \in AgentRec
BY DEF AgentRec

(* What releasing the waits on the jobs S does to each wait.                *)
LEMMA ReleaseMoves ==
  ASSUME WaitType, NEW S \in SUBSET Jobs
  PROVE  /\ Released(S) \in [Waits -> WaitRec]
         /\ \A w \in Waits :
              /\ Released(S)[w].on = waits[w].on /\ Released(S)[w].counted = waits[w].counted
              /\ Released(S)[w].pc = IF waits[w].pc = "waiting" /\ \E j \in S : waits[w].on = {j}
                                     THEN "resolved" ELSE waits[w].pc
<1>1. ASSUME NEW w \in Waits
      PROVE  /\ [waits[w] EXCEPT !.pc = "resolved"] \in WaitRec
             /\ [waits[w] EXCEPT !.pc = "resolved"].on = waits[w].on
             /\ [waits[w] EXCEPT !.pc = "resolved"].counted = waits[w].counted
             /\ [waits[w] EXCEPT !.pc = "resolved"].pc = "resolved"
             /\ waits[w] \in WaitRec
  BY DEF WaitType, WaitRec
<1>2. QED BY <1>1 DEF Released

(* What a teardown of the jobs S does, T among them having thrown.          *)
TornTo(S, T) ==
  /\ JobType' /\ WaitType' /\ AuditType'
  /\ \A j \in Jobs :
       /\ job'[j].owner = job[j].owner /\ job'[j].stored = job[j].stored
       /\ job'[j].reported = (job[j].reported \/ j \in Doomed(S))
       /\ job'[j].status = IF j \in T THEN "failed"
                           ELSE IF j \in Doomed(S) THEN "stopping" ELSE job[j].status
  /\ \A w \in Waits :
       /\ waits'[w].on = waits[w].on /\ waits'[w].counted = waits[w].counted
       /\ waits'[w].pc = IF waits[w].pc = "waiting" /\ \E j \in T : waits[w].on = {j}
                         THEN "resolved" ELSE waits[w].pc
  /\ audit'.asked = audit.asked \cup Doomed(S)
  /\ audit'.noticed = audit.noticed /\ audit'.told = audit.told
  /\ audit'.wakes = audit.wakes /\ audit'.unheard = audit.unheard

(* A teardown cancels every running job of its set, and nothing else.       *)
LEMMA TeardownMoves ==
  ASSUME Typed, NEW S \in SUBSET Jobs, CancelForTeardown(S)
  PROVE  \E T \in SUBSET Doomed(S) : TornTo(S, T)
<1> USE JobsAssumption
<1>1. PICK T \in SUBSET Doomed(S) : /\ job' = Torn(S, T) /\ waits' = Released(T)
                                    /\ audit' = [audit EXCEPT !.asked = @ \cup Doomed(S)]
  BY DEF CancelForTeardown
<1>2. Doomed(S) \in SUBSET Jobs /\ T \in SUBSET Jobs
  BY DEF Doomed
<1>3. ASSUME NEW j \in Jobs
      PROVE  /\ job'[j] = IF j \notin Doomed(S) THEN job[j]
                          ELSE IF j \in T THEN [job[j] EXCEPT !.reported = TRUE, !.status = "failed"]
                          ELSE [job[j] EXCEPT !.reported = TRUE, !.status = "stopping",
                                              !.producer = "stopping"]
             /\ job'[j] \in JobRec /\ job[j] \in JobRec
  <2>1. job[j] \in JobRec
    BY DEF Typed, JobType
  <2>2. job'[j] = IF j \notin Doomed(S) THEN job[j]
                  ELSE IF j \in T THEN [job[j] EXCEPT !.reported = TRUE, !.status = "failed"]
                  ELSE [job[j] EXCEPT !.reported = TRUE, !.status = "stopping",
                                      !.producer = "stopping"]
    BY <1>1 DEF Torn
  <2>3. [job[j] EXCEPT !.reported = TRUE, !.status = "failed"] \in JobRec
        /\ [job[j] EXCEPT !.reported = TRUE, !.status = "stopping", !.producer = "stopping"] \in JobRec
    BY <2>1, JobFields
  <2>4. QED BY <2>1, <2>2, <2>3
<1>4. job' = [j \in Jobs |-> job'[j]]
  BY <1>1 DEF Torn
<1>5. JobType'
  BY <1>3, <1>4 DEF JobType
<1>6. \A j \in Jobs :
        /\ job'[j].owner = job[j].owner /\ job'[j].stored = job[j].stored
        /\ job'[j].reported = (job[j].reported \/ j \in Doomed(S))
        /\ job'[j].status = IF j \in T THEN "failed"
                            ELSE IF j \in Doomed(S) THEN "stopping" ELSE job[j].status
  <2> SUFFICES ASSUME NEW j \in Jobs
               PROVE  /\ job'[j].owner = job[j].owner /\ job'[j].stored = job[j].stored
                      /\ job'[j].reported = (job[j].reported \/ j \in Doomed(S))
                      /\ job'[j].status = IF j \in T THEN "failed"
                                          ELSE IF j \in Doomed(S) THEN "stopping" ELSE job[j].status
    OBVIOUS
  <2>1. job[j] \in JobRec /\ (j \in T => j \in Doomed(S))
    BY <1>3
  <2>2. CASE j \notin Doomed(S)
    <3>1. job'[j] = job[j] /\ job[j].reported \in BOOLEAN
      BY <1>3, <2>1, <2>2 DEF JobRec
    <3>2. QED BY <2>1, <2>2, <3>1
  <2>3. CASE j \in T
    <3>1. job'[j] = [job[j] EXCEPT !.reported = TRUE, !.status = "failed"]
      BY <1>3, <2>1, <2>3
    <3>2. QED BY <2>1, <2>3, <3>1 DEF JobRec
  <2>4. CASE j \in Doomed(S) \ T
    <3>1. job'[j] = [job[j] EXCEPT !.reported = TRUE, !.status = "stopping", !.producer = "stopping"]
      BY <1>3, <2>4
    <3>2. QED BY <2>1, <2>4, <3>1 DEF JobRec
  <2>5. QED BY <2>2, <2>3, <2>4
<1>7. audit' \in AuditRec /\ audit'.asked = audit.asked \cup Doomed(S)
      /\ audit'.noticed = audit.noticed /\ audit'.told = audit.told
      /\ audit'.wakes = audit.wakes /\ audit'.unheard = audit.unheard
  <2> DEFINE asked == audit.asked \cup Doomed(S)
  <2>1. audit' = [audit EXCEPT !.asked = asked] /\ asked \in SUBSET Jobs /\ audit \in AuditRec
    BY <1>1, <1>2 DEF Typed, AuditType, AuditRec
  <2> HIDE DEF asked
  <2>2. audit' \in AuditRec /\ audit'.asked = asked
        /\ audit'.noticed = audit.noticed /\ audit'.told = audit.told
        /\ audit'.wakes = audit.wakes /\ audit'.unheard = audit.unheard
    BY <2>1 DEF AuditRec
  <2>3. QED BY <2>2 DEF asked
<1>8. /\ waits' \in [Waits -> WaitRec]
      /\ \A w \in Waits :
           /\ waits'[w].on = waits[w].on /\ waits'[w].counted = waits[w].counted
           /\ waits'[w].pc = IF waits[w].pc = "waiting" /\ \E j \in T : waits[w].on = {j}
                             THEN "resolved" ELSE waits[w].pc
  BY <1>1, <1>2, ReleaseMoves DEF Typed
<1>9. QED BY <1>5, <1>6, <1>7, <1>8 DEF TornTo, WaitType, AuditType

(* What the end of a producer does if its job is not over yet.              *)
SettlesTo(j, outcome) ==
  /\ ~Terminal(j)
  /\ \A i \in Jobs :
       /\ job'[i].owner = job[i].owner /\ job'[i].stored = job[i].stored
       /\ i # j => job'[i].status = job[i].status /\ job'[i].reported = job[i].reported
  /\ job'[j].status = outcome /\ job'[j].reported = (job[j].reported \/ Waiters(j) # {})
  /\ \A w \in Waits :
       /\ waits'[w].on = waits[w].on /\ waits'[w].counted = waits[w].counted
       /\ waits'[w].pc = IF waits[w].pc = "waiting" /\ waits[w].on = {j}
                         THEN "resolved" ELSE waits[w].pc
  /\ audit'.asked = audit.asked /\ audit'.told = audit.told
  /\ \A i \in Jobs : i # j => audit'.noticed[i] = audit.noticed[i]
  /\ \/ /\ ~job'[j].reported /\ job[j].owner \in Agents
        /\ audit'.noticed[j] = audit.noticed[j] + 1 /\ audit'.unheard = audit.unheard
     \/ /\ job'[j].reported \/ job[j].owner = Shared \/ j \in audit'.unheard
        /\ audit'.noticed[j] = audit.noticed[j]
        /\ audit.unheard \subseteq audit'.unheard /\ audit'.unheard \subseteq audit.unheard \cup {j}
AgentsTold ==
  \A a \in Agents :
    /\ agent'[a].phase = agent[a].phase /\ agent'[a].cleanup = agent[a].cleanup
    /\ agent'[a].owned = agent[a].owned
    /\ \/ audit'.wakes[a] = audit.wakes[a] /\ agent'[a].spent = agent[a].spent
       \/ audit'.wakes[a] = audit.wakes[a] + 1 /\ agent'[a].spent = agent[a].spent + 1

(* What its end does if its job is over: nothing anybody sees.              *)
StaysSettled(j) ==
  /\ Terminal(j) /\ UNCHANGED <<agent, waits, audit>>
  /\ \A i \in Jobs :
       /\ job'[i].owner = job[i].owner /\ job'[i].stored = job[i].stored
       /\ job'[i].status = job[i].status /\ job'[i].reported = job[i].reported

(* Waking an agent opens its turn and spends one of its budget.             *)
LEMMA NotifyMoves ==
  ASSUME AgentType, NEW a \in Agents
  PROVE  /\ Notified(a) \in [Agents -> AgentRec]
         /\ \A b \in Agents :
              /\ Notified(a)[b].phase = agent[b].phase /\ Notified(a)[b].cleanup = agent[b].cleanup
              /\ Notified(a)[b].owned = agent[b].owned
              /\ Notified(a)[b].spent = IF b = a /\ Wakes(a) THEN agent[b].spent + 1 ELSE agent[b].spent
<1>1. agent[a] \in AgentRec /\ \A b \in Agents : agent[b] \in AgentRec
  BY DEF AgentType
<1> DEFINE n == agent[a].spent + 1
           r == [[agent[a] EXCEPT !.spent = n] EXCEPT !.turn = "busy", !.spent = n]
<1>2. CASE Wakes(a)
  <2>1. n \in 0 .. WakeBudget /\ agent[a].spent \in Nat
    BY <1>1, <1>2, JobsAssumption DEF Wakes, AgentRec
  <2>2. Claim([agent[a] EXCEPT !.spent = n], FALSE) = r
    BY <1>1 DEF Claim, AgentRec
  <2>3. Notified(a) = [agent EXCEPT ![a] = r]
    <3>1. Notified(a) = [agent EXCEPT ![a] = Claim([agent[a] EXCEPT !.spent = n], FALSE)]
      BY <1>2 DEF Notified
    <3>2. QED BY <2>2, <3>1
  <2> HIDE DEF n
  <2>4. r \in AgentRec /\ r.phase = agent[a].phase /\ r.cleanup = agent[a].cleanup
        /\ r.owned = agent[a].owned /\ r.spent = n
    BY <1>1, <2>1 DEF AgentRec
  <2> HIDE DEF r
  <2>5. QED BY <1>1, <1>2, <2>3, <2>4 DEF AgentType, n
<1>3. CASE ~Wakes(a)
  BY <1>1, <1>3 DEF Notified, AgentType
<1>4. QED BY <1>2, <1>3

(* The end of a producer settles its job once.                              *)
LEMMA SettleMoves ==
  ASSUME Typed, NEW j \in Jobs, NEW outcome \in Outcomes, ProducerEnds(j, outcome)
  PROVE  /\ Typed' /\ UNCHANGED <<service, controls>>
         /\ (SettlesTo(j, outcome) /\ AgentsTold) \/ StaysSettled(j)
<1> USE JobsAssumption
<1>1. UNCHANGED <<service, controls>> /\ Settle(j, outcome) /\ job[j] \in JobRec
      /\ WaitType /\ AgentType /\ audit \in AuditRec /\ \A i \in Jobs : job[i] \in JobRec
  BY DEF ProducerEnds, Typed, JobType, AuditType
<1>2. CASE Terminal(j)
  <2> DEFINE r == [job[j] EXCEPT !.producer = "ended"]
  <2>1. job' = [job EXCEPT ![j] = r] /\ UNCHANGED <<agent, waits, audit>>
    BY <1>1, <1>2 DEF Settle, Late
  <2>2. r \in JobRec /\ r.owner = job[j].owner /\ r.stored = job[j].stored
        /\ r.status = job[j].status /\ r.reported = job[j].reported
    BY <1>1 DEF JobRec
  <2> HIDE DEF r
  <2>3. JobType' /\ StaysSettled(j)
    BY <1>2, <2>1, <2>2 DEF Typed, JobType, StaysSettled
  <2>4. QED BY <1>1, <2>1, <2>3 DEF Typed, AgentType, WaitType, ServiceType, AuditType
<1>3. CASE ~Terminal(j)
  <2> DEFINE told == job[j].reported \/ Waiters(j) # {}
             r == [[job[j] EXCEPT !.status = outcome, !.reported = told] EXCEPT !.producer = "ended"]
  <2>1. job' = [job EXCEPT ![j] = r] /\ waits' = Released({j})
    BY <1>1, <1>3 DEF Settle, Late, Settled
  <2>2. told \in BOOLEAN
    BY <1>1 DEF JobRec
  <2>3. Settled(j, "failed").reported = told
    BY <1>1 DEF Settled, JobRec
  <2>4. r \in JobRec /\ r.owner = job[j].owner /\ r.stored = job[j].stored
        /\ r.status = outcome /\ r.reported = told
    <3> HIDE DEF told
    <3>1. QED BY <1>1, <2>2 DEF JobRec
  <2> HIDE DEF r, told
  <2>5. /\ JobType'
        /\ \A i \in Jobs :
             /\ job'[i].owner = job[i].owner /\ job'[i].stored = job[i].stored
             /\ i # j => job'[i].status = job[i].status /\ job'[i].reported = job[i].reported
        /\ job'[j].status = outcome /\ job'[j].reported = told
    BY <2>1, <2>4 DEF Typed, JobType
  <2>6. /\ WaitType'
        /\ \A w \in Waits :
             /\ waits'[w].on = waits[w].on /\ waits'[w].counted = waits[w].counted
             /\ waits'[w].pc = IF waits[w].pc = "waiting" /\ waits[w].on = {j}
                               THEN "resolved" ELSE waits[w].pc
    <3>1. \A w \in Waits : (\E i \in {j} : waits[w].on = {i}) <=> waits[w].on = {j}
      OBVIOUS
    <3>2. {j} \in SUBSET Jobs
      OBVIOUS
    <3>3. /\ Released({j}) \in [Waits -> WaitRec]
          /\ \A w \in Waits :
               /\ Released({j})[w].on = waits[w].on /\ Released({j})[w].counted = waits[w].counted
               /\ Released({j})[w].pc = IF waits[w].pc = "waiting" /\ \E i \in {j} : waits[w].on = {i}
                                        THEN "resolved" ELSE waits[w].pc
      BY <1>1, <3>2, ReleaseMoves
    <3>4. QED BY <2>1, <3>1, <3>3 DEF WaitType
  <2>7. CASE Noticed(j)
    <3> DEFINE a == job[j].owner
               ns == [audit.noticed EXCEPT ![j] = @ + 1]
               ws == [audit.wakes EXCEPT ![a] = IF Wakes(a) THEN @ + 1 ELSE @]
    <3>1. a \in Agents /\ ~told
      BY <1>1, <2>3, <2>7 DEF Noticed, JobRec, Owners
    <3>2. agent' = Notified(a) /\ audit' = [audit EXCEPT !.noticed = ns, !.wakes = ws]
      <4>1. /\ agent' = Notified(a)
            /\ audit' = [audit EXCEPT !.noticed[j] = @ + 1, !.wakes[a] = IF Wakes(a) THEN @ + 1 ELSE @]
        BY <1>1, <1>3, <2>7 DEF Settle, Late
      <4>2. QED BY <4>1, <1>1 DEF AuditRec
    <3>3. ns \in [Jobs -> Nat] /\ ns[j] = audit.noticed[j] + 1
          /\ \A i \in Jobs : i # j => ns[i] = audit.noticed[i]
      BY <1>1 DEF AuditRec
    <3>4. ws \in [Agents -> Nat]
          /\ \A b \in Agents : ws[b] = IF b = a /\ Wakes(a) THEN audit.wakes[b] + 1 ELSE audit.wakes[b]
      BY <1>1, <3>1 DEF AuditRec
    <3> HIDE DEF a, ns, ws
    <3>5. audit' \in AuditRec /\ audit'.noticed = ns /\ audit'.wakes = ws
          /\ audit'.asked = audit.asked /\ audit'.told = audit.told /\ audit'.unheard = audit.unheard
      BY <1>1, <3>2, <3>3, <3>4 DEF AuditRec
    <3>6. SettlesTo(j, outcome)
      BY <1>3, <2>5, <2>6, <3>1, <3>3, <3>5 DEF SettlesTo, a, told
    <3>7. AgentType' /\ AgentsTold
      BY <1>1, <3>1, <3>2, <3>4, <3>5, NotifyMoves DEF AgentsTold, AgentType
    <3>8. QED BY <1>1, <2>5, <2>6, <3>5, <3>6, <3>7 DEF Typed, ServiceType, AuditType
  <2>8. CASE ~Noticed(j)
    <3> DEFINE u == IF Heard THEN audit.unheard ELSE audit.unheard \cup {j}
    <3>1. agent' = agent /\ audit' = [audit EXCEPT !.unheard = u]
      BY <1>1, <1>3, <2>8 DEF Settle, Late
    <3>2. u \in SUBSET Jobs /\ audit.unheard \subseteq u /\ u \subseteq audit.unheard \cup {j}
          /\ (Heard \/ j \in u)
      BY <1>1 DEF AuditRec
    <3> HIDE DEF u
    <3>3. audit' \in AuditRec /\ audit'.noticed = audit.noticed /\ audit'.wakes = audit.wakes
          /\ audit'.asked = audit.asked /\ audit'.told = audit.told /\ audit'.unheard = u
      BY <1>1, <3>1, <3>2 DEF AuditRec
    <3>4. told \/ job[j].owner = Shared \/ j \in u
      BY <2>3, <2>8, <3>2 DEF Noticed
    <3>5. SettlesTo(j, outcome)
      BY <1>3, <2>5, <2>6, <3>2, <3>3, <3>4 DEF SettlesTo, told
    <3>6. AgentType' /\ AgentsTold
      BY <1>1, <3>1, <3>3 DEF AgentsTold, AgentType
    <3>7. QED BY <1>1, <2>5, <2>6, <3>3, <3>5, <3>6 DEF Typed, ServiceType, AuditType
  <2>9. QED BY <2>7, <2>8
<1>4. QED BY <1>2, <1>3

(* Every step keeps every variable in its type.                             *)
LEMMA TypeStep ==
  ASSUME Typed, [Next]_vars
  PROVE  Typed'
<1> USE JobsAssumption
<1>1. ASSUME NEW j \in Jobs, NEW o \in Owners, Start(j, o)
      PROVE  Typed'
  <2>1. JobType'
    BY <1>1 DEF Start, NewJob, JobType, JobRec, Owners, Typed
  <2>2. AgentType'
    BY <1>1 DEF Start, NewJob, AgentType, AgentRec, Owners, Typed
  <2>3. WaitType'
    BY <1>1 DEF Start, WaitType, Typed
  <2>4. ServiceType'
    BY <1>1 DEF Start, ServiceType, Typed
  <2>5. AuditType'
    BY <1>1 DEF Start, AuditType, Typed
  <2>6. QED BY <2>1, <2>2, <2>3, <2>4, <2>5 DEF Typed
<1>1a. ASSUME NEW a \in Agents, StartRefused(a)
      PROVE  Typed'
  <2>1. JobType'
    BY <1>1a DEF StartRefused, JobType, Typed
  <2>2. AgentType'
    BY <1>1a DEF StartRefused, AgentType, AgentRec, Owners, Typed
  <2>3. WaitType'
    BY <1>1a DEF StartRefused, WaitType, Typed
  <2>4. ServiceType'
    BY <1>1a DEF StartRefused, ServiceType, Typed
  <2>5. AuditType'
    BY <1>1a DEF StartRefused, AuditType, Typed
  <2>6. QED BY <2>1, <2>2, <2>3, <2>4, <2>5 DEF Typed
<1>2. ASSUME NEW j \in Jobs, Read(j)
      PROVE  Typed'
  <2>1. JobType'
    BY <1>2 DEF Read, Callable, Terminal, JobType, JobRec, Owners, Typed
  <2>2. AgentType'
    BY <1>2 DEF Read, AgentType, Typed
  <2>3. WaitType'
    BY <1>2 DEF Read, WaitType, Typed
  <2>4. ServiceType'
    BY <1>2 DEF Read, ServiceType, Typed
  <2>5. AuditType'
    BY <1>2 DEF Read, AuditType, Typed
  <2>6. QED BY <2>1, <2>2, <2>3, <2>4, <2>5 DEF Typed
<1>3. ASSUME NEW j \in Jobs, Kill(j)
      PROVE  Typed'
  <2>1. JobType'
    <3> DEFINE r == [[[job[j] EXCEPT !.status = "stopping"] EXCEPT !.reported = TRUE] EXCEPT !.producer = "stopping"]
    <3>1. job' = [job EXCEPT ![j] = r]
      BY <1>3 DEF Kill
    <3>2. job[j] \in JobRec /\ job \in [Jobs -> JobRec]
      BY DEF Typed, JobType
    <3>3. r \in JobRec
      BY <3>2 DEF JobRec
    <3> HIDE DEF r
    <3>4. QED BY <3>1, <3>2, <3>3 DEF JobType
  <2>2. AgentType'
    BY <1>3 DEF Kill, AgentType, Typed
  <2>3. WaitType'
    BY <1>3 DEF Kill, WaitType, Typed
  <2>4. ServiceType'
    BY <1>3 DEF Kill, ServiceType, Typed
  <2>5. AuditType'
    BY <1>3 DEF Kill, Callable, Active, AuditType, AuditRec, Owners, Typed
  <2>6. QED BY <2>1, <2>2, <2>3, <2>4, <2>5 DEF Typed
<1>4. ASSUME NEW w \in Waits, NEW j \in Jobs, Wait(w, j)
      PROVE  Typed'
  <2>1. JobType'
    BY <1>4 DEF Wait, JobType, Typed
  <2>2. AgentType'
    BY <1>4 DEF Wait, AgentType, Typed
  <2>3. WaitType'
    BY <1>4 DEF Wait, Callable, Active, WaitType, WaitRec, Owners, Typed
  <2>4. ServiceType'
    BY <1>4 DEF Wait, ServiceType, Typed
  <2>5. AuditType'
    BY <1>4 DEF Wait, AuditType, Typed
  <2>6. QED BY <2>1, <2>2, <2>3, <2>4, <2>5 DEF Typed
<1>5. ASSUME NEW w \in Waits, Aborts(w)
      PROVE  Typed'
  <2>1. JobType'
    BY <1>5 DEF Aborts, JobType, Typed
  <2>2. AgentType'
    BY <1>5 DEF Aborts, AgentType, Typed
  <2>3. WaitType'
    BY <1>5 DEF Aborts, NoWait, WaitType, WaitRec, Owners, Typed
  <2>4. ServiceType'
    BY <1>5 DEF Aborts, ServiceType, Typed
  <2>5. AuditType'
    BY <1>5 DEF Aborts, AuditType, Typed
  <2>6. QED BY <2>1, <2>2, <2>3, <2>4, <2>5 DEF Typed
<1>6. ASSUME NEW j \in Jobs, NEW outcome \in Outcomes, ProducerEnds(j, outcome)
      PROVE  Typed'
  BY <1>6, SettleMoves
<1>7. ASSUME NEW w \in Waits, TimesOut(w)
      PROVE  Typed'
  <2>1. JobType'
    BY <1>7 DEF TimesOut, JobType, Typed
  <2>2. AgentType'
    BY <1>7 DEF TimesOut, AgentType, Typed
  <2>3. WaitType'
    BY <1>7 DEF TimesOut, WaitType, WaitRec, Owners, Typed
  <2>4. ServiceType'
    BY <1>7 DEF TimesOut, ServiceType, Typed
  <2>5. AuditType'
    BY <1>7 DEF TimesOut, AuditType, Typed
  <2>6. QED BY <2>1, <2>2, <2>3, <2>4, <2>5 DEF Typed
<1>8. ASSUME NEW w \in Waits, Continues(w)
      PROVE  Typed'
  <2>1. JobType'
    <3>1. job' = [j \in Jobs |-> IF j \in {i \in waits[w].on : Terminal(i)}
                                THEN [job[j] EXCEPT !.reported = TRUE] ELSE job[j]]
      BY <1>8 DEF Continues
    <3>2. \A j \in Jobs : job[j] \in JobRec /\ [job[j] EXCEPT !.reported = TRUE] \in JobRec
      BY JobFields DEF Typed, JobType
    <3>3. QED BY <3>1, <3>2 DEF JobType
  <2>2. AgentType'
    BY <1>8 DEF Continues, AgentType, Typed
  <2>3. WaitType'
    BY <1>8 DEF Continues, NoWait, Terminal, WaitType, WaitRec, Owners, Typed
  <2>4. ServiceType'
    BY <1>8 DEF Continues, ServiceType, Typed
  <2>5. AuditType'
    <3> DEFINE u == audit.told \cup {i \in waits[w].on : Terminal(i)}
    <3>1. audit' = [audit EXCEPT !.told = u]
      BY <1>8 DEF Continues
    <3>2. u \in SUBSET Jobs
      BY DEF Typed, AuditType, AuditRec, WaitType, WaitRec
    <3> HIDE DEF u
    <3>3. QED BY <3>1, <3>2 DEF Typed, AuditType, AuditRec
  <2>6. QED BY <2>1, <2>2, <2>3, <2>4, <2>5 DEF Typed
<1>9. ASSUME NEW a \in Agents, Leave(a)
      PROVE  Typed'
  <2>1. JobType'
    BY <1>9 DEF Leave, JobType, Typed
  <2>2. AgentType'
    BY <1>9 DEF Leave, AgentType, AgentRec, Owners, Typed
  <2>3. WaitType'
    BY <1>9 DEF Leave, WaitType, Typed
  <2>4. ServiceType'
    BY <1>9 DEF Leave, ServiceType, Typed
  <2>5. AuditType'
    BY <1>9 DEF Leave, AuditType, Typed
  <2>6. QED BY <2>1, <2>2, <2>3, <2>4, <2>5 DEF Typed
<1>10. ASSUME NEW a \in Agents, ScopeUnloads(a)
      PROVE  Typed'
  <2>1. JobType'
    BY <1>10 DEF ScopeUnloads, JobType, Typed
  <2>2. AgentType'
    BY <1>10 DEF ScopeUnloads, AgentType, AgentRec, Owners, Typed
  <2>3. WaitType'
    BY <1>10 DEF ScopeUnloads, WaitType, Typed
  <2>4. ServiceType'
    BY <1>10 DEF ScopeUnloads, ServiceType, Typed
  <2>5. AuditType'
    BY <1>10 DEF ScopeUnloads, AuditType, Typed
  <2>6. QED BY <2>1, <2>2, <2>3, <2>4, <2>5 DEF Typed
<1>11. ASSUME NEW a \in Agents, NoCleanup(a)
      PROVE  Typed'
  <2>1. JobType'
    BY <1>11 DEF NoCleanup, JobType, Typed
  <2>2. AgentType'
    BY <1>11 DEF NoCleanup, AgentType, AgentRec, Owners, Typed
  <2>3. WaitType'
    BY <1>11 DEF NoCleanup, WaitType, Typed
  <2>4. ServiceType'
    BY <1>11 DEF NoCleanup, ServiceType, Typed
  <2>5. AuditType'
    BY <1>11 DEF NoCleanup, AuditType, Typed
  <2>6. QED BY <2>1, <2>2, <2>3, <2>4, <2>5 DEF Typed
<1>12. ASSUME NEW a \in Agents, OwnerCleanup(a)
      PROVE  Typed'
  <2>1. JobType'
    <3>1. OwnedBy(a) \in SUBSET Jobs /\ CancelForTeardown(OwnedBy(a))
      BY <1>12 DEF OwnerCleanup, OwnedBy
    <3>2. QED BY <3>1, TeardownMoves DEF TornTo
  <2>2. AgentType'
    <3> DEFINE S == OwnedBy(a)
             r == [[[agent[a] EXCEPT !.phase = "draining"] EXCEPT !.cleanup = FALSE] EXCEPT !.owned = S]
    <3>1. agent' = [agent EXCEPT ![a] = r]
      BY <1>12 DEF OwnerCleanup
    <3>2. agent[a] \in AgentRec /\ agent \in [Agents -> AgentRec] /\ S \in SUBSET Jobs
      BY DEF Typed, AgentType, OwnedBy
    <3> HIDE DEF S
    <3>3. r \in AgentRec
      BY <3>2 DEF AgentRec
    <3> HIDE DEF r
    <3>4. QED BY <3>1, <3>2, <3>3 DEF AgentType
  <2>3. WaitType'
    <3>1. OwnedBy(a) \in SUBSET Jobs /\ CancelForTeardown(OwnedBy(a))
      BY <1>12 DEF OwnerCleanup, OwnedBy
    <3>2. QED BY <3>1, TeardownMoves DEF TornTo
  <2>4. ServiceType'
    BY <1>12 DEF OwnerCleanup, ServiceType, Typed
  <2>5. AuditType'
    <3>1. OwnedBy(a) \in SUBSET Jobs /\ CancelForTeardown(OwnedBy(a))
      BY <1>12 DEF OwnerCleanup, OwnedBy
    <3>2. QED BY <3>1, TeardownMoves DEF TornTo
  <2>6. QED BY <2>1, <2>2, <2>3, <2>4, <2>5 DEF Typed
<1>13. ASSUME NEW a \in Agents, OwnerDrained(a)
      PROVE  Typed'
  <2>1. JobType'
    <3>1. job' = [j \in Jobs |-> IF j \in agent[a].owned THEN [job[j] EXCEPT !.stored = FALSE] ELSE job[j]]
      BY <1>13 DEF OwnerDrained
    <3>2. \A j \in Jobs : job[j] \in JobRec
      BY DEF Typed, JobType
    <3>3. \A j \in Jobs : [job[j] EXCEPT !.stored = FALSE] \in JobRec
      BY <3>2 DEF JobRec
    <3>4. QED BY <3>1, <3>2, <3>3 DEF JobType
  <2>2. AgentType'
    <3> DEFINE r == [[agent[a] EXCEPT !.phase = "gone"] EXCEPT !.owned = {}]
    <3>1. agent' = [agent EXCEPT ![a] = r]
      BY <1>13 DEF OwnerDrained
    <3>2. agent[a] \in AgentRec /\ agent \in [Agents -> AgentRec]
      BY DEF Typed, AgentType
    <3>3. r \in AgentRec
      BY <3>2 DEF AgentRec
    <3> HIDE DEF r
    <3>4. QED BY <3>1, <3>2, <3>3 DEF AgentType
  <2>3. WaitType'
    BY <1>13 DEF OwnerDrained, WaitType, Typed
  <2>4. ServiceType'
    BY <1>13 DEF OwnerDrained, ServiceType, Typed
  <2>5. AuditType'
    BY <1>13 DEF OwnerDrained, AuditType, Typed
  <2>6. QED BY <2>1, <2>2, <2>3, <2>4, <2>5 DEF Typed
<1>14. ASSUME NEW a \in Agents, HumanTurn(a)
      PROVE  Typed'
  <2>1. JobType'
    BY <1>14 DEF HumanTurn, JobType, Typed
  <2>2. AgentType'
    <3> DEFINE r == IF controls THEN Claim(agent[a], TRUE) ELSE [agent[a] EXCEPT !.turn = "busy"]
    <3>1. agent' = [agent EXCEPT ![a] = r]
      BY <1>14 DEF HumanTurn
    <3>2. agent[a] \in AgentRec /\ agent \in [Agents -> AgentRec]
      BY DEF Typed, AgentType
    <3>3. r \in AgentRec
      <4>1. Claim(agent[a], TRUE) = [agent[a] EXCEPT !.turn = "busy", !.spent = 0]
        BY DEF Claim
      <4>2. 0 \in 0 .. WakeBudget
        BY JobsAssumption
      <4>3. QED BY <3>2, <4>1, <4>2 DEF AgentRec
    <3> HIDE DEF r
    <3>4. QED BY <3>1, <3>2, <3>3 DEF AgentType
  <2>3. WaitType'
    BY <1>14 DEF HumanTurn, WaitType, Typed
  <2>4. ServiceType'
    BY <1>14 DEF HumanTurn, ServiceType, Typed
  <2>5. AuditType'
    BY <1>14 DEF HumanTurn, Claim, Spend, AuditType, AuditRec, Owners, Typed
  <2>6. QED BY <2>1, <2>2, <2>3, <2>4, <2>5 DEF Typed
<1>15. ASSUME NEW a \in Agents, TurnEnds(a)
      PROVE  Typed'
  <2>1. JobType'
    BY <1>15 DEF TurnEnds, JobType, Typed
  <2>2. AgentType'
    BY <1>15 DEF TurnEnds, AgentType, AgentRec, Owners, Typed
  <2>3. WaitType'
    BY <1>15 DEF TurnEnds, WaitType, Typed
  <2>4. ServiceType'
    BY <1>15 DEF TurnEnds, ServiceType, Typed
  <2>5. AuditType'
    BY <1>15 DEF TurnEnds, AuditType, Typed
  <2>6. QED BY <2>1, <2>2, <2>3, <2>4, <2>5 DEF Typed
<1>16. ASSUME ServiceUnloads
      PROVE  Typed'
  <2>1. JobType'
    BY <1>16 DEF ServiceUnloads, JobType, Typed
  <2>2. AgentType'
    BY <1>16 DEF ServiceUnloads, AgentType, Typed
  <2>3. WaitType'
    BY <1>16 DEF ServiceUnloads, WaitType, Typed
  <2>4. ServiceType'
    BY <1>16 DEF ServiceUnloads, ServiceType, ServiceRec, Owners, Typed
  <2>5. AuditType'
    BY <1>16 DEF ServiceUnloads, AuditType, Typed
  <2>6. QED BY <2>1, <2>2, <2>3, <2>4, <2>5 DEF Typed
<1>17. ASSUME ServiceCloses
      PROVE  Typed'
  <2>1. JobType'
    <3>1. Stored \in SUBSET Jobs /\ CancelForTeardown(Stored)
      BY <1>17 DEF ServiceCloses, Stored
    <3>2. QED BY <3>1, TeardownMoves DEF TornTo
  <2>2. AgentType'
    BY <1>17 DEF ServiceCloses, AgentType, Typed
  <2>3. WaitType'
    <3>1. Stored \in SUBSET Jobs /\ CancelForTeardown(Stored)
      BY <1>17 DEF ServiceCloses, Stored
    <3>2. QED BY <3>1, TeardownMoves DEF TornTo
  <2>4. ServiceType'
    BY <1>17 DEF ServiceCloses, ServiceType, ServiceRec, Stored, Typed
  <2>5. AuditType'
    <3>1. Stored \in SUBSET Jobs /\ CancelForTeardown(Stored)
      BY <1>17 DEF ServiceCloses, Stored
    <3>2. QED BY <3>1, TeardownMoves DEF TornTo
  <2>6. QED BY <2>1, <2>2, <2>3, <2>4, <2>5 DEF Typed
<1>18. ASSUME ServiceDrained
      PROVE  Typed'
  <2>1. JobType'
    <3>1. job' = [j \in Jobs |-> [job[j] EXCEPT !.stored = FALSE]]
      BY <1>18 DEF ServiceDrained
    <3>2. \A j \in Jobs : job[j] \in JobRec
      BY DEF Typed, JobType
    <3>3. \A j \in Jobs : [job[j] EXCEPT !.stored = FALSE] \in JobRec
      BY <3>2 DEF JobRec
    <3>4. QED BY <3>1, <3>3 DEF JobType
  <2>2. AgentType'
    BY <1>18 DEF ServiceDrained, AllSettled, Terminal, AgentType, AgentRec, Owners,
       Typed
  <2>3. WaitType'
    BY <1>18 DEF ServiceDrained, WaitType, Typed
  <2>4. ServiceType'
    BY <1>18 DEF ServiceDrained, AllSettled, Terminal, ServiceType, ServiceRec,
       Owners, Typed
  <2>5. AuditType'
    BY <1>18 DEF ServiceDrained, AuditType, Typed
  <2>6. QED BY <2>1, <2>2, <2>3, <2>4, <2>5 DEF Typed
<1>19. ASSUME ControlsUnload
      PROVE  Typed'
  <2>1. JobType'
    BY <1>19 DEF ControlsUnload, JobType, Typed
  <2>2. AgentType'
    BY <1>19 DEF ControlsUnload, AgentType, Typed
  <2>3. WaitType'
    BY <1>19 DEF ControlsUnload, WaitType, Typed
  <2>4. ServiceType'
    BY <1>19 DEF ControlsUnload, Spend, ServiceType, ServiceRec, Owners, Typed
  <2>5. AuditType'
    BY <1>19 DEF ControlsUnload, AuditType, Typed
  <2>6. QED BY <2>1, <2>2, <2>3, <2>4, <2>5 DEF Typed
<1>20. ASSUME ControlsLoad
      PROVE  Typed'
  <2>1. JobType'
    BY <1>20 DEF ControlsLoad, JobType, Typed
  <2>2. AgentType'
    BY <1>20 DEF ControlsLoad, AgentType, AgentRec, Owners, Typed
  <2>3. WaitType'
    BY <1>20 DEF ControlsLoad, WaitType, Typed
  <2>4. ServiceType'
    BY <1>20 DEF ControlsLoad, ServiceType, ServiceRec, Owners, Typed
  <2>5. AuditType'
    BY <1>20 DEF ControlsLoad, AuditType, AuditRec, Owners, Typed
  <2>6. QED BY <2>1, <2>2, <2>3, <2>4, <2>5 DEF Typed
<1>21. CASE UNCHANGED vars
  BY <1>21 DEF vars, Typed, JobType, AgentType, WaitType, ServiceType, AuditType
<1>22. QED
  BY <1>1, <1>1a, <1>2, <1>3, <1>4, <1>5, <1>6, <1>7, <1>8, <1>9, <1>10, <1>11, <1>12,
     <1>13, <1>14, <1>15, <1>16, <1>17, <1>18, <1>19, <1>20, <1>21 DEF Next, Tools,
     Producers, Timers, OwnerLeaves, ServiceLeaves

(* Every step keeps the store in someone's care.                            *)
LEMMA KeptStep ==
  ASSUME Typed, StoreKept, [Next]_vars
  PROVE  StoreKept'
<1> USE JobsAssumption
<1>1. ASSUME NEW j \in Jobs, NEW o \in Owners, Start(j, o)
      PROVE  StoreKept'
  BY <1>1 DEF Start, Attachable, NewJob, Typed, JobType, JobRec, AgentType,
     AgentRec, WaitType, WaitRec, ServiceType, ServiceRec, AuditType, AuditRec,
     StoreKept, Kept, Active
<1>1a. ASSUME NEW a \in Agents, StartRefused(a)
      PROVE  StoreKept'
  BY <1>1a DEF StartRefused, Typed, JobType, JobRec, AgentType, AgentRec, WaitType,
     WaitRec, ServiceType, ServiceRec, AuditType, AuditRec, StoreKept, Kept, Active
<1>2. ASSUME NEW j \in Jobs, Read(j)
      PROVE  StoreKept'
  BY <1>2 DEF Read, Callable, Terminal, Typed, JobType, JobRec, AgentType,
     AgentRec, WaitType, WaitRec, ServiceType, ServiceRec, AuditType, AuditRec,
     StoreKept, Kept, Active
<1>3. ASSUME NEW j \in Jobs, Kill(j)
      PROVE  StoreKept'
  BY <1>3 DEF Kill, Callable, Active, Typed, JobType, JobRec, AgentType, AgentRec,
     WaitType, WaitRec, ServiceType, ServiceRec, AuditType, AuditRec, StoreKept,
     Kept, Active
<1>4. ASSUME NEW w \in Waits, NEW j \in Jobs, Wait(w, j)
      PROVE  StoreKept'
  BY <1>4 DEF Wait, Callable, Active, Typed, JobType, JobRec, AgentType, AgentRec,
     WaitType, WaitRec, ServiceType, ServiceRec, AuditType, AuditRec, StoreKept,
     Kept, Active
<1>5. ASSUME NEW w \in Waits, Aborts(w)
      PROVE  StoreKept'
  BY <1>5 DEF Aborts, NoWait, Typed, JobType, JobRec, AgentType, AgentRec,
     WaitType, WaitRec, ServiceType, ServiceRec, AuditType, AuditRec, StoreKept,
     Kept, Active
<1>6. ASSUME NEW j \in Jobs, NEW outcome \in Outcomes, ProducerEnds(j, outcome)
      PROVE  StoreKept'
  <2>1. UNCHANGED <<service, controls>> /\ ((SettlesTo(j, outcome) /\ AgentsTold) \/ StaysSettled(j))
    BY <1>6, SettleMoves
  <2>2. CASE SettlesTo(j, outcome) /\ AgentsTold
    BY <2>1, <2>2 DEF StoreKept, Kept, Active, Terminal, SettlesTo, AgentsTold
  <2>3. CASE StaysSettled(j)
    BY <2>1, <2>3 DEF StoreKept, Kept, Active, StaysSettled
  <2>4. QED BY <2>1, <2>2, <2>3
<1>7. ASSUME NEW w \in Waits, TimesOut(w)
      PROVE  StoreKept'
  BY <1>7 DEF TimesOut, Typed, JobType, JobRec, AgentType, AgentRec, WaitType,
     WaitRec, ServiceType, ServiceRec, AuditType, AuditRec, StoreKept, Kept, Active
<1>8. ASSUME NEW w \in Waits, Continues(w)
      PROVE  StoreKept'
  BY <1>8 DEF Continues, NoWait, Terminal, Typed, JobType, JobRec, AgentType,
     AgentRec, WaitType, WaitRec, ServiceType, ServiceRec, AuditType, AuditRec,
     StoreKept, Kept, Active
<1>9. ASSUME NEW a \in Agents, Leave(a)
      PROVE  StoreKept'
  BY <1>9 DEF Leave, Typed, JobType, JobRec, AgentType, AgentRec, WaitType,
     WaitRec, ServiceType, ServiceRec, AuditType, AuditRec, StoreKept, Kept, Active
<1>10. ASSUME NEW a \in Agents, ScopeUnloads(a)
      PROVE  StoreKept'
  BY <1>10 DEF ScopeUnloads, Typed, JobType, JobRec, AgentType, AgentRec, WaitType,
     WaitRec, ServiceType, ServiceRec, AuditType, AuditRec, StoreKept, Kept, Active
<1>11. ASSUME NEW a \in Agents, NoCleanup(a)
      PROVE  StoreKept'
  BY <1>11 DEF NoCleanup, Typed, JobType, JobRec, AgentType, AgentRec, WaitType,
     WaitRec, ServiceType, ServiceRec, AuditType, AuditRec, StoreKept, Kept, Active
<1>12. ASSUME NEW a \in Agents, OwnerCleanup(a)
      PROVE  StoreKept'
  <2>1. OwnedBy(a) \in SUBSET Jobs /\ CancelForTeardown(OwnedBy(a))
    BY <1>12 DEF OwnerCleanup, OwnedBy
  <2>2. PICK T \in SUBSET Doomed(OwnedBy(a)) : TornTo(OwnedBy(a), T)
    BY <2>1, TeardownMoves
  <2>3. Doomed(OwnedBy(a)) = {j \in OwnedBy(a) : Active(j)} /\ OwnedBy(a) = {j \in Jobs : job[j].stored /\ job[j].owner = a}
    BY DEF Doomed, OwnedBy
  <2>4. /\ agent' = [agent EXCEPT ![a].phase = "draining", ![a].cleanup = FALSE, ![a].owned = OwnedBy(a)]
        /\ UNCHANGED <<service, controls>>
    BY <1>12 DEF OwnerCleanup
  <2>4a. /\ agent'[a].phase = "draining" /\ agent'[a].owned = OwnedBy(a) /\ ~agent'[a].cleanup
         /\ \A b \in Agents : b # a => agent'[b] = agent[b]
         /\ agent[a].phase = "unloading"
    <3> DEFINE S == OwnedBy(a)
               r == [[[agent[a] EXCEPT !.phase = "draining"] EXCEPT !.cleanup = FALSE] EXCEPT !.owned = S]
    <3>1. agent' = [agent EXCEPT ![a] = r]
      BY <2>4
    <3>2. agent[a] \in AgentRec /\ agent \in [Agents -> AgentRec] /\ agent[a].phase = "unloading"
      BY <1>12 DEF Typed, AgentType, OwnerCleanup
    <3> HIDE DEF S
    <3>3. r.phase = "draining" /\ r.owned = S /\ r.cleanup = FALSE
      BY <3>2 DEF AgentRec
    <3> HIDE DEF r
    <3>4. QED BY <3>1, <3>2, <3>3 DEF S
  <2>5. /\ \A i \in Jobs : Active(i)' = (job'[i].status \in {"running", "stopping"})
        /\ \A i \in Jobs : Terminal(i)' = (job'[i].status \in Outcomes)
        /\ Outcomes \cap {"new", "running", "stopping"} = {} /\ "failed" \in Outcomes
    BY DEF Active, Terminal
  <2>6. \A i \in Jobs : /\ job'[i].owner = job[i].owner /\ job'[i].stored = job[i].stored
                        /\ job'[i].status = IF i \in T THEN "failed"
                              ELSE IF i \in Doomed(OwnedBy(a)) THEN "stopping" ELSE job[i].status
    BY <2>2 DEF TornTo
  <2>7. \A i \in Jobs : i \in OwnedBy(a) <=> job[i].stored /\ job[i].owner = a
    BY DEF OwnedBy
  <2>8. \A i \in Jobs : i \in Doomed(OwnedBy(a)) => job[i].stored /\ job[i].owner = a /\ Active(i)
    BY <2>3
  <2>9. ASSUME NEW i \in Jobs
        PROVE  Kept(i)'
    <3>1. Active(i)' => Active(i)
      BY <2>2, <2>5, <2>6, <2>8 DEF Active
    <3>2. job[i].status = "new" <=> job'[i].status = "new"
      BY <2>2, <2>5, <2>6, <2>8 DEF Active
    <3>3. service' = service
      BY <2>4
    <3>4. QED BY <2>4a, <2>6, <2>7, <3>1, <3>2, <3>3 DEF StoreKept, Kept
  <2>10. QED BY <2>9 DEF StoreKept
<1>13. ASSUME NEW a \in Agents, OwnerDrained(a)
      PROVE  StoreKept'
  <2>1. \A i \in Jobs : /\ job'[i].stored = (job[i].stored /\ i \notin agent[a].owned)
                        /\ job'[i].owner = job[i].owner /\ job'[i].status = job[i].status
    <3>1. job' = [j \in Jobs |-> IF j \in agent[a].owned THEN [job[j] EXCEPT !.stored = FALSE] ELSE job[j]]
      BY <1>13 DEF OwnerDrained
    <3>2. \A j \in Jobs : job[j] \in JobRec
      BY DEF Typed, JobType
    <3>3. QED BY <3>1, <3>2 DEF JobRec
  <2>2. agent[a].phase = "draining" /\ UNCHANGED service /\ \A j \in agent[a].owned : Terminal(j)
    BY <1>13 DEF OwnerDrained
  <2>3. agent'[a].phase = "gone" /\ \A b \in Agents : b # a => agent'[b] = agent[b]
    <3>1. agent[a] \in AgentRec /\ agent \in [Agents -> AgentRec]
      BY DEF Typed, AgentType
    <3>2. agent' = [agent EXCEPT ![a].phase = "gone", ![a].owned = {}]
      BY <1>13 DEF OwnerDrained
    <3>3. QED BY <3>1, <3>2 DEF AgentRec
  <2>4. ASSUME NEW i \in Jobs
        PROVE  Kept(i)'
    <3>1. Active(i)' = Active(i) /\ (Active(i) => ~Terminal(i))
      BY <2>1 DEF Active, Terminal
    <3>2. Kept(i)
      BY DEF StoreKept
    <3>3. CASE job[i].owner = a
      <4>1. ~job'[i].stored
        BY <2>1, <2>2, <3>2, <3>3 DEF Kept
      <4>2. ~Active(i)
        BY <2>1, <2>2, <3>1, <3>2, <3>3 DEF Kept
      <4>3. QED BY <3>1, <4>1, <4>2 DEF Kept
    <3>4. CASE job[i].owner # a
      <4>1. i \in agent[a].owned => Terminal(i)
        BY <2>2
      <4>2. CASE i \in agent[a].owned
        <5>1. ~job'[i].stored /\ ~Active(i)
          BY <2>1, <3>1, <4>1, <4>2
        <5>2. QED BY <3>1, <5>1 DEF Kept
      <4>3. CASE i \notin agent[a].owned
        <5>1. job'[i].stored = job[i].stored /\ job'[i].owner = job[i].owner
              /\ job'[i].status = job[i].status /\ service' = service
          <6>1. job[i].stored \in BOOLEAN
            BY DEF Typed, JobType, JobRec
          <6>2. QED BY <2>1, <2>2, <4>3, <6>1
        <5>2. job[i].owner \in Agents => agent'[job[i].owner] = agent[job[i].owner]
          BY <2>3, <3>4
        <5>3. QED BY <3>1, <3>2, <5>1, <5>2 DEF Kept
      <4>4. QED BY <4>2, <4>3
    <3>5. QED BY <3>3, <3>4
  <2>5. QED BY <2>4 DEF StoreKept
<1>14. ASSUME NEW a \in Agents, HumanTurn(a)
      PROVE  StoreKept'
  BY <1>14 DEF HumanTurn, Claim, Spend, Typed, JobType, JobRec, AgentType,
     AgentRec, WaitType, WaitRec, ServiceType, ServiceRec, AuditType, AuditRec,
     StoreKept, Kept, Active
<1>15. ASSUME NEW a \in Agents, TurnEnds(a)
      PROVE  StoreKept'
  BY <1>15 DEF TurnEnds, Typed, JobType, JobRec, AgentType, AgentRec, WaitType,
     WaitRec, ServiceType, ServiceRec, AuditType, AuditRec, StoreKept, Kept, Active
<1>16. ASSUME ServiceUnloads
      PROVE  StoreKept'
  BY <1>16 DEF ServiceUnloads, Typed, JobType, JobRec, AgentType, AgentRec,
     WaitType, WaitRec, ServiceType, ServiceRec, AuditType, AuditRec, StoreKept,
     Kept, Active
<1>17. ASSUME ServiceCloses
      PROVE  StoreKept'
  <2>1. Stored \in SUBSET Jobs /\ CancelForTeardown(Stored)
    BY <1>17 DEF ServiceCloses, Stored
  <2>2. PICK T \in SUBSET Doomed(Stored) : TornTo(Stored, T)
    BY <2>1, TeardownMoves
  <2>3. Doomed(Stored) = {j \in Stored : Active(j)} /\ Stored = {j \in Jobs : job[j].stored}
    BY DEF Doomed, Stored
  <2>4. service'.phase = "draining" /\ service'.all = Stored /\ UNCHANGED <<agent, controls>> /\ service.phase = "unloading"
    BY <1>17 DEF ServiceCloses
  <2>5. /\ \A i \in Jobs : Active(i)' = (job'[i].status \in {"running", "stopping"})
        /\ \A i \in Jobs : Terminal(i)' = (job'[i].status \in Outcomes)
        /\ Outcomes \cap {"new", "running", "stopping"} = {} /\ "failed" \in Outcomes
    BY DEF Active, Terminal
  <2>6. \A i \in Jobs : /\ job'[i].owner = job[i].owner /\ job'[i].stored = job[i].stored
                        /\ job'[i].status = IF i \in T THEN "failed"
                              ELSE IF i \in Doomed(Stored) THEN "stopping" ELSE job[i].status
    BY <2>2 DEF TornTo
  <2>7. \A i \in Jobs : i \in Stored <=> job[i].stored
    BY DEF Stored
  <2>8. \A i \in Jobs : i \in Doomed(Stored) => job[i].stored /\ Active(i)
    BY <2>3
  <2>9. ASSUME NEW i \in Jobs
        PROVE  Kept(i)'
    <3>1. Active(i)' => Active(i)
      BY <2>2, <2>5, <2>6, <2>8 DEF Active
    <3>2. job[i].status = "new" <=> job'[i].status = "new"
      BY <2>2, <2>5, <2>6, <2>8 DEF Active
    <3>4. QED BY <2>4, <2>6, <2>7, <3>1, <3>2 DEF StoreKept, Kept
  <2>10. QED BY <2>9 DEF StoreKept
<1>18. ASSUME ServiceDrained
      PROVE  StoreKept'
  <2>1. \A i \in Jobs : /\ job'[i].stored = FALSE /\ job'[i].owner = job[i].owner
                        /\ job'[i].status = job[i].status /\ job'[i].reported = job[i].reported
    <3>1. job' = [j \in Jobs |-> [job[j] EXCEPT !.stored = FALSE]]
      BY <1>18 DEF ServiceDrained
    <3>2. \A j \in Jobs : job[j] \in JobRec
      BY DEF Typed, JobType
    <3>3. QED BY <3>1, <3>2 DEF JobRec
  <2>2. ASSUME NEW i \in Jobs
        PROVE  ~Active(i)
    <3>1. Active(i) => i \in service.all
      BY <1>18 DEF StoreKept, Kept, ServiceDrained
    <3>2. \A j \in service.all : Terminal(j)
      BY <1>18 DEF ServiceDrained, AllSettled
    <3>3. QED BY <3>1, <3>2 DEF Active, Terminal
  <2>3. QED BY <2>1, <2>2 DEF StoreKept, Kept, Active
<1>19. ASSUME ControlsUnload
      PROVE  StoreKept'
  BY <1>19 DEF ControlsUnload, Spend, Typed, JobType, JobRec, AgentType, AgentRec,
     WaitType, WaitRec, ServiceType, ServiceRec, AuditType, AuditRec, StoreKept,
     Kept, Active
<1>20. ASSUME ControlsLoad
      PROVE  StoreKept'
  BY <1>20 DEF ControlsLoad, Typed, JobType, JobRec, AgentType, AgentRec, WaitType,
     WaitRec, ServiceType, ServiceRec, AuditType, AuditRec, StoreKept, Kept, Active
<1>21. CASE UNCHANGED vars
  BY <1>21 DEF vars, StoreKept, Kept, Active
<1>22. QED
  BY <1>1, <1>1a, <1>2, <1>3, <1>4, <1>5, <1>6, <1>7, <1>8, <1>9, <1>10, <1>11, <1>12,
     <1>13, <1>14, <1>15, <1>16, <1>17, <1>18, <1>19, <1>20, <1>21 DEF Next, Tools,
     Producers, Timers, OwnerLeaves, ServiceLeaves

(* Every step keeps those asked to stop reported, and only those.           *)
LEMMA AskedStep ==
  ASSUME Typed, AskedReported, StoreKept, [Next]_vars
  PROVE  AskedReported'
<1> USE JobsAssumption
<1>1. ASSUME NEW j \in Jobs, NEW o \in Owners, Start(j, o)
      PROVE  AskedReported'
  BY <1>1 DEF Start, Attachable, NewJob, Typed, JobType, JobRec, AgentType,
     AgentRec, WaitType, WaitRec, ServiceType, ServiceRec, AuditType, AuditRec,
     AskedReported, Asked, Active, Terminal, StoreKept, Kept
<1>1a. ASSUME NEW a \in Agents, StartRefused(a)
      PROVE  AskedReported'
  BY <1>1a DEF StartRefused, Typed, JobType, JobRec, AgentType, AgentRec, WaitType,
     WaitRec, ServiceType, ServiceRec, AuditType, AuditRec, AskedReported, Asked,
     Active, Terminal, StoreKept, Kept
<1>2. ASSUME NEW j \in Jobs, Read(j)
      PROVE  AskedReported'
  BY <1>2 DEF Read, Callable, Terminal, Typed, JobType, JobRec, AgentType,
     AgentRec, WaitType, WaitRec, ServiceType, ServiceRec, AuditType, AuditRec,
     AskedReported, Asked, Active, Terminal, StoreKept, Kept
<1>3. ASSUME NEW j \in Jobs, Kill(j)
      PROVE  AskedReported'
  BY <1>3 DEF Kill, Callable, Active, Typed, JobType, JobRec, AgentType, AgentRec,
     WaitType, WaitRec, ServiceType, ServiceRec, AuditType, AuditRec,
     AskedReported, Asked, Active, Terminal, StoreKept, Kept
<1>4. ASSUME NEW w \in Waits, NEW j \in Jobs, Wait(w, j)
      PROVE  AskedReported'
  BY <1>4 DEF Wait, Callable, Active, Typed, JobType, JobRec, AgentType, AgentRec,
     WaitType, WaitRec, ServiceType, ServiceRec, AuditType, AuditRec,
     AskedReported, Asked, Active, Terminal, StoreKept, Kept
<1>5. ASSUME NEW w \in Waits, Aborts(w)
      PROVE  AskedReported'
  BY <1>5 DEF Aborts, NoWait, Typed, JobType, JobRec, AgentType, AgentRec,
     WaitType, WaitRec, ServiceType, ServiceRec, AuditType, AuditRec,
     AskedReported, Asked, Active, Terminal, StoreKept, Kept
<1>6. ASSUME NEW j \in Jobs, NEW outcome \in Outcomes, ProducerEnds(j, outcome)
      PROVE  AskedReported'
  <2>1. UNCHANGED <<service, controls>> /\ ((SettlesTo(j, outcome) /\ AgentsTold) \/ StaysSettled(j))
    BY <1>6, SettleMoves
  <2>5. /\ \A i \in Jobs : Active(i)' = (job'[i].status \in {"running", "stopping"})
        /\ \A i \in Jobs : Terminal(i)' = (job'[i].status \in Outcomes)
        /\ Outcomes \cap {"new", "running", "stopping"} = {} /\ "failed" \in Outcomes
    BY DEF Active, Terminal
  <2>6. ASSUME NEW i \in Jobs
        PROVE  Asked(i)'
    <3>1. Asked(i) /\ job[i] \in JobRec
      BY DEF AskedReported, Typed, JobType
    <3>2. CASE SettlesTo(j, outcome)
      <4>1. CASE i = j
        BY <3>1, <3>2, <2>5, <4>1 DEF Asked, SettlesTo, JobRec
      <4>2. CASE i # j
        BY <3>1, <3>2, <2>5, <4>2 DEF Asked, SettlesTo, Terminal
      <4>3. QED BY <4>1, <4>2
    <3>3. CASE StaysSettled(j)
      BY <3>1, <3>3, <2>5 DEF Asked, StaysSettled, Terminal
    <3>4. QED BY <2>1, <3>2, <3>3
  <2>7. QED BY <2>6 DEF AskedReported
<1>7. ASSUME NEW w \in Waits, TimesOut(w)
      PROVE  AskedReported'
  BY <1>7 DEF TimesOut, Typed, JobType, JobRec, AgentType, AgentRec, WaitType,
     WaitRec, ServiceType, ServiceRec, AuditType, AuditRec, AskedReported, Asked,
     Active, Terminal, StoreKept, Kept
<1>8. ASSUME NEW w \in Waits, Continues(w)
      PROVE  AskedReported'
  <2>1. /\ \A i \in Jobs :
             /\ job'[i].reported = (job[i].reported \/ (i \in waits[w].on /\ Terminal(i)))
             /\ job'[i].status = job[i].status /\ job'[i].owner = job[i].owner
             /\ job'[i].stored = job[i].stored
    <3>1. job' = [j \in Jobs |-> IF j \in {i \in waits[w].on : Terminal(i)}
                                 THEN [job[j] EXCEPT !.reported = TRUE] ELSE job[j]]
      BY <1>8 DEF Continues
    <3>2. \A i \in Jobs : job[i] \in JobRec
      BY DEF Typed, JobType
    <3>3. waits[w].on \subseteq Jobs
      BY DEF Typed, WaitType, WaitRec
    <3>4. QED BY <3>1, <3>2, <3>3 DEF JobRec
  <2>2. /\ audit'.asked = audit.asked /\ audit'.noticed = audit.noticed /\ audit'.unheard = audit.unheard
        /\ audit'.wakes = audit.wakes
        /\ audit'.told = audit.told \cup {i \in waits[w].on : Terminal(i)}
    <3> DEFINE u == audit.told \cup {i \in waits[w].on : Terminal(i)}
    <3>1. audit' = [audit EXCEPT !.told = u] /\ audit \in AuditRec
      BY <1>8 DEF Continues, Typed, AuditType
    <3> HIDE DEF u
    <3>2. audit'.asked = audit.asked /\ audit'.noticed = audit.noticed /\ audit'.unheard = audit.unheard
          /\ audit'.wakes = audit.wakes /\ audit'.told = u
      BY <3>1 DEF AuditRec
    <3>3. QED BY <3>2 DEF u
  <2>5. /\ \A i \in Jobs : Active(i)' = (job'[i].status \in {"running", "stopping"})
        /\ \A i \in Jobs : Terminal(i)' = (job'[i].status \in Outcomes)
        /\ Outcomes \cap {"new", "running", "stopping"} = {} /\ "failed" \in Outcomes
    BY DEF Active, Terminal
  <2>6. ASSUME NEW i \in Jobs
        PROVE  Asked(i)'
    <3>1. Asked(i)
      BY DEF AskedReported
    <3>2. /\ job'[i].reported = (job[i].reported \/ (i \in waits[w].on /\ Terminal(i)))
          /\ job'[i].status = job[i].status
      BY <2>1
    <3>3. QED BY <2>2, <2>5, <3>1, <3>2 DEF Asked, Terminal
  <2>7. QED BY <2>6 DEF AskedReported
<1>9. ASSUME NEW a \in Agents, Leave(a)
      PROVE  AskedReported'
  BY <1>9 DEF Leave, Typed, JobType, JobRec, AgentType, AgentRec, WaitType,
     WaitRec, ServiceType, ServiceRec, AuditType, AuditRec, AskedReported, Asked,
     Active, Terminal, StoreKept, Kept
<1>10. ASSUME NEW a \in Agents, ScopeUnloads(a)
      PROVE  AskedReported'
  BY <1>10 DEF ScopeUnloads, Typed, JobType, JobRec, AgentType, AgentRec, WaitType,
     WaitRec, ServiceType, ServiceRec, AuditType, AuditRec, AskedReported, Asked,
     Active, Terminal, StoreKept, Kept
<1>11. ASSUME NEW a \in Agents, NoCleanup(a)
      PROVE  AskedReported'
  BY <1>11 DEF NoCleanup, Typed, JobType, JobRec, AgentType, AgentRec, WaitType,
     WaitRec, ServiceType, ServiceRec, AuditType, AuditRec, AskedReported, Asked,
     Active, Terminal, StoreKept, Kept
<1>12. ASSUME NEW a \in Agents, OwnerCleanup(a)
      PROVE  AskedReported'
  <2>1. OwnedBy(a) \in SUBSET Jobs /\ CancelForTeardown(OwnedBy(a))
    BY <1>12 DEF OwnerCleanup, OwnedBy
  <2>2. PICK T \in SUBSET Doomed(OwnedBy(a)) : TornTo(OwnedBy(a), T)
    BY <2>1, TeardownMoves
  <2>3. Doomed(OwnedBy(a)) = {j \in OwnedBy(a) : Active(j)} /\ OwnedBy(a) = {j \in Jobs : job[j].stored /\ job[j].owner = a}
    BY DEF Doomed, OwnedBy
  <2>5. /\ \A i \in Jobs : Active(i)' = (job'[i].status \in {"running", "stopping"})
        /\ \A i \in Jobs : Terminal(i)' = (job'[i].status \in Outcomes)
        /\ Outcomes \cap {"new", "running", "stopping"} = {} /\ "failed" \in Outcomes
    BY DEF Active, Terminal
  <2>6. ASSUME NEW i \in Jobs
        PROVE  Asked(i)'
    <3>1. Asked(i) /\ job[i] \in JobRec
      BY DEF AskedReported, Typed, JobType
    <3>2. /\ job'[i].reported = (job[i].reported \/ i \in Doomed(OwnedBy(a)))
          /\ job'[i].status = IF i \in T THEN "failed"
                              ELSE IF i \in Doomed(OwnedBy(a)) THEN "stopping" ELSE job[i].status
          /\ audit'.asked = audit.asked \cup Doomed(OwnedBy(a))
      BY <2>2 DEF TornTo
    <3>3. CASE i \in Doomed(OwnedBy(a))
      BY <2>5, <3>2, <3>3 DEF Asked
    <3>4. CASE i \notin Doomed(OwnedBy(a))
      <4>1. i \notin T
        BY <2>2, <3>4
      <4>2. job'[i].reported = job[i].reported /\ job'[i].status = job[i].status
            /\ (i \in audit'.asked <=> i \in audit.asked)
        BY <3>1, <3>2, <3>4, <4>1 DEF JobRec
      <4>3. QED BY <2>5, <3>1, <4>2 DEF Asked, Terminal
    <3>5. QED BY <3>3, <3>4
  <2>7. QED BY <2>6 DEF AskedReported
<1>13. ASSUME NEW a \in Agents, OwnerDrained(a)
      PROVE  AskedReported'
  <2>1. \A i \in Jobs : /\ job'[i].reported = job[i].reported /\ job'[i].owner = job[i].owner
                        /\ job'[i].status = job[i].status
    <3>1. job' = [j \in Jobs |-> IF j \in agent[a].owned THEN [job[j] EXCEPT !.stored = FALSE] ELSE job[j]]
      BY <1>13 DEF OwnerDrained
    <3>2. \A j \in Jobs : job[j] \in JobRec
      BY DEF Typed, JobType
    <3>3. QED BY <3>1, <3>2 DEF JobRec
  <2>2. UNCHANGED <<waits, audit>>
    BY <1>13 DEF OwnerDrained
  <2>3. QED BY <2>1, <2>2 DEF AskedReported, Asked, Terminal
<1>14. ASSUME NEW a \in Agents, HumanTurn(a)
      PROVE  AskedReported'
  BY <1>14 DEF HumanTurn, Claim, Spend, Typed, JobType, JobRec, AgentType,
     AgentRec, WaitType, WaitRec, ServiceType, ServiceRec, AuditType, AuditRec,
     AskedReported, Asked, Active, Terminal, StoreKept, Kept
<1>15. ASSUME NEW a \in Agents, TurnEnds(a)
      PROVE  AskedReported'
  BY <1>15 DEF TurnEnds, Typed, JobType, JobRec, AgentType, AgentRec, WaitType,
     WaitRec, ServiceType, ServiceRec, AuditType, AuditRec, AskedReported, Asked,
     Active, Terminal, StoreKept, Kept
<1>16. ASSUME ServiceUnloads
      PROVE  AskedReported'
  BY <1>16 DEF ServiceUnloads, Typed, JobType, JobRec, AgentType, AgentRec,
     WaitType, WaitRec, ServiceType, ServiceRec, AuditType, AuditRec,
     AskedReported, Asked, Active, Terminal, StoreKept, Kept
<1>17. ASSUME ServiceCloses
      PROVE  AskedReported'
  <2>1. Stored \in SUBSET Jobs /\ CancelForTeardown(Stored)
    BY <1>17 DEF ServiceCloses, Stored
  <2>2. PICK T \in SUBSET Doomed(Stored) : TornTo(Stored, T)
    BY <2>1, TeardownMoves
  <2>3. Doomed(Stored) = {j \in Stored : Active(j)} /\ Stored = {j \in Jobs : job[j].stored}
    BY DEF Doomed, Stored
  <2>5. /\ \A i \in Jobs : Active(i)' = (job'[i].status \in {"running", "stopping"})
        /\ \A i \in Jobs : Terminal(i)' = (job'[i].status \in Outcomes)
        /\ Outcomes \cap {"new", "running", "stopping"} = {} /\ "failed" \in Outcomes
    BY DEF Active, Terminal
  <2>6. ASSUME NEW i \in Jobs
        PROVE  Asked(i)'
    <3>1. Asked(i) /\ job[i] \in JobRec
      BY DEF AskedReported, Typed, JobType
    <3>2. /\ job'[i].reported = (job[i].reported \/ i \in Doomed(Stored))
          /\ job'[i].status = IF i \in T THEN "failed"
                              ELSE IF i \in Doomed(Stored) THEN "stopping" ELSE job[i].status
          /\ audit'.asked = audit.asked \cup Doomed(Stored)
      BY <2>2 DEF TornTo
    <3>3. CASE i \in Doomed(Stored)
      BY <2>5, <3>2, <3>3 DEF Asked
    <3>4. CASE i \notin Doomed(Stored)
      <4>1. i \notin T
        BY <2>2, <3>4
      <4>2. job'[i].reported = job[i].reported /\ job'[i].status = job[i].status
            /\ (i \in audit'.asked <=> i \in audit.asked)
        BY <3>1, <3>2, <3>4, <4>1 DEF JobRec
      <4>3. QED BY <2>5, <3>1, <4>2 DEF Asked, Terminal
    <3>5. QED BY <3>3, <3>4
  <2>7. QED BY <2>6 DEF AskedReported
<1>18. ASSUME ServiceDrained
      PROVE  AskedReported'
  <2>1. \A i \in Jobs : /\ job'[i].reported = job[i].reported /\ job'[i].owner = job[i].owner
                        /\ job'[i].status = job[i].status
    <3>1. job' = [j \in Jobs |-> [job[j] EXCEPT !.stored = FALSE]]
      BY <1>18 DEF ServiceDrained
    <3>2. \A j \in Jobs : job[j] \in JobRec
      BY DEF Typed, JobType
    <3>3. QED BY <3>1, <3>2 DEF JobRec
  <2>2. UNCHANGED <<waits, audit>>
    BY <1>18 DEF ServiceDrained
  <2>3. QED BY <2>1, <2>2 DEF AskedReported, Asked, Terminal
<1>19. ASSUME ControlsUnload
      PROVE  AskedReported'
  BY <1>19 DEF ControlsUnload, Spend, Typed, JobType, JobRec, AgentType, AgentRec,
     WaitType, WaitRec, ServiceType, ServiceRec, AuditType, AuditRec,
     AskedReported, Asked, Active, Terminal, StoreKept, Kept
<1>20. ASSUME ControlsLoad
      PROVE  AskedReported'
  BY <1>20 DEF ControlsLoad, Typed, JobType, JobRec, AgentType, AgentRec, WaitType,
     WaitRec, ServiceType, ServiceRec, AuditType, AuditRec, AskedReported, Asked,
     Active, Terminal, StoreKept, Kept
<1>21. CASE UNCHANGED vars
  BY <1>21 DEF vars, AskedReported, Asked, Terminal
<1>22. QED
  BY <1>1, <1>1a, <1>2, <1>3, <1>4, <1>5, <1>6, <1>7, <1>8, <1>9, <1>10, <1>11, <1>12,
     <1>13, <1>14, <1>15, <1>16, <1>17, <1>18, <1>19, <1>20, <1>21 DEF Next, Tools,
     Producers, Timers, OwnerLeaves, ServiceLeaves

(* Every step leaves a wait waiting only on a job that runs.                *)
LEMMA WaitStep ==
  ASSUME Typed, WaitsOK, StoreKept, [Next]_vars
  PROVE  WaitsOK'
<1> USE JobsAssumption
<1>1. ASSUME NEW j \in Jobs, NEW o \in Owners, Start(j, o)
      PROVE  WaitsOK'
  BY <1>1 DEF Start, Attachable, NewJob, Typed, JobType, JobRec, AgentType,
     AgentRec, WaitType, WaitRec, ServiceType, ServiceRec, AuditType, AuditRec,
     WaitsOK, WaitOK, Active
<1>1a. ASSUME NEW a \in Agents, StartRefused(a)
      PROVE  WaitsOK'
  BY <1>1a DEF StartRefused, Typed, JobType, JobRec, AgentType, AgentRec, WaitType,
     WaitRec, ServiceType, ServiceRec, AuditType, AuditRec, WaitsOK, WaitOK, Active
<1>2. ASSUME NEW j \in Jobs, Read(j)
      PROVE  WaitsOK'
  BY <1>2 DEF Read, Callable, Terminal, Typed, JobType, JobRec, AgentType,
     AgentRec, WaitType, WaitRec, ServiceType, ServiceRec, AuditType, AuditRec,
     WaitsOK, WaitOK, Active
<1>3. ASSUME NEW j \in Jobs, Kill(j)
      PROVE  WaitsOK'
  BY <1>3 DEF Kill, Callable, Active, Typed, JobType, JobRec, AgentType, AgentRec,
     WaitType, WaitRec, ServiceType, ServiceRec, AuditType, AuditRec, WaitsOK,
     WaitOK, Active
<1>4. ASSUME NEW w \in Waits, NEW j \in Jobs, Wait(w, j)
      PROVE  WaitsOK'
  <2>1. UNCHANGED job
    BY <1>4 DEF Wait
  <2>3. /\ waits'[w].pc = "waiting" /\ waits'[w].on = {j} /\ waits'[w].counted
        /\ \A v \in Waits : v # w => waits'[v] = waits[v]
    BY <1>4 DEF Wait, Typed, WaitType
  <2>4. Active(j)' /\ job'[j].status # "new"
    BY <1>4, <2>1 DEF Wait, Active
  <2>6. ASSUME NEW v \in Waits
        PROVE  WaitOK(v)'
    <3>1. WaitOK(v)
      BY DEF WaitsOK
    <3>2. CASE v = w
      BY <2>3, <2>4, <3>2 DEF WaitOK
    <3>3. CASE v # w
      <4>1. waits'[v] = waits[v]
        BY <2>3, <3>3
      <4>2. QED BY <2>1, <3>1, <4>1 DEF WaitOK, Active
    <3>4. QED BY <3>2, <3>3
  <2>7. QED BY <2>6 DEF WaitsOK
<1>5. ASSUME NEW w \in Waits, Aborts(w)
      PROVE  WaitsOK'
  <2>1. UNCHANGED job
    BY <1>5 DEF Aborts
  <2>3. waits'[w].pc = "none" /\ waits'[w].on = {} /\ \A v \in Waits : v # w => waits'[v] = waits[v]
    BY <1>5 DEF Aborts, NoWait, Typed, WaitType
  <2>6. ASSUME NEW v \in Waits
        PROVE  WaitOK(v)'
    <3>1. WaitOK(v)
      BY DEF WaitsOK
    <3>2. CASE v = w
      BY <2>3, <3>2 DEF WaitOK
    <3>3. CASE v # w
      <4>1. waits'[v] = waits[v]
        BY <2>3, <3>3
      <4>2. QED BY <2>1, <3>1, <4>1 DEF WaitOK, Active
    <3>4. QED BY <3>2, <3>3
  <2>7. QED BY <2>6 DEF WaitsOK
<1>6. ASSUME NEW j \in Jobs, NEW outcome \in Outcomes, ProducerEnds(j, outcome)
      PROVE  WaitsOK'
  <2>1. UNCHANGED <<service, controls>> /\ ((SettlesTo(j, outcome) /\ AgentsTold) \/ StaysSettled(j))
    BY <1>6, SettleMoves
  <2>5. /\ \A i \in Jobs : Active(i)' = (job'[i].status \in {"running", "stopping"})
        /\ \A i \in Jobs : Terminal(i)' = (job'[i].status \in Outcomes)
        /\ Outcomes \cap {"new", "running", "stopping"} = {} /\ "failed" \in Outcomes
    BY DEF Active, Terminal
  <2>6. ASSUME NEW v \in Waits
        PROVE  WaitOK(v)'
    <3>1. WaitOK(v)
      BY DEF WaitsOK
    <3>2. CASE SettlesTo(j, outcome)
      <4>1. /\ waits'[v].on = waits[v].on /\ waits'[v].counted = waits[v].counted
            /\ waits'[v].pc = IF waits[v].pc = "waiting" /\ waits[v].on = {j}
                              THEN "resolved" ELSE waits[v].pc
        BY <3>2 DEF SettlesTo
      <4>2. \A i \in Jobs : i # j => job'[i].status = job[i].status
        BY <3>2 DEF SettlesTo
      <4>3. job'[j].status = outcome
        BY <3>2 DEF SettlesTo
      <4>4. QED BY <2>5, <3>1, <4>1, <4>2, <4>3 DEF WaitOK, Active
    <3>3. CASE StaysSettled(j)
      BY <3>1, <3>3 DEF WaitOK, StaysSettled, Active
    <3>4. QED BY <2>1, <3>2, <3>3
  <2>7. QED BY <2>6 DEF WaitsOK
<1>7. ASSUME NEW w \in Waits, TimesOut(w)
      PROVE  WaitsOK'
  <2>1. UNCHANGED job
    BY <1>7 DEF TimesOut
  <2>3. /\ waits'[w].pc = "resolved" /\ waits'[w].on = waits[w].on
        /\ waits'[w].counted = waits[w].counted /\ waits[w].pc = "waiting"
        /\ \A v \in Waits : v # w => waits'[v] = waits[v]
    BY <1>7 DEF TimesOut, Typed, WaitType, WaitRec
  <2>6. ASSUME NEW v \in Waits
        PROVE  WaitOK(v)'
    <3>1. WaitOK(v)
      BY DEF WaitsOK
    <3>2. CASE v = w
      BY <2>1, <2>3, <3>1, <3>2 DEF WaitOK
    <3>3. CASE v # w
      <4>1. waits'[v] = waits[v]
        BY <2>3, <3>3
      <4>2. QED BY <2>1, <3>1, <4>1 DEF WaitOK, Active
    <3>4. QED BY <3>2, <3>3
  <2>7. QED BY <2>6 DEF WaitsOK
<1>8. ASSUME NEW w \in Waits, Continues(w)
      PROVE  WaitsOK'
  <2>1. /\ \A i \in Jobs :
             /\ job'[i].reported = (job[i].reported \/ (i \in waits[w].on /\ Terminal(i)))
             /\ job'[i].status = job[i].status /\ job'[i].owner = job[i].owner
             /\ job'[i].stored = job[i].stored
    <3>1. job' = [j \in Jobs |-> IF j \in {i \in waits[w].on : Terminal(i)}
                                 THEN [job[j] EXCEPT !.reported = TRUE] ELSE job[j]]
      BY <1>8 DEF Continues
    <3>2. \A i \in Jobs : job[i] \in JobRec
      BY DEF Typed, JobType
    <3>3. waits[w].on \subseteq Jobs
      BY DEF Typed, WaitType, WaitRec
    <3>4. QED BY <3>1, <3>2, <3>3 DEF JobRec
  <2>2. /\ audit'.asked = audit.asked /\ audit'.noticed = audit.noticed /\ audit'.unheard = audit.unheard
        /\ audit'.wakes = audit.wakes
        /\ audit'.told = audit.told \cup {i \in waits[w].on : Terminal(i)}
    <3> DEFINE u == audit.told \cup {i \in waits[w].on : Terminal(i)}
    <3>1. audit' = [audit EXCEPT !.told = u] /\ audit \in AuditRec
      BY <1>8 DEF Continues, Typed, AuditType
    <3> HIDE DEF u
    <3>2. audit'.asked = audit.asked /\ audit'.noticed = audit.noticed /\ audit'.unheard = audit.unheard
          /\ audit'.wakes = audit.wakes /\ audit'.told = u
      BY <3>1 DEF AuditRec
    <3>3. QED BY <3>2 DEF u
  <2>3. waits'[w].pc = "none" /\ waits'[w].on = {} /\ \A v \in Waits : v # w => waits'[v] = waits[v]
    BY <1>8 DEF Continues, NoWait, Typed, WaitType
  <2>6. ASSUME NEW v \in Waits
        PROVE  WaitOK(v)'
    <3>1. WaitOK(v)
      BY DEF WaitsOK
    <3>2. CASE v = w
      BY <2>3, <3>2 DEF WaitOK
    <3>3. CASE v # w
      <4>1. waits'[v] = waits[v]
        BY <2>3, <3>3
      <4>2. QED BY <2>1, <3>1, <4>1 DEF WaitOK, Active
    <3>4. QED BY <3>2, <3>3
  <2>7. QED BY <2>6 DEF WaitsOK
<1>9. ASSUME NEW a \in Agents, Leave(a)
      PROVE  WaitsOK'
  BY <1>9 DEF Leave, Typed, JobType, JobRec, AgentType, AgentRec, WaitType,
     WaitRec, ServiceType, ServiceRec, AuditType, AuditRec, WaitsOK, WaitOK, Active
<1>10. ASSUME NEW a \in Agents, ScopeUnloads(a)
      PROVE  WaitsOK'
  BY <1>10 DEF ScopeUnloads, Typed, JobType, JobRec, AgentType, AgentRec, WaitType,
     WaitRec, ServiceType, ServiceRec, AuditType, AuditRec, WaitsOK, WaitOK, Active
<1>11. ASSUME NEW a \in Agents, NoCleanup(a)
      PROVE  WaitsOK'
  BY <1>11 DEF NoCleanup, Typed, JobType, JobRec, AgentType, AgentRec, WaitType,
     WaitRec, ServiceType, ServiceRec, AuditType, AuditRec, WaitsOK, WaitOK, Active
<1>12. ASSUME NEW a \in Agents, OwnerCleanup(a)
      PROVE  WaitsOK'
  <2>1. OwnedBy(a) \in SUBSET Jobs /\ CancelForTeardown(OwnedBy(a))
    BY <1>12 DEF OwnerCleanup, OwnedBy
  <2>2. PICK T \in SUBSET Doomed(OwnedBy(a)) : TornTo(OwnedBy(a), T)
    BY <2>1, TeardownMoves
  <2>3. Doomed(OwnedBy(a)) = {j \in OwnedBy(a) : Active(j)} /\ OwnedBy(a) = {j \in Jobs : job[j].stored /\ job[j].owner = a}
    BY DEF Doomed, OwnedBy
  <2>5. /\ \A i \in Jobs : Active(i)' = (job'[i].status \in {"running", "stopping"})
        /\ \A i \in Jobs : Terminal(i)' = (job'[i].status \in Outcomes)
        /\ Outcomes \cap {"new", "running", "stopping"} = {} /\ "failed" \in Outcomes
    BY DEF Active, Terminal
  <2>6. ASSUME NEW v \in Waits
        PROVE  WaitOK(v)'
    <3>1. WaitOK(v)
      BY DEF WaitsOK
    <3>2. \A i \in Jobs :
            job'[i].status = IF i \in T THEN "failed"
                             ELSE IF i \in Doomed(OwnedBy(a)) THEN "stopping" ELSE job[i].status
      BY <2>2 DEF TornTo
    <3>3. /\ waits'[v].on = waits[v].on /\ waits'[v].counted = waits[v].counted
          /\ waits'[v].pc = IF waits[v].pc = "waiting" /\ \E i \in T : waits[v].on = {i}
                            THEN "resolved" ELSE waits[v].pc
      BY <2>2 DEF TornTo
    <3>4. \A i \in Jobs : /\ job[i].status # "new" => job'[i].status # "new"
                          /\ Active(i) /\ i \notin T => Active(i)'
      BY <2>2, <2>5, <3>2 DEF Active
    <3>5. QED BY <2>2, <3>1, <3>3, <3>4 DEF WaitOK
  <2>7. QED BY <2>6 DEF WaitsOK
<1>13. ASSUME NEW a \in Agents, OwnerDrained(a)
      PROVE  WaitsOK'
  <2>1. \A i \in Jobs : /\ job'[i].reported = job[i].reported /\ job'[i].owner = job[i].owner
                        /\ job'[i].status = job[i].status
    <3>1. job' = [j \in Jobs |-> IF j \in agent[a].owned THEN [job[j] EXCEPT !.stored = FALSE] ELSE job[j]]
      BY <1>13 DEF OwnerDrained
    <3>2. \A j \in Jobs : job[j] \in JobRec
      BY DEF Typed, JobType
    <3>3. QED BY <3>1, <3>2 DEF JobRec
  <2>2. UNCHANGED <<waits, audit>>
    BY <1>13 DEF OwnerDrained
  <2>3. QED BY <2>1, <2>2 DEF WaitsOK, WaitOK, Active
<1>14. ASSUME NEW a \in Agents, HumanTurn(a)
      PROVE  WaitsOK'
  BY <1>14 DEF HumanTurn, Claim, Spend, Typed, JobType, JobRec, AgentType,
     AgentRec, WaitType, WaitRec, ServiceType, ServiceRec, AuditType, AuditRec,
     WaitsOK, WaitOK, Active
<1>15. ASSUME NEW a \in Agents, TurnEnds(a)
      PROVE  WaitsOK'
  BY <1>15 DEF TurnEnds, Typed, JobType, JobRec, AgentType, AgentRec, WaitType,
     WaitRec, ServiceType, ServiceRec, AuditType, AuditRec, WaitsOK, WaitOK, Active
<1>16. ASSUME ServiceUnloads
      PROVE  WaitsOK'
  BY <1>16 DEF ServiceUnloads, Typed, JobType, JobRec, AgentType, AgentRec,
     WaitType, WaitRec, ServiceType, ServiceRec, AuditType, AuditRec, WaitsOK,
     WaitOK, Active
<1>17. ASSUME ServiceCloses
      PROVE  WaitsOK'
  <2>1. Stored \in SUBSET Jobs /\ CancelForTeardown(Stored)
    BY <1>17 DEF ServiceCloses, Stored
  <2>2. PICK T \in SUBSET Doomed(Stored) : TornTo(Stored, T)
    BY <2>1, TeardownMoves
  <2>3. Doomed(Stored) = {j \in Stored : Active(j)} /\ Stored = {j \in Jobs : job[j].stored}
    BY DEF Doomed, Stored
  <2>5. /\ \A i \in Jobs : Active(i)' = (job'[i].status \in {"running", "stopping"})
        /\ \A i \in Jobs : Terminal(i)' = (job'[i].status \in Outcomes)
        /\ Outcomes \cap {"new", "running", "stopping"} = {} /\ "failed" \in Outcomes
    BY DEF Active, Terminal
  <2>6. ASSUME NEW v \in Waits
        PROVE  WaitOK(v)'
    <3>1. WaitOK(v)
      BY DEF WaitsOK
    <3>2. \A i \in Jobs :
            job'[i].status = IF i \in T THEN "failed"
                             ELSE IF i \in Doomed(Stored) THEN "stopping" ELSE job[i].status
      BY <2>2 DEF TornTo
    <3>3. /\ waits'[v].on = waits[v].on /\ waits'[v].counted = waits[v].counted
          /\ waits'[v].pc = IF waits[v].pc = "waiting" /\ \E i \in T : waits[v].on = {i}
                            THEN "resolved" ELSE waits[v].pc
      BY <2>2 DEF TornTo
    <3>4. \A i \in Jobs : /\ job[i].status # "new" => job'[i].status # "new"
                          /\ Active(i) /\ i \notin T => Active(i)'
      BY <2>2, <2>5, <3>2 DEF Active
    <3>5. QED BY <2>2, <3>1, <3>3, <3>4 DEF WaitOK
  <2>7. QED BY <2>6 DEF WaitsOK
<1>18. ASSUME ServiceDrained
      PROVE  WaitsOK'
  <2>1. \A i \in Jobs : /\ job'[i].reported = job[i].reported /\ job'[i].owner = job[i].owner
                        /\ job'[i].status = job[i].status
    <3>1. job' = [j \in Jobs |-> [job[j] EXCEPT !.stored = FALSE]]
      BY <1>18 DEF ServiceDrained
    <3>2. \A j \in Jobs : job[j] \in JobRec
      BY DEF Typed, JobType
    <3>3. QED BY <3>1, <3>2 DEF JobRec
  <2>2. UNCHANGED <<waits, audit>>
    BY <1>18 DEF ServiceDrained
  <2>3. QED BY <2>1, <2>2 DEF WaitsOK, WaitOK, Active
<1>19. ASSUME ControlsUnload
      PROVE  WaitsOK'
  BY <1>19 DEF ControlsUnload, Spend, Typed, JobType, JobRec, AgentType, AgentRec,
     WaitType, WaitRec, ServiceType, ServiceRec, AuditType, AuditRec, WaitsOK,
     WaitOK, Active
<1>20. ASSUME ControlsLoad
      PROVE  WaitsOK'
  BY <1>20 DEF ControlsLoad, Typed, JobType, JobRec, AgentType, AgentRec, WaitType,
     WaitRec, ServiceType, ServiceRec, AuditType, AuditRec, WaitsOK, WaitOK, Active
<1>21. CASE UNCHANGED vars
  BY <1>21 DEF vars, WaitsOK, WaitOK, Active
<1>22. QED
  BY <1>1, <1>1a, <1>2, <1>3, <1>4, <1>5, <1>6, <1>7, <1>8, <1>9, <1>10, <1>11, <1>12,
     <1>13, <1>14, <1>15, <1>16, <1>17, <1>18, <1>19, <1>20, <1>21 DEF Next, Tools,
     Producers, Timers, OwnerLeaves, ServiceLeaves

(* Every wake is spent from the budget.                                     *)
LEMMA BudgetStep ==
  ASSUME Typed, Budgeted, [Next]_vars
  PROVE  Budgeted'
<1> USE JobsAssumption
<1>1. ASSUME NEW j \in Jobs, NEW o \in Owners, Start(j, o)
      PROVE  Budgeted'
  BY <1>1 DEF Start, NewJob, Budgeted, Typed, AgentType, AgentRec, AuditType,
     AuditRec
<1>1a. ASSUME NEW a \in Agents, StartRefused(a)
      PROVE  Budgeted'
  BY <1>1a DEF StartRefused, Budgeted, Typed, AgentType, AgentRec, AuditType, AuditRec
<1>2. ASSUME NEW j \in Jobs, Read(j)
      PROVE  Budgeted'
  BY <1>2 DEF Read, Callable, Terminal, Budgeted, Typed, AgentType, AgentRec,
     AuditType, AuditRec
<1>3. ASSUME NEW j \in Jobs, Kill(j)
      PROVE  Budgeted'
  BY <1>3 DEF Kill, Callable, Active, Budgeted, Typed, AgentType, AgentRec,
     AuditType, AuditRec
<1>4. ASSUME NEW w \in Waits, NEW j \in Jobs, Wait(w, j)
      PROVE  Budgeted'
  BY <1>4 DEF Wait, Callable, Active, Budgeted, Typed, AgentType, AgentRec,
     AuditType, AuditRec
<1>5. ASSUME NEW w \in Waits, Aborts(w)
      PROVE  Budgeted'
  BY <1>5 DEF Aborts, NoWait, Budgeted, Typed, AgentType, AgentRec, AuditType,
     AuditRec
<1>6. ASSUME NEW j \in Jobs, NEW outcome \in Outcomes, ProducerEnds(j, outcome)
      PROVE  Budgeted'
  <2>1. UNCHANGED <<service, controls>> /\ ((SettlesTo(j, outcome) /\ AgentsTold) \/ StaysSettled(j))
    BY <1>6, SettleMoves
  <2>2. CASE AgentsTold
    BY <2>2 DEF Budgeted, AgentsTold, Typed, AgentType, AgentRec, AuditType, AuditRec
  <2>3. CASE StaysSettled(j)
    BY <2>3 DEF Budgeted, StaysSettled
  <2>4. QED BY <2>1, <2>2, <2>3
<1>7. ASSUME NEW w \in Waits, TimesOut(w)
      PROVE  Budgeted'
  BY <1>7 DEF TimesOut, Budgeted, Typed, AgentType, AgentRec, AuditType, AuditRec
<1>8. ASSUME NEW w \in Waits, Continues(w)
      PROVE  Budgeted'
  <2>1. /\ \A i \in Jobs :
             /\ job'[i].reported = (job[i].reported \/ (i \in waits[w].on /\ Terminal(i)))
             /\ job'[i].status = job[i].status /\ job'[i].owner = job[i].owner
             /\ job'[i].stored = job[i].stored
    <3>1. job' = [j \in Jobs |-> IF j \in {i \in waits[w].on : Terminal(i)}
                                 THEN [job[j] EXCEPT !.reported = TRUE] ELSE job[j]]
      BY <1>8 DEF Continues
    <3>2. \A i \in Jobs : job[i] \in JobRec
      BY DEF Typed, JobType
    <3>3. waits[w].on \subseteq Jobs
      BY DEF Typed, WaitType, WaitRec
    <3>4. QED BY <3>1, <3>2, <3>3 DEF JobRec
  <2>2. /\ audit'.asked = audit.asked /\ audit'.noticed = audit.noticed /\ audit'.unheard = audit.unheard
        /\ audit'.wakes = audit.wakes
        /\ audit'.told = audit.told \cup {i \in waits[w].on : Terminal(i)}
    <3> DEFINE u == audit.told \cup {i \in waits[w].on : Terminal(i)}
    <3>1. audit' = [audit EXCEPT !.told = u] /\ audit \in AuditRec
      BY <1>8 DEF Continues, Typed, AuditType
    <3> HIDE DEF u
    <3>2. audit'.asked = audit.asked /\ audit'.noticed = audit.noticed /\ audit'.unheard = audit.unheard
          /\ audit'.wakes = audit.wakes /\ audit'.told = u
      BY <3>1 DEF AuditRec
    <3>3. QED BY <3>2 DEF u
  <2>3. UNCHANGED agent
    BY <1>8 DEF Continues
  <2>4. QED BY <2>2, <2>3 DEF Budgeted
<1>9. ASSUME NEW a \in Agents, Leave(a)
      PROVE  Budgeted'
  BY <1>9 DEF Leave, Budgeted, Typed, AgentType, AgentRec, AuditType, AuditRec
<1>10. ASSUME NEW a \in Agents, ScopeUnloads(a)
      PROVE  Budgeted'
  BY <1>10 DEF ScopeUnloads, Budgeted, Typed, AgentType, AgentRec, AuditType,
     AuditRec
<1>11. ASSUME NEW a \in Agents, NoCleanup(a)
      PROVE  Budgeted'
  BY <1>11 DEF NoCleanup, Budgeted, Typed, AgentType, AgentRec, AuditType, AuditRec
<1>12. ASSUME NEW a \in Agents, OwnerCleanup(a)
      PROVE  Budgeted'
  <2>1. OwnedBy(a) \in SUBSET Jobs /\ CancelForTeardown(OwnedBy(a))
    BY <1>12 DEF OwnerCleanup, OwnedBy
  <2>2. PICK T \in SUBSET Doomed(OwnedBy(a)) : TornTo(OwnedBy(a), T)
    BY <2>1, TeardownMoves
  <2>3. Doomed(OwnedBy(a)) = {j \in OwnedBy(a) : Active(j)} /\ OwnedBy(a) = {j \in Jobs : job[j].stored /\ job[j].owner = a}
    BY DEF Doomed, OwnedBy
  <2>4. audit'.wakes = audit.wakes
    BY <2>2 DEF TornTo
  <2>5. \A b \in Agents : agent'[b].spent = agent[b].spent
    BY <1>12 DEF OwnerCleanup, Typed, AgentType, AgentRec
  <2>6. QED BY <2>4, <2>5 DEF Budgeted
<1>13. ASSUME NEW a \in Agents, OwnerDrained(a)
      PROVE  Budgeted'
  BY <1>13 DEF OwnerDrained, Terminal, Budgeted, Typed, AgentType, AgentRec,
     AuditType, AuditRec
<1>14. ASSUME NEW a \in Agents, HumanTurn(a)
      PROVE  Budgeted'
  BY <1>14 DEF HumanTurn, Claim, Spend, Budgeted, Typed, AgentType, AgentRec,
     AuditType, AuditRec
<1>15. ASSUME NEW a \in Agents, TurnEnds(a)
      PROVE  Budgeted'
  BY <1>15 DEF TurnEnds, Budgeted, Typed, AgentType, AgentRec, AuditType, AuditRec
<1>16. ASSUME ServiceUnloads
      PROVE  Budgeted'
  BY <1>16 DEF ServiceUnloads, Budgeted, Typed, AgentType, AgentRec, AuditType,
     AuditRec
<1>17. ASSUME ServiceCloses
      PROVE  Budgeted'
  <2>1. Stored \in SUBSET Jobs /\ CancelForTeardown(Stored)
    BY <1>17 DEF ServiceCloses, Stored
  <2>2. PICK T \in SUBSET Doomed(Stored) : TornTo(Stored, T)
    BY <2>1, TeardownMoves
  <2>3. Doomed(Stored) = {j \in Stored : Active(j)} /\ Stored = {j \in Jobs : job[j].stored}
    BY DEF Doomed, Stored
  <2>4. audit'.wakes = audit.wakes
    BY <2>2 DEF TornTo
  <2>5. \A b \in Agents : agent'[b].spent = agent[b].spent
    BY <1>17 DEF ServiceCloses, Typed, AgentType, AgentRec
  <2>6. QED BY <2>4, <2>5 DEF Budgeted
<1>18. ASSUME ServiceDrained
      PROVE  Budgeted'
  BY <1>18 DEF ServiceDrained, AllSettled, Terminal, Budgeted, Typed, AgentType,
     AgentRec, AuditType, AuditRec
<1>19. ASSUME ControlsUnload
      PROVE  Budgeted'
  BY <1>19 DEF ControlsUnload, Spend, Budgeted, Typed, AgentType, AgentRec,
     AuditType, AuditRec
<1>20. ASSUME ControlsLoad
      PROVE  Budgeted'
  BY <1>20 DEF ControlsLoad, Budgeted, Typed, AgentType, AgentRec, AuditType,
     AuditRec
<1>21. CASE UNCHANGED vars
  BY <1>21 DEF vars, Budgeted
<1>22. QED
  BY <1>1, <1>1a, <1>2, <1>3, <1>4, <1>5, <1>6, <1>7, <1>8, <1>9, <1>10, <1>11, <1>12,
     <1>13, <1>14, <1>15, <1>16, <1>17, <1>18, <1>19, <1>20, <1>21 DEF Next, Tools,
     Producers, Timers, OwnerLeaves, ServiceLeaves


(* A job whose end, notices and debts do not change was and is told.        *)
LEMMA ToldKept ==
  ASSUME NEW i \in Jobs, Told(i),
         Terminal(i)' <=> Terminal(i), Terminal(i) => job'[i].owner = job[i].owner,
         audit'.noticed[i] = audit.noticed[i],
         i \in audit.asked \cup audit.unheard => i \in audit'.asked \cup audit'.unheard,
         ~Terminal(i) => i \notin audit'.told,
         Terminal(i) => (Owed(i)' <=> Owed(i))
  PROVE  Told(i)'
BY DEF Told

(* Every step tells of an end exactly once.                                 *)
LEMMA ToldStep ==
  ASSUME Typed, WaitsOK, AskedReported, AllTold, [Next]_vars
  PROVE  AllTold'
<1> USE JobsAssumption
<1>1. ASSUME NEW j \in Jobs, NEW o \in Owners, Start(j, o)
      PROVE  AllTold'
  <2>6. ASSUME NEW i \in Jobs
        PROVE  Told(i)'
    <3>1. Told(i)
      BY DEF AllTold
    <3>2. /\ Terminal(i)' <=> Terminal(i)
          /\ Terminal(i) => job'[i].owner = job[i].owner
          /\ audit'.noticed[i] = audit.noticed[i]
          /\ i \in audit.asked \cup audit.unheard => i \in audit'.asked \cup audit'.unheard
          /\ i \in audit'.told <=> i \in audit.told
      BY <1>1, JobsAssumption DEF Start, Terminal, Typed, JobType, JobRec, NewJob
    <3>3. ~Terminal(i) => i \notin audit'.told
      BY <3>1, <3>2 DEF Told
    <3>4. Terminal(i) => (Owed(i)' <=> Owed(i))
      BY <1>1, <3>2 DEF Start, Owed
    <3>5. QED BY <3>1, <3>2, <3>3, <3>4, ToldKept
  <2>7. QED BY <2>6 DEF AllTold
<1>1a. ASSUME NEW a \in Agents, StartRefused(a)
      PROVE  AllTold'
  BY <1>1a DEF StartRefused, AllTold, Told, Owed, Terminal
<1>2. ASSUME NEW j \in Jobs, Read(j)
      PROVE  AllTold'
  <2>6. ASSUME NEW i \in Jobs
        PROVE  Told(i)'
    <3>1. Told(i)
      BY DEF AllTold
    <3>2. /\ Terminal(i)' <=> Terminal(i)
          /\ Terminal(i) => job'[i].owner = job[i].owner
          /\ audit'.noticed[i] = audit.noticed[i]
          /\ i \in audit.asked \cup audit.unheard => i \in audit'.asked \cup audit'.unheard
          /\ i \in audit'.told <=> i \in audit.told
      BY <1>2 DEF Read, Terminal, Typed, JobType, JobRec
    <3>3. ~Terminal(i) => i \notin audit'.told
      BY <3>1, <3>2 DEF Told
    <3>4. Terminal(i) => (Owed(i)' <=> Owed(i))
      BY <1>2, <3>2 DEF Read, Owed
    <3>5. QED BY <3>1, <3>2, <3>3, <3>4, ToldKept
  <2>7. QED BY <2>6 DEF AllTold
<1>3. ASSUME NEW j \in Jobs, Kill(j)
      PROVE  AllTold'
  <2>6. ASSUME NEW i \in Jobs
        PROVE  Told(i)'
    <3>1. Told(i)
      BY DEF AllTold
    <3>2. /\ Terminal(i)' <=> Terminal(i)
          /\ Terminal(i) => job'[i].owner = job[i].owner
          /\ audit'.noticed[i] = audit.noticed[i]
          /\ i \in audit.asked \cup audit.unheard => i \in audit'.asked \cup audit'.unheard
          /\ i \in audit'.told <=> i \in audit.told
      BY <1>3 DEF Kill, Active, Terminal, Typed, JobType, JobRec, AuditType, AuditRec
    <3>3. ~Terminal(i) => i \notin audit'.told
      BY <3>1, <3>2 DEF Told
    <3>4. Terminal(i) => (Owed(i)' <=> Owed(i))
      BY <1>3, <3>2 DEF Kill, Owed
    <3>5. QED BY <3>1, <3>2, <3>3, <3>4, ToldKept
  <2>7. QED BY <2>6 DEF AllTold
<1>4. ASSUME NEW w \in Waits, NEW j \in Jobs, Wait(w, j)
      PROVE  AllTold'
  <2>1. UNCHANGED <<job, audit>>
    BY <1>4 DEF Wait
  <2>2. \A v \in Waits : v # w => waits'[v] = waits[v]
    BY <1>4 DEF Wait, Typed, WaitType
  <2>3. \A i \in Jobs : Active(i) => ~Terminal(i)
    BY DEF Active, Terminal
  <2>6. ASSUME NEW i \in Jobs
        PROVE  Told(i)'
    <3>1. Told(i)
      BY DEF AllTold
    <3>2. /\ Terminal(i)' <=> Terminal(i)
          /\ Terminal(i) => job'[i].owner = job[i].owner
          /\ audit'.noticed[i] = audit.noticed[i]
          /\ i \in audit.asked \cup audit.unheard => i \in audit'.asked \cup audit'.unheard
          /\ i \in audit'.told <=> i \in audit.told
      BY <2>1 DEF Terminal
    <3>3. ~Terminal(i) => i \notin audit'.told
      BY <3>1, <3>2 DEF Told
    <3>4. Terminal(i) => (Owed(i)' <=> Owed(i))
      <4> SUFFICES ASSUME Terminal(i)
                   PROVE  Owed(i)' <=> Owed(i)
        OBVIOUS
      <4>1. ~Active(i)
        BY <2>3
      <4>2. waits[w].on # {i} \/ waits[w].pc # "resolved"
        BY <1>4 DEF Wait
      <4>3. waits'[w].on # {i} \/ waits'[w].pc # "resolved"
        BY <1>4 DEF Wait, Typed, WaitType
      <4>4. QED BY <2>1, <2>2, <4>2, <4>3 DEF Owed
    <3>5. QED BY <3>1, <3>2, <3>3, <3>4, ToldKept
  <2>7. QED BY <2>6 DEF AllTold
<1>5. ASSUME NEW w \in Waits, Aborts(w)
      PROVE  AllTold'
  <2>1. UNCHANGED <<job, audit>>
    BY <1>5 DEF Aborts
  <2>2. \A v \in Waits : v # w => waits'[v] = waits[v]
    BY <1>5 DEF Aborts, Typed, WaitType
  <2>3. \A i \in Jobs : Active(i) => ~Terminal(i)
    BY DEF Active, Terminal
  <2>6. ASSUME NEW i \in Jobs
        PROVE  Told(i)'
    <3>1. Told(i)
      BY DEF AllTold
    <3>2. /\ Terminal(i)' <=> Terminal(i)
          /\ Terminal(i) => job'[i].owner = job[i].owner
          /\ audit'.noticed[i] = audit.noticed[i]
          /\ i \in audit.asked \cup audit.unheard => i \in audit'.asked \cup audit'.unheard
          /\ i \in audit'.told <=> i \in audit.told
      BY <2>1 DEF Terminal
    <3>3. ~Terminal(i) => i \notin audit'.told
      BY <3>1, <3>2 DEF Told
    <3>4. Terminal(i) => (Owed(i)' <=> Owed(i))
      <4> SUFFICES ASSUME Terminal(i)
                   PROVE  Owed(i)' <=> Owed(i)
        OBVIOUS
      <4>1. ~Active(i)
        BY <2>3
      <4>2. waits[w].on # {i} \/ waits[w].pc # "resolved"
        BY <1>5 DEF Aborts
      <4>3. waits'[w].on # {i} \/ waits'[w].pc # "resolved"
        BY <1>5 DEF Aborts, NoWait, Typed, WaitType
      <4>4. QED BY <2>1, <2>2, <4>2, <4>3 DEF Owed
    <3>5. QED BY <3>1, <3>2, <3>3, <3>4, ToldKept
  <2>7. QED BY <2>6 DEF AllTold
<1>6. ASSUME NEW j \in Jobs, NEW outcome \in Outcomes, ProducerEnds(j, outcome)
      PROVE  AllTold'
  <2>1. UNCHANGED <<service, controls>> /\ ((SettlesTo(j, outcome) /\ AgentsTold) \/ StaysSettled(j))
    BY <1>6, SettleMoves
  <2>5. /\ \A i \in Jobs : Active(i)' = (job'[i].status \in {"running", "stopping"})
        /\ \A i \in Jobs : Terminal(i)' = (job'[i].status \in Outcomes)
        /\ Outcomes \cap {"new", "running", "stopping"} = {} /\ "failed" \in Outcomes
    BY DEF Active, Terminal
  <2>2. CASE SettlesTo(j, outcome)
    <3>1. /\ ~Terminal(j) /\ audit'.told = audit.told /\ audit'.asked = audit.asked
          /\ \A v \in Waits :
               /\ waits'[v].on = waits[v].on
               /\ waits'[v].pc = IF waits[v].pc = "waiting" /\ waits[v].on = {j}
                                 THEN "resolved" ELSE waits[v].pc
      BY <2>2 DEF SettlesTo
    <3>2. ASSUME NEW i \in Jobs, i # j
          PROVE  Told(i)'
      <4>1. Told(i)
        BY DEF AllTold
      <4>2. /\ job'[i].owner = job[i].owner /\ job'[i].status = job[i].status
            /\ audit'.noticed[i] = audit.noticed[i]
            /\ i \in audit.unheard => i \in audit'.unheard
        BY <2>2, <3>2 DEF SettlesTo
      <4>3. Terminal(i)' <=> Terminal(i)
        BY <4>2 DEF Terminal
      <4>4. \A v \in Waits : waits'[v].on = {i} /\ waits'[v].pc = "resolved"
                               <=> waits[v].on = {i} /\ waits[v].pc = "resolved"
        BY <3>1, <3>2
      <4>5. Owed(i)' <=> Owed(i)
        BY <3>1, <4>4 DEF Owed
      <4>6. ~Terminal(i) => i \notin audit'.told
        BY <3>1, <4>1 DEF Told
      <4>7. QED BY <3>1, <4>1, <4>2, <4>3, <4>5, <4>6, ToldKept
    <3>3. Told(j)'
      <4>1. Told(j) /\ Asked(j) /\ Terminal(j)' /\ job'[j].reported = (job[j].reported \/ Waiters(j) # {})
            /\ job[j] \in JobRec
        BY <2>2, <2>5 DEF AllTold, AskedReported, SettlesTo, Typed, JobType
      <4>2. Owed(j)' <=> Waiters(j) # {}
        <5>1. ASSUME NEW v \in Waits
              PROVE  waits'[v].on = {j} /\ waits'[v].pc = "resolved"
                       <=> waits[v].on = {j} /\ waits[v].counted
          <6>1. WaitOK(v) /\ waits[v].pc \in {"none", "waiting", "resolved"}
            BY DEF WaitsOK, Typed, WaitType, WaitRec
          <6>2. QED BY <3>1, <6>1 DEF WaitOK
        <5>2. j \notin audit'.told
          BY <3>1, <4>1 DEF Told
        <5>3. QED BY <5>1, <5>2 DEF Owed, Waiters
      <4>3. audit.noticed[j] = 0 /\ (job[j].reported => j \in audit.asked)
        BY <3>1, <4>1 DEF Told, Asked
      <4>4. CASE /\ ~job'[j].reported /\ job[j].owner \in Agents
                 /\ audit'.noticed[j] = audit.noticed[j] + 1 /\ audit'.unheard = audit.unheard
        <5>0. ~job'[j].reported /\ job[j].reported \in BOOLEAN
              /\ job'[j].reported = (job[j].reported \/ Waiters(j) # {})
          BY <4>1, <4>4 DEF JobRec
        <5>1. Waiters(j) = {} /\ audit'.noticed[j] = 1
          <6>1. Waiters(j) = {}
            BY <5>0
          <6>2. audit'.noticed[j] = 1
            BY <4>3, <4>4
          <6>3. QED BY <6>1, <6>2
        <5>2. ~Owed(j)'
          BY <4>2, <5>1
        <5>3. QED BY <4>1, <5>1, <5>2 DEF Told
      <4>5. CASE /\ job'[j].reported \/ job[j].owner = Shared \/ j \in audit'.unheard
                 /\ audit'.noticed[j] = audit.noticed[j]
        <5>1. job'[j].owner = job[j].owner
          BY <2>2 DEF SettlesTo
        <5>2. QED BY <3>1, <4>1, <4>2, <4>3, <4>5, <5>1 DEF Told, JobRec
      <4>6. QED BY <2>2, <4>4, <4>5 DEF SettlesTo
    <3>4. QED BY <3>2, <3>3 DEF AllTold
  <2>3. CASE StaysSettled(j)
    <3>1. \A i \in Jobs : /\ job'[i].owner = job[i].owner /\ job'[i].status = job[i].status
      BY <2>3 DEF StaysSettled
    <3>2. UNCHANGED <<waits, audit>>
      BY <2>3 DEF StaysSettled
    <3>3. QED BY <3>1, <3>2 DEF AllTold, Told, Owed, Terminal
  <2>6. QED BY <2>1, <2>2, <2>3
<1>7. ASSUME NEW w \in Waits, TimesOut(w)
      PROVE  AllTold'
  <2>1. UNCHANGED <<job, audit>>
    BY <1>7 DEF TimesOut
  <2>2. \A v \in Waits : v # w => waits'[v] = waits[v]
    BY <1>7 DEF TimesOut, Typed, WaitType
  <2>3. \A i \in Jobs : Active(i) => ~Terminal(i)
    BY DEF Active, Terminal
  <2>6. ASSUME NEW i \in Jobs
        PROVE  Told(i)'
    <3>1. Told(i)
      BY DEF AllTold
    <3>2. /\ Terminal(i)' <=> Terminal(i)
          /\ Terminal(i) => job'[i].owner = job[i].owner
          /\ audit'.noticed[i] = audit.noticed[i]
          /\ i \in audit.asked \cup audit.unheard => i \in audit'.asked \cup audit'.unheard
          /\ i \in audit'.told <=> i \in audit.told
      BY <2>1 DEF Terminal
    <3>3. ~Terminal(i) => i \notin audit'.told
      BY <3>1, <3>2 DEF Told
    <3>4. Terminal(i) => (Owed(i)' <=> Owed(i))
      <4> SUFFICES ASSUME Terminal(i)
                   PROVE  Owed(i)' <=> Owed(i)
        OBVIOUS
      <4>1. ~Active(i)
        BY <2>3
      <4>2. waits[w].on # {i} \/ waits[w].pc # "resolved"
        BY <1>7 DEF TimesOut
      <4>3. waits'[w].on # {i} \/ waits'[w].pc # "resolved"
        <5>1. waits[w].pc = "waiting" /\ waits'[w].on = waits[w].on
          BY <1>7 DEF TimesOut, Typed, WaitType, WaitRec
        <5>2. waits[w].on # {i}
          BY <4>1, <5>1 DEF WaitsOK, WaitOK
        <5>3. QED BY <5>1, <5>2
      <4>4. QED BY <2>1, <2>2, <4>2, <4>3 DEF Owed
    <3>5. QED BY <3>1, <3>2, <3>3, <3>4, ToldKept
  <2>7. QED BY <2>6 DEF AllTold
<1>8. ASSUME NEW w \in Waits, Continues(w)
      PROVE  AllTold'
  <2>1. /\ \A i \in Jobs :
             /\ job'[i].reported = (job[i].reported \/ (i \in waits[w].on /\ Terminal(i)))
             /\ job'[i].status = job[i].status /\ job'[i].owner = job[i].owner
             /\ job'[i].stored = job[i].stored
    <3>1. job' = [j \in Jobs |-> IF j \in {i \in waits[w].on : Terminal(i)}
                                 THEN [job[j] EXCEPT !.reported = TRUE] ELSE job[j]]
      BY <1>8 DEF Continues
    <3>2. \A i \in Jobs : job[i] \in JobRec
      BY DEF Typed, JobType
    <3>3. waits[w].on \subseteq Jobs
      BY DEF Typed, WaitType, WaitRec
    <3>4. QED BY <3>1, <3>2, <3>3 DEF JobRec
  <2>2. /\ audit'.asked = audit.asked /\ audit'.noticed = audit.noticed /\ audit'.unheard = audit.unheard
        /\ audit'.wakes = audit.wakes
        /\ audit'.told = audit.told \cup {i \in waits[w].on : Terminal(i)}
    <3> DEFINE u == audit.told \cup {i \in waits[w].on : Terminal(i)}
    <3>1. audit' = [audit EXCEPT !.told = u] /\ audit \in AuditRec
      BY <1>8 DEF Continues, Typed, AuditType
    <3> HIDE DEF u
    <3>2. audit'.asked = audit.asked /\ audit'.noticed = audit.noticed /\ audit'.unheard = audit.unheard
          /\ audit'.wakes = audit.wakes /\ audit'.told = u
      BY <3>1 DEF AuditRec
    <3>3. QED BY <3>2 DEF u
  <2>3. waits'[w].pc = "none" /\ waits'[w].on = {} /\ \A v \in Waits : v # w => waits'[v] = waits[v]
    BY <1>8 DEF Continues, NoWait, Typed, WaitType
  <2>4. waits[w].pc = "resolved" /\ \E j \in Jobs : waits[w].on = {j}
    BY <1>8 DEF Continues, WaitsOK, WaitOK
  <2>6. ASSUME NEW i \in Jobs
        PROVE  Told(i)'
    <3>1. Told(i)
      BY DEF AllTold
    <3>2. Terminal(i)' <=> Terminal(i)
      BY <2>1 DEF Terminal
    <3>3. ~Terminal(i) => i \notin audit'.told
      BY <2>2, <3>1 DEF Told
    <3>4. Terminal(i) => (Owed(i)' <=> Owed(i))
      <4>1. CASE waits[w].on = {i}
        BY <2>2, <2>4, <4>1 DEF Owed
      <4>2. CASE waits[w].on # {i}
        <5>1. i \in audit'.told <=> i \in audit.told
          BY <2>2, <2>4, <4>2
        <5>2. QED BY <2>3, <4>2, <5>1 DEF Owed
      <4>3. QED BY <4>1, <4>2
    <3>5. QED BY <2>1, <2>2, <3>1, <3>2, <3>3, <3>4, ToldKept
  <2>7. QED BY <2>6 DEF AllTold
<1>9. ASSUME NEW a \in Agents, Leave(a)
      PROVE  AllTold'
  BY <1>9 DEF Leave, AllTold, Told, Owed, Terminal
<1>10. ASSUME NEW a \in Agents, ScopeUnloads(a)
      PROVE  AllTold'
  BY <1>10 DEF ScopeUnloads, AllTold, Told, Owed, Terminal
<1>11. ASSUME NEW a \in Agents, NoCleanup(a)
      PROVE  AllTold'
  BY <1>11 DEF NoCleanup, AllTold, Told, Owed, Terminal
<1>12. ASSUME NEW a \in Agents, OwnerCleanup(a)
      PROVE  AllTold'
  <2>1. OwnedBy(a) \in SUBSET Jobs /\ CancelForTeardown(OwnedBy(a))
    BY <1>12 DEF OwnerCleanup, OwnedBy
  <2>2. PICK T \in SUBSET Doomed(OwnedBy(a)) : TornTo(OwnedBy(a), T)
    BY <2>1, TeardownMoves
  <2>3. Doomed(OwnedBy(a)) = {j \in OwnedBy(a) : Active(j)} /\ OwnedBy(a) = {j \in Jobs : job[j].stored /\ job[j].owner = a}
    BY DEF Doomed, OwnedBy
  <2>5. /\ \A i \in Jobs : Active(i)' = (job'[i].status \in {"running", "stopping"})
        /\ \A i \in Jobs : Terminal(i)' = (job'[i].status \in Outcomes)
        /\ Outcomes \cap {"new", "running", "stopping"} = {} /\ "failed" \in Outcomes
    BY DEF Active, Terminal
  <2>6. ASSUME NEW i \in Jobs
        PROVE  Told(i)'
    <3>1. Told(i)
      BY DEF AllTold
    <3>2. /\ job'[i].owner = job[i].owner
          /\ job'[i].status = IF i \in T THEN "failed"
                              ELSE IF i \in Doomed(OwnedBy(a)) THEN "stopping" ELSE job[i].status
          /\ audit'.asked = audit.asked \cup Doomed(OwnedBy(a)) /\ audit'.noticed = audit.noticed
          /\ audit'.told = audit.told /\ audit'.unheard = audit.unheard
      BY <2>2 DEF TornTo
    <3>3. CASE i \in Doomed(OwnedBy(a))
      <4>1. ~Terminal(i)
        BY <2>3, <3>3 DEF Active, Terminal
      <4>2. QED BY <3>1, <3>2, <3>3, <4>1 DEF Told
    <3>4. CASE i \notin Doomed(OwnedBy(a))
      <4>1. i \notin T
        BY <2>2, <3>4
      <4>2. Terminal(i)' <=> Terminal(i)
        BY <2>5, <3>2, <3>4, <4>1 DEF Terminal
      <4>3. \A v \in Waits : waits'[v].on = {i} /\ waits'[v].pc = "resolved"
                               <=> waits[v].on = {i} /\ waits[v].pc = "resolved"
        <5> SUFFICES ASSUME NEW v \in Waits
                     PROVE  waits'[v].on = {i} /\ waits'[v].pc = "resolved"
                              <=> waits[v].on = {i} /\ waits[v].pc = "resolved"
          OBVIOUS
        <5>1. waits'[v].on = waits[v].on
              /\ waits'[v].pc = IF waits[v].pc = "waiting" /\ \E k \in T : waits[v].on = {k}
                                THEN "resolved" ELSE waits[v].pc
          BY <2>2 DEF TornTo
        <5>2. QED BY <4>1, <5>1
      <4>4. Owed(i)' <=> Owed(i)
        BY <3>2, <4>3 DEF Owed
      <4>5. /\ ~Terminal(i) => i \notin audit'.told
            /\ i \in audit.asked \cup audit.unheard => i \in audit'.asked \cup audit'.unheard
            /\ audit'.noticed[i] = audit.noticed[i]
        BY <3>1, <3>2 DEF Told
      <4>6. QED BY <3>1, <3>2, <4>2, <4>4, <4>5, ToldKept
    <3>5. QED BY <3>3, <3>4
  <2>7. QED BY <2>6 DEF AllTold
<1>13. ASSUME NEW a \in Agents, OwnerDrained(a)
      PROVE  AllTold'
  <2>1. \A i \in Jobs : /\ job'[i].reported = job[i].reported /\ job'[i].owner = job[i].owner
                        /\ job'[i].status = job[i].status
    <3>1. job' = [j \in Jobs |-> IF j \in agent[a].owned THEN [job[j] EXCEPT !.stored = FALSE] ELSE job[j]]
      BY <1>13 DEF OwnerDrained
    <3>2. \A j \in Jobs : job[j] \in JobRec
      BY DEF Typed, JobType
    <3>3. QED BY <3>1, <3>2 DEF JobRec
  <2>2. UNCHANGED <<waits, audit>>
    BY <1>13 DEF OwnerDrained
  <2>6. ASSUME NEW i \in Jobs
        PROVE  Told(i)'
    <3>1. Told(i)
      BY DEF AllTold
    <3>2. /\ Terminal(i)' <=> Terminal(i)
          /\ Terminal(i) => job'[i].owner = job[i].owner
          /\ audit'.noticed[i] = audit.noticed[i]
          /\ i \in audit.asked \cup audit.unheard => i \in audit'.asked \cup audit'.unheard
          /\ i \in audit'.told <=> i \in audit.told
      BY <2>1, <2>2 DEF Terminal
    <3>3. ~Terminal(i) => i \notin audit'.told
      BY <3>1, <3>2 DEF Told
    <3>4. Terminal(i) => (Owed(i)' <=> Owed(i))
      BY <2>2, <3>2 DEF Owed
    <3>5. QED BY <3>1, <3>2, <3>3, <3>4, ToldKept
  <2>7. QED BY <2>6 DEF AllTold
<1>14. ASSUME NEW a \in Agents, HumanTurn(a)
      PROVE  AllTold'
  <2>6. ASSUME NEW i \in Jobs
        PROVE  Told(i)'
    <3>1. Told(i)
      BY DEF AllTold
    <3>2. /\ Terminal(i)' <=> Terminal(i)
          /\ Terminal(i) => job'[i].owner = job[i].owner
          /\ audit'.noticed[i] = audit.noticed[i]
          /\ i \in audit.asked \cup audit.unheard => i \in audit'.asked \cup audit'.unheard
          /\ i \in audit'.told <=> i \in audit.told
      BY <1>14 DEF HumanTurn, Terminal, Typed, AuditType, AuditRec
    <3>3. ~Terminal(i) => i \notin audit'.told
      BY <3>1, <3>2 DEF Told
    <3>4. Terminal(i) => (Owed(i)' <=> Owed(i))
      BY <1>14, <3>2 DEF HumanTurn, Owed
    <3>5. QED BY <3>1, <3>2, <3>3, <3>4, ToldKept
  <2>7. QED BY <2>6 DEF AllTold
<1>15. ASSUME NEW a \in Agents, TurnEnds(a)
      PROVE  AllTold'
  BY <1>15 DEF TurnEnds, AllTold, Told, Owed, Terminal
<1>16. ASSUME ServiceUnloads
      PROVE  AllTold'
  BY <1>16 DEF ServiceUnloads, AllTold, Told, Owed, Terminal
<1>17. ASSUME ServiceCloses
      PROVE  AllTold'
  <2>1. Stored \in SUBSET Jobs /\ CancelForTeardown(Stored)
    BY <1>17 DEF ServiceCloses, Stored
  <2>2. PICK T \in SUBSET Doomed(Stored) : TornTo(Stored, T)
    BY <2>1, TeardownMoves
  <2>3. Doomed(Stored) = {j \in Stored : Active(j)} /\ Stored = {j \in Jobs : job[j].stored}
    BY DEF Doomed, Stored
  <2>5. /\ \A i \in Jobs : Active(i)' = (job'[i].status \in {"running", "stopping"})
        /\ \A i \in Jobs : Terminal(i)' = (job'[i].status \in Outcomes)
        /\ Outcomes \cap {"new", "running", "stopping"} = {} /\ "failed" \in Outcomes
    BY DEF Active, Terminal
  <2>6. ASSUME NEW i \in Jobs
        PROVE  Told(i)'
    <3>1. Told(i)
      BY DEF AllTold
    <3>2. /\ job'[i].owner = job[i].owner
          /\ job'[i].status = IF i \in T THEN "failed"
                              ELSE IF i \in Doomed(Stored) THEN "stopping" ELSE job[i].status
          /\ audit'.asked = audit.asked \cup Doomed(Stored) /\ audit'.noticed = audit.noticed
          /\ audit'.told = audit.told /\ audit'.unheard = audit.unheard
      BY <2>2 DEF TornTo
    <3>3. CASE i \in Doomed(Stored)
      <4>1. ~Terminal(i)
        BY <2>3, <3>3 DEF Active, Terminal
      <4>2. QED BY <3>1, <3>2, <3>3, <4>1 DEF Told
    <3>4. CASE i \notin Doomed(Stored)
      <4>1. i \notin T
        BY <2>2, <3>4
      <4>2. Terminal(i)' <=> Terminal(i)
        BY <2>5, <3>2, <3>4, <4>1 DEF Terminal
      <4>3. \A v \in Waits : waits'[v].on = {i} /\ waits'[v].pc = "resolved"
                               <=> waits[v].on = {i} /\ waits[v].pc = "resolved"
        <5> SUFFICES ASSUME NEW v \in Waits
                     PROVE  waits'[v].on = {i} /\ waits'[v].pc = "resolved"
                              <=> waits[v].on = {i} /\ waits[v].pc = "resolved"
          OBVIOUS
        <5>1. waits'[v].on = waits[v].on
              /\ waits'[v].pc = IF waits[v].pc = "waiting" /\ \E k \in T : waits[v].on = {k}
                                THEN "resolved" ELSE waits[v].pc
          BY <2>2 DEF TornTo
        <5>2. QED BY <4>1, <5>1
      <4>4. Owed(i)' <=> Owed(i)
        BY <3>2, <4>3 DEF Owed
      <4>5. /\ ~Terminal(i) => i \notin audit'.told
            /\ i \in audit.asked \cup audit.unheard => i \in audit'.asked \cup audit'.unheard
            /\ audit'.noticed[i] = audit.noticed[i]
        BY <3>1, <3>2 DEF Told
      <4>6. QED BY <3>1, <3>2, <4>2, <4>4, <4>5, ToldKept
    <3>5. QED BY <3>3, <3>4
  <2>7. QED BY <2>6 DEF AllTold
<1>18. ASSUME ServiceDrained
      PROVE  AllTold'
  <2>1. \A i \in Jobs : /\ job'[i].reported = job[i].reported /\ job'[i].owner = job[i].owner
                        /\ job'[i].status = job[i].status
    <3>1. job' = [j \in Jobs |-> [job[j] EXCEPT !.stored = FALSE]]
      BY <1>18 DEF ServiceDrained
    <3>2. \A j \in Jobs : job[j] \in JobRec
      BY DEF Typed, JobType
    <3>3. QED BY <3>1, <3>2 DEF JobRec
  <2>2. UNCHANGED <<waits, audit>>
    BY <1>18 DEF ServiceDrained
  <2>6. ASSUME NEW i \in Jobs
        PROVE  Told(i)'
    <3>1. Told(i)
      BY DEF AllTold
    <3>2. /\ Terminal(i)' <=> Terminal(i)
          /\ Terminal(i) => job'[i].owner = job[i].owner
          /\ audit'.noticed[i] = audit.noticed[i]
          /\ i \in audit.asked \cup audit.unheard => i \in audit'.asked \cup audit'.unheard
          /\ i \in audit'.told <=> i \in audit.told
      BY <2>1, <2>2 DEF Terminal
    <3>3. ~Terminal(i) => i \notin audit'.told
      BY <3>1, <3>2 DEF Told
    <3>4. Terminal(i) => (Owed(i)' <=> Owed(i))
      BY <2>2, <3>2 DEF Owed
    <3>5. QED BY <3>1, <3>2, <3>3, <3>4, ToldKept
  <2>7. QED BY <2>6 DEF AllTold
<1>19. ASSUME ControlsUnload
      PROVE  AllTold'
  BY <1>19 DEF ControlsUnload, AllTold, Told, Owed, Terminal
<1>20. ASSUME ControlsLoad
      PROVE  AllTold'
  <2>6. ASSUME NEW i \in Jobs
        PROVE  Told(i)'
    <3>1. Told(i)
      BY DEF AllTold
    <3>2. /\ Terminal(i)' <=> Terminal(i)
          /\ Terminal(i) => job'[i].owner = job[i].owner
          /\ audit'.noticed[i] = audit.noticed[i]
          /\ i \in audit.asked \cup audit.unheard => i \in audit'.asked \cup audit'.unheard
          /\ i \in audit'.told <=> i \in audit.told
      BY <1>20 DEF ControlsLoad, Terminal, Typed, AuditType, AuditRec
    <3>3. ~Terminal(i) => i \notin audit'.told
      BY <3>1, <3>2 DEF Told
    <3>4. Terminal(i) => (Owed(i)' <=> Owed(i))
      BY <1>20, <3>2 DEF ControlsLoad, Owed
    <3>5. QED BY <3>1, <3>2, <3>3, <3>4, ToldKept
  <2>7. QED BY <2>6 DEF AllTold
<1>21. CASE UNCHANGED vars
  BY <1>21 DEF vars, AllTold, Told, Owed, Terminal
<1>22. QED
  BY <1>1, <1>1a, <1>2, <1>3, <1>4, <1>5, <1>6, <1>7, <1>8, <1>9, <1>10, <1>11, <1>12,
     <1>13, <1>14, <1>15, <1>16, <1>17, <1>18, <1>19, <1>20, <1>21 DEF Next, Tools,
     Producers, Timers, OwnerLeaves, ServiceLeaves


(* The jobs of an owner that run or are being stopped.                      *)
Running(o) == {j \in Jobs : Active(j) /\ job[j].owner = o}

(* An owner whose running jobs do not grow stays within its limit.          *)
LEMMA FewerRun ==
  ASSUME NEW o \in Owners, NEW A \in SUBSET Jobs, NEW B \in SUBSET Jobs,
         B \subseteq A, Cardinality(A) <= Limit
  PROVE  Cardinality(B) <= Limit
<1>1. IsFiniteSet(A)
  BY JobsAssumption, FS_Subset
<1>2. IsFiniteSet(B) /\ Cardinality(B) <= Cardinality(A) /\ Cardinality(A) \in Nat
  BY <1>1, FS_Subset, FS_CardinalityType
<1>3. Cardinality(B) \in Nat
  BY <1>2, FS_CardinalityType
<1>4. QED BY <1>2, <1>3, JobsAssumption

(* Every owner is within its limit.                                         *)
Limited == \A o \in Owners : Cardinality(Running(o)) <= Limit

(* Every step leaves every owner within its limit.                          *)
LEMMA LimitStep ==
  ASSUME Typed, StoreKept, Limited, [Next]_vars
  PROVE  Limited'
<1> USE JobsAssumption
<1>1. ASSUME NEW j \in Jobs, NEW o \in Owners, Start(j, o)
      PROVE  Limited'
  <2>1. /\ job[j].status = "new" /\ HasRoom(o) /\ job'[j].owner = o /\ job'[j].status = "running"
        /\ \A i \in Jobs : i # j => job'[i] = job[i]
    BY <1>1 DEF Start, Typed, JobType
  <2>2. \A p \in Owners : Running(p) \in SUBSET Jobs
    BY DEF Running
  <2>3. ASSUME NEW p \in Owners
        PROVE  Cardinality(Running(p)') <= Limit
    <3>1. CASE p # o
      <4>1. Running(p)' = Running(p)
        BY <2>1, <3>1 DEF Running, Active
      <4>2. QED BY <4>1 DEF Limited
    <3>2. CASE p = o
      <4>1. Running(o)' = Running(o) \cup {j} /\ j \notin Running(o)
        BY <2>1 DEF Running, Active
      <4>2. Running(o) = {i \in OwnedBy(o) : Active(i)}
        BY DEF Running, OwnedBy, StoreKept, Kept
      <4>3. Cardinality(Running(o)) < Limit
        BY <2>1, <4>2 DEF HasRoom
      <4>4. IsFiniteSet(Running(o)) /\ Cardinality(Running(o)) \in Nat
        BY <2>2, JobsAssumption, FS_Subset, FS_CardinalityType
      <4>5. Cardinality(Running(o) \cup {j}) = Cardinality(Running(o)) + 1
        BY <4>1, <4>4, FS_AddElement
      <4>6. QED BY <3>2, <4>1, <4>3, <4>4, <4>5, JobsAssumption
    <3>3. QED BY <3>1, <3>2
  <2>4. QED BY <2>3 DEF Limited
<1>1a. ASSUME NEW a \in Agents, StartRefused(a)
      PROVE  Limited'
  <2>1. UNCHANGED job
    BY <1>1a DEF StartRefused
  <2>8. ASSUME NEW o \in Owners
        PROVE  Running(o)' \subseteq Running(o) /\ Running(o) \in SUBSET Jobs /\ Running(o)' \in SUBSET Jobs
    <3>1. \A i \in Jobs : Active(i)' => Active(i) /\ job'[i].owner = job[i].owner
      BY <2>1 DEF Active
    <3>2. QED BY <3>1 DEF Running
  <2>9. QED BY <2>8, FewerRun DEF Limited
<1>2. ASSUME NEW j \in Jobs, Read(j)
      PROVE  Limited'
  <2>8. ASSUME NEW o \in Owners
        PROVE  Running(o)' \subseteq Running(o) /\ Running(o) \in SUBSET Jobs /\ Running(o)' \in SUBSET Jobs
    <3>1. \A i \in Jobs : Active(i)' => Active(i) /\ job'[i].owner = job[i].owner
      BY <1>2 DEF Read, Active, Typed, JobType, JobRec
    <3>2. QED BY <3>1 DEF Running
  <2>9. QED BY <2>8, FewerRun DEF Limited
<1>3. ASSUME NEW j \in Jobs, Kill(j)
      PROVE  Limited'
  <2>8. ASSUME NEW o \in Owners
        PROVE  Running(o)' \subseteq Running(o) /\ Running(o) \in SUBSET Jobs /\ Running(o)' \in SUBSET Jobs
    <3>1. \A i \in Jobs : Active(i)' => Active(i) /\ job'[i].owner = job[i].owner
      BY <1>3 DEF Kill, Active, Typed, JobType, JobRec
    <3>2. QED BY <3>1 DEF Running
  <2>9. QED BY <2>8, FewerRun DEF Limited
<1>4. ASSUME NEW w \in Waits, NEW j \in Jobs, Wait(w, j)
      PROVE  Limited'
  <2>1. UNCHANGED job
    BY <1>4 DEF Wait
  <2>8. ASSUME NEW o \in Owners
        PROVE  Running(o)' \subseteq Running(o) /\ Running(o) \in SUBSET Jobs /\ Running(o)' \in SUBSET Jobs
    <3>1. \A i \in Jobs : Active(i)' => Active(i) /\ job'[i].owner = job[i].owner
      BY <2>1 DEF Active
    <3>2. QED BY <3>1 DEF Running
  <2>9. QED BY <2>8, FewerRun DEF Limited
<1>5. ASSUME NEW w \in Waits, Aborts(w)
      PROVE  Limited'
  <2>1. UNCHANGED job
    BY <1>5 DEF Aborts
  <2>8. ASSUME NEW o \in Owners
        PROVE  Running(o)' \subseteq Running(o) /\ Running(o) \in SUBSET Jobs /\ Running(o)' \in SUBSET Jobs
    <3>1. \A i \in Jobs : Active(i)' => Active(i) /\ job'[i].owner = job[i].owner
      BY <2>1 DEF Active
    <3>2. QED BY <3>1 DEF Running
  <2>9. QED BY <2>8, FewerRun DEF Limited
<1>6. ASSUME NEW j \in Jobs, NEW outcome \in Outcomes, ProducerEnds(j, outcome)
      PROVE  Limited'
  <2>1. UNCHANGED <<service, controls>> /\ ((SettlesTo(j, outcome) /\ AgentsTold) \/ StaysSettled(j))
    BY <1>6, SettleMoves
  <2>5. /\ \A i \in Jobs : Active(i)' = (job'[i].status \in {"running", "stopping"})
        /\ \A i \in Jobs : Terminal(i)' = (job'[i].status \in Outcomes)
        /\ Outcomes \cap {"new", "running", "stopping"} = {} /\ "failed" \in Outcomes
    BY DEF Active, Terminal
  <2>8. ASSUME NEW o \in Owners
        PROVE  Running(o)' \subseteq Running(o) /\ Running(o) \in SUBSET Jobs /\ Running(o)' \in SUBSET Jobs
    <3>1. \A i \in Jobs : Active(i)' => Active(i) /\ job'[i].owner = job[i].owner
      <4>1. CASE SettlesTo(j, outcome)
        BY <2>5, <4>1 DEF SettlesTo, Active
      <4>2. CASE StaysSettled(j)
        BY <4>2 DEF StaysSettled, Active
      <4>3. QED BY <2>1, <4>1, <4>2
    <3>2. QED BY <3>1 DEF Running
  <2>9. QED BY <2>8, FewerRun DEF Limited
<1>7. ASSUME NEW w \in Waits, TimesOut(w)
      PROVE  Limited'
  <2>1. UNCHANGED job
    BY <1>7 DEF TimesOut
  <2>8. ASSUME NEW o \in Owners
        PROVE  Running(o)' \subseteq Running(o) /\ Running(o) \in SUBSET Jobs /\ Running(o)' \in SUBSET Jobs
    <3>1. \A i \in Jobs : Active(i)' => Active(i) /\ job'[i].owner = job[i].owner
      BY <2>1 DEF Active
    <3>2. QED BY <3>1 DEF Running
  <2>9. QED BY <2>8, FewerRun DEF Limited
<1>8. ASSUME NEW w \in Waits, Continues(w)
      PROVE  Limited'
  <2>1. /\ \A i \in Jobs :
             /\ job'[i].reported = (job[i].reported \/ (i \in waits[w].on /\ Terminal(i)))
             /\ job'[i].status = job[i].status /\ job'[i].owner = job[i].owner
             /\ job'[i].stored = job[i].stored
    <3>1. job' = [j \in Jobs |-> IF j \in {i \in waits[w].on : Terminal(i)}
                                 THEN [job[j] EXCEPT !.reported = TRUE] ELSE job[j]]
      BY <1>8 DEF Continues
    <3>2. \A i \in Jobs : job[i] \in JobRec
      BY DEF Typed, JobType
    <3>3. waits[w].on \subseteq Jobs
      BY DEF Typed, WaitType, WaitRec
    <3>4. QED BY <3>1, <3>2, <3>3 DEF JobRec
  <2>2. /\ audit'.asked = audit.asked /\ audit'.noticed = audit.noticed /\ audit'.unheard = audit.unheard
        /\ audit'.wakes = audit.wakes
        /\ audit'.told = audit.told \cup {i \in waits[w].on : Terminal(i)}
    <3> DEFINE u == audit.told \cup {i \in waits[w].on : Terminal(i)}
    <3>1. audit' = [audit EXCEPT !.told = u] /\ audit \in AuditRec
      BY <1>8 DEF Continues, Typed, AuditType
    <3> HIDE DEF u
    <3>2. audit'.asked = audit.asked /\ audit'.noticed = audit.noticed /\ audit'.unheard = audit.unheard
          /\ audit'.wakes = audit.wakes /\ audit'.told = u
      BY <3>1 DEF AuditRec
    <3>3. QED BY <3>2 DEF u
  <2>8. ASSUME NEW o \in Owners
        PROVE  Running(o)' \subseteq Running(o) /\ Running(o) \in SUBSET Jobs /\ Running(o)' \in SUBSET Jobs
    <3>1. \A i \in Jobs : Active(i)' => Active(i) /\ job'[i].owner = job[i].owner
      BY <2>1 DEF Active
    <3>2. QED BY <3>1 DEF Running
  <2>9. QED BY <2>8, FewerRun DEF Limited
<1>9. ASSUME NEW a \in Agents, Leave(a)
      PROVE  Limited'
  <2>1. UNCHANGED job
    BY <1>9 DEF Leave
  <2>8. ASSUME NEW o \in Owners
        PROVE  Running(o)' \subseteq Running(o) /\ Running(o) \in SUBSET Jobs /\ Running(o)' \in SUBSET Jobs
    <3>1. \A i \in Jobs : Active(i)' => Active(i) /\ job'[i].owner = job[i].owner
      BY <2>1 DEF Active
    <3>2. QED BY <3>1 DEF Running
  <2>9. QED BY <2>8, FewerRun DEF Limited
<1>10. ASSUME NEW a \in Agents, ScopeUnloads(a)
      PROVE  Limited'
  <2>1. UNCHANGED job
    BY <1>10 DEF ScopeUnloads
  <2>8. ASSUME NEW o \in Owners
        PROVE  Running(o)' \subseteq Running(o) /\ Running(o) \in SUBSET Jobs /\ Running(o)' \in SUBSET Jobs
    <3>1. \A i \in Jobs : Active(i)' => Active(i) /\ job'[i].owner = job[i].owner
      BY <2>1 DEF Active
    <3>2. QED BY <3>1 DEF Running
  <2>9. QED BY <2>8, FewerRun DEF Limited
<1>11. ASSUME NEW a \in Agents, NoCleanup(a)
      PROVE  Limited'
  <2>1. UNCHANGED job
    BY <1>11 DEF NoCleanup
  <2>8. ASSUME NEW o \in Owners
        PROVE  Running(o)' \subseteq Running(o) /\ Running(o) \in SUBSET Jobs /\ Running(o)' \in SUBSET Jobs
    <3>1. \A i \in Jobs : Active(i)' => Active(i) /\ job'[i].owner = job[i].owner
      BY <2>1 DEF Active
    <3>2. QED BY <3>1 DEF Running
  <2>9. QED BY <2>8, FewerRun DEF Limited
<1>12. ASSUME NEW a \in Agents, OwnerCleanup(a)
      PROVE  Limited'
  <2>1. OwnedBy(a) \in SUBSET Jobs /\ CancelForTeardown(OwnedBy(a))
    BY <1>12 DEF OwnerCleanup, OwnedBy
  <2>2. PICK T \in SUBSET Doomed(OwnedBy(a)) : TornTo(OwnedBy(a), T)
    BY <2>1, TeardownMoves
  <2>3. Doomed(OwnedBy(a)) = {j \in OwnedBy(a) : Active(j)} /\ OwnedBy(a) = {j \in Jobs : job[j].stored /\ job[j].owner = a}
    BY DEF Doomed, OwnedBy
  <2>5. /\ \A i \in Jobs : Active(i)' = (job'[i].status \in {"running", "stopping"})
        /\ \A i \in Jobs : Terminal(i)' = (job'[i].status \in Outcomes)
        /\ Outcomes \cap {"new", "running", "stopping"} = {} /\ "failed" \in Outcomes
    BY DEF Active, Terminal
  <2>8. ASSUME NEW o \in Owners
        PROVE  Running(o)' \subseteq Running(o) /\ Running(o) \in SUBSET Jobs /\ Running(o)' \in SUBSET Jobs
    <3>1. \A i \in Jobs : Active(i)' => Active(i) /\ job'[i].owner = job[i].owner
      BY <2>2, <2>3, <2>5 DEF TornTo, Active
    <3>2. QED BY <3>1 DEF Running
  <2>9. QED BY <2>8, FewerRun DEF Limited
<1>13. ASSUME NEW a \in Agents, OwnerDrained(a)
      PROVE  Limited'
  <2>1. \A i \in Jobs : /\ job'[i].reported = job[i].reported /\ job'[i].owner = job[i].owner
                        /\ job'[i].status = job[i].status
    <3>1. job' = [j \in Jobs |-> IF j \in agent[a].owned THEN [job[j] EXCEPT !.stored = FALSE] ELSE job[j]]
      BY <1>13 DEF OwnerDrained
    <3>2. \A j \in Jobs : job[j] \in JobRec
      BY DEF Typed, JobType
    <3>3. QED BY <3>1, <3>2 DEF JobRec
  <2>2. UNCHANGED <<waits, audit>>
    BY <1>13 DEF OwnerDrained
  <2>8. ASSUME NEW o \in Owners
        PROVE  Running(o)' \subseteq Running(o) /\ Running(o) \in SUBSET Jobs /\ Running(o)' \in SUBSET Jobs
    <3>1. \A i \in Jobs : Active(i)' => Active(i) /\ job'[i].owner = job[i].owner
      BY <2>1 DEF Active
    <3>2. QED BY <3>1 DEF Running
  <2>9. QED BY <2>8, FewerRun DEF Limited
<1>14. ASSUME NEW a \in Agents, HumanTurn(a)
      PROVE  Limited'
  <2>1. UNCHANGED job
    BY <1>14 DEF HumanTurn
  <2>8. ASSUME NEW o \in Owners
        PROVE  Running(o)' \subseteq Running(o) /\ Running(o) \in SUBSET Jobs /\ Running(o)' \in SUBSET Jobs
    <3>1. \A i \in Jobs : Active(i)' => Active(i) /\ job'[i].owner = job[i].owner
      BY <2>1 DEF Active
    <3>2. QED BY <3>1 DEF Running
  <2>9. QED BY <2>8, FewerRun DEF Limited
<1>15. ASSUME NEW a \in Agents, TurnEnds(a)
      PROVE  Limited'
  <2>1. UNCHANGED job
    BY <1>15 DEF TurnEnds
  <2>8. ASSUME NEW o \in Owners
        PROVE  Running(o)' \subseteq Running(o) /\ Running(o) \in SUBSET Jobs /\ Running(o)' \in SUBSET Jobs
    <3>1. \A i \in Jobs : Active(i)' => Active(i) /\ job'[i].owner = job[i].owner
      BY <2>1 DEF Active
    <3>2. QED BY <3>1 DEF Running
  <2>9. QED BY <2>8, FewerRun DEF Limited
<1>16. ASSUME ServiceUnloads
      PROVE  Limited'
  <2>1. UNCHANGED job
    BY <1>16 DEF ServiceUnloads
  <2>8. ASSUME NEW o \in Owners
        PROVE  Running(o)' \subseteq Running(o) /\ Running(o) \in SUBSET Jobs /\ Running(o)' \in SUBSET Jobs
    <3>1. \A i \in Jobs : Active(i)' => Active(i) /\ job'[i].owner = job[i].owner
      BY <2>1 DEF Active
    <3>2. QED BY <3>1 DEF Running
  <2>9. QED BY <2>8, FewerRun DEF Limited
<1>17. ASSUME ServiceCloses
      PROVE  Limited'
  <2>1. Stored \in SUBSET Jobs /\ CancelForTeardown(Stored)
    BY <1>17 DEF ServiceCloses, Stored
  <2>2. PICK T \in SUBSET Doomed(Stored) : TornTo(Stored, T)
    BY <2>1, TeardownMoves
  <2>3. Doomed(Stored) = {j \in Stored : Active(j)} /\ Stored = {j \in Jobs : job[j].stored}
    BY DEF Doomed, Stored
  <2>5. /\ \A i \in Jobs : Active(i)' = (job'[i].status \in {"running", "stopping"})
        /\ \A i \in Jobs : Terminal(i)' = (job'[i].status \in Outcomes)
        /\ Outcomes \cap {"new", "running", "stopping"} = {} /\ "failed" \in Outcomes
    BY DEF Active, Terminal
  <2>8. ASSUME NEW o \in Owners
        PROVE  Running(o)' \subseteq Running(o) /\ Running(o) \in SUBSET Jobs /\ Running(o)' \in SUBSET Jobs
    <3>1. \A i \in Jobs : Active(i)' => Active(i) /\ job'[i].owner = job[i].owner
      BY <2>2, <2>3, <2>5 DEF TornTo, Active
    <3>2. QED BY <3>1 DEF Running
  <2>9. QED BY <2>8, FewerRun DEF Limited
<1>18. ASSUME ServiceDrained
      PROVE  Limited'
  <2>1. \A i \in Jobs : /\ job'[i].reported = job[i].reported /\ job'[i].owner = job[i].owner
                        /\ job'[i].status = job[i].status
    <3>1. job' = [j \in Jobs |-> [job[j] EXCEPT !.stored = FALSE]]
      BY <1>18 DEF ServiceDrained
    <3>2. \A j \in Jobs : job[j] \in JobRec
      BY DEF Typed, JobType
    <3>3. QED BY <3>1, <3>2 DEF JobRec
  <2>2. UNCHANGED <<waits, audit>>
    BY <1>18 DEF ServiceDrained
  <2>8. ASSUME NEW o \in Owners
        PROVE  Running(o)' \subseteq Running(o) /\ Running(o) \in SUBSET Jobs /\ Running(o)' \in SUBSET Jobs
    <3>1. \A i \in Jobs : Active(i)' => Active(i) /\ job'[i].owner = job[i].owner
      BY <2>1 DEF Active
    <3>2. QED BY <3>1 DEF Running
  <2>9. QED BY <2>8, FewerRun DEF Limited
<1>19. ASSUME ControlsUnload
      PROVE  Limited'
  <2>1. UNCHANGED job
    BY <1>19 DEF ControlsUnload
  <2>8. ASSUME NEW o \in Owners
        PROVE  Running(o)' \subseteq Running(o) /\ Running(o) \in SUBSET Jobs /\ Running(o)' \in SUBSET Jobs
    <3>1. \A i \in Jobs : Active(i)' => Active(i) /\ job'[i].owner = job[i].owner
      BY <2>1 DEF Active
    <3>2. QED BY <3>1 DEF Running
  <2>9. QED BY <2>8, FewerRun DEF Limited
<1>20. ASSUME ControlsLoad
      PROVE  Limited'
  <2>1. UNCHANGED job
    BY <1>20 DEF ControlsLoad
  <2>8. ASSUME NEW o \in Owners
        PROVE  Running(o)' \subseteq Running(o) /\ Running(o) \in SUBSET Jobs /\ Running(o)' \in SUBSET Jobs
    <3>1. \A i \in Jobs : Active(i)' => Active(i) /\ job'[i].owner = job[i].owner
      BY <2>1 DEF Active
    <3>2. QED BY <3>1 DEF Running
  <2>9. QED BY <2>8, FewerRun DEF Limited
<1>21. CASE UNCHANGED vars
  BY <1>21 DEF vars, Limited, Running, Active
<1>22. QED
  BY <1>1, <1>1a, <1>2, <1>3, <1>4, <1>5, <1>6, <1>7, <1>8, <1>9, <1>10, <1>11, <1>12,
     <1>13, <1>14, <1>15, <1>16, <1>17, <1>18, <1>19, <1>20, <1>21 DEF Next, Tools,
     Producers, Timers, OwnerLeaves, ServiceLeaves


(* What one step may do to how a job ended, and to who hears of it.         *)
Final(i) == /\ Terminal(i) => job'[i].status = job[i].status
            /\ job[i].status = "stopping" => job'[i].status # "running"
AllFinal == \A i \in Jobs : Final(i)
Quiet == \A i \in audit.asked : audit'.noticed[i] = audit.noticed[i]

(* No step undoes how a job ended.                                          *)
LEMMA FinalStep ==
  ASSUME Typed, [Next]_vars
  PROVE  AllFinal
<1> USE JobsAssumption
<1>1. ASSUME NEW j \in Jobs, NEW o \in Owners, Start(j, o)
      PROVE  AllFinal
  BY <1>1 DEF Start, AllFinal, Final, Active, Terminal, Typed, JobType, JobRec, NewJob
<1>1a. ASSUME NEW a \in Agents, StartRefused(a)
      PROVE  AllFinal
  BY <1>1a DEF StartRefused, AllFinal, Final
<1>2. ASSUME NEW j \in Jobs, Read(j)
      PROVE  AllFinal
  BY <1>2 DEF Read, AllFinal, Final, Active, Terminal, Typed, JobType, JobRec, NewJob
<1>3. ASSUME NEW j \in Jobs, Kill(j)
      PROVE  AllFinal
  BY <1>3 DEF Kill, AllFinal, Final, Active, Terminal, Typed, JobType, JobRec, NewJob
<1>4. ASSUME NEW w \in Waits, NEW j \in Jobs, Wait(w, j)
      PROVE  AllFinal
  BY <1>4 DEF Wait, AllFinal, Final
<1>5. ASSUME NEW w \in Waits, Aborts(w)
      PROVE  AllFinal
  BY <1>5 DEF Aborts, AllFinal, Final
<1>6. ASSUME NEW j \in Jobs, NEW outcome \in Outcomes, ProducerEnds(j, outcome)
      PROVE  AllFinal
  <2>1. UNCHANGED <<service, controls>> /\ ((SettlesTo(j, outcome) /\ AgentsTold) \/ StaysSettled(j))
    BY <1>6, SettleMoves
  <2>2. CASE SettlesTo(j, outcome)
    <3>1. /\ ~Terminal(j) /\ job'[j].status = outcome /\ outcome # "running"
          /\ \A i \in Jobs : i # j => job'[i].status = job[i].status
      BY <2>2 DEF SettlesTo
    <3>2. QED BY <3>1 DEF AllFinal, Final
  <2>3. CASE StaysSettled(j)
    BY <2>3 DEF StaysSettled, AllFinal, Final
  <2>4. QED BY <2>1, <2>2, <2>3
<1>7. ASSUME NEW w \in Waits, TimesOut(w)
      PROVE  AllFinal
  BY <1>7 DEF TimesOut, AllFinal, Final
<1>8. ASSUME NEW w \in Waits, Continues(w)
      PROVE  AllFinal
  <2>1. /\ \A i \in Jobs :
             /\ job'[i].reported = (job[i].reported \/ (i \in waits[w].on /\ Terminal(i)))
             /\ job'[i].status = job[i].status /\ job'[i].owner = job[i].owner
             /\ job'[i].stored = job[i].stored
    <3>1. job' = [j \in Jobs |-> IF j \in {i \in waits[w].on : Terminal(i)}
                                 THEN [job[j] EXCEPT !.reported = TRUE] ELSE job[j]]
      BY <1>8 DEF Continues
    <3>2. \A i \in Jobs : job[i] \in JobRec
      BY DEF Typed, JobType
    <3>3. waits[w].on \subseteq Jobs
      BY DEF Typed, WaitType, WaitRec
    <3>4. QED BY <3>1, <3>2, <3>3 DEF JobRec
  <2>2. /\ audit'.asked = audit.asked /\ audit'.noticed = audit.noticed /\ audit'.unheard = audit.unheard
        /\ audit'.wakes = audit.wakes
        /\ audit'.told = audit.told \cup {i \in waits[w].on : Terminal(i)}
    <3> DEFINE u == audit.told \cup {i \in waits[w].on : Terminal(i)}
    <3>1. audit' = [audit EXCEPT !.told = u] /\ audit \in AuditRec
      BY <1>8 DEF Continues, Typed, AuditType
    <3> HIDE DEF u
    <3>2. audit'.asked = audit.asked /\ audit'.noticed = audit.noticed /\ audit'.unheard = audit.unheard
          /\ audit'.wakes = audit.wakes /\ audit'.told = u
      BY <3>1 DEF AuditRec
    <3>3. QED BY <3>2 DEF u
  <2>9. QED BY <2>1 DEF AllFinal, Final
<1>9. ASSUME NEW a \in Agents, Leave(a)
      PROVE  AllFinal
  BY <1>9 DEF Leave, AllFinal, Final
<1>10. ASSUME NEW a \in Agents, ScopeUnloads(a)
      PROVE  AllFinal
  BY <1>10 DEF ScopeUnloads, AllFinal, Final
<1>11. ASSUME NEW a \in Agents, NoCleanup(a)
      PROVE  AllFinal
  BY <1>11 DEF NoCleanup, AllFinal, Final
<1>12. ASSUME NEW a \in Agents, OwnerCleanup(a)
      PROVE  AllFinal
  <2>1. OwnedBy(a) \in SUBSET Jobs /\ CancelForTeardown(OwnedBy(a))
    BY <1>12 DEF OwnerCleanup, OwnedBy
  <2>2. PICK T \in SUBSET Doomed(OwnedBy(a)) : TornTo(OwnedBy(a), T)
    BY <2>1, TeardownMoves
  <2>3. Doomed(OwnedBy(a)) = {j \in OwnedBy(a) : Active(j)} /\ OwnedBy(a) = {j \in Jobs : job[j].stored /\ job[j].owner = a}
    BY DEF Doomed, OwnedBy
  <2>4. \A i \in Jobs : job'[i].status = IF i \in T THEN "failed"
                            ELSE IF i \in Doomed(OwnedBy(a)) THEN "stopping" ELSE job[i].status
    BY <2>2 DEF TornTo
  <2>5. \A i \in Jobs : i \in Doomed(OwnedBy(a)) => ~Terminal(i)
    BY <2>3 DEF Active, Terminal
  <2>6. QED BY <2>2, <2>4, <2>5 DEF AllFinal, Final
<1>13. ASSUME NEW a \in Agents, OwnerDrained(a)
      PROVE  AllFinal
  <2>1. \A i \in Jobs : /\ job'[i].reported = job[i].reported /\ job'[i].owner = job[i].owner
                        /\ job'[i].status = job[i].status
    <3>1. job' = [j \in Jobs |-> IF j \in agent[a].owned THEN [job[j] EXCEPT !.stored = FALSE] ELSE job[j]]
      BY <1>13 DEF OwnerDrained
    <3>2. \A j \in Jobs : job[j] \in JobRec
      BY DEF Typed, JobType
    <3>3. QED BY <3>1, <3>2 DEF JobRec
  <2>2. UNCHANGED <<waits, audit>>
    BY <1>13 DEF OwnerDrained
  <2>9. QED BY <2>1 DEF AllFinal, Final
<1>14. ASSUME NEW a \in Agents, HumanTurn(a)
      PROVE  AllFinal
  BY <1>14 DEF HumanTurn, AllFinal, Final
<1>15. ASSUME NEW a \in Agents, TurnEnds(a)
      PROVE  AllFinal
  BY <1>15 DEF TurnEnds, AllFinal, Final
<1>16. ASSUME ServiceUnloads
      PROVE  AllFinal
  BY <1>16 DEF ServiceUnloads, AllFinal, Final
<1>17. ASSUME ServiceCloses
      PROVE  AllFinal
  <2>1. Stored \in SUBSET Jobs /\ CancelForTeardown(Stored)
    BY <1>17 DEF ServiceCloses, Stored
  <2>2. PICK T \in SUBSET Doomed(Stored) : TornTo(Stored, T)
    BY <2>1, TeardownMoves
  <2>3. Doomed(Stored) = {j \in Stored : Active(j)} /\ Stored = {j \in Jobs : job[j].stored}
    BY DEF Doomed, Stored
  <2>4. \A i \in Jobs : job'[i].status = IF i \in T THEN "failed"
                            ELSE IF i \in Doomed(Stored) THEN "stopping" ELSE job[i].status
    BY <2>2 DEF TornTo
  <2>5. \A i \in Jobs : i \in Doomed(Stored) => ~Terminal(i)
    BY <2>3 DEF Active, Terminal
  <2>6. QED BY <2>2, <2>4, <2>5 DEF AllFinal, Final
<1>18. ASSUME ServiceDrained
      PROVE  AllFinal
  <2>1. \A i \in Jobs : /\ job'[i].reported = job[i].reported /\ job'[i].owner = job[i].owner
                        /\ job'[i].status = job[i].status
    <3>1. job' = [j \in Jobs |-> [job[j] EXCEPT !.stored = FALSE]]
      BY <1>18 DEF ServiceDrained
    <3>2. \A j \in Jobs : job[j] \in JobRec
      BY DEF Typed, JobType
    <3>3. QED BY <3>1, <3>2 DEF JobRec
  <2>2. UNCHANGED <<waits, audit>>
    BY <1>18 DEF ServiceDrained
  <2>9. QED BY <2>1 DEF AllFinal, Final
<1>19. ASSUME ControlsUnload
      PROVE  AllFinal
  BY <1>19 DEF ControlsUnload, AllFinal, Final
<1>20. ASSUME ControlsLoad
      PROVE  AllFinal
  BY <1>20 DEF ControlsLoad, AllFinal, Final
<1>21. CASE UNCHANGED vars
  BY <1>21 DEF vars, AllFinal, Final
<1>22. QED
  BY <1>1, <1>1a, <1>2, <1>3, <1>4, <1>5, <1>6, <1>7, <1>8, <1>9, <1>10, <1>11, <1>12,
     <1>13, <1>14, <1>15, <1>16, <1>17, <1>18, <1>19, <1>20, <1>21 DEF Next, Tools,
     Producers, Timers, OwnerLeaves, ServiceLeaves

(* No step announces a job that was asked to stop.                          *)
LEMMA QuietStep ==
  ASSUME Typed, AskedReported, [Next]_vars
  PROVE  Quiet
<1> USE JobsAssumption
<1>1. ASSUME NEW j \in Jobs, NEW o \in Owners, Start(j, o)
      PROVE  Quiet
  BY <1>1 DEF Start, Quiet, Typed, AuditType, AuditRec
<1>1a. ASSUME NEW a \in Agents, StartRefused(a)
      PROVE  Quiet
  BY <1>1a DEF StartRefused, Quiet, Typed, AuditType, AuditRec
<1>2. ASSUME NEW j \in Jobs, Read(j)
      PROVE  Quiet
  BY <1>2 DEF Read, Quiet, Typed, AuditType, AuditRec
<1>3. ASSUME NEW j \in Jobs, Kill(j)
      PROVE  Quiet
  BY <1>3 DEF Kill, Quiet, Typed, AuditType, AuditRec
<1>4. ASSUME NEW w \in Waits, NEW j \in Jobs, Wait(w, j)
      PROVE  Quiet
  BY <1>4 DEF Wait, Quiet, Typed, AuditType, AuditRec
<1>5. ASSUME NEW w \in Waits, Aborts(w)
      PROVE  Quiet
  BY <1>5 DEF Aborts, Quiet, Typed, AuditType, AuditRec
<1>6. ASSUME NEW j \in Jobs, NEW outcome \in Outcomes, ProducerEnds(j, outcome)
      PROVE  Quiet
  <2>1. UNCHANGED <<service, controls>> /\ ((SettlesTo(j, outcome) /\ AgentsTold) \/ StaysSettled(j))
    BY <1>6, SettleMoves
  <2>2. CASE SettlesTo(j, outcome)
    <3>1. ASSUME NEW i \in audit.asked
          PROVE  audit'.noticed[i] = audit.noticed[i]
      <4>1. i \in Jobs /\ Asked(i) /\ job[i] \in JobRec
        BY DEF AskedReported, Typed, AuditType, AuditRec, JobType
      <4>2. CASE i # j
        BY <2>2, <4>1, <4>2 DEF SettlesTo
      <4>3. CASE i = j
        <5>1. job[j].reported /\ job'[j].reported = (job[j].reported \/ Waiters(j) # {})
          BY <2>2, <4>1, <4>3 DEF SettlesTo, Asked
        <5>2. job'[j].reported
          BY <5>1
        <5>3. QED BY <2>2, <4>3, <5>2 DEF SettlesTo
      <4>4. QED BY <4>2, <4>3
    <3>2. QED BY <3>1 DEF Quiet
  <2>3. CASE StaysSettled(j)
    BY <2>3 DEF StaysSettled, Quiet
  <2>4. QED BY <2>1, <2>2, <2>3
<1>7. ASSUME NEW w \in Waits, TimesOut(w)
      PROVE  Quiet
  BY <1>7 DEF TimesOut, Quiet, Typed, AuditType, AuditRec
<1>8. ASSUME NEW w \in Waits, Continues(w)
      PROVE  Quiet
  <2>1. /\ \A i \in Jobs :
             /\ job'[i].reported = (job[i].reported \/ (i \in waits[w].on /\ Terminal(i)))
             /\ job'[i].status = job[i].status /\ job'[i].owner = job[i].owner
             /\ job'[i].stored = job[i].stored
    <3>1. job' = [j \in Jobs |-> IF j \in {i \in waits[w].on : Terminal(i)}
                                 THEN [job[j] EXCEPT !.reported = TRUE] ELSE job[j]]
      BY <1>8 DEF Continues
    <3>2. \A i \in Jobs : job[i] \in JobRec
      BY DEF Typed, JobType
    <3>3. waits[w].on \subseteq Jobs
      BY DEF Typed, WaitType, WaitRec
    <3>4. QED BY <3>1, <3>2, <3>3 DEF JobRec
  <2>2. /\ audit'.asked = audit.asked /\ audit'.noticed = audit.noticed /\ audit'.unheard = audit.unheard
        /\ audit'.wakes = audit.wakes
        /\ audit'.told = audit.told \cup {i \in waits[w].on : Terminal(i)}
    <3> DEFINE u == audit.told \cup {i \in waits[w].on : Terminal(i)}
    <3>1. audit' = [audit EXCEPT !.told = u] /\ audit \in AuditRec
      BY <1>8 DEF Continues, Typed, AuditType
    <3> HIDE DEF u
    <3>2. audit'.asked = audit.asked /\ audit'.noticed = audit.noticed /\ audit'.unheard = audit.unheard
          /\ audit'.wakes = audit.wakes /\ audit'.told = u
      BY <3>1 DEF AuditRec
    <3>3. QED BY <3>2 DEF u
  <2>9. QED BY <2>2 DEF Quiet
<1>9. ASSUME NEW a \in Agents, Leave(a)
      PROVE  Quiet
  BY <1>9 DEF Leave, Quiet, Typed, AuditType, AuditRec
<1>10. ASSUME NEW a \in Agents, ScopeUnloads(a)
      PROVE  Quiet
  BY <1>10 DEF ScopeUnloads, Quiet, Typed, AuditType, AuditRec
<1>11. ASSUME NEW a \in Agents, NoCleanup(a)
      PROVE  Quiet
  BY <1>11 DEF NoCleanup, Quiet, Typed, AuditType, AuditRec
<1>12. ASSUME NEW a \in Agents, OwnerCleanup(a)
      PROVE  Quiet
  <2>1. OwnedBy(a) \in SUBSET Jobs /\ CancelForTeardown(OwnedBy(a))
    BY <1>12 DEF OwnerCleanup, OwnedBy
  <2>2. PICK T \in SUBSET Doomed(OwnedBy(a)) : TornTo(OwnedBy(a), T)
    BY <2>1, TeardownMoves
  <2>3. Doomed(OwnedBy(a)) = {j \in OwnedBy(a) : Active(j)} /\ OwnedBy(a) = {j \in Jobs : job[j].stored /\ job[j].owner = a}
    BY DEF Doomed, OwnedBy
  <2>4. QED BY <2>2 DEF TornTo, Quiet
<1>13. ASSUME NEW a \in Agents, OwnerDrained(a)
      PROVE  Quiet
  <2>1. \A i \in Jobs : /\ job'[i].reported = job[i].reported /\ job'[i].owner = job[i].owner
                        /\ job'[i].status = job[i].status
    <3>1. job' = [j \in Jobs |-> IF j \in agent[a].owned THEN [job[j] EXCEPT !.stored = FALSE] ELSE job[j]]
      BY <1>13 DEF OwnerDrained
    <3>2. \A j \in Jobs : job[j] \in JobRec
      BY DEF Typed, JobType
    <3>3. QED BY <3>1, <3>2 DEF JobRec
  <2>2. UNCHANGED <<waits, audit>>
    BY <1>13 DEF OwnerDrained
  <2>9. QED BY <2>2 DEF Quiet
<1>14. ASSUME NEW a \in Agents, HumanTurn(a)
      PROVE  Quiet
  BY <1>14 DEF HumanTurn, Quiet, Typed, AuditType, AuditRec
<1>15. ASSUME NEW a \in Agents, TurnEnds(a)
      PROVE  Quiet
  BY <1>15 DEF TurnEnds, Quiet, Typed, AuditType, AuditRec
<1>16. ASSUME ServiceUnloads
      PROVE  Quiet
  BY <1>16 DEF ServiceUnloads, Quiet, Typed, AuditType, AuditRec
<1>17. ASSUME ServiceCloses
      PROVE  Quiet
  <2>1. Stored \in SUBSET Jobs /\ CancelForTeardown(Stored)
    BY <1>17 DEF ServiceCloses, Stored
  <2>2. PICK T \in SUBSET Doomed(Stored) : TornTo(Stored, T)
    BY <2>1, TeardownMoves
  <2>3. Doomed(Stored) = {j \in Stored : Active(j)} /\ Stored = {j \in Jobs : job[j].stored}
    BY DEF Doomed, Stored
  <2>4. QED BY <2>2 DEF TornTo, Quiet
<1>18. ASSUME ServiceDrained
      PROVE  Quiet
  <2>1. \A i \in Jobs : /\ job'[i].reported = job[i].reported /\ job'[i].owner = job[i].owner
                        /\ job'[i].status = job[i].status
    <3>1. job' = [j \in Jobs |-> [job[j] EXCEPT !.stored = FALSE]]
      BY <1>18 DEF ServiceDrained
    <3>2. \A j \in Jobs : job[j] \in JobRec
      BY DEF Typed, JobType
    <3>3. QED BY <3>1, <3>2 DEF JobRec
  <2>2. UNCHANGED <<waits, audit>>
    BY <1>18 DEF ServiceDrained
  <2>9. QED BY <2>2 DEF Quiet
<1>19. ASSUME ControlsUnload
      PROVE  Quiet
  BY <1>19 DEF ControlsUnload, Quiet, Typed, AuditType, AuditRec
<1>20. ASSUME ControlsLoad
      PROVE  Quiet
  BY <1>20 DEF ControlsLoad, Quiet, Typed, AuditType, AuditRec
<1>21. CASE UNCHANGED vars
  BY <1>21 DEF vars, Quiet
<1>22. QED
  BY <1>1, <1>1a, <1>2, <1>3, <1>4, <1>5, <1>6, <1>7, <1>8, <1>9, <1>10, <1>11, <1>12,
     <1>13, <1>14, <1>15, <1>16, <1>17, <1>18, <1>19, <1>20, <1>21 DEF Next, Tools,
     Producers, Timers, OwnerLeaves, ServiceLeaves


(* The inductive invariant.                                                 *)
IInv == Typed /\ StoreKept /\ AskedReported /\ WaitsOK /\ AllTold /\ Budgeted /\ Limited

LEMMA IInvInit == Init => IInv
<1> USE JobsAssumption
<1> SUFFICES ASSUME Init PROVE IInv
  OBVIOUS
<1>1. Typed
  <2>1. JobType
    BY DEF Init, JobType, JobRec, NewJob, Owners
  <2>2. AgentType
    BY DEF Init, AgentType, AgentRec
  <2>3. WaitType
    BY DEF Init, WaitType, WaitRec, NoWait
  <2>4. ServiceType /\ AuditType
    BY DEF Init, ServiceType, ServiceRec, AuditType, AuditRec
  <2>5. QED BY <2>1, <2>2, <2>3, <2>4 DEF Typed
<1>2. StoreKept
  BY DEF Init, StoreKept, Kept, Active, NewJob
<1>3. AskedReported
  BY DEF Init, AskedReported, Asked, NewJob
<1>4. WaitsOK
  BY DEF Init, WaitsOK, WaitOK, NoWait
<1>5. AllTold
  BY DEF Init, AllTold, Told, Terminal, NewJob
<1>6. Budgeted
  BY DEF Init, Budgeted
<1>7. Limited
  <2>1. \A o \in Owners : Running(o) = {}
    BY DEF Init, Running, Active, NewJob
  <2>2. QED BY <2>1, FS_EmptySet DEF Limited
<1>8. QED BY <1>1, <1>2, <1>3, <1>4, <1>5, <1>6, <1>7 DEF IInv

LEMMA IInvStep == IInv /\ [Next]_vars => IInv'
BY TypeStep, KeptStep, AskedStep, WaitStep, ToldStep, BudgetStep, LimitStep DEF IInv

(* The inductive invariant holds in every state.                            *)
THEOREM IInvHolds == Spec => []IInv
BY IInvInit, IInvStep, PTL DEF Spec

(* Every variable keeps its type.                                           *)
THEOREM TypeCorrect == Spec => []TypeOK
<1>1. IInv => TypeOK
  BY DEF IInv, Typed, JobType, JobRec, AgentType, AgentRec, WaitType, WaitRec, ServiceType,
         ServiceRec, TypeOK
<1>2. QED BY <1>1, IInvHolds, PTL

(* The jobs of an owner that run or are being stopped never exceed          *)
(* maxConcurrentJobsPerOwner (start).                                       *)
THEOREM OwnersAreBounded == Spec => []OwnersBounded
<1>1. IInv => OwnersBounded
  BY DEF IInv, Limited, Running, OwnersBounded
<1>2. QED BY <1>1, IInvHolds, PTL

(* Nothing an agent owned runs or is stored once its disposal is over, and  *)
(* nothing at all once the service's is (ensureOwnerCleanup, dispose).      *)
THEOREM TeardownIsComplete == Spec => []TeardownLeavesNothing
<1>1. IInv => OwnerLeavesNothing
  BY DEF IInv, StoreKept, Kept, OwnerLeavesNothing
<1>2. IInv => ServiceLeavesNothing
  BY DEF IInv, StoreKept, Kept, ServiceLeavesNothing
<1>3. QED BY <1>1, <1>2, IInvHolds, PTL DEF TeardownLeavesNothing

(* Between two messages of a person the notices wake an agent at most       *)
(* maxConsecutiveWakes times (onJobDone, the claim listener).               *)
THEOREM WakesAreBounded == Spec => []WakesBounded
<1>1. IInv => WakesBounded
  BY JobsAssumption DEF IInv, Budgeted, WakesBounded, Typed, AgentType, AgentRec, AuditType, AuditRec
<1>2. QED BY <1>1, IInvHolds, PTL

(* An end nobody asked for reaches its agent exactly one way: by a notice   *)
(* or by the wait it released (settle, wait, onJobDone).                    *)
THEOREM CompletionsAreTold == Spec => []CompletionIsTold
<1>1. IInv => CompletionIsTold
  BY DEF IInv, AllTold, Told, CompletionIsTold
<1>2. QED BY <1>1, IInvHolds, PTL

(* The first outcome of a job stays its outcome (settle, kill).             *)
THEOREM OutcomesAreFinal == Spec => OutcomeIsFinal
<1>1. Typed /\ [Next]_vars => AllFinal
  BY FinalStep
<1>2. IInv /\ [Next]_vars =>
        [\A j \in Jobs : /\ Terminal(j) => job'[j].status = job[j].status
                         /\ job[j].status = "stopping" => job'[j].status # "running"]_vars
  BY <1>1 DEF IInv, AllFinal, Final
<1>3. QED BY <1>2, IInvHolds, PTL DEF Spec, OutcomeIsFinal

(* A job that was asked to stop announces nothing afterwards (kill,         *)
(* cancelForTeardown, settle).                                              *)
THEOREM AskedStayQuiet == Spec => AskedStaysQuiet
<1>1. Typed /\ AskedReported /\ [Next]_vars => Quiet
  BY QuietStep
<1>2. IInv /\ [Next]_vars =>
        [\A j \in audit.asked : audit'.noticed[j] = audit.noticed[j]]_vars
  BY <1>1 DEF IInv, Quiet
<1>3. QED BY <1>2, IInvHolds, PTL DEF Spec, AskedStaysQuiet

=============================================================================
