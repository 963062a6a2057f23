------------------------- MODULE RunRegistryProofs -------------------------
(* Theorems about RunRegistry, for every value of its constants.            *)
EXTENDS RunRegistry, TLAPS

----------------------------------------------------------------------------
(* The inductive invariant                                                  *)

\* The registry holds the newest runs, and only the newest of all can be
\* active: the admission test has seen every other run ended.
RegistryInv ==
  /\ made > 0 => Len(RUNS) > 0
  /\ Len(RUNS) <= made
  /\ \A i \in 1 .. Len(RUNS) : RUNS[i] = made - Len(RUNS) + i
  /\ \A r \in 1 .. made : r < made => r \in ended
  /\ \A r \in RunIds : r > made => worker[r] = "none"

\* What the position of a run's worker says about its process.
WorkerOK(r) ==
  /\ r \in ended <=> worker[r] = "over"
  /\ r \in proc <=> leader[r] # "none"
  /\ worker[r] \in {"none", "created", "started"} => leader[r] = "none"
  /\ worker[r] \in {"reading", "waiting", "killing"} => leader[r] # "none"
  /\ worker[r] \in {"finishing", "over"} /\ leader[r] = "running"
       => answer[r] = "not stopped"

WorkerInv == \A r \in RunIds : WorkerOK(r)

\* Whoever is inside kill_run is killing a run whose process exists.
TargetInv ==
  \A a \in Agents : kpc[a] # "idle" => target[a] \in RunIds /\ target[a] \in proc

\* A worker is inside kill_run only to kill its own run, and comes back without
\* having stopped the leader only with the answer "not stopped".
OwnKillOK(r) ==
  /\ kpc[r] # "idle" => worker[r] = "killing" /\ target[r] = r
  /\ worker[r] = "killing" /\ kpc[r] = "idle" /\ leader[r] = "running"
       => answer[r] = "not stopped"

OwnKillInv == \A r \in RunIds : OwnKillOK(r)

IInv == TypeOK /\ RegistryInv /\ WorkerInv /\ TargetInv /\ OwnKillInv

----------------------------------------------------------------------------
(* Type correctness                                                         *)

\* Registration keeps the registry a bounded sequence of runs.
LEMMA RegisterType ==
  ASSUME RUNS \in Seq(RunIds), Len(RUNS) <= MaxRuns, NEW r \in RunIds
  PROVE  Register(r) \in Seq(RunIds) /\ Len(Register(r)) <= MaxRuns
<1> DEFINE all == Append(RUNS, r)
<1>1. all \in Seq(RunIds) /\ Len(all) = Len(RUNS) + 1
  OBVIOUS
<1>2. CASE Len(all) > MaxRuns
  <2>1. Tail(all) \in Seq(RunIds) /\ Len(Tail(all)) = Len(RUNS)
    BY <1>1
  <2> QED BY <1>2, <2>1 DEF Register
<1>3. CASE ~(Len(all) > MaxRuns)
  BY <1>1, <1>3, RegistryAssumption DEF Register
<1> QED BY <1>2, <1>3

LEMMA InitType == Init => TypeOK
  BY RegistryAssumption DEF Init, TypeOK, RunIds, Agents

LEMMA StepType == TypeOK /\ [Next]_vars => TypeOK'
<1> SUFFICES ASSUME TypeOK, [Next]_vars PROVE TypeOK'
  OBVIOUS
<1>0. made \in Nat /\ MaxLaunches \in Nat /\ RunIds \subseteq 0 .. MaxLaunches
  <2>1. made \in 0 .. MaxLaunches
    BY DEF TypeOK
  <2> QED BY <2>1, RegistryAssumption DEF RunIds
<1> USE DEF TypeOK, recordVars, processVars, killVars
<1>1. ASSUME NEW k \in Keys \cup {NoKey}, NEW q \in Requests, Launch(k, q)
      PROVE  TypeOK'
  <2>0. made < MaxLaunches /\ made' = made + 1
    BY <1>1 DEF Launch
  <2>1. made + 1 \in RunIds /\ made' \in 0 .. MaxLaunches
    <3> HIDE DEF TypeOK
    <3> QED BY <1>0, <2>0 DEF RunIds
  <2>2. RUNS' \in Seq(RunIds) /\ Len(RUNS') <= MaxRuns
    BY <1>1, <2>1, RegisterType DEF Launch
  <2> QED BY <1>1, <2>1, <2>2 DEF Launch
<1>2. ASSUME NEW r \in RunIds, Start(r) PROVE TypeOK'
  BY <1>2 DEF Start, StartThread, StartThreadFails
<1>3. ASSUME NEW r \in RunIds, Worker(r) PROVE TypeOK'
  <2>1. CASE SkipSpawn(r) BY <2>1 DEF SkipSpawn
  <2>2. CASE SpawnProcess(r) BY <2>2 DEF SpawnProcess
  <2>3. CASE SpawnFails(r) BY <2>3 DEF SpawnFails
  <2>4. CASE EndOfOutput(r) BY <2>4 DEF EndOfOutput
  <2>5. CASE Reap(r) BY <2>5 DEF Reap
  <2>6. CASE ReadFails(r)
    <3>1. r \in 0 .. MaxLaunches /\ r \in Agents BY <1>0 DEF Agents
    <3>2. CASE leader[r] = "running"
      <4>1. /\ worker' = [worker EXCEPT ![r] = "killing"]
            /\ stop' = stop \cup {r}
            /\ kpc' = [kpc EXCEPT ![r] = "poll"]
            /\ target' = [target EXCEPT ![r] = r]
            /\ UNCHANGED <<RUNS, made, key, request, ended, proc, leader, tool, answer>>
        BY <2>6, <3>2 DEF ReadFails
      <4>2. target' \in [Agents -> 0 .. MaxLaunches]
        BY <3>1, <4>1
      <4>3. kpc' \in [Agents -> {"idle", "poll", "term", "check", "kill"}]
        BY <3>1, <4>1
      <4> QED BY <4>1, <4>2, <4>3
    <3>3. CASE leader[r] # "running" BY <2>6, <3>1, <3>3 DEF ReadFails
    <3> QED BY <3>2, <3>3
  <2>7. CASE OwnKillReturns(r) BY <2>7 DEF OwnKillReturns
  <2>8. CASE FinishRun(r) BY <2>8 DEF FinishRun
  <2> QED BY <1>3, <2>1, <2>2, <2>3, <2>4, <2>5, <2>6, <2>7, <2>8 DEF Worker
<1>4. ASSUME NEW r \in RunIds, Process(r) PROVE TypeOK'
  BY <1>4 DEF Process, StartTool, LeaderExits, ToolExits
<1>5. ASSUME NEW s \in Stoppers, NEW r \in RunIds, StopRequested(s, r)
      PROVE  TypeOK'
  <2>1. r \in 0 .. MaxLaunches /\ s \in Agents BY <1>0 DEF Agents
  <2> QED BY <1>5, <2>1 DEF StopRequested
<1>6. ASSUME NEW a \in Agents, Kill(a) PROVE TypeOK'
  <2>1. AfterPoll(target[a]) \in [RunIds -> {"none", "running", "zombie", "reaped"}]
    BY DEF AfterPoll
  <2>2. CASE KillPoll(a) BY <2>1, <2>2 DEF KillPoll, Return
  <2>3. CASE KillTerm(a) BY <2>3 DEF KillTerm, Return
  <2>4. CASE KillCheck(a) BY <2>1, <2>4 DEF KillCheck, Return
  <2>5. CASE KillKill(a)
    <3> DEFINE l == IF leader[target[a]] = "running" THEN "zombie" ELSE leader[target[a]]
    <3>1. leader' \in [RunIds -> {"none", "running", "zombie", "reaped"}]
      <4>1. CASE target[a] \in RunIds
        <5>1. leader' = leader \/ leader' = [leader EXCEPT ![target[a]] = l]
          BY <2>5 DEF KillKill
        <5>2. l \in {"none", "running", "zombie", "reaped"}
          BY <4>1
        <5> QED BY <5>1, <5>2
      <4>2. CASE target[a] \notin RunIds
        BY <2>5, <4>2 DEF KillKill
      <4> QED BY <4>1, <4>2
    <3> QED BY <2>5, <3>1 DEF KillKill, Return
  <2> QED BY <1>6, <2>2, <2>3, <2>4, <2>5 DEF Kill
<1>7. CASE UNCHANGED vars
  BY <1>7 DEF vars
<1> QED BY <1>1, <1>2, <1>3, <1>4, <1>5, <1>6, <1>7 DEF Next

----------------------------------------------------------------------------
(* The registry                                                             *)

\* A run of the admission: the registry keeps the newest runs.
LEMMA RegisterNewest ==
  ASSUME TypeOK, RegistryInv, made + 1 \in RunIds
  PROVE  /\ Len(Register(made + 1)) > 0
         /\ Len(Register(made + 1)) <= made + 1
         /\ \A i \in 1 .. Len(Register(made + 1)) :
              Register(made + 1)[i] = made + 1 - Len(Register(made + 1)) + i
<1> DEFINE all == Append(RUNS, made + 1)
           R == Register(made + 1)
<1>1. RUNS \in Seq(RunIds) /\ made \in Nat /\ Len(RUNS) \in Nat
  <2>1. made \in 0 .. MaxLaunches /\ RUNS \in Seq(RunIds) BY DEF TypeOK
  <2> QED BY <2>1, RegistryAssumption
<1>m. MaxRuns \in Nat \ {0} BY RegistryAssumption
<1>2. all \in Seq(RunIds) /\ Len(all) = Len(RUNS) + 1
  BY <1>1
<1>3. \A i \in 1 .. Len(all) : all[i] = made + 1 - Len(all) + i
  <2> TAKE i \in 1 .. Len(all)
  <2>1. CASE i = Len(all) BY <1>1, <1>2, <2>1
  <2>2. CASE i < Len(all)
    <3>1. i \in 1 .. Len(RUNS) /\ all[i] = RUNS[i] BY <1>1, <1>2, <2>2
    <3>2. RUNS[i] = made - Len(RUNS) + i BY <3>1 DEF RegistryInv
    <3> QED BY <1>1, <1>2, <3>1, <3>2
  <2> QED BY <1>2, <2>1, <2>2
<1>l. Len(RUNS) <= made BY DEF RegistryInv
<1>r. R = IF Len(all) > MaxRuns THEN Tail(all) ELSE all BY DEF Register
<1> HIDE DEF all, R
<1>4. /\ Len(R) > 0 /\ Len(R) <= made + 1
      /\ \A i \in 1 .. Len(R) : R[i] = made + 1 - Len(R) + i
  <2>1. CASE Len(all) > MaxRuns
    <3>1. R = Tail(all) /\ all # <<>> BY <1>1, <1>2, <2>1, <1>r
    <3>2. Len(R) = Len(all) - 1 /\ Len(R) > 0 BY <1>1, <1>m, <1>2, <2>1, <3>1
    <3>3. \A i \in 1 .. Len(R) : R[i] = all[i + 1] BY <1>2, <3>1, <3>2
    <3>4. \A i \in 1 .. Len(R) : R[i] = made + 1 - Len(R) + i
      <4> TAKE i \in 1 .. Len(R)
      <4>1. i + 1 \in 1 .. Len(all) BY <1>1, <1>2, <3>2
      <4>2. all[i + 1] = made + 1 - Len(all) + (i + 1) BY <1>3, <4>1
      <4> QED BY <1>1, <1>2, <3>2, <3>3, <4>2
    <3> QED BY <1>1, <1>2, <1>l, <3>2, <3>4
  <2>2. CASE ~(Len(all) > MaxRuns)
    <3>1. R = all BY <2>2, <1>r
    <3>2. Len(all) > 0 /\ Len(all) <= made + 1 BY <1>1, <1>2, <1>l
    <3> QED BY <1>3, <3>1, <3>2, Zenon
  <2> QED BY <2>1, <2>2
<1> QED BY <1>4 DEF R

\* Steps that create no run: they end some, and wake no unborn worker.
LEMMA RegistryKept ==
  ASSUME RegistryInv, RUNS' = RUNS, made' = made,
         \A r \in RunIds : r \in ended => r \in ended',
         \A r \in RunIds : worker[r] = "none" => worker'[r] = "none",
         made \in 0 .. MaxLaunches, MaxLaunches \in Nat
  PROVE  RegistryInv'
<1>1. \A r \in 1 .. made : r \in RunIds BY DEF RunIds
<1> QED BY <1>1 DEF RegistryInv

LEMMA StepRegistry == TypeOK /\ RegistryInv /\ [Next]_vars => RegistryInv'
<1> SUFFICES ASSUME TypeOK, RegistryInv, [Next]_vars PROVE RegistryInv'
  OBVIOUS
<1>0. made \in 0 .. MaxLaunches /\ MaxLaunches \in Nat /\ made \in Nat
  <2>1. made \in 0 .. MaxLaunches BY DEF TypeOK
  <2> QED BY <2>1, RegistryAssumption
<1>t. worker \in [RunIds -> {"none", "created", "started", "reading", "waiting",
                             "killing", "finishing", "over"}]
      /\ ended \subseteq RunIds
  BY DEF TypeOK
<1>1. ASSUME NEW k \in Keys \cup {NoKey}, NEW q \in Requests, Launch(k, q)
      PROVE  RegistryInv'
  <2>0. made < MaxLaunches /\ made' = made + 1
        /\ RUNS' = Register(made + 1) /\ ended' = ended
        /\ worker' = [worker EXCEPT ![made + 1] = "created"]
        /\ \A x \in Retained : x \in ended
    BY <1>1 DEF Launch
  <2>1. made + 1 \in RunIds
    BY <1>0, <2>0 DEF RunIds
  <2>2. Len(RUNS') > 0 /\ Len(RUNS') <= made'
        /\ \A i \in 1 .. Len(RUNS') : RUNS'[i] = made' - Len(RUNS') + i
    <3>1. /\ Len(Register(made + 1)) > 0
          /\ Len(Register(made + 1)) <= made + 1
          /\ \A i \in 1 .. Len(Register(made + 1)) :
               Register(made + 1)[i] = made + 1 - Len(Register(made + 1)) + i
      BY <2>1, RegisterNewest
    <3>2. RUNS' = Register(made + 1) /\ made' = made + 1
      BY <2>0
    <3>3. Len(RUNS') > 0 /\ Len(RUNS') <= made'
      BY <3>1, <3>2
    <3>4. \A i \in 1 .. Len(RUNS') : RUNS'[i] = made' - Len(RUNS') + i
      <4> TAKE i \in 1 .. Len(RUNS')
      <4>1. i \in 1 .. Len(Register(made + 1)) BY <3>2
      <4>2. Register(made + 1)[i] = made + 1 - Len(Register(made + 1)) + i
        BY <3>1, <4>1
      <4>3. RUNS'[i] = Register(made + 1)[i] BY <3>2
      <4>4. Len(RUNS') = Len(Register(made + 1)) BY <3>2
      <4>5. made' = made + 1 BY <3>2
      <4>6. made \in Nat /\ i \in Int BY <1>0
      <4>7. RUNS' \in Seq(RunIds)
        BY <2>0, <2>1, RegisterType DEF TypeOK
      <4> QED BY <4>2, <4>3, <4>4, <4>5, <4>6, <4>7
    <3> QED BY <3>3, <3>4
  <2>3. \A r \in 1 .. made' : r < made' => r \in ended'
    <3> TAKE r \in 1 .. made'
    <3> HAVE r < made'
    <3>1. CASE r < made BY <1>0, <2>0, <3>1 DEF RegistryInv
    <3>2. CASE r = made
      <4>1. RUNS \in Seq(RunIds) BY DEF TypeOK
      <4>2. Len(RUNS) \in 1 .. Len(RUNS) /\ RUNS[Len(RUNS)] = made
        BY <1>0, <3>2, <4>1 DEF RegistryInv
      <4>3. made \in Retained BY <4>2 DEF Retained
      <4> QED BY <2>0, <3>2, <4>3
    <3> QED BY <1>0, <2>0, <3>1, <3>2
  <2>4. \A r \in RunIds : r > made' => worker'[r] = "none"
    <3> TAKE r \in RunIds
    <3> HAVE r > made'
    <3>1. r \in Nat BY <1>0 DEF RunIds
    <3>2. r > made /\ r # made + 1 BY <1>0, <2>0, <3>1
    <3> QED BY <1>t, <2>0, <3>2 DEF RegistryInv
  <2> QED BY <2>2, <2>3, <2>4 DEF RegistryInv
<1> USE DEF recordVars, processVars, killVars
<1>2. ASSUME NEW r \in RunIds, Start(r) PROVE RegistryInv'
  BY <1>0, <1>t, <1>2, RegistryKept DEF Start, StartThread, StartThreadFails
<1>3. ASSUME NEW r \in RunIds, Worker(r) PROVE RegistryInv'
  <2>1. CASE SkipSpawn(r) BY <1>0, <1>t, <2>1, RegistryKept DEF SkipSpawn
  <2>2. CASE SpawnProcess(r) BY <1>0, <1>t, <2>2, RegistryKept DEF SpawnProcess
  <2>3. CASE SpawnFails(r) BY <1>0, <1>t, <2>3, RegistryKept DEF SpawnFails
  <2>4. CASE EndOfOutput(r) BY <1>0, <1>t, <2>4, RegistryKept DEF EndOfOutput
  <2>5. CASE Reap(r) BY <1>0, <1>t, <2>5, RegistryKept DEF Reap
  <2>6. CASE ReadFails(r) BY <1>0, <1>t, <2>6, RegistryKept DEF ReadFails
  <2>7. CASE OwnKillReturns(r) BY <1>0, <1>t, <2>7, RegistryKept DEF OwnKillReturns
  <2>8. CASE FinishRun(r) BY <1>0, <1>t, <2>8, RegistryKept DEF FinishRun
  <2> QED BY <1>3, <2>1, <2>2, <2>3, <2>4, <2>5, <2>6, <2>7, <2>8 DEF Worker
<1>4. ASSUME NEW r \in RunIds, Process(r) PROVE RegistryInv'
  BY <1>0, <1>4, RegistryKept DEF Process, StartTool, LeaderExits, ToolExits
<1>5. ASSUME NEW s \in Stoppers, NEW r \in RunIds, StopRequested(s, r)
      PROVE  RegistryInv'
  BY <1>0, <1>5, RegistryKept DEF StopRequested
<1>6. ASSUME NEW a \in Agents, Kill(a) PROVE RegistryInv'
  BY <1>0, <1>6, RegistryKept DEF Kill, KillPoll, KillTerm, KillCheck, KillKill
<1>7. CASE UNCHANGED vars
  BY <1>0, <1>7, RegistryKept DEF vars
<1> QED BY <1>1, <1>2, <1>3, <1>4, <1>5, <1>6, <1>7 DEF Next

----------------------------------------------------------------------------
(* Workers, processes and kill_run                                          *)

\* What the steps below need of the type invariant.
Typed ==
  /\ worker \in [RunIds -> {"none", "created", "started", "reading", "waiting",
                            "killing", "finishing", "over"}]
  /\ leader \in [RunIds -> {"none", "running", "zombie", "reaped"}]
  /\ DOMAIN kpc = Agents /\ DOMAIN target = Agents /\ DOMAIN answer = Agents
  /\ RunIds \subseteq Agents
  /\ \A s \in Stoppers : s \in Agents /\ s \notin RunIds

LEMMA TypedOK == TypeOK => Typed
<1> SUFFICES ASSUME TypeOK PROVE Typed
  OBVIOUS
<1>1. RunIds \subseteq Nat BY RegistryAssumption DEF RunIds
<1>2. \A s \in Stoppers : s \notin RunIds BY <1>1, RegistryAssumption
<1> QED BY <1>2 DEF TypeOK, Typed, Agents

\* poll makes no process where there was none, and revives none.
LEMMA AfterPollLeader ==
  ASSUME Typed, NEW x \in RunIds, x \in proc, WorkerInv
  PROVE  /\ AfterPoll(x) \in [RunIds -> {"none", "running", "zombie", "reaped"}]
         /\ \A r \in RunIds : AfterPoll(x)[r] = "none" <=> leader[r] = "none"
         /\ \A r \in RunIds : AfterPoll(x)[r] = "running" <=> leader[r] = "running"
         /\ ~PollSaysRunning(x) => AfterPoll(x)[x] # "running"
  BY DEF Typed, WorkerInv, WorkerOK, WorkerOK, AfterPoll, PollSaysRunning

\* What a step of kill_run does to the processes, and what it answers.
LEMMA KillEffect ==
  ASSUME Typed, WorkerInv, TargetInv, NEW a \in Agents, Kill(a)
  PROVE  /\ \A r \in RunIds : leader'[r] = "none" <=> leader[r] = "none"
         /\ \A r \in RunIds : leader'[r] = "running" => leader[r] = "running"
         /\ kpc'[a] = "idle" /\ leader'[target[a]] = "running"
              => answer'[a] = "not stopped"
<1>1. target[a] \in RunIds /\ target[a] \in proc /\ kpc[a] # "idle"
  BY DEF TargetInv, Kill, KillPoll, KillTerm, KillCheck, KillKill
<1>2. /\ AfterPoll(target[a]) \in [RunIds -> {"none", "running", "zombie", "reaped"}]
      /\ \A r \in RunIds : AfterPoll(target[a])[r] = "none" <=> leader[r] = "none"
      /\ \A r \in RunIds : AfterPoll(target[a])[r] = "running" <=> leader[r] = "running"
      /\ ~PollSaysRunning(target[a]) => AfterPoll(target[a])[target[a]] # "running"
  BY <1>1, AfterPollLeader
<1>3. CASE KillPoll(a) BY <1>1, <1>2, <1>3 DEF Typed, KillPoll, Return
<1>4. CASE KillTerm(a) BY <1>1, <1>4 DEF Typed, KillTerm, Return, processVars
<1>5. CASE KillCheck(a) BY <1>1, <1>2, <1>5 DEF Typed, KillCheck, Return
<1>6. CASE KillKill(a)
  <2>1. CASE KillpgRaises(target[a])
    BY <1>1, <1>6, <2>1 DEF Typed, KillKill, Return, processVars
  <2>2. CASE ~KillpgRaises(target[a])
    <3>1. CASE leader[target[a]] = "running"
      <4>1. leader' = [leader EXCEPT ![target[a]] = "zombie"]
        BY <1>1, <1>6, <2>2, <3>1 DEF Typed, KillKill
      <4> QED BY <1>1, <3>1, <4>1 DEF Typed
    <3>2. CASE leader[target[a]] # "running"
      <4>1. leader' = leader
        BY <1>1, <1>6, <2>2, <3>2 DEF Typed, KillKill
      <4> QED BY <3>2, <4>1
    <3> QED BY <3>1, <3>2
  <2> QED BY <2>1, <2>2
<1> QED BY <1>3, <1>4, <1>5, <1>6 DEF Kill

\* The worker and its process stay in step.
LEMMA StepWorker ==
  TypeOK /\ RegistryInv /\ WorkerInv /\ TargetInv /\ OwnKillInv /\ [Next]_vars
    => WorkerInv'
<1> SUFFICES ASSUME TypeOK, RegistryInv, WorkerInv, TargetInv, OwnKillInv, [Next]_vars
             PROVE  WorkerInv'
  OBVIOUS
<1>t. Typed BY TypedOK
<1> USE DEF recordVars, processVars, killVars
<1>1. ASSUME NEW k \in Keys \cup {NoKey}, NEW q \in Requests, Launch(k, q)
      PROVE  WorkerInv'
  <2>1. made + 1 \in RunIds /\ made + 1 > made
    <3>1. made \in 0 .. MaxLaunches BY DEF TypeOK
    <3> QED BY <1>1, <3>1, RegistryAssumption DEF Launch, RunIds
  <2>2. worker[made + 1] = "none" BY <2>1 DEF RegistryInv
  <2>3. worker' = [worker EXCEPT ![made + 1] = "created"]
        /\ UNCHANGED <<ended, stop, proc, leader, tool, kpc, target, answer>>
    BY <1>1 DEF Launch
  <2> QED BY <1>t, <2>1, <2>2, <2>3 DEF Typed, WorkerInv, WorkerOK
<1>2. ASSUME NEW r \in RunIds, Start(r) PROVE WorkerInv'
  <2>1. CASE StartThread(r) BY <1>t, <2>1 DEF Typed, WorkerInv, WorkerOK, StartThread
  <2>2. CASE StartThreadFails(r) BY <1>t, <2>2 DEF Typed, WorkerInv, WorkerOK, StartThreadFails
  <2> QED BY <1>2, <2>1, <2>2 DEF Start
<1>3. ASSUME NEW r \in RunIds, Worker(r) PROVE WorkerInv'
  <2>1. CASE SkipSpawn(r) BY <1>t, <2>1 DEF Typed, WorkerInv, WorkerOK, SkipSpawn
  <2>2. CASE SpawnProcess(r) BY <1>t, <2>2 DEF Typed, WorkerInv, WorkerOK, SpawnProcess
  <2>3. CASE SpawnFails(r) BY <1>t, <2>3 DEF Typed, WorkerInv, WorkerOK, SpawnFails
  <2>4. CASE EndOfOutput(r) BY <1>t, <2>4 DEF Typed, WorkerInv, WorkerOK, EndOfOutput
  <2>5. CASE Reap(r) BY <1>t, <2>5 DEF Typed, WorkerInv, WorkerOK, Reap
  <2>6. CASE ReadFails(r) BY <1>t, <2>6 DEF Typed, WorkerInv, WorkerOK, ReadFails
  <2>7. CASE OwnKillReturns(r)
    <3> SUFFICES ASSUME NEW x \in RunIds PROVE WorkerOK(x)'
      BY DEF WorkerInv
    <3>1. WorkerOK(x) /\ OwnKillOK(x) BY DEF WorkerInv, OwnKillInv
    <3>2. CASE x = r BY <1>t, <2>7, <3>1, <3>2 DEF Typed, WorkerOK, OwnKillOK, OwnKillReturns
    <3>3. CASE x # r BY <1>t, <2>7, <3>1, <3>3 DEF Typed, WorkerOK, OwnKillReturns
    <3> QED BY <3>2, <3>3
  <2>8. CASE FinishRun(r) BY <1>t, <2>8 DEF Typed, WorkerInv, WorkerOK, FinishRun
  <2> QED BY <1>3, <2>1, <2>2, <2>3, <2>4, <2>5, <2>6, <2>7, <2>8 DEF Worker
<1>4. ASSUME NEW r \in RunIds, Process(r) PROVE WorkerInv'
  BY <1>t, <1>4 DEF Typed, WorkerInv, WorkerOK, Process, StartTool, LeaderExits, ToolExits
<1>5. ASSUME NEW s \in Stoppers, NEW r \in RunIds, StopRequested(s, r)
      PROVE  WorkerInv'
  BY <1>t, <1>5 DEF Typed, WorkerInv, WorkerOK, StopRequested
<1>6. ASSUME NEW a \in Agents, Kill(a) PROVE WorkerInv'
  <2>1. UNCHANGED <<worker, ended, proc, target>>
        /\ \A r \in RunIds : r # a => answer'[r] = answer[r] /\ kpc'[r] = kpc[r]
    <3>1. CASE KillPoll(a) BY <1>t, <3>1 DEF Typed, KillPoll, Return
    <3>2. CASE KillTerm(a) BY <1>t, <3>2 DEF Typed, KillTerm, Return
    <3>3. CASE KillCheck(a) BY <1>t, <3>3 DEF Typed, KillCheck, Return
    <3>4. CASE KillKill(a) BY <1>t, <3>4 DEF Typed, KillKill, Return
    <3> QED BY <1>6, <3>1, <3>2, <3>3, <3>4 DEF Kill
  <2>2. /\ \A r \in RunIds : leader'[r] = "none" <=> leader[r] = "none"
        /\ \A r \in RunIds : leader'[r] = "running" => leader[r] = "running"
        /\ kpc'[a] = "idle" /\ leader'[target[a]] = "running" => answer'[a] = "not stopped"
    BY <1>t, <1>6, KillEffect
  <2>3. ASSUME NEW r \in RunIds PROVE WorkerOK(r)'
    <3>1. WorkerOK(r) /\ OwnKillOK(r)
      BY DEF WorkerInv, OwnKillInv
    <3>2. a = r => worker[r] = "killing" /\ target[r] = r
      <4>1. kpc[a] # "idle"
        BY <1>6 DEF Kill, KillPoll, KillTerm, KillCheck, KillKill
      <4> QED BY <3>1, <4>1 DEF OwnKillOK
    <3> QED BY <2>1, <2>2, <3>1, <3>2 DEF WorkerOK, OwnKillOK
  <2> QED BY <2>3 DEF WorkerInv
<1>7. CASE UNCHANGED vars
  BY <1>7 DEF vars, WorkerInv, WorkerOK
<1> QED BY <1>1, <1>2, <1>3, <1>4, <1>5, <1>6, <1>7 DEF Next

\* Nobody enters kill_run's second half without a process to kill.
LEMMA StepTarget ==
  TypeOK /\ RegistryInv /\ WorkerInv /\ TargetInv /\ OwnKillInv /\ [Next]_vars
    => TargetInv'
<1> SUFFICES ASSUME TypeOK, RegistryInv, WorkerInv, TargetInv, OwnKillInv, [Next]_vars
             PROVE  TargetInv'
  OBVIOUS
<1>t. Typed BY TypedOK
<1> USE DEF recordVars, processVars, killVars
<1>1. ASSUME NEW k \in Keys \cup {NoKey}, NEW q \in Requests, Launch(k, q)
      PROVE  TargetInv'
  <2>1. made + 1 \in RunIds /\ made + 1 > made
    <3>1. made \in 0 .. MaxLaunches BY DEF TypeOK
    <3> QED BY <1>1, <3>1, RegistryAssumption DEF Launch, RunIds
  <2>2. worker[made + 1] = "none" BY <2>1 DEF RegistryInv
  <2>3. worker' = [worker EXCEPT ![made + 1] = "created"]
        /\ UNCHANGED <<ended, stop, proc, leader, tool, kpc, target, answer>>
    BY <1>1 DEF Launch
  <2> QED BY <1>t, <2>1, <2>2, <2>3 DEF Typed, TargetInv
<1>2. ASSUME NEW r \in RunIds, Start(r) PROVE TargetInv'
  BY <1>t, <1>2 DEF Typed, TargetInv, Start, StartThread, StartThreadFails
<1>3. ASSUME NEW r \in RunIds, Worker(r) PROVE TargetInv'
  <2>1. CASE SkipSpawn(r) BY <1>t, <2>1 DEF Typed, TargetInv, SkipSpawn
  <2>2. CASE SpawnProcess(r) BY <1>t, <2>2 DEF Typed, TargetInv, SpawnProcess
  <2>3. CASE SpawnFails(r) BY <1>t, <2>3 DEF Typed, TargetInv, SpawnFails
  <2>4. CASE EndOfOutput(r) BY <1>t, <2>4 DEF Typed, TargetInv, EndOfOutput
  <2>5. CASE Reap(r) BY <1>t, <2>5 DEF Typed, TargetInv, Reap
  <2>6. CASE ReadFails(r)
    <3>0. UNCHANGED proc BY <2>6 DEF ReadFails
    <3>1. CASE leader[r] = "running"
      <4>1. kpc' = [kpc EXCEPT ![r] = "poll"] /\ target' = [target EXCEPT ![r] = r]
        BY <2>6, <3>1 DEF ReadFails
      <4>2. r \in proc
        <5>1. WorkerOK(r) BY DEF WorkerInv
        <5> QED BY <3>1, <5>1 DEF WorkerOK
      <4> QED BY <1>t, <3>0, <4>1, <4>2 DEF Typed, TargetInv
    <3>2. CASE leader[r] # "running"
      <4>1. UNCHANGED <<kpc, target>> BY <2>6, <3>2 DEF ReadFails
      <4> QED BY <3>0, <4>1 DEF TargetInv
    <3> QED BY <3>1, <3>2
  <2>7. CASE OwnKillReturns(r) BY <1>t, <2>7 DEF Typed, TargetInv, OwnKillReturns
  <2>8. CASE FinishRun(r) BY <1>t, <2>8 DEF Typed, TargetInv, FinishRun
  <2> QED BY <1>3, <2>1, <2>2, <2>3, <2>4, <2>5, <2>6, <2>7, <2>8 DEF Worker
<1>4. ASSUME NEW r \in RunIds, Process(r) PROVE TargetInv'
  BY <1>t, <1>4 DEF Typed, TargetInv, Process, StartTool, LeaderExits, ToolExits
<1>5. ASSUME NEW s \in Stoppers, NEW r \in RunIds, StopRequested(s, r)
      PROVE  TargetInv'
  BY <1>t, <1>5 DEF Typed, TargetInv, StopRequested
<1>6. ASSUME NEW a \in Agents, Kill(a) PROVE TargetInv'
  <2>0. target[a] \in RunIds /\ target[a] \in proc /\ kpc[a] # "idle"
    BY <1>6 DEF TargetInv, Kill, KillPoll, KillTerm, KillCheck, KillKill
  <2>a. /\ AfterPoll(target[a]) \in [RunIds -> {"none", "running", "zombie", "reaped"}]
        /\ \A r \in RunIds : AfterPoll(target[a])[r] = "none" <=> leader[r] = "none"
        /\ \A r \in RunIds : AfterPoll(target[a])[r] = "running" <=> leader[r] = "running"
        /\ ~PollSaysRunning(target[a]) => AfterPoll(target[a])[target[a]] # "running"
    BY <1>t, <2>0, AfterPollLeader
  <2>1. CASE KillPoll(a)
    BY <1>t, <2>0, <2>a, <2>1 DEF Typed, TargetInv, Return, KillPoll
  <2>2. CASE KillTerm(a)
    BY <1>t, <2>0, <2>a, <2>2 DEF Typed, TargetInv, Return, KillTerm
  <2>3. CASE KillCheck(a)
    BY <1>t, <2>0, <2>a, <2>3 DEF Typed, TargetInv, Return, KillCheck
  <2>4. CASE KillKill(a)
    BY <1>t, <2>0, <2>a, <2>4 DEF Typed, TargetInv, Return, KillKill
  <2> QED BY <1>6, <2>1, <2>2, <2>3, <2>4 DEF Kill
<1>7. CASE UNCHANGED vars
  BY <1>7 DEF vars, TargetInv
<1> QED BY <1>1, <1>2, <1>3, <1>4, <1>5, <1>6, <1>7 DEF Next

\* A worker's own kill_run.
LEMMA StepOwnKill ==
  TypeOK /\ RegistryInv /\ WorkerInv /\ TargetInv /\ OwnKillInv /\ [Next]_vars
    => OwnKillInv'
<1> SUFFICES ASSUME TypeOK, RegistryInv, WorkerInv, TargetInv, OwnKillInv, [Next]_vars
             PROVE  OwnKillInv'
  OBVIOUS
<1>t. Typed BY TypedOK
<1> USE DEF recordVars, processVars, killVars
<1>1. ASSUME NEW k \in Keys \cup {NoKey}, NEW q \in Requests, Launch(k, q)
      PROVE  OwnKillInv'
  <2>1. made + 1 \in RunIds /\ made + 1 > made
    <3>1. made \in 0 .. MaxLaunches BY DEF TypeOK
    <3> QED BY <1>1, <3>1, RegistryAssumption DEF Launch, RunIds
  <2>2. worker[made + 1] = "none" BY <2>1 DEF RegistryInv
  <2>3. worker' = [worker EXCEPT ![made + 1] = "created"]
        /\ UNCHANGED <<ended, stop, proc, leader, tool, kpc, target, answer>>
    BY <1>1 DEF Launch
  <2> QED BY <1>t, <2>1, <2>2, <2>3 DEF Typed, OwnKillInv, OwnKillOK
<1>2. ASSUME NEW r \in RunIds, Start(r) PROVE OwnKillInv'
  <2>1. CASE StartThread(r) BY <1>t, <2>1 DEF Typed, OwnKillInv, OwnKillOK, StartThread
  <2>2. CASE StartThreadFails(r) BY <1>t, <2>2 DEF Typed, OwnKillInv, OwnKillOK, StartThreadFails
  <2> QED BY <1>2, <2>1, <2>2 DEF Start
<1>3. ASSUME NEW r \in RunIds, Worker(r) PROVE OwnKillInv'
  <2>1. CASE SkipSpawn(r) BY <1>t, <2>1 DEF Typed, OwnKillInv, OwnKillOK, WorkerInv, WorkerOK, SkipSpawn
  <2>2. CASE SpawnProcess(r) BY <1>t, <2>2 DEF Typed, OwnKillInv, OwnKillOK, WorkerInv, WorkerOK, SpawnProcess
  <2>3. CASE SpawnFails(r) BY <1>t, <2>3 DEF Typed, OwnKillInv, OwnKillOK, WorkerInv, WorkerOK, SpawnFails
  <2>4. CASE EndOfOutput(r) BY <1>t, <2>4 DEF Typed, OwnKillInv, OwnKillOK, WorkerInv, WorkerOK, EndOfOutput
  <2>5. CASE Reap(r) BY <1>t, <2>5 DEF Typed, OwnKillInv, OwnKillOK, WorkerInv, WorkerOK, Reap
  <2>6. CASE ReadFails(r)
    <3> SUFFICES ASSUME NEW x \in RunIds PROVE OwnKillOK(x)'
      BY DEF OwnKillInv
    <3>1. OwnKillOK(x) BY DEF OwnKillInv
    <3>2. CASE x = r /\ leader[r] = "running"
      BY <1>t, <2>6, <3>1, <3>2 DEF Typed, OwnKillOK, ReadFails
    <3>3. CASE x = r /\ leader[r] # "running"
      BY <1>t, <2>6, <3>1, <3>3 DEF Typed, OwnKillOK, ReadFails
    <3>4. CASE x # r
      BY <1>t, <2>6, <3>1, <3>4 DEF Typed, OwnKillOK, ReadFails
    <3> QED BY <3>2, <3>3, <3>4
  <2>7. CASE OwnKillReturns(r) BY <1>t, <2>7 DEF Typed, OwnKillInv, OwnKillOK, WorkerInv, WorkerOK, OwnKillReturns
  <2>8. CASE FinishRun(r) BY <1>t, <2>8 DEF Typed, OwnKillInv, OwnKillOK, WorkerInv, WorkerOK, FinishRun
  <2> QED BY <1>3, <2>1, <2>2, <2>3, <2>4, <2>5, <2>6, <2>7, <2>8 DEF Worker
<1>4. ASSUME NEW r \in RunIds, Process(r) PROVE OwnKillInv'
  BY <1>t, <1>4 DEF Typed, OwnKillInv, OwnKillOK, Process, StartTool, LeaderExits, ToolExits
<1>5. ASSUME NEW s \in Stoppers, NEW r \in RunIds, StopRequested(s, r)
      PROVE  OwnKillInv'
  <2> SUFFICES ASSUME NEW x \in RunIds PROVE OwnKillOK(x)'
    BY DEF OwnKillInv
  <2>1. OwnKillOK(x) /\ x # s BY <1>t DEF OwnKillInv, Typed
  <2>2. kpc'[x] = kpc[x] /\ target'[x] = target[x] /\ answer'[x] = answer[x]
    BY <1>t, <1>5, <2>1 DEF Typed, StopRequested
  <2>3. UNCHANGED <<worker, leader>>
    BY <1>5 DEF StopRequested
  <2> QED BY <2>1, <2>2, <2>3 DEF OwnKillOK
<1>6. ASSUME NEW a \in Agents, Kill(a) PROVE OwnKillInv'
  <2>1. UNCHANGED <<worker, ended, proc, target>>
        /\ \A r \in RunIds : r # a => answer'[r] = answer[r] /\ kpc'[r] = kpc[r]
    <3>1. CASE KillPoll(a) BY <1>t, <3>1 DEF Typed, KillPoll, Return
    <3>2. CASE KillTerm(a) BY <1>t, <3>2 DEF Typed, KillTerm, Return
    <3>3. CASE KillCheck(a) BY <1>t, <3>3 DEF Typed, KillCheck, Return
    <3>4. CASE KillKill(a) BY <1>t, <3>4 DEF Typed, KillKill, Return
    <3> QED BY <1>6, <3>1, <3>2, <3>3, <3>4 DEF Kill
  <2>2. /\ \A r \in RunIds : leader'[r] = "none" <=> leader[r] = "none"
        /\ \A r \in RunIds : leader'[r] = "running" => leader[r] = "running"
        /\ kpc'[a] = "idle" /\ leader'[target[a]] = "running" => answer'[a] = "not stopped"
    BY <1>t, <1>6, KillEffect
  <2>3. ASSUME NEW r \in RunIds PROVE OwnKillOK(r)'
    <3>1. WorkerOK(r) /\ OwnKillOK(r)
      BY DEF WorkerInv, OwnKillInv
    <3>2. a = r => worker[r] = "killing" /\ target[r] = r
      <4>1. kpc[a] # "idle"
        BY <1>6 DEF Kill, KillPoll, KillTerm, KillCheck, KillKill
      <4> QED BY <3>1, <4>1 DEF OwnKillOK
    <3> QED BY <2>1, <2>2, <3>1, <3>2 DEF WorkerOK, OwnKillOK
  <2> QED BY <2>3 DEF OwnKillInv
<1>7. CASE UNCHANGED vars
  BY <1>7 DEF vars, OwnKillInv, OwnKillOK
<1> QED BY <1>1, <1>2, <1>3, <1>4, <1>5, <1>6, <1>7 DEF Next

----------------------------------------------------------------------------
(* The theorems                                                             *)

\* Every variable keeps its type, and the registry its bound MAX_RUNS.
THEOREM TypeCorrect == Spec => []TypeOK
<1>1. Init => TypeOK BY InitType
<1>2. TypeOK /\ [Next]_vars => TypeOK' BY StepType
<1> QED BY <1>1, <1>2, PTL DEF Spec

LEMMA InitInv == Init => IInv
<1> SUFFICES ASSUME Init PROVE IInv
  OBVIOUS
<1>1. TypeOK BY InitType
<1>2. RegistryInv
  <2>1. made = 0 /\ Len(RUNS) = 0 /\ \A r \in RunIds : worker[r] = "none"
    BY DEF Init
  <2> QED BY <2>1 DEF RegistryInv
<1>3. WorkerInv BY DEF Init, WorkerInv, WorkerOK
<1>4. TargetInv BY DEF Init, TargetInv
<1>5. OwnKillInv BY DEF Init, OwnKillInv, OwnKillOK, Agents
<1> QED BY <1>1, <1>2, <1>3, <1>4, <1>5 DEF IInv

LEMMA StepInv == IInv /\ [Next]_vars => IInv'
  BY StepType, StepRegistry, StepWorker, StepTarget, StepOwnKill DEF IInv

\* The strengthening on which every safety theorem below rests: registry,
\* workers, processes and calls of kill_run stay in step.
THEOREM Inductive == Spec => []IInv
<1>1. Init => IInv BY InitInv
<1>2. IInv /\ [Next]_vars => IInv' BY StepInv
<1> QED BY <1>1, <1>2, PTL DEF Spec

\* Of all the runs ever created at most one, the newest, has not ended.
THEOREM OneActive == Spec => []AtMostOneActive
<1>1. IInv => AtMostOneActive
  <2> SUFFICES ASSUME IInv, NEW r \in 1 .. made, NEW x \in 1 .. made,
                      r \notin ended, x \notin ended
               PROVE  r = x
    BY DEF AtMostOneActive
  <2>1. made \in Nat
    <3>1. made \in 0 .. MaxLaunches BY DEF IInv, TypeOK
    <3> QED BY <3>1, RegistryAssumption
  <2>2. ~(r < made) /\ ~(x < made) BY DEF IInv, RegistryInv
  <2> QED BY <2>1, <2>2
<1> QED BY <1>1, Inductive, PTL

\* Eviction never takes the active run out of the admission test's sight.
THEOREM ActiveRetained == Spec => []ActiveIsRetained
<1>1. IInv => ActiveIsRetained
  <2> SUFFICES ASSUME IInv, NEW r \in 1 .. made, r \notin ended
               PROVE  r \in Retained
    BY DEF ActiveIsRetained
  <2>1. made \in Nat
    <3>1. made \in 0 .. MaxLaunches BY DEF IInv, TypeOK
    <3> QED BY <3>1, RegistryAssumption
  <2>2. ~(r < made) BY DEF IInv, RegistryInv
  <2>3. r = made BY <2>1, <2>2
  <2>4. RUNS \in Seq(RunIds) BY DEF IInv, TypeOK
  <2>5. Len(RUNS) > 0 /\ \A i \in 1 .. Len(RUNS) : RUNS[i] = made - Len(RUNS) + i
    BY <2>1, <2>3 DEF IInv, RegistryInv
  <2>6. Len(RUNS) \in 1 .. Len(RUNS) /\ RUNS[Len(RUNS)] = made
    BY <2>1, <2>4, <2>5
  <2> QED BY <2>3, <2>6 DEF Retained
<1> QED BY <1>1, Inductive, PTL

\* An ended run has left no leader running, unless its own kill_run could not
\* kill it.
THEOREM EndedStopped == Spec => []EndedRunHasStopped
<1>1. IInv => EndedRunHasStopped
  <2> SUFFICES ASSUME IInv, NEW r \in RunIds, r \in ended, leader[r] = "running"
               PROVE  answer[r] = "not stopped"
    BY DEF EndedRunHasStopped
  <2>1. WorkerOK(r) BY DEF IInv, WorkerInv
  <2> QED BY <2>1 DEF WorkerOK
<1> QED BY <1>1, Inductive, PTL

\* A stop that came before the process prevents it: only SpawnProcess makes a
\* process, and it looks at stop_requested.
LEMMA StepNoSpawn ==
  IInv /\ [Next]_vars =>
    \A x \in RunIds : leader[x] = "none" /\ x \in stop => leader'[x] = "none"
<1> SUFFICES ASSUME IInv, [Next]_vars, NEW x \in RunIds, leader[x] = "none", x \in stop
             PROVE  leader'[x] = "none"
  OBVIOUS
<1>t. Typed /\ WorkerInv /\ TargetInv BY TypedOK DEF IInv
<1> USE DEF processVars
<1>1. CASE \E k \in Keys \cup {NoKey}, q \in Requests : Launch(k, q)
  BY <1>1 DEF Launch
<1>2. ASSUME NEW r \in RunIds, Start(r) PROVE leader'[x] = "none"
  BY <1>2 DEF Start, StartThread, StartThreadFails
<1>3. ASSUME NEW r \in RunIds, Worker(r) PROVE leader'[x] = "none"
  <2>0. WorkerOK(x) BY <1>t DEF WorkerInv
  <2>1. CASE SkipSpawn(r) BY <2>1 DEF SkipSpawn
  <2>2. CASE SpawnProcess(r) BY <1>t, <2>2 DEF Typed, SpawnProcess
  <2>3. CASE SpawnFails(r) BY <2>3 DEF SpawnFails
  <2>4. CASE EndOfOutput(r) BY <2>4 DEF EndOfOutput
  <2>5. CASE Reap(r) BY <1>t, <2>0, <2>5 DEF Typed, WorkerOK, Reap
  <2>6. CASE ReadFails(r) BY <1>t, <2>0, <2>6 DEF Typed, WorkerOK, ReadFails
  <2>7. CASE OwnKillReturns(r) BY <2>7 DEF OwnKillReturns
  <2>8. CASE FinishRun(r) BY <2>8 DEF FinishRun
  <2> QED BY <1>3, <2>1, <2>2, <2>3, <2>4, <2>5, <2>6, <2>7, <2>8 DEF Worker
<1>4. ASSUME NEW r \in RunIds, Process(r) PROVE leader'[x] = "none"
  BY <1>t, <1>4 DEF Typed, Process, StartTool, LeaderExits, ToolExits
<1>5. ASSUME NEW s \in Stoppers, NEW r \in RunIds, StopRequested(s, r)
      PROVE  leader'[x] = "none"
  BY <1>5 DEF StopRequested
<1>6. ASSUME NEW a \in Agents, Kill(a) PROVE leader'[x] = "none"
  BY <1>t, <1>6, KillEffect
<1>7. CASE UNCHANGED vars
  BY <1>7 DEF vars
<1> QED BY <1>1, <1>2, <1>3, <1>4, <1>5, <1>6, <1>7 DEF Next

THEOREM NoSpawnAfterStop == Spec => StopBeforeStartPreventsSpawn
<1>1. IInv /\ [Next]_vars =>
        [\A r \in RunIds : leader[r] = "none" /\ r \in stop => leader'[r] = "none"]_vars
  BY StepNoSpawn
<1> QED BY <1>1, Inductive, PTL DEF Spec, StopBeforeStartPreventsSpawn

----------------------------------------------------------------------------
(* Keys                                                                     *)

\* No two retained runs have the same request_id.
KeysDiffer == \A x, y \in Retained : key[x] # NoKey /\ key[x] = key[y] => x = y

\* What is retained after an admission.
LEMMA RetainedAfter ==
  ASSUME RUNS \in Seq(RunIds), NEW r \in RunIds, NEW x \in RunIds,
         RUNS' = Register(r), x \in Retained'
  PROVE  x \in Retained \/ x = r
<1> DEFINE all == Append(RUNS, r)
<1>1. all \in Seq(RunIds) /\ Len(all) = Len(RUNS) + 1
  OBVIOUS
<1>2. \A i \in 1 .. Len(all) : all[i] \in Retained \/ all[i] = r
  <2> TAKE i \in 1 .. Len(all)
  <2>1. CASE i = Len(all) BY <1>1, <2>1
  <2>2. CASE i < Len(all)
    <3>1. i \in 1 .. Len(RUNS) /\ all[i] = RUNS[i] BY <1>1, <2>2
    <3> QED BY <3>1 DEF Retained
  <2> QED BY <1>1, <2>1, <2>2
<1>3. PICK j \in 1 .. Len(Register(r)) : x = Register(r)[j]
  BY DEF Retained
<1>4. Register(r) = all \/ (Register(r) = Tail(all) /\ all # <<>>)
  BY <1>1 DEF Register
<1> HIDE DEF all
<1>5. \E i \in 1 .. Len(all) : x = all[i]
  <2>1. CASE Register(r) = all BY <1>3, <2>1
  <2>2. CASE Register(r) = Tail(all) /\ all # <<>>
    <3>1. j \in 1 .. Len(Tail(all)) /\ x = Tail(all)[j] BY <1>3, <2>2
    <3>2. Len(Tail(all)) = Len(all) - 1 BY <1>1, <2>2
    <3>3. j + 1 \in 1 .. Len(all) /\ Tail(all)[j] = all[j + 1]
      BY <1>1, <2>2, <3>1, <3>2
    <3> QED BY <3>1, <3>3
  <2> QED BY <1>4, <2>1, <2>2
<1> QED BY <1>2, <1>5

LEMMA StepKeys == IInv /\ KeysDiffer /\ [Next]_vars => KeysDiffer'
<1> SUFFICES ASSUME IInv, KeysDiffer, [Next]_vars PROVE KeysDiffer'
  OBVIOUS
<1>t. RUNS \in Seq(RunIds) /\ key \in [RunIds -> Keys \cup {NoKey}]
  BY DEF IInv, TypeOK
<1>1. ASSUME NEW k \in Keys \cup {NoKey}, NEW q \in Requests, Launch(k, q)
      PROVE  KeysDiffer'
  <2> DEFINE r == made + 1
  <2>1. made \in Nat /\ r \in RunIds
    <3>1. made \in 0 .. MaxLaunches BY DEF IInv, TypeOK
    <3> QED BY <1>1, <3>1, RegistryAssumption DEF Launch, RunIds
  <2>2. /\ k # NoKey => \A x \in Retained : key[x] # k
        /\ RUNS' = Register(r)
        /\ key' = [key EXCEPT ![r] = k]
    BY <1>1 DEF Launch
  <2>3. r \notin Retained
    <3>1. \A i \in 1 .. Len(RUNS) : RUNS[i] <= made
      <4>1. Len(RUNS) \in Nat BY <1>t
      <4> QED BY <2>1, <4>1 DEF IInv, RegistryInv
    <3>2. \A x \in Retained : x <= made BY <3>1 DEF Retained
    <3> QED BY <2>1, <3>2
  <2>4. RUNS' \in Seq(RunIds) BY <1>t, <2>1, <2>2, RegisterType DEF IInv, TypeOK
  <2>5. \A x \in Retained' : x \in RunIds BY <2>4 DEF Retained
  <2> HIDE DEF r
  <2>6. \A x \in Retained' : x \in Retained \/ x = r
    BY <1>t, <2>1, <2>2, <2>5, RetainedAfter
  <2>7. \A x \in Retained : x \in RunIds BY <1>t DEF Retained
  <2>8. \A x \in Retained : key'[x] = key[x] BY <1>t, <2>2, <2>3, <2>7
  <2>9. key'[r] = k BY <1>t, <2>1, <2>2
  <2> SUFFICES ASSUME NEW x \in Retained', NEW y \in Retained',
                      key'[x] # NoKey, key'[x] = key'[y]
               PROVE  x = y
    BY DEF KeysDiffer
  <2>10. (x \in Retained \/ x = r) /\ (y \in Retained \/ y = r) BY <2>6
  <2> QED BY <2>2, <2>8, <2>9, <2>10 DEF KeysDiffer
<1>2. CASE UNCHANGED <<RUNS, key>>
  BY <1>2 DEF KeysDiffer, Retained
<1>3. (\E r \in RunIds : Start(r) \/ Worker(r) \/ Process(r))
        \/ (\E s \in Stoppers, r \in RunIds : StopRequested(s, r))
        \/ (\E a \in Agents : Kill(a)) \/ UNCHANGED vars
        => UNCHANGED <<RUNS, key>>
  BY DEF Start, StartThread, StartThreadFails, Worker, SkipSpawn, SpawnProcess,
         SpawnFails, EndOfOutput, Reap, ReadFails, OwnKillReturns, FinishRun,
         Process, StartTool, LeaderExits, ToolExits, StopRequested, Kill,
         KillPoll, KillTerm, KillCheck, KillKill, vars, recordVars
<1> QED BY <1>1, <1>2, <1>3 DEF Next

\* A retry finds the one run that its first attempt created.
THEOREM OneKey == Spec => []OneRunPerKey
<1>1. Init => KeysDiffer BY DEF Init, KeysDiffer, Retained
<1>2. IInv /\ KeysDiffer /\ [Next]_vars => KeysDiffer' BY StepKeys
<1>3. IInv /\ KeysDiffer => OneRunPerKey
  <2> SUFFICES ASSUME IInv, KeysDiffer, NEW i \in 1 .. Len(RUNS), NEW j \in 1 .. Len(RUNS),
                      key[RUNS[i]] # NoKey, key[RUNS[i]] = key[RUNS[j]]
               PROVE  i = j
    BY DEF OneRunPerKey
  <2>1. RUNS[i] = RUNS[j] BY DEF KeysDiffer, Retained
  <2>2. made \in Int /\ Len(RUNS) \in Nat
    <3>1. made \in 0 .. MaxLaunches /\ RUNS \in Seq(RunIds) BY DEF IInv, TypeOK
    <3> QED BY <3>1, RegistryAssumption
  <2> QED BY <2>1, <2>2 DEF IInv, RegistryInv
<1> QED BY <1>1, <1>2, <1>3, Inductive, PTL DEF Spec

=============================================================================
