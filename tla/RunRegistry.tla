---------------------------- MODULE RunRegistry ----------------------------
(***************************************************************************)
(* Admission, execution and stopping of runs in srx-dashboard/dashboard.py: *)
(* spawn_run, the target_thread that executes a run, kill_run, and the     *)
(* registry RUNS.  What a run publishes is RunStream's subject; here a run *)
(* is active until finish has set `ended'.                                 *)
(*                                                                         *)
(* Runs are numbered in the order of their creation (the code draws uuids).*)
(* The workload is a process group of its own (start_new_session): the     *)
(* leader is the command Popen starts, the tool is whatever it starts in   *)
(* its turn.  Tools run with captured output, so the dashboard's end of    *)
(* the pipe sees end of file when the leader alone has gone.               *)
(***************************************************************************)
EXTENDS Integers, Sequences, FiniteSets

CONSTANTS Keys,        \* request_ids that clients use
          NoKey,       \* a launch without request_id
          Requests,    \* (workload, target, src, params) tuples
          Privileged,  \* the requests that make_cmd prefixes with sudo
          Stoppers,    \* handler threads that serve /api/kill
          MaxRuns,     \* MAX_RUNS: runs retained
          MaxLaunches  \* bound: runs ever created

ASSUME RegistryAssumption ==
  /\ MaxRuns \in Nat \ {0}
  /\ MaxLaunches \in Nat
  /\ Requests # {} /\ Privileged \subseteq Requests
  /\ NoKey \notin Keys
  /\ Stoppers \cap Nat = {}

RunIds == 1 .. MaxLaunches

\* kill_run is called by a handler, or by a run's own worker, which is
\* named by the run.
Agents == Stoppers \cup RunIds

VARIABLES
  RUNS,     \* the registry: retained runs, oldest first
  made,     \* runs created so far
  key,      \* Run.request_id
  request,  \* Run.request
  ended,    \* runs whose ended (and, under the same lock, terminal) is set
  stop,     \* runs whose stop_requested is set
  proc,     \* runs whose proc is set
  worker,   \* where the run's target_thread is
  leader,   \* the process: "none", "running", "zombie" or "reaped"
  tool,     \* runs whose leader has started a process that is alive
  kpc,      \* agent: where its kill_run is
  target,   \* agent: the run it is killing
  answer    \* agent: what its last kill_run returned

recordVars == <<key, request>>
processVars == <<leader, tool>>
killVars == <<kpc, target, answer>>
vars == <<RUNS, made, recordVars, ended, stop, proc, worker, processVars, killVars>>

Retained == {RUNS[i] : i \in 1 .. Len(RUNS)}
Active(r) == r \in 1 .. made /\ r \notin ended

----------------------------------------------------------------------------
(* spawn_run                                                                *)

\* Mutant of Register: nothing is evicted.
RegisterUnbounded(r) == Append(RUNS, r)

\* Mutant of Register: popitem() takes the newest run.
RegisterEvictNewest(r) ==
  LET all == Append(RUNS, r)
  IN  IF Len(all) > MaxRuns THEN SubSeq(all, 1, MaxRuns) ELSE all

Register(r) ==
  LET all == Append(RUNS, r)
  IN  IF Len(all) > MaxRuns THEN Tail(all) ELSE all

\* Mutant of Launch: an active run is no obstacle.
LaunchBesideActive(k, q) ==
  LET r == made + 1
  IN  /\ made < MaxLaunches
      /\ k # NoKey => \A x \in Retained : key[x] # k
      /\ made' = r
      /\ RUNS' = Register(r)
      /\ key' = [key EXCEPT ![r] = k]
      /\ request' = [request EXCEPT ![r] = q]
      /\ worker' = [worker EXCEPT ![r] = "created"]
      /\ UNCHANGED <<ended, stop, proc, processVars, killVars>>

\* Mutant of Launch: the request_id is not looked up.
LaunchAgain(k, q) ==
  LET r == made + 1
  IN  /\ made < MaxLaunches
      /\ \A x \in Retained : x \in ended
      /\ made' = r
      /\ RUNS' = Register(r)
      /\ key' = [key EXCEPT ![r] = k]
      /\ request' = [request EXCEPT ![r] = q]
      /\ worker' = [worker EXCEPT ![r] = "created"]
      /\ UNCHANGED <<ended, stop, proc, processVars, killVars>>

\* Under RUNS_LOCK.  A request_id that a retained run has leads to that run
\* or to an AdmissionError, an active run to an AdmissionError: neither
\* changes anything, so only the launch that is admitted is an action.
Launch(k, q) ==
  LET r == made + 1
  IN  /\ made < MaxLaunches
      /\ k # NoKey => \A x \in Retained : key[x] # k
      /\ \A x \in Retained : x \in ended
      /\ made' = r
      /\ RUNS' = Register(r)
      /\ key' = [key EXCEPT ![r] = k]
      /\ request' = [request EXCEPT ![r] = q]
      /\ worker' = [worker EXCEPT ![r] = "created"]
      /\ UNCHANGED <<ended, stop, proc, processVars, killVars>>

\* Thread(target=target_thread).start()
StartThread(r) ==
  /\ worker[r] = "created"
  /\ worker' = [worker EXCEPT ![r] = "started"]
  /\ UNCHANGED <<RUNS, made, recordVars, ended, stop, proc, processVars, killVars>>

\* Mutant of StartThreadFails: the run is not finished.
StartThreadFailsQuietly(r) ==
  /\ worker[r] = "created"
  /\ worker' = [worker EXCEPT ![r] = "over"]
  /\ UNCHANGED <<RUNS, made, recordVars, ended, stop, proc, processVars, killVars>>

\* start() raises: run.finish(1) in the handler.
StartThreadFails(r) ==
  /\ worker[r] = "created"
  /\ worker' = [worker EXCEPT ![r] = "over"]
  /\ ended' = ended \cup {r}
  /\ UNCHANGED <<RUNS, made, recordVars, stop, proc, processVars, killVars>>

----------------------------------------------------------------------------
(* target_thread                                                            *)

\* Under run.lock: a run stopped before it starts spawns nothing.
SkipSpawn(r) ==
  /\ worker[r] = "started"
  /\ r \in stop
  /\ worker' = [worker EXCEPT ![r] = "finishing"]
  /\ UNCHANGED <<RUNS, made, recordVars, ended, stop, proc, processVars, killVars>>

\* Mutant of SpawnProcess: stop_requested is not looked at.
SpawnRegardless(r) ==
  /\ worker[r] = "started"
  /\ proc' = proc \cup {r}
  /\ leader' = [leader EXCEPT ![r] = "running"]
  /\ worker' = [worker EXCEPT ![r] = "reading"]
  /\ UNCHANGED <<RUNS, made, recordVars, ended, stop, tool, killVars>>

\* Under run.lock: Popen, and run.proc is set.
SpawnProcess(r) ==
  /\ worker[r] = "started"
  /\ r \notin stop
  /\ proc' = proc \cup {r}
  /\ leader' = [leader EXCEPT ![r] = "running"]
  /\ worker' = [worker EXCEPT ![r] = "reading"]
  /\ UNCHANGED <<RUNS, made, recordVars, ended, stop, tool, killVars>>

\* Popen raises: rc is 127 or 1, and proc is None.
SpawnFails(r) ==
  /\ worker[r] = "started"
  /\ r \notin stop
  /\ worker' = [worker EXCEPT ![r] = "finishing"]
  /\ UNCHANGED <<RUNS, made, recordVars, ended, stop, proc, processVars, killVars>>

\* readline returns "": the leader has gone, or has closed its output.
EndOfOutput(r) ==
  /\ worker[r] = "reading"
  /\ worker' = [worker EXCEPT ![r] = "waiting"]
  /\ UNCHANGED <<RUNS, made, recordVars, ended, stop, proc, processVars, killVars>>

\* Mutant of Reap: rc = proc.poll().
ReapWithoutWaiting(r) ==
  /\ worker[r] = "waiting"
  /\ leader' = [leader EXCEPT ![r] = IF @ = "running" THEN @ ELSE "reaped"]
  /\ worker' = [worker EXCEPT ![r] = "finishing"]
  /\ UNCHANGED <<RUNS, made, recordVars, ended, stop, proc, tool, killVars>>

\* rc = proc.wait()
Reap(r) ==
  /\ worker[r] = "waiting"
  /\ leader[r] # "running"
  /\ leader' = [leader EXCEPT ![r] = "reaped"]
  /\ worker' = [worker EXCEPT ![r] = "finishing"]
  /\ UNCHANGED <<RUNS, made, recordVars, ended, stop, proc, tool, killVars>>

\* An exception while reading: kill_run if proc.poll() finds the process alive.
ReadFails(r) ==
  /\ worker[r] = "reading"
  /\ IF leader[r] = "running"
       THEN /\ worker' = [worker EXCEPT ![r] = "killing"]
            /\ stop' = stop \cup {r}
            /\ kpc' = [kpc EXCEPT ![r] = "poll"]
            /\ target' = [target EXCEPT ![r] = r]
            /\ UNCHANGED leader
       ELSE /\ worker' = [worker EXCEPT ![r] = "finishing"]
            /\ leader' = [leader EXCEPT ![r] = "reaped"]
            /\ UNCHANGED <<stop, kpc, target>>
  /\ UNCHANGED <<RUNS, made, recordVars, ended, proc, tool, answer>>

OwnKillReturns(r) ==
  /\ worker[r] = "killing"
  /\ kpc[r] = "idle"
  /\ worker' = [worker EXCEPT ![r] = "finishing"]
  /\ UNCHANGED <<RUNS, made, recordVars, ended, stop, proc, processVars, killVars>>

\* finally: run.finish(rc)
FinishRun(r) ==
  /\ worker[r] = "finishing"
  /\ worker' = [worker EXCEPT ![r] = "over"]
  /\ ended' = ended \cup {r}
  /\ UNCHANGED <<RUNS, made, recordVars, stop, proc, processVars, killVars>>

----------------------------------------------------------------------------
(* The workload's processes.  A process may go at any time, by itself or     *)
(* because of a SIGTERM; it may also ignore the signal.                      *)

StartTool(r) ==
  /\ leader[r] = "running"
  /\ r \notin tool
  /\ tool' = tool \cup {r}
  /\ UNCHANGED <<RUNS, made, recordVars, ended, stop, proc, worker, leader, killVars>>

LeaderExits(r) ==
  /\ leader[r] = "running"
  /\ leader' = [leader EXCEPT ![r] = "zombie"]
  /\ UNCHANGED <<RUNS, made, recordVars, ended, stop, proc, worker, tool, killVars>>

ToolExits(r) ==
  /\ r \in tool
  /\ tool' = tool \ {r}
  /\ UNCHANGED <<RUNS, made, recordVars, ended, stop, proc, worker, leader, killVars>>

----------------------------------------------------------------------------
(* kill_run                                                                 *)

\* proc.poll() is None.  While the worker is inside proc.wait() it holds the
\* Popen's own lock, and poll answers None without looking.
PollSaysRunning(r) ==
  leader[r] = "running" \/ (leader[r] = "zombie" /\ worker[r] = "waiting")

\* poll reaps a process that has exited.
AfterPoll(r) ==
  IF PollSaysRunning(r) THEN leader ELSE [leader EXCEPT ![r] = "reaped"]

GroupExists(r) == leader[r] \in {"running", "zombie"} \/ r \in tool

\* os.killpg raises: no such group, or one that runs as root.
KillpgRaises(r) == ~GroupExists(r) \/ request[r] \in Privileged

\* /api/kill for a retained run that has not ended, up to the release of
\* run.lock.  (For one that has, kill_run returns False and does nothing.)
StopRequested(s, r) ==
  /\ kpc[s] = "idle"
  /\ r \in Retained
  /\ r \notin ended
  /\ stop' = stop \cup {r}
  /\ target' = [target EXCEPT ![s] = r]
  /\ IF r \in proc
       THEN /\ kpc' = [kpc EXCEPT ![s] = "poll"]
            /\ answer' = [answer EXCEPT ![s] = "none"]
       ELSE /\ answer' = [answer EXCEPT ![s] = "stopped"]
            /\ UNCHANGED kpc
  /\ UNCHANGED <<RUNS, made, recordVars, ended, proc, worker, processVars>>

Return(a, value) ==
  /\ kpc' = [kpc EXCEPT ![a] = "idle"]
  /\ answer' = [answer EXCEPT ![a] = value]

\* if run.proc.poll() is None
KillPoll(a) ==
  LET r == target[a]
  IN  /\ kpc[a] = "poll"
      /\ leader' = AfterPoll(r)
      /\ IF PollSaysRunning(r)
           THEN kpc' = [kpc EXCEPT ![a] = "term"] /\ UNCHANGED answer
           ELSE Return(a, "not stopped")
      /\ UNCHANGED <<RUNS, made, recordVars, ended, stop, proc, worker, tool, target>>

\* os.killpg(SIGTERM); what the signal does to a process is LeaderExits and
\* ToolExits.
KillTerm(a) ==
  /\ kpc[a] = "term"
  /\ IF KillpgRaises(target[a])
       THEN Return(a, "not stopped")
       ELSE kpc' = [kpc EXCEPT ![a] = "check"] /\ UNCHANGED answer
  /\ UNCHANGED <<RUNS, made, recordVars, ended, stop, proc, worker, processVars, target>>

\* Mutant of KillCheck: SIGTERM is trusted to be enough.
KillCheckNothing(a) ==
  /\ kpc[a] = "check"
  /\ Return(a, "stopped")
  /\ UNCHANGED <<RUNS, made, recordVars, ended, stop, proc, worker, processVars, target>>

\* After time.sleep(2).
KillCheck(a) ==
  LET r == target[a]
  IN  /\ kpc[a] = "check"
      /\ leader' = AfterPoll(r)
      /\ IF PollSaysRunning(r)
           THEN kpc' = [kpc EXCEPT ![a] = "kill"] /\ UNCHANGED answer
           ELSE Return(a, "stopped")
      /\ UNCHANGED <<RUNS, made, recordVars, ended, stop, proc, worker, tool, target>>

\* os.killpg(SIGKILL)
KillKill(a) ==
  LET r == target[a]
  IN  /\ kpc[a] = "kill"
      /\ IF KillpgRaises(r)
           THEN Return(a, "not stopped") /\ UNCHANGED processVars
           ELSE /\ Return(a, "stopped")
                /\ leader' = [leader EXCEPT ![r] = IF @ = "running" THEN "zombie" ELSE @]
                /\ tool' = tool \ {r}
      /\ UNCHANGED <<RUNS, made, recordVars, ended, stop, proc, worker, target>>

----------------------------------------------------------------------------

Init ==
  /\ RUNS = <<>>
  /\ made = 0
  /\ key = [r \in RunIds |-> NoKey]
  /\ request = [r \in RunIds |-> CHOOSE q \in Requests : TRUE]
  /\ ended = {}
  /\ stop = {}
  /\ proc = {}
  /\ worker = [r \in RunIds |-> "none"]
  /\ leader = [r \in RunIds |-> "none"]
  /\ tool = {}
  /\ kpc = [a \in Agents |-> "idle"]
  /\ target = [a \in Agents |-> 0]
  /\ answer = [a \in Agents |-> "none"]

Start(r) == StartThread(r) \/ StartThreadFails(r)

Worker(r) ==
  \/ SkipSpawn(r) \/ SpawnProcess(r) \/ SpawnFails(r)
  \/ EndOfOutput(r) \/ Reap(r) \/ ReadFails(r) \/ OwnKillReturns(r)
  \/ FinishRun(r)

Process(r) == StartTool(r) \/ LeaderExits(r) \/ ToolExits(r)

Kill(a) == KillPoll(a) \/ KillTerm(a) \/ KillCheck(a) \/ KillKill(a)

Next ==
  \/ \E k \in Keys \cup {NoKey}, q \in Requests : Launch(k, q)
  \/ \E r \in RunIds : Start(r) \/ Worker(r) \/ Process(r)
  \/ \E s \in Stoppers, r \in RunIds : StopRequested(s, r)
  \/ \E a \in Agents : Kill(a)

Spec == Init /\ [][Next]_vars

\* Threads run.  Nothing obliges a process to exit: only SIGKILL does.
Fairness ==
  /\ \A r \in RunIds : WF_vars(Start(r)) /\ WF_vars(Worker(r))
  /\ \A a \in Agents : WF_vars(Kill(a))

FairSpec == Spec /\ Fairness

\* Every workload has a deadline, so in the end its leader exits by itself.
WorkloadsEnd == \A r \in RunIds : WF_vars(LeaderExits(r))

----------------------------------------------------------------------------
(* Properties                                                               *)

TypeOK ==
  /\ RUNS \in Seq(RunIds) /\ Len(RUNS) <= MaxRuns
  /\ made \in 0 .. MaxLaunches
  /\ key \in [RunIds -> Keys \cup {NoKey}]
  /\ request \in [RunIds -> Requests]
  /\ ended \subseteq RunIds
  /\ stop \subseteq RunIds
  /\ proc \subseteq RunIds
  /\ worker \in [RunIds -> {"none", "created", "started", "reading", "waiting",
                            "killing", "finishing", "over"}]
  /\ leader \in [RunIds -> {"none", "running", "zombie", "reaped"}]
  /\ tool \subseteq RunIds
  /\ kpc \in [Agents -> {"idle", "poll", "term", "check", "kill"}]
  /\ target \in [Agents -> 0 .. MaxLaunches]
  /\ answer \in [Agents -> {"none", "stopped", "not stopped"}]

\* README.md:86, "Only one active run is admitted": of all the runs ever
\* created, retained or not, at most one has not ended.  Eviction takes the
\* oldest run, so the active one can never leave the registry, where the
\* admission test would no longer see it.
AtMostOneActive ==
  \A r, x \in 1 .. made : r \notin ended /\ x \notin ended => r = x

ActiveIsRetained ==
  \A r \in 1 .. made : r \notin ended => r \in Retained

\* A request_id names at most one retained run, so that a retry finds the run
\* its first attempt created.
OneRunPerKey ==
  \A i, j \in 1 .. Len(RUNS) :
    key[RUNS[i]] # NoKey /\ key[RUNS[i]] = key[RUNS[j]] => i = j

\* A run that is over has no leader running, unless reading its output failed
\* and kill_run could not kill it: an ended run makes room for the next, which
\* must not run beside it.
EndedRunHasStopped ==
  \A r \in RunIds :
    r \in ended /\ leader[r] = "running" => answer[r] = "not stopped"

\* test_stop_before_worker_start_prevents_spawn: a stop that finds no process
\* answers "stopped", and no process starts after it.
StopBeforeStartPreventsSpawn ==
  [][\A r \in RunIds : leader[r] = "none" /\ r \in stop => leader'[r] = "none"]_vars

\* A stop that finds the run active ends it, even if the leader ignores
\* SIGTERM, unless it runs as root.
StopEndsRun ==
  \A r \in RunIds :
    (r \in stop /\ request[r] \notin Privileged) ~> r \in ended

\* If workloads end by themselves, every admitted run ends, whatever fails on
\* the way: the dashboard is never left with a run that blocks all launches.
EveryRunEnds ==
  WorkloadsEnd => \A r \in RunIds : Active(r) ~> r \in ended

\* srx-dashboard/README.md:17, "Stop requests terminate the local process
\* group": when kill_run has answered that it did, nothing of the group runs.
StopTerminatesGroup ==
  \A s \in Stoppers :
    answer[s] = "stopped" /\ kpc[s] = "idle"
      => leader[target[s]] # "running" /\ target[s] \notin tool
=============================================================================
