--------------------------- MODULE DashboardClient ---------------------------
(***************************************************************************)
(* A browser page of srx-dashboard and the server it talks to: runIt,      *)
(* followRun, finished and reconcile of the page's script, and what        *)
(* /api/run and /api/runs do with the registry RUNS.  Other pages meet     *)
(* this one only in RUNS: all that they, and requests this page gave up,   *)
(* can do to it is to launch runs, at any time.                            *)
(*                                                                         *)
(* The page's functions run between awaits without interruption, so a step *)
(* of the page is what happens up to the next await.  A request is         *)
(* answered from the server's state of some moment within the await, the   *)
(* answer may arrive much later, or the fetch fails: before the server has *)
(* acted on the request, after it, or with the request still on its way.   *)
(*                                                                         *)
(* How a run comes to its end is RunRegistry's subject, and how its events *)
(* reach the page is RunStream's: here a run ends at any time, its stream  *)
(* brings the end or not, and breaks or is refused at any time.            *)
(***************************************************************************)
EXTENDS Integers, Sequences, FiniteSets

CONSTANTS Workloads,    \* what the page can ask for, arguments included: `signature'
          Invalid,      \* those that validate_request rejects
          None,         \* null
          MAX_RUNS,     \* runs the server retains
          MaxLaunches,  \* bound: runs the server admits
          MaxKeys,      \* bound: request ids the page generates
          MaxRestarts   \* bound: restarts of the server

ASSUME ClientAssumption ==
  /\ Invalid \subseteq Workloads
  /\ MAX_RUNS \in Nat \ {0}
  /\ MaxLaunches \in Nat
  /\ MaxKeys \in Nat
  /\ MaxRestarts \in Nat

VARIABLES
  launched,  \* the request of every admitted run; a run's id is its place
  oldest,    \* the oldest run that RUNS retains
  ended,     \* the runs whose `terminal' is set
  restarts,  \* times the server was restarted
  late,      \* requests the page gave up and the server has not seen yet
  run,       \* currentRun, 0 for null
  es,        \* currentEs: "none", "live", or "refused" for good
  pending,   \* pendingRequest
  keys,      \* request ids generated so far
  sent,      \* the request whose answer runIt awaits, or None
  reply,     \* the answer to it that is under way, or None
  held,      \* runIt awaits reconcile: `launching' is still set
  stopping,  \* killCurrent awaits the answer of /api/kill
  asking,    \* `recovering': reconcile awaits /api/runs
  seen       \* the answer to that which is under way, or None

server == <<launched, oldest, ended, restarts>>
launch == <<pending, keys, sent, reply, held>>
poll == <<stopping, asking, seen>>
vars == <<server, late, run, es, launch, poll>>

\* crypto.randomUUID gives no request id twice; key 0 is any of another page.
Requests == [key : 1 .. MaxKeys, workload : Workloads]
Elsewhere == [key |-> 0, workload |-> None]
Ids == 1 .. MaxLaunches
Replies == [status : {200, 400, 409}, id : Ids \cup {0}]
Snapshots == [from : 1 .. MaxLaunches + 1, to : 0 .. MaxLaunches, done : SUBSET Ids]

RUNS == oldest .. Len(launched)
Active(id) == id \in RUNS \ ended
OneIsActive == \E id \in RUNS : Active(id)
HasKey(req, id) == launched[id].key = req.key

----------------------------------------------------------------------------
(* The server                                                               *)

Larger(i, j) == IF i > j THEN i ELSE j

\* RUNS[run_id] = run, and popitem while there are more than MAX_RUNS
Admit(req) ==
  /\ Len(launched) < MaxLaunches
  /\ launched' = Append(launched, req)
  /\ oldest' = Larger(oldest, Len(launched) + 2 - MAX_RUNS)
  /\ UNCHANGED <<ended, restarts>>

\* POST /api/run: validate_request and spawn_run.
PostRun(req, ans) ==
  LET known == {id \in RUNS : HasKey(req, id)}
      conflict == IF known = {} THEN OneIsActive ELSE \E id \in known : launched[id] # req
      answer(status, id) == ans = [status |-> status, id |-> id]
  IN  \/ req.workload \in Invalid /\ answer(400, 0) /\ UNCHANGED server
      \/ /\ req.workload \notin Invalid
         /\ \/ conflict /\ answer(409, 0) /\ UNCHANGED server
            \/ ~conflict /\ UNCHANGED server /\ \E id \in known : answer(200, id)
            \/ ~conflict /\ known = {} /\ Admit(req) /\ answer(200, Len(launched) + 1)

ServeLaunch ==
  /\ sent # None /\ reply = None
  /\ PostRun(sent, reply')
  /\ UNCHANGED <<late, run, es, pending, keys, sent, held, poll>>

\* Nobody waits for the answer any more.
ServeLate(req) ==
  /\ late' = late \ {req}
  /\ \E ans \in Replies : PostRun(req, ans)
  /\ UNCHANGED <<run, es, launch, poll>>

LaunchElsewhere ==
  /\ ~OneIsActive
  /\ Admit(Elsewhere)
  /\ UNCHANGED <<late, run, es, launch, poll>>

\* GET /api/runs: the snapshots of the retained runs.
ServeRuns ==
  /\ asking /\ seen = None
  /\ seen' = [from |-> oldest, to |-> Len(launched), done |-> ended]
  /\ UNCHANGED <<server, late, run, es, launch, stopping, asking>>

\* Run.finish sets `ended' and `terminal' under one lock.
RunEnds(id) ==
  /\ Active(id)
  /\ ended' = ended \cup {id}
  /\ UNCHANGED <<launched, oldest, restarts, late, run, es, launch, poll>>

\* RUNS is in memory only.
ServerRestarts ==
  /\ restarts < MaxRestarts
  /\ restarts' = restarts + 1
  /\ oldest' = Len(launched) + 1
  /\ UNCHANGED <<launched, ended, late, run, es, launch, poll>>

----------------------------------------------------------------------------
(* The page: the launch                                                     *)

Launching == sent # None \/ held

\* reconcile returns at once while another call awaits its answer.
Reconcile == asking' = TRUE /\ UNCHANGED seen

\* `await reconcile()' in runIt
AwaitReconcile == held' = ~asking /\ Reconcile /\ UNCHANGED stopping

\* followRun
Follow(id) == run' = id /\ es' = "live"

\* Mutant of LetGo: currentEs is kept.
LetGoKeepingStream == run' = 0 /\ UNCHANGED es

\* currentEs.close(); currentEs = null; currentRun = null
LetGo == run' = 0 /\ es' = "none"

\* runIt, up to its fetch.
Click(w) ==
  /\ ~Launching /\ run = 0
  /\ IF pending = None
       THEN /\ keys < MaxKeys
            /\ keys' = keys + 1
            /\ pending' = [key |-> keys', workload |-> w]
       ELSE pending.workload = w /\ UNCHANGED <<pending, keys>>
  /\ sent' = pending'
  /\ UNCHANGED <<server, late, run, es, reply, held, poll>>

\* runIt reads the answer.
LaunchAnswered ==
  /\ reply # None
  /\ pending' = None /\ sent' = None /\ reply' = None
  /\ \/ reply.status = 200 /\ Follow(reply.id) /\ UNCHANGED <<held, poll>>
     \/ reply.status = 400 /\ UNCHANGED <<run, es, held, poll>>
     \/ reply.status = 409 /\ AwaitReconcile /\ UNCHANGED <<run, es>>
  /\ UNCHANGED <<server, late, keys>>

Unserved == IF sent # None /\ reply = None THEN {sent} ELSE {}

\* Mutant of LaunchFails: the request id is dropped.
LaunchFailsForgetting ==
  /\ sent # None
  /\ late' = late \cup Unserved
  /\ pending' = None /\ sent' = None /\ reply' = None
  /\ AwaitReconcile
  /\ UNCHANGED <<server, run, es, keys>>

\* The fetch fails: the catch branch of runIt.
LaunchFails ==
  /\ sent # None
  /\ late' = late \cup Unserved
  /\ sent' = None /\ reply' = None
  /\ AwaitReconcile
  /\ UNCHANGED <<server, run, es, pending, keys>>

----------------------------------------------------------------------------
(* The page: reconcile and the stream                                       *)

\* Mutant of Poll: only a pending launch is polled for.
PollPendingOnly ==
  /\ pending # None
  /\ ~asking
  /\ Reconcile
  /\ UNCHANGED <<server, late, run, es, launch, stopping>>

\* Mutant of Poll: only a run is polled for.
PollRunOnly ==
  /\ run # 0
  /\ ~asking
  /\ Reconcile
  /\ UNCHANGED <<server, late, run, es, launch, stopping>>

\* setInterval
Poll ==
  /\ run # 0 \/ pending # None
  /\ ~asking
  /\ Reconcile
  /\ UNCHANGED <<server, late, run, es, launch, stopping>>

PollDone == asking' = FALSE /\ seen' = None /\ held' = FALSE /\ UNCHANGED stopping

PollFails ==
  /\ asking
  /\ PollDone
  /\ UNCHANGED <<server, late, run, es, pending, keys, sent, reply>>

\* The run reconcile takes from the answer, by what the page is when the answer
\* arrives: its run, else the run of its request, else one that is active; or 0.
Shown == seen.from .. seen.to
Keyed == {id \in Shown : pending # None /\ HasKey(pending, id)}
Picked ==
  LET first(S) == IF S = {} THEN 0 ELSE CHOOSE i \in S : \A j \in S : i <= j
  IN  IF run \in Shown THEN run
      ELSE IF Keyed # {} THEN first(Keyed)
      ELSE first(Shown \ seen.done)

PollAnswered ==
  /\ seen # None
  /\ PollDone
  /\ IF Picked = 0
       THEN LetGo /\ UNCHANGED pending
       ELSE /\ pending' = None
            /\ \/ Picked \in seen.done /\ LetGo
               \/ Picked \notin seen.done /\ es = "none" /\ Follow(Picked)
               \/ Picked \notin seen.done /\ es # "none" /\ UNCHANGED <<run, es>>
  /\ UNCHANGED <<server, late, keys, sent, reply>>

\* The `end' event.
StreamEnds ==
  /\ es = "live" /\ run \in ended
  /\ LetGo
  /\ UNCHANGED <<server, late, launch, poll>>

\* Mutant of StreamBreaks: the break is taken for the end.
StreamBreaksEnding ==
  /\ es = "live"
  /\ LetGo
  /\ Reconcile
  /\ UNCHANGED <<server, late, launch, stopping>>

\* onerror: the EventSource will connect again, or a 404 (the run is no longer
\* retained) or 400 (too many subscribers) has stopped it for good.
StreamBreaks ==
  /\ es = "live"
  /\ es' \in {"live", "refused"}
  /\ Reconcile
  /\ UNCHANGED <<server, late, run, launch, stopping>>

\* killCurrent; what the stop does to the run is RunRegistry's.
Stop ==
  /\ run # 0 /\ ~stopping
  /\ stopping' = TRUE
  /\ UNCHANGED <<server, late, run, es, launch, asking, seen>>

\* It is answered or fails, and reconcile follows, whatever the page is by then.
StopDone ==
  /\ stopping
  /\ stopping' = FALSE
  /\ Reconcile
  /\ UNCHANGED <<server, late, run, es, launch>>

\* What the page knew is gone, and it begins with reconcile.
Reload ==
  /\ LetGo
  /\ late' = late \cup Unserved
  /\ pending' = None /\ sent' = None /\ reply' = None /\ held' = FALSE
  /\ stopping' = FALSE /\ asking' = TRUE /\ seen' = None
  /\ UNCHANGED <<server, keys>>

----------------------------------------------------------------------------

Init ==
  /\ launched = <<>> /\ oldest = 1 /\ ended = {} /\ restarts = 0
  /\ late = {}
  /\ run = 0 /\ es = "none"
  /\ pending = None /\ keys = 0 /\ sent = None /\ reply = None /\ held = FALSE
  /\ stopping = FALSE /\ asking = TRUE /\ seen = None

Next ==
  \/ \E w \in Workloads : Click(w)
  \/ ServeLaunch \/ LaunchAnswered \/ LaunchFails
  \/ Poll \/ ServeRuns \/ PollAnswered \/ PollFails
  \/ StreamEnds \/ StreamBreaks \/ Stop \/ StopDone \/ Reload
  \/ LaunchElsewhere
  \/ \E req \in late : ServeLate(req)
  \/ \E id \in RUNS : RunEnds(id)
  \/ ServerRestarts

Spec == Init /\ [][Next]_vars

\* The timer ticks and a fetch comes to an end; of the polls that are made again
\* and again, not all fail.  Users, streams and runs need not do anything.
Fairness ==
  /\ WF_vars(Poll)
  /\ SF_vars(ServeRuns) /\ SF_vars(PollAnswered)
  /\ WF_vars(LaunchAnswered \/ LaunchFails)

FairSpec == Spec /\ Fairness

----------------------------------------------------------------------------
(* Properties                                                               *)

TypeOK ==
  /\ launched \in Seq(Requests \cup {Elsewhere}) /\ Len(launched) <= MaxLaunches
  /\ oldest \in 1 .. Len(launched) + 1
  /\ ended \subseteq 1 .. Len(launched)
  /\ restarts \in 0 .. MaxRestarts
  /\ late \subseteq Requests
  /\ run \in 0 .. Len(launched)
  /\ es \in {"none", "live", "refused"} /\ (es = "none" <=> run = 0)
  /\ pending \in Requests \cup {None} /\ (pending = None \/ run = 0)
  /\ keys \in 0 .. MaxKeys
  /\ sent \in Requests \cup {None}
  /\ reply \in Replies \cup {None} /\ (reply # None => sent # None)
  /\ held \in BOOLEAN /\ (held => asking)
  /\ stopping \in BOOLEAN /\ asking \in BOOLEAN
  /\ seen \in Snapshots \cup {None} /\ (seen # None => asking)

\* The page lets go of an active run only for its own request's answer, or for a
\* list of runs that is older than the run (the await in reconcile), or when it
\* is reloaded; in particular not when the stream breaks.  And the key of a
\* launch whose outcome it has not learned it forgets only when it is shown that
\* run, or another that is active; not after a failure ("Keep the key after an
\* ambiguous network failure", dashboard.py:717).
PageRemembers ==
  [][/\ Active(run) /\ run' # run =>
          \/ reply # None /\ reply.status = 200
          \/ seen # None /\ seen.to < run
          \/ Reload
     /\ pending # None /\ pending' # pending =>
          \/ reply # None
          \/ seen # None /\ (Keyed # {} \/ Shown \ seen.done # {})
          \/ Reload]_vars

\* A page that follows a run which has ended stops following it: also when its
\* stream was refused and brings nothing.  So it does when the server has
\* forgotten the run, unless another one is active then: reconcile finds that
\* one, and does not follow it because the page has a stream.
RunIsLeft ==
  \A id \in Ids :
    run = id /\ (id \in ended \/ id \notin RUNS)
      ~> run # id \/ (id \notin RUNS /\ OneIsActive)

\* A launch that was accepted and whose answer was lost does not stay unknown:
\* polling finds its run by the key, unless it is evicted first.
LaunchIsRecovered ==
  \A id \in Ids :
    id \in RUNS /\ pending # None /\ HasKey(pending, id)
      ~> pending = None \/ id \notin RUNS

\* README.md:109 of the dashboard, "The browser ... polls execution status as a
\* fallback, and recovers active runs after refresh", and the page itself,
\* "execution status unknown; retrying.": a page that asks when it is loaded
\* comes to follow the run that is active, unless that ends.
RefreshRecovers ==
  \A id \in Ids :
    asking /\ run = 0 /\ ~Launching /\ Active(id)
      ~> run # 0 \/ pending # None \/ Launching \/ ~Active(id)
=============================================================================
