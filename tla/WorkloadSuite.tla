---------------------------- MODULE WorkloadSuite ----------------------------
(***************************************************************************)
(* One execution of deploy/srx_workload.py: parsing and confirmation, a    *)
(* single workload or the whole suite in its thread pool, the summary it   *)
(* prints, and what the dashboard makes of that summary                    *)
(* (parse_batch_from_lines, record_batch) when it has started the run.     *)
(*                                                                         *)
(* A workload ends with an outcome [how, code]: "returned" a code, or      *)
(* raised one of the exceptions _run_workload tells apart.  An output line *)
(* is [kind, name, rc]: "text", the "head" of the summary or a "row".      *)
(***************************************************************************)
EXTENDS WorkloadLimits, WebCrawler

CONSTANTS Arguments,  \* command lines
          LimitSets,  \* ceilings given to a direct call
          Suite,      \* bound: which of the suite's workloads are run, by their places
          Codes,      \* exit codes of tools
          MaxLines,   \* MAX_LINES of the dashboard
          MaxDetail   \* bound: further lines of an error in the summary

ASSUME SuiteAssumption ==
  /\ MaxLines \in Nat \ {0} /\ MaxDetail \in Nat
  /\ Codes \subseteq -255 .. 255
  /\ Suite \in Seq(1 .. 18) /\ Suite # <<>>
  /\ \A i, j \in 1 .. Len(Suite) : Suite[i] = Suite[j] => i = j

\* argparse's types and choices, and the numbers' in WorkloadLimits
ASSUME ArgumentsAssumption ==
  /\ \A a \in Arguments :
       /\ {"cmd", "target"} \subseteq DOMAIN a
       /\ a.cmd \in DOMAIN Params /\ a.target \in Targets
       /\ DOMAIN a \subseteq {"cmd", "target", "type"} \cup Params[a.cmd]
       /\ \A p \in Params[a.cmd] : p \in DOMAIN a /\ a[p] \in Int
       /\ a.cmd = "flood" => "type" \in DOMAIN a /\ a.type \in {"syn", "icmp", "udp"}
  /\ LimitSets \subseteq [DOMAIN DEFAULT_LIMITS -> Int]

VARIABLES
  via,       \* "dashboard" or "shell"
  args,      \* the command line
  confirmed, \* confirm_aggressive of the request, --yes on the command line
  src,       \* --src is given
  limits,    \* args.limits
  main,      \* where the main thread is; "over" when it has exited, "cut" when the
             \* dashboard's run has ended before that
  submitted, \* workloads submitted
  gate,      \* start_gate is set
  task,      \* name -> "none", "queued", "waiting", "running" or "over"
  ended,     \* name -> the outcome of its workload, or None
  results,   \* run_concurrently's results: set of [name, rc]
  rows,      \* names whose row of the summary has been printed
  output,    \* lines printed
  status,    \* its exit status as the shell or Run.returncode has it, None while
             \* it runs
  batch      \* the entry that record_batch makes, or None

request == <<via, args, confirmed, src, limits>>
pool == <<submitted, gate, task, ended, results>>
vars == <<request, page, main, pool, rows, output, status, batch>>

Workloads ==
  IF args.cmd = "all" THEN [i \in 1 .. Len(Suite) |-> AllWorkloads(args)[Suite[i]]] ELSE <<>>
Names == {Workloads[i].name : i \in DOMAIN Workloads}

----------------------------------------------------------------------------
(* Outcomes                                                                 *)

Outcomes ==
  [how : {"returned"}, code : Codes] \cup [how : {"CalledProcessError"}, code : Codes \ {0}]
    \cup [how : {"TimeoutExpired", "FileNotFoundError", "Exception"}, code : {0}]

\* _run_workload
RunWorkload(outcome) ==
  CASE outcome.how \in {"returned", "CalledProcessError"} -> outcome.code
    [] outcome.how = "TimeoutExpired" -> 124
    [] outcome.how = "FileNotFoundError" -> 127
    [] OTHER -> 1

\* Mutant of ExitStatus: a code below zero (a signal) passed on.
ExitStatusRaw(code) == code

ExitStatus(code) == code % 256

Write(line) == output' = Append(output, line)
Text == [kind |-> "text", name |-> None, rc |-> None]

Goto(place) == main' = place
ExitsWith(code) ==
  /\ main' = "over"
  /\ status' = ExitStatus(code)

----------------------------------------------------------------------------
(* The command line                                                         *)

\* The dashboard launches what it has validated, with the CLI's default
\* ceilings and --yes.
Admit ==
  /\ main = "admission"
  /\ Goto(IF ValidateRequest(args, confirmed) THEN "start" ELSE "refused")
  /\ UNCHANGED <<request, page, pool, rows, output, status, batch>>

Parse ==
  /\ main = "start"
  /\ IF ParseArgs(limits, args)
       THEN Goto("source") /\ UNCHANGED status
       ELSE ExitsWith(2)
  /\ UNCHANGED <<request, page, pool, rows, output, batch>>

\* resolve_source_ip may raise OSError.
ResolveSource ==
  /\ main = "source"
  /\ \/ Goto("confirm") /\ UNCHANGED status
     \/ args.cmd \in CRAFTED /\ ~src /\ ExitsWith(2)
  /\ UNCHANGED <<request, page, pool, rows, output, batch>>

Confirm ==
  /\ main = "confirm"
  /\ \/ Goto(IF args.cmd = "all" THEN "all" ELSE "single") /\ UNCHANGED status
     \/ args.cmd \in AGGRESSIVE /\ ~confirmed /\ ExitsWith(1)
  /\ UNCHANGED <<request, page, pool, rows, output, batch>>

RunSingle ==
  /\ main = "single" /\ args.cmd # "crawl"
  /\ \E o \in Outcomes :
       LET code == RunWorkload(o)
       IN  /\ ended' = [n \in {args.cmd} |-> o]
           /\ ExitsWith(code)
  /\ Write(Text)
  /\ UNCHANGED <<request, page, submitted, gate, task, results, rows, batch>>

Crawling == main = "single" /\ args.cmd = "crawl"
OutsidePage == <<request, main, pool, rows, output, status, batch>>

CrawlPage == Crawling /\ PageStep(args.target \in Addresses) /\ UNCHANGED OutsidePage

\* do_crawl prints the result and returns.
CrawlReturns ==
  /\ Crawling /\ at = "over"
  /\ LET code == IF succeeded THEN 0 ELSE 1
     IN  /\ ended' = [n \in {"crawl"} |-> [how |-> "returned", code |-> code]]
         /\ ExitsWith(code)
  /\ Write(Text)
  /\ UNCHANGED <<request, page, submitted, gate, task, results, rows, batch>>

----------------------------------------------------------------------------
(* run_concurrently                                                         *)

\* @validated, build_all_workloads and the preflight raise together or not at
\* all; _run_workload makes 1 of the exception.
DoAll ==
  /\ main = "all"
  /\ IF ValidateArgs(limits, args) /\ BuildAll(limits, args)
       THEN Goto("submit") /\ Write(Text) /\ UNCHANGED status
       ELSE ExitsWith(1) /\ UNCHANGED output
  /\ UNCHANGED <<request, page, pool, rows, batch>>

Submit ==
  /\ main = "submit"
  /\ LET n == Workloads[submitted + 1].name
     IN  task' = [task EXCEPT ![n] = "queued"]
  /\ submitted' = submitted + 1
  /\ Goto(IF submitted' = Len(Workloads) THEN "open" ELSE "submit")
  /\ UNCHANGED <<request, page, gate, ended, results, rows, output, status, batch>>

\* The pool cannot start a thread; `with' leaves through shutdown(wait=True).
SubmitRaises ==
  /\ main = "submit"
  /\ Goto("shutdown")
  /\ UNCHANGED <<request, page, pool, rows, output, status, batch>>

\* Mutant of Shutdown: the gate is opened for the workloads that wait.
ShutdownOpens ==
  /\ main = "shutdown"
  /\ gate' = TRUE
  /\ IF \A n \in Names : task[n] \in {"none", "over"}
       THEN ExitsWith(1)
       ELSE UNCHANGED <<main, status>>
  /\ UNCHANGED <<request, page, submitted, task, ended, results, rows, output, batch>>

Shutdown ==
  /\ main = "shutdown"
  /\ \A n \in Names : task[n] \in {"none", "over"}
  /\ ExitsWith(1)
  /\ UNCHANGED <<request, page, pool, rows, output, batch>>

\* Mutant of OpenGate: forgotten.
OpenNothing ==
  /\ main = "open"
  /\ Goto("collect")
  /\ UNCHANGED <<request, page, pool, rows, output, status, batch>>

OpenGate ==
  /\ main = "open"
  /\ gate' = TRUE
  /\ Goto("collect")
  /\ UNCHANGED <<request, page, submitted, task, ended, results, rows, output, status, batch>>

Busy == {n \in Names : task[n] \in {"waiting", "running"}}

\* Mutant of PoolSize.
OneLess == Len(Workloads) - 1

PoolSize == Len(Workloads)

PickUp(n) ==
  /\ status = None
  /\ task[n] = "queued"
  /\ Cardinality(Busy) < PoolSize
  /\ task' = [task EXCEPT ![n] = "waiting"]
  /\ UNCHANGED <<request, page, main, submitted, gate, ended, results, rows, output, status, batch>>

\* The headline of the workload
Begin(n) ==
  /\ status = None
  /\ task[n] = "waiting" /\ gate
  /\ task' = [task EXCEPT ![n] = "running"]
  /\ Write(Text)
  /\ UNCHANGED <<request, page, main, submitted, gate, ended, results, rows, status, batch>>

End(n) ==
  /\ status = None
  /\ task[n] = "running"
  /\ \E o \in Outcomes : ended' = [ended EXCEPT ![n] = o]
  /\ task' = [task EXCEPT ![n] = "over"]
  /\ UNCHANGED <<request, page, main, submitted, gate, results, rows, output, status, batch>>

\* as_completed
Collect(n) ==
  /\ main = "collect"
  /\ task[n] = "over"
  /\ \A r \in results : r.name # n
  /\ results' = results \cup {[name |-> n, rc |-> RunWorkload(ended[n])]}
  /\ Goto(IF Cardinality(results') = Len(Workloads) THEN "head" ELSE "collect")
  /\ UNCHANGED <<request, page, submitted, gate, task, ended, rows, output, status, batch>>

----------------------------------------------------------------------------
(* The summary                                                              *)

PrintHead ==
  /\ main = "head"
  /\ Write([kind |-> "head", name |-> None, rc |-> None])
  /\ Goto("rows")
  /\ UNCHANGED <<request, page, pool, rows, status, batch>>

\* The code prints them by name; nothing depends on their order.  The error
\* of a failed workload may have further lines.
PrintRow(r) ==
  /\ main = "rows" /\ r \in results /\ r.name \notin rows
  /\ \E k \in 0 .. IF r.rc = 0 THEN 0 ELSE MaxDetail :
       output' = Append(output, [kind |-> "row", name |-> r.name, rc |-> r.rc])
                   \o [i \in 1 .. k |-> Text]
  /\ rows' = rows \cup {r.name}
  /\ Goto(IF rows' = Names THEN "return" ELSE "rows")
  /\ UNCHANGED <<request, page, pool, status, batch>>

\* do_all's value, and the line that main adds
ReturnAll ==
  /\ main = "return"
  /\ ExitsWith(IF \E r \in results : r.rc # 0 THEN 1 ELSE 0)
  /\ Write(Text)
  /\ UNCHANGED <<request, page, pool, rows, batch>>

\* What stdout has buffered is lost; the dashboard may add a line of its own.
CutOff(code) ==
  /\ via = "dashboard"
  /\ status = None /\ main \notin {"admission", "refused"}
  /\ main' = "cut"
  /\ status' = code
  /\ \E n \in 0 .. Len(output) :
       output' \in {SubSeq(output, 1, n), Append(SubSeq(output, 1, n), Text)}
  /\ UNCHANGED <<request, page, pool, rows, batch>>

\* SIGTERM or SIGKILL of kill_run ends the program or, in the remote mode, its
\* ssh; 255 is the status of an ssh that was stopped or has lost its connection.
Killed == \E code \in {-15, -9, 255} : CutOff(code)

\* target_thread's except: reading a line or waiting raises, kill_run is called.
ReadFails == CutOff(1)

\* The run ends before the program starts: stopped first, no thread, no process
\* (1 or 127), or a remote shell, sudo or ssh that does not get to it.
NotStarted ==
  /\ via = "dashboard"
  /\ status = None /\ main = "start"
  /\ main' = "cut"
  /\ status' \in {-15, 1, 126, 127, 255}
  /\ output' \in {output, Append(output, Text)}
  /\ UNCHANGED <<request, page, pool, rows, batch>>

Interrupted == Killed \/ ReadFails \/ NotStarted

----------------------------------------------------------------------------
(* The dashboard                                                            *)

\* Run.lines, a deque(maxlen=MAX_LINES)
Lines == SubSeq(output, Max({1, Len(output) - MaxLines + 1}), Len(output))

\* Mutant of ParseBatch: rows are taken before the head as well.
ParseAll(lines) == {i \in DOMAIN lines : lines[i].kind = "row"}

\* parse_batch_from_lines: the places of the lines it takes, in_summary.
ParseBatch(lines) ==
  {i \in DOMAIN lines : lines[i].kind = "row" /\ \E h \in 1 .. i : lines[h].kind = "head"}

RecordBatch ==
  /\ via = "dashboard" /\ args.cmd = "all"
  /\ status # None /\ batch = None
  /\ LET found == ParseBatch(Lines)
         passed == {i \in found : Lines[i].rc = 0}
     IN  batch' = [rc |-> status, summary_available |-> found # {},
                   total |-> Cardinality(found), passed |-> Cardinality(passed),
                   failed |-> Cardinality(found) - Cardinality(passed),
                   results |-> {[name |-> Lines[i].name, rc |-> Lines[i].rc] : i \in found}]
  /\ UNCHANGED <<request, page, main, pool, rows, output, status>>

----------------------------------------------------------------------------

Init ==
  /\ args \in Arguments
  /\ \/ via = "dashboard" /\ confirmed \in BOOLEAN /\ limits = DEFAULT_LIMITS
          /\ main = "admission"
     \/ via = "shell" /\ confirmed \in BOOLEAN /\ limits \in LimitSets /\ main = "start"
  /\ src \in BOOLEAN
  /\ submitted = 0 /\ gate = FALSE
  /\ task = [n \in Names |-> "none"] /\ ended = [n \in Names |-> None]
  /\ results = {} /\ rows = {} /\ output = <<>>
  /\ status = None /\ batch = None
  /\ PageInit

Thread(n) == PickUp(n) \/ Begin(n) \/ End(n)

Main ==
  \/ Parse \/ ResolveSource \/ Confirm \/ RunSingle \/ CrawlReturns
  \/ DoAll \/ Submit \/ SubmitRaises \/ Shutdown \/ OpenGate
  \/ \E n \in Names : Collect(n)
  \/ PrintHead \/ (\E r \in results : PrintRow(r)) \/ ReturnAll

Next ==
  \/ Admit \/ Main \/ CrawlPage \/ (\E n \in Names : Thread(n))
  \/ Interrupted \/ RecordBatch

Spec == Init /\ [][Next]_vars

\* The main thread and those of the pool run and time passes; workloads need
\* not end, and the network need not answer.
FairSpec ==
  /\ Spec
  /\ WF_vars(Main)
  /\ WF_vars(Crawling /\ PageGoesOn /\ UNCHANGED OutsidePage)
  /\ \A i \in 1 .. Len(Suite) :
       /\ WF_vars(i \in DOMAIN Workloads /\ PickUp(Workloads[i].name))
       /\ WF_vars(i \in DOMAIN Workloads /\ Begin(Workloads[i].name))

----------------------------------------------------------------------------
(* Properties                                                               *)

TypeOK ==
  /\ PageTypeOK
  /\ args \in Arguments /\ via \in {"dashboard", "shell"}
  /\ {confirmed, src, gate} \subseteq BOOLEAN
  /\ submitted \in 0 .. Len(Workloads)
  /\ task \in [Names -> {"none", "queued", "waiting", "running", "over"}]
  /\ DOMAIN ended \in {Names, {args.cmd}}
  /\ Cardinality(results) <= Len(Workloads)
  /\ rows \subseteq {r.name : r \in results}
  /\ status \in {None, -15, -9} \cup 0 .. 255
  /\ main = "over" => status \in 0 .. 255

Started == {n \in Names : task[n] \in {"running", "over"}}
Succeeded(n) == ended[n] = [how |-> "returned", code |-> 0]

\* "Fail the whole preflight before submitting any sender, not halfway through"
\* (srx_workload.py:468): no workload of the suite sends unless all have been
\* submitted, and then the ceilings hold for all 18.
AllOrNothing ==
  Started # {} =>
    /\ submitted = Len(Workloads)
    /\ Len(AllWorkloads(args)) <= limits.max_workloads
    /\ args.duration <= limits.max_duration_s
    /\ 1024 <= limits.max_ports /\ 2000 <= limits.max_packets /\ 500 <= limits.max_rate_pps

\* A flood that has run was paced no faster than its rate, the rate no faster
\* than the ceiling, and its packets, one each interval, take no longer than the
\* ceiling allows, although the interval is rounded up.
PacedWithinLimits ==
  LET sent == {Workloads[i].args : i \in {i \in DOMAIN Workloads : Workloads[i].name \in Started}}
                \cup {args : n \in {args.cmd} \cap DOMAIN ended}
  IN  \A a \in {a \in sent : a.cmd = "flood"} :
        /\ a.rate * Interval(a.rate) >= 1000000
        /\ a.rate <= limits.max_rate_pps
        /\ a.count * Interval(a.rate) <= limits.max_duration_s * 1000000

\* "Mirror default CLI WorkloadLimits" (dashboard.py:400): what the dashboard
\* has admitted the command line rejects on account of the target alone: that of
\* a crawl that is neither an address nor a host name, that of a URL that is an
\* IPv6 address or has no valid port.
AdmittedIsAccepted ==
  via = "dashboard" /\ main = "start" =>
    (ParseArgs(limits, args) <=>
       /\ ~(args.cmd = "crawl" /\ args.target \in {"loose", "badport"})
       /\ ~(args.cmd \in {"wrk", "all"} /\ args.target \in {"ipv6", "badport"}))

\* Exit status 0 means that everything that was asked for has succeeded; of a
\* crawl, that the page came in time and whole ("An oversized, incomplete,
\* redirected, compressed, or non-2xx response is a failed crawl",
\* web_crawler.py:232-233), as far as the response tells where it ends.
ExitTellsTruth ==
  status = 0 =>
    /\ \A n \in (IF args.cmd = "all" THEN Names ELSE {args.cmd}) : Succeeded(n)
    /\ args.cmd = "crawl" =>
         /\ reply.status = "2xx" /\ reply.identity
         /\ complete /\ left > 0
         /\ reply.length # None \/ reply.coding = "chunked" => got = reply.size

\* The dashboard's entry of a batch (srx-dashboard/README.md:111-114): its rows
\* are true, however the run has ended; a part of the summary it shows only of a
\* run that was cut off, not where lines were evicted; and it agrees with the
\* status: 0 is never shown beside a failed or missing workload, and anything
\* else beside a whole summary without failures only of a run that was cut off.
BatchIsTrue ==
  batch # None =>
    /\ \A r \in batch.results : r.rc = 0 <=> Succeeded(r.name)
    /\ batch.total = Cardinality(batch.results)
    /\ batch.summary_available /\ (batch.rc = 0 \/ main # "cut") =>
         /\ {r.name : r \in batch.results} = Names
         /\ batch.rc = 0 <=> batch.failed = 0

\* "Start every workload concurrently" (srx_workload.py:463): none waits for
\* another to end.
EveryWorkloadStarts == gate ~> Started = Names \/ status # None

WorkloadsEnd ==
  \A i \in 1 .. Len(Suite) :
    []<>~(i \in DOMAIN Workloads /\ task[Workloads[i].name] = "running")

\* A crawl ends whatever the server does, and a batch when its workloads do,
\* unless the pool failed to start a thread: then those already started wait
\* for a gate that stays closed.
EndsUnlessSubmitRaises ==
  WorkloadsEnd => (main = "start" ~> status # None \/ (main = "shutdown" /\ ~gate))
=============================================================================
