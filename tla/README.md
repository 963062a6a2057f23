# A TLA+ development for srx

The repository generates network traffic through a Juniper SRX firewall,
collects what the firewall says about it, and decides whether every stimulus
was seen. This directory holds TLA+ models of its stateful parts, the TLC runs
that check them, and TLAPS proofs about them.

## The system

| part | source | state | operations | interacts by |
|---|---|---|---|---|
| dashboard: runs | `srx-dashboard/dashboard.py` 221-515 | `RUNS` (bounded registry), `Run.ended`, `terminal`, `proc`, `stop_requested`, a process group per run | `spawn_run`, `target_thread`, `kill_run` | handler threads, one worker thread per run, `RUNS_LOCK`, `run.lock`, signals |
| dashboard: live output | 221-310, 903-943 | event ring, sequence, terminal event, subscriber queues | `emit`, `finish`, `_publish`, `subscribe`, `unsubscribe`, `/api/stream` | `run.lock`, one `queue.Queue` per connection, SSE with `Last-Event-ID` |
| dashboard: batch history | 147-218 | `HISTORY`, its JSON file | `record_batch`, `_save_history`, `_load_history` | called by `finish` of a run of `all`; `_hist_lock` |
| dashboard: page | 600-760 (JavaScript) | `currentRun`, `currentEs`, `pendingRequest` | `runIt`, `followRun`, `reconcile`, kill | HTTP, EventSource, a 5 s poll |
| dashboard: HTTP layer | 70-146, 317-436, 833-1006 | none shared | authorisation, `validate_request`, `make_cmd` | one thread per request |
| pingapp | `pingapp/server.py` | samples, per-minute buckets, counters, `state.json` | `worker`, `wifi_worker`, `add_to_bucket`, `save_state`, `load_state`, `_graceful`, `snapshot` | two threads and the HTTP threads, one lock, signals |
| workload runner | `deploy/srx_workload.py` | results of the workloads | `validate_args`, `run_cmd`, `build_all_workloads`, `run_concurrently`, `do_all` | thread pool with a common start gate, subprocesses |
| syslog collector | `collectors/syslog_collector.py` | bounded list of events, receiving thread | `start`, `stop`, `_run_udp`, `_run_tcp`, `_ingest`, `query`, `clear` | one thread, one lock, a socket |
| packet capture | `collectors/pcap_capture.py` | a tshark or tcpdump process and its file | `start`, `stop`, `extract_five_tuples` | a subprocess |
| SRX queries | `collectors/srx_query.py` | one connection | `connect`, `close`, one call per table | PyEZ |
| correlator | `validation/correlator.py`, `validation/assertions.py` | none (pure) | `candidates`, `correlate`, `saw_ground_truth`, `evaluate`, `build_matrix` | reads events and observations |
| generators | `generators/*.py` | a deadline (crawler) | `crawl_page`, HTTP load, packets, scans, layer-7 clients, browser | sockets, scapy, subprocesses |

How they interact: the dashboard (or a user) starts `srx_workload.py`, locally
or over ssh, as a run; the workload drives the generators; the firewall sends
syslog to the collector; the correlator compares stimuli with what the
collector, the capture and the SRX queries hold. The pingapp is independent of
the rest.

What is hard: in the dashboard, everything that a handler thread, the worker of
a run and a browser do at the same time (publication against a queue being
read, admission against the end of a run, a stop against the start of the
process, two stops against each other and against the reaping of the process),
what is at its limit (ring, queues, subscribers, registry), and what is
persisted (history, pingapp state); in the runner, the pool behind its gate; in
the collector, the thread that outlives its stop and the stream that is cut
anywhere. `PROJECT.json` lists these hazards line by
line with the properties that cover them.

What makes each part correct:

* live output: a browser sees every event in order, or is told by a `reset`
  that it did not; every browser that keeps watching sees the end; no handler
  waits for ever; subscriptions do not leak.
* runs: one active run at a time, found by stop and by launch; a retry finds
  its run; every run ends; a stop stops the whole process group, and a stop
  that came first prevents the process.
* batch history: the file is whole, and reported batches are in it.
* pingapp: no sample is counted twice; `state.json` is whole, and keeps what was saved.
* workload runner: every workload has one result; `all` ends; its exit code
  is a failure exactly when one of them failed.
* syslog collector: events are dropped only at the limit, and counted then; a
  stopped collector receives nothing.
* correlator: a stimulus is "detected" only with evidence inside its window,
  and "missed" only with ground truth that it crossed the firewall.

## The modules

| module | what it is |
|---|---|
| `RunStream` | live output of one run: `Run`'s ring and queues, the `/api/stream` handlers, the EventSources |
| `RunStreamProofs` | its invariant and theorems |
| `DashboardClient` | a browser page and the server it talks to: launch, retry, polling, stream, stop, reload |
| `DashboardClientProofs` | its invariant and theorems |
| `RunRegistry` | admission, execution and stopping of runs |
| `RunRegistryProofs` | its invariant and theorems |
| `HistoryLog` | what the batch history promises: a bounded list with a saved copy |
| `BatchHistory` | `record_batch`, `_save_history`, `_load_history` step by step; implements `HistoryLog` |
| `BatchHistoryProofs` | its invariant, its theorems and the refinement of `HistoryLog` |
| `PingPersistence` | the pingapp's buckets and their file: `add_to_bucket`, `save_state`, `load_state`, `_graceful` |
| `MCPingPersistence` | its TLC instance (constraint after overlapping saves) |
| `PingPersistenceProofs` | its invariant and theorems |
| `PingCounts` | the pingapp's counts: a worker that counts, a summary and a save that read meanwhile |
| `PingCountsProofs` | its invariant and theorems, and the lemmas about sums |
| `WorkloadLimits` | the limits of workloads: ceilings, pacing, the suite's arguments, the dashboard's copy |
| `WorkloadSuite` | one execution of `srx_workload.py` and the batch entry the dashboard makes of it |
| `WebCrawler` | `crawl_page`: one page under a deadline and a cap; a part of `WorkloadSuite` |
| `MCWorkloadSuite` | its TLC instance: command lines at the boundaries of the limits, replies of a server |
| `WorkloadSuiteProofs` | the invariant and theorems of an execution and of the limits |
| `Correlator` | matching, verdicts and matrix as operators |
| `SyslogCollector` | the collector's thread, socket and buffer, and `parse_syslog_line` |
| `PcapCapture` | what the two readers of a packet capture extract, as operators |
| `Detection` | collector and correlator composed, and what must hold of verdicts |
| `MCDetection` | its TLC instance: lines, stimuli, evidence and captures |
| `DetectionProofs` | the invariant and theorems of collector, correlator and both together |

Each module has mutants beside the definitions they are mutants of ("Mutant of
X" comments): plausible errors that its properties detect. No specification
uses them.

### RunStream

One run. `events`, `sequence`, `terminal`, `subscribers` are the fields of
`Run`; an event is its sequence number. `_publish` runs under `run.lock` but its
loop over the subscribers is not atomic for the handlers, whose queues have
locks of their own: `Emit`/`Finish` append to the ring and copy the subscribers
to `todo`, and then one action per subscriber puts the event (`PutEvent`) or
finds the queue full (`CutOff`), drains it one `get_nowait` at a time (`Drain`)
and puts the sentinel (`PutSentinel`). Whatever needs `run.lock` (`Subscribe`,
`Refuse`, `Unsubscribe`, `Publish`) waits until this is over (`Locked`).

A handler thread goes from "replay" (its `backlog`) over "live" (its `queue`)
to "closing" (the `finally` with `unsubscribe`). `Deliver` is what the EventSource at
the other end does with a frame: it remembers its id, closes on the end event,
and the history variables `skipped` and `cleared` note whether it has missed an
event without having been told by a reset. A keepalive changes nothing unless
its write fails: `WriteFails` is that failure, of a frame or of a keepalive,
and is possible when the browser has gone. `Break` is a connection that breaks
(or the 20 s socket timeout of `setup`), `Leave` a page that closes or follows
another run.

There is one window in which a browser misses events silently, and
`GapOnlyWhileDraining` states that there is no other (finding 4, below).

### DashboardClient

One page, and a server reduced to what a page can tell of it: `launched` has the
request of every run ever admitted, `oldest` and `ended` say which of them `RUNS`
retains and which have a `terminal`. Other pages, and requests this page gave up
(`late`), meet it only there. The script's functions run without interruption
between awaits, so a step of the page is what happens up to the next one: `Click` is
`runIt` up to its fetch, `LaunchAnswered` and `LaunchFails` are what follows, `held` is
the `await reconcile()` at their end. A request is served at some moment within the
await (`ServeLaunch`, `ServeRuns`), its answer is under way for any time (`reply`,
`seen`), or the fetch fails with the request not yet arrived, arrived, or answered.
`asking` is `recovering`: while one `reconcile` awaits its answer another call returns at
once. What `reconcile` picks depends on the page as it is when the answer arrives
(`Picked`), not as it was when it asked.

The registry's rules (one active run, a request_id that finds its run, eviction) are
those of `RunRegistry`; how a run comes to its end, and how a stream brings it, is left
to `RunRegistry` and `RunStream`: here a run ends at any time, and its stream brings the
end, breaks, or is refused for good.

### RunRegistry

All runs of a dashboard, numbered in the order of creation. `Launch` is what
`spawn_run` does under `RUNS_LOCK` when it admits; refusals and the retry that
finds its run change nothing. `worker[r]` is the line of `target_thread` at
which run r is; `leader[r]` and `tool` are the processes of its group. The
processes are the environment: they exit at any time or never, and SIGTERM is
no more than a reason to exit. `poll` reaps an exited leader (`AfterPoll`), and
answers None while the worker is inside `wait` and holds the Popen's lock
(`PollSaysRunning`). `kill_run` is one action per poll and per signal, run by a
handler (`Stoppers`) or by the worker itself after an error (agent r).
Requests in `Privileged` run under sudo, so `killpg` raises for them.

### BatchHistory and HistoryLog

A batch is its number. `_save_history` is four steps (open, write, fsync,
replace), each of which may fail; the process may crash and the machine may
lose power between any two. `file` is what processes see, `disk` what a power
failure would leave: the directory is not synced, so an older file may come
back, and a file that was not synced may come back as a partial one.
`ImplementsLog` maps the module to `HistoryLog`: a step of a save before
`os.replace` is a stutter, and a power failure brings back a whole earlier list
or the current one.

### PingPersistence

A bucket is its minute. `Sample` is the sample that begins a bucket (others
change counts only), under the lock; `step[s]` is the line of `save_state` at
which a saver is: the ping worker, the handler of a first signal, and that of a
second one, which interrupts the first (`Runs`) and whose SystemExit passes
through it (`Unwind`). `data` has the temporary file, the one `STATE_FILE` names, and
the one it names on disk until the directory is synced (`settled`). A file
holds two pieces, the copied lists and `cur`, each marked with its writer; it is
whole if both have one writer. A file descriptor follows its file through
`os.replace`, so a save that goes on writing after another one has renamed the
file writes into `STATE_FILE`. Quiet hours need no action: the worker may save at any
time and need not sample.

A process starts with its handlers installed and nothing loaded: `ReadFile`, `LoadBucket`
and `LoadCur` fill memory bucket by bucket and kind by kind (`load` is where `load_state`
is), a signal may come at any of these steps and then saves what there is, and a read
error (`ReadFails`) leaves memory empty. A process that replaces the file before it has
loaded all of it has `spoiled` it. A file that is not JSON, or not there, has nothing to
load. `SyncDirectory` is the sync of the directory that `STATE_FILE` is in; `LeaveUnsynced`
is its failure, which is swallowed, and the case of a `PING_STATE_FILE` outside `_APP_DIR`,
which is the directory synced in any case. `kept` has the full buckets that saves have put
into the file, `durable` those of them that were in it when its directory was synced.

### PingCounts

One kind of bucket, known by its minute, with its `sent` and `recv`; `stats` are the
totals. A worker counts a sample in five accesses under the lock. `reader` is a handler
that computes `day_summary`: it lists the full buckets, adds the current one, and reads
their counts, without the lock. `saver` copies the full buckets under the lock and then
dumps the current bucket and the totals, one count after the other, while the worker goes
on. `truth` is what was really sampled in each minute. Neither reader nor saver changes
what the other sees, so only one of them is at work at a time. `Restart` is a stop at any
step and the beginning of `load_state` on the last file that was saved whole; how a file is
torn is PingPersistence's subject. `LoadBucket`, `LoadCur` and `LoadStats` are the rest of
it, in the order of the code; a save in between is that of the handler of a signal, which
stops the loading for good (`load` is "interrupted"), and nothing is sampled until it is
done. `RestartUnreadable` is a load that fails. A sum (`Sum`) is the number of the units counted, pairs of a bucket and a number up
to its count: a finite set, and nothing recursive to reason about.

### WorkloadLimits and WorkloadSuite

`WorkloadLimits` has the numbers of three places side by side, with their literal
values: `WorkloadLimits` of `load_gen.py`, `validate_args` and `build_all_workloads` of
the CLI, and `validate_request` of the dashboard. A product that would exceed TLC's
integers is compared as a quotient. A target is one of the classes of texts (`Targets`) that
the dashboard's pattern (`HostPattern`), the crawler's `target_url` (`TargetUrl`) and
`urlsplit` on the default URL of wrk (`HttpPort`) tell apart.

`WorkloadSuite` is a process from its command line to its exit status. `main` is
where the main thread is, `task[n]` where workload n is: queued, waiting at the
gate, running, over; the pool takes a workload when it has a free thread
(`PickUp`, `PoolSize`). What a `do_` function sends is one step, `End` or `RunSingle`, with any
`Outcome`: a code of a tool, negative when a signal ended it, or an exception.
`output` is what has been printed. `Interrupted` is every way in which a run of the dashboard
ends other than by the program's exit: SIGTERM, SIGKILL, an ssh that is stopped or has lost
its connection (`Killed`), an exception in `target_thread` (`ReadFails`), each of which loses
an end of the output (`CutOff`), and a program that never starts (`NotStarted`).
`RecordBatch` is `parse_batch_from_lines` and
`record_batch` on the lines that `Run.lines` retains. The suite has all 18
workloads when it is validated, and the instance runs two of them (`Suite`, their places
among the 18). `ArgumentsAssumption` is what argparse gives (every number of a command is
there), `RepliesAssumption` what http.client gives of a reply.

### WebCrawler

A single `crawl` is the exception: `CrawlPage` takes the steps of `WebCrawler` in place of
`RunSingle`. `at` is where `crawl_page` is, `left` what remains of the one deadline that
every wait takes its timeout from (`TimesOut`), `untried` the addresses that may still be
connected to, `got` the length of the body in blocks, of which `Cap` fit under `max_bytes`. A
reply says what its headers announce, how long the page is and how much of it comes
through; http.client is external: `Readable` is what it gives of a body, and that it
raises for a chunked body cut short is a guard of `BodyEnds`. An exception anywhere goes
on to the extraction of what has come (`Fail`), as in the code.

### Correlator, SyslogCollector, PcapCapture and Detection

`Correlator` is pure: each function of `correlator.py` is an operator of its name,
None a wildcard. `Correlate` takes the first candidate after the stable sort as the
one of least distance and, among those, of least index; candidates, and what `Query` and
`FindEvents` return, are known by their places in the list, so that two events that are
equal stay two. `CorrelatorAssumption` and `DetectionAssumption` keep None apart from
numbers, texts and records, as Python does, and say what a well-formed packet is.

In `SyslogCollector` a thread is known by the number of the `start` that made it, so
that an old thread and a new one can be told apart: `stop` joins with a timeout, and a
thread that is still ingesting then (`JoinTimesOut`) goes on with its connection, or
with the socket of the next start, once `start` has cleared the flag they share. The look
at the flag and the `recv` after it are two steps (`AwaitChunk`, `ReceiveChunk`). A
datagram is a line, lost or reordered at will. A TCP stream carries each line in two
pieces, chunks end anywhere, a connection breaks anywhere, and `buf` is what the thread
keeps of an incomplete line. A line is a record of its shape (RFC 5424, legacy or
broken), its tag and the key/value pairs in its structured data and its text, and
`Parse` makes an event of it.

`Detection` adds nothing to the collector's steps: at every state it asks the
correlator for its verdict on every stimulus that may have been sent until then
(`Stimuli`), against the evidence in `Truths` and what either reader makes of the packets in
`Captures`, in both modes. `PcapCapture` has a packet's outermost IPv4 header beside the
first transport headers that are found in it, which need not be its own.

## The runs

| run | specification | shows |
|---|---|---|
| `stream` | `FairSpec` | `NoStrandedHandler`: a live handler always has an event, a sentinel, or a publisher that will write to it. `NoLeakedSubscription`. `GapOnlyWhileDraining`, `InOrderNoDuplicates`: what a browser sees. `EveryViewerSeesTheEnd` |
| `registry_safety` | `Spec` | `AtMostOneActive`, `ActiveIsRetained`, `OneRunPerKey`, `EndedRunHasStopped`, `StopBeforeStartPreventsSpawn` |
| `registry_live` | `FairSpec` | `StopEndsRun`, with two stops of the same run; `EveryRunEnds` |
| `registry_group` | `Spec` | `StopTerminatesGroup` is violated (finding 1) |
| `history` | `Spec` | `RecordedIsKept`, `ImplementsLog` |
| `ping_safety` | `Spec` | `TornOnlyByOverlap`, `SavedIsKept`: what saves promise when they do not overlap, and what loading does to it |
| `ping_signals` | `FairSpec` | `SignalEndsProcess` is violated (finding 2) |
| `ping_counts` | `Spec` | `CountsAreTrue`: nothing is counted twice, in memory or in the file. `SummaryIsBracketed`: a summary without the lock is one of some moment |
| `client` | `FairSpec` | `PageRemembers`: what makes a page give up its run or its key. `RunIsLeft`, `LaunchIsRecovered`: what polling achieves |
| `client_refresh` | `FairSpec` | `RefreshRecovers` is violated (finding 3) |
| `suite` | `FairSpec` | `AllOrNothing`, `EveryWorkloadStarts`, `EndsUnlessSubmitRaises`: the gate. `ExitTellsTruth`, `BatchIsTrue`: what is reported, of a crawl as well. `PacedWithinLimits`, `AdmittedIsAccepted`: the limits |
| `detection` | `Spec` | `VerdictTable`: the documented rules, on what was received. `PassIsJustified`, `EventsTellTheLog`: verdicts against the lines logged and received and the packets captured. `SilentAfterStop`: the collector |

Bounds. `RunStream`: two browsers and two handlers (a third browser adds no new
interaction: browsers meet only in `MAX_SUBSCRIBERS`), ring, queues and
`MAX_SUBSCRIBERS` of two, three events, one broken connection. The ring overflows, a
queue is cut off with two events in it, a browser comes back both inside and outside
the ring, and one is refused while the subscription of a broken connection is not yet
released. `RunRegistry_safety`: three
launches with two retained, so that eviction happens; one key and no key; a
plain and a privileged request; one stopper beside the workers' own stops.
`RunRegistry_live`: two stoppers and two launches with one retained, so that the
first run's end must make room for the second, without keys. `BatchHistory`: two
of four batches retained, two crashes. `PingPersistence_safety`: one kind of
buckets (kinds share the lock, and the order in which they are loaded, for which the
theorems stand), one full bucket retained of three
minutes, so that rotation, retention and `Recent` all drop buckets, two signals
per life and two stops or restarts. After saves have overlapped `TornOnlyByOverlap` and
`SavedIsKept` hold by their hypotheses, and so does `SavedIsKept` once the file is spoiled:
the constraint `FewMinutes` explores only the first minute of these, and of a process that
was stopped or failed while it loaded all but the last.
`PingCounts`: one full bucket retained, three minutes and three samples, so that the
second bucket evicts the first while a reader or a saver is at work, and one restart,
which a save may interrupt at each step of the load.
`DashboardClient`: one retained run of two, so that a run is evicted and a request_id
forgotten; two workloads, one of which is refused; two keys; one restart of the server.
Where there are theorems, they hold for all bounds.
`WorkloadSuite`: every numeric limit at its boundaries for single workloads and for `all`,
floods for which count / rate and count * interval lie on two sides of the ceiling, and
every class of target where one is read; an HTTP request and a flood of the suite run, which
is what it takes for one to wait for another, for a submission to fail after one has
succeeded, and for rows of a summary to be left without their head in four retained lines; a
failed workload has a second line of error or not.
A crawl has two ticks and two addresses, and pages of one to three blocks,
the cap being two, cut short anywhere, with every framing and one reply for each reason to
reject it. `Detection`: a buffer of two, three lines logged, two starts, three
seconds, window and skew of one second, so that the buffer overflows, every boundary
of the window is met, and a restart finds the old thread at work; a complete RFC 5424
line and an incomplete legacy one over both protocols; captures with, without and
with invalid addresses, and captures with the stimuli's own packets and with a tunnel and an
ICMP error that only carry one. The constraint `FewLines` admits two lines over TCP, which is
enough to cut the stream anywhere, and after a restart; the third one, over UDP, overflows
the buffer. Deadlock
is not checked in the runs whose models stop when their bounds are used up.

Fairness. In RunStream the publishing thread, the handlers and the browsers'
reconnects are weakly fair: threads run, `run.lock` is held for finitely many
steps, an EventSource retries after 2 s, and a keepalive every 15 s makes a
write to a vanished browser fail. Runs are not obliged to publish or to end. In
RunRegistry workers and callers of `kill_run` are fair; processes are not, so
that `StopEndsRun` relies on SIGKILL alone. `WorkloadsEnd` says that a leader
exits in the end (every workload has a duration or a timeout); it is a hypothesis
of `EveryRunEnds` only. In PingPersistence the worker and the handlers run, and
whoever waits for the lock gets it although it is taken in between (strong
fairness of `TakeLock`): the others hold it for microseconds and sleep for seconds.
In DashboardClient the timer ticks, a launch is answered or fails, and of the polls that
are made again and again not all fail (strong fairness of `ServeRuns` and `PollAnswered`):
without that, a page cannot learn anything. Users need not click, runs need not end,
streams need not bring anything. PingCounts has no fairness.
In WorkloadSuite the main thread and the pool's threads run; workloads need not end
(`WorkloadsEnd` is a hypothesis of `EndsUnlessSubmitRaises`: every tool has a timeout),
so that `EveryWorkloadStarts` is not helped by one that does. Time passes during a crawl,
and the network need not answer: that a crawl ends rests on its deadline.

### Findings

1. `StopTerminatesGroup` (`dashboard.py:510`). After SIGTERM and 2 s, SIGKILL is
   sent to the group only if the leader is still running. A tool that ignores
   SIGTERM outlives a leader that does not, and the stop is answered with
   success, although "stop requests terminate the local process group"
   (`srx-dashboard/README.md:17`).
2. `SignalEndsProcess` (`pingapp/server.py:725`). A second signal that interrupts
   `_graceful` inside `with lock` waits in the same thread for a lock that is not
   reentrant: the process does not end.

3. `RefreshRecovers` (`dashboard.py:675`). A page that is loaded asks for the runs once;
   the timer polls only for a page that has a run or a pending launch. If the one request
   fails, the page says "execution status unknown; retrying." (`dashboard.py:670`) and
   never asks again, although it "recovers active runs after refresh"
   (`srx-dashboard/README.md:109`).

Two more have no run of their own; the properties that hold name their windows.

4. `GapOnlyWhileDraining` (`dashboard.py:251`). A slow subscriber is cut off by emptying
   its queue and then putting the sentinel. The handler thread may be taking from the
   queue at that moment: after `get_nowait` has removed event n, the handler's `get`
   takes event n + 1 and writes it. The browser reconnects with `Last-Event-ID` n + 1,
   and event n is neither replayed nor announced by a reset, although "slow subscribers
   reconnect and replay the ring" (`dashboard.py:242`).
5. `TornOnlyByOverlap` (`pingapp/server.py:172`). The signal handler's save truncates the
   temporary file while the worker's save is about to rename it: `state.json` is then not
   JSON, and if the process dies before another save completes, `load_state` finds nothing
   of what `pingapp/README.md:28` calls persisted.

More that a reader should know, of which no document says the opposite.

* `cur` is dumped after the lock is released, so a bucket that fills between the copy
and the dump is missing from that save (`WriteCur`).
* If the pool cannot start a thread
for a workload, those already submitted wait at the closed gate and the process does
not end (`EndsUnlessSubmitRaises` names this state).
* What the dashboard takes for a target (`dashboard.py:384`: letters, digits and `.:%_-`)
the CLI does not always take: `crawl` rejects `my_host`, `host%1` and `host:80`
(`web_crawler.py:66`), and `wrk` and `all` an IPv6 address and `host:x`, which make no URL.
`AdmittedIsAccepted` says that these are all the launches that are admitted and then fail on
their arguments.
* The entry of a batch whose run was cut off (stopped, ssh lost, a read error) may have a
part of the summary, marked as available like a whole one (`BatchIsTrue` excepts it).
* The pingapp installs its signal handlers before `load_state` (`server.py:729-736`): a
signal in between saves what has been loaded so far, or nothing, over the whole
`state.json`, with totals of 0 beside loaded buckets since `stats` come last. A read error
at the start (199) is swallowed, and the next save overwrites the file with an empty
state. Neither needs two saves to overlap; `SavedIsKept` and `CountsAreTrue` except
them (`spoiled`).
* The directory that a save syncs is `_APP_DIR` (`server.py:179`) also when
`PING_STATE_FILE` names a file elsewhere, and a failure of it is swallowed: until the file
system writes that directory by itself, a power failure brings back an older file.
`SavedIsKept` promises after a power failure what a directory sync has covered.
* The scapy fallback for reading a capture takes the
ports of a packet inside a tunnel for evidence between the tunnel's end points, which the
tshark reader avoids with a comment that says why (`pcap_capture.py:161`); `PassIsJustified`
speaks of own headers for tshark only.
* An answer to `/api/runs` that is older than a run takes the page off that run, or onto
  one that has ended (`PageRemembers` excepts it). A poll that shows another active run
  clears the key of a pending launch, so that a later click uses a new one. And a page
  whose stream was refused keeps its run, though the server has forgotten it, as long as
  another run is active (`RunIsLeft` excepts it).
* A summary of the pingapp may leave out a bucket that becomes full while it is computed,
  or count it twice (`SummaryIsBracketed` excepts it).
* `BUCKETS` (`pingapp/server.py:46`) counts minutes: with `PING_BUCKET_SEC` of s < 60 the
  deque holds s/60 of `PING_RETAIN_DAYS`. The models take any number of buckets.

## The proofs

`RunRegistryProofs` proves, for every number of runs, keys, requests, stoppers
and every `MaxRuns > 0` (`RegistryAssumption` is all that is assumed):

* `TypeCorrect`: `Spec => []TypeOK`, with the bound `MAX_RUNS` of the registry;
* `OneActive`, `ActiveRetained`, `OneKey`, `EndedStopped`: the four safety
  invariants of `registry_safety`;
* `NoSpawnAfterStop`: its action property.

None of the invariants is inductive by itself. That at most one run is active
follows only from where the admission test looks (the retained runs) and from
what eviction leaves there: `RegistryInv` says that `RUNS` holds the newest runs
in the order of their creation and that every run but the newest has ended. That
an ended run has left no leader running needs the position of its worker
(`WorkerInv`), and for the path through the worker's own `kill_run`, where that
call is and what it answered (`OwnKillInv`); `TargetInv` says that whoever is past
the first lock of `kill_run` is killing a run whose process exists, so that
`poll` never turns "no process" into "reaped". `IInv` is their conjunction with
`TypeOK`; `StepType`, `StepRegistry`, `StepWorker`, `StepTarget` and `StepOwnKill` prove it
action by action, from `KillEffect`, which says what a step of `kill_run` does to the
processes. `OneKey` needs `KeysDiffer` besides, a statement about the set of
retained runs.

`DashboardClientProofs` proves, for every set of workloads and every number of runs,
keys, restarts and retained runs (`ClientAssumption`):

* `TypeCorrect`: `Spec => []TypeOK`, where the page has a stream just when it has a
  run, and follows none while it holds the key of a launch whose outcome is open;
* `Remembers`: the action property `PageRemembers`.

`PageRemembers` is about what an answer shows that may be arbitrarily old, so its
proof has to say how old: `SeenIsPast` relates the list under way to the server it
was taken from (it begins no later than what is retained now, and every run it shows
as ended has ended), and `ReplyIsKnown` says that an accepted launch was answered with a
run that exists. With these, an active run that the list shows is the one `reconcile`
picks and keeps (`KeptIfShown`), and one it lacks is newer than the whole list. `IInv`
is `TypeOK` with the two; `ServerStep` shows that the server only grows, whoever moves
it, and `PageStep` the rest, action by action. That `find` finds a first run
(`FirstExists`) rests on the well-foundedness of the naturals.

`BatchHistoryProofs` proves, for every set of batches and every `HistoryMax > 0`
(`HistoryAssumption`):

* `TypeCorrect` and `RecordedKept`: `Spec => []TypeOK` and `Spec => []RecordedIsKept`, which
  is about the batches recorded since the last power failure or failed load;
* `Refinement`: `Spec => ImplementsLog`, that is, with the list that a restart would
  load as the history, every step of a save, a failure, a crash and a power
  failure is a step of `HistoryLog` or leaves it alone.

`SaveInv` says what a save has reached: once its `fsync` is past, the temporary file
holds the whole list and is on disk, so that the rename puts that list and nothing
else in the file's place. `ListInv` says that the file and the list in memory are
ordered and within the bound. `KeptInv` is the reason that a reported batch stays: it
is in the file or the file is full of newer ones, and the same is true of the list the next
save will write, so that a save cannot lose what the file has.

`RunStreamProofs` proves, for every number of browsers, handlers, breaks and events, and
every `MaxLines`, `QueueSize` and `MaxSubscribers` above 0 (`StreamAssumption`):

* `TypeCorrect`, `NoStranded`, `NoLeaked`, `InOrder`: the safety invariants of `stream`;
* `GapOnly`: its action property `GapOnlyWhileDraining`.

The ring holds the latest numbers without a gap (`RingInv`); `LockInv` relates who is
subscribed, still to be served and being drained; `FedInv` is `NoStrandedHandler`
for handlers that still replay as well, for they are the ones that will wait. The order
needs to know what a browser has been shown, what is left of its handler's backlog and
what is in the queue together: `Chain` says that the backlog goes on where the browser's
`Last-Event-ID` ends, and the queue where the backlog ends, without a gap while the
handler is subscribed, possibly with one while `_publish` drains it, and with an
empty queue or the sentinel afterwards. A gap is therefore possible in the second
case alone, which is `GapOnly`. `ConnInv` adds that no number a browser has seen is
newer than the run's, on which it rests that a replay starts right
(`ReplayFollows`). `IInv` is their conjunction with the types, one lemma `Step...` for each.

`WorkloadSuiteProofs` proves, for every set of command lines, ceilings, exit codes, replies
of a server, size of the pool and of the retained output, and every part of the suite
(`ArgumentsAssumption`, `RepliesAssumption` and the bounds' own assumptions):

* `TypeCorrect`, `SuiteAllOrNothing`, `StatusTellsTruth`, `EntryIsTrue`: the safety
  invariants of `suite` about an execution;
* `FloodsArePaced`, `AdmittedRequestsParse`: those about the limits, for all numbers.

`IInv` follows an execution along its path. `RequestInv` says which checks the arguments have
passed at each place of the main thread; `PoolInv` that the gate is open only when all
have been submitted and that a workload runs only behind it; `ResultsInv` that a result
is its workload's, one for each; `OutputInv` that the summary printed so far is a head and
then a row for each result counted; `StatusInv` carries both over the end of the process,
where they can no longer be read off the main thread; and `PageInv` does for a crawl what
`StatusInv` needs: a page is complete only if its body ended where its headers said. That
the entry of a batch is whole or empty unless its run was cut off (`EntryIsTrue`) has then to
be said of any last lines of the output (`SummaryIsWhole`): if the head is among them so is
every row, and if it is not, nothing is counted. A cut takes an end of the output only, so
that what is left are still rows of results (`CutPrinted`). The limits need arithmetic: an
interval rounded up is no shorter than the quotient (`RoundedUp`), so that the rate that
results is no higher, and the time that count intervals take is what `Flood` compares
(`FloodKeepsPace`, `WithinQuotient`). `AdmittedRequestsParse` is an equivalence, for every
class of target: `AdmittedArgsAreValid` and `AdmittedSuite` for what is accepted,
`SuiteNeedsUrl` for the suite that is not.

`PingPersistenceProofs` proves, for every number of kinds, minutes, signals and stops,
and every retention:

* `TypeCorrect`, `TornOnly`, `SavedKept`: the safety invariants of `ping_safety`.

All but the types is said only while saves have not overlapped, as in the properties:
`IInv` is `TypeInv`, and `SafeInv` unless `overlapped`. `OneSaver` makes it possible to
speak of the save; `Written` says what its file holds at each line, so that a rename
puts a whole file in place (`Intact`); `CopyInv`, `MemoryInv` and `FileInv` compare three
lists, in memory, in the saver's copy and in the file, by `Covers`: a minute that has been
kept is in each, or too old, or pushed out by newer ones. Memory can be held to that only
when it is loaded and the file was never spoiled (`Trusted`); while `load_state` runs,
`LoadType` says that memory holds the first of the buckets it has to load, and no save but a
handler's is at work, so that the file stays as it was read. A list ascends (`Ascending`), or
"newer" would not mean "later in the list". Loading drops what is too old by
position, so the lemmas about `Recent` (`RankGrows`, `RankIsOnto`) count places.

`DetectionProofs` proves, for every set of lines, tags, stimuli, evidence and captures, both
protocols, every buffer, window and skew (`CorrelatorAssumption`, `CollectorAssumption`,
`DetectionAssumption`):

* `TableTrue`, `PassJustified`: what verdicts mean, for any events of a collector;
* `TypeCorrect`, `EventsTrue`: the collector's types, and its events against the log;
* `Silent`: its action property `SilentAfterStop`.

The first two need of the state only that events are parsed lines with their times. That there
is a closest event, and one that `Correlate` and the table agree on, rests on least
elements of sets of naturals (`Least`, `CorrelateIsBest`, `BestIsOne`); what tshark extracts
agrees with a packet's own headers since it selects ports by the protocol
(`TsharkReadsOwnHeaders`). `EventsTrue` needs to know where a line was before it was
an event. `StoreInv` relates buffer, evictions and what was received. `TodoInv` says that
what a thread is about to ingest was logged; and `NetInv` says the same of a stream, where
it has to speak of `Stream`, the rest that a connection's server holds together with
what is on its way: heads and tails alternate in it, each pair of one logged line
(`IsStream`), whatever has been cut off its end. `StreamSplits` proves that `SplitLines` then
gives logged lines and leaves a head at most, and that is why `Accept` must begin with an
empty rest. `ThreadInv` is what `Silent` needs: without a join that timed out, a
thread at work is that of the open socket.

`PingCountsProofs` proves, for every number of minutes, samples and stops, every maxlen,
window and factor (`CountsAssumption`):

* `TypeCorrect`, `CountsTrue`, `SummaryBracketed`: the three invariants of `ping_counts`.

A sum over the minutes, defined by recursion, would need an induction for each step.
`Sum` counts units, so that a sum that grows is a larger set (`SumGrows`), one more sample
one more element (`SumCountsOne`), the sum over a list without repetitions the sum over its
entries (`ListIsSummed`, by a bijection), and the sum of the sums of disjoint groups the
sum of all (`SumOfGroups`), which is what downsampling is (`GroupsAddUp`).
`CountInv` balances the books at every access: what the worker holds of a sample and the
bucket does not count yet (`Unsent`, `Unreplied`), the buckets, the totals and the truth.
It is not inductive alone: a new bucket must not wipe a count, so that `OrderInv` says that
the full buckets ascend, lie before the current one, and nothing is counted after it;
a load puts what a saver dumped back into memory, so that `SaverInv` and `FileInv` say the
same of the dump, which is no newer than memory and whose totals are read last; and
`LoadInv` says that what `rest` has still to bring lies behind what is loaded and before the
file's current bucket, so that nothing is loaded twice. The totals balance only when they are loaded and the file was not spoiled
(`Totalled`).
`ReaderInv` says what a summary has read so far: at least what the buckets held when it
listed them, at most what they hold now, unless a bucket moved meanwhile.

Only model-checked is liveness (`EveryViewerSeesTheEnd`, `StopEndsRun`, `EveryRunEnds`,
`RunIsLeft`, `LaunchIsRecovered`, `EveryWorkloadStarts`, `EndsUnlessSubmitRaises`): it rests on
fairness and ENABLED, which are out of the prover's reach. The three expected violations
are counterexamples, and TLC's.

## Not modelled

* HTTP parsing, authorisation, parameter validation and command lines: single
  requests without shared state.
* `/api/history`, which reads under one lock; the page's form, heatmap and texts.
* Round trip times, raw samples and `wifi_state` of the pingapp, the probes and the
  parsing of what they print; the clock going backwards.
* Reuse of a pid between `poll` and `killpg`.
* The texts of events, lines and notes; how `parse_syslog_line` tokenizes a line;
  timestamps that are not finite; the assertions over the value of one field.
* What a workload sends, except the course of a crawl; what a crawl extracts of a page.
* The capture process itself (`start`, `stop`), and files that its readers reject.
* The parts listed as not modelled in `PROJECT.json`: the generators are
  sequential drivers of sockets and tools, the SRX queries a wrapper of remote
  calls, the scripts installers.

## Plan

In this order, each with its runs and mutants:

1. The capture process of `PcapCapture`: start, terminate, wait, kill.
2. The pingapp's WiFi probe: the blocks of a stream that breaks, its pause at night.
