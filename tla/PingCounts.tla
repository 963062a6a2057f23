----------------------------- MODULE PingCounts -----------------------------
(***************************************************************************)
(* The counts of pingapp/server.py: how a probe worker counts its samples  *)
(* in the totals (stats) and in the buckets, and what reads them at the    *)
(* same time: day_summary for /api/stats, which takes no lock, and         *)
(* save_state, which dumps cur and stats by reference when it has released *)
(* the lock.  One kind of bucket stands for all; each access to a count is *)
(* a step of its thread.  Who saves while a worker counts is the signal    *)
(* handler or, for the samples of the WiFi worker, the ping worker.        *)
(*                                                                         *)
(* A bucket is an object that the deque, cur, a reader and a saver share.  *)
(* It is known by its id, the minute it counts; nothing changes one that   *)
(* cur has left.  Round trip times are left out.  The file is written at   *)
(* once: how it may be torn or lost is PingPersistence's subject.  It is    *)
(* loaded in steps, with the signal handlers already installed.            *)
(***************************************************************************)
EXTENDS Integers, Sequences, FiniteSets

CONSTANTS MaxBuckets,  \* maxlen of the deque, and RETAIN_DAYS in minutes
          Hours,       \* minutes before now that the summary covers
          Factor,      \* buckets that downsample_series merges
          MaxMinutes,  \* bound: minutes that pass
          MaxSamples,  \* bound: samples
          MaxStops     \* bound: stops of the process

ASSUME CountsAssumption ==
  /\ MaxBuckets \in Nat \ {0}
  /\ Hours \in Nat
  /\ Factor \in Nat \ {0}
  /\ MaxMinutes \in Nat \ {0}
  /\ MaxSamples \in Nat
  /\ MaxStops \in Nat

VARIABLES
  clock,   \* the minute it is
  stats,   \* stats["sent"] and stats["recv"]
  full,    \* buckets[kind]: the ids of the full buckets
  cur,     \* cur[kind]: the id of the bucket being filled, or Nothing
  count,   \* bucket: its counts
  pc,      \* worker: its next step, "probe" if it does not hold the lock
  sample,  \* worker: the minute of the sample and whether it was answered
  reader,  \* the thread that computes a summary, a record with its `step'
  saver,   \* the thread that saves, a record with its `step'
  file,    \* STATE_FILE
  load,    \* load_state: its next step, or that a signal stopped it
  rest,    \* load_state: the full buckets of the file still to append
  spoiled, \* history: the handler of a signal that stopped load_state saved
  stops,   \* times the process stopped
  truth    \* history, minute: the samples really taken

memory == <<stats, full, cur, count>>
worker == <<pc, sample, truth>>
loading == <<load, rest>>
vars == <<clock, memory, worker, reader, saver, file, loading, spoiled, stops>>

Nothing == 0
Minutes == 1 .. MaxMinutes
Zero == [sent |-> 0, recv |-> 0]
AtMost(a, b) == a.sent <= b.sent /\ a.recv <= b.recv

\* f[i] added up for i \in ids, as the number of the units counted.
Sum(f, ids) == Cardinality(UNION {{<<i, k>> : k \in 1 .. f[i]} : i \in ids})
SumOver(f, ids) == [sent |-> Sum([i \in ids |-> f[i].sent], ids),
                    recv |-> Sum([i \in ids |-> f[i].recv], ids)]

\* The buckets of a deque and a current bucket.
Entries(list) == {list[i] : i \in DOMAIN list}
Held(ids, c) == (Entries(ids) \cup {c}) \ {Nothing}

\* The buckets of a list that are not older than floor.
Since(list, floor) ==
  LET recent == {i \in DOMAIN list : list[i] >= floor}
      nth(n) == CHOOSE i \in recent : Cardinality({j \in recent : j <= i}) = n
  IN  [n \in 1 .. Cardinality(recent) |-> list[nth(n)]]

NoFile == [full |-> <<>>, cur |-> Nothing, count |-> [m \in Minutes |-> Zero],
           stats |-> Zero]

----------------------------------------------------------------------------
(* worker and add_to_bucket: a sample is counted under the lock             *)

NoSample == [minute |-> 1, answered |-> FALSE]

\* The lock is released: what the worker knew of the sample is gone.
Release == pc' = "probe" /\ sample' = NoSample

\* buckets[kind].append: what is longer than maxlen loses its first.
Push(list, id) == Append(IF Len(list) < MaxBuckets THEN list ELSE Tail(list), id)

\* ping_once has returned; the lock is taken, and the total counts the sample.
\* The workers start when load_state has returned.
Sample ==
  /\ pc = "probe" /\ load = "done"
  /\ SumOver(truth, Minutes).sent < MaxSamples
  /\ sample' \in [minute : {clock}, answered : BOOLEAN]
  /\ stats' = [stats EXCEPT !.sent = @ + 1]
  /\ truth' = [truth EXCEPT ![clock].sent = @ + 1]
  /\ pc' = "reply"
  /\ UNCHANGED <<clock, full, cur, count, reader, saver, file, loading, spoiled, stops>>

CountReply ==
  /\ pc = "reply"
  /\ IF sample.answered
       THEN /\ stats' = [stats EXCEPT !.recv = @ + 1]
            /\ truth' = [truth EXCEPT ![sample.minute].recv = @ + 1]
       ELSE UNCHANGED <<stats, truth>>
  /\ pc' = CASE cur = sample.minute -> "sent"
             [] cur = Nothing -> "new"
             [] cur \notin {sample.minute, Nothing} -> "append"
  /\ UNCHANGED <<clock, full, cur, count, sample, reader, saver, file, loading, spoiled, stops>>

\* The reader's history: a bucket is moving from cur to the deque.
Roll == reader' = [reader EXCEPT !.rolled = @ \/ reader.step \in {"cur", "sent", "recv", "done"}]

\* Mutant of AppendBucket: a deque without maxlen.
AppendWithoutEnd ==
  /\ pc = "append"
  /\ full' = Append(full, cur)
  /\ Roll
  /\ pc' = "new"
  /\ UNCHANGED <<clock, stats, cur, count, sample, truth, saver, file, loading, spoiled, stops>>

\* buckets[kind].append(b); from here to NewBucket, b is in both places.
AppendBucket ==
  /\ pc = "append"
  /\ full' = Push(full, cur)
  /\ Roll
  /\ pc' = "new"
  /\ UNCHANGED <<clock, stats, cur, count, sample, truth, saver, file, loading, spoiled, stops>>

NewBucket ==
  /\ pc = "new"
  /\ cur' = sample.minute
  /\ count' = [count EXCEPT ![sample.minute] = Zero]
  /\ pc' = "sent"
  /\ UNCHANGED <<clock, stats, full, sample, truth, reader, saver, file, loading, spoiled, stops>>

BucketSent ==
  /\ pc = "sent"
  /\ count' = [count EXCEPT ![cur].sent = @ + 1]
  /\ IF sample.answered THEN pc' = "recv" /\ UNCHANGED sample ELSE Release
  /\ UNCHANGED <<clock, stats, full, cur, truth, reader, saver, file, loading, spoiled, stops>>

BucketRecv ==
  /\ pc = "recv"
  /\ count' = [count EXCEPT ![cur].recv = @ + 1]
  /\ Release
  /\ UNCHANGED <<clock, stats, full, cur, truth, reader, saver, file, loading, spoiled, stops>>

Tick ==
  /\ clock < MaxMinutes
  /\ clock' = clock + 1
  /\ UNCHANGED <<memory, worker, reader, saver, file, loading, spoiled, stops>>

----------------------------------------------------------------------------
(* bucket_series, day_summary and downsample_series                         *)

NoReader == [step |-> "idle", cutoff |-> 0, list |-> <<>>, sent |-> <<>>,
             series |-> <<>>, start |-> Zero, rolled |-> FALSE]

InWindow(ids, cutoff) == {m \in ids : m >= cutoff}

Read(step, next) ==
  /\ reader.step = step
  /\ reader' = next
  /\ UNCHANGED <<clock, memory, worker, saver, file, loading, spoiled, stops>>

\* list(buckets[kind]).  Readers and savers change nothing that the other reads:
\* that only one is at work leaves out nothing.
ListFull ==
  LET cutoff == clock - Hours
  IN  /\ saver.step = "idle" /\ load = "done"
      /\ Read("idle", [reader EXCEPT
                        !.step = "cur", !.cutoff = cutoff, !.list = full,
                        !.start = SumOver(count, InWindow(Held(full, cur), cutoff)),
                        !.rolled = pc = "new" /\ cur # Nothing])

\* Mutant of ListCur: the bucket being filled is left out.
ListNoCur ==
  Read("cur", [reader EXCEPT !.step = "sent", !.list = Since(@, reader.cutoff)])

\* + [cur[kind]], and the loop passes over what is too old.
ListCur ==
  LET last == IF cur = Nothing THEN <<>> ELSE <<cur>>
  IN  Read("cur", [reader EXCEPT !.step = "sent",
                                 !.list = Since(@ \o last, reader.cutoff)])

\* The counts of each bucket, one after the other.
ReadSent ==
  Read("sent", [reader EXCEPT
                !.step = "recv",
                !.sent = [i \in DOMAIN reader.list |-> count[reader.list[i]].sent]])
ReadRecv ==
  Read("recv", [reader EXCEPT
                !.step = "done", !.list = <<>>, !.sent = <<>>,
                !.series = [i \in DOMAIN reader.list |->
                             [sent |-> reader.sent[i],
                              recv |-> count[reader.list[i]].recv]]])

Answer ==
  /\ reader.step = "done"
  /\ reader' = NoReader
  /\ UNCHANGED <<clock, memory, worker, saver, file, loading, spoiled, stops>>

Lesser(i, j) == IF i < j THEN i ELSE j

downsample_series(ser, factor) ==
  [i \in 1 .. (Len(ser) + factor - 1) \div factor |->
    SumOver(ser, (i - 1) * factor + 1 .. Lesser(i * factor, Len(ser)))]

----------------------------------------------------------------------------
(* save_state and load_state                                                *)

NoSaver == [step |-> "idle", full |-> <<>>, cur |-> Nothing,
            count |-> [m \in Minutes |-> Zero], stats |-> Zero]

Save(step, next) ==
  /\ saver.step = step
  /\ saver' = next
  /\ UNCHANGED <<clock, memory, worker, reader, file, rest, spoiled, stops>>

\* with lock: the full buckets are copied.  A save during load_state is that of
\* a signal, after which the process ends ...
SaveCopy ==
  /\ pc = "probe" /\ reader.step = "idle"
  /\ Save("idle", [saver EXCEPT !.step = "cur", !.full = full])
  /\ load' = IF load = "done" THEN "done" ELSE "interrupted"

\* ... and without it json.dump comes to cur, to its counts one by one,
SaveCurSent ==
  LET dumped == Held(saver.full, cur)
  IN  /\ Save("cur", [saver EXCEPT
                      !.step = "recv", !.cur = cur,
                      !.count = [m \in Minutes |-> IF m \in dumped THEN count[m] ELSE Zero]])
      /\ UNCHANGED load
SaveCurRecv ==
  /\ Save("recv", [saver EXCEPT
                   !.step = "stats",
                   !.count = [m \in Minutes |->
                               IF m = saver.cur THEN [@[m] EXCEPT !.recv = count[m].recv]
                               ELSE @[m]]])
  /\ UNCHANGED load

\* and then to stats.
SaveStatsSent ==
  /\ Save("stats", [saver EXCEPT !.step = "last", !.stats = [stats EXCEPT !.recv = 0]])
  /\ UNCHANGED load

\* os.replace: the new file is in place.
SaveFile ==
  /\ saver.step = "last"
  /\ file' = [full |-> saver.full, cur |-> saver.cur, count |-> saver.count,
              stats |-> [saver.stats EXCEPT !.recv = stats.recv]]
  /\ saver' = NoSaver
  /\ spoiled' = (spoiled \/ load = "interrupted")
  /\ UNCHANGED <<clock, memory, worker, reader, loading, stops>>

SaveFails ==
  /\ saver.step # "idle"
  /\ saver' = NoSaver
  /\ UNCHANGED <<clock, memory, worker, reader, file, loading, spoiled, stops>>

\* The process stops, and starts again: load_state reads the file, `list' its
\* full buckets, and has all of it to load.
Reads(list) ==
  /\ stops < MaxStops
  /\ stops' = stops + 1
  /\ Release /\ reader' = NoReader /\ saver' = NoSaver
  /\ load' = "buckets" /\ rest' = Since(list, clock - MaxBuckets)
  /\ stats' = Zero /\ full' = <<>> /\ cur' = Nothing /\ count' = file.count
  /\ UNCHANGED <<clock, truth, file, spoiled>>

\* Mutant of Restart: load_state puts the current bucket into the deque as well.
RestartAppending ==
  Reads(file.full \o (IF file.cur = Nothing THEN <<>> ELSE <<file.cur>>))

Restart == Reads(file.full)

\* The file cannot be read: load_state passes, and the memory stays empty.
RestartUnreadable ==
  /\ stops < MaxStops
  /\ stops' = stops + 1
  /\ Release /\ reader' = NoReader /\ saver' = NoSaver
  /\ load' = "done" /\ rest' = <<>>
  /\ stats' = Zero /\ full' = <<>> /\ cur' = Nothing
  /\ count' = [m \in Minutes |-> Zero]
  /\ UNCHANGED <<clock, truth, file, spoiled>>

Loads == UNCHANGED <<clock, count, worker, reader, saver, file, spoiled, stops>>

LoadBucket ==
  /\ load = "buckets" /\ rest # <<>>
  /\ full' = Push(full, Head(rest)) /\ rest' = Tail(rest)
  /\ Loads /\ UNCHANGED <<load, cur, stats>>

LoadCur ==
  /\ load = "buckets" /\ rest = <<>>
  /\ cur' = file.cur /\ load' = "stats"
  /\ Loads /\ UNCHANGED <<rest, full, stats>>

LoadStats ==
  /\ load = "stats"
  /\ stats' = file.stats /\ load' = "done"
  /\ Loads /\ UNCHANGED <<rest, full, cur>>

----------------------------------------------------------------------------

Init ==
  /\ clock = 1
  /\ stats = Zero /\ full = <<>> /\ cur = Nothing
  /\ count = [m \in Minutes |-> Zero]
  /\ pc = "probe" /\ sample = NoSample
  /\ reader = NoReader /\ saver = NoSaver /\ file = NoFile
  /\ load = "done" /\ rest = <<>> /\ spoiled = FALSE /\ stops = 0
  /\ truth = [m \in Minutes |-> Zero]

Worker ==
  Sample \/ CountReply \/ AppendBucket \/ NewBucket \/ BucketSent \/ BucketRecv

Next ==
  \/ Tick \/ Worker
  \/ Restart \/ RestartUnreadable \/ LoadBucket \/ LoadCur \/ LoadStats
  \/ ListFull \/ ListCur \/ ReadSent \/ ReadRecv \/ Answer
  \/ SaveCopy \/ SaveCurSent \/ SaveCurRecv \/ SaveStatsSent \/ SaveFile \/ SaveFails

Spec == Init /\ [][Next]_vars

----------------------------------------------------------------------------
(* Properties                                                               *)

Counts == [sent : 0 .. MaxSamples, recv : 0 .. MaxSamples]

TypeOK ==
  /\ clock \in Minutes
  /\ stats \in Counts
  /\ full \in Seq(Minutes) /\ Len(full) <= MaxBuckets
  /\ cur \in Minutes \cup {Nothing}
  /\ count \in [Minutes -> Counts] /\ truth \in [Minutes -> Counts]
  /\ pc \in {"probe", "reply", "append", "new", "sent", "recv"}
  /\ sample \in [minute : Minutes, answered : BOOLEAN]
  /\ reader.step \in {"idle", "cur", "sent", "recv", "done"}
  /\ saver.step \in {"idle", "cur", "recv", "stats", "last"}
  /\ file.full \in Seq(Minutes) /\ file.stats \in Counts
  /\ load \in {"buckets", "stats", "done", "interrupted"} /\ rest \in Seq(Minutes)
  /\ spoiled \in BOOLEAN /\ stops \in 0 .. MaxStops

\* No sample is counted twice, in memory or in the file, whatever has been
\* saved while it was counted and loaded after a stop: a bucket never counts
\* more than was sampled in its minute, and all of them together no more than
\* the totals, which the worker counts first and save_state dumps last.  The
\* totals are loaded last as well: they miss what the buckets count until then,
\* and for good once the handler of a signal that came before has saved.
CountsAreTrue ==
  LET within(f, ids, total, totalled) ==
        /\ \A m \in ids : AtMost(f[m], truth[m])
        /\ totalled => AtMost(SumOver(f, ids), total)
  IN  /\ within(count, Held(full, cur), stats, load = "done" /\ ~spoiled)
      /\ within(file.count, Held(file.full, file.cur), file.stats, ~spoiled)
      /\ cur # Nothing /\ pc # "new" => cur \notin Entries(full)

\* A summary computed without the lock shows, for sent as for recv, what the
\* buckets held at some moment of the computation, unless a bucket became full
\* meanwhile (then it may be missing, or counted twice); and the downsampled
\* series adds up to the same.
SummaryIsBracketed ==
  LET Total(series) == SumOver(series, DOMAIN series)
      total == Total(reader.series)
  IN  reader.step = "done" =>
        /\ ~reader.rolled =>
             /\ AtMost(reader.start, total)
             /\ AtMost(total, SumOver(count, InWindow(Held(full, cur), reader.cutoff)))
        /\ Total(downsample_series(reader.series, Factor)) = total
=============================================================================
