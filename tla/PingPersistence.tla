-------------------------- MODULE PingPersistence --------------------------
(***************************************************************************)
(* The buckets of pingapp/server.py and their file: add_to_bucket by the   *)
(* two probe threads, save_state by the ping worker (every 15 s) and by    *)
(* the signal handler _graceful, load_state, and what stops the process.   *)
(* The handler is installed before load_state begins: a signal then saves  *)
(* what has been loaded so far.                                            *)
(*                                                                         *)
(* A bucket is the minute it stands for; its counts are left out.  The     *)
(* ping worker fills the buckets "default" and "big" in one step, for      *)
(* which "ping" stands; wifi_worker fills "wifi".  Both workers run beside *)
(* the main thread, in which _graceful runs, and a second signal           *)
(* interrupts the handler of the first, so there are up to three saves at  *)
(* a time, all through STATE_FILE.tmp.                                     *)
(*                                                                         *)
(* The file is written in two pieces, the full buckets and the current     *)
(* ones.  It is whole if both come from one save: json.load rejects what   *)
(* two writers at offsets of their own have mixed, and what was cut short. *)
(***************************************************************************)
EXTENDS Integers, Sequences, FiniteSets

CONSTANTS Kinds,       \* of buckets; with none, only the files and processes remain
          BUCKETS,     \* full buckets retained, and RETAIN_DAYS in minutes
          MaxMinutes,  \* bound: minutes that pass
          MaxSignals,  \* bound: signals per life of the process, 1 or 2
          MaxStops     \* bound: crashes, power failures and exits

ASSUME PingAssumption ==
  /\ Kinds \subseteq {"ping", "wifi"}
  /\ BUCKETS \in Nat \ {0}
  /\ MaxMinutes \in Nat \ {0}
  /\ MaxSignals \in {0, 1, 2}
  /\ MaxStops \in Nat

Savers == {"worker", "first", "second"}

\* "there is no bucket yet"
Nothing == 0

\* The files: STATE_FILE.tmp, STATE_FILE, and the file that STATE_FILE names
\* on disk as long as that is another one.
Files == {"tmp", "state", "old"}

VARIABLES
  clock,      \* the minute it is
  buckets,    \* kind: the deque of full buckets
  cur,        \* kind: the bucket being filled, or Nothing
  step,       \* saver: where its save_state is
  copy,       \* saver: the full buckets it copied under the lock
  fd,         \* saver: the file it has open, under the name the file has
              \* now; "gone" if it has none, "none" if nothing is open
  data,       \* file: its two pieces and whether they are on disk, or NoFile
  settled,    \* STATE_FILE names the same file on disk, and there is no "old"
  process,    \* "running" or "down"
  signals,    \* signals since the process started
  stops,      \* times it stopped
  load,       \* load_state: "unread", the kind it is filling, "done", or "failed"
  floor,      \* the minute at which it read the file
  overlapped, \* history: two saves have been in progress at once
  spoiled,    \* history: STATE_FILE has been replaced by a process that had
              \* not loaded all that was in it
  kept,       \* history, kind: full buckets that saves have put into STATE_FILE ...
  durable     \* ... and that were in it when its directory was synced

memory == <<buckets, cur>>
loading == <<load, floor>>
history == <<overlapped, spoiled, kept, durable>>
disks == <<data, settled>>
saves == <<step, copy, fd>>
machine == <<process, signals, stops>>
vars == <<clock, memory, disks, saves, machine, loading, history>>

Entries(seq) == {seq[i] : i \in 1 .. Len(seq)}
Minutes(b, c) == (Entries(b) \cup {c}) \ {Nothing}

Hole == [by |-> "nobody", val |-> [k \in Kinds |-> Nothing]]
Blank == [buckets |-> Hole, cur |-> Hole, synced |-> FALSE]

NoCopy == [k \in Kinds |-> <<>>]

NoFile == [Blank EXCEPT !.synced = TRUE]

Exists(f) == data[f] # NoFile
Whole(f) ==
  data[f].buckets.by # "nobody" /\ data[f].buckets.by = data[f].cur.by

\* What json.load finds in a file for a kind.
InFile(f, k) == Minutes(data[f].buckets.val[k], data[f].cur.val[k])

\* What STATE_FILE names, for processes and on disk.
StateFiles == IF settled THEN {"state"} ELSE {"state", "old"}

----------------------------------------------------------------------------
(* add_to_bucket                                                            *)

\* Mutant of Rotate: a deque without maxlen.
RotateUnbounded(k) == Append(buckets[k], cur[k])

\* buckets[kind].append(b), on a deque(maxlen=BUCKETS)
Rotate(k) ==
  IF Len(buckets[k]) < BUCKETS
    THEN Append(buckets[k], cur[k])
    ELSE Append(Tail(buckets[k]), cur[k])

LockFree == \A s \in Savers : step[s] # "copy"

\* The workers are started when load_state has returned.
Started == process = "running" /\ load \in {"done", "failed"}

\* The ping worker probes only when it does not save.
MaySample(k) ==
  /\ Started
  /\ LockFree
  /\ k = "ping" => step["worker"] = "idle"

\* A sample of the current minute changes counts only, so the action is the
\* sample that begins a bucket.
Sample(k) ==
  /\ MaySample(k)
  /\ cur[k] # clock
  /\ cur' = [cur EXCEPT ![k] = clock]
  /\ buckets' = IF cur[k] # Nothing THEN [buckets EXCEPT ![k] = Rotate(k)] ELSE buckets
  /\ UNCHANGED <<clock, disks, saves, machine, loading, history>>

Tick ==
  /\ clock < MaxMinutes
  /\ clock' = clock + 1
  /\ UNCHANGED <<memory, disks, saves, machine, loading, history>>

----------------------------------------------------------------------------
(* save_state                                                               *)

\* The handler of the first signal runs on only when that of the second has
\* returned.
Runs(s) ==
  /\ process = "running"
  /\ s = "worker" => Started
  /\ s = "first" => step["second"] = "idle"

Saving(s) == step[s] \notin {"idle", "lock", "done"}

\* save_state returns: the worker goes on probing, a handler to its `raise'.
Returned(s) ==
  /\ step' = [step EXCEPT ![s] = IF s = "worker" THEN "idle" ELSE "done"]
  /\ copy' = [copy EXCEPT ![s] = NoCopy]

\* with lock: the saver that enters is in step "copy" until it leaves.  The
\* worker saves when 15 s have passed, and all through the quiet hours; a
\* handler waits for the lock in step "lock".
TakeLock(s) ==
  /\ Runs(s)
  /\ step[s] = IF s = "worker" THEN "idle" ELSE "lock"
  /\ LockFree
  /\ step' = [step EXCEPT ![s] = "copy"]
  /\ overlapped' = (overlapped \/ \E x \in Savers \ {s} : Saving(x))
  /\ UNCHANGED <<clock, memory, disks, copy, fd, machine, loading, spoiled, kept, durable>>

CopyState(s) ==
  /\ Runs(s)
  /\ step[s] = "copy"
  /\ copy' = [copy EXCEPT ![s] = buckets]
  /\ step' = [step EXCEPT ![s] = "open"]
  /\ UNCHANGED <<clock, memory, disks, fd, machine, loading, history>>

\* Mutant of OpenTmp: STATE_FILE itself is opened.
OpenStateFile(s) ==
  /\ Runs(s)
  /\ step[s] = "open"
  /\ data' = [data EXCEPT !["state"] = Blank, !["tmp"] = Blank]
  /\ fd' = [fd EXCEPT ![s] = "state"]
  /\ step' = [step EXCEPT ![s] = "buckets"]
  /\ UNCHANGED <<clock, memory, settled, copy, machine, loading, history>>

\* open(tmp, "w") creates a file, or truncates the one another save is writing.
OpenTmp(s) ==
  /\ Runs(s)
  /\ step[s] = "open"
  /\ data' = [data EXCEPT !["tmp"] = Blank]
  /\ fd' = [fd EXCEPT ![s] = "tmp"]
  /\ step' = [step EXCEPT ![s] = "buckets"]
  /\ UNCHANGED <<clock, memory, settled, copy, machine, loading, history>>

Put(s, piece, text) ==
  data' = IF fd[s] = "gone" THEN data
          ELSE [data EXCEPT ![fd[s]][piece] = text, ![fd[s]].synced = FALSE]

\* json.dump writes the lists that were copied under the lock ...
WriteBuckets(s) ==
  /\ Runs(s)
  /\ step[s] = "buckets"
  /\ Put(s, "buckets", [by |-> s, val |-> copy[s]])
  /\ step' = [step EXCEPT ![s] = "cur"]
  /\ UNCHANGED <<clock, memory, settled, copy, fd, machine, loading, history>>

\* ... and then cur itself, without the lock: a bucket that has become full
\* since the copy is in neither piece.
WriteCur(s) ==
  /\ Runs(s)
  /\ step[s] = "cur"
  /\ Put(s, "cur", [by |-> s, val |-> cur])
  /\ step' = [step EXCEPT ![s] = "sync"]
  /\ UNCHANGED <<clock, memory, settled, copy, fd, machine, loading, history>>

SyncTmp(s) ==
  /\ Runs(s)
  /\ step[s] = "sync"
  /\ data' = IF fd[s] = "gone" THEN data ELSE [data EXCEPT ![fd[s]].synced = TRUE]
  /\ fd' = [fd EXCEPT ![s] = "none"]
  /\ step' = [step EXCEPT ![s] = "replace"]
  /\ UNCHANGED <<clock, memory, settled, copy, machine, loading, history>>

\* os.replace; it raises when another save has moved the temporary file away.
\* What was open stays open under its new name.  The name on disk may have
\* followed an earlier os.replace by now, although nothing was synced.
ReplaceFile(s) ==
  /\ Runs(s)
  /\ step[s] = "replace"
  /\ Exists("tmp")
  /\ \E followed \in {settled, TRUE} :
       LET name == [tmp |-> "state", state |-> IF followed THEN "old" ELSE "gone",
                    old |-> IF followed THEN "gone" ELSE "old",
                    gone |-> "gone", none |-> "none"]
       IN  /\ data' = [tmp |-> NoFile, state |-> data["tmp"],
                       old |-> IF followed THEN data["state"] ELSE data["old"]]
           /\ fd' = [x \in Savers |-> name[fd[x]]]
  /\ settled' = FALSE
  /\ step' = [step EXCEPT ![s] = "dirsync"]
  /\ kept' = [k \in Kinds |-> kept[k] \cup Entries(copy[s][k])]
  /\ spoiled' = (spoiled \/ load # "done")
  /\ UNCHANGED <<clock, memory, copy, machine, loading, overlapped, durable>>

\* Mutant of SyncDirectory: the directory is not synced.
SkipDirectory(s) ==
  /\ Runs(s)
  /\ step[s] = "dirsync"
  /\ Returned(s)
  /\ durable' = kept
  /\ UNCHANGED <<clock, memory, disks, fd, machine, loading, overlapped, spoiled, kept>>

\* os.fsync of the directory STATE_FILE is in.
SyncDirectory(s) ==
  /\ Runs(s)
  /\ step[s] = "dirsync"
  /\ settled' = TRUE
  /\ data' = [data EXCEPT !["old"] = NoFile]
  /\ fd' = [x \in Savers |-> IF fd[x] = "old" THEN "gone" ELSE fd[x]]
  /\ Returned(s)
  /\ durable' = kept
  /\ UNCHANGED <<clock, memory, machine, loading, overlapped, spoiled, kept>>

\* It fails, or, with PING_STATE_FILE set, it was another directory that was
\* synced (it is always _APP_DIR): the save returns all the same.
LeaveUnsynced(s) ==
  /\ Runs(s)
  /\ step[s] = "dirsync"
  /\ Returned(s)
  /\ UNCHANGED <<clock, memory, disks, fd, machine, loading, history>>

\* Anything before that raises, and save_state returns.
SaveFails(s) ==
  /\ Runs(s)
  /\ step[s] \in {"open", "buckets", "cur", "sync", "replace"}
  /\ Returned(s)
  /\ fd' = [fd EXCEPT ![s] = "none"]
  /\ UNCHANGED <<clock, memory, disks, machine, loading, history>>

----------------------------------------------------------------------------
(* worker and _graceful                                                     *)

\* SIGTERM, SIGINT or SIGHUP: _graceful begins in the main thread, whatever
\* that is doing; load_state, if it was that, is never resumed.
Signal ==
  /\ process = "running"
  /\ signals < MaxSignals
  /\ signals' = signals + 1
  /\ LET s == IF signals = 0 THEN "first" ELSE "second"
     IN  step' = [step EXCEPT ![s] = "lock"]
  /\ UNCHANGED <<clock, memory, disks, copy, fd, process, stops, loading, history>>

\* raise SystemExit in the handler of the second signal: it passes through
\* that of the first, whose `with open' writes what is still buffered: a text
\* that is cut short.
Unwind ==
  /\ process = "running"
  /\ step["second"] = "done"
  /\ step' = [step EXCEPT !["second"] = "idle", !["first"] = "done"]
  /\ fd' = [fd EXCEPT !["first"] = "none"]
  /\ copy' = [copy EXCEPT !["first"] = NoCopy]
  /\ IF step["first"] \in {"buckets", "cur"}
       THEN Put("first", step["first"], Hole)
       ELSE UNCHANGED data
  /\ UNCHANGED <<clock, memory, settled, machine, loading, history>>

----------------------------------------------------------------------------
(* How the process stops and starts                                         *)

\* Threads vanish with the process, wherever they are.
Vanish ==
  /\ process' = "down"
  /\ step' = [s \in Savers |-> "idle"]
  /\ fd' = [s \in Savers |-> "none"]
  /\ copy' = [s \in Savers |-> NoCopy]
  /\ buckets' = [k \in Kinds |-> <<>>]
  /\ cur' = [k \in Kinds |-> Nothing]
  /\ load' = "unread"
  /\ floor' = Nothing

\* raise SystemExit in the handler of the first signal.
Exit ==
  /\ process = "running"
  /\ step["first"] = "done"
  /\ step["second"] = "idle"
  /\ Vanish
  /\ UNCHANGED <<clock, disks, signals, stops, history>>

Crash ==
  /\ process = "running"
  /\ stops < MaxStops
  /\ stops' = stops + 1
  /\ Vanish
  /\ UNCHANGED <<clock, disks, signals, history>>

\* The machine stops (wsl --shutdown, a reboot): what was not synced may be
\* lost, and STATE_FILE may be what it was before the last os.replace.
PowerFailure ==
  /\ stops < MaxStops
  /\ stops' = stops + 1
  /\ Vanish
  /\ \E found \in StateFiles, lost \in BOOLEAN :
       LET left(f) == IF lost /\ ~data[f].synced THEN Blank ELSE data[f]
       IN  data' = [tmp |-> left("tmp"), state |-> left(found), old |-> NoFile]
  /\ settled' = TRUE
  /\ kept' = durable
  /\ UNCHANGED <<clock, signals, overlapped, spoiled, durable>>

\* The handlers are installed, then load_state runs; what json.load rejects
\* is taken for no state.
Restart ==
  /\ process = "down"
  /\ stops < MaxStops
  /\ process' = "running"
  /\ stops' = stops + 1
  /\ signals' = 0
  /\ load' = IF Whole("state") THEN "unread" ELSE "done"
  /\ UNCHANGED <<clock, memory, disks, saves, floor, history>>

----------------------------------------------------------------------------
(* load_state                                                               *)

Loads == process = "running" /\ signals = 0

\* The kinds are filled in the order of the code.
KindsFrom(k) == IF k \in Kinds THEN k ELSE "done"
FirstKind == IF "ping" \in Kinds THEN "ping" ELSE KindsFrom("wifi")
NextKind(k) == IF k = "ping" THEN KindsFrom("wifi") ELSE "done"

\* json.load(f) and the time from which on buckets are taken
ReadFile ==
  /\ Loads
  /\ load = "unread"
  /\ load' = FirstKind
  /\ floor' = clock
  /\ UNCHANGED <<clock, memory, disks, saves, machine, history>>

\* An OSError, which is swallowed: the process goes on with empty buckets.
ReadFails ==
  /\ Loads
  /\ load = "unread"
  /\ load' = "failed"
  /\ UNCHANGED <<clock, memory, disks, saves, machine, floor, history>>

\* b.get("id") >= floor
Recent(list, from) ==
  LET recent == {i \in DOMAIN list : list[i] >= from - BUCKETS}
      nth(n) == CHOOSE i \in recent : Cardinality({j \in recent : j <= i}) = n
  IN  [n \in 1 .. Cardinality(recent) |-> list[nth(n)]]

ToLoad(k) == Recent(data["state"].buckets.val[k], floor)

\* buckets[k].append(b)
LoadBucket(k) ==
  /\ Loads
  /\ load = k
  /\ Len(buckets[k]) < Len(ToLoad(k))
  /\ buckets' = [buckets EXCEPT ![k] = Append(buckets[k], ToLoad(k)[Len(buckets[k]) + 1])]
  /\ UNCHANGED <<clock, cur, disks, saves, machine, loading, history>>

\* cur[k] = d["cur"][k]
LoadCur(k) ==
  /\ Loads
  /\ load = k
  /\ Len(buckets[k]) = Len(ToLoad(k))
  /\ cur' = [cur EXCEPT ![k] = data["state"].cur.val[k]]
  /\ load' = NextKind(k)
  /\ floor' = IF load' = "done" THEN Nothing ELSE floor
  /\ UNCHANGED <<clock, buckets, disks, saves, machine, history>>

----------------------------------------------------------------------------

Init ==
  /\ clock = 1
  /\ buckets = [k \in Kinds |-> <<>>]
  /\ cur = [k \in Kinds |-> Nothing]
  /\ step = [s \in Savers |-> "idle"]
  /\ copy = [s \in Savers |-> NoCopy]
  /\ fd = [s \in Savers |-> "none"]
  /\ data = [f \in Files |-> NoFile]
  /\ settled = TRUE
  /\ process = "running"
  /\ signals = 0
  /\ stops = 0
  /\ load = "done"
  /\ floor = Nothing
  /\ overlapped = FALSE
  /\ spoiled = FALSE
  /\ kept = [k \in Kinds |-> {}]
  /\ durable = kept

SaveState(s) ==
  \/ TakeLock(s) \/ CopyState(s) \/ OpenTmp(s) \/ WriteBuckets(s) \/ WriteCur(s)
  \/ SyncTmp(s) \/ ReplaceFile(s) \/ SyncDirectory(s) \/ LeaveUnsynced(s)
  \/ SaveFails(s)

Graceful == SaveState("first") \/ SaveState("second") \/ Unwind \/ Exit

LoadState == ReadFile \/ ReadFails \/ \E k \in Kinds : LoadBucket(k) \/ LoadCur(k)

Next ==
  \/ Tick \/ \E k \in Kinds : Sample(k)
  \/ SaveState("worker") \/ Signal \/ Graceful
  \/ Crash \/ PowerFailure \/ Restart \/ LoadState

Spec == Init /\ [][Next]_vars

\* Threads run, and a thread that waits for the lock gets it although others
\* take it again and again (they sleep between).
Fairness ==
  /\ WF_vars(SaveState("worker")) /\ WF_vars(Graceful)
  /\ \A s \in Savers : SF_vars(TakeLock(s))

FairSpec == Spec /\ Fairness

----------------------------------------------------------------------------
(* Properties                                                               *)

Lists == [Kinds -> Seq(1 .. MaxMinutes)]
Currents == [Kinds -> 0 .. MaxMinutes]

TypeOK ==
  /\ clock \in 1 .. MaxMinutes
  /\ buckets \in Lists /\ \A k \in Kinds : Len(buckets[k]) <= BUCKETS
  /\ cur \in Currents
  /\ step \in [Savers -> {"idle", "lock", "copy", "open", "buckets", "cur", "sync",
                          "replace", "dirsync", "done"}]
  /\ copy \in [Savers -> Lists]
  /\ fd \in [Savers -> Files \cup {"gone", "none"}]
  /\ DOMAIN data = Files /\ \A f \in Files : data[f].synced \in BOOLEAN
  /\ settled \in BOOLEAN
  /\ process \in {"running", "down"}
  /\ signals \in 0 .. MaxSignals
  /\ stops \in 0 .. MaxStops
  /\ load \in {"unread", "done", "failed"} \cup Kinds
  /\ floor \in 0 .. MaxMinutes
  /\ overlapped \in BOOLEAN /\ spoiled \in BOOLEAN
  /\ {kept, durable} \subseteq [Kinds -> SUBSET (1 .. MaxMinutes)]

\* STATE_FILE is whole at every moment, through crashes, failed writes and
\* power failures, unless two saves have been in progress at once.
TornOnlyByOverlap ==
  \A f \in StateFiles : Exists(f) /\ ~Whole(f) => overlapped

\* A bucket is in a file, is too old, or has been pushed out of the deque.
HasKept(f, k, m) ==
  \/ m < clock - BUCKETS
  \/ Whole(f) /\ m \in InFile(f, k)
  \/ Whole(f) /\ Cardinality({n \in InFile(f, k) : n > m}) >= BUCKETS

\* README.md:29, "Persisted to `state.json` ... (`fsync` + directory
\* `fsync`)": a full bucket that a save has put into the file stays in it,
\* through crashes, failed saves and restarts, until it is too old; if the
\* directory has been synced since, it would be there after a power failure
\* too.  That needs saves that do not overlap, and that no process replaces
\* the file before it has loaded all of it, which a signal during load_state
\* and a read error make it do.
SavedIsKept ==
  ~overlapped /\ ~spoiled =>
    \A k \in Kinds :
      /\ \A m \in kept[k] : HasKept("state", k, m)
      /\ \A m \in durable[k], f \in StateFiles : HasKept(f, k, m)

\* A signal ends the process ("Persisted ... on SIGTERM/SIGINT/SIGHUP").
SignalEndsProcess == signals > 0 /\ process = "running" ~> process = "down"
=============================================================================
