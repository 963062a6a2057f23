---------------------------- MODULE BatchHistory ----------------------------
(***************************************************************************)
(* The batch history of srx-dashboard/dashboard.py: HISTORY in memory, its *)
(* file, and record_batch / _save_history / _load_history, with failing    *)
(* writes, crashes of the dashboard and power failures between any two     *)
(* steps.                                                                  *)
(*                                                                         *)
(* A batch is its number.  record_batch runs under _hist_lock, inside      *)
(* finish, which holds run.lock: one save at a time.  A file is the list   *)
(* it holds, Partial if it does not hold a whole one, or NoFile.           *)
(***************************************************************************)
EXTENDS Integers, Sequences, FiniteSets

CONSTANTS HistoryMax,  \* HISTORY_MAX
          NoFile,      \* there is no such file
          Partial,     \* a file json.load rejects
          MaxBatches,  \* bound: `run all's that finish
          MaxCrashes   \* bound: crashes and power failures

ASSUME HistoryAssumption ==
  /\ HistoryMax \in Nat \ {0}
  /\ MaxBatches \in Nat
  /\ MaxCrashes \in Nat
  /\ NoFile # Partial
  /\ NoFile \notin Seq(Nat)
  /\ Partial \notin Seq(Nat)

VARIABLES
  HISTORY,   \* the list in memory
  step,      \* "idle", "open", "write", "sync", "replace" or "down"
  tmp,       \* HISTORY_FILE.tmp
  tmpSynced, \* its contents are on disk
  file,      \* HISTORY_FILE as processes see it
  synced,    \* the contents of HISTORY_FILE are on disk
  disk,      \* HISTORY_FILE as a power failure would leave it
  batches,   \* batches finished so far
  crashes,   \* crashes so far
  acked      \* history: batches whose end event reported no history_error,
             \* since the last power failure or failed load

vars == <<HISTORY, step, tmp, tmpSynced, file, synced, disk, batches, crashes, acked>>

Entries(list) == {list[i] : i \in 1 .. Len(list)}

----------------------------------------------------------------------------
(* record_batch and _save_history                                           *)

\* Mutant of Trim: HISTORY.pop() drops the newest.
TrimNewest(list) ==
  IF Len(list) > HistoryMax THEN SubSeq(list, 1, HistoryMax) ELSE list

\* Mutant of Trim: off by one.
TrimLate(list) ==
  IF Len(list) > HistoryMax + 1
    THEN SubSeq(list, Len(list) - HistoryMax, Len(list))
    ELSE list

\* while len(HISTORY) > HISTORY_MAX: HISTORY.pop(0)
Trim(list) ==
  IF Len(list) > HistoryMax
    THEN SubSeq(list, Len(list) - HistoryMax + 1, Len(list))
    ELSE list

RecordBatch ==
  /\ step = "idle"
  /\ batches < MaxBatches
  /\ batches' = batches + 1
  /\ HISTORY' = Trim(Append(HISTORY, batches + 1))
  /\ step' = "open"
  /\ UNCHANGED <<tmp, tmpSynced, file, synced, disk, crashes, acked>>

\* Mutant of OpenTmp: the history file is opened and written in place.
OpenInPlace ==
  /\ step = "open"
  /\ file' = Partial
  /\ synced' = FALSE
  /\ step' = "write"
  /\ UNCHANGED <<HISTORY, tmp, tmpSynced, disk, batches, crashes, acked>>

\* open(tmp, "w") truncates.
OpenTmp ==
  /\ step = "open"
  /\ tmp' = Partial
  /\ tmpSynced' = FALSE
  /\ step' = "write"
  /\ UNCHANGED <<HISTORY, file, synced, disk, batches, crashes, acked>>

\* json.dump and flush
WriteTmp ==
  /\ step = "write"
  /\ tmp' = HISTORY
  /\ step' = "sync"
  /\ UNCHANGED <<HISTORY, tmpSynced, file, synced, disk, batches, crashes, acked>>

\* Mutant of SyncTmp: no fsync.
SkipSync ==
  /\ step = "sync"
  /\ step' = "replace"
  /\ UNCHANGED <<HISTORY, tmp, tmpSynced, file, synced, disk, batches, crashes, acked>>

\* os.fsync
SyncTmp ==
  /\ step = "sync"
  /\ tmpSynced' = TRUE
  /\ step' = "replace"
  /\ UNCHANGED <<HISTORY, tmp, file, synced, disk, batches, crashes, acked>>

\* os.replace; the end event carries the batch and no history_error.
ReplaceFile ==
  /\ step = "replace"
  /\ file' = tmp
  /\ synced' = tmpSynced
  /\ tmp' = NoFile
  /\ tmpSynced' = FALSE
  /\ acked' = acked \cup {batches}
  /\ step' = "idle"
  /\ UNCHANGED <<HISTORY, disk, batches, crashes>>

\* Any of the four raises (no directory, disk full): finish reports
\* history_error, and the batch stays in memory.
SaveFails ==
  /\ step \in {"open", "write", "sync", "replace"}
  /\ step' = "idle"
  /\ UNCHANGED <<HISTORY, tmp, tmpSynced, file, synced, disk, batches, crashes, acked>>

----------------------------------------------------------------------------
(* The machine                                                              *)

\* What the disk may hold of HISTORY_FILE once its directory entry is there.
OnDisk == IF synced THEN {file} ELSE {file, Partial}

\* The file system writes the directory entry back.
WriteBack ==
  /\ disk' \in OnDisk
  /\ disk # file
  /\ UNCHANGED <<HISTORY, step, tmp, tmpSynced, file, synced, batches, crashes, acked>>

Crash ==
  /\ crashes < MaxCrashes
  /\ step # "down"
  /\ crashes' = crashes + 1
  /\ step' = "down"
  /\ UNCHANGED <<HISTORY, tmp, tmpSynced, file, synced, disk, batches, acked>>

PowerFailure ==
  /\ crashes < MaxCrashes
  /\ crashes' = crashes + 1
  /\ step' = "down"
  /\ \E found \in OnDisk \cup {disk} : file' = found /\ disk' = found
  /\ synced' = TRUE
  /\ tmp' \in {NoFile, Partial}
  /\ tmpSynced' = FALSE
  /\ acked' = {}
  /\ UNCHANGED <<HISTORY, batches>>

----------------------------------------------------------------------------
(* _load_history                                                            *)

Load(f) == IF f \in {NoFile, Partial} THEN <<>> ELSE Trim(f)

Restart ==
  /\ step = "down"
  /\ HISTORY' = Load(file)
  /\ step' = "idle"
  /\ UNCHANGED <<tmp, tmpSynced, file, synced, disk, batches, crashes, acked>>

\* open or read raises OSError, which _load_history takes for "no history".
RestartUnreadable ==
  /\ step = "down"
  /\ HISTORY' = <<>>
  /\ acked' = {}
  /\ step' = "idle"
  /\ UNCHANGED <<tmp, tmpSynced, file, synced, disk, batches, crashes>>

----------------------------------------------------------------------------

Init ==
  /\ HISTORY = <<>>
  /\ step = "idle"
  /\ tmp = NoFile
  /\ tmpSynced = FALSE
  /\ file = NoFile
  /\ synced = TRUE
  /\ disk = NoFile
  /\ batches = 0
  /\ crashes = 0
  /\ acked = {}

Next ==
  \/ RecordBatch \/ OpenTmp \/ WriteTmp \/ SyncTmp \/ ReplaceFile \/ SaveFails
  \/ WriteBack \/ Crash \/ PowerFailure \/ Restart \/ RestartUnreadable

Spec == Init /\ [][Next]_vars

----------------------------------------------------------------------------
(* Properties                                                               *)

Files == Seq(1 .. MaxBatches) \cup {NoFile, Partial}

TypeOK ==
  /\ HISTORY \in Seq(1 .. MaxBatches) /\ Len(HISTORY) <= HistoryMax
  /\ step \in {"idle", "open", "write", "sync", "replace", "down"}
  /\ tmp \in Files /\ file \in Files /\ disk \in Files
  /\ tmpSynced \in BOOLEAN /\ synced \in BOOLEAN
  /\ batches \in 0 .. MaxBatches
  /\ crashes \in 0 .. MaxCrashes
  /\ acked \subseteq 1 .. MaxBatches

\* srx-dashboard/README.md:13, "Persisted to `runall-history.json` (last 30
\* batches)": a batch that was reported as recorded since the last power failure
\* or failed load is in the file until HISTORY_MAX newer ones are, whatever
\* saves failed since then and however often the dashboard crashed.  What a
\* power failure leaves is the log's to say, and a failed load takes everything.
RecordedIsKept ==
  \A n \in acked :
    /\ file \notin {NoFile, Partial}
    /\ \/ n \in Entries(file)
       \/ Cardinality({m \in Entries(file) : m > n}) >= HistoryMax

\* The history implements the log: a step of _save_history before os.replace
\* changes nothing that anyone will ever load.
AsList(f) == IF f \in {NoFile, Partial} THEN <<>> ELSE f

Log == INSTANCE HistoryLog WITH Batches <- 1 .. MaxBatches, memory <- HISTORY,
                                saved <- AsList(file), stable <- AsList(disk)

ImplementsLog == Log!LogSpec
=============================================================================
