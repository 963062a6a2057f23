----------------------------- MODULE HistoryLog -----------------------------
(***************************************************************************)
(* What the batch history of srx-dashboard/dashboard.py promises: a list   *)
(* in memory, bounded to the latest entries, and a saved copy of it that   *)
(* is always a whole list.  A save makes the copy equal to the list; a     *)
(* restart begins from the copy; a power failure may take the copy back to *)
(* an earlier whole one, never to a part of one.                           *)
(***************************************************************************)
EXTENDS Naturals, Sequences

CONSTANTS Batches,    \* what an entry may be
          HistoryMax  \* entries kept

VARIABLES
  memory,  \* the list
  saved,   \* the saved copy
  stable   \* an earlier saved copy, which a power failure may bring back

Latest(list) ==
  IF Len(list) > HistoryMax
    THEN SubSeq(list, Len(list) - HistoryMax + 1, Len(list))
    ELSE list

Init == memory = <<>> /\ saved = <<>> /\ stable = <<>>

Record ==
  /\ \E entry \in Batches : memory' = Latest(Append(memory, entry))
  /\ UNCHANGED <<saved, stable>>

Save ==
  /\ saved' = memory
  /\ UNCHANGED <<memory, stable>>

\* The saved copy has reached the disk.
Settle ==
  /\ stable' = saved
  /\ UNCHANGED <<memory, saved>>

\* The process stops and starts again from the saved copy, or from nothing.
Restart ==
  /\ memory' \in {saved, <<>>}
  /\ UNCHANGED <<saved, stable>>

PowerFailure ==
  /\ saved' \in {saved, stable}
  /\ stable' = saved'
  /\ memory' = memory

Next == Record \/ Save \/ Settle \/ Restart \/ PowerFailure

LogSpec == Init /\ [][Next]_<<memory, saved, stable>>
=============================================================================
