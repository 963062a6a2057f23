------------------------- MODULE BatchHistoryProofs -------------------------
(* Theorems about BatchHistory, for every value of its constants.            *)
EXTENDS BatchHistory, FiniteSetTheorems, TLAPS

----------------------------------------------------------------------------
(* Lists                                                                    *)

\* Pops at most the first entry of a list that is one too long.
LEMMA TrimFacts ==
  ASSUME NEW S, NEW l \in Seq(S), Len(l) <= HistoryMax + 1
  PROVE  /\ Trim(l) \in Seq(S)
         /\ Len(l) <= HistoryMax => Trim(l) = l
         /\ Len(l) = HistoryMax + 1 =>
              /\ Len(Trim(l)) = HistoryMax
              /\ \A i \in 1 .. HistoryMax : Trim(l)[i] = l[i + 1]
<1>1. HistoryMax \in Nat \ {0} /\ Len(l) \in Nat
  BY HistoryAssumption
<1>2. CASE Len(l) <= HistoryMax
  BY <1>1, <1>2 DEF Trim
<1>3. CASE Len(l) = HistoryMax + 1
  <2>1. Trim(l) = SubSeq(l, 2, HistoryMax + 1)
    BY <1>1, <1>3 DEF Trim
  <2>2. /\ SubSeq(l, 2, HistoryMax + 1) \in Seq(S)
        /\ Len(SubSeq(l, 2, HistoryMax + 1)) = HistoryMax
        /\ \A i \in 1 .. HistoryMax : SubSeq(l, 2, HistoryMax + 1)[i] = l[i + 1]
    BY <1>1, <1>3
  <2> QED BY <1>1, <1>3, <2>1, <2>2
<1> QED BY <1>1, <1>2, <1>3

\* What a list holds is of its type.
LEMMA EntryType ==
  ASSUME NEW S, NEW l \in Seq(S)
  PROVE  \A i \in 1 .. Len(l) : l[i] \in S
OBVIOUS

\* A file json.load accepts is neither of the others.
LEMMA ListIsWhole ==
  ASSUME NEW l \in Seq(1 .. MaxBatches)
  PROVE  l \notin {NoFile, Partial}
<1>1. l \in Seq(Nat)
  BY HistoryAssumption
<1> QED BY <1>1, HistoryAssumption

\* Entries are numbered in the order of the batches.
Ordered(l) == \A i, j \in 1 .. Len(l) : i < j => l[i] < l[j]

\* A batch is in a list, or HISTORY_MAX newer ones are.
Kept(l, n) ==
  \/ n \in Entries(l)
  \/ Len(l) = HistoryMax /\ \A i \in 1 .. Len(l) : n < l[i]

\* What Kept says of newer batches is what RecordedIsKept counts.
LEMMA KeptCounts ==
  ASSUME NEW l \in Seq(Nat), Ordered(l), NEW n \in Nat, Kept(l, n)
  PROVE  \/ n \in Entries(l)
         \/ Cardinality({m \in Entries(l) : m > n}) >= HistoryMax
<1> SUFFICES ASSUME Len(l) = HistoryMax, \A i \in 1 .. Len(l) : n < l[i]
             PROVE  Cardinality({m \in Entries(l) : m > n}) >= HistoryMax
  BY DEF Kept
<1> DEFINE newer == {m \in Entries(l) : m > n}
           f == [i \in 1 .. HistoryMax |-> l[i]]
<1>1. HistoryMax \in Nat /\ \A i \in 1 .. HistoryMax : l[i] \in Nat
  BY HistoryAssumption
<1>2. newer = {l[i] : i \in 1 .. HistoryMax}
  BY <1>1 DEF Entries
<1>3. \A i, j \in 1 .. HistoryMax : l[i] = l[j] => i = j
  BY <1>1 DEF Ordered
<1>4. f \in Bijection(1 .. HistoryMax, newer)
  BY <1>2, <1>3 DEF Bijection, Injection, Surjection, IsInjective
<1>5. ExistsBijection(1 .. HistoryMax, newer)
  BY <1>4 DEF ExistsBijection
<1>6. Cardinality(newer) = HistoryMax
  BY <1>1, <1>5, FS_CountingElements
<1> QED BY <1>1, <1>6

\* A list the program may hold when there have been b batches.
Good(l, b) ==
  /\ l \in Seq(1 .. MaxBatches) /\ Len(l) <= HistoryMax
  /\ Ordered(l)
  /\ \A i \in 1 .. Len(l) : l[i] <= b

\* What recording a batch does to the list.
LEMMA RecordFacts ==
  ASSUME NEW b \in Nat, b < MaxBatches, NEW l, Good(l, b)
  PROVE  LET t == Trim(Append(l, b + 1))
         IN  /\ Good(t, b + 1)
             /\ t # <<>> /\ t[Len(t)] = b + 1
             /\ \A n \in 1 .. b : Kept(l, n) => Kept(t, n)
<1> DEFINE a == Append(l, b + 1)
           t == Trim(a)
<1>1. /\ l \in Seq(1 .. MaxBatches) /\ Len(l) \in Nat /\ Len(l) <= HistoryMax
      /\ HistoryMax \in Nat \ {0} /\ MaxBatches \in Nat /\ b + 1 \in 1 .. MaxBatches
  BY HistoryAssumption DEF Good
<1>2. /\ a \in Seq(1 .. MaxBatches) /\ Len(a) = Len(l) + 1
      /\ a[Len(l) + 1] = b + 1 /\ \A i \in 1 .. Len(l) : a[i] = l[i]
  BY <1>1
<1>3. \A i \in 1 .. Len(l) : l[i] \in Nat /\ l[i] <= b
  BY <1>1 DEF Good
<1>4. \A i, j \in 1 .. Len(l) : i < j => l[i] < l[j]
  BY DEF Good, Ordered
<1> HIDE DEF a
<1>5. CASE Len(l) < HistoryMax
  <2>1. t = a
    BY <1>1, <1>2, <1>5, TrimFacts
  <2>2. Ordered(a)
    <3> SUFFICES ASSUME NEW i \in 1 .. Len(a), NEW j \in 1 .. Len(a), i < j
                 PROVE  a[i] < a[j]
      BY DEF Ordered
    <3>1. i \in 1 .. Len(l)
      BY <1>1, <1>2
    <3>2. CASE j \in 1 .. Len(l)
      BY <1>2, <1>4, <3>1, <3>2
    <3>3. CASE j = Len(l) + 1
      BY <1>2, <1>3, <3>1, <3>3
    <3> QED BY <1>1, <1>2, <3>2, <3>3
  <2>3. \A i \in 1 .. Len(a) : a[i] <= b + 1
    BY <1>1, <1>2, <1>3
  <2>4. ASSUME NEW n \in 1 .. b, Kept(l, n) PROVE Kept(a, n)
    <3>1. PICK i \in 1 .. Len(l) : n = l[i]
      BY <1>5, <2>4 DEF Kept, Entries
    <3>2. i \in 1 .. Len(a) /\ n = a[i]
      BY <1>1, <1>2, <3>1
    <3> QED BY <3>2 DEF Kept, Entries
  <2>5. a # <<>> /\ a[Len(a)] = b + 1 /\ Len(a) <= HistoryMax
    BY <1>1, <1>2, <1>5
  <2>6. Good(a, b + 1)
    BY <1>2, <2>2, <2>3, <2>5 DEF Good
  <2> HIDE DEF t
  <2>7. Good(t, b + 1) /\ t # <<>> /\ t[Len(t)] = b + 1
        /\ \A n \in 1 .. b : Kept(l, n) => Kept(t, n)
    BY <2>1, <2>4, <2>5, <2>6
  <2> QED BY <2>7 DEF t, a
<1>6. CASE Len(l) = HistoryMax
  <2>1. /\ t \in Seq(1 .. MaxBatches) /\ Len(t) = HistoryMax
        /\ \A i \in 1 .. HistoryMax : t[i] = a[i + 1]
    BY <1>1, <1>2, <1>6, TrimFacts
  <2> HIDE DEF t
  <2>2. t[HistoryMax] = b + 1 /\ \A i \in 1 .. HistoryMax - 1 : t[i] = l[i + 1]
    BY <1>1, <1>2, <1>6, <2>1
  <2>3. Ordered(t)
    <3> SUFFICES ASSUME NEW i \in 1 .. HistoryMax, NEW j \in 1 .. HistoryMax, i < j
                 PROVE  t[i] < t[j]
      BY <2>1 DEF Ordered
    <3>1. i \in 1 .. HistoryMax - 1 /\ t[i] = l[i + 1] /\ i + 1 \in 1 .. Len(l)
      BY <1>1, <1>6, <2>2
    <3>2. CASE j = HistoryMax
      BY <1>3, <2>2, <3>1, <3>2
    <3>3. CASE j \in 1 .. HistoryMax - 1
      <4>1. t[j] = l[j + 1] /\ j + 1 \in 1 .. Len(l) /\ i + 1 < j + 1
        BY <1>1, <1>6, <2>2, <3>3
      <4> QED BY <1>4, <3>1, <4>1
    <3> QED BY <1>1, <3>2, <3>3
  <2>4. ASSUME NEW i \in 1 .. HistoryMax PROVE t[i] <= b + 1
    <3>1. CASE i = HistoryMax
      BY <2>2, <3>1
    <3>2. CASE i \in 1 .. HistoryMax - 1
      <4>1. t[i] = l[i + 1] /\ i + 1 \in 1 .. Len(l)
        BY <1>1, <1>6, <2>2, <3>2
      <4> QED BY <1>3, <4>1
    <3> QED BY <1>1, <3>1, <3>2
  <2>5. ASSUME NEW n \in 1 .. b, Kept(l, n) PROVE Kept(t, n)
    <3>1. CASE \A i \in 1 .. Len(l) : n < l[i]
      <4>1. ASSUME NEW i \in 1 .. HistoryMax PROVE n < t[i]
        <5>1. CASE i = HistoryMax
          BY <2>2, <5>1
        <5>2. CASE i \in 1 .. HistoryMax - 1
          BY <1>1, <1>6, <2>2, <3>1, <5>2
        <5> QED BY <1>1, <5>1, <5>2
      <4> QED BY <2>1, <4>1 DEF Kept
    <3>2. ASSUME NEW k \in 1 .. Len(l), n = l[k] PROVE Kept(t, n)
      <4>1. CASE k = 1
        <5>1. ASSUME NEW i \in 1 .. HistoryMax PROVE n < t[i]
          <6>1. CASE i = HistoryMax
            BY <2>2, <6>1
          <6>2. CASE i \in 1 .. HistoryMax - 1
            <7>1. t[i] = l[i + 1] /\ i + 1 \in 1 .. Len(l) /\ 1 < i + 1
              BY <1>1, <1>6, <2>2, <6>2
            <7> QED BY <1>4, <3>2, <4>1, <7>1
          <6> QED BY <1>1, <6>1, <6>2
        <5> QED BY <2>1, <5>1 DEF Kept
      <4>2. CASE k # 1
        <5>1. k - 1 \in 1 .. HistoryMax - 1 /\ t[k - 1] = l[k]
          BY <1>1, <1>6, <2>2, <4>2
        <5>2. k - 1 \in 1 .. Len(t)
          BY <1>1, <2>1, <5>1
        <5> QED BY <3>2, <5>1, <5>2 DEF Kept, Entries
      <4> QED BY <4>1, <4>2
    <3> QED BY <2>5, <3>1, <3>2 DEF Kept, Entries
  <2>6. t # <<>> /\ t[Len(t)] = b + 1
    BY <1>1, <2>1, <2>2
  <2>7. Good(t, b + 1)
    BY <1>1, <2>1, <2>3, <2>4 DEF Good
  <2>8. Good(t, b + 1) /\ t # <<>> /\ t[Len(t)] = b + 1
        /\ \A n \in 1 .. b : Kept(l, n) => Kept(t, n)
    BY <2>5, <2>6, <2>7
  <2> QED BY <2>8 DEF t, a
<1> QED BY <1>1, <1>5, <1>6

----------------------------------------------------------------------------
(* The inductive invariant                                                  *)

Saving == step \in {"open", "write", "sync", "replace"}

GoodFile(f) == f = NoFile \/ Good(f, batches)

\* What is renamed over the file is the whole list, and on disk.
SaveInv ==
  /\ synced
  /\ step = "replace" => tmpSynced
  /\ step \in {"sync", "replace"} => tmp = HISTORY
  /\ Saving => HISTORY # <<>> /\ HISTORY[Len(HISTORY)] = batches

ListInv == Good(HISTORY, batches) /\ GoodFile(file) /\ GoodFile(disk)

\* A batch that was recorded is kept by the file, and by the list that the next
\* save will write.
KeptInv ==
  /\ acked \subseteq 1 .. batches
  /\ \A n \in acked : file # NoFile /\ Kept(file, n)
  /\ step # "down" => \A n \in acked : Kept(HISTORY, n)

IInv == TypeOK /\ SaveInv /\ ListInv /\ KeptInv

\* A file that holds a good list is loaded as it is.
LEMMA LoadFacts ==
  ASSUME NEW f, GoodFile(f), batches \in Nat
  PROVE  /\ Good(Load(f), batches)
         /\ f # NoFile => Load(f) = f
         /\ Load(f) \in {AsList(f), <<>>}
         /\ f # Partial
<1>1. CASE f = NoFile
  <2>1. Load(f) = <<>> /\ AsList(f) = <<>>
    BY <1>1 DEF Load, AsList
  <2>2. Good(<<>>, batches)
    BY HistoryAssumption DEF Good, Ordered
  <2> QED BY <1>1, <2>1, <2>2, HistoryAssumption
<1>2. CASE f # NoFile
  <2>1. Good(f, batches)
    BY <1>2 DEF GoodFile
  <2>2. f \in Seq(1 .. MaxBatches) /\ Len(f) <= HistoryMax
    BY <2>1 DEF Good
  <2>3. f \notin {NoFile, Partial}
    BY <2>2, ListIsWhole
  <2>4. HistoryMax \in Nat /\ Len(f) \in Nat
    BY <2>2, HistoryAssumption
  <2>5. Trim(f) = f
    BY <2>2, <2>4, TrimFacts
  <2> QED BY <2>1, <2>3, <2>5 DEF Load, AsList
<1> QED BY <1>1, <1>2

LEMMA Initially == Init => IInv
<1> SUFFICES ASSUME Init PROVE IInv
  OBVIOUS
<1>1. Good(<<>>, 0)
  BY HistoryAssumption DEF Good, Ordered
<1>2. TypeOK
  <2>1. HISTORY \in Seq(1 .. MaxBatches) /\ Len(HISTORY) <= HistoryMax
    BY HistoryAssumption DEF Init
  <2>2. batches \in 0 .. MaxBatches /\ crashes \in 0 .. MaxCrashes
    BY HistoryAssumption DEF Init
  <2>3. tmp \in Files /\ file \in Files /\ disk \in Files
    BY DEF Init, Files
  <2> QED BY <2>1, <2>2, <2>3 DEF Init, TypeOK
<1>3. SaveInv /\ ListInv /\ KeptInv
  BY <1>1 DEF Init, SaveInv, ListInv, KeptInv, GoodFile, Saving
<1> QED BY <1>2, <1>3 DEF IInv

LEMMA Step ==
  ASSUME IInv, [Next]_vars
  PROVE  IInv'
<1>1. TypeOK /\ SaveInv /\ ListInv /\ KeptInv
  BY DEF IInv
<1>2. /\ batches \in 0 .. MaxBatches /\ MaxBatches \in Nat
      /\ HISTORY \in Seq(1 .. MaxBatches) /\ Len(HISTORY) <= HistoryMax
  BY <1>1, HistoryAssumption DEF TypeOK
<1>3. CASE RecordBatch
  <2>1. /\ step = "idle" /\ batches < MaxBatches /\ batches' = batches + 1
        /\ HISTORY' = Trim(Append(HISTORY, batches + 1)) /\ step' = "open"
        /\ tmp' = tmp /\ tmpSynced' = tmpSynced /\ file' = file /\ synced' = synced
        /\ disk' = disk /\ crashes' = crashes /\ acked' = acked
    BY <1>3 DEF RecordBatch
  <2>2. batches \in Nat /\ Good(HISTORY, batches)
    BY <1>1, <1>2 DEF ListInv
  <2>3. /\ Good(HISTORY', batches')
        /\ HISTORY' # <<>> /\ HISTORY'[Len(HISTORY')] = batches'
        /\ \A n \in 1 .. batches : Kept(HISTORY, n) => Kept(HISTORY', n)
    BY <2>1, <2>2, RecordFacts
  <2>4. ASSUME NEW f, GoodFile(f) PROVE f = NoFile \/ Good(f, batches')
    <3>1. CASE Good(f, batches)
      <4>1. \A i \in 1 .. Len(f) : f[i] \in Nat /\ f[i] <= batches
        <5>1. f \in Seq(1 .. MaxBatches) /\ \A i \in 1 .. Len(f) : f[i] <= batches
          BY <3>1 DEF Good
        <5>2. \A i \in 1 .. Len(f) : f[i] \in 1 .. MaxBatches
          BY <5>1, EntryType
        <5> QED BY <1>2, <5>1, <5>2
      <4>2. \A i \in 1 .. Len(f) : f[i] <= batches'
        BY <2>1, <2>2, <4>1
      <4> QED BY <3>1, <4>2 DEF Good
    <3> QED BY <2>4, <3>1 DEF GoodFile
  <2>5. TypeOK'
    BY <1>1, <1>2, <2>1, <2>3 DEF TypeOK, Good
  <2>6. SaveInv' /\ ListInv'
    BY <1>1, <2>1, <2>3, <2>4 DEF SaveInv, ListInv, GoodFile, Saving
  <2>7. KeptInv'
    BY <1>1, <2>1, <2>2, <2>3 DEF KeptInv
  <2> QED BY <2>5, <2>6, <2>7 DEF IInv
<1>4. CASE OpenTmp \/ WriteTmp \/ SyncTmp \/ SaveFails \/ Crash \/ UNCHANGED vars
  <2>1. /\ HISTORY' = HISTORY /\ file' = file /\ synced' = synced /\ disk' = disk
        /\ batches' = batches /\ acked' = acked
    BY <1>4 DEF OpenTmp, WriteTmp, SyncTmp, SaveFails, Crash, vars
  <2>2. tmp' \in {tmp, Partial, HISTORY}
    BY <1>4 DEF OpenTmp, WriteTmp, SyncTmp, SaveFails, Crash, vars
  <2>3. /\ tmpSynced' \in BOOLEAN
        /\ step' \in {"idle", "open", "write", "sync", "replace", "down"}
        /\ step = "down" => step' = "down"
        /\ step' \in {"open", "write", "sync", "replace"} => Saving
    BY <1>1, <1>4 DEF OpenTmp, WriteTmp, SyncTmp, SaveFails, Crash, vars, Saving, TypeOK
  <2>4. crashes' \in 0 .. MaxCrashes
    BY <1>1, <1>4, HistoryAssumption
       DEF OpenTmp, WriteTmp, SyncTmp, SaveFails, Crash, vars, TypeOK
  <2>5. /\ step' \in {"sync", "replace"} => tmp' = HISTORY
        /\ step' = "replace" => tmpSynced'
    BY <1>1, <1>4 DEF OpenTmp, WriteTmp, SyncTmp, SaveFails, Crash, vars, SaveInv
  <2>6. TypeOK'
    BY <1>1, <2>1, <2>2, <2>3, <2>4 DEF TypeOK, Files
  <2>7. SaveInv' /\ ListInv' /\ KeptInv'
    BY <1>1, <2>1, <2>3, <2>5 DEF SaveInv, ListInv, KeptInv, GoodFile, Saving
  <2> QED BY <2>6, <2>7 DEF IInv
<1>5. CASE ReplaceFile
  <2>1. /\ step = "replace" /\ file' = HISTORY /\ synced' /\ tmp' = NoFile
        /\ tmpSynced' = FALSE /\ acked' = acked \cup {batches} /\ step' = "idle"
        /\ HISTORY' = HISTORY /\ disk' = disk /\ batches' = batches /\ crashes' = crashes
    BY <1>1, <1>5 DEF ReplaceFile, SaveInv
  <2>2. /\ HISTORY # <<>> /\ HISTORY[Len(HISTORY)] = batches /\ Good(HISTORY, batches)
    BY <1>1, <2>1 DEF SaveInv, Saving, ListInv
  <2>3. batches \in Entries(HISTORY) /\ batches \in 1 .. batches
    <3>1. Len(HISTORY) \in 1 .. Len(HISTORY)
      BY <1>2, <2>2
    <3> QED BY <1>2, <2>2, <3>1 DEF Entries
  <2>4. TypeOK'
    <3>1. acked' \subseteq 1 .. MaxBatches
      BY <1>1, <1>2, <2>1, <2>3 DEF TypeOK
    <3>2. file' \in Files /\ tmp' \in Files
      BY <1>2, <2>1 DEF Files
    <3> QED BY <1>1, <2>1, <3>1, <3>2 DEF TypeOK
  <2>5. SaveInv' /\ ListInv'
    BY <1>1, <2>1, <2>2 DEF SaveInv, ListInv, GoodFile, Saving
  <2>6. HISTORY # NoFile
    BY <1>2, ListIsWhole
  <2>7. \A n \in acked' : Kept(HISTORY, n)
    BY <1>1, <2>1, <2>3 DEF KeptInv, Kept
  <2>8. KeptInv'
    BY <1>1, <2>1, <2>3, <2>6, <2>7 DEF KeptInv
  <2> QED BY <2>4, <2>5, <2>8 DEF IInv
<1>6. CASE WriteBack
  <2>1. /\ disk' = file /\ HISTORY' = HISTORY /\ step' = step /\ tmp' = tmp
        /\ tmpSynced' = tmpSynced /\ file' = file /\ synced' = synced
        /\ batches' = batches /\ crashes' = crashes /\ acked' = acked
    BY <1>1, <1>6 DEF WriteBack, OnDisk, SaveInv
  <2> QED BY <1>1, <2>1 DEF IInv, TypeOK, SaveInv, ListInv, KeptInv, GoodFile, Saving
<1>7. CASE PowerFailure
  <2>1. /\ file' \in {file, disk} /\ disk' = file'
    BY <1>1, <1>7 DEF PowerFailure, OnDisk, SaveInv
  <2>2. /\ crashes < MaxCrashes /\ crashes' = crashes + 1 /\ step' = "down" /\ synced'
        /\ synced' \in BOOLEAN /\ tmp' \in {NoFile, Partial} /\ tmpSynced' = FALSE
        /\ acked' = {} /\ HISTORY' = HISTORY /\ batches' = batches
    BY <1>7 DEF PowerFailure
  <2>3. TypeOK'
    <3>1. crashes' \in 0 .. MaxCrashes
      BY <1>1, <2>2, HistoryAssumption DEF TypeOK
    <3>2. file' \in Files /\ disk' \in Files /\ tmp' \in Files
      BY <1>1, <2>1, <2>2 DEF TypeOK, Files
    <3> QED BY <1>1, <2>2, <3>1, <3>2 DEF TypeOK
  <2>4. SaveInv' /\ ListInv' /\ KeptInv'
    BY <1>1, <2>1, <2>2 DEF SaveInv, ListInv, KeptInv, GoodFile, Saving
  <2> QED BY <2>3, <2>4 DEF IInv
<1>8. CASE Restart \/ RestartUnreadable
  <2>1. /\ step = "down" /\ step' = "idle" /\ tmp' = tmp /\ tmpSynced' = tmpSynced
        /\ file' = file /\ synced' = synced /\ disk' = disk /\ batches' = batches
        /\ crashes' = crashes
        /\ \/ HISTORY' = Load(file) /\ acked' = acked
           \/ HISTORY' = <<>> /\ acked' = {}
    BY <1>8 DEF Restart, RestartUnreadable
  <2>2. /\ Good(Load(file), batches) /\ (file # NoFile => Load(file) = file)
    BY <1>1, <1>2, LoadFacts DEF ListInv
  <2>3. Good(HISTORY', batches)
    <3>1. Good(<<>>, batches)
      BY HistoryAssumption DEF Good, Ordered
    <3> QED BY <2>1, <2>2, <3>1
  <2>4. \A n \in acked' : file # NoFile /\ Kept(file, n) /\ Kept(HISTORY', n)
    BY <1>1, <2>1, <2>2 DEF KeptInv
  <2>5. TypeOK'
    BY <1>1, <2>1, <2>3 DEF TypeOK, Good
  <2>6. SaveInv' /\ ListInv'
    BY <1>1, <2>1, <2>3 DEF SaveInv, ListInv, GoodFile, Saving
  <2>7. KeptInv'
    BY <1>1, <2>1, <2>4 DEF KeptInv
  <2> QED BY <2>5, <2>6, <2>7 DEF IInv
<1> QED BY <1>3, <1>4, <1>5, <1>6, <1>7, <1>8 DEF Next

LEMMA Inductive == Spec => []IInv
BY Initially, Step, PTL DEF Spec

----------------------------------------------------------------------------
(* Theorems                                                                 *)

\* Types, with the bound HISTORY_MAX of the list in memory.
THEOREM TypeCorrect == Spec => []TypeOK
<1>1. IInv => TypeOK
  BY DEF IInv
<1> QED BY <1>1, Inductive, PTL

\* A batch reported as recorded since the last power failure or failed load is in
\* the file until HISTORY_MAX newer ones are, whatever saves failed since then
\* and however often the dashboard crashed (_save_history).
THEOREM RecordedKept == Spec => []RecordedIsKept
<1>1. IInv => RecordedIsKept
  <2> SUFFICES ASSUME IInv, NEW n \in acked
               PROVE  /\ file \notin {NoFile, Partial}
                      /\ \/ n \in Entries(file)
                         \/ Cardinality({m \in Entries(file) : m > n}) >= HistoryMax
    BY DEF RecordedIsKept
  <2>1. Good(file, batches) /\ Kept(file, n) /\ n \in Nat
    BY DEF IInv, KeptInv, ListInv, GoodFile, TypeOK
  <2>2. file \in Seq(1 .. MaxBatches) /\ file \in Seq(Nat) /\ Ordered(file)
    BY <2>1, HistoryAssumption DEF Good
  <2>3. file \notin {NoFile, Partial}
    BY <2>2, ListIsWhole
  <2> QED BY <2>1, <2>2, <2>3, KeptCounts
<1> QED BY <1>1, Inductive, PTL

\* The history and its file implement the log: no step of _save_history but
\* os.replace changes what will be loaded, and a power failure at any moment
\* leaves a list that was saved.
THEOREM Refinement == Spec => ImplementsLog
<1>1. Init => Log!Init
  BY DEF Init, Log!Init, AsList
<1>2. ASSUME IInv, [Next]_vars
      PROVE  [Log!Next]_<<HISTORY, AsList(file), AsList(disk)>>
  <2>1. TypeOK /\ SaveInv /\ ListInv /\ KeptInv
    BY <1>2 DEF IInv
  <2>2. CASE UNCHANGED <<HISTORY, file, disk>>
    BY <2>2 DEF AsList
  <2>3. CASE RecordBatch
    <3>1. /\ HISTORY' = Trim(Append(HISTORY, batches + 1)) /\ batches + 1 \in 1 .. MaxBatches
          /\ AsList(file)' = AsList(file) /\ AsList(disk)' = AsList(disk)
      BY <2>1, <2>3, HistoryAssumption DEF RecordBatch, TypeOK, AsList
    <3>2. HISTORY' = Log!Latest(Append(HISTORY, batches + 1))
      BY <3>1 DEF Trim, Log!Latest
    <3> QED BY <3>1, <3>2 DEF Log!Next, Log!Record
  <2>4. CASE ReplaceFile
    <3>1. file' = HISTORY /\ HISTORY' = HISTORY /\ disk' = disk
      BY <2>1, <2>4 DEF ReplaceFile, SaveInv
    <3>2. HISTORY \notin {NoFile, Partial}
      BY <2>1, ListIsWhole DEF TypeOK
    <3>3. AsList(file)' = HISTORY /\ AsList(disk)' = AsList(disk)
      BY <3>1, <3>2 DEF AsList
    <3> QED BY <3>1, <3>3 DEF Log!Next, Log!Save
  <2>5. CASE WriteBack
    <3>1. disk' = file /\ HISTORY' = HISTORY /\ file' = file
      BY <2>1, <2>5 DEF WriteBack, OnDisk, SaveInv
    <3> QED BY <3>1 DEF Log!Next, Log!Settle, AsList
  <2>6. CASE PowerFailure
    <3>1. file' \in {file, disk} /\ disk' = file' /\ HISTORY' = HISTORY
      BY <2>1, <2>6 DEF PowerFailure, OnDisk, SaveInv
    <3> QED BY <3>1 DEF Log!Next, Log!PowerFailure, AsList
  <2>7. CASE Restart \/ RestartUnreadable
    <3>1. HISTORY' \in {Load(file), <<>>} /\ file' = file /\ disk' = disk
      BY <2>7 DEF Restart, RestartUnreadable
    <3>2. Load(file) \in {AsList(file), <<>>}
      BY <2>1, LoadFacts DEF ListInv, TypeOK
    <3> QED BY <3>1, <3>2 DEF Log!Next, Log!Restart, AsList
  <2> QED BY <1>2, <2>2, <2>3, <2>4, <2>5, <2>6, <2>7
      DEF Next, vars, OpenTmp, WriteTmp, SyncTmp, SaveFails, Crash
<1>3. IInv /\ [Next]_vars => [Log!Next]_<<HISTORY, AsList(file), AsList(disk)>>
  BY <1>2
<1> QED BY <1>1, <1>3, Inductive, PTL DEF Spec, ImplementsLog, Log!LogSpec

=============================================================================
