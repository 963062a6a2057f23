----------------------- MODULE PingPersistenceProofs -----------------------
(* Theorems about PingPersistence, for every value of its constants.         *)
EXTENDS PingPersistence, FiniteSetTheorems, FunctionTheorems, TLAPS

----------------------------------------------------------------------------
(* The inductive invariant                                                  *)

Steps == {"idle", "lock", "copy", "open", "buckets", "cur", "sync", "replace", "dirsync", "done"}
FullLists == {b \in Lists : \A k \in Kinds : Len(b[k]) <= BUCKETS}
Writers == Savers \cup {"nobody"}

\* A file and its two pieces
IsFile(d) ==
  /\ DOMAIN d = {"buckets", "cur", "synced"} /\ d.synced \in BOOLEAN
  /\ d.buckets.by \in Writers /\ (d.buckets.by # "nobody" => d.buckets.val \in FullLists)
  /\ d.cur.by \in Writers /\ d.cur.val \in Currents

AreFiles(d) == d = [f \in Files |-> d[f]] /\ \A f \in Files : IsFile(d[f])

\* A process that is down runs no saver, and a handler runs only after its
\* signal.
ProcessType ==
  /\ step \in [Savers -> Steps]
  /\ process \in {"running", "down"}
  /\ signals \in 0 .. MaxSignals /\ stops \in 0 .. MaxStops
  /\ process = "down" => \A s \in Savers : step[s] = "idle"
  /\ signals = 0 => step["first"] = "idle"
  /\ signals < 2 => step["second"] = "idle"

Taken == [Kinds -> SUBSET (1 .. MaxMinutes)]
MemoryType ==
  /\ clock \in 1 .. MaxMinutes
  /\ buckets \in FullLists /\ cur \in Currents
  /\ kept \in Taken /\ durable \in Taken

SaveType ==
  /\ copy \in [Savers -> FullLists]
  /\ fd \in [Savers -> Files \cup {"gone", "none"}]
  /\ AreFiles(data)
  /\ settled \in BOOLEAN /\ overlapped \in BOOLEAN /\ spoiled \in BOOLEAN

\* load_state reads a whole file, to which nobody writes unless a signal has
\* ended it, fills a list in the order of the file, and comes before the
\* workers.
Empty == buckets = NoCopy /\ cur = [k \in Kinds |-> Nothing]
Ended == load \in {"done", "failed"}
Prefix(b, list) == Len(b) <= Len(list) /\ \A i \in 1 .. Len(b) : b[i] = list[i]
Loaded(k) == k = "ping" /\ load = "wifi"
FillInv ==
  /\ floor \in 1 .. clock
  /\ \A k \in Kinds :
       /\ Prefix(buckets[k], ToLoad(k))
       /\ Loaded(k) => Len(buckets[k]) = Len(ToLoad(k)) /\ cur[k] = data["state"].cur.val[k]
LoadType ==
  /\ load \in {"unread", "done", "failed"} \cup Kinds /\ floor \in 0 .. MaxMinutes
  /\ process = "down" => load = "unread"
  /\ load = "unread" => Empty
  /\ ~Ended => step["worker"] = "idle"
  /\ Loads /\ ~Ended => Whole("state")
  /\ Loads /\ load \in Kinds => FillInv

TypeInv == ProcessType /\ MemoryType /\ SaveType /\ LoadType

\* Until saves overlap, one saver at a time writes, through a file of its own.
OneSaver ==
  /\ \A s, x \in Savers : Saving(s) /\ Saving(x) => s = x
  /\ Saving("second") \/ step["second"] = "done" => ~Saving("first")
  /\ \A s \in Savers : fd[s] = IF step[s] \in {"buckets", "cur", "sync"} THEN "tmp" ELSE "none"

\* The minutes of a list ascend, and the bucket being filled is later.
Ascending(b) == \A i, j \in 1 .. Len(b) : i < j => b[i] < b[j]
Below(b, c, now) == \A k \in Kinds :
  /\ Ascending(b[k])
  /\ \A m \in Entries(b[k]) : m < c[k]
  /\ c[k] <= now

\* A list has those minutes, but for the ones that are too old or that it has
\* pushed out.
Covers(b, minutes, now) ==
  \A k \in Kinds : \A m \in minutes[k] :
    \/ m < now - BUCKETS
    \/ m \in Entries(b[k])
    \/ Len(b[k]) = BUCKETS /\ \A n \in Entries(b[k]) : n > m

MinutesOf(b) == [k \in Kinds |-> Entries(b[k])]

\* The process has loaded all there was to load.
Trusted == load = "done" /\ ~spoiled

\* Where a save is, what it has copied and what it has written so far
Copied(at) == at \in {"open", "buckets", "cur", "sync", "replace"}
CopyInv(at, b) ==
  Copied(at) /\ Trusted => /\ Below(b, cur, clock) /\ Covers(b, kept, clock)
                           /\ Covers(buckets, MinutesOf(b), clock)
Written(s, at, b, tmp) ==
  /\ at \in {"cur", "sync", "replace"} => tmp.buckets.by = s /\ tmp.buckets.val = b
  /\ at \in {"sync", "replace"} => tmp.cur.by = s /\ (Trusted => Below(b, tmp.cur.val, clock))
  /\ at = "replace" => tmp.synced

\* A file that STATE_FILE names is one save's and on disk ...
Sealed(d) ==
  d = NoFile \/ (d.buckets.by # "nobody" /\ d.cur.by = d.buckets.by /\ d.synced)

\* ... and has what was to be kept.
Intact(d, taken, now) ==
  \/ d = NoFile /\ taken = [k \in Kinds |-> {}]
  \/ /\ d.buckets.by # "nobody" /\ d.cur.by = d.buckets.by /\ d.synced
     /\ Below(d.buckets.val, d.cur.val, now) /\ Covers(d.buckets.val, taken, now)

SaverInv(s) ==
  /\ CopyInv(step[s], copy[s])
  /\ Written(s, step[s], copy[s], data["tmp"])
FileInv ==
  /\ \A f \in StateFiles : Sealed(data[f])
  /\ ~spoiled => /\ \A k \in Kinds : durable[k] \subseteq kept[k]
                 /\ Intact(data["state"], kept, clock)
                 /\ ~settled => Intact(data["old"], durable, clock)
MemoryInv ==
  process = "running" /\ Trusted =>
    Below(buckets, cur, clock) /\ Covers(buckets, kept, clock)

SafeInv == OneSaver /\ (\A s \in Savers : SaverInv(s)) /\ FileInv /\ MemoryInv

IInv == TypeInv /\ (~overlapped => SafeInv)

----------------------------------------------------------------------------
(* Lists                                                                    *)

Rank(K, i) == Cardinality({j \in K : j <= i})

\* The places in a finite set of numbers, counted from below
LEMMA RankGrows ==
  ASSUME NEW K \in SUBSET Int, IsFiniteSet(K)
  PROVE  /\ Cardinality(K) \in Nat
         /\ \A i \in K : Rank(K, i) \in 1 .. Cardinality(K)
         /\ \A i, j \in K : i < j => Rank(K, i) < Rank(K, j)
<1>1. Cardinality(K) \in Nat
  BY FS_CardinalityType
<1>2. ASSUME NEW i \in K, NEW B, B = {j \in K : j <= i}
      PROVE  IsFiniteSet(B) /\ Cardinality(B) \in 1 .. Cardinality(K)
  <2>1. B \subseteq K /\ B # {}
    BY <1>2
  <2>2. IsFiniteSet(B) /\ Cardinality(B) <= Cardinality(K)
    BY <2>1, FS_Subset
  <2>3. Cardinality(B) \in Nat /\ Cardinality(B) # 0
    BY <2>1, <2>2, FS_CardinalityType, FS_EmptySet
  <2> QED BY <1>1, <2>2, <2>3
<1>3. ASSUME NEW i \in K, NEW j \in K, i < j
      PROVE  Rank(K, i) < Rank(K, j)
  <2>1. PICK B : B = {h \in K : h <= i}
    OBVIOUS
  <2>2. PICK C : C = {h \in K : h <= j}
    OBVIOUS
  <2>3. B \subseteq C /\ j \in C /\ j \notin B
    <3>1. i \in Int /\ j \in Int /\ \A h \in K : h \in Int
      OBVIOUS
    <3>2. j <= j /\ ~(j <= i) /\ \A h \in K : h <= i => h <= j
      BY <1>3, <3>1
    <3> QED BY <2>1, <2>2, <3>2, Zenon
  <2>4. IsFiniteSet(C) /\ Cardinality(C) \in Nat /\ Cardinality(B) \in Nat
    BY <1>1, <1>2, <2>1, <2>2
  <2>5. Cardinality(B) <= Cardinality(C) /\ (Cardinality(C) = Cardinality(B) => C = B)
    BY <2>3, <2>4, FS_Subset
  <2> QED BY <2>1, <2>2, <2>3, <2>4, <2>5 DEF Rank
<1> QED BY <1>1, <1>2, <1>3 DEF Rank

\* Every place is taken.
LEMMA RankIsOnto ==
  ASSUME NEW K \in SUBSET Int, IsFiniteSet(K), NEW n \in 1 .. Cardinality(K)
  PROVE  \E i \in K : Rank(K, i) = n
<1> DEFINE r == [i \in K |-> Rank(K, i)]
<1>1. PICK c \in Nat : c = Cardinality(K)
  BY RankGrows
<1> DEFINE top == 1 .. c
<1>2. \A i \in K : Rank(K, i) \in top
  BY <1>1, RankGrows
<1>3. r \in Injection(K, top)
  <2>1. r \in [K -> top]
    BY <1>2
  <2>2. \A i, j \in K : r[i] = r[j] => i = j
    BY <1>2, RankGrows
  <2> QED BY <2>1, <2>2, Fun_IsInj
<1>4. IsFiniteSet(top) /\ Cardinality(top) = c
  <2>1. c \in Int /\ 1 \in Int
    OBVIOUS
  <2>2. IsFiniteSet(1 .. c) /\ Cardinality(1 .. c) = IF 1 > c THEN 0 ELSE c - 1 + 1
    BY <2>1, FS_Interval, Zenon
  <2> QED BY <2>2
<1>5. n \in top
  BY <1>1
<1>8. \A i \in K : r[i] = Rank(K, i)
  OBVIOUS
<1> HIDE DEF top, r
<1>6. r \in Surjection(K, top)
  BY <1>1, <1>3, <1>4, FS_Injection
<1>7. \A m \in top : \E i \in K : r[i] = m
  BY <1>6, Fun_SurjectionProperties, Zenon
<1> QED BY <1>5, <1>8, <1>7
\* What load_state keeps of a list.
LEMMA RecentList ==
  ASSUME NEW T \in SUBSET Int, NEW b \in Seq(T), NEW from
  PROVE  /\ Recent(b, from) \in Seq(T) /\ Len(Recent(b, from)) <= Len(b)
         /\ Ascending(b) => Ascending(Recent(b, from))
         /\ \A m : m \in Entries(Recent(b, from)) <=> m \in Entries(b) /\ m >= from - BUCKETS
         /\ (\A m \in Entries(b) : m >= from - BUCKETS) => Len(Recent(b, from)) = Len(b)
<1>1. PICK K : K = {i \in DOMAIN b : b[i] >= from - BUCKETS}
  OBVIOUS
<1>2. Len(b) \in Nat /\ DOMAIN b = 1 .. Len(b) /\ \A i \in 1 .. Len(b) : b[i] \in T
  OBVIOUS
<1>3. K \subseteq 1 .. Len(b) /\ K \in SUBSET Int
  BY <1>1, <1>2
<1>4. IsFiniteSet(K) /\ Cardinality(K) <= Len(b)
  <2>1. PICK n \in Nat : n = Len(b)
    BY <1>2
  <2>2. n \in Int /\ 1 \in Int
    OBVIOUS
  <2>3. IsFiniteSet(1 .. n) /\ Cardinality(1 .. n) = IF 1 > n THEN 0 ELSE n - 1 + 1
    BY <2>2, FS_Interval, Zenon
  <2>4. Cardinality(1 .. n) = n /\ K \subseteq 1 .. n
    BY <1>3, <2>1, <2>3
  <2> QED BY <2>1, <2>3, <2>4, FS_Subset
<1>5. PICK N : N = Cardinality(K)
  OBVIOUS
<1>6. PICK nth : nth = [n \in 1 .. N |-> CHOOSE i \in K : Rank(K, i) = n]
  OBVIOUS
<1>7. N \in Nat /\ N <= Len(b)
  BY <1>3, <1>4, <1>5, RankGrows
<1>8. \A n \in 1 .. N : nth[n] \in K /\ Rank(K, nth[n]) = n
  BY <1>3, <1>4, <1>5, <1>6, RankIsOnto
<1>9. Recent(b, from) = [n \in 1 .. N |-> b[nth[n]]]
  BY <1>1, <1>5, <1>6 DEF Recent, Rank
<1>10. PICK r : r = Recent(b, from)
  OBVIOUS
<1>11. /\ r \in Seq(T) /\ Len(r) = N
       /\ \A n \in 1 .. N : r[n] = b[nth[n]]
  <2>1. \A n \in 1 .. N : b[nth[n]] \in T
    BY <1>2, <1>3, <1>8
  <2> QED BY <1>7, <1>9, <1>10, <2>1
<1>12. ASSUME Ascending(b)
       PROVE  Ascending(r)
  <2>1. ASSUME NEW i \in 1 .. N, NEW j \in 1 .. N, i < j
        PROVE  r[i] < r[j]
    <3>1. nth[i] \in K /\ nth[j] \in K /\ Rank(K, nth[i]) < Rank(K, nth[j])
      BY <1>8, <2>1
    <3>2. \A h, l \in K : h < l => Rank(K, h) < Rank(K, l)
      BY <1>3, <1>4, RankGrows
    <3>3. \A h \in K : h \in Int /\ Rank(K, h) \in Int
      BY <1>3, <1>4, <1>5, <1>7, RankGrows
    <3>4. nth[i] < nth[j]
      BY <3>1, <3>2, <3>3
    <3> QED BY <1>3, <1>11, <1>12, <3>1, <3>4 DEF Ascending
  <2> QED BY <1>11, <2>1 DEF Ascending
<1>13. ASSUME NEW m
       PROVE  m \in Entries(r) <=> m \in Entries(b) /\ m >= from - BUCKETS
  <2>1. ASSUME m \in Entries(r)
        PROVE  m \in Entries(b) /\ m >= from - BUCKETS
    <3>1. PICK n \in 1 .. N : m = b[nth[n]]
      BY <1>11, <2>1 DEF Entries
    <3>2. nth[n] \in K
      BY <1>8
    <3> QED BY <1>1, <1>3, <3>1, <3>2 DEF Entries
  <2>2. ASSUME m \in Entries(b), m >= from - BUCKETS
        PROVE  m \in Entries(r)
    <3>1. PICK i \in 1 .. Len(b) : m = b[i]
      BY <2>2 DEF Entries
    <3>2. i \in K
      BY <1>1, <1>2, <2>2, <3>1
    <3>3. PICK n : n = Rank(K, i)
      OBVIOUS
    <3>4. n \in 1 .. N
      BY <1>3, <1>4, <1>5, <3>2, <3>3, RankGrows
    <3>5. nth[n] = i
      <4>1. nth[n] \in K /\ Rank(K, nth[n]) = Rank(K, i)
        BY <1>8, <3>3, <3>4
      <4>2. \A h, l \in K : h < l => Rank(K, h) < Rank(K, l)
        BY <1>3, <1>4, RankGrows
      <4>3. \A h \in K : h \in Int /\ Rank(K, h) \in Int
        BY <1>3, <1>4, <1>5, <1>7, RankGrows
      <4>4. PICK h \in K : h = nth[n]
        BY <4>1
      <4>5. Rank(K, h) = Rank(K, i) /\ ~(h < i) /\ ~(i < h)
        BY <3>2, <4>1, <4>2, <4>3, <4>4
      <4>6. h \in Int /\ i \in Int
        BY <3>2, <4>3
      <4> QED BY <4>4, <4>5, <4>6
    <3> QED BY <1>11, <3>1, <3>4, <3>5 DEF Entries
  <2> QED BY <2>1, <2>2
<1>14. ASSUME \A m \in Entries(b) : m >= from - BUCKETS
       PROVE  N = Len(b)
  <2>1. K = 1 .. Len(b)
    BY <1>1, <1>2, <1>14 DEF Entries
  <2>2. PICK n \in Nat : n = Len(b)
    BY <1>2
  <2>3. n \in Int /\ 1 \in Int
    OBVIOUS
  <2>4. Cardinality(1 .. n) = IF 1 > n THEN 0 ELSE n - 1 + 1
    BY <2>3, FS_Interval, Zenon
  <2> QED BY <1>5, <2>1, <2>2, <2>4
<1> QED BY <1>7, <1>10, <1>11, <1>12, <1>13, <1>14

\* What a deque(maxlen=BUCKETS) is after an append.
Pushed(b, c) == IF Len(b) < BUCKETS THEN Append(b, c) ELSE Append(Tail(b), c)

LEMMA EntriesOf ==
  ASSUME NEW T, NEW b \in Seq(T)
  PROVE  Len(b) \in Nat /\ (\A i \in 1 .. Len(b) : b[i] \in T) /\ Entries(b) \subseteq T
BY DEF Entries

IsPushed(b, c, r) ==
  /\ Len(r) \in Nat \ {0} /\ Len(r) <= BUCKETS /\ r[Len(r)] = c
  /\ \/ Len(b) < BUCKETS /\ Len(r) = Len(b) + 1 /\ \A i \in 1 .. Len(b) : r[i] = b[i]
     \/ Len(b) = BUCKETS /\ Len(r) = BUCKETS /\ \A i \in 1 .. BUCKETS - 1 : r[i] = b[i + 1]

LEMMA Rotated ==
  ASSUME NEW T, NEW b \in Seq(T), Len(b) <= BUCKETS, NEW c \in T
  PROVE  Pushed(b, c) \in Seq(T) /\ IsPushed(b, c, Pushed(b, c))
<1> PICK r : r = Pushed(b, c)
  OBVIOUS
<1>1. BUCKETS \in Nat \ {0} /\ Len(b) \in Nat
  BY PingAssumption
<1>2. CASE Len(b) < BUCKETS
  BY <1>1, <1>2 DEF Pushed, IsPushed
<1>3. CASE Len(b) = BUCKETS
  <2>1. b # <<>>
    BY <1>1, <1>3
  <2>2. PICK t : t = Tail(b)
    OBVIOUS
  <2>3. /\ t \in Seq(T) /\ Len(t) = Len(b) - 1
        /\ \A i \in 1 .. Len(t) : t[i] = b[i + 1]
    BY <2>1, <2>2
  <2>4. r = Append(t, c)
    BY <1>1, <1>3, <2>2 DEF Pushed
  <2> QED BY <1>1, <1>3, <2>3, <2>4 DEF IsPushed
<1> QED BY <1>1, <1>2, <1>3

\* Such an append keeps the order, and loses only what is pushed out.
LEMMA RotatedKeeps ==
  ASSUME NEW b \in Seq(Int), Len(b) <= BUCKETS, NEW c \in Int, NEW r, r = Pushed(b, c),
         Ascending(b), \A m \in Entries(b) : m < c
  PROVE  /\ Ascending(r) /\ \A m \in Entries(r) : m <= c
         /\ \A m \in Int :
              \/ m \in Entries(b)
              \/ Len(b) = BUCKETS /\ \A n \in Entries(b) : n > m
              => m \in Entries(r) \/ (Len(r) = BUCKETS /\ \A n \in Entries(r) : n > m)
<1>1. /\ r \in Seq(Int) /\ Len(r) \in Nat \ {0} /\ r[Len(r)] = c
      /\ \/ Len(b) < BUCKETS /\ Len(r) = Len(b) + 1 /\ \A i \in 1 .. Len(b) : r[i] = b[i]
         \/ Len(b) = BUCKETS /\ Len(r) = BUCKETS /\ \A i \in 1 .. BUCKETS - 1 : r[i] = b[i + 1]
  <2>0. PICK T : T = Int
    OBVIOUS
  <2>1. b \in Seq(T) /\ c \in T
    BY <2>0
  <2>2. r \in Seq(T) /\ IsPushed(b, c, r)
    BY <2>1, Rotated
  <2> QED BY <2>0, <2>2 DEF IsPushed
<1>2. BUCKETS \in Nat \ {0} /\ Len(b) \in Nat /\ \A i \in 1 .. Len(b) : b[i] \in Int /\ b[i] < c
  BY PingAssumption DEF Entries
<1>3. CASE Len(b) < BUCKETS /\ Len(r) = Len(b) + 1 /\ \A i \in 1 .. Len(b) : r[i] = b[i]
  <2>1. \A i \in 1 .. Len(r) : i \in 1 .. Len(b) \/ i = Len(r)
    BY <1>2, <1>3
  <2>2. ASSUME NEW i \in 1 .. Len(r)
        PROVE  r[i] \in Int /\ r[i] <= c /\ (i \in 1 .. Len(b) => r[i] < c /\ r[i] = b[i])
    BY <1>1, <1>2, <1>3, <2>1
  <2>3. \A m \in Entries(r) : m <= c
    BY <2>2 DEF Entries
  <2>5. ASSUME NEW i \in 1 .. Len(r), NEW j \in 1 .. Len(r), i < j
        PROVE  r[i] < r[j]
    <3>1. i \in 1 .. Len(b)
      BY <1>1, <1>2, <1>3, <2>5
    <3>2. CASE j \in 1 .. Len(b)
      BY <2>2, <2>5, <3>1, <3>2 DEF Ascending
    <3>3. CASE j = Len(r)
      BY <1>1, <2>2, <3>1, <3>3
    <3> QED BY <2>1, <3>2, <3>3
  <2>6. Ascending(r)
    BY <2>5 DEF Ascending
  <2>4. Entries(b) \subseteq Entries(r)
    BY <1>2, <1>3 DEF Entries
  <2> QED BY <1>2, <1>3, <2>3, <2>4, <2>6
<1>4. CASE Len(b) = BUCKETS /\ Len(r) = BUCKETS /\ \A i \in 1 .. BUCKETS - 1 : r[i] = b[i + 1]
  <2>1. \A i \in 1 .. BUCKETS : i \in 1 .. BUCKETS - 1 \/ i = BUCKETS
    BY <1>2
  <2>2. \A i \in 1 .. BUCKETS - 1 : i + 1 \in 1 .. Len(b) /\ i + 1 \in Int
    BY <1>2, <1>4
  <2>3. Ascending(r)
    <3>1. ASSUME NEW i \in 1 .. BUCKETS, NEW j \in 1 .. BUCKETS, i < j
          PROVE  r[i] < r[j]
      <4>1. i \in 1 .. BUCKETS - 1 /\ r[i] = b[i + 1] /\ i + 1 \in 1 .. Len(b)
        BY <1>2, <1>4, <3>1
      <4>2. CASE j = BUCKETS
        BY <1>1, <1>2, <1>4, <4>1, <4>2
      <4>3. CASE j \in 1 .. BUCKETS - 1
        <5>1. r[j] = b[j + 1] /\ j + 1 \in 1 .. Len(b) /\ i + 1 < j + 1
          BY <1>2, <1>4, <3>1, <4>3
        <5> QED BY <4>1, <5>1 DEF Ascending
      <4> QED BY <2>1, <4>2, <4>3
    <3> QED BY <1>4, <3>1 DEF Ascending
  <2>4. ASSUME NEW m \in Entries(r)
        PROVE  m <= c /\ m > b[1]
    <3>1. PICK i \in 1 .. BUCKETS : m = r[i]
      BY <1>4 DEF Entries
    <3>2. 1 \in 1 .. Len(b)
      BY <1>2, <1>4
    <3>3. CASE i = BUCKETS
      BY <1>1, <1>2, <1>4, <3>1, <3>2, <3>3
    <3>4. CASE i \in 1 .. BUCKETS - 1
      <4>1. m = b[i + 1] /\ i + 1 \in 1 .. Len(b) /\ 1 < i + 1
        BY <1>2, <1>4, <3>1, <3>4
      <4>2. b[1] < b[i + 1] /\ b[i + 1] < c /\ b[i + 1] \in Int
        BY <1>2, <3>2, <4>1 DEF Ascending
      <4> QED BY <4>1, <4>2
    <3> QED BY <2>1, <3>3, <3>4
  <2>5. ASSUME NEW m \in Entries(b), m # b[1]
        PROVE  m \in Entries(r)
    <3>1. PICK i \in 1 .. Len(b) : m = b[i]
      BY DEF Entries
    <3>2. i # 1 /\ i - 1 \in 1 .. BUCKETS - 1 /\ (i - 1) + 1 = i
      BY <1>2, <1>4, <2>5, <3>1
    <3>3. r[i - 1] = b[i] /\ i - 1 \in 1 .. Len(r)
      BY <1>2, <1>4, <3>2
    <3> QED BY <3>1, <3>3 DEF Entries
  <2>6. b[1] \in Entries(b) /\ b[1] \in Int
    BY <1>2, <1>4 DEF Entries
  <2>7. \A m \in Entries(r) : m \in Int
    BY <1>1 DEF Entries
  <2>8. ASSUME NEW m \in Int, m \in Entries(b) \/ \A n \in Entries(b) : n > m
        PROVE  m \in Entries(r) \/ \A n \in Entries(r) : n > m
    <3>1. CASE m \in Entries(b) /\ m # b[1]
      BY <2>5, <3>1
    <3>2. CASE m = b[1]
      BY <2>4, <3>2
    <3>3. CASE \A n \in Entries(b) : n > m
      <4>1. b[1] > m
        BY <2>6, <3>3
      <4> QED BY <2>4, <2>6, <2>7, <4>1
    <3> QED BY <2>8, <3>1, <3>2, <3>3
  <2> QED BY <1>4, <2>3, <2>4, <2>8
<1> QED BY <1>1, <1>3, <1>4

----------------------------------------------------------------------------
(* Buckets                                                                  *)

LEMMA ListsAreSequences ==
  ASSUME NEW b \in FullLists, NEW k \in Kinds
  PROVE  /\ b[k] \in Seq(1 .. MaxMinutes) /\ b[k] \in Seq(Int) /\ Len(b[k]) <= BUCKETS
         /\ \A m \in Entries(b[k]) : m \in 1 .. MaxMinutes /\ m \in Int
<1>1. b[k] \in Seq(1 .. MaxMinutes) /\ Len(b[k]) <= BUCKETS
  BY DEF FullLists, Lists
<1>2. MaxMinutes \in Nat
  BY PingAssumption
<1>3. Entries(b[k]) \subseteq 1 .. MaxMinutes
  BY <1>1, EntriesOf
<1>4. \A m \in Entries(b[k]) : m \in 1 .. MaxMinutes /\ m \in Int
  BY <1>2, <1>3
<1>5. b[k] \in Seq(Int)
  BY <1>1, <1>2
<1> QED BY <1>1, <1>4, <1>5

\* Time only takes away what must be covered.
LEMMA Later ==
  ASSUME NEW now \in Int, NEW later \in Int, now <= later
  PROVE  /\ \A b, c : c \in Currents /\ Below(b, c, now) => Below(b, c, later)
         /\ \A b, t : t \in [Kinds -> SUBSET (1 .. MaxMinutes)] /\ Covers(b, t, now)
              => Covers(b, t, later)
<1>1. MaxMinutes \in Nat /\ BUCKETS \in Nat
  BY PingAssumption
<1>2. ASSUME NEW b, NEW c \in Currents, Below(b, c, now)
      PROVE  Below(b, c, later)
  <2>1. \A k \in Kinds : c[k] \in Int
    BY <1>1 DEF Currents
  <2> QED BY <1>2, <2>1 DEF Below
<1>3. ASSUME NEW b, NEW t \in [Kinds -> SUBSET (1 .. MaxMinutes)], Covers(b, t, now)
      PROVE  Covers(b, t, later)
  <2>1. \A k \in Kinds : \A m \in t[k] : m \in Int
    BY <1>1
  <2>2. \A m \in Int : m < now - BUCKETS => m < later - BUCKETS
    BY <1>1
  <2> QED BY <1>3, <2>1, <2>2 DEF Covers
<1> QED BY <1>2, <1>3

LEMMA CoversSelf == ASSUME NEW b, NEW now PROVE Covers(b, MinutesOf(b), now)
BY DEF Covers, MinutesOf

\* add_to_bucket keeps what has been covered.
Begun(b, c, k, now, b2, c2) ==
  b2 = [b EXCEPT ![k] = Pushed(b[k], c[k])] /\ c2 = [c EXCEPT ![k] = now]

LEMMA RotationCovers ==
  ASSUME NEW b \in FullLists, NEW c \in Currents, NEW now \in 1 .. MaxMinutes,
         NEW k \in Kinds, c[k] # Nothing, c[k] # now,
         NEW b2, NEW c2, Begun(b, c, k, now, b2, c2)
  PROVE  /\ b2 \in FullLists /\ c2 \in Currents
         /\ Below(b, c, now) => Below(b2, c2, now)
         /\ \A t \in [Kinds -> SUBSET (1 .. MaxMinutes)] :
              Below(b, c, now) /\ Covers(b, t, now) => Covers(b2, t, now)
<1> PICK r : r = Pushed(b[k], c[k])
  OBVIOUS
<1>0. b2 = [b EXCEPT ![k] = r] /\ c2 = [c EXCEPT ![k] = now]
  BY DEF Begun
<1>1. MaxMinutes \in Nat /\ c[k] \in 1 .. MaxMinutes /\ now \in Int
  BY PingAssumption DEF Currents, Nothing
<1>2. /\ b[k] \in Seq(1 .. MaxMinutes) /\ b[k] \in Seq(Int) /\ Len(b[k]) <= BUCKETS
      /\ \A m \in Entries(b[k]) : m \in Int
  BY ListsAreSequences
<1>3. r \in Seq(1 .. MaxMinutes) /\ Len(r) <= BUCKETS
  <2>0. PICK T : T = 1 .. MaxMinutes
    OBVIOUS
  <2>1. b[k] \in Seq(T) /\ c[k] \in T
    BY <1>1, <1>2, <2>0
  <2>2. r \in Seq(T) /\ IsPushed(b[k], c[k], r)
    BY <1>2, <2>1, Rotated
  <2> QED BY <2>0, <2>2 DEF IsPushed
<1>4. /\ b2 \in FullLists /\ b2[k] = r /\ \A x \in Kinds \ {k} : b2[x] = b[x]
      /\ c2 \in Currents /\ c2[k] = now /\ \A x \in Kinds \ {k} : c2[x] = c[x]
  <2>1. b \in [Kinds -> Seq(1 .. MaxMinutes)] /\ c \in [Kinds -> 0 .. MaxMinutes]
    BY DEF FullLists, Lists, Currents
  <2>2. /\ b2 \in [Kinds -> Seq(1 .. MaxMinutes)] /\ b2[k] = r
        /\ \A x \in Kinds \ {k} : b2[x] = b[x]
    BY <1>0, <1>3, <2>1
  <2>3. c2 \in Currents /\ c2[k] = now /\ \A x \in Kinds \ {k} : c2[x] = c[x]
    BY <1>0, <1>1, <2>1 DEF Currents
  <2>4. \A x \in Kinds : Len(b2[x]) <= BUCKETS
    BY <1>3, <2>2 DEF FullLists
  <2> QED BY <2>2, <2>3, <2>4 DEF FullLists, Lists
<1>5. ASSUME Below(b, c, now)
      PROVE  /\ Ascending(r) /\ \A m \in Entries(r) : m <= c[k]
             /\ \A m \in Int :
                  \/ m \in Entries(b[k])
                  \/ Len(b[k]) = BUCKETS /\ \A n \in Entries(b[k]) : n > m
                  => m \in Entries(r) \/ (Len(r) = BUCKETS /\ \A n \in Entries(r) : n > m)
  <2>1. Ascending(b[k]) /\ \A m \in Entries(b[k]) : m < c[k]
    BY <1>5 DEF Below
  <2>2. c[k] \in Int
    BY <1>1
  <2>3. PICK l \in Seq(Int) : l = b[k]
    BY <1>2
  <2>4. PICK m \in Int : m = c[k]
    BY <2>2
  <2> QED BY <1>2, <2>1, <2>3, <2>4, RotatedKeeps
<1>6. ASSUME Below(b, c, now)
      PROVE  Below(b2, c2, now)
  <2>1. c[k] <= now
    BY <1>6 DEF Below
  <2>2. \A m \in Entries(r) : m \in Int
    <3>1. Entries(r) \subseteq 1 .. MaxMinutes
      BY <1>3, EntriesOf
    <3> QED BY <1>1, <3>1
  <2>3. \A m \in Entries(r) : m < now
    BY <1>1, <1>5, <1>6, <2>1, <2>2
  <2>4. Ascending(b2[k]) /\ (\A m \in Entries(b2[k]) : m < c2[k]) /\ c2[k] <= now
    BY <1>1, <1>4, <1>5, <1>6, <2>3
  <2> QED BY <1>4, <1>6, <2>4 DEF Below
<1>7. ASSUME NEW t \in [Kinds -> SUBSET (1 .. MaxMinutes)], Below(b, c, now), Covers(b, t, now)
      PROVE  Covers(b2, t, now)
  <2>1. \A m \in t[k] : m \in Int
    BY <1>1
  <2>2. \A m \in t[k] :
           \/ m < now - BUCKETS
           \/ m \in Entries(r)
           \/ Len(r) = BUCKETS /\ \A n \in Entries(r) : n > m
    BY <1>5, <1>7, <2>1 DEF Covers
  <2> QED BY <1>4, <1>7, <2>2 DEF Covers
<1> QED BY <1>4, <1>6, <1>7
\* load_state keeps what has been covered.
LEMMA RecentKeeps ==
  ASSUME NEW now \in 1 .. MaxMinutes, NEW from \in 1 .. now, NEW b \in FullLists,
         NEW r, r = [k \in Kinds |-> Recent(b[k], from)]
  PROVE  /\ r \in FullLists
         /\ \A c : Below(b, c, now) => Below(r, c, now)
         /\ \A t \in [Kinds -> SUBSET (1 .. MaxMinutes)] :
              Covers(b, t, now) => Covers(r, t, now)
<1>1. MaxMinutes \in Nat /\ BUCKETS \in Nat /\ now \in Int /\ from \in Int /\ from <= now
  BY PingAssumption
<1>2. ASSUME NEW k \in Kinds
      PROVE  /\ r[k] \in Seq(1 .. MaxMinutes) /\ Len(r[k]) \in Nat /\ Len(r[k]) <= Len(b[k])
             /\ Len(b[k]) \in Nat /\ Len(b[k]) <= BUCKETS
             /\ Ascending(b[k]) => Ascending(r[k])
             /\ \A m : m \in Entries(r[k]) <=> m \in Entries(b[k]) /\ m >= from - BUCKETS
             /\ (\A m \in Entries(b[k]) : m >= from - BUCKETS) => Len(r[k]) = Len(b[k])
             /\ \A m \in Entries(b[k]) : m \in Int
  <2>1. b[k] \in Seq(1 .. MaxMinutes) /\ Len(b[k]) <= BUCKETS /\ \A m \in Entries(b[k]) : m \in Int
    BY ListsAreSequences
  <2>2. PICK T : T = 1 .. MaxMinutes
    OBVIOUS
  <2>3. T \in SUBSET Int /\ b[k] \in Seq(T)
    BY <1>1, <2>1, <2>2
  <2>4. PICK l : l = b[k]
    OBVIOUS
  <2>5. l \in Seq(T) /\ r[k] = Recent(l, from)
    BY <2>3, <2>4
  <2>6. PICK p : p = Recent(l, from)
    OBVIOUS
  <2>7. /\ p \in Seq(T) /\ Len(p) <= Len(l)
        /\ Ascending(l) => Ascending(p)
        /\ \A m : m \in Entries(p) <=> m \in Entries(l) /\ m >= from - BUCKETS
        /\ (\A m \in Entries(l) : m >= from - BUCKETS) => Len(p) = Len(l)
    BY <2>3, <2>5, <2>6, RecentList
  <2>8. p = r[k] /\ l = b[k] /\ Len(l) \in Nat /\ Len(p) \in Nat
    BY <2>4, <2>5, <2>6, <2>7
  <2> QED BY <2>1, <2>2, <2>7, <2>8
<1>3. r \in FullLists
  <2>1. r \in [Kinds -> Seq(1 .. MaxMinutes)]
    BY <1>2
  <2>2. \A k \in Kinds : Len(r[k]) <= BUCKETS
    BY <1>1, <1>2
  <2> QED BY <2>1, <2>2 DEF FullLists, Lists
<1>4. ASSUME NEW c, Below(b, c, now)
      PROVE  Below(r, c, now)
  BY <1>2, <1>4 DEF Below
<1>5. ASSUME NEW t \in [Kinds -> SUBSET (1 .. MaxMinutes)], Covers(b, t, now)
      PROVE  Covers(r, t, now)
  <2>1. ASSUME NEW k \in Kinds, NEW m \in t[k]
        PROVE  \/ m < now - BUCKETS
               \/ m \in Entries(r[k])
               \/ Len(r[k]) = BUCKETS /\ \A n \in Entries(r[k]) : n > m
    <3>1. m \in Int
      BY <1>1
    <3>2. CASE m \in Entries(b[k])
      <4>1. m >= from - BUCKETS => m \in Entries(r[k])
        BY <1>2, <3>2, Zenon
      <4> QED BY <1>1, <3>1, <4>1
    <3>3. CASE Len(b[k]) = BUCKETS /\ \A n \in Entries(b[k]) : n > m
      <4>1. CASE \A n \in Entries(b[k]) : n >= from - BUCKETS
        <5>1. Len(r[k]) = BUCKETS /\ \A n : n \in Entries(r[k]) => n \in Entries(b[k])
          BY <1>2, <3>3, <4>1, Zenon
        <5> QED BY <3>3, <5>1
      <4>2. CASE \E n \in Entries(b[k]) : ~(n >= from - BUCKETS)
        <5>1. PICK n \in Int : n > m /\ ~(n >= from - BUCKETS)
          BY <1>2, <3>3, <4>2
        <5> QED BY <1>1, <3>1, <5>1
      <4> QED BY <4>1, <4>2
    <3> QED BY <1>5, <3>2, <3>3 DEF Covers
  <2> QED BY <2>1 DEF Covers
<1> QED BY <1>3, <1>4, <1>5

----------------------------------------------------------------------------
(* Files                                                                    *)

LEMMA EmptyFiles ==
  /\ IsFile(Blank) /\ IsFile(NoFile) /\ NoFile.synced = TRUE
  /\ NoFile.buckets.by = "nobody" /\ Hole.by = "nobody" /\ Hole.val \in Currents
  /\ NoCopy \in FullLists
<1>1. MaxMinutes \in Nat /\ BUCKETS \in Nat
  BY PingAssumption
<1>2. Hole.by = "nobody" /\ Hole.val \in Currents /\ "nobody" \in Writers
  BY <1>1 DEF Hole, Currents, Nothing, Writers
<1>3. NoCopy \in FullLists
  BY <1>1 DEF NoCopy, FullLists, Lists
<1>4. /\ DOMAIN Blank = {"buckets", "cur", "synced"} /\ Blank.buckets = Hole
      /\ Blank.cur = Hole /\ Blank.synced = FALSE
  BY DEF Blank
<1>5. /\ DOMAIN NoFile = {"buckets", "cur", "synced"} /\ NoFile.buckets = Hole
      /\ NoFile.cur = Hole /\ NoFile.synced = TRUE
  BY DEF Blank, NoFile
<1> QED BY <1>2, <1>3, <1>4, <1>5 DEF IsFile

\* One piece of a file is written.
WithPiece(d, g, piece, text) == [d EXCEPT ![g][piece] = text, ![g].synced = FALSE]

LEMMA BucketsArePut ==
  ASSUME NEW d, AreFiles(d), NEW g \in Files, NEW text, text.by \in Writers,
         text.by # "nobody" => text.val \in FullLists,
         NEW new, new = WithPiece(d, g, "buckets", text)
  PROVE  /\ AreFiles(new) /\ \A f \in Files \ {g} : new[f] = d[f]
         /\ new[g].buckets = text /\ new[g].cur = d[g].cur
<1>1. PICK old : old = d[g]
  OBVIOUS
<1>2. PICK file : file = [[old EXCEPT !["buckets"] = text] EXCEPT !.synced = FALSE]
  OBVIOUS
<1>3. new = [f \in Files |-> IF f = g THEN file ELSE d[f]]
  <2>1. d = [f \in Files |-> d[f]]
    BY DEF AreFiles
  <2> QED BY <1>1, <1>2, <2>1 DEF WithPiece
<1>4. IsFile(old)
  BY <1>1 DEF AreFiles
<1>5. /\ DOMAIN file = {"buckets", "cur", "synced"} /\ file.buckets = text
      /\ file.cur = old.cur /\ file.synced = FALSE
  BY <1>2, <1>4 DEF IsFile
<1>6. IsFile(file)
  BY <1>4, <1>5 DEF IsFile
<1>7. AreFiles(new) /\ new[g] = file /\ \A f \in Files \ {g} : new[f] = d[f]
  <2>1. \A f \in Files : new[f] = IF f = g THEN file ELSE d[f]
    BY <1>3
  <2>2. \A f \in Files : IsFile(new[f])
    BY <1>6, <2>1 DEF AreFiles
  <2>3. new = [f \in Files |-> new[f]]
    BY <1>3
  <2> QED BY <2>1, <2>2, <2>3 DEF AreFiles
<1> QED BY <1>1, <1>5, <1>7

LEMMA CurIsPut ==
  ASSUME NEW d, AreFiles(d), NEW g \in Files, NEW text, text.by \in Writers,
         text.val \in Currents,
         NEW new, new = WithPiece(d, g, "cur", text)
  PROVE  /\ AreFiles(new) /\ \A f \in Files \ {g} : new[f] = d[f]
         /\ new[g].buckets = d[g].buckets /\ new[g].cur = text
<1>1. PICK old : old = d[g]
  OBVIOUS
<1>2. PICK file : file = [[old EXCEPT !["cur"] = text] EXCEPT !.synced = FALSE]
  OBVIOUS
<1>3. new = [f \in Files |-> IF f = g THEN file ELSE d[f]]
  <2>1. d = [f \in Files |-> d[f]]
    BY DEF AreFiles
  <2> QED BY <1>1, <1>2, <2>1 DEF WithPiece
<1>4. IsFile(old)
  BY <1>1 DEF AreFiles
<1>5. /\ DOMAIN file = {"buckets", "cur", "synced"} /\ file.buckets = old.buckets
      /\ file.cur = text /\ file.synced = FALSE
  BY <1>2, <1>4 DEF IsFile
<1>6. IsFile(file)
  BY <1>4, <1>5 DEF IsFile
<1>7. AreFiles(new) /\ new[g] = file /\ \A f \in Files \ {g} : new[f] = d[f]
  <2>1. \A f \in Files : new[f] = IF f = g THEN file ELSE d[f]
    BY <1>3
  <2>2. \A f \in Files : IsFile(new[f])
    BY <1>6, <2>1 DEF AreFiles
  <2>3. new = [f \in Files |-> new[f]]
    BY <1>3
  <2> QED BY <2>1, <2>2, <2>3 DEF AreFiles
<1> QED BY <1>1, <1>5, <1>7

Synced(d, g) == [d EXCEPT ![g].synced = TRUE]

LEMMA FileIsSynced ==
  ASSUME NEW d, AreFiles(d), NEW g \in Files, NEW new, new = Synced(d, g)
  PROVE  /\ AreFiles(new) /\ \A f \in Files \ {g} : new[f] = d[f]
         /\ new[g].buckets = d[g].buckets /\ new[g].cur = d[g].cur /\ new[g].synced
<1>1. PICK old : old = d[g]
  OBVIOUS
<1>2. PICK file : file = [old EXCEPT !.synced = TRUE]
  OBVIOUS
<1>3. new = [f \in Files |-> IF f = g THEN file ELSE d[f]]
  <2>1. d = [f \in Files |-> d[f]]
    BY DEF AreFiles
  <2> QED BY <1>1, <1>2, <2>1 DEF Synced
<1>4. IsFile(old)
  BY <1>1 DEF AreFiles
<1>5. /\ DOMAIN file = {"buckets", "cur", "synced"} /\ file.buckets = old.buckets
      /\ file.cur = old.cur /\ file.synced = TRUE
  BY <1>2, <1>4 DEF IsFile
<1>6. IsFile(file)
  BY <1>4, <1>5 DEF IsFile
<1>7. AreFiles(new) /\ new[g] = file /\ \A f \in Files \ {g} : new[f] = d[f]
  <2>1. \A f \in Files : new[f] = IF f = g THEN file ELSE d[f]
    BY <1>3
  <2>2. \A f \in Files : IsFile(new[f])
    BY <1>6, <2>1 DEF AreFiles
  <2>3. new = [f \in Files |-> new[f]]
    BY <1>3
  <2> QED BY <2>1, <2>2, <2>3 DEF AreFiles
<1> QED BY <1>1, <1>5, <1>7

----------------------------------------------------------------------------
(* What the steps of a saver have in common                                 *)

LEMMA ProcessTypeStays ==
  ASSUME ProcessType, NEW s \in Savers, Runs(s), s = "worker" \/ step[s] # "idle",
         NEW at \in Steps, step' = [step EXCEPT ![s] = at],
         UNCHANGED <<clock, memory, machine, loading>>
  PROVE  ProcessType' /\ (LoadType => LoadType')
<1>1. step' \in [Savers -> Steps]
  BY DEF ProcessType
<1>2. process' = process /\ signals' = signals /\ stops' = stops /\ process = "running"
  BY DEF machine, Runs
<1>3. signals = 0 => step'["first"] = "idle"
  BY DEF ProcessType, Savers
<1>4. signals < 2 => step'["second"] = "idle"
  BY DEF ProcessType, Savers
<1>5. ProcessType'
  BY <1>1, <1>2, <1>3, <1>4 DEF ProcessType
<1>6. ASSUME LoadType
      PROVE  LoadType'
  <2>1. /\ load' = load /\ floor' = floor /\ (Ended' <=> Ended) /\ (Empty' <=> Empty)
        /\ load \in {"unread", "done", "failed"} \cup Kinds /\ floor \in 0 .. MaxMinutes
    BY <1>6 DEF loading, memory, Ended, Empty, LoadType
  <2>2. CASE s = "worker"
    <3>1. Ended /\ Kinds \subseteq {"ping", "wifi"}
      BY <2>2, PingAssumption DEF Runs, Started, Ended
    <3> QED BY <1>2, <1>6, <2>1, <3>1 DEF LoadType, Ended
  <2>3. CASE s # "worker"
    <3>1. signals # 0 /\ step'["worker"] = step["worker"]
      BY <1>1, <2>3 DEF ProcessType, Savers
    <3>2. ~Loads'
      BY <1>2, <3>1 DEF Loads
    <3> QED BY <1>2, <1>6, <2>1, <3>1, <3>2 DEF LoadType
  <2> QED BY <2>2, <2>3
<1> QED BY <1>5, <1>6

Quiet(at) == at \in {"idle", "lock", "done"}

LEMMA OthersAreQuiet ==
  ASSUME ProcessType, OneSaver, NEW s \in Savers, Saving(s)
  PROVE  \A x \in Savers \ {s} : Quiet(step[x])
BY DEF OneSaver, Saving, Quiet

\* What a saver that has copied nothing has promised
LEMMA QuietIsEasy ==
  ASSUME NEW x \in Savers, Quiet(step'[x]) \/ step'[x] = "copy"
  PROVE  SaverInv(x)'
BY DEF SaverInv, CopyInv, Written, Copied, Quiet

LEMMA SaverMoves ==
  ASSUME ProcessType, OneSaver, NEW s \in Savers, Runs(s),
         \A x \in Savers \ {s} : Quiet(step[x]),
         NEW at \in Steps \ {"lock"}, step' = [step EXCEPT ![s] = at],
         \A x \in Savers \ {s} : fd'[x] = fd[x],
         fd'[s] = IF at \in {"buckets", "cur", "sync"} THEN "tmp" ELSE "none"
  PROVE  OneSaver' /\ step'[s] = at /\ \A x \in Savers \ {s} : SaverInv(x)'
<1>1. step \in [Savers -> Steps]
  BY DEF ProcessType
<1>2. step'[s] = at /\ \A x \in Savers \ {s} : step'[x] = step[x]
  BY <1>1
<1>3. \A x \in Savers \ {s} : ~Saving(x)' /\ ~Saving(x)
  BY <1>2 DEF Quiet, Saving
<1>4. \A x, y \in Savers : Saving(x)' /\ Saving(y)' => x = y
  BY <1>3
<1>5. Saving("second")' \/ step'["second"] = "done" => ~Saving("first")'
  <2>1. CASE s = "first"
    BY <1>2, <2>1 DEF Runs, Saving, Savers
  <2>2. CASE s # "first"
    BY <1>3, <2>2 DEF Savers
  <2> QED BY <2>1, <2>2
<1>6. \A x \in Savers : fd'[x] = IF step'[x] \in {"buckets", "cur", "sync"} THEN "tmp" ELSE "none"
  <2>1. ASSUME NEW x \in Savers \ {s}
        PROVE  fd'[x] = IF step'[x] \in {"buckets", "cur", "sync"} THEN "tmp" ELSE "none"
    BY <1>2 DEF OneSaver
  <2> QED BY <1>2, <2>1
<1>7. OneSaver'
  BY <1>4, <1>5, <1>6 DEF OneSaver
<1>8. ASSUME NEW x \in Savers \ {s}
      PROVE  SaverInv(x)'
  <2>1. Quiet(step'[x])
    BY <1>2
  <2> QED BY <2>1, QuietIsEasy
<1> QED BY <1>2, <1>7, <1>8

LEMMA MemoryStays ==
  ASSUME UNCHANGED <<clock, memory, machine, loading, spoiled, kept, durable>>
  PROVE  (MemoryType => MemoryType') /\ (MemoryInv => MemoryInv')
BY DEF memory, machine, loading, MemoryType, MemoryInv, Trusted, Below, Covers

LEMMA FilesStay ==
  ASSUME UNCHANGED <<clock, settled, spoiled, kept, durable>>, data'["state"] = data["state"], data'["old"] = data["old"],
         FileInv
  PROVE  FileInv'
BY DEF FileInv, StateFiles, Sealed, Intact, Below, Covers

----------------------------------------------------------------------------
(* save_state                                                               *)


LEMMA TakeLockKeeps ==
  ASSUME IInv, NEW s \in Savers, TakeLock(s)
  PROVE  IInv'
<1>1. /\ Runs(s) /\ step[s] = IF s = "worker" THEN "idle" ELSE "lock"
      /\ step' = [step EXCEPT ![s] = "copy"]
      /\ overlapped' = (overlapped \/ \E x \in Savers \ {s} : Saving(x))
      /\ LockFree
      /\ UNCHANGED <<clock, memory, machine, loading, spoiled, kept, durable>>
      /\ UNCHANGED <<data, settled, copy, fd>>
  BY DEF TakeLock, disks, history
<1>2. ProcessType' /\ LoadType'
  BY <1>1, ProcessTypeStays DEF IInv, TypeInv, Steps
<1>3. MemoryType'
  BY <1>1, MemoryStays DEF IInv, TypeInv
<1>4. SaveType'
  BY <1>1 DEF IInv, TypeInv, SaveType, AreFiles
<1>5. ASSUME ~overlapped'
      PROVE  SafeInv'
  <2>1. SafeInv /\ \A x \in Savers \ {s} : ~Saving(x)
    BY <1>1, <1>5 DEF IInv
  <2>2. \A x \in Savers \ {s} : Quiet(step[x])
    BY <2>1 DEF Saving, Quiet
  <2>3. fd'[s] = "none" /\ \A x \in Savers \ {s} : fd'[x] = fd[x]
    BY <1>1, <2>1 DEF SafeInv, OneSaver
  <2>4. OneSaver' /\ step'[s] = "copy" /\ \A x \in Savers \ {s} : SaverInv(x)'
    BY <1>1, <2>1, <2>2, <2>3, SaverMoves DEF IInv, TypeInv, SafeInv, Steps
  <2>5. SaverInv(s)'
    BY <2>4, QuietIsEasy
  <2>6. MemoryInv'
    BY <1>1, <2>1, MemoryStays DEF SafeInv
  <2>7. FileInv'
    BY <1>1, <2>1, FilesStay DEF SafeInv
  <2> QED BY <2>4, <2>5, <2>6, <2>7 DEF SafeInv
<1> QED BY <1>2, <1>3, <1>4, <1>5 DEF IInv, TypeInv

LEMMA CopyStateKeeps ==
  ASSUME IInv, NEW s \in Savers, CopyState(s)
  PROVE  IInv'
<1>1. /\ Runs(s) /\ step[s] = "copy"
      /\ step' = [step EXCEPT ![s] = "open"]
      /\ copy' = [copy EXCEPT ![s] = buckets]
      /\ UNCHANGED <<clock, memory, machine, loading, spoiled, kept, durable>>
      /\ UNCHANGED <<data, settled, fd, overlapped>>
  BY DEF CopyState, disks, history
<1>2. ProcessType' /\ LoadType'
  BY <1>1, ProcessTypeStays DEF IInv, TypeInv, Steps
<1>3. MemoryType'
  BY <1>1, MemoryStays DEF IInv, TypeInv
<1>4. SaveType' /\ copy'[s] = buckets
  BY <1>1 DEF IInv, TypeInv, SaveType, MemoryType, AreFiles
<1>5. ASSUME ~overlapped'
      PROVE  SafeInv'
  <2>1. SafeInv
    BY <1>1, <1>5 DEF IInv
  <2>2. \A x \in Savers \ {s} : Quiet(step[x])
    BY <1>1, <2>1, OthersAreQuiet DEF Saving, IInv, TypeInv, SafeInv
  <2>3. fd'[s] = "none" /\ \A x \in Savers \ {s} : fd'[x] = fd[x]
    BY <1>1, <2>1 DEF SafeInv, OneSaver
  <2>4. OneSaver' /\ step'[s] = "open" /\ \A x \in Savers \ {s} : SaverInv(x)'
    BY <1>1, <2>1, <2>2, <2>3, SaverMoves DEF IInv, TypeInv, SafeInv, Steps
  <2>5. SaverInv(s)'
    <3>1. Trusted => Below(buckets, cur, clock) /\ Covers(buckets, kept, clock)
      BY <1>1, <2>1 DEF SafeInv, MemoryInv, Runs
    <3>2. Covers(buckets, MinutesOf(buckets), clock)
      BY CoversSelf
    <3>3. /\ copy'[s] = buckets /\ buckets' = buckets /\ cur' = cur /\ clock' = clock
          /\ kept' = kept /\ (Trusted' <=> Trusted)
      BY <1>1, <1>4 DEF memory, loading, Trusted
    <3>4. CopyInv(step[s], copy[s])'
      BY <3>1, <3>2, <3>3 DEF CopyInv, Below, Covers, MinutesOf
    <3> QED BY <2>4, <3>4 DEF SaverInv, Written
  <2>6. MemoryInv'
    BY <1>1, <2>1, MemoryStays DEF SafeInv
  <2>7. FileInv'
    BY <1>1, <2>1, FilesStay DEF SafeInv
  <2> QED BY <2>4, <2>5, <2>6, <2>7 DEF SafeInv
<1> QED BY <1>2, <1>3, <1>4, <1>5 DEF IInv, TypeInv

\* The steps after the copy and before the replacement
LEMMA CopyStays ==
  ASSUME NEW s \in Savers, UNCHANGED <<clock, memory, loading, spoiled, kept>>,
         copy'[s] = copy[s], Copied(step[s]), CopyInv(step[s], copy[s])
  PROVE  CopyInv(step[s], copy[s])' /\ (Trusted => Below(copy[s], cur, clock))
BY DEF memory, loading, Trusted, CopyInv, Below, Covers, MinutesOf

LEMMA OpenTmpKeeps ==
  ASSUME IInv, NEW s \in Savers, OpenTmp(s)
  PROVE  IInv'
<1>1. /\ Runs(s) /\ step[s] = "open"
      /\ step' = [step EXCEPT ![s] = "buckets"]
      /\ data' = [data EXCEPT !["tmp"] = Blank]
      /\ fd' = [fd EXCEPT ![s] = "tmp"]
      /\ UNCHANGED <<clock, memory, machine, loading, spoiled, kept, durable>>
      /\ UNCHANGED <<copy, settled, overlapped>>
  BY DEF OpenTmp, history
<1>2. ProcessType' /\ LoadType'
  BY <1>1, ProcessTypeStays DEF IInv, TypeInv, Steps
<1>3. MemoryType'
  BY <1>1, MemoryStays DEF IInv, TypeInv
<1>4. AreFiles(data)' /\ data'["state"] = data["state"] /\ data'["old"] = data["old"]
  <2>1. PICK new : new = data'
    OBVIOUS
  <2>2. AreFiles(data) /\ IsFile(Blank) /\ "tmp" \in Files
    BY EmptyFiles DEF IInv, TypeInv, SaveType, Files
  <2>3. AreFiles(new) /\ \A f \in Files \ {"tmp"} : new[f] = data[f]
    BY <1>1, <2>1, <2>2 DEF AreFiles
  <2> QED BY <2>1, <2>3 DEF AreFiles, Files
<1>5. SaveType' /\ fd'[s] = "tmp"
  BY <1>1, <1>4 DEF IInv, TypeInv, SaveType, Files
<1>6. ASSUME ~overlapped'
      PROVE  SafeInv'
  <2>1. SafeInv
    BY <1>1, <1>6 DEF IInv
  <2>2. \A x \in Savers \ {s} : Quiet(step[x])
    BY <1>1, <2>1, OthersAreQuiet DEF Saving, IInv, TypeInv, SafeInv
  <2>3. \A x \in Savers \ {s} : fd'[x] = fd[x]
    BY <1>1 DEF IInv, TypeInv, SaveType
  <2>4. OneSaver' /\ step'[s] = "buckets" /\ \A x \in Savers \ {s} : SaverInv(x)'
    BY <1>1, <1>5, <2>1, <2>2, <2>3, SaverMoves DEF IInv, TypeInv, SafeInv, Steps
  <2>5. SaverInv(s)'
    <3>1. CopyInv(step[s], copy[s])'
      BY <1>1, <2>1, CopyStays DEF SafeInv, SaverInv, Copied
    <3> QED BY <2>4, <3>1 DEF SaverInv, Written
  <2>6. MemoryInv'
    BY <1>1, <2>1, MemoryStays DEF SafeInv
  <2>7. FileInv'
    BY <1>1, <1>4, <2>1, FilesStay DEF SafeInv
  <2> QED BY <2>4, <2>5, <2>6, <2>7 DEF SafeInv
<1> QED BY <1>2, <1>3, <1>5, <1>6 DEF IInv, TypeInv

\* The temporary file of a saver that writes it
LEMMA OwnTmp ==
  ASSUME SaveType, NEW s \in Savers, fd[s] # "gone", fd[s] # "none"
  PROVE  fd[s] \in Files /\ AreFiles(data)
BY DEF SaveType

LEMMA WriteBucketsKeeps ==
  ASSUME IInv, NEW s \in Savers, WriteBuckets(s)
  PROVE  IInv'
<1>1. /\ Runs(s) /\ step[s] = "buckets"
      /\ step' = [step EXCEPT ![s] = "cur"]
      /\ Put(s, "buckets", [by |-> s, val |-> copy[s]])
      /\ UNCHANGED <<clock, memory, machine, loading, spoiled, kept, durable>>
      /\ UNCHANGED <<copy, fd, settled, overlapped>>
  BY DEF WriteBuckets, history
<1>2. ProcessType' /\ LoadType'
  BY <1>1, ProcessTypeStays DEF IInv, TypeInv, Steps
<1>3. MemoryType'
  BY <1>1, MemoryStays DEF IInv, TypeInv
<1>4. CASE fd[s] # "gone" /\ fd[s] # "none"
  <2>1. PICK new : new = data'
    OBVIOUS
  <2>2. PICK g \in Files : g = fd[s]
    BY <1>4, OwnTmp DEF IInv, TypeInv
  <2>3. PICK text : text = [by |-> s, val |-> copy[s]]
    OBVIOUS
  <2>4. AreFiles(data) /\ text.by = s /\ s \in Writers /\ text.val = copy[s] /\ copy[s] \in FullLists
    BY <2>3 DEF IInv, TypeInv, SaveType, Writers
  <2>5. new = WithPiece(data, g, "buckets", text)
    BY <1>1, <1>4, <2>1, <2>2, <2>3 DEF Put, WithPiece
  <2>6. /\ AreFiles(new) /\ \A f \in Files \ {g} : new[f] = data[f]
        /\ new[g].buckets = text /\ new[g].cur = data[g].cur
    BY <2>4, <2>5, BucketsArePut
  <2>7. SaveType'
    BY <1>1, <2>1, <2>6 DEF IInv, TypeInv, SaveType, AreFiles
  <2>8. ASSUME ~overlapped'
        PROVE  SafeInv'
    <3>1. SafeInv
      BY <1>1, <2>8 DEF IInv
    <3>2. \A x \in Savers \ {s} : Quiet(step[x])
      BY <1>1, <3>1, OthersAreQuiet DEF Saving, IInv, TypeInv, SafeInv
    <3>3. fd[s] = "tmp"
      BY <1>1, <3>1 DEF SafeInv, OneSaver
    <3>4. OneSaver' /\ step'[s] = "cur" /\ \A x \in Savers \ {s} : SaverInv(x)'
      BY <1>1, <3>1, <3>2, <3>3, SaverMoves DEF IInv, TypeInv, SafeInv, Steps
    <3>5. SaverInv(s)'
      <4>1. CopyInv(step[s], copy[s])'
        BY <1>1, <3>1, CopyStays DEF SafeInv, SaverInv, Copied
      <4>2. data'["tmp"].buckets.by = s /\ data'["tmp"].buckets.val = copy'[s]
        BY <1>1, <2>1, <2>2, <2>4, <2>6, <3>3
      <4> QED BY <3>4, <4>1, <4>2 DEF SaverInv, Written
    <3>6. MemoryInv'
      BY <1>1, <3>1, MemoryStays DEF SafeInv
    <3>7. data'["state"] = data["state"] /\ data'["old"] = data["old"]
      BY <2>1, <2>2, <2>6, <3>3 DEF Files
    <3>8. FileInv'
      BY <1>1, <3>1, <3>7, FilesStay DEF SafeInv
    <3> QED BY <3>4, <3>5, <3>6, <3>8 DEF SafeInv
  <2> QED BY <1>2, <1>3, <2>7, <2>8 DEF IInv, TypeInv
<1>5. CASE fd[s] = "gone" \/ fd[s] = "none"
  <2>1. overlapped
    BY <1>1, <1>5 DEF IInv, SafeInv, OneSaver
  <2>2. SaveType'
    <3>1. data' = data
      <4>1. CASE fd[s] = "gone"
        BY <1>1, <4>1 DEF Put
      <4>2. CASE fd[s] = "none"
        <5>1. PICK text : text = [by |-> s, val |-> copy[s]]
          OBVIOUS
        <5>2. data' = [data EXCEPT !["none"]["buckets"] = text, !["none"].synced = FALSE]
          BY <1>1, <4>2, <5>1 DEF Put
        <5>3. data = [f \in Files |-> data[f]] /\ "none" \notin Files
          BY DEF IInv, TypeInv, SaveType, AreFiles, Files
        <5> QED BY <5>2, <5>3
      <4> QED BY <1>5, <4>1, <4>2
    <3> QED BY <1>1, <3>1 DEF IInv, TypeInv, SaveType, AreFiles
  <2> QED BY <1>1, <1>2, <1>3, <2>1, <2>2 DEF IInv, TypeInv
<1> QED BY <1>4, <1>5

LEMMA WriteCurKeeps ==
  ASSUME IInv, NEW s \in Savers, WriteCur(s)
  PROVE  IInv'
<1>1. /\ Runs(s) /\ step[s] = "cur"
      /\ step' = [step EXCEPT ![s] = "sync"]
      /\ Put(s, "cur", [by |-> s, val |-> cur])
      /\ UNCHANGED <<clock, memory, machine, loading, spoiled, kept, durable>>
      /\ UNCHANGED <<copy, fd, settled, overlapped>>
  BY DEF WriteCur, history
<1>2. ProcessType' /\ LoadType'
  BY <1>1, ProcessTypeStays DEF IInv, TypeInv, Steps
<1>3. MemoryType'
  BY <1>1, MemoryStays DEF IInv, TypeInv
<1>4. CASE fd[s] # "gone" /\ fd[s] # "none"
  <2>1. PICK new : new = data'
    OBVIOUS
  <2>2. PICK g \in Files : g = fd[s]
    BY <1>4, OwnTmp DEF IInv, TypeInv
  <2>3. PICK text : text = [by |-> s, val |-> cur]
    OBVIOUS
  <2>4. AreFiles(data) /\ text.by = s /\ s \in Writers /\ text.val = cur /\ cur \in Currents
    BY <2>3 DEF IInv, TypeInv, SaveType, MemoryType, Writers
  <2>5. new = WithPiece(data, g, "cur", text)
    BY <1>1, <1>4, <2>1, <2>2, <2>3 DEF Put, WithPiece
  <2>6. /\ AreFiles(new) /\ \A f \in Files \ {g} : new[f] = data[f]
        /\ new[g].buckets = data[g].buckets /\ new[g].cur = text
    BY <2>4, <2>5, CurIsPut
  <2>7. SaveType'
    BY <1>1, <2>1, <2>6 DEF IInv, TypeInv, SaveType, AreFiles
  <2>8. ASSUME ~overlapped'
        PROVE  SafeInv'
    <3>1. SafeInv
      BY <1>1, <2>8 DEF IInv
    <3>2. \A x \in Savers \ {s} : Quiet(step[x])
      BY <1>1, <3>1, OthersAreQuiet DEF Saving, IInv, TypeInv, SafeInv
    <3>3. fd[s] = "tmp"
      BY <1>1, <3>1 DEF SafeInv, OneSaver
    <3>4. OneSaver' /\ step'[s] = "sync" /\ \A x \in Savers \ {s} : SaverInv(x)'
      BY <1>1, <3>1, <3>2, <3>3, SaverMoves DEF IInv, TypeInv, SafeInv, Steps
    <3>5. SaverInv(s)'
      <4>1. CopyInv(step[s], copy[s])' /\ (Trusted => Below(copy[s], cur, clock))
        BY <1>1, <3>1, CopyStays DEF SafeInv, SaverInv, Copied
      <4>2. data["tmp"].buckets.by = s /\ data["tmp"].buckets.val = copy[s]
        BY <1>1, <3>1 DEF SafeInv, SaverInv, Written
      <4>3. /\ data'["tmp"].buckets.by = s /\ data'["tmp"].buckets.val = copy'[s]
            /\ data'["tmp"].cur.by = s /\ data'["tmp"].cur.val = cur
        BY <1>1, <2>1, <2>2, <2>4, <2>6, <3>3, <4>2
      <4>4. Trusted' => Below(copy'[s], data'["tmp"].cur.val, clock')
        BY <1>1, <4>1, <4>3 DEF Trusted, loading
      <4> QED BY <3>4, <4>1, <4>3, <4>4 DEF SaverInv, Written, Below
    <3>6. MemoryInv'
      BY <1>1, <3>1, MemoryStays DEF SafeInv
    <3>7. data'["state"] = data["state"] /\ data'["old"] = data["old"]
      BY <2>1, <2>2, <2>6, <3>3 DEF Files
    <3>8. FileInv'
      BY <1>1, <3>1, <3>7, FilesStay DEF SafeInv
    <3> QED BY <3>4, <3>5, <3>6, <3>8 DEF SafeInv
  <2> QED BY <1>2, <1>3, <2>7, <2>8 DEF IInv, TypeInv
<1>5. CASE fd[s] = "gone" \/ fd[s] = "none"
  <2>1. overlapped
    BY <1>1, <1>5 DEF IInv, SafeInv, OneSaver
  <2>2. SaveType'
    <3>1. data' = data
      <4>1. CASE fd[s] = "gone"
        BY <1>1, <4>1 DEF Put
      <4>2. CASE fd[s] = "none"
        <5>1. PICK text : text = [by |-> s, val |-> cur]
          OBVIOUS
        <5>2. data' = [data EXCEPT !["none"]["cur"] = text, !["none"].synced = FALSE]
          BY <1>1, <4>2, <5>1 DEF Put
        <5>3. data = [f \in Files |-> data[f]] /\ "none" \notin Files
          BY DEF IInv, TypeInv, SaveType, AreFiles, Files
        <5> QED BY <5>2, <5>3
      <4> QED BY <1>5, <4>1, <4>2
    <3> QED BY <1>1, <3>1 DEF IInv, TypeInv, SaveType, AreFiles
  <2> QED BY <1>1, <1>2, <1>3, <2>1, <2>2 DEF IInv, TypeInv
<1> QED BY <1>4, <1>5

LEMMA SyncTmpKeeps ==
  ASSUME IInv, NEW s \in Savers, SyncTmp(s)
  PROVE  IInv'
<1>1. /\ Runs(s) /\ step[s] = "sync"
      /\ step' = [step EXCEPT ![s] = "replace"]
      /\ data' = IF fd[s] = "gone" THEN data ELSE [data EXCEPT ![fd[s]].synced = TRUE]
      /\ fd' = [fd EXCEPT ![s] = "none"]
      /\ UNCHANGED <<clock, memory, machine, loading, spoiled, kept, durable>>
      /\ UNCHANGED <<copy, settled, overlapped>>
  BY DEF SyncTmp, history
<1>2. ProcessType' /\ LoadType'
  BY <1>1, ProcessTypeStays DEF IInv, TypeInv, Steps
<1>3. MemoryType'
  BY <1>1, MemoryStays DEF IInv, TypeInv
<1>4. fd' \in [Savers -> Files \cup {"gone", "none"}] /\ fd'[s] = "none"
      /\ \A x \in Savers \ {s} : fd'[x] = fd[x]
  BY <1>1 DEF IInv, TypeInv, SaveType
<1>5. CASE fd[s] # "gone" /\ fd[s] # "none"
  <2>1. PICK new : new = data'
    OBVIOUS
  <2>2. PICK g \in Files : g = fd[s]
    BY <1>5, OwnTmp DEF IInv, TypeInv
  <2>3. AreFiles(data)
    BY DEF IInv, TypeInv, SaveType
  <2>4. new = Synced(data, g)
    BY <1>1, <1>5, <2>1, <2>2 DEF Synced
  <2>5. /\ AreFiles(new) /\ \A f \in Files \ {g} : new[f] = data[f]
        /\ new[g].buckets = data[g].buckets /\ new[g].cur = data[g].cur /\ new[g].synced
    BY <2>3, <2>4, FileIsSynced
  <2>6. SaveType'
    BY <1>1, <1>4, <2>1, <2>5 DEF IInv, TypeInv, SaveType, AreFiles
  <2>7. ASSUME ~overlapped'
        PROVE  SafeInv'
    <3>1. SafeInv
      BY <1>1, <2>7 DEF IInv
    <3>2. \A x \in Savers \ {s} : Quiet(step[x])
      BY <1>1, <3>1, OthersAreQuiet DEF Saving, IInv, TypeInv, SafeInv
    <3>3. fd[s] = "tmp"
      BY <1>1, <3>1 DEF SafeInv, OneSaver
    <3>4. OneSaver' /\ step'[s] = "replace" /\ \A x \in Savers \ {s} : SaverInv(x)'
      BY <1>1, <1>4, <3>1, <3>2, SaverMoves DEF IInv, TypeInv, SafeInv, Steps
    <3>5. SaverInv(s)'
      <4>1. CopyInv(step[s], copy[s])'
        BY <1>1, <3>1, CopyStays DEF SafeInv, SaverInv, Copied
      <4>2. /\ data["tmp"].buckets.by = s /\ data["tmp"].buckets.val = copy[s]
            /\ data["tmp"].cur.by = s /\ (Trusted => Below(copy[s], data["tmp"].cur.val, clock))
        BY <1>1, <3>1 DEF SafeInv, SaverInv, Written
      <4>3. /\ data'["tmp"].buckets = data["tmp"].buckets /\ data'["tmp"].cur = data["tmp"].cur
            /\ data'["tmp"].synced
        BY <2>1, <2>2, <2>5, <3>3
      <4>4. /\ data'["tmp"].buckets.by = s /\ data'["tmp"].buckets.val = copy'[s]
            /\ data'["tmp"].cur.by = s
            /\ Trusted' => Below(copy'[s], data'["tmp"].cur.val, clock')
        BY <1>1, <4>2, <4>3 DEF Trusted, loading
      <4> QED BY <3>4, <4>1, <4>3, <4>4 DEF SaverInv, Written, Below
    <3>6. MemoryInv'
      BY <1>1, <3>1, MemoryStays DEF SafeInv
    <3>7. data'["state"] = data["state"] /\ data'["old"] = data["old"]
      BY <2>1, <2>2, <2>5, <3>3 DEF Files
    <3>8. FileInv'
      BY <1>1, <3>1, <3>7, FilesStay DEF SafeInv
    <3> QED BY <3>4, <3>5, <3>6, <3>8 DEF SafeInv
  <2> QED BY <1>2, <1>3, <2>6, <2>7 DEF IInv, TypeInv
<1>6. CASE fd[s] = "gone" \/ fd[s] = "none"
  <2>1. overlapped
    BY <1>1, <1>6 DEF IInv, SafeInv, OneSaver
  <2>2. data' = data
    <3>1. data = [f \in Files |-> data[f]] /\ "none" \notin Files
      BY DEF IInv, TypeInv, SaveType, AreFiles, Files
    <3>2. CASE fd[s] = "gone"
      BY <1>1, <3>2
    <3>3. CASE fd[s] = "none"
      <4>1. data' = [data EXCEPT !["none"].synced = TRUE]
        BY <1>1, <3>3
      <4> QED BY <3>1, <4>1
    <3> QED BY <1>6, <3>2, <3>3
  <2>3. SaveType'
    BY <1>1, <1>4, <2>2 DEF IInv, TypeInv, SaveType, AreFiles
  <2> QED BY <1>1, <1>2, <1>3, <2>1, <2>3 DEF IInv, TypeInv
<1> QED BY <1>5, <1>6

\* What a saver adds to what is kept
LEMMA TakenGrows ==
  ASSUME NEW t \in Taken, NEW b \in FullLists,
         NEW taken, taken = [k \in Kinds |-> t[k] \cup Entries(b[k])]
  PROVE  taken \in Taken /\ \A k \in Kinds : taken[k] = t[k] \cup Entries(b[k])
<1>1. \A k \in Kinds : taken[k] = t[k] \cup Entries(b[k])
  OBVIOUS
<1>2. \A k \in Kinds : Entries(b[k]) \subseteq 1 .. MaxMinutes
  BY ListsAreSequences
<1>3. \A k \in Kinds : taken[k] \subseteq 1 .. MaxMinutes
  BY <1>1, <1>2 DEF Taken
<1>4. taken = [k \in Kinds |-> taken[k]]
  OBVIOUS
<1> QED BY <1>1, <1>3, <1>4 DEF Taken

\* A file that has what is kept has less, too.
LEMMA IntactLess ==
  ASSUME NEW d, NEW t \in Taken, NEW less \in Taken, NEW now,
         Intact(d, t, now), \A k \in Kinds : less[k] \subseteq t[k]
  PROVE  Intact(d, less, now)
<1>1. CASE d = NoFile /\ t = [k \in Kinds |-> {}]
  <2>1. \A k \in Kinds : less[k] = {}
    BY <1>1
  <2>2. less = [k \in Kinds |-> {}]
    BY <2>1 DEF Taken
  <2> QED BY <1>1, <2>2 DEF Intact
<1>2. CASE Covers(d.buckets.val, t, now)
  <2>1. Covers(d.buckets.val, less, now)
    BY <1>2 DEF Covers
  <2> QED BY <1>1, <2>1 DEF Intact
<1> QED BY <1>1, <1>2 DEF Intact

\* os.replace: what the saver has written, synced and covers is in STATE_FILE,
\* and what it has copied is in memory.
LEMMA ReplaceFileKeeps ==
  ASSUME IInv, NEW s \in Savers, ReplaceFile(s)
  PROVE  IInv'
<1>1. /\ Runs(s) /\ step[s] = "replace"
      /\ step' = [step EXCEPT ![s] = "dirsync"]
      /\ settled' = FALSE
      /\ kept' = [k \in Kinds |-> kept[k] \cup Entries(copy[s][k])]
      /\ spoiled' = (spoiled \/ load # "done")
      /\ UNCHANGED <<clock, memory, machine, loading>>
      /\ UNCHANGED <<copy, overlapped, durable>>
  BY DEF ReplaceFile
<1>2. PICK followed \in {settled, TRUE} :
        LET name == [tmp |-> "state", state |-> IF followed THEN "old" ELSE "gone",
                     old |-> IF followed THEN "gone" ELSE "old",
                     gone |-> "gone", none |-> "none"]
        IN  /\ data' = [tmp |-> NoFile, state |-> data["tmp"],
                        old |-> IF followed THEN data["state"] ELSE data["old"]]
            /\ fd' = [x \in Savers |-> name[fd[x]]]
  BY DEF ReplaceFile
<1>3. PICK name : name = [tmp |-> "state", state |-> IF followed THEN "old" ELSE "gone",
                          old |-> IF followed THEN "gone" ELSE "old",
                          gone |-> "gone", none |-> "none"]
  OBVIOUS
<1>4. PICK old : old = IF followed THEN data["state"] ELSE data["old"]
  OBVIOUS
<1>5. /\ data' = [tmp |-> NoFile, state |-> data["tmp"], old |-> old]
      /\ fd' = [x \in Savers |-> name[fd[x]]]
  BY <1>2, <1>3, <1>4
<1>6. ProcessType' /\ LoadType'
  BY <1>1, ProcessTypeStays DEF IInv, TypeInv, Steps
<1>7. PICK b \in FullLists : b = copy[s]
  BY DEF IInv, TypeInv, SaveType
<1>8. PICK taken : taken = kept'
  OBVIOUS
<1>9. taken \in Taken /\ \A k \in Kinds : taken[k] = kept[k] \cup Entries(b[k])
  <2>1. kept \in Taken /\ taken = [k \in Kinds |-> kept[k] \cup Entries(b[k])]
    BY <1>1, <1>7, <1>8 DEF IInv, TypeInv, MemoryType
  <2> QED BY <2>1, TakenGrows
<1>10. MemoryType'
  BY <1>1, <1>8, <1>9 DEF IInv, TypeInv, MemoryType, memory
<1>11. AreFiles(data)
  BY DEF IInv, TypeInv, SaveType
<1>12. IsFile(old) /\ IsFile(data["tmp"]) /\ IsFile(NoFile)
  BY <1>4, <1>11, EmptyFiles DEF AreFiles, Files
<1>13. PICK new : new = data'
  OBVIOUS
<1>14. new["tmp"] = NoFile /\ new["state"] = data["tmp"] /\ new["old"] = old
  BY <1>5, <1>13
<1>15. AreFiles(new)
  <2>1. new = [f \in Files |-> new[f]]
    BY <1>5, <1>13 DEF Files
  <2>2. \A f \in Files : IsFile(new[f])
    BY <1>12, <1>14 DEF Files
  <2> QED BY <2>1, <2>2 DEF AreFiles
<1>16. \A x \in Savers : fd'[x] = name[fd[x]]
  BY <1>5
<1>17. fd' \in [Savers -> Files \cup {"gone", "none"}]
  <2>1. \A g \in Files \cup {"gone", "none"} : name[g] \in Files \cup {"gone", "none"}
    BY <1>3 DEF Files
  <2>2. \A x \in Savers : fd[x] \in Files \cup {"gone", "none"}
    BY DEF IInv, TypeInv, SaveType
  <2> QED BY <1>5, <2>1, <2>2
<1>18. SaveType'
  BY <1>1, <1>13, <1>15, <1>17 DEF IInv, TypeInv, SaveType, AreFiles
<1>19. ASSUME ~overlapped'
       PROVE  SafeInv'
  <2>1. SafeInv
    BY <1>1, <1>19 DEF IInv
  <2>2. \A x \in Savers \ {s} : Quiet(step[x])
    BY <1>1, <2>1, OthersAreQuiet DEF Saving, IInv, TypeInv, SafeInv
  <2>3. \A x \in Savers : fd[x] = "none"
    BY <1>1, <2>1, <2>2 DEF SafeInv, OneSaver, Quiet
  <2>4. \A x \in Savers : fd'[x] = "none"
    BY <1>3, <1>16, <2>3
  <2>5. OneSaver' /\ step'[s] = "dirsync" /\ \A x \in Savers \ {s} : SaverInv(x)'
    BY <1>1, <2>1, <2>2, <2>3, <2>4, SaverMoves DEF IInv, TypeInv, SafeInv, Steps
  <2>6. SaverInv(s)'
    BY <2>5 DEF SaverInv, CopyInv, Copied, Written
  <2>7. /\ data["tmp"].buckets.by = s /\ data["tmp"].buckets.val = b
        /\ data["tmp"].cur.by = s /\ data["tmp"].synced
        /\ Trusted => /\ Below(b, data["tmp"].cur.val, clock)
                      /\ Below(b, cur, clock) /\ Covers(b, kept, clock)
                      /\ Covers(buckets, MinutesOf(b), clock)
                      /\ Below(buckets, cur, clock) /\ Covers(buckets, kept, clock)
    BY <1>1, <1>7, <2>1
       DEF SafeInv, SaverInv, Written, CopyInv, Copied, MemoryInv, Runs
  <2>8. data'["state"] = data["tmp"] /\ data'["old"] = old
    BY <1>13, <1>14
  <2>9. Trusted' => Trusted
    BY <1>1 DEF Trusted, loading
  <2>10. \A k \in Kinds : taken[k] = kept[k] \cup MinutesOf(b)[k]
    BY <1>9 DEF MinutesOf
  <2>11. Trusted => Covers(buckets, taken, clock) /\ Covers(b, taken, clock)
    BY <1>9, <2>7, <2>10 DEF Covers
  <2>12. MemoryInv'
    <3>1. buckets' = buckets /\ cur' = cur /\ clock' = clock /\ kept' = taken
      BY <1>1, <1>8 DEF memory
    <3> QED BY <2>7, <2>9, <2>11, <3>1 DEF MemoryInv, Below, Covers
  <2>13. s # "nobody"
    BY DEF Savers
  <2>14. Sealed(data["tmp"]) /\ Sealed(old)
    BY <1>4, <2>1, <2>7, <2>13 DEF Sealed, SafeInv, FileInv, StateFiles, IInv, TypeInv, SaveType
  <2>15. ASSUME ~spoiled'
         PROVE  /\ \A k \in Kinds : durable[k] \subseteq taken[k]
                /\ Intact(data["tmp"], taken, clock)
                /\ Intact(old, durable, clock)
    <3>1. Trusted
      BY <1>1, <2>15 DEF Trusted
    <3>2. /\ \A k \in Kinds : durable[k] \subseteq kept[k]
          /\ Intact(data["state"], kept, clock)
          /\ ~settled => Intact(data["old"], durable, clock)
      BY <2>1, <3>1 DEF SafeInv, FileInv, Trusted
    <3>3. Intact(data["tmp"], taken, clock)
      BY <2>7, <2>11, <2>13, <3>1 DEF Intact
    <3>4. Intact(data["state"], durable, clock)
      <4>1. PICK d : d = data["state"]
        OBVIOUS
      <4>2. kept \in Taken /\ durable \in Taken /\ Intact(d, kept, clock)
        BY <3>2, <4>1 DEF IInv, TypeInv, MemoryType
      <4> QED BY <3>2, <4>1, <4>2, IntactLess
    <3>5. Intact(old, durable, clock)
      BY <1>4, <3>2, <3>4 DEF IInv, TypeInv, SaveType
    <3> QED BY <1>9, <3>2, <3>3, <3>5
  <2>16. FileInv'
    <3>1. \A f \in {"state", "old"} : Sealed(data'[f])
      BY <2>8, <2>14
    <3>2. ~spoiled' => /\ \A k \in Kinds : durable'[k] \subseteq kept'[k]
                       /\ Intact(data'["state"], kept', clock')
                       /\ Intact(data'["old"], durable', clock')
      BY <1>1, <1>8, <2>8, <2>15
    <3> QED BY <1>1, <3>1, <3>2 DEF FileInv, StateFiles, Sealed, Intact, Below, Covers
  <2> QED BY <2>5, <2>6, <2>12, <2>16 DEF SafeInv
<1> QED BY <1>6, <1>10, <1>18, <1>19 DEF IInv, TypeInv

\* A saver whose save_state returns
LEMMA ReturnedIsQuiet ==
  ASSUME ProcessType, NEW s \in Savers, Runs(s), Saving(s), Returned(s),
         UNCHANGED <<clock, memory, machine, loading>>, copy \in [Savers -> FullLists]
  PROVE  /\ ProcessType' /\ (LoadType => LoadType') /\ copy' \in [Savers -> FullLists]
         /\ \E at \in {"idle", "done"} : step' = [step EXCEPT ![s] = at]
<1>1. PICK at : at = IF s = "worker" THEN "idle" ELSE "done"
  OBVIOUS
<1>2. at \in {"idle", "done"} /\ at \in Steps
  BY <1>1 DEF Steps
<1>3. step' = [step EXCEPT ![s] = at] /\ copy' = [copy EXCEPT ![s] = NoCopy]
  BY <1>1 DEF Returned
<1>4. ProcessType' /\ (LoadType => LoadType')
  BY <1>2, <1>3, ProcessTypeStays DEF Saving
<1>5. copy' \in [Savers -> FullLists]
  BY <1>3, EmptyFiles
<1> QED BY <1>2, <1>3, <1>4, <1>5

LEMMA SaveFailsKeeps ==
  ASSUME IInv, NEW s \in Savers, SaveFails(s)
  PROVE  IInv'
<1>1. /\ Runs(s) /\ Saving(s) /\ Returned(s)
      /\ fd' = [fd EXCEPT ![s] = "none"]
      /\ UNCHANGED <<clock, memory, machine, loading, spoiled, kept, durable>>
      /\ UNCHANGED <<data, settled, overlapped>>
  BY DEF SaveFails, Saving, disks, history
<1>2. ProcessType' /\ LoadType' /\ copy' \in [Savers -> FullLists]
  BY <1>1, ReturnedIsQuiet DEF IInv, TypeInv, SaveType
<1>3. PICK at \in {"idle", "done"} : step' = [step EXCEPT ![s] = at]
  BY <1>1, ReturnedIsQuiet DEF IInv, TypeInv, SaveType
<1>4. MemoryType'
  BY <1>1, MemoryStays DEF IInv, TypeInv
<1>5. /\ fd' \in [Savers -> Files \cup {"gone", "none"}]
      /\ fd'[s] = "none" /\ \A x \in Savers \ {s} : fd'[x] = fd[x]
  BY <1>1 DEF IInv, TypeInv, SaveType
<1>6. SaveType'
  BY <1>1, <1>2, <1>5 DEF IInv, TypeInv, SaveType, AreFiles
<1>7. ASSUME ~overlapped'
      PROVE  SafeInv'
  <2>1. SafeInv
    BY <1>1, <1>7 DEF IInv
  <2>2. \A x \in Savers \ {s} : Quiet(step[x])
    BY <1>1, <2>1, OthersAreQuiet DEF IInv, TypeInv, SafeInv
  <2>3. at \in Steps \ {"lock"} /\ fd'[s] = IF at \in {"buckets", "cur", "sync"} THEN "tmp" ELSE "none"
    BY <1>3, <1>5 DEF Steps
  <2>4. OneSaver' /\ step'[s] = at /\ \A x \in Savers \ {s} : SaverInv(x)'
    BY <1>1, <1>3, <1>5, <2>1, <2>2, <2>3, SaverMoves DEF IInv, TypeInv, SafeInv
  <2>5. SaverInv(s)'
    BY <1>3, <2>4, QuietIsEasy DEF Quiet
  <2>6. MemoryInv'
    BY <1>1, <2>1, MemoryStays DEF SafeInv
  <2>7. FileInv'
    BY <1>1, <2>1, FilesStay DEF SafeInv
  <2> QED BY <2>4, <2>5, <2>6, <2>7 DEF SafeInv
<1> QED BY <1>2, <1>4, <1>6, <1>7 DEF IInv, TypeInv

\* The directory is not synced: the save returns, and nothing changes.
LEMMA LeaveUnsyncedKeeps ==
  ASSUME IInv, NEW s \in Savers, LeaveUnsynced(s)
  PROVE  IInv'
<1>1. /\ Runs(s) /\ step[s] = "dirsync" /\ Saving(s) /\ Returned(s)
      /\ UNCHANGED <<clock, memory, machine, loading, spoiled, kept, durable>>
      /\ UNCHANGED <<data, settled, fd, overlapped>>
  BY DEF LeaveUnsynced, Saving, disks, history
<1>2. ProcessType' /\ LoadType' /\ copy' \in [Savers -> FullLists]
  BY <1>1, ReturnedIsQuiet DEF IInv, TypeInv, SaveType
<1>3. PICK at \in {"idle", "done"} : step' = [step EXCEPT ![s] = at]
  BY <1>1, ReturnedIsQuiet DEF IInv, TypeInv, SaveType
<1>4. MemoryType'
  BY <1>1, MemoryStays DEF IInv, TypeInv
<1>5. SaveType'
  BY <1>1, <1>2 DEF IInv, TypeInv, SaveType, AreFiles
<1>6. ASSUME ~overlapped'
      PROVE  SafeInv'
  <2>1. SafeInv
    BY <1>1, <1>6 DEF IInv
  <2>2. \A x \in Savers \ {s} : Quiet(step[x])
    BY <1>1, <2>1, OthersAreQuiet DEF IInv, TypeInv, SafeInv
  <2>3. fd[s] = "none" /\ \A x \in Savers \ {s} : fd'[x] = fd[x]
    BY <1>1, <2>1 DEF SafeInv, OneSaver
  <2>4. at \in Steps \ {"lock"} /\ fd'[s] = IF at \in {"buckets", "cur", "sync"} THEN "tmp" ELSE "none"
    BY <1>1, <1>3, <2>3 DEF Steps
  <2>5. OneSaver' /\ step'[s] = at /\ \A x \in Savers \ {s} : SaverInv(x)'
    BY <1>1, <1>3, <2>1, <2>2, <2>3, <2>4, SaverMoves DEF IInv, TypeInv, SafeInv
  <2>6. SaverInv(s)'
    BY <1>3, <2>5, QuietIsEasy DEF Quiet
  <2>7. MemoryInv'
    BY <1>1, <2>1, MemoryStays DEF SafeInv
  <2>8. FileInv'
    BY <1>1, <2>1, FilesStay DEF SafeInv
  <2> QED BY <2>5, <2>6, <2>7, <2>8 DEF SafeInv
<1> QED BY <1>2, <1>4, <1>5, <1>6 DEF IInv, TypeInv

\* os.fsync of the directory: what is in STATE_FILE is there on disk.
LEMMA SyncDirectoryKeeps ==
  ASSUME IInv, NEW s \in Savers, SyncDirectory(s)
  PROVE  IInv'
<1>1. /\ Runs(s) /\ step[s] = "dirsync" /\ Saving(s) /\ Returned(s)
      /\ settled' = TRUE
      /\ data' = [data EXCEPT !["old"] = NoFile]
      /\ fd' = [x \in Savers |-> IF fd[x] = "old" THEN "gone" ELSE fd[x]]
      /\ durable' = kept
      /\ UNCHANGED <<clock, memory, machine, loading, overlapped, spoiled, kept>>
  BY DEF SyncDirectory, Saving
<1>2. ProcessType' /\ LoadType' /\ copy' \in [Savers -> FullLists]
  BY <1>1, ReturnedIsQuiet DEF IInv, TypeInv, SaveType
<1>3. PICK at \in {"idle", "done"} : step' = [step EXCEPT ![s] = at]
  BY <1>1, ReturnedIsQuiet DEF IInv, TypeInv, SaveType
<1>4. MemoryType'
  BY <1>1 DEF IInv, TypeInv, MemoryType, memory
<1>5. AreFiles(data)' /\ data'["state"] = data["state"]
  <2>1. PICK new : new = data'
    OBVIOUS
  <2>2. AreFiles(data) /\ IsFile(NoFile) /\ "old" \in Files
    BY EmptyFiles DEF IInv, TypeInv, SaveType, Files
  <2>3. AreFiles(new) /\ \A f \in Files \ {"old"} : new[f] = data[f]
    BY <1>1, <2>1, <2>2 DEF AreFiles
  <2> QED BY <2>1, <2>3 DEF AreFiles, Files
<1>6. fd' \in [Savers -> Files \cup {"gone", "none"}]
  BY <1>1 DEF IInv, TypeInv, SaveType
<1>7. SaveType'
  BY <1>1, <1>2, <1>5, <1>6 DEF IInv, TypeInv, SaveType
<1>8. ASSUME ~overlapped'
      PROVE  SafeInv'
  <2>1. SafeInv
    BY <1>1, <1>8 DEF IInv
  <2>2. \A x \in Savers \ {s} : Quiet(step[x])
    BY <1>1, <2>1, OthersAreQuiet DEF IInv, TypeInv, SafeInv
  <2>3. \A x \in Savers : fd[x] = "none"
    BY <1>1, <2>1, <2>2 DEF SafeInv, OneSaver, Quiet
  <2>4. \A x \in Savers : fd'[x] = "none"
    BY <1>1, <2>3
  <2>5. at \in Steps \ {"lock"} /\ at \notin {"buckets", "cur", "sync"}
    BY <1>3 DEF Steps
  <2>6. OneSaver' /\ step'[s] = at /\ \A x \in Savers \ {s} : SaverInv(x)'
    BY <1>1, <1>3, <2>1, <2>2, <2>3, <2>4, <2>5, SaverMoves DEF IInv, TypeInv, SafeInv
  <2>7. SaverInv(s)'
    BY <1>3, <2>6, QuietIsEasy DEF Quiet
  <2>8. MemoryInv'
    BY <1>1, <2>1 DEF SafeInv, MemoryInv, Trusted, memory, machine, loading, Below, Covers
  <2>9. FileInv'
    <3>1. StateFiles' = {"state"} /\ Sealed(data'["state"])
      BY <1>1, <1>5, <2>1 DEF StateFiles, SafeInv, FileInv
    <3>2. ~spoiled' => Intact(data'["state"], kept', clock')
      BY <1>1, <1>5, <2>1 DEF SafeInv, FileInv
    <3> QED BY <1>1, <3>1, <3>2 DEF FileInv, Sealed, Intact, Below, Covers
  <2> QED BY <2>6, <2>7, <2>8, <2>9 DEF SafeInv
<1> QED BY <1>2, <1>4, <1>7, <1>8 DEF IInv, TypeInv

----------------------------------------------------------------------------
(* Signals, and how the process stops                                       *)

LEMMA SignalKeeps ==
  ASSUME IInv, Signal
  PROVE  IInv'
<1>1. PICK s : s = IF signals = 0 THEN "first" ELSE "second"
  OBVIOUS
<1>2. /\ process = "running" /\ signals < MaxSignals /\ signals' = signals + 1
      /\ step' = [step EXCEPT ![s] = "lock"]
      /\ UNCHANGED <<clock, memory, process, loading, spoiled, kept, durable, stops>>
      /\ UNCHANGED <<data, settled, copy, fd, overlapped>>
  BY <1>1 DEF Signal, disks, history
<1>3. MaxSignals \in {0, 1, 2} /\ signals \in Nat
  BY PingAssumption DEF IInv, TypeInv, ProcessType
<1>4. s \in Savers /\ step[s] = "idle"
  <2>1. signals < 2
    BY <1>2, <1>3
  <2> QED BY <1>1, <2>1 DEF IInv, TypeInv, ProcessType, Savers
<1>5. step \in [Savers -> Steps]
  BY DEF IInv, TypeInv, ProcessType
<1>6. /\ step' \in [Savers -> Steps] /\ step'[s] = "lock"
      /\ \A x \in Savers \ {s} : step'[x] = step[x]
  BY <1>2, <1>4, <1>5 DEF Steps
<1>7. ProcessType'
  <2>1. signals' \in 0 .. MaxSignals /\ signals' # 0
    BY <1>2, <1>3
  <2>2. signals' < 2 => step'["second"] = "idle"
    <3>1. ASSUME signals' < 2
          PROVE  step'["second"] = "idle"
      <4>1. signals = 0
        BY <1>2, <1>3, <3>1
      <4>2. s = "first" /\ step["second"] = "idle"
        BY <1>1, <4>1 DEF IInv, TypeInv, ProcessType
      <4> QED BY <1>6, <4>2 DEF Savers
    <3> QED BY <3>1
  <2> QED BY <1>2, <1>6, <2>1, <2>2 DEF IInv, TypeInv, ProcessType
<1>8. MemoryType'
  BY <1>2 DEF IInv, TypeInv, MemoryType, memory
<1>9. SaveType'
  BY <1>2 DEF IInv, TypeInv, SaveType, AreFiles
<1>10. ASSUME ~overlapped'
       PROVE  SafeInv'
  <2>1. SafeInv
    BY <1>2, <1>10 DEF IInv
  <2>2. \A x \in Savers : Saving(x)' <=> Saving(x)
    BY <1>4, <1>6 DEF Saving
  <2>3. OneSaver'
    <3>1. step'["second"] = "done" => step["second"] = "done"
      BY <1>4, <1>6 DEF Savers
    <3>2. Saving("second")' \/ step'["second"] = "done" => ~Saving("first")'
      BY <2>1, <2>2, <3>1 DEF SafeInv, OneSaver, Savers
    <3>3. \A x \in Savers : fd'[x] = IF step'[x] \in {"buckets", "cur", "sync"} THEN "tmp" ELSE "none"
      <4>1. ASSUME NEW x \in Savers
            PROVE  fd'[x] = IF step'[x] \in {"buckets", "cur", "sync"} THEN "tmp" ELSE "none"
        <5>1. fd[x] = IF step[x] \in {"buckets", "cur", "sync"} THEN "tmp" ELSE "none"
          BY <2>1 DEF SafeInv, OneSaver
        <5> QED BY <1>2, <1>4, <1>6, <5>1
      <4> QED BY <4>1
    <3>4. \A x, y \in Savers : Saving(x)' /\ Saving(y)' => x = y
      BY <2>1, <2>2 DEF SafeInv, OneSaver
    <3> QED BY <3>2, <3>3, <3>4 DEF OneSaver
  <2>4. SaverInv(s)'
    BY <1>4, <1>6, QuietIsEasy DEF Quiet
  <2>5. ASSUME NEW x \in Savers \ {s}
        PROVE  SaverInv(x)'
    <3>1. SaverInv(x) /\ step'[x] = step[x] /\ copy'[x] = copy[x]
      BY <1>2, <1>6, <2>1 DEF SafeInv
    <3>2. CopyInv(step[x], copy[x])'
      BY <1>2, <3>1
         DEF SaverInv, CopyInv, Trusted, memory, loading, Below, Covers, MinutesOf
    <3>3. Written(x, step[x], copy[x], data["tmp"])'
      BY <1>2, <3>1 DEF SaverInv, Written, Trusted, loading, Below
    <3> QED BY <3>2, <3>3 DEF SaverInv
  <2>6. FileInv'
    BY <1>2, <2>1, FilesStay DEF SafeInv
  <2>7. MemoryInv'
    BY <1>2, <2>1 DEF SafeInv, MemoryInv, Trusted, memory, loading, Below, Covers
  <2> QED BY <2>3, <2>4, <2>5, <2>6, <2>7 DEF SafeInv
<1>11. LoadType'
  <2>1. ~Loads' /\ step'["worker"] = step["worker"]
    BY <1>1, <1>2, <1>3, <1>6 DEF Loads, Savers
  <2>2. load' = load /\ floor' = floor /\ (Ended' <=> Ended) /\ (Empty' <=> Empty)
    BY <1>2 DEF loading, memory, Ended, Empty
  <2> QED BY <1>2, <2>1, <2>2 DEF IInv, TypeInv, LoadType
<1> QED BY <1>7, <1>8, <1>9, <1>10, <1>11 DEF IInv, TypeInv

\* The handler of the second signal leaves, and takes that of the first along.
LEMMA UnwindKeeps ==
  ASSUME IInv, Unwind
  PROVE  IInv'
<1>1. /\ process = "running" /\ step["second"] = "done"
      /\ step' = [step EXCEPT !["second"] = "idle", !["first"] = "done"]
      /\ fd' = [fd EXCEPT !["first"] = "none"]
      /\ copy' = [copy EXCEPT !["first"] = NoCopy]
      /\ UNCHANGED <<clock, memory, machine, loading, spoiled, kept, durable>>
      /\ UNCHANGED <<settled, overlapped>>
  BY DEF Unwind, history
<1>2. "first" \in Savers /\ "second" \in Savers /\ "worker" \in Savers
  BY DEF Savers
<1>3. /\ step' \in [Savers -> Steps] /\ step'["first"] = "done" /\ step'["second"] = "idle"
      /\ step'["worker"] = step["worker"]
  BY <1>1, <1>2 DEF IInv, TypeInv, ProcessType, Steps
<1>4. ProcessType' /\ LoadType'
  <2>1. signals # 0
    <3>1. ~(signals < 2)
      BY <1>1 DEF IInv, TypeInv, ProcessType
    <3> QED BY <3>1
  <2>2. ProcessType'
    BY <1>1, <1>3, <2>1 DEF IInv, TypeInv, ProcessType, machine
  <2>3. ~Loads' /\ process' = process
    BY <1>1, <2>1 DEF Loads, machine
  <2>4. load' = load /\ floor' = floor /\ (Ended' <=> Ended) /\ (Empty' <=> Empty)
    BY <1>1 DEF loading, memory, Ended, Empty
  <2> QED BY <1>3, <2>2, <2>3, <2>4 DEF IInv, TypeInv, LoadType
<1>5. MemoryType'
  BY <1>1, MemoryStays DEF IInv, TypeInv
<1>6. AreFiles(data)
  BY DEF IInv, TypeInv, SaveType
<1>7. AreFiles(data)'
  <2>1. PICK new : new = data'
    OBVIOUS
  <2>2. CASE new = data
    BY <1>6, <2>1, <2>2 DEF AreFiles
  <2>3. CASE new # data
    <3>1. PICK piece \in {"buckets", "cur"} : piece = step["first"] /\ Put("first", piece, Hole)
      BY <2>1, <2>3 DEF Unwind
    <3>2. PICK g : g = fd["first"]
      OBVIOUS
    <3>3. g # "gone" /\ new = WithPiece(data, g, piece, Hole)
      BY <2>1, <2>3, <3>1, <3>2 DEF Put, WithPiece
    <3>4. g \in Files
      <4>1. ASSUME g = "none"
            PROVE  FALSE
        <5>1. data = [f \in Files |-> data[f]] /\ "none" \notin Files
          BY <1>6 DEF AreFiles, Files
        <5>2. new = [data EXCEPT !["none"][piece] = Hole, !["none"].synced = FALSE]
          BY <3>3, <4>1 DEF WithPiece
        <5>3. new = data
          BY <5>1, <5>2
        <5> QED BY <2>3, <5>3
      <4>2. g \in Files \cup {"gone", "none"}
        BY <1>2, <3>2 DEF IInv, TypeInv, SaveType
      <4> QED BY <3>3, <4>1, <4>2
    <3>5. Hole.by \in Writers /\ Hole.by = "nobody" /\ Hole.val \in Currents
      BY EmptyFiles DEF Writers
    <3>6. AreFiles(new)
      <4>1. CASE piece = "buckets"
        <5>1. new = WithPiece(data, g, "buckets", Hole)
          BY <3>3, <4>1
        <5> QED BY <1>6, <3>4, <3>5, <5>1, BucketsArePut
      <4>2. CASE piece = "cur"
        <5>1. new = WithPiece(data, g, "cur", Hole)
          BY <3>3, <4>2
        <5> QED BY <1>6, <3>4, <3>5, <5>1, CurIsPut
      <4> QED BY <4>1, <4>2
    <3> QED BY <2>1, <3>6 DEF AreFiles
  <2> QED BY <2>2, <2>3
<1>8. SaveType'
  <2>1. copy' \in [Savers -> FullLists] /\ fd' \in [Savers -> Files \cup {"gone", "none"}]
    BY <1>1, EmptyFiles DEF IInv, TypeInv, SaveType
  <2> QED BY <1>1, <1>7, <2>1 DEF IInv, TypeInv, SaveType
<1>9. ASSUME ~overlapped'
      PROVE  SafeInv'
  <2>1. SafeInv
    BY <1>1, <1>9 DEF IInv
  <2>2. ~Saving("first")
    BY <1>1, <2>1 DEF SafeInv, OneSaver
  <2>3. data' = data
    BY <2>2 DEF Unwind, Saving
  <2>4. /\ fd["first"] = "none" /\ fd["second"] = "none"
        /\ fd["worker"] = IF step["worker"] \in {"buckets", "cur", "sync"} THEN "tmp" ELSE "none"
    BY <1>1, <1>2, <2>1, <2>2 DEF SafeInv, OneSaver, Saving
  <2>5. /\ fd'["first"] = "none" /\ fd'["second"] = "none"
        /\ fd'["worker"] = fd["worker"]
    BY <1>1, <1>2, <2>4 DEF IInv, TypeInv, SaveType
  <2>6. OneSaver'
    <3>1. ~Saving("first")' /\ ~Saving("second")' /\ step'["second"] # "done"
      BY <1>3 DEF Saving
    <3>2. \A x, y \in Savers : Saving(x)' /\ Saving(y)' => x = y
      BY <3>1 DEF Savers
    <3>3. \A x \in Savers : fd'[x] = IF step'[x] \in {"buckets", "cur", "sync"} THEN "tmp" ELSE "none"
      BY <1>3, <2>4, <2>5 DEF Savers
    <3> QED BY <3>1, <3>2, <3>3 DEF OneSaver
  <2>7. SaverInv("first")' /\ SaverInv("second")'
    BY <1>2, <1>3, QuietIsEasy DEF Quiet
  <2>8. SaverInv("worker")'
    <3>1. SaverInv("worker") /\ step'["worker"] = step["worker"] /\ copy'["worker"] = copy["worker"]
      BY <1>1, <1>2, <1>3, <2>1 DEF SafeInv, IInv, TypeInv, SaveType
    <3>2. CopyInv(step["worker"], copy["worker"])'
      BY <1>1, <3>1
         DEF SaverInv, CopyInv, Trusted, memory, loading, Below, Covers, MinutesOf
    <3>3. Written("worker", step["worker"], copy["worker"], data["tmp"])'
      BY <1>1, <2>3, <3>1 DEF SaverInv, Written, Trusted, loading, Below
    <3> QED BY <3>2, <3>3 DEF SaverInv
  <2>9. MemoryInv'
    BY <1>1, <2>1, MemoryStays DEF SafeInv
  <2>10. FileInv'
    BY <1>1, <2>1, <2>3, FilesStay DEF SafeInv
  <2> QED BY <2>6, <2>7, <2>8, <2>9, <2>10 DEF SafeInv, Savers
<1> QED BY <1>4, <1>5, <1>8, <1>9 DEF IInv, TypeInv

\* A process that is down has no savers and nothing in memory.
LEMMA Vanished ==
  ASSUME IInv, Vanish, clock' = clock, kept' \in {kept, durable}, durable' = durable,
         signals' = signals, stops' \in 0 .. MaxStops
  PROVE  /\ ProcessType' /\ MemoryType' /\ MemoryInv' /\ OneSaver' /\ LoadType'
         /\ \A s \in Savers : SaverInv(s)'
         /\ copy' \in [Savers -> FullLists]
         /\ fd' \in [Savers -> Files \cup {"gone", "none"}]
<1>1. /\ process' = "down"
      /\ \A s \in Savers : step'[s] = "idle" /\ fd'[s] = "none"
      /\ copy' = [s \in Savers |-> NoCopy]
      /\ step' = [s \in Savers |-> "idle"] /\ fd' = [s \in Savers |-> "none"]
      /\ buckets' = [k \in Kinds |-> <<>>] /\ cur' = [k \in Kinds |-> Nothing]
      /\ load' = "unread" /\ floor' = 0
  BY DEF Vanish, Nothing
<1>2. ProcessType'
  <2>1. step' \in [Savers -> Steps]
    BY <1>1 DEF Steps
  <2>2. signals' \in 0 .. MaxSignals
    BY DEF IInv, TypeInv, ProcessType
  <2> QED BY <1>1, <2>1, <2>2 DEF ProcessType, Savers
<1>3. MaxMinutes \in Nat /\ BUCKETS \in Nat /\ clock \in Nat
  BY PingAssumption DEF IInv, TypeInv, MemoryType
<1>4. MemoryType'
  <2>1. buckets' = NoCopy
    BY <1>1 DEF NoCopy
  <2>2. cur' \in Currents
    BY <1>1, <1>3 DEF Currents, Nothing
  <2> QED BY <2>1, <2>2, EmptyFiles DEF IInv, TypeInv, MemoryType
<1>5. MemoryInv'
  BY <1>1 DEF MemoryInv
<1>6. OneSaver'
  BY <1>1 DEF OneSaver, Saving, Savers
<1>7. ASSUME NEW s \in Savers
      PROVE  SaverInv(s)'
  BY <1>1, QuietIsEasy DEF Quiet
<1>8. copy' \in [Savers -> FullLists] /\ fd' \in [Savers -> Files \cup {"gone", "none"}]
  BY <1>1, EmptyFiles
<1>9. LoadType'
  <2>1. Empty' /\ ~Loads'
    BY <1>1 DEF Empty, Loads, NoCopy
  <2> QED BY <1>1, <1>3, <2>1 DEF LoadType, Savers
<1> QED BY <1>2, <1>4, <1>5, <1>6, <1>7, <1>8, <1>9

LEMMA StopKeeps ==
  ASSUME IInv, Exit \/ Crash
  PROVE  IInv'
<1>1. /\ Vanish
      /\ UNCHANGED <<clock, data, settled, signals, overlapped, spoiled, kept, durable>>
      /\ stops' = stops \/ (stops < MaxStops /\ stops' = stops + 1)
  BY DEF Exit, Crash, disks, history
<1>2. stops' \in 0 .. MaxStops
  BY <1>1, PingAssumption DEF IInv, TypeInv, ProcessType
<1>3. /\ ProcessType' /\ MemoryType' /\ MemoryInv' /\ OneSaver' /\ LoadType'
      /\ \A s \in Savers : SaverInv(s)'
      /\ copy' \in [Savers -> FullLists]
      /\ fd' \in [Savers -> Files \cup {"gone", "none"}]
  BY <1>1, <1>2, Vanished
<1>4. SaveType'
  BY <1>1, <1>3 DEF IInv, TypeInv, SaveType, AreFiles
<1>5. ~overlapped' => FileInv'
  BY <1>1, FilesStay DEF IInv, SafeInv
<1> QED BY <1>3, <1>4, <1>5 DEF IInv, TypeInv, SafeInv

LEMMA PowerFailureKeeps ==
  ASSUME IInv, PowerFailure
  PROVE  IInv'
<1>1. /\ Vanish /\ UNCHANGED <<clock, signals, overlapped, spoiled, durable>>
      /\ kept' = durable /\ stops < MaxStops /\ stops' = stops + 1 /\ settled' = TRUE
  BY DEF PowerFailure
<1>2. stops' \in 0 .. MaxStops
  BY <1>1, PingAssumption DEF IInv, TypeInv, ProcessType
<1>3. /\ ProcessType' /\ MemoryType' /\ MemoryInv' /\ OneSaver' /\ LoadType'
      /\ \A s \in Savers : SaverInv(s)'
      /\ copy' \in [Savers -> FullLists]
      /\ fd' \in [Savers -> Files \cup {"gone", "none"}]
  BY <1>1, <1>2, Vanished
<1>4. PICK found \in StateFiles, lost \in BOOLEAN :
        data' = [tmp |-> IF lost /\ ~data["tmp"].synced THEN Blank ELSE data["tmp"],
                 state |-> IF lost /\ ~data[found].synced THEN Blank ELSE data[found],
                 old |-> NoFile]
  BY DEF PowerFailure
<1>5. AreFiles(data)
  BY DEF IInv, TypeInv, SaveType
<1>6. PICK new : new = data'
  OBVIOUS
<1>7. /\ new["tmp"] = IF lost /\ ~data["tmp"].synced THEN Blank ELSE data["tmp"]
      /\ new["state"] = IF lost /\ ~data[found].synced THEN Blank ELSE data[found]
      /\ new["old"] = NoFile
      /\ new = [f \in Files |-> new[f]]
  BY <1>4, <1>6 DEF Files
<1>8. AreFiles(new)
  <2>1. found \in Files /\ "tmp" \in Files
    BY DEF StateFiles, Files
  <2>2. IsFile(data[found]) /\ IsFile(data["tmp"]) /\ IsFile(Blank) /\ IsFile(NoFile)
    BY <1>5, <2>1, EmptyFiles DEF AreFiles
  <2>3. \A f \in Files : IsFile(new[f])
    BY <1>7, <2>2 DEF Files
  <2> QED BY <1>7, <2>3 DEF AreFiles
<1>9. SaveType'
  BY <1>1, <1>3, <1>6, <1>8 DEF IInv, TypeInv, SaveType, AreFiles
<1>10. ASSUME ~overlapped'
       PROVE  FileInv'
  <2>1. PICK d : d = data[found]
    OBVIOUS
  <2>2. SafeInv /\ Sealed(d)
    BY <1>1, <1>10, <2>1 DEF IInv, SafeInv, FileInv
  <2>3. d.synced
    BY <2>2, EmptyFiles DEF Sealed
  <2>4. data'["state"] = d /\ StateFiles' = {"state"}
    BY <1>1, <1>6, <1>7, <2>1, <2>3 DEF StateFiles
  <2>5. ASSUME ~spoiled
        PROVE  Intact(d, durable, clock)
    <3>1. CASE found = "state"
      <4>1. kept \in Taken /\ durable \in Taken /\ Intact(d, kept, clock)
        BY <2>1, <2>2, <2>5, <3>1 DEF SafeInv, FileInv, IInv, TypeInv, MemoryType
      <4>2. \A k \in Kinds : durable[k] \subseteq kept[k]
        BY <2>2, <2>5 DEF SafeInv, FileInv
      <4> QED BY <4>1, <4>2, IntactLess
    <3>2. CASE found # "state"
      <4>1. found = "old" /\ ~settled
        BY <3>2 DEF StateFiles
      <4> QED BY <2>1, <2>2, <2>5, <4>1 DEF SafeInv, FileInv
    <3> QED BY <3>1, <3>2
  <2> QED BY <1>1, <2>2, <2>4, <2>5 DEF FileInv, Sealed, Intact, Below, Covers
<1> QED BY <1>3, <1>9, <1>10 DEF IInv, TypeInv, SafeInv

LEMMA RestartKeeps ==
  ASSUME IInv, Restart
  PROVE  IInv'
<1>1. /\ process = "down" /\ process' = "running" /\ signals' = 0
      /\ stops < MaxStops /\ stops' = stops + 1
      /\ load' = IF Whole("state") THEN "unread" ELSE "done"
      /\ UNCHANGED <<clock, buckets, cur, data, settled, step, copy, fd, floor, overlapped,
                     spoiled, kept, durable>>
  BY DEF Restart, memory, disks, saves, history
<1>2. stops' \in 0 .. MaxStops
  BY <1>1, PingAssumption DEF IInv, TypeInv, ProcessType
<1>3. \A s \in Savers : step'[s] = "idle" /\ step[s] = "idle"
  BY <1>1 DEF IInv, TypeInv, ProcessType
<1>4. ProcessType'
  <2>1. signals' \in 0 .. MaxSignals
    BY <1>1, PingAssumption
  <2> QED BY <1>1, <1>2, <1>3, <2>1 DEF IInv, TypeInv, ProcessType, Savers
<1>5. SaveType' /\ MemoryType'
  BY <1>1 DEF IInv, TypeInv, SaveType, MemoryType, AreFiles
<1>6. Empty
  BY <1>1 DEF IInv, TypeInv, LoadType
<1>7. LoadType'
  <2>1. Empty' /\ (Whole("state")' <=> Whole("state"))
    BY <1>1, <1>6 DEF Empty, Whole
  <2>2. load' \notin Kinds
    BY <1>1, PingAssumption
  <2>3. floor' \in 0 .. MaxMinutes
    BY <1>1 DEF IInv, TypeInv, LoadType
  <2> QED BY <1>1, <1>3, <2>1, <2>2, <2>3 DEF LoadType, Ended, Savers
<1>8. ASSUME ~overlapped'
       PROVE  SafeInv'
  <2>1. SafeInv
    BY <1>1, <1>8 DEF IInv
  <2>2. OneSaver'
    BY <1>1, <2>1 DEF SafeInv, OneSaver, Saving
  <2>3. \A s \in Savers : SaverInv(s)'
    BY <1>3, QuietIsEasy DEF Quiet
  <2>4. FileInv'
    BY <1>1, <2>1, FilesStay DEF SafeInv
  <2>5. MemoryInv'
    <3>1. ASSUME Trusted'
          PROVE  Below(buckets, cur, clock) /\ Covers(buckets, kept, clock)
      <4>1. ~spoiled /\ ~Whole("state")
        BY <1>1, <3>1 DEF Trusted
      <4>2. PICK d : d = data["state"]
        OBVIOUS
      <4>3. Intact(d, kept, clock) /\ ~(d.buckets.by # "nobody" /\ d.cur.by = d.buckets.by)
        BY <2>1, <4>1, <4>2 DEF SafeInv, FileInv, Whole
      <4>4. kept = [k \in Kinds |-> {}]
        BY <4>3 DEF Intact
      <4>5. \A k \in Kinds : buckets[k] = <<>> /\ cur[k] = 0
        BY <1>6 DEF Empty, NoCopy, Nothing
      <4>6. \A k \in Kinds : Entries(buckets[k]) = {} /\ Ascending(buckets[k])
        BY <4>5 DEF Entries, Ascending
      <4>7. clock \in Nat
        BY PingAssumption DEF IInv, TypeInv, MemoryType
      <4>8. Below(buckets, cur, clock)
        BY <4>5, <4>6, <4>7 DEF Below
      <4>9. Covers(buckets, kept, clock)
        BY <4>4 DEF Covers
      <4> QED BY <4>8, <4>9
    <3> QED BY <1>1, <3>1 DEF MemoryInv, Below, Covers
  <2> QED BY <2>2, <2>3, <2>4, <2>5 DEF SafeInv
<1> QED BY <1>4, <1>5, <1>7, <1>8 DEF IInv, TypeInv

----------------------------------------------------------------------------
(* load_state                                                               *)

LEMMA KindsAreNamed ==
  /\ Kinds \subseteq {"ping", "wifi"}
  /\ "done" \notin Kinds /\ "unread" \notin Kinds /\ "failed" \notin Kinds
BY PingAssumption

\* No saver is about while load_state runs.
LEMMA LoadStepKeeps ==
  ASSUME IInv, Loads, ~Ended, UNCHANGED <<clock, disks, saves, machine, history>>,
         MemoryType', LoadType', ~overlapped => MemoryInv'
  PROVE  IInv'
<1>1. UNCHANGED <<clock, data, settled, step, copy, fd, process, signals, stops,
                  overlapped, spoiled, kept, durable>>
  BY DEF disks, saves, machine, history
<1>2. ProcessType' /\ SaveType'
  BY <1>1 DEF IInv, TypeInv, ProcessType, SaveType, AreFiles
<1>3. \A s \in Savers : step'[s] = "idle"
  BY <1>1, PingAssumption DEF IInv, TypeInv, ProcessType, LoadType, Loads, Savers
<1>4. ASSUME ~overlapped'
      PROVE  SafeInv'
  <2>1. SafeInv
    BY <1>1, <1>4 DEF IInv
  <2>2. OneSaver'
    BY <1>1, <2>1 DEF SafeInv, OneSaver, Saving
  <2>3. \A s \in Savers : SaverInv(s)'
    BY <1>3, QuietIsEasy DEF Quiet
  <2>4. FileInv'
    BY <1>1, <2>1, FilesStay DEF SafeInv
  <2> QED BY <1>1, <1>4, <2>2, <2>3, <2>4 DEF SafeInv
<1> QED BY <1>2, <1>4 DEF IInv, TypeInv

\* What is to be loaded is a list of minutes that fits.
LEMMA ToLoadIsList ==
  ASSUME IInv, Whole("state"), floor \in 1 .. clock, NEW from, from = floor,
         NEW list, list = data["state"].buckets.val
  PROVE  /\ list \in FullLists
         /\ \A k \in Kinds : /\ ToLoad(k) = Recent(list[k], from)
                             /\ ToLoad(k) \in Seq(1 .. MaxMinutes)
                             /\ Len(ToLoad(k)) \in Nat /\ Len(ToLoad(k)) <= BUCKETS
<1>1. list \in FullLists
  BY DEF IInv, TypeInv, SaveType, AreFiles, IsFile, Files, Whole
<1>2. PICK r : r = [k \in Kinds |-> Recent(list[k], from)]
  OBVIOUS
<1>3. PICK now \in 1 .. MaxMinutes : now = clock
  BY DEF IInv, TypeInv, MemoryType
<1>4. from \in 1 .. now
  BY <1>3
<1>5. r \in FullLists
  BY <1>1, <1>2, <1>4, RecentKeeps
<1>6. \A k \in Kinds : /\ r[k] \in Seq(1 .. MaxMinutes) /\ Len(r[k]) \in Nat
                       /\ Len(r[k]) <= BUCKETS
  BY <1>5, ListsAreSequences
<1>7. \A k \in Kinds : ToLoad(k) = r[k]
  BY <1>2 DEF ToLoad
<1> QED BY <1>1, <1>2, <1>6, <1>7

LEMMA ReadFileKeeps ==
  ASSUME IInv, ReadFile
  PROVE  IInv'
<1>1. /\ Loads /\ load = "unread" /\ load' = FirstKind /\ floor' = clock
      /\ UNCHANGED <<clock, memory, disks, saves, machine, history>>
  BY DEF ReadFile
<1>2. ~Ended /\ Empty /\ Whole("state") /\ process = "running" /\ signals = 0
  BY <1>1 DEF Ended, IInv, TypeInv, LoadType, Loads
<1>3. UNCHANGED <<clock, buckets, cur, data, step, process, signals, kept, durable>>
  BY <1>1 DEF memory, disks, saves, machine, history
<1>4. MemoryType'
  BY <1>3 DEF IInv, TypeInv, MemoryType
<1>5. \A k \in Kinds : buckets[k] = <<>> /\ Len(buckets[k]) = 0
  BY <1>2 DEF Empty, NoCopy
<1>6. clock \in 1 .. MaxMinutes /\ MaxMinutes \in Nat
  BY PingAssumption DEF IInv, TypeInv, MemoryType
<1>7. FirstKind \in Kinds \/ (Kinds = {} /\ FirstKind = "done")
  BY KindsAreNamed DEF FirstKind, KindsFrom
<1>8. FillInv'
  <2>1. PICK list \in FullLists : list = data["state"].buckets.val
    BY <1>2 DEF IInv, TypeInv, SaveType, AreFiles, IsFile, Files, Whole
  <2>2. PICK now \in 1 .. MaxMinutes : now = clock
    BY <1>6
  <2>3. PICK r : r = [k \in Kinds |-> Recent(list[k], now)]
    OBVIOUS
  <2>4. now \in 1 .. now
    BY <1>6
  <2>5. r \in FullLists
    BY <2>3, <2>4, RecentKeeps
  <2>6. \A k \in Kinds : ToLoad(k)' = r[k] /\ Len(r[k]) \in Nat
    BY <1>1, <1>3, <2>1, <2>2, <2>3, <2>5, ListsAreSequences DEF ToLoad
  <2>7. \A k \in Kinds : Prefix(buckets[k], r[k])
    BY <1>5, <2>6 DEF Prefix
  <2>8. \A k \in Kinds : ~Loaded(k)'
    BY <1>1, KindsAreNamed DEF Loaded, FirstKind
  <2> QED BY <1>1, <1>3, <1>6, <2>6, <2>7, <2>8 DEF FillInv, Prefix
<1>9. LoadType'
  <2>1. load' # "unread" /\ load' \in {"done"} \cup Kinds
    BY <1>1, <1>7, KindsAreNamed
  <2>2. step'["worker"] = "idle"
    BY <1>2, <1>3 DEF IInv, TypeInv, LoadType
  <2>3. Whole("state")'
    BY <1>2, <1>3 DEF Whole
  <2> QED BY <1>1, <1>2, <1>3, <1>6, <1>8, <2>1, <2>2, <2>3 DEF LoadType
<1>10. MemoryInv'
  <2>1. CASE load' # "done"
    BY <2>1 DEF MemoryInv, Trusted
  <2>2. CASE Kinds = {}
    BY <2>2 DEF MemoryInv, Below, Covers
  <2> QED BY <1>1, <1>7, <2>1, <2>2, KindsAreNamed
<1> QED BY <1>1, <1>2, <1>4, <1>9, <1>10, LoadStepKeeps

LEMMA ReadFailsKeeps ==
  ASSUME IInv, ReadFails
  PROVE  IInv'
<1>1. /\ Loads /\ load = "unread" /\ load' = "failed"
      /\ UNCHANGED <<clock, memory, disks, saves, machine, floor, history>>
  BY DEF ReadFails
<1>2. ~Ended /\ process = "running"
  BY <1>1 DEF Ended, Loads
<1>3. UNCHANGED <<clock, buckets, cur, step, process, kept, durable>>
  BY <1>1 DEF memory, saves, machine, history
<1>4. MemoryType'
  BY <1>3 DEF IInv, TypeInv, MemoryType
<1>5. LoadType'
  BY <1>1, <1>2, <1>3, KindsAreNamed DEF IInv, TypeInv, LoadType, Ended
<1>6. MemoryInv'
  BY <1>1 DEF MemoryInv, Trusted
<1> QED BY <1>1, <1>2, <1>4, <1>5, <1>6, LoadStepKeeps

LEMMA LoadBucketKeeps ==
  ASSUME IInv, NEW k \in Kinds, LoadBucket(k)
  PROVE  IInv'
<1>1. /\ Loads /\ load = k /\ Len(buckets[k]) < Len(ToLoad(k))
      /\ buckets' = [buckets EXCEPT ![k] = Append(buckets[k], ToLoad(k)[Len(buckets[k]) + 1])]
      /\ UNCHANGED <<clock, cur, disks, saves, machine, loading, history>>
  BY DEF LoadBucket
<1>2. /\ ~Ended /\ load \notin {"unread", "done", "failed"}
      /\ Whole("state") /\ FillInv /\ process = "running"
  BY <1>1, KindsAreNamed DEF Ended, IInv, TypeInv, LoadType, Loads
<1>3. UNCHANGED <<clock, cur, data, step, process, signals, load, floor, kept, durable>>
  BY <1>1 DEF disks, saves, machine, loading, history
<1>4. PICK list : list = ToLoad(k)
  OBVIOUS
<1>5. /\ list \in Seq(1 .. MaxMinutes) /\ Len(list) \in Nat /\ Len(list) <= BUCKETS
  BY <1>2, <1>4, ToLoadIsList DEF FillInv
<1>6. PICK b : b = buckets[k]
  OBVIOUS
<1>7. /\ b \in Seq(1 .. MaxMinutes) /\ Len(b) \in Nat /\ Len(b) < Len(list)
      /\ \A i \in 1 .. Len(b) : b[i] = list[i]
  <2>1. buckets \in FullLists
    BY DEF IInv, TypeInv, MemoryType
  <2>2. Prefix(buckets[k], ToLoad(k))
    BY <1>2 DEF FillInv
  <2> QED BY <1>1, <1>4, <1>6, <2>1, <2>2, ListsAreSequences DEF Prefix
<1>8. PICK x : x = list[Len(b) + 1]
  OBVIOUS
<1>9. x \in 1 .. MaxMinutes
  <2>1. PICK n \in Nat : n = Len(b) + 1
    BY <1>7
  <2>2. n \in 1 .. Len(list)
    BY <1>5, <1>7, <2>1
  <2>3. PICK T : T = 1 .. MaxMinutes
    OBVIOUS
  <2>4. list \in Seq(T)
    BY <1>5, <2>3
  <2>5. list[n] \in T
    BY <2>2, <2>4
  <2> QED BY <1>8, <2>1, <2>3, <2>5
<1>10. PICK longer : longer = Append(b, x)
  OBVIOUS
<1>11. /\ longer \in Seq(1 .. MaxMinutes) /\ Len(longer) = Len(b) + 1
       /\ \A i \in 1 .. Len(longer) : longer[i] = list[i]
  BY <1>7, <1>8, <1>9, <1>10
<1>12. buckets' = [buckets EXCEPT ![k] = longer]
  BY <1>1, <1>4, <1>6, <1>8, <1>10
<1>13. /\ buckets \in [Kinds -> Seq(1 .. MaxMinutes)]
       /\ \A j \in Kinds : Len(buckets[j]) <= BUCKETS
  BY DEF IInv, TypeInv, MemoryType, FullLists, Lists
<1>14. /\ buckets' \in [Kinds -> Seq(1 .. MaxMinutes)] /\ buckets'[k] = longer
       /\ \A j \in Kinds \ {k} : buckets'[j] = buckets[j]
  BY <1>11, <1>12, <1>13
<1>15. Len(longer) <= BUCKETS /\ Len(longer) <= Len(list) /\ BUCKETS \in Nat
  BY <1>5, <1>7, <1>11, PingAssumption
<1>16. MemoryType'
  <2>1. \A j \in Kinds : Len(buckets'[j]) <= BUCKETS
    BY <1>13, <1>14, <1>15
  <2>2. buckets' \in FullLists
    BY <1>14, <2>1 DEF FullLists, Lists
  <2> QED BY <1>3, <2>2 DEF IInv, TypeInv, MemoryType
<1>17. FillInv'
  <2>1. \A j \in Kinds : ToLoad(j)' = ToLoad(j)
    BY <1>3 DEF ToLoad
  <2>2. \A j \in Kinds : Loaded(j)' => Loaded(j) /\ j # k
    BY <1>1, <1>3 DEF Loaded
  <2>3. Prefix(longer, list)
    BY <1>11, <1>15 DEF Prefix
  <2>4. ASSUME NEW j \in Kinds
        PROVE  /\ Prefix(buckets'[j], ToLoad(j))
               /\ Loaded(j)' => /\ Len(buckets'[j]) = Len(ToLoad(j))
                                /\ cur'[j] = data'["state"].cur.val[j]
    <3>1. CASE j = k
      BY <1>4, <1>14, <2>2, <2>3, <3>1
    <3>2. CASE j # k
      BY <1>2, <1>3, <1>14, <2>2, <3>2 DEF FillInv
    <3> QED BY <3>1, <3>2
  <2> QED BY <1>2, <1>3, <2>1, <2>4 DEF FillInv, Prefix
<1>18. LoadType'
  <2>1. Whole("state")' /\ ~Ended'
    BY <1>2, <1>3 DEF Whole, Ended
  <2> QED BY <1>2, <1>3, <1>17, <2>1 DEF IInv, TypeInv, LoadType, Ended
<1>19. MemoryInv'
  BY <1>2, <1>3 DEF MemoryInv, Trusted
<1> QED BY <1>1, <1>2, <1>16, <1>18, <1>19, LoadStepKeeps DEF loading

\* When the last kind is loaded, memory has what STATE_FILE has.
LEMMA LoadCurKeeps ==
  ASSUME IInv, NEW k \in Kinds, LoadCur(k)
  PROVE  IInv'
<1>1. /\ Loads /\ load = k /\ Len(buckets[k]) = Len(ToLoad(k))
      /\ cur' = [cur EXCEPT ![k] = data["state"].cur.val[k]]
      /\ load' = NextKind(k)
      /\ floor' = IF load' = "done" THEN Nothing ELSE floor
      /\ UNCHANGED <<clock, buckets, disks, saves, machine, history>>
  BY DEF LoadCur
<1>2. /\ ~Ended /\ load \notin {"unread", "done", "failed"}
      /\ Whole("state") /\ FillInv /\ process = "running"
  BY <1>1, KindsAreNamed DEF Ended, IInv, TypeInv, LoadType, Loads
<1>3. UNCHANGED <<clock, buckets, data, settled, step, process, signals, overlapped, spoiled,
                  kept, durable>>
  BY <1>1 DEF disks, saves, machine, history
<1>4. PICK d : d = data["state"]
  OBVIOUS
<1>5. IsFile(d) /\ d.buckets.by # "nobody" /\ d.cur.by = d.buckets.by
  BY <1>2, <1>4 DEF IInv, TypeInv, SaveType, AreFiles, Files, Whole
<1>6. PICK list \in FullLists : list = d.buckets.val
  BY <1>5 DEF IsFile
<1>7. PICK c \in Currents : c = d.cur.val
  BY <1>5 DEF IsFile
<1>8. cur' \in Currents /\ cur'[k] = c[k] /\ \A j \in Kinds \ {k} : cur'[j] = cur[j]
  <2>1. cur \in [Kinds -> 0 .. MaxMinutes] /\ c[k] \in 0 .. MaxMinutes
    BY DEF IInv, TypeInv, MemoryType, Currents
  <2> QED BY <1>1, <1>4, <1>7, <2>1 DEF Currents
<1>9. MemoryType'
  BY <1>3, <1>8 DEF IInv, TypeInv, MemoryType
<1>10. load' = "done" \/ (load' = "wifi" /\ k = "ping" /\ "wifi" \in Kinds)
  BY <1>1, KindsAreNamed DEF NextKind, KindsFrom
<1>11. floor' \in 0 .. MaxMinutes
  <2>1. floor \in 0 .. MaxMinutes /\ MaxMinutes \in Nat
    BY PingAssumption DEF IInv, TypeInv, LoadType
  <2> QED BY <1>1, <2>1 DEF Nothing
<1>12. ASSUME load' # "done"
       PROVE  FillInv'
  <2>1. load' = "wifi" /\ k = "ping" /\ floor' = floor
    BY <1>1, <1>10, <1>12
  <2>2. \A j \in Kinds : ToLoad(j)' = ToLoad(j)
    BY <1>3, <2>1 DEF ToLoad
  <2>3. \A j \in Kinds : Loaded(j)' => j = k
    BY <2>1 DEF Loaded
  <2>4. \A j \in Kinds : Prefix(buckets[j], ToLoad(j))
    BY <1>2 DEF FillInv
  <2>5. floor' \in 1 .. clock'
    BY <1>2, <1>3, <2>1 DEF FillInv
  <2>6. \A j \in Kinds : Loaded(j)' => /\ Len(buckets'[j]) = Len(ToLoad(j))
                                       /\ cur'[j] = data'["state"].cur.val[j]
    BY <1>1, <1>3, <1>4, <1>7, <1>8, <2>3
  <2> QED BY <1>3, <2>2, <2>4, <2>5, <2>6 DEF FillInv, Prefix
<1>13. LoadType'
  <2>1. Whole("state")' /\ step'["worker"] = "idle"
    BY <1>2, <1>3 DEF Whole, IInv, TypeInv, LoadType
  <2>2. load' # "unread" /\ load' \in {"done"} \cup Kinds
    BY <1>10
  <2> QED BY <1>2, <1>3, <1>11, <1>12, <2>1, <2>2, KindsAreNamed DEF LoadType
<1>14. ASSUME ~overlapped
       PROVE  MemoryInv'
  <2>1. ASSUME load' = "done", ~spoiled
        PROVE  Below(buckets, cur', clock) /\ Covers(buckets, kept, clock)
    <3>1. \A j \in Kinds : j = k \/ Loaded(j)
      BY <1>1, <1>10, <2>1, KindsAreNamed DEF Loaded, NextKind, KindsFrom
    <3>2. \A j \in Kinds : /\ Len(buckets[j]) = Len(ToLoad(j))
                           /\ Prefix(buckets[j], ToLoad(j)) /\ cur'[j] = c[j]
      BY <1>1, <1>2, <1>4, <1>7, <1>8, <3>1 DEF FillInv
    <3>3. cur' = c
      BY <1>8, <3>2 DEF Currents
    <3>4. PICK now \in 1 .. MaxMinutes : now = clock
      BY DEF IInv, TypeInv, MemoryType
    <3>5. PICK from \in 1 .. now : from = floor
      BY <1>2, <3>4 DEF FillInv
    <3>6. PICK r : r = [j \in Kinds |-> Recent(list[j], from)]
      OBVIOUS
    <3>7. /\ r \in FullLists
          /\ \A e : Below(list, e, now) => Below(r, e, now)
          /\ \A t \in Taken : Covers(list, t, now) => Covers(r, t, now)
      BY <3>6, RecentKeeps DEF Taken
    <3>8. \A j \in Kinds : ToLoad(j) = r[j]
      BY <1>4, <1>6, <3>5, <3>6 DEF ToLoad
    <3>9. buckets = r
      <4>1. ASSUME NEW j \in Kinds
            PROVE  buckets[j] = r[j]
        <5>1. buckets[j] \in Seq(1 .. MaxMinutes) /\ r[j] \in Seq(1 .. MaxMinutes)
          BY <3>7 DEF FullLists, Lists, IInv, TypeInv, MemoryType
        <5>2. /\ Len(buckets[j]) = Len(r[j])
              /\ \A i \in 1 .. Len(buckets[j]) : buckets[j][i] = r[j][i]
          BY <3>2, <3>8 DEF Prefix
        <5>3. PICK p \in Seq(1 .. MaxMinutes) : p = buckets[j]
          BY <5>1
        <5>4. PICK q \in Seq(1 .. MaxMinutes) : q = r[j]
          BY <5>1
        <5>5. Len(p) = Len(q) /\ \A i \in 1 .. Len(p) : p[i] = q[i]
          BY <5>2, <5>3, <5>4
        <5>6. p = q
          BY <5>5
        <5> QED BY <5>3, <5>4, <5>6
      <4>2. buckets = [j \in Kinds |-> buckets[j]] /\ r = [j \in Kinds |-> r[j]]
        BY <3>7 DEF FullLists, Lists, IInv, TypeInv, MemoryType
      <4> QED BY <4>1, <4>2
    <3>10. Intact(d, kept, clock)
      BY <1>4, <1>14, <2>1 DEF IInv, SafeInv, FileInv
    <3>11. Below(list, c, now) /\ Covers(list, kept, now)
      BY <1>5, <1>6, <1>7, <3>4, <3>10, EmptyFiles DEF Intact
    <3>12. kept \in Taken
      BY DEF IInv, TypeInv, MemoryType
    <3> QED BY <3>3, <3>4, <3>7, <3>9, <3>11, <3>12
  <2> QED BY <1>3, <2>1 DEF MemoryInv, Trusted, Below, Covers
<1> QED BY <1>1, <1>2, <1>9, <1>13, <1>14, LoadStepKeeps

----------------------------------------------------------------------------
(* Time and samples                                                         *)

\* Whatever wrote them, the current buckets of a file are buckets.
LEMMA FilesAreTyped ==
  ASSUME SaveType, NEW f \in Files
  PROVE  data[f].cur.val \in Currents
BY DEF SaveType, AreFiles, IsFile

LEMMA TickKeeps ==
  ASSUME IInv, Tick
  PROVE  IInv'
<1>1. /\ clock < MaxMinutes /\ clock' = clock + 1
      /\ UNCHANGED <<buckets, cur, data, settled, step, copy, fd, process, signals, stops,
                     load, floor, overlapped, spoiled, kept, durable>>
  BY DEF Tick, memory, disks, saves, machine, loading, history
<1>2. PICK later : later = clock'
  OBVIOUS
<1>3. /\ later \in 1 .. MaxMinutes /\ clock \in Int /\ later \in Int /\ clock <= later
  BY <1>1, <1>2, PingAssumption DEF IInv, TypeInv, MemoryType
<1>4. TypeInv'
  <2>1. ProcessType' /\ MemoryType' /\ SaveType'
    BY <1>1, <1>2, <1>3 DEF IInv, TypeInv, ProcessType, MemoryType, SaveType, AreFiles
  <2>2. FillInv => FillInv'
    <3>1. \A k \in Kinds : ToLoad(k)' = ToLoad(k) /\ (Loaded(k)' <=> Loaded(k))
      BY <1>1 DEF ToLoad, Loaded
    <3>2. floor \in 1 .. clock => floor \in 1 .. later
      BY <1>3
    <3> QED BY <1>1, <1>2, <3>1, <3>2 DEF FillInv, Prefix
  <2>3. LoadType'
    BY <1>1, <2>2 DEF IInv, TypeInv, LoadType, Ended, Empty, Loads, Whole
  <2> QED BY <2>1, <2>3 DEF TypeInv
<1>5. /\ \A b, c : c \in Currents /\ Below(b, c, clock) => Below(b, c, later)
      /\ \A b, t : t \in [Kinds -> SUBSET (1 .. MaxMinutes)] /\ Covers(b, t, clock)
           => Covers(b, t, later)
  BY <1>3, Later
<1>6. /\ cur \in Currents /\ kept \in [Kinds -> SUBSET (1 .. MaxMinutes)]
      /\ durable \in [Kinds -> SUBSET (1 .. MaxMinutes)]
  BY DEF IInv, TypeInv, MemoryType, Taken
<1>7. ASSUME ~overlapped'
      PROVE  SafeInv'
  <2>1. SafeInv
    BY <1>1, <1>7 DEF IInv
  <2>2. OneSaver'
    BY <1>1, <2>1 DEF SafeInv, OneSaver, Saving
  <2>3. MemoryInv'
    <3>1. process = "running" /\ Trusted => Below(buckets, cur, later) /\ Covers(buckets, kept, later)
      BY <1>5, <1>6, <2>1 DEF SafeInv, MemoryInv
    <3> QED BY <1>1, <1>2, <3>1 DEF MemoryInv, Trusted, Below, Covers
  <2>4. FileInv'
    <3>1. ASSUME NEW f \in Files, NEW t \in [Kinds -> SUBSET (1 .. MaxMinutes)],
                 Intact(data[f], t, clock)
          PROVE  Intact(data[f], t, later)
      <4>1. PICK d : d = data[f]
        OBVIOUS
      <4>2. Intact(d, t, clock) /\ d.cur.val \in Currents
        BY <3>1, <4>1, FilesAreTyped DEF IInv, TypeInv
      <4>3. Intact(d, t, later)
        BY <1>5, <4>2 DEF Intact
      <4> QED BY <4>1, <4>3
    <3>2. ~spoiled => /\ \A k \in Kinds : durable[k] \subseteq kept[k]
                      /\ Intact(data["state"], kept, later)
                      /\ ~settled => Intact(data["old"], durable, later)
      BY <1>6, <2>1, <3>1 DEF SafeInv, FileInv, Files
    <3>3. \A f \in StateFiles : Sealed(data[f])
      BY <2>1 DEF SafeInv, FileInv
    <3> QED BY <1>1, <1>2, <3>2, <3>3 DEF FileInv, StateFiles, Sealed, Intact, Below, Covers
  <2>5. ASSUME NEW s \in Savers
        PROVE  SaverInv(s)'
    <3>1. PICK b \in FullLists : b = copy[s]
      BY DEF IInv, TypeInv, SaveType
    <3>2. MinutesOf(b) \in [Kinds -> SUBSET (1 .. MaxMinutes)]
      BY ListsAreSequences DEF MinutesOf
    <3>3. PICK c \in Currents : c = data["tmp"].cur.val
      BY FilesAreTyped DEF IInv, TypeInv, Files
    <3>4. CopyInv(step[s], b) /\ Written(s, step[s], b, data["tmp"])
      BY <2>1, <3>1 DEF SafeInv, SaverInv
    <3>5. Copied(step[s]) /\ Trusted => /\ Below(b, cur, later) /\ Covers(b, kept, later)
                                        /\ Covers(buckets, MinutesOf(b), later)
      BY <1>5, <1>6, <3>2, <3>4 DEF CopyInv
    <3>6. CopyInv(step[s], copy[s])'
      BY <1>1, <1>2, <3>1, <3>5 DEF CopyInv, Trusted, Below, Covers, MinutesOf
    <3>7. step[s] \in {"sync", "replace"} /\ Trusted => Below(b, c, later)
      BY <1>5, <3>3, <3>4 DEF Written
    <3>8. Written(s, step[s], copy[s], data["tmp"])'
      BY <1>1, <1>2, <3>1, <3>3, <3>4, <3>7 DEF Written, Trusted, Below
    <3> QED BY <3>6, <3>8 DEF SaverInv
  <2> QED BY <2>2, <2>3, <2>4, <2>5 DEF SafeInv
<1> QED BY <1>4, <1>7 DEF IInv

LEMMA SampleKeeps ==
  ASSUME IInv, NEW k \in Kinds, Sample(k)
  PROVE  IInv'
<1>1. /\ LockFree /\ Started /\ process = "running" /\ cur[k] # clock
      /\ cur' = [cur EXCEPT ![k] = clock]
      /\ buckets' = IF cur[k] # Nothing THEN [buckets EXCEPT ![k] = Rotate(k)] ELSE buckets
      /\ UNCHANGED <<clock, data, settled, step, copy, fd, process, signals, stops,
                     load, floor, overlapped, spoiled, kept, durable>>
  BY DEF Sample, MaySample, Started, disks, saves, machine, loading, history
<1>2. /\ clock \in 1 .. MaxMinutes /\ buckets \in FullLists /\ cur \in Currents
      /\ kept \in [Kinds -> SUBSET (1 .. MaxMinutes)] /\ MaxMinutes \in Nat
  BY PingAssumption DEF IInv, TypeInv, MemoryType, Taken
<1>3. PICK b2 : b2 = buckets'
  OBVIOUS
<1>4. PICK c2 : c2 = [cur EXCEPT ![k] = clock]
  OBVIOUS
<1>5. c2 \in Currents /\ c2[k] = clock /\ \A x \in Kinds \ {k} : c2[x] = cur[x]
  BY <1>2, <1>4 DEF Currents
<1>6. /\ b2 \in FullLists
      /\ Below(buckets, cur, clock) => Below(b2, c2, clock)
      /\ \A t \in [Kinds -> SUBSET (1 .. MaxMinutes)] :
           Below(buckets, cur, clock) /\ Covers(buckets, t, clock) => Covers(b2, t, clock)
  <2>1. CASE cur[k] # Nothing
    <3>1. Begun(buckets, cur, k, clock, b2, c2)
      BY <1>1, <1>3, <1>4, <2>1 DEF Rotate, Pushed, Begun
    <3> QED BY <1>1, <1>2, <2>1, <3>1, RotationCovers
  <2>2. CASE cur[k] = Nothing
    <3>1. b2 = buckets
      BY <1>1, <1>3, <2>2
    <3>2. ASSUME Below(buckets, cur, clock)
          PROVE  Below(b2, c2, clock)
      <4>1. \A m \in Entries(buckets[k]) : m \in 1 .. MaxMinutes /\ m < 0
        BY <1>2, <2>2, <3>2, ListsAreSequences DEF Below, Nothing
      <4>2. \A m \in Entries(buckets[k]) : m < clock
        BY <4>1
      <4> QED BY <1>2, <1>5, <3>1, <3>2, <4>2 DEF Below
    <3> QED BY <1>2, <3>1, <3>2
  <2> QED BY <2>1, <2>2
<1>7. TypeInv'
  <2>1. ProcessType' /\ MemoryType' /\ SaveType'
    BY <1>1, <1>3, <1>4, <1>5, <1>6 DEF IInv, TypeInv, ProcessType, MemoryType, SaveType, AreFiles
  <2>2. load \in {"done", "failed"} /\ load \notin Kinds
    BY <1>1, KindsAreNamed DEF Started
  <2>3. LoadType'
    BY <1>1, <2>2 DEF IInv, TypeInv, LoadType, Ended
  <2> QED BY <2>1, <2>3 DEF TypeInv
<1>8. ASSUME ~overlapped'
      PROVE  SafeInv'
  <2>1. SafeInv
    BY <1>1, <1>8 DEF IInv
  <2>2. OneSaver'
    BY <1>1, <2>1 DEF SafeInv, OneSaver, Saving
  <2>3. Trusted => Below(buckets, cur, clock) /\ Covers(buckets, kept, clock)
    BY <1>1, <2>1 DEF SafeInv, MemoryInv
  <2>4. MemoryInv'
    <3>1. Trusted => Below(b2, c2, clock) /\ Covers(b2, kept, clock)
      BY <1>2, <1>6, <2>3
    <3> QED BY <1>1, <1>3, <1>4, <3>1 DEF MemoryInv, Trusted, Below, Covers
  <2>5. FileInv'
    BY <1>1, <2>1, FilesStay DEF SafeInv
  <2>6. ASSUME NEW s \in Savers
        PROVE  SaverInv(s)'
    <3>1. PICK b \in FullLists : b = copy[s]
      BY DEF IInv, TypeInv, SaveType
    <3>2. MinutesOf(b) \in [Kinds -> SUBSET (1 .. MaxMinutes)]
      BY ListsAreSequences DEF MinutesOf
    <3>3. CopyInv(step[s], b) /\ Written(s, step[s], b, data["tmp"])
      BY <2>1, <3>1 DEF SafeInv, SaverInv
    <3>4. Below(b, cur, clock) => Below(b, c2, clock)
      <4>1. ASSUME Below(b, cur, clock)
            PROVE  \A m \in Entries(b[k]) : m < clock
        <5>1. \A m \in Entries(b[k]) : m \in Int /\ m < cur[k]
          BY <4>1, ListsAreSequences DEF Below
        <5>2. cur[k] \in Int /\ cur[k] <= clock
          BY <1>2, <4>1 DEF Below, Currents
        <5> QED BY <1>2, <5>1, <5>2
      <4> QED BY <1>2, <1>5, <4>1 DEF Below
    <3>5. Copied(step[s]) /\ Trusted => /\ Below(b, c2, clock) /\ Covers(b, kept, clock)
                                        /\ Covers(b2, MinutesOf(b), clock)
      BY <1>6, <2>3, <3>2, <3>3, <3>4 DEF CopyInv
    <3>6. CopyInv(step[s], copy[s])'
      BY <1>1, <1>3, <1>4, <3>1, <3>5 DEF CopyInv, Trusted, Below, Covers, MinutesOf
    <3>7. Written(s, step[s], copy[s], data["tmp"])'
      BY <1>1, <3>1, <3>3 DEF Written, Trusted, Below
    <3> QED BY <3>6, <3>7 DEF SaverInv
  <2> QED BY <2>2, <2>4, <2>5, <2>6 DEF SafeInv
<1> QED BY <1>7, <1>8 DEF IInv

----------------------------------------------------------------------------
(* The theorems                                                             *)

LEMMA InitIsSafe == Init => IInv
<1> SUFFICES ASSUME Init PROVE IInv
  OBVIOUS
<1>1. MaxMinutes \in Nat \ {0} /\ BUCKETS \in Nat \ {0} /\ MaxStops \in Nat /\ MaxSignals \in Nat
  BY PingAssumption
<1>2. /\ clock = 1 /\ settled = TRUE /\ process = "running" /\ signals = 0 /\ stops = 0
      /\ overlapped = FALSE /\ spoiled = FALSE /\ load = "done" /\ floor = 0
      /\ kept = [k \in Kinds |-> {}] /\ durable = [k \in Kinds |-> {}]
      /\ buckets = NoCopy /\ \A k \in Kinds : Len(buckets[k]) = 0
      /\ cur = [k \in Kinds |-> 0] /\ step = [s \in Savers |-> "idle"]
      /\ copy = [s \in Savers |-> NoCopy] /\ fd = [s \in Savers |-> "none"]
      /\ data = [f \in Files |-> NoFile]
  BY DEF Init, NoCopy, Nothing
<1>3. ProcessType
  BY <1>1, <1>2 DEF ProcessType, Steps, Savers
<1>4. cur \in Currents
  BY <1>1, <1>2 DEF Currents
<1>5. MemoryType
  BY <1>1, <1>2, <1>4, EmptyFiles DEF MemoryType, Taken
<1>6. SaveType
  BY <1>2, EmptyFiles DEF SaveType, AreFiles
<1>7. OneSaver /\ \A s \in Savers : SaverInv(s)
  BY <1>2 DEF OneSaver, Saving, SaverInv, CopyInv, Copied, Written, Savers
<1>8. FileInv
  BY <1>2 DEF FileInv, StateFiles, Sealed, Intact, Files
<1>9. MemoryInv
  <2>1. \A k \in Kinds : Entries(buckets[k]) = {} /\ Ascending(buckets[k])
    BY <1>2 DEF Entries, Ascending
  <2>2. Below(buckets, cur, clock)
    <3>1. \A k \in Kinds : cur[k] <= clock
      BY <1>2
    <3> QED BY <2>1, <3>1 DEF Below
  <2>3. Covers(buckets, kept, clock)
    BY <1>2 DEF Covers
  <2> QED BY <2>2, <2>3 DEF MemoryInv
<1>10. LoadType
  BY <1>1, <1>2, KindsAreNamed DEF LoadType, Ended
<1> QED BY <1>3, <1>5, <1>6, <1>7, <1>8, <1>9, <1>10 DEF IInv, TypeInv, SafeInv

LEMMA SaveStateKeeps ==
  ASSUME IInv, NEW s \in Savers, SaveState(s)
  PROVE  IInv'
BY TakeLockKeeps, CopyStateKeeps, OpenTmpKeeps, WriteBucketsKeeps, WriteCurKeeps, SyncTmpKeeps,
   ReplaceFileKeeps, SyncDirectoryKeeps, LeaveUnsyncedKeeps, SaveFailsKeeps DEF SaveState

LEMMA StutterKeeps == IInv /\ UNCHANGED vars => IInv'
<1> SUFFICES ASSUME IInv, UNCHANGED vars
             PROVE  IInv'
  OBVIOUS
<1>1. UNCHANGED <<clock, buckets, cur, data, settled, step, copy, fd, process, signals, stops,
                  load, floor, overlapped, spoiled, kept, durable>>
  BY DEF vars, memory, disks, saves, machine, loading, history
<1>2. TypeInv'
  <2>1. ProcessType' /\ MemoryType' /\ SaveType'
    BY <1>1 DEF IInv, TypeInv, ProcessType, MemoryType, SaveType, AreFiles
  <2>2. FillInv => FillInv'
    BY <1>1 DEF FillInv, Prefix, ToLoad, Loaded
  <2>3. LoadType'
    BY <1>1, <2>2 DEF IInv, TypeInv, LoadType, Ended, Empty, Loads, Whole
  <2> QED BY <2>1, <2>3 DEF TypeInv
<1>3. SafeInv => SafeInv'
  <2>1. OneSaver => OneSaver'
    BY <1>1 DEF OneSaver, Saving
  <2>2. ASSUME NEW s \in Savers, SaverInv(s)
        PROVE  SaverInv(s)'
    BY <1>1, <2>2 DEF SaverInv, CopyInv, Written, Trusted, Below, Covers, MinutesOf
  <2>3. FileInv => FileInv'
    BY <1>1, FilesStay
  <2>4. MemoryInv => MemoryInv'
    BY <1>1 DEF MemoryInv, Trusted, Below, Covers
  <2> QED BY <2>1, <2>2, <2>3, <2>4 DEF SafeInv
<1> QED BY <1>1, <1>2, <1>3 DEF IInv

\* What savers, handlers, samples, stops and load_state keep true: the types,
\* and what of the file has been loaded; until two saves overlap, that one saver
\* writes a file of its own and that what it has written is one save's; and,
\* until a process that has not loaded all of the file replaces it, that the
\* memory of one that has, its copy and the files hold the full buckets that
\* saves have put into STATE_FILE, and the file a power failure would leave
\* those that were in it when its directory was synced.
THEOREM Inductive == Spec => []IInv
<1>1. ASSUME IInv, [Next]_vars
      PROVE  IInv'
  <2>1. CASE Tick
    BY <1>1, <2>1, TickKeeps
  <2>2. ASSUME NEW k \in Kinds, Sample(k)
        PROVE  IInv'
    BY <1>1, <2>2, SampleKeeps
  <2>3. ASSUME NEW s \in Savers, SaveState(s)
        PROVE  IInv'
    BY <1>1, <2>3, SaveStateKeeps
  <2>4. CASE Signal
    BY <1>1, <2>4, SignalKeeps
  <2>5. CASE Graceful
    BY <1>1, <2>3, <2>5, UnwindKeeps, StopKeeps DEF Graceful, Savers
  <2>6. CASE Crash
    BY <1>1, <2>6, StopKeeps
  <2>7. CASE PowerFailure
    BY <1>1, <2>7, PowerFailureKeeps
  <2>8. CASE Restart
    BY <1>1, <2>8, RestartKeeps
  <2>9. CASE LoadState
    BY <1>1, <2>9, ReadFileKeeps, ReadFailsKeeps, LoadBucketKeeps, LoadCurKeeps DEF LoadState
  <2>10. CASE UNCHANGED vars
    BY <1>1, <2>10, StutterKeeps
  <2>11. "worker" \in Savers
    BY DEF Savers
  <2> QED BY <1>1, <2>1, <2>2, <2>3, <2>4, <2>5, <2>6, <2>7, <2>8, <2>9, <2>10, <2>11 DEF Next
<1> QED BY InitIsSafe, <1>1, PTL DEF Spec

\* The variables keep their types: in particular a deque never holds more than
\* BUCKETS full buckets (server.py, deque(maxlen=BUCKETS)).
THEOREM TypeCorrect == Spec => []TypeOK
<1>1. IInv => TypeOK
  <2> SUFFICES ASSUME IInv PROVE TypeOK
    OBVIOUS
  <2>1. /\ clock \in 1 .. MaxMinutes /\ cur \in Currents
        /\ {kept, durable} \subseteq [Kinds -> SUBSET (1 .. MaxMinutes)]
        /\ load \in {"unread", "done", "failed"} \cup Kinds /\ floor \in 0 .. MaxMinutes
    BY DEF IInv, TypeInv, MemoryType, LoadType, Taken
  <2>2. buckets \in Lists /\ \A k \in Kinds : Len(buckets[k]) <= BUCKETS
    BY DEF IInv, TypeInv, MemoryType, FullLists
  <2>3. /\ copy \in [Savers -> Lists] /\ fd \in [Savers -> Files \cup {"gone", "none"}]
        /\ settled \in BOOLEAN /\ overlapped \in BOOLEAN /\ spoiled \in BOOLEAN
    BY DEF IInv, TypeInv, SaveType, FullLists
  <2>4. AreFiles(data)
    BY DEF IInv, TypeInv, SaveType
  <2>5. DOMAIN data = Files /\ \A f \in Files : data[f].synced \in BOOLEAN
    BY <2>4 DEF AreFiles, IsFile
  <2>6. /\ step \in [Savers -> Steps] /\ process \in {"running", "down"}
        /\ signals \in 0 .. MaxSignals /\ stops \in 0 .. MaxStops
    BY DEF IInv, TypeInv, ProcessType
  <2> QED BY <2>1, <2>2, <2>3, <2>5, <2>6 DEF TypeOK, Steps
<1> QED BY <1>1, Inductive, PTL

\* STATE_FILE is whole at every moment, through crashes, failed writes and
\* power failures, unless two saves have been in progress at once (save_state).
THEOREM TornOnly == Spec => []TornOnlyByOverlap
<1>1. IInv => TornOnlyByOverlap
  <2> SUFFICES ASSUME IInv, ~overlapped, NEW f \in StateFiles, Exists(f)
               PROVE  Whole(f)
    BY DEF TornOnlyByOverlap
  <2>1. Sealed(data[f])
    BY DEF IInv, SafeInv, FileInv
  <2> QED BY <2>1 DEF Sealed, Exists, Whole
<1> QED BY <1>1, Inductive, PTL

\* An ascending list has as many entries as places.
LEMMA AscendingCount ==
  ASSUME NEW b \in Seq(Int), Ascending(b), NEW S, IsFiniteSet(S), Entries(b) \subseteq S
  PROVE  Cardinality(S) \in Nat /\ Cardinality(S) >= Len(b)
<1>1. PICK n \in Nat : n = Len(b)
  OBVIOUS
<1> DEFINE places == 1 .. n
<1>2. IsFiniteSet(places) /\ Cardinality(places) = n
  <2>1. n \in Int /\ 1 \in Int
    OBVIOUS
  <2>2. IsFiniteSet(1 .. n) /\ Cardinality(1 .. n) = IF 1 > n THEN 0 ELSE n - 1 + 1
    BY <2>1, FS_Interval, Zenon
  <2> QED BY <2>2
<1> DEFINE at == [i \in places |-> b[i]]
<1>3. at \in Injection(places, S)
  <2>1. \A i \in places : b[i] \in S /\ b[i] \in Int
    BY <1>1 DEF Entries
  <2>2. at \in [places -> S]
    BY <2>1
  <2>3. \A i, j \in places : i < j => b[i] < b[j]
    BY <1>1 DEF Ascending
  <2>4. ASSUME NEW i \in places, NEW j \in places, at[i] = at[j]
        PROVE  i = j
    BY <2>1, <2>3, <2>4
  <2> QED BY <2>2, <2>4, Fun_IsInj
<1> HIDE DEF places, at
<1>4. Cardinality(places) <= Cardinality(S)
  BY <1>2, <1>3, FS_Injection
<1>5. Cardinality(S) \in Nat
  BY FS_CardinalityType
<1> QED BY <1>1, <1>2, <1>4, <1>5

\* What an intact file was to keep, it has.
LEMMA IntactHas ==
  ASSUME IInv, NEW f \in Files, NEW t \in Taken, Intact(data[f], t, clock),
         NEW k \in Kinds, NEW m \in t[k]
  PROVE  HasKept(f, k, m)
<1>1. PICK d : d = data[f]
  OBVIOUS
<1>2. Intact(d, t, clock) /\ IsFile(d)
  BY <1>1 DEF IInv, TypeInv, SaveType, AreFiles
<1>3. MaxMinutes \in Nat /\ m \in 1 .. MaxMinutes
  BY PingAssumption DEF Taken
<1>4. /\ d.buckets.by # "nobody" /\ d.cur.by = d.buckets.by
      /\ Below(d.buckets.val, d.cur.val, clock) /\ Covers(d.buckets.val, t, clock)
  BY <1>2 DEF Intact
<1>5. Whole(f)
  BY <1>1, <1>4 DEF Whole
<1>6. PICK b \in FullLists : b = d.buckets.val
  BY <1>2, <1>4 DEF IsFile
<1>7. PICK c \in Currents : c = d.cur.val
  BY <1>2 DEF IsFile
<1>8. InFile(f, k) = (Entries(b[k]) \cup {c[k]}) \ {0}
  BY <1>1, <1>6, <1>7 DEF InFile, Minutes, Nothing
<1>9. \A n \in Entries(b[k]) : n \in 1 .. MaxMinutes /\ n # 0
  <2>1. \A n \in Entries(b[k]) : n \in 1 .. MaxMinutes
    BY ListsAreSequences
  <2>2. \A n \in 1 .. MaxMinutes : n # 0
    BY <1>3
  <2> QED BY <2>1, <2>2
<1>10. CASE m \in Entries(b[k])
  BY <1>5, <1>8, <1>9, <1>10 DEF HasKept
<1>11. CASE Len(b[k]) = BUCKETS /\ \A n \in Entries(b[k]) : n > m
  <2>1. PICK S : S = {n \in InFile(f, k) : n > m}
    OBVIOUS
  <2>2. Entries(b[k]) \subseteq S
    BY <1>8, <1>9, <1>11, <2>1
  <2>3. c[k] \in 0 .. MaxMinutes
    BY DEF Currents
  <2>4. IsFiniteSet(S)
    <3>1. 0 \in Int /\ MaxMinutes \in Int
      BY <1>3
    <3>2. IsFiniteSet(0 .. MaxMinutes)
      BY <3>1, FS_Interval, Zenon
    <3>3. S \subseteq 0 .. MaxMinutes
      BY <1>3, <1>8, <1>9, <2>1, <2>3
    <3> QED BY <3>2, <3>3, FS_Subset
  <2>5. PICK l \in Seq(Int) : l = b[k]
    BY ListsAreSequences
  <2>6. Ascending(l)
    BY <1>4, <1>6, <2>5 DEF Below
  <2>7. Cardinality(S) >= Len(l)
    BY <2>2, <2>4, <2>5, <2>6, AscendingCount
  <2>8. Len(l) = BUCKETS
    BY <1>11, <2>5
  <2> QED BY <1>5, <2>1, <2>7, <2>8 DEF HasKept
<1> QED BY <1>4, <1>5, <1>6, <1>10, <1>11 DEF Covers, HasKept

\* A full bucket that a save has put into STATE_FILE stays in it, until it is
\* too old or BUCKETS later ones have pushed it out; from the next fsync of the
\* directory on, through power failures.  Two saves at once, and a save by a
\* process that has not loaded all of the file, may end that (save_state,
\* load_state, _graceful).
THEOREM SavedKept == Spec => []SavedIsKept
<1>1. IInv => SavedIsKept
  <2> SUFFICES ASSUME IInv, ~overlapped, ~spoiled, NEW k \in Kinds
               PROVE  /\ \A m \in kept[k] : HasKept("state", k, m)
                      /\ \A m \in durable[k], f \in StateFiles : HasKept(f, k, m)
    BY DEF SavedIsKept
  <2>1. /\ \A j \in Kinds : durable[j] \subseteq kept[j]
        /\ Intact(data["state"], kept, clock)
        /\ ~settled => Intact(data["old"], durable, clock)
    BY DEF IInv, SafeInv, FileInv
  <2>2. kept \in Taken /\ durable \in Taken /\ "state" \in Files /\ "old" \in Files
    BY DEF IInv, TypeInv, MemoryType, Files
  <2>3. \A m \in kept[k] : HasKept("state", k, m)
    BY <2>1, <2>2, IntactHas
  <2>4. ~settled => \A m \in durable[k] : HasKept("old", k, m)
    BY <2>1, <2>2, IntactHas
  <2> QED BY <2>1, <2>3, <2>4 DEF StateFiles
<1> QED BY <1>1, Inductive, PTL

=============================================================================
