------------------------- MODULE PingCountsProofs -------------------------
(***************************************************************************)
(* The counts of PingCounts are true for any number of minutes, samples,   *)
(* buckets and stops: TypeOK, CountsAreTrue and SummaryIsBracketed.        *)
(* A sum is the number of the units counted, so that what a step does to   *)
(* a sum is what it does to a finite set: no induction over the minutes or *)
(* over a list of buckets is needed.                                       *)
(***************************************************************************)
EXTENDS PingCounts, FiniteSetTheorems, FunctionTheorems, TLAPS

----------------------------------------------------------------------------
(* The inductive invariant                                                  *)

Pairs == [sent : Nat, recv : Nat]
Ids == Minutes \cup {Nothing}
Ascending(b) == \A i, j \in 1 .. Len(b) : i < j => b[i] < b[j]

Files == [full : Seq(Minutes), cur : Ids, count : [Minutes -> Pairs], stats : Pairs]
Readers == [step : {"idle", "cur", "sent", "recv", "done"}, cutoff : Int,
            list : Seq(Minutes), sent : Seq(Nat), series : Seq(Pairs),
            start : Pairs, rolled : BOOLEAN]
Savers == [step : {"idle", "cur", "recv", "stats", "last"}, full : Seq(Minutes),
           cur : Ids, count : [Minutes -> Pairs], stats : Pairs]

Types ==
  /\ clock \in Minutes /\ stops \in 0 .. MaxStops
  /\ stats \in Pairs /\ count \in [Minutes -> Pairs] /\ truth \in [Minutes -> Pairs]
  /\ full \in Seq(Minutes) /\ Len(full) <= MaxBuckets
  /\ cur \in Ids
  /\ pc \in {"probe", "reply", "append", "new", "sent", "recv"}
  /\ sample \in [minute : Minutes, answered : BOOLEAN]
  /\ reader \in Readers /\ saver \in Savers /\ file \in Files
  /\ load \in {"buckets", "stats", "done", "interrupted"} /\ rest \in Seq(Minutes)
  /\ spoiled \in BOOLEAN

\* The minute of the current bucket, or the one that it will have if there is
\* none yet: that of the sample, or else not before that of the clock.
After(c, m) == IF c = Nothing THEN m ELSE c
Latest == After(cur, IF pc = "probe" THEN clock ELSE sample.minute)

\* The totals have been loaded, and those in the file belong to its buckets.
Totalled == load = "done" /\ ~spoiled

\* Buckets are in the order of their minutes, before minute c.
Ordered(list, c) ==
  /\ Ascending(list) /\ Len(list) <= MaxBuckets
  /\ \A m \in Entries(list) : m < c

Before(list, c) == c # Nothing => \A m \in Entries(list) : m < c

\* Nothing is counted yet after minute c, or from limit on if there is no c.
Uncounted(f, c, limit) ==
  \A m \in Minutes : m > c /\ (c = Nothing => m >= limit) => f[m] = Zero

\* The full buckets are in the order of their minutes, before the current one
\* (except while that is moving), which is not after the clock.
OrderInv ==
  /\ cur <= clock /\ sample.minute <= clock
  /\ Ascending(full)
  /\ \A m \in Entries(full) : IF pc = "new" /\ cur # Nothing THEN m <= cur ELSE m < Latest
  /\ load = "done" => Uncounted(count, cur, Latest)
  /\ pc = "reply" => cur <= sample.minute
  /\ pc \in {"append", "new"} => cur < sample.minute
  /\ pc = "append" => cur # Nothing
  /\ pc \in {"sent", "recv"} => cur = sample.minute
  /\ pc = "recv" => sample.answered

\* What the worker holds of the sample and the bucket does not count yet.
Unsent == IF pc \in {"reply", "append", "new", "sent"} THEN 1 ELSE 0
Unreplied == IF sample.answered /\ pc \in {"append", "new", "sent", "recv"} THEN 1 ELSE 0
Unanswered == IF pc = "reply" THEN 1 ELSE 0
At(m, n) == IF m = sample.minute THEN n ELSE 0

CountInv ==
  /\ \A m \in Minutes :
       /\ count[m].sent + At(m, Unsent) <= truth[m].sent
       /\ count[m].recv + At(m, Unreplied) <= truth[m].recv
       /\ truth[m].recv + At(m, Unanswered) <= truth[m].sent
  /\ Totalled => /\ SumOver(count, Minutes).sent + Unsent <= stats.sent
                 /\ SumOver(count, Minutes).recv + Unreplied <= stats.recv
  /\ AtMost(stats, SumOver(truth, Minutes))
  /\ SumOver(truth, Minutes).sent <= MaxSamples

SaverInv ==
  /\ saver.step # "idle" => Ordered(saver.full, Latest)
  /\ saver.step \in {"recv", "stats", "last"} =>
       /\ saver.cur <= cur
       /\ Before(saver.full, saver.cur)
       /\ Uncounted(saver.count, saver.cur, Latest)
       /\ \A m \in Minutes : AtMost(saver.count[m], count[m])
  /\ saver.step = "last" =>
       /\ Totalled => SumOver(saver.count, Minutes).sent <= saver.stats.sent
       /\ saver.stats.sent <= stats.sent

FileInv ==
  /\ file.cur <= clock
  /\ Ordered(file.full, After(file.cur, clock))
  /\ Uncounted(file.count, file.cur, clock)
  /\ \A m \in Minutes : AtMost(file.count[m], truth[m])
  /\ AtMost(file.stats, SumOver(truth, Minutes))
  /\ ~spoiled => AtMost(SumOver(file.count, Minutes), file.stats)

\* While load_state is at work nobody else is, and the file is what it read.
LoadInv ==
  /\ load # "done" => pc = "probe" /\ reader.step = "idle" /\ stats = Zero
  /\ load \in {"buckets", "stats"} => saver.step = "idle" /\ count = file.count
  /\ load = "buckets" =>
       /\ cur = Nothing
       /\ Ordered(rest, After(file.cur, clock))
       /\ \A m \in Entries(full) : m < After(file.cur, clock)
       /\ \A m \in Entries(full), r \in Entries(rest) : m < r
  /\ load = "stats" => cur = file.cur

\* What the summary has read so far, unless a bucket became full meanwhile.
InSight == InWindow(Held(full, cur), reader.cutoff)

ReaderInv ==
  ~reader.rolled =>
    /\ reader.step \in {"cur", "sent", "recv", "done"} => (pc = "new" => cur = Nothing)
    /\ reader.step = "cur" =>
         /\ reader.list = full
         /\ AtMost(reader.start, SumOver(count, InSight))
    /\ reader.step \in {"sent", "recv"} =>
         /\ Ascending(reader.list)
         /\ Entries(reader.list) \subseteq InSight
         /\ reader.start.recv <= SumOver(count, Entries(reader.list)).recv
    /\ reader.step = "sent" =>
         reader.start.sent <= SumOver(count, Entries(reader.list)).sent
    /\ reader.step = "recv" =>
         /\ DOMAIN reader.sent = DOMAIN reader.list
         /\ \A i \in DOMAIN reader.list : reader.sent[i] <= count[reader.list[i]].sent
         /\ reader.start.sent <= Sum(reader.sent, DOMAIN reader.sent)
    /\ reader.step = "done" =>
         /\ AtMost(reader.start, SumOver(reader.series, DOMAIN reader.series))
         /\ AtMost(SumOver(reader.series, DOMAIN reader.series), SumOver(count, InSight))

\* A list that has been counted is as long as its counts.
LengthInv == reader.step = "recv" => DOMAIN reader.sent = DOMAIN reader.list

IInv == Types /\ OrderInv /\ CountInv /\ SaverInv /\ FileInv /\ LoadInv /\ LengthInv /\ ReaderInv
----------------------------------------------------------------------------
(* Sums                                                                     *)

Units(f, ids) == UNION {{<<i, k>> : k \in 1 .. f[i]} : i \in ids}

LEMMA UnitIsCounted ==
  ASSUME NEW ids, NEW f, NEW u
  PROVE  u \in Units(f, ids) <=> \E i, k : i \in ids /\ k \in 1 .. f[i] /\ u = <<i, k>>
<1>1. ASSUME u \in Units(f, ids)
      PROVE  \E i, k : i \in ids /\ k \in 1 .. f[i] /\ u = <<i, k>>
  BY <1>1 DEF Units
<1>2. ASSUME NEW i \in ids, NEW k \in 1 .. f[i], u = <<i, k>>
      PROVE  u \in Units(f, ids)
  <2>1. u \in {<<i, h>> : h \in 1 .. f[i]}
    BY <1>2
  <2> QED BY <2>1 DEF Units
<1> QED BY <1>1, <1>2

LEMMA PairIsCounted ==
  ASSUME NEW ids, NEW f, NEW i, NEW k
  PROVE  <<i, k>> \in Units(f, ids) <=> i \in ids /\ k \in 1 .. f[i]
<1>1. \A a, b : <<i, k>> = <<a, b>> => i = a /\ k = b
  OBVIOUS
<1>2. PICK u : u = <<i, k>>
  OBVIOUS
<1>3. u \in Units(f, ids) <=> \E a, b : a \in ids /\ b \in 1 .. f[a] /\ u = <<a, b>>
  BY UnitIsCounted
<1> QED BY <1>1, <1>2, <1>3

LEMMA IntervalIsFinite == \A a, b \in Int : IsFiniteSet(a .. b)
BY FS_Interval

\* Finitely many numbers have a sum.
LEMMA SumIsNatural ==
  ASSUME NEW ids, IsFiniteSet(ids), NEW f, \A i \in ids : f[i] \in Nat
  PROVE  IsFiniteSet(Units(f, ids)) /\ Sum(f, ids) \in Nat /\ Sum(f, ids) = Cardinality(Units(f, ids))
<1> DEFINE parts == {{<<i, k>> : k \in 1 .. f[i]} : i \in ids}
           part == [i \in ids |-> {<<i, k>> : k \in 1 .. f[i]}]
<1>1. \A T \in parts : IsFiniteSet(T)
  <2>1. ASSUME NEW i \in ids
        PROVE  IsFiniteSet({<<i, k>> : k \in 1 .. f[i]})
    <3>1. f[i] \in Int /\ 1 \in Int
      OBVIOUS
    <3>2. IsFiniteSet({i}) /\ IsFiniteSet(1 .. f[i])
      BY <3>1, FS_Singleton, IntervalIsFinite, Zenon
    <3>3. IsFiniteSet({i} \X (1 .. f[i]))
      BY <3>2, FS_Product
    <3>4. {<<i, k>> : k \in 1 .. f[i]} \subseteq {i} \X (1 .. f[i])
      OBVIOUS
    <3> QED BY <3>3, <3>4, FS_Subset
  <2> QED BY <2>1, Zenon
<1>2. IsFiniteSet(parts)
  <2>1. part \in Surjection(ids, parts)
    <3>1. part \in [ids -> parts]
      BY Zenon
    <3>2. \A t \in parts : \E i \in ids : part[i] = t
      BY Zenon
    <3> QED BY <3>1, <3>2, Fun_IsSurj, Zenon
  <2> QED BY <2>1, FS_Surjection, Zenon
<1>3. IsFiniteSet(UNION parts)
  BY <1>1, <1>2, FS_UNION, Zenon
<1> QED BY <1>3, FS_CardinalityType DEF Units, Sum

\* A sum grows with what it adds up, and with what that is added up for.
LEMMA SumGrows ==
  ASSUME NEW more, IsFiniteSet(more), NEW ids \in SUBSET more, NEW f, NEW g,
         \A i \in more : g[i] \in Nat, \A i \in ids : f[i] \in Nat /\ f[i] <= g[i]
  PROVE  Sum(f, ids) <= Sum(g, more)
<1>1. Units(f, ids) \subseteq Units(g, more)
  <2>1. ASSUME NEW u \in Units(f, ids)
        PROVE  u \in Units(g, more)
    <3>1. PICK i, k : i \in ids /\ k \in 1 .. f[i] /\ u = <<i, k>>
      BY UnitIsCounted
    <3>2. i \in more /\ f[i] \in Nat /\ g[i] \in Nat /\ f[i] <= g[i]
      BY <3>1
    <3>3. k \in 1 .. g[i]
      BY <3>1, <3>2
    <3> QED BY <3>1, <3>2, <3>3, PairIsCounted
  <2> QED BY <2>1
<1>2. IsFiniteSet(ids)
  BY FS_Subset
<1>3. /\ IsFiniteSet(Units(g, more)) /\ Sum(g, more) = Cardinality(Units(g, more))
      /\ Sum(f, ids) = Cardinality(Units(f, ids))
  BY <1>2, SumIsNatural
<1> QED BY <1>1, <1>3, FS_Subset

\* One more for one of them is one more in the sum.
LEMMA SumCountsOne ==
  ASSUME NEW ids, IsFiniteSet(ids), NEW f, NEW g, NEW m \in ids,
         \A i \in ids : f[i] \in Nat, g[m] = f[m] + 1, \A i \in ids : i # m => g[i] = f[i]
  PROVE  Sum(g, ids) = Sum(f, ids) + 1
<1> DEFINE new == <<m, f[m] + 1>>
<1>1. Units(g, ids) = Units(f, ids) \cup {new}
  <2>1. ASSUME NEW i \in ids, NEW k
        PROVE  k \in 1 .. g[i] <=> k \in 1 .. f[i] \/ (i = m /\ k = f[m] + 1)
    OBVIOUS
  <2>2. ASSUME NEW u \in Units(g, ids)
        PROVE  u \in Units(f, ids) \cup {new}
    <3>1. PICK i, k : i \in ids /\ k \in 1 .. g[i] /\ u = <<i, k>>
      BY UnitIsCounted
    <3>2. k \in 1 .. f[i] \/ (i = m /\ k = f[m] + 1)
      BY <2>1, <3>1
    <3> QED BY <3>1, <3>2, PairIsCounted
  <2>3. ASSUME NEW u \in Units(f, ids)
        PROVE  u \in Units(g, ids)
    <3>1. PICK i, k : i \in ids /\ k \in 1 .. f[i] /\ u = <<i, k>>
      BY UnitIsCounted
    <3>2. k \in 1 .. g[i]
      BY <2>1, <3>1
    <3> QED BY <3>1, <3>2, PairIsCounted
  <2>4. new \in Units(g, ids)
    <3>1. f[m] + 1 \in 1 .. g[m]
      OBVIOUS
    <3> QED BY <3>1, PairIsCounted
  <2> QED BY <2>2, <2>3, <2>4
<1>2. new \notin Units(f, ids)
  <2>1. f[m] + 1 \notin 1 .. f[m]
    OBVIOUS
  <2> QED BY <2>1, PairIsCounted
<1>3. \A i \in ids : g[i] \in Nat
  OBVIOUS
<1>4. /\ IsFiniteSet(Units(f, ids)) /\ Sum(f, ids) = Cardinality(Units(f, ids))
      /\ Sum(g, ids) = Cardinality(Units(g, ids)) /\ Sum(f, ids) \in Nat
  BY <1>3, SumIsNatural
<1> HIDE DEF new
<1> QED BY <1>1, <1>2, <1>4, FS_AddElement

\* Nothing adds up to nothing.
LEMMA SumOfNothing ==
  ASSUME NEW ids, NEW f, \A i \in ids : f[i] = 0
  PROVE  Sum(f, ids) = 0
<1>1. Units(f, ids) = {}
  <2>1. ASSUME NEW u \in Units(f, ids)
        PROVE  FALSE
    <3>1. PICK i, k : i \in ids /\ k \in 1 .. f[i] /\ u = <<i, k>>
      BY UnitIsCounted
    <3>2. f[i] = 0
      BY <3>1
    <3> QED BY <3>1, <3>2
  <2> QED BY <2>1
<1> QED BY <1>1, FS_EmptySet, Zenon DEF Sum, Units

\* A sum does not depend on the names of what it adds up.
LEMMA SumRenames ==
  ASSUME NEW ids, IsFiniteSet(ids), NEW names, NEW f, NEW g, NEW name \in Bijection(ids, names),
         \A i \in ids : f[i] \in Nat /\ g[name[i]] = f[i]
  PROVE  Sum(f, ids) = Sum(g, names)
<1>1. /\ name \in [ids -> names] /\ \A i, j \in ids : name[i] = name[j] => i = j
      /\ \A n \in names : \E i \in ids : name[i] = n
  BY Fun_BijectionProperties
<1> DEFINE U == Units(f, ids)
           W == Units(g, names)
           to == [u \in U |-> <<name[u[1]], u[2]>>]
<1>2. ASSUME NEW u \in U
      PROVE  /\ u[1] \in ids /\ u[2] \in 1 .. f[u[1]] /\ u = <<u[1], u[2]>>
             /\ to[u] = <<name[u[1]], u[2]>> /\ to[u] \in W
  <2>1. PICK i, k : i \in ids /\ k \in 1 .. f[i] /\ u = <<i, k>>
    BY UnitIsCounted
  <2>2. u[1] = i /\ u[2] = k
    BY <2>1
  <2>3. to[u] = <<name[i], k>>
    BY <2>2
  <2>4. name[i] \in names /\ k \in 1 .. g[name[i]]
    BY <1>1, <2>1
  <2>5. to[u] \in W
    BY <2>3, <2>4, PairIsCounted
  <2>6. u[1] \in ids /\ u[2] \in 1 .. f[u[1]]
    BY <2>1, <2>2
  <2> QED BY <2>1, <2>2, <2>3, <2>5, <2>6
<1>3. to \in [U -> W]
  BY <1>2
<1>4. ASSUME NEW u \in U, NEW v \in U, to[u] = to[v]
      PROVE  u = v
  <2>1. name[u[1]] = name[v[1]] /\ u[2] = v[2]
    BY <1>2, <1>4
  <2>2. u[1] = v[1]
    BY <1>1, <1>2, <2>1
  <2> QED BY <1>2, <2>1, <2>2
<1>5. ASSUME NEW w \in W
      PROVE  \E u \in U : to[u] = w
  <2>1. PICK n, k : n \in names /\ k \in 1 .. g[n] /\ w = <<n, k>>
    BY UnitIsCounted
  <2>2. PICK i \in ids : name[i] = n
    BY <1>1, <2>1
  <2>3. k \in 1 .. f[i]
    BY <2>1, <2>2
  <2>4. <<i, k>> \in U
    BY <2>3, PairIsCounted
  <2>5. to[<<i, k>>] = <<name[i], k>>
    BY <2>4
  <2> QED BY <2>1, <2>2, <2>4, <2>5
<1> HIDE DEF U, W, to
<1>6. to \in Bijection(U, W)
  BY <1>3, <1>4, <1>5, Fun_IsBij, Zenon
<1>7. IsFiniteSet(U) /\ Sum(f, ids) = Cardinality(U)
  BY SumIsNatural DEF U
<1>8. Cardinality(W) = Cardinality(U)
  <2>1. ExistsBijection(U, W)
    BY <1>6 DEF ExistsBijection
  <2> QED BY <1>7, <2>1, FS_Bijection
<1> QED BY <1>7, <1>8 DEF W, Sum, Units

LEMMA TotalIsPair ==
  ASSUME NEW ids, IsFiniteSet(ids), NEW f, \A i \in ids : f[i] \in Pairs
  PROVE  SumOver(f, ids) \in Pairs
<1>1. ASSUME NEW s, s = [i \in ids |-> f[i].sent], NEW r, r = [i \in ids |-> f[i].recv]
      PROVE  Sum(s, ids) \in Nat /\ Sum(r, ids) \in Nat
  <2>1. \A i \in ids : s[i] \in Nat /\ r[i] \in Nat
    BY <1>1 DEF Pairs
  <2> QED BY <2>1, SumIsNatural
<1> QED BY <1>1 DEF SumOver, Pairs

LEMMA SentGrows ==
  ASSUME NEW more, IsFiniteSet(more), NEW ids \in SUBSET more, NEW f, NEW g,
         \A i \in more : g[i].sent \in Nat,
         \A i \in ids : f[i].sent \in Nat /\ f[i].sent <= g[i].sent
  PROVE  SumOver(f, ids).sent <= SumOver(g, more).sent
<1>1. ASSUME NEW s, s = [i \in ids |-> f[i].sent], NEW r, r = [i \in more |-> g[i].sent]
      PROVE  Sum(s, ids) <= Sum(r, more)
  BY <1>1, SumGrows
<1> QED BY <1>1 DEF SumOver

LEMMA RecvGrows ==
  ASSUME NEW more, IsFiniteSet(more), NEW ids \in SUBSET more, NEW f, NEW g,
         \A i \in more : g[i].recv \in Nat,
         \A i \in ids : f[i].recv \in Nat /\ f[i].recv <= g[i].recv
  PROVE  SumOver(f, ids).recv <= SumOver(g, more).recv
<1>1. ASSUME NEW s, s = [i \in ids |-> f[i].recv], NEW r, r = [i \in more |-> g[i].recv]
      PROVE  Sum(s, ids) <= Sum(r, more)
  BY <1>1, SumGrows
<1> QED BY <1>1 DEF SumOver

LEMMA TotalGrows ==
  ASSUME NEW more, IsFiniteSet(more), NEW ids \in SUBSET more, NEW f, NEW g,
         \A i \in more : g[i] \in Pairs,
         \A i \in ids : f[i] \in Pairs /\ AtMost(f[i], g[i])
  PROVE  AtMost(SumOver(f, ids), SumOver(g, more))
<1>1. /\ \A i \in more : g[i].sent \in Nat /\ g[i].recv \in Nat
      /\ \A i \in ids : /\ f[i].sent \in Nat /\ f[i].sent <= g[i].sent
                        /\ f[i].recv \in Nat /\ f[i].recv <= g[i].recv
  BY DEF Pairs, AtMost
<1> QED BY <1>1, SentGrows, RecvGrows DEF AtMost

\* No more replies than samples.
LEMMA RecvAtMostSent ==
  ASSUME NEW ids, IsFiniteSet(ids), NEW f,
         \A i \in ids : f[i] \in Pairs /\ f[i].recv <= f[i].sent
  PROVE  SumOver(f, ids).recv <= SumOver(f, ids).sent
<1>1. ASSUME NEW s, s = [i \in ids |-> f[i].recv], NEW r, r = [i \in ids |-> f[i].sent]
      PROVE  Sum(s, ids) <= Sum(r, ids)
  <2>1. \A i \in ids : s[i] \in Nat /\ r[i] \in Nat /\ s[i] <= r[i]
    BY <1>1 DEF Pairs
  <2>2. ids \in SUBSET ids
    OBVIOUS
  <2> QED BY <2>1, <2>2, SumGrows
<1> QED BY <1>1 DEF SumOver

LEMMA TotalCountsSent ==
  ASSUME NEW ids, IsFiniteSet(ids), NEW m \in ids, NEW f, NEW g,
         \A i \in ids : /\ f[i] \in Pairs /\ g[i] \in Pairs /\ g[i].recv = f[i].recv
                        /\ g[i].sent = f[i].sent + (IF i = m THEN 1 ELSE 0)
  PROVE  /\ SumOver(g, ids).sent = SumOver(f, ids).sent + 1
         /\ SumOver(g, ids).recv = SumOver(f, ids).recv
<1>1. ASSUME NEW s, s = [i \in ids |-> f[i].sent], NEW r, r = [i \in ids |-> g[i].sent]
      PROVE  Sum(r, ids) = Sum(s, ids) + 1
  <2>1. /\ \A i \in ids : s[i] \in Nat /\ (i # m => r[i] = s[i])
        /\ r[m] = s[m] + 1
    BY <1>1 DEF Pairs
  <2> QED BY <2>1, SumCountsOne
<1>2. [i \in ids |-> f[i].recv] = [i \in ids |-> g[i].recv]
  OBVIOUS
<1> QED BY <1>1, <1>2 DEF SumOver

LEMMA TotalCountsRecv ==
  ASSUME NEW ids, IsFiniteSet(ids), NEW m \in ids, NEW f, NEW g,
         \A i \in ids : /\ f[i] \in Pairs /\ g[i] \in Pairs /\ g[i].sent = f[i].sent
                        /\ g[i].recv = f[i].recv + (IF i = m THEN 1 ELSE 0)
  PROVE  /\ SumOver(g, ids).recv = SumOver(f, ids).recv + 1
         /\ SumOver(g, ids).sent = SumOver(f, ids).sent
<1>1. ASSUME NEW s, s = [i \in ids |-> f[i].recv], NEW r, r = [i \in ids |-> g[i].recv]
      PROVE  Sum(r, ids) = Sum(s, ids) + 1
  <2>1. /\ \A i \in ids : s[i] \in Nat /\ (i # m => r[i] = s[i])
        /\ r[m] = s[m] + 1
    BY <1>1 DEF Pairs
  <2> QED BY <2>1, SumCountsOne
<1>2. [i \in ids |-> f[i].sent] = [i \in ids |-> g[i].sent]
  OBVIOUS
<1> QED BY <1>1, <1>2 DEF SumOver

LEMMA TotalOfNothing ==
  ASSUME NEW ids, NEW f, \A i \in ids : f[i] = Zero
  PROVE  SumOver(f, ids) = Zero
<1>1. ASSUME NEW s, s = [i \in ids |-> f[i].sent], NEW r, r = [i \in ids |-> f[i].recv]
      PROVE  Sum(s, ids) = 0 /\ Sum(r, ids) = 0
  <2>1. \A i \in ids : s[i] = 0 /\ r[i] = 0
    BY <1>1 DEF Zero
  <2> QED BY <2>1, SumOfNothing
<1> QED BY <1>1 DEF SumOver, Zero

LEMMA TotalRenames ==
  ASSUME NEW ids, IsFiniteSet(ids), NEW names, NEW f, NEW g, NEW name \in Bijection(ids, names),
         \A i \in ids : f[i] \in Pairs /\ g[name[i]] = f[i]
  PROVE  SumOver(f, ids) = SumOver(g, names)
<1>1. \A i \in ids : name[i] \in names
  BY Fun_BijectionProperties
<1>2. ASSUME NEW s, s = [i \in ids |-> f[i].sent], NEW r, r = [n \in names |-> g[n].sent]
      PROVE  Sum(s, ids) = Sum(r, names)
  <2>1. \A i \in ids : s[i] \in Nat /\ r[name[i]] = s[i]
    BY <1>1, <1>2 DEF Pairs
  <2> QED BY <2>1, SumRenames
<1>3. ASSUME NEW s, s = [i \in ids |-> f[i].recv], NEW r, r = [n \in names |-> g[n].recv]
      PROVE  Sum(s, ids) = Sum(r, names)
  <2>1. \A i \in ids : s[i] \in Nat /\ r[name[i]] = s[i]
    BY <1>1, <1>3 DEF Pairs
  <2> QED BY <2>1, SumRenames
<1> QED BY <1>2, <1>3 DEF SumOver

----------------------------------------------------------------------------
(* Lists                                                                    *)

Rank(K, i) == Cardinality({j \in K : j <= i})

\* The places in a finite set of numbers, counted from below
LEMMA RankGrows ==
  ASSUME NEW K \in SUBSET Int, IsFiniteSet(K)
  PROVE  /\ Cardinality(K) \in Nat
         /\ \A i \in K : Rank(K, i) \in 1 .. Cardinality(K)
         /\ \A i, j \in K : i < j => Rank(K, i) < Rank(K, j)
<1>1. Cardinality(K) \in Nat
  BY FS_CardinalityType
<1>2. ASSUME NEW i \in K, NEW B, B = {j \in K : j <= i}
      PROVE  IsFiniteSet(B) /\ Cardinality(B) \in 1 .. Cardinality(K)
  <2>1. B \subseteq K /\ B # {}
    BY <1>2
  <2>2. IsFiniteSet(B) /\ Cardinality(B) <= Cardinality(K)
    BY <2>1, FS_Subset
  <2>3. Cardinality(B) \in Nat /\ Cardinality(B) # 0
    BY <2>1, <2>2, FS_CardinalityType, FS_EmptySet
  <2> QED BY <1>1, <2>2, <2>3
<1>3. ASSUME NEW i \in K, NEW j \in K, i < j
      PROVE  Rank(K, i) < Rank(K, j)
  <2>1. PICK B : B = {h \in K : h <= i}
    OBVIOUS
  <2>2. PICK C : C = {h \in K : h <= j}
    OBVIOUS
  <2>3. B \subseteq C /\ j \in C /\ j \notin B
    <3>1. i \in Int /\ j \in Int /\ \A h \in K : h \in Int
      OBVIOUS
    <3>2. j <= j /\ ~(j <= i) /\ \A h \in K : h <= i => h <= j
      BY <1>3, <3>1
    <3> QED BY <2>1, <2>2, <3>2, Zenon
  <2>4. IsFiniteSet(C) /\ Cardinality(C) \in Nat /\ Cardinality(B) \in Nat
    BY <1>1, <1>2, <2>1, <2>2
  <2>5. Cardinality(B) <= Cardinality(C) /\ (Cardinality(C) = Cardinality(B) => C = B)
    BY <2>3, <2>4, FS_Subset
  <2> QED BY <2>1, <2>2, <2>3, <2>4, <2>5 DEF Rank
<1> QED BY <1>1, <1>2, <1>3 DEF Rank

\* Every place is taken.
LEMMA RankIsOnto ==
  ASSUME NEW K \in SUBSET Int, IsFiniteSet(K), NEW n \in 1 .. Cardinality(K)
  PROVE  \E i \in K : Rank(K, i) = n
<1> DEFINE r == [i \in K |-> Rank(K, i)]
<1>1. PICK c \in Nat : c = Cardinality(K)
  BY RankGrows
<1> DEFINE top == 1 .. c
<1>2. \A i \in K : Rank(K, i) \in top
  BY <1>1, RankGrows
<1>3. r \in Injection(K, top)
  <2>1. r \in [K -> top]
    BY <1>2
  <2>2. \A i, j \in K : r[i] = r[j] => i = j
    BY <1>2, RankGrows
  <2> QED BY <2>1, <2>2, Fun_IsInj
<1>4. IsFiniteSet(top) /\ Cardinality(top) = c
  <2>1. c \in Int /\ 1 \in Int
    OBVIOUS
  <2>2. IsFiniteSet(1 .. c) /\ Cardinality(1 .. c) = IF 1 > c THEN 0 ELSE c - 1 + 1
    BY <2>1, FS_Interval, Zenon
  <2> QED BY <2>2
<1>5. n \in top
  BY <1>1
<1>8. \A i \in K : r[i] = Rank(K, i)
  OBVIOUS
<1> HIDE DEF top, r
<1>6. r \in Surjection(K, top)
  BY <1>1, <1>3, <1>4, FS_Injection
<1>7. \A m \in top : \E i \in K : r[i] = m
  BY <1>6, Fun_SurjectionProperties, Zenon
<1> QED BY <1>5, <1>8, <1>7

\* The buckets that load_state and bucket_series keep of a list
LEMMA SinceList ==
  ASSUME NEW T \in SUBSET Int, NEW b \in Seq(T), NEW floor \in Int
  PROVE  /\ Since(b, floor) \in Seq(T) /\ Len(Since(b, floor)) <= Len(b)
         /\ Ascending(b) => Ascending(Since(b, floor))
         /\ \A m : m \in Entries(Since(b, floor)) <=> m \in Entries(b) /\ m >= floor
         /\ (\A m \in Entries(b) : m >= floor) => Len(Since(b, floor)) = Len(b)
<1>1. PICK K : K = {i \in DOMAIN b : b[i] >= floor}
  OBVIOUS
<1>2. Len(b) \in Nat /\ DOMAIN b = 1 .. Len(b) /\ \A i \in 1 .. Len(b) : b[i] \in T
  OBVIOUS
<1>3. K \subseteq 1 .. Len(b) /\ K \in SUBSET Int
  BY <1>1, <1>2
<1>4. IsFiniteSet(K) /\ Cardinality(K) <= Len(b)
  <2>1. PICK n \in Nat : n = Len(b)
    BY <1>2
  <2>2. n \in Int /\ 1 \in Int
    OBVIOUS
  <2>3. IsFiniteSet(1 .. n) /\ Cardinality(1 .. n) = IF 1 > n THEN 0 ELSE n - 1 + 1
    BY <2>2, FS_Interval, Zenon
  <2>4. Cardinality(1 .. n) = n /\ K \subseteq 1 .. n
    BY <1>3, <2>1, <2>3
  <2> QED BY <2>1, <2>3, <2>4, FS_Subset
<1>5. PICK N : N = Cardinality(K)
  OBVIOUS
<1>6. PICK nth : nth = [n \in 1 .. N |-> CHOOSE i \in K : Rank(K, i) = n]
  OBVIOUS
<1>7. N \in Nat /\ N <= Len(b)
  BY <1>3, <1>4, <1>5, RankGrows
<1>8. \A n \in 1 .. N : nth[n] \in K /\ Rank(K, nth[n]) = n
  BY <1>3, <1>4, <1>5, <1>6, RankIsOnto
<1>9. Since(b, floor) = [n \in 1 .. N |-> b[nth[n]]]
  BY <1>1, <1>5, <1>6 DEF Since, Rank
<1>10. PICK r : r = Since(b, floor)
  OBVIOUS
<1>11. /\ r \in Seq(T) /\ Len(r) = N
       /\ \A n \in 1 .. N : r[n] = b[nth[n]]
  <2>1. \A n \in 1 .. N : b[nth[n]] \in T
    BY <1>2, <1>3, <1>8
  <2> QED BY <1>7, <1>9, <1>10, <2>1
<1>12. ASSUME Ascending(b)
       PROVE  Ascending(r)
  <2>1. ASSUME NEW i \in 1 .. N, NEW j \in 1 .. N, i < j
        PROVE  r[i] < r[j]
    <3>1. nth[i] \in K /\ nth[j] \in K /\ Rank(K, nth[i]) < Rank(K, nth[j])
      BY <1>8, <2>1
    <3>2. \A h, l \in K : h < l => Rank(K, h) < Rank(K, l)
      BY <1>3, <1>4, RankGrows
    <3>3. \A h \in K : h \in Int /\ Rank(K, h) \in Int
      BY <1>3, <1>4, <1>5, <1>7, RankGrows
    <3>4. nth[i] < nth[j]
      BY <3>1, <3>2, <3>3
    <3> QED BY <1>3, <1>11, <1>12, <3>1, <3>4 DEF Ascending
  <2> QED BY <1>11, <2>1 DEF Ascending
<1>13. ASSUME NEW m
       PROVE  m \in Entries(r) <=> m \in Entries(b) /\ m >= floor
  <2>1. ASSUME m \in Entries(r)
        PROVE  m \in Entries(b) /\ m >= floor
    <3>1. PICK n \in 1 .. N : m = b[nth[n]]
      BY <1>11, <2>1 DEF Entries
    <3>2. nth[n] \in K
      BY <1>8
    <3> QED BY <1>1, <1>3, <3>1, <3>2 DEF Entries
  <2>2. ASSUME m \in Entries(b), m >= floor
        PROVE  m \in Entries(r)
    <3>1. PICK i \in 1 .. Len(b) : m = b[i]
      BY <2>2 DEF Entries
    <3>2. i \in K
      BY <1>1, <1>2, <2>2, <3>1
    <3>3. PICK n : n = Rank(K, i)
      OBVIOUS
    <3>4. n \in 1 .. N
      BY <1>3, <1>4, <1>5, <3>2, <3>3, RankGrows
    <3>5. nth[n] = i
      <4>1. nth[n] \in K /\ Rank(K, nth[n]) = Rank(K, i)
        BY <1>8, <3>3, <3>4
      <4>2. \A h, l \in K : h < l => Rank(K, h) < Rank(K, l)
        BY <1>3, <1>4, RankGrows
      <4>3. \A h \in K : h \in Int /\ Rank(K, h) \in Int
        BY <1>3, <1>4, <1>5, <1>7, RankGrows
      <4>4. PICK h \in K : h = nth[n]
        BY <4>1
      <4>5. Rank(K, h) = Rank(K, i) /\ ~(h < i) /\ ~(i < h)
        BY <3>2, <4>1, <4>2, <4>3, <4>4
      <4>6. h \in Int /\ i \in Int
        BY <3>2, <4>3
      <4> QED BY <4>4, <4>5, <4>6
    <3> QED BY <1>11, <3>1, <3>4, <3>5 DEF Entries
  <2> QED BY <2>1, <2>2
<1>14. ASSUME \A m \in Entries(b) : m >= floor
       PROVE  N = Len(b)
  <2>1. K = 1 .. Len(b)
    BY <1>1, <1>2, <1>14 DEF Entries
  <2>2. PICK n \in Nat : n = Len(b)
    BY <1>2
  <2>3. n \in Int /\ 1 \in Int
    OBVIOUS
  <2>4. Cardinality(1 .. n) = IF 1 > n THEN 0 ELSE n - 1 + 1
    BY <2>3, FS_Interval, Zenon
  <2> QED BY <1>5, <2>1, <2>2, <2>4
<1> QED BY <1>7, <1>10, <1>11, <1>12, <1>13, <1>14

LEMMA EntriesOf ==
  ASSUME NEW T, NEW b \in Seq(T)
  PROVE  Len(b) \in Nat /\ (\A i \in 1 .. Len(b) : b[i] \in T) /\ Entries(b) \subseteq T
BY DEF Entries

LEMMA AppendedList ==
  ASSUME NEW T, NEW t \in Seq(T), NEW c \in T, NEW r, r = Append(t, c) \/ r = t \o <<c>>
  PROVE  /\ r \in Seq(T) /\ Len(r) = Len(t) + 1 /\ r[Len(t) + 1] = c
         /\ \A i \in 1 .. Len(t) : r[i] = t[i]
<1>1. CASE r = Append(t, c)
  BY <1>1
<1>2. CASE r = t \o <<c>>
  BY <1>2
<1> QED BY <1>1, <1>2

LEMMA ListIsIndexed ==
  ASSUME NEW T, NEW b \in Seq(T)
  PROVE  /\ Len(b) \in Nat /\ DOMAIN b = 1 .. Len(b)
         /\ \A i \in 1 .. Len(b) : b[i] \in T /\ b[i] \in Entries(b)
         /\ \A m \in Entries(b) : \E i \in 1 .. Len(b) : m = b[i]
<1>1. Len(b) \in Nat /\ DOMAIN b = 1 .. Len(b) /\ \A i \in 1 .. Len(b) : b[i] \in T
  OBVIOUS
<1> QED BY <1>1 DEF Entries

\* A list that ascends does so when a later bucket is appended.
LEMMA LongerList ==
  ASSUME NEW T \in SUBSET Int, NEW t \in Seq(T), NEW c \in T,
         NEW r, r = Append(t, c) \/ r = t \o <<c>>,
         Ascending(t), \A m \in Entries(t) : m < c
  PROVE  /\ r \in Seq(T) /\ Len(r) = Len(t) + 1 /\ Ascending(r)
         /\ Entries(r) = Entries(t) \cup {c} /\ \A m \in Entries(r) : m <= c
<1>1. PICK S : S = T
  OBVIOUS
<1>2. t \in Seq(S) /\ c \in S /\ c \in Int
  BY <1>1
<1>3. /\ r \in Seq(S) /\ Len(r) = Len(t) + 1 /\ r[Len(t) + 1] = c
      /\ \A i \in 1 .. Len(t) : r[i] = t[i]
  BY <1>2, AppendedList
<1>4. /\ Len(t) \in Nat
      /\ \A i \in 1 .. Len(t) : t[i] \in T /\ t[i] \in Entries(t)
      /\ \A m \in Entries(t) : \E i \in 1 .. Len(t) : m = t[i]
  BY ListIsIndexed
<1>5. /\ \A i \in 1 .. Len(r) : r[i] \in Entries(r)
      /\ \A m \in Entries(r) : \E i \in 1 .. Len(r) : m = r[i]
  BY <1>3, ListIsIndexed
<1>6. \A i \in 1 .. Len(t) : r[i] \in Int /\ r[i] < c
  <2>1. ASSUME NEW i \in 1 .. Len(t)
        PROVE  r[i] \in Int /\ r[i] < c
    <3>1. r[i] = t[i] /\ t[i] \in T /\ t[i] \in Entries(t)
      BY <1>3, <1>4
    <3> QED BY <3>1
  <2> QED BY <2>1
<1>7. \A i \in 1 .. Len(r) : i \in 1 .. Len(t) \/ i = Len(t) + 1
  BY <1>3, <1>4
<1>8. Ascending(r)
  <2>1. ASSUME NEW i \in 1 .. Len(r), NEW j \in 1 .. Len(r), i < j
        PROVE  r[i] < r[j]
    <3>1. i \in 1 .. Len(t)
      BY <1>3, <1>4, <2>1
    <3>2. CASE j \in 1 .. Len(t)
      BY <1>3, <2>1, <3>1, <3>2 DEF Ascending
    <3>3. CASE j = Len(t) + 1
      BY <1>3, <1>6, <3>1, <3>3
    <3> QED BY <1>7, <3>2, <3>3
  <2> QED BY <2>1 DEF Ascending
<1>9. Entries(r) = Entries(t) \cup {c}
  <2>1. \A m \in Entries(r) : m \in Entries(t) \cup {c}
    BY <1>3, <1>4, <1>5, <1>7
  <2>2. Len(t) + 1 \in 1 .. Len(r) /\ \A i \in 1 .. Len(t) : i \in 1 .. Len(r)
    BY <1>3, <1>4
  <2>3. \A m \in Entries(t) \cup {c} : m \in Entries(r)
    BY <1>3, <1>4, <1>5, <2>2
  <2> QED BY <2>1, <2>3
<1>10. \A m \in Entries(r) : m <= c
  <2>1. \A m \in Entries(t) : m \in Int
    <3>1. ASSUME NEW m \in Entries(t)
          PROVE  m \in Int
      <4>1. PICK i \in 1 .. Len(t) : m = t[i]
        BY <1>4
      <4>2. t[i] \in T
        BY <1>4
      <4> QED BY <4>1, <4>2
    <3> QED BY <3>1
  <2> QED BY <1>2, <1>9, <2>1
<1> QED BY <1>1, <1>3, <1>8, <1>9, <1>10

LEMMA ShorterList ==
  ASSUME NEW T \in SUBSET Int, NEW b \in Seq(T), b # <<>>, Ascending(b)
  PROVE  /\ Tail(b) \in Seq(T) /\ Len(Tail(b)) = Len(b) - 1 /\ Ascending(Tail(b))
         /\ Entries(Tail(b)) \subseteq Entries(b)
<1>1. PICK t : t = Tail(b)
  OBVIOUS
<1>2. /\ t \in Seq(T) /\ Len(t) = Len(b) - 1 /\ Len(b) \in Nat \ {0}
      /\ \A i \in 1 .. Len(t) : t[i] = b[i + 1]
  BY <1>1
<1>3. \A i \in 1 .. Len(t) : i + 1 \in 1 .. Len(b)
  BY <1>2
<1>4. Entries(t) \subseteq Entries(b)
  BY <1>2, <1>3, ListIsIndexed
<1>5. Ascending(t)
  <2>1. ASSUME NEW i \in 1 .. Len(t), NEW j \in 1 .. Len(t), i < j
        PROVE  t[i] < t[j]
    <3>1. i + 1 \in 1 .. Len(b) /\ j + 1 \in 1 .. Len(b) /\ i + 1 < j + 1
      BY <1>2, <1>3, <2>1
    <3> QED BY <1>2, <3>1 DEF Ascending
  <2> QED BY <2>1 DEF Ascending
<1> QED BY <1>1, <1>2, <1>4, <1>5

\* What a deque with maxlen is after an append.
LEMMA PushedList ==
  ASSUME NEW T \in SUBSET Int, NEW b \in Seq(T), Len(b) <= MaxBuckets, NEW c \in T,
         Ascending(b), \A m \in Entries(b) : m < c,
         NEW r, r = Append(IF Len(b) < MaxBuckets THEN b ELSE Tail(b), c)
  PROVE  /\ r \in Seq(T) /\ Len(r) <= MaxBuckets /\ Ascending(r)
         /\ \A m \in Entries(r) : m <= c
<1>1. PICK t : t = IF Len(b) < MaxBuckets THEN b ELSE Tail(b)
  OBVIOUS
<1>2. MaxBuckets \in Nat \ {0} /\ Len(b) \in Nat
  BY CountsAssumption
<1>3. /\ t \in Seq(T) /\ Len(t) < MaxBuckets /\ Len(t) \in Nat
      /\ Ascending(t) /\ \A m \in Entries(t) : m < c
  <2>1. CASE Len(b) < MaxBuckets
    BY <1>1, <1>2, <2>1
  <2>2. CASE Len(b) = MaxBuckets
    <3>1. b # <<>> /\ t = Tail(b)
      BY <1>1, <1>2, <2>2
    <3>2. /\ t \in Seq(T) /\ Len(t) = Len(b) - 1 /\ Ascending(t)
          /\ Entries(t) \subseteq Entries(b)
      BY <3>1, ShorterList
    <3> QED BY <1>2, <2>2, <3>2
  <2> QED BY <1>2, <2>1, <2>2
<1>4. r = Append(t, c)
  BY <1>1
<1>5. /\ r \in Seq(T) /\ Len(r) = Len(t) + 1 /\ Ascending(r)
      /\ \A m \in Entries(r) : m <= c
  BY <1>3, <1>4, LongerList, Zenon
<1> QED BY <1>2, <1>3, <1>5

\* The numbers of a list that ascends are added up as those of a set.
LEMMA ListIsSummed ==
  ASSUME NEW T \in SUBSET Int, NEW b \in Seq(T), Ascending(b),
         NEW x, \A m \in Entries(b) : x[m] \in Nat,
         NEW y, \A i \in 1 .. Len(b) : y[i] = x[b[i]]
  PROVE  Sum(y, 1 .. Len(b)) = Sum(x, Entries(b))
<1>1. /\ Len(b) \in Nat /\ b \in [1 .. Len(b) -> Entries(b)]
      /\ \A i \in 1 .. Len(b) : b[i] \in Int
  BY DEF Entries
<1>2. \A i, j \in 1 .. Len(b) : b[i] = b[j] => i = j
  <2>1. ASSUME NEW i \in 1 .. Len(b), NEW j \in 1 .. Len(b), b[i] = b[j]
        PROVE  i = j
    <3>1. ~(i < j) /\ ~(j < i)
      BY <1>1, <2>1 DEF Ascending
    <3> QED BY <1>1, <3>1
  <2> QED BY <2>1
<1>3. \A m \in Entries(b) : \E i \in 1 .. Len(b) : b[i] = m
  BY DEF Entries
<1>4. b \in Bijection(1 .. Len(b), Entries(b))
  BY <1>1, <1>2, <1>3, Fun_IsBij
<1>5. IsFiniteSet(1 .. Len(b))
  BY <1>1, IntervalIsFinite
<1>6. \A i \in 1 .. Len(b) : y[i] \in Nat /\ x[b[i]] = y[i]
  BY <1>1
<1> QED BY <1>4, <1>5, <1>6, SumRenames

\* A sum of the sums of groups is the sum of all.
Class(part, ids, g) == {i \in ids : part[i] = g}

LEMMA SumOfGroups ==
  ASSUME NEW ids, IsFiniteSet(ids), NEW groups, NEW part \in [ids -> groups],
         NEW x, \A i \in ids : x[i] \in Nat,
         NEW y, \A g \in groups : y[g] = Sum(x, Class(part, ids, g))
  PROVE  Sum(y, groups) = Sum(x, ids)
<1> DEFINE Grp(g) == {i \in ids : part[i] = g}
           bij == [g \in groups |-> CHOOSE b : b \in Bijection(1 .. y[g], Units(x, Grp(g)))]
           U == Units(x, ids)
           W == Units(y, groups)
           to == [w \in W |-> bij[w[1]][w[2]]]
<1>1. ASSUME NEW g \in groups
      PROVE  bij[g] \in Bijection(1 .. y[g], Units(x, Grp(g)))
  <2>1. IsFiniteSet(Grp(g)) /\ \A i \in Grp(g) : x[i] \in Nat
    BY FS_Subset
  <2>2. PICK G : G = Grp(g) /\ G = Class(part, ids, g)
    BY DEF Class
  <2>3. IsFiniteSet(Units(x, G)) /\ y[g] = Cardinality(Units(x, G))
    BY <2>1, <2>2, SumIsNatural
  <2>4. ExistsBijection(1 .. y[g], Units(x, G))
    BY <2>3, FS_CardinalityType
  <2>5. \E b : b \in Bijection(1 .. y[g], Units(x, Grp(g)))
    BY <2>2, <2>4 DEF ExistsBijection
  <2> QED BY <2>5, Zenon
<1> HIDE DEF bij
<1>2. ASSUME NEW g \in groups
      PROVE  /\ \A k \in 1 .. y[g] : bij[g][k] \in Units(x, Grp(g))
             /\ \A k, l \in 1 .. y[g] : bij[g][k] = bij[g][l] => k = l
             /\ \A u \in Units(x, Grp(g)) : \E k \in 1 .. y[g] : bij[g][k] = u
  <2>1. PICK b, A, B : b = bij[g] /\ A = 1 .. y[g] /\ B = Units(x, Grp(g))
    OBVIOUS
  <2>2. b \in Bijection(A, B)
    BY <1>1, <2>1
  <2>3. /\ \A k \in A : b[k] \in B
        /\ \A k, l \in A : b[k] = b[l] => k = l
        /\ \A u \in B : \E k \in A : b[k] = u
    BY <2>2, Fun_BijectionProperties
  <2> QED BY <2>1, <2>3
<1>3. ASSUME NEW g \in groups, NEW k \in 1 .. y[g]
      PROVE  <<g, k>> \in W /\ to[<<g, k>>] = bij[g][k]
  <2>1. <<g, k>> \in W
    BY PairIsCounted
  <2> QED BY <2>1
<1>4. ASSUME NEW g \in groups, NEW u \in Units(x, Grp(g))
      PROVE  u \in U /\ part[u[1]] = g
  <2>1. PICK i, k : i \in Grp(g) /\ k \in 1 .. x[i] /\ u = <<i, k>>
    BY UnitIsCounted
  <2>2. i \in ids /\ part[i] = g /\ u[1] = i
    BY <2>1
  <2> QED BY <2>1, <2>2, PairIsCounted
<1>5. ASSUME NEW w \in W
      PROVE  \E g \in groups : \E k \in 1 .. y[g] : w = <<g, k>>
  BY UnitIsCounted
<1>6. ASSUME NEW u \in U
      PROVE  \E g \in groups : u \in Units(x, Grp(g))
  <2>1. PICK i, k : i \in ids /\ k \in 1 .. x[i] /\ u = <<i, k>>
    BY UnitIsCounted
  <2>2. part[i] \in groups /\ i \in Grp(part[i])
    BY <2>1
  <2> QED BY <2>1, <2>2, PairIsCounted
<1> HIDE DEF U, W, to, Grp
<1>7. to \in [W -> U]
  <2>1. \A w \in W : to[w] \in U
    BY <1>2, <1>3, <1>4, <1>5
  <2> QED BY <2>1 DEF to
<1>8. ASSUME NEW v \in W, NEW w \in W, to[v] = to[w]
      PROVE  v = w
  <2>1. PICK g \in groups : \E k \in 1 .. y[g] : v = <<g, k>>
    BY <1>5
  <2>2. PICK k \in 1 .. y[g] : v = <<g, k>>
    BY <2>1
  <2>3. PICK h \in groups : \E l \in 1 .. y[h] : w = <<h, l>>
    BY <1>5
  <2>4. PICK l \in 1 .. y[h] : w = <<h, l>>
    BY <2>3
  <2>5. bij[g][k] = bij[h][l]
    BY <1>3, <1>8, <2>2, <2>4
  <2>6. bij[g][k] \in Units(x, Grp(g)) /\ bij[h][l] \in Units(x, Grp(h))
    BY <1>2
  <2>7. g = h
    BY <1>4, <2>5, <2>6
  <2>8. k = l
    BY <1>2, <2>5, <2>7
  <2> QED BY <2>2, <2>4, <2>7, <2>8
<1>9. ASSUME NEW u \in U
      PROVE  \E w \in W : to[w] = u
  <2>1. PICK g \in groups : u \in Units(x, Grp(g))
    BY <1>6
  <2>2. PICK k \in 1 .. y[g] : bij[g][k] = u
    BY <1>2, <2>1
  <2> QED BY <1>3, <2>2
<1>10. to \in Bijection(W, U)
  BY <1>7, <1>8, <1>9, Fun_IsBij, Zenon
<1>11. IsFiniteSet(U) /\ Sum(x, ids) = Cardinality(U)
  BY SumIsNatural DEF U
<1>12. ExistsBijection(U, W)
  <2>1. Inverse(to, W, U) \in Bijection(U, W)
    BY <1>10, Fun_BijInverse
  <2> QED BY <2>1 DEF ExistsBijection
<1>13. Cardinality(W) = Cardinality(U)
  BY <1>11, <1>12, FS_Bijection
<1> QED BY <1>11, <1>13 DEF W, Sum, Units

----------------------------------------------------------------------------
(* What a step leaves alone                                                 *)

LEMMA MinuteFacts ==
  /\ IsFiniteSet(Minutes) /\ Minutes \in SUBSET Int /\ Nothing \notin Minutes
  /\ Ids \in SUBSET Int /\ \A m \in Ids : m # Nothing => m \in Minutes
  /\ \A m \in Minutes : m \in Int /\ Nothing < m /\ m \in Ids
  /\ \A list \in Seq(Minutes) : Entries(list) \subseteq Minutes
<1>1. MaxMinutes \in Nat \ {0} /\ 1 \in Int /\ MaxMinutes \in Int
  BY CountsAssumption
<1>2. IsFiniteSet(1 .. MaxMinutes)
  BY <1>1, IntervalIsFinite
<1>3. \A list \in Seq(Minutes) : Entries(list) \subseteq Minutes
  BY EntriesOf
<1> QED BY <1>1, <1>2, <1>3 DEF Minutes, Nothing, Ids

LEMMA FileStays ==
  ASSUME Types, Types', FileInv, file' = file, clock <= clock', spoiled' = spoiled,
         \A m \in Minutes : AtMost(truth[m], truth'[m])
  PROVE  FileInv'
<1>1. AtMost(SumOver(truth, Minutes), SumOver(truth', Minutes))
  <2>1. IsFiniteSet(Minutes) /\ Minutes \in SUBSET Minutes
    BY MinuteFacts
  <2>2. \A m \in Minutes : truth[m] \in Pairs /\ truth'[m] \in Pairs
    BY DEF Types
  <2> QED BY <2>1, <2>2, TotalGrows
<1>2. /\ SumOver(truth, Minutes) \in Pairs /\ SumOver(truth', Minutes) \in Pairs
      /\ \A m \in Minutes : truth[m] \in Pairs /\ truth'[m] \in Pairs /\ file.count[m] \in Pairs
  BY MinuteFacts, TotalIsPair DEF Types, Files
<1>3. \A a, b, c \in Pairs : AtMost(a, b) /\ AtMost(b, c) => AtMost(a, c)
  BY DEF AtMost, Pairs
<1>4. file.stats \in Pairs /\ file.cur \in Int /\ clock \in Int /\ clock' \in Int
  BY MinuteFacts DEF Types, Files
<1>5. \A m \in Minutes : AtMost(file.count[m], truth'[m])
  BY <1>2, <1>3 DEF FileInv
<1>6. AtMost(file.stats, SumOver(truth', Minutes))
  BY <1>1, <1>2, <1>3, <1>4 DEF FileInv
<1>7. Ordered(file.full, After(file.cur, clock'))
  <2>1. \A m \in Entries(file.full) : m \in Int
    BY MinuteFacts DEF Types, Files
  <2> QED BY <1>4, <2>1 DEF FileInv, Ordered, After
<1>8. Uncounted(file.count, file.cur, clock')
  BY <1>4, MinuteFacts DEF FileInv, Uncounted
<1> QED BY <1>4, <1>5, <1>6, <1>7, <1>8 DEF FileInv

LEMMA LatestIsInt ==
  ASSUME Types
  PROVE  /\ Latest \in Int /\ cur \in Int /\ clock \in Int /\ sample.minute \in Int
         /\ OrderInv => Latest <= clock /\ cur <= clock
<1>1. cur \in Int /\ clock \in Int /\ sample.minute \in Int
  BY MinuteFacts DEF Types
<1> QED BY <1>1 DEF Latest, After, OrderInv

LEMMA SaverStays ==
  ASSUME Types, Types', SaverInv, saver' = saver, cur <= cur', stats.sent <= stats'.sent,
         Latest <= Latest', load' = load, spoiled' = spoiled,
         \A m \in Minutes : AtMost(count[m], count'[m])
  PROVE  SaverInv'
<1>1. /\ \A m \in Minutes : count[m] \in Pairs /\ count'[m] \in Pairs /\ saver.count[m] \in Pairs
      /\ cur \in Int /\ cur' \in Int /\ saver.cur \in Int
      /\ stats.sent \in Int /\ stats'.sent \in Int /\ saver.stats.sent \in Int
      /\ \A m \in Entries(saver.full) : m \in Int
  <2>1. /\ saver.full \in Seq(Minutes) /\ saver.cur \in Ids /\ saver.stats \in Pairs
        /\ saver.count \in [Minutes -> Pairs] /\ stats \in Pairs /\ stats' \in Pairs
        /\ count \in [Minutes -> Pairs] /\ count' \in [Minutes -> Pairs]
        /\ cur \in Ids /\ cur' \in Ids
    BY DEF Types, Savers
  <2>2. \A a \in Pairs : a.sent \in Int
    BY DEF Pairs
  <2>3. /\ cur \in Int /\ cur' \in Int /\ saver.cur \in Int
        /\ \A m \in Entries(saver.full) : m \in Int
    BY <2>1, MinuteFacts
  <2> QED BY <2>1, <2>2, <2>3
<1>2. \A a, b, c \in Pairs : AtMost(a, b) /\ AtMost(b, c) => AtMost(a, c)
  BY DEF AtMost, Pairs
<1>7. Latest \in Int /\ Latest' \in Int
  BY MinuteFacts DEF Types, Latest, After
<1>8. PICK a : a = Latest
  OBVIOUS
<1>9. PICK b : b = Latest'
  OBVIOUS
<1>10. a \in Int /\ b \in Int /\ a = Latest /\ b = Latest' /\ a <= b
  BY <1>7, <1>8, <1>9
<1>3. saver.step # "idle" => Ordered(saver.full, Latest')
  <2>1. saver.step # "idle" => Ordered(saver.full, a)
    BY <1>10 DEF SaverInv
  <2>2. saver.step # "idle" => Ordered(saver.full, b)
    BY <1>1, <1>10, <2>1 DEF Ordered
  <2> QED BY <1>10, <2>2
<1>6. saver.step \in {"recv", "stats", "last"} => Uncounted(saver.count, saver.cur, Latest')
  <2>1. saver.step \in {"recv", "stats", "last"} => Uncounted(saver.count, saver.cur, a)
    BY <1>10 DEF SaverInv
  <2>2. Uncounted(saver.count, saver.cur, a) => Uncounted(saver.count, saver.cur, b)
    BY <1>10, MinuteFacts DEF Uncounted
  <2> QED BY <1>10, <2>1, <2>2
<1>4. saver.step \in {"recv", "stats", "last"} =>
        saver.cur <= cur' /\ \A m \in Minutes : AtMost(saver.count[m], count'[m])
  BY <1>1, <1>2 DEF SaverInv
<1>5. saver.step = "last" => saver.stats.sent <= stats'.sent
  BY <1>1 DEF SaverInv
<1> QED BY <1>3, <1>4, <1>5, <1>6 DEF SaverInv, Totalled

\* While the worker is at work load_state is not.
LEMMA LoadStays ==
  ASSUME load = "done", load' = load
  PROVE  LoadInv'
BY DEF LoadInv

\* What is in sight of the reader stays so, and only more is counted of it.
LEMMA SightGrows ==
  ASSUME Types, Types', full' = full, cur' = cur \/ cur = Nothing, reader'.cutoff = reader.cutoff,
         \A m \in Minutes : AtMost(count[m], count'[m])
  PROVE  /\ InSight \subseteq InSight' /\ IsFiniteSet(InSight') /\ InSight' \subseteq Minutes
         /\ AtMost(SumOver(count, InSight), SumOver(count', InSight'))
         /\ SumOver(count, InSight) \in Pairs /\ SumOver(count', InSight') \in Pairs
<1>1. InSight \subseteq InSight'
  BY DEF InSight, InWindow, Held
<1>2. InSight' \subseteq Minutes
  BY MinuteFacts DEF InSight, InWindow, Held, Types
<1>3. IsFiniteSet(InSight') /\ IsFiniteSet(InSight)
  BY <1>1, <1>2, MinuteFacts, FS_Subset
<1>4. \A m \in Minutes : count[m] \in Pairs /\ count'[m] \in Pairs
  BY DEF Types
<1>5. PICK A, B : A = InSight /\ B = InSight'
  OBVIOUS
<1>6. /\ A \in SUBSET B /\ IsFiniteSet(A) /\ IsFiniteSet(B)
      /\ \A i \in B : count'[i] \in Pairs
      /\ \A i \in A : count[i] \in Pairs /\ AtMost(count[i], count'[i])
  BY <1>1, <1>2, <1>3, <1>4, <1>5
<1>7. AtMost(SumOver(count, A), SumOver(count', B))
  BY <1>6, TotalGrows
<1>8. SumOver(count, A) \in Pairs /\ SumOver(count', B) \in Pairs
  BY <1>6, TotalIsPair
<1> QED BY <1>1, <1>2, <1>3, <1>5, <1>7, <1>8

LEMMA ListGrows ==
  ASSUME Types, Types', \A m \in Minutes : AtMost(count[m], count'[m])
  PROVE  /\ AtMost(SumOver(count, Entries(reader.list)), SumOver(count', Entries(reader.list)))
         /\ SumOver(count, Entries(reader.list)) \in Pairs
         /\ SumOver(count', Entries(reader.list)) \in Pairs
<1>1. PICK A : A = Entries(reader.list)
  OBVIOUS
<1>2. A \subseteq Minutes
  BY <1>1, MinuteFacts DEF Types, Readers
<1>3. IsFiniteSet(A) /\ A \in SUBSET A
  BY <1>2, MinuteFacts, FS_Subset
<1>4. \A i \in A : count[i] \in Pairs /\ count'[i] \in Pairs /\ AtMost(count[i], count'[i])
  BY <1>2 DEF Types
<1> QED BY <1>1, <1>3, <1>4, TotalGrows, TotalIsPair

LEMMA ReaderStays ==
  ASSUME Types, Types', LengthInv, ReaderInv, reader' = reader, full' = full,
         cur' = cur \/ cur = Nothing,
         \A m \in Minutes : AtMost(count[m], count'[m]),
         pc' = "new" /\ pc # "new" => cur' = Nothing,
         pc' = "new" => cur' = cur
  PROVE  LengthInv' /\ ReaderInv'
<1>1. \A a, b, c \in Pairs : AtMost(a, b) /\ AtMost(b, c) => AtMost(a, c)
  BY DEF AtMost, Pairs
<1>2. \A a, b \in Pairs : a.sent \in Int /\ a.recv \in Int
                          /\ (AtMost(a, b) => a.sent <= b.sent /\ a.recv <= b.recv)
  BY DEF AtMost, Pairs
<1>3. reader \in Readers /\ reader.start \in Pairs /\ reader.list \in Seq(Minutes)
  BY DEF Types, Readers
<1>4. SUFFICES ASSUME ~reader.rolled
               PROVE  ReaderInv'
  BY DEF LengthInv, ReaderInv
<1>5. reader.step \in {"cur", "sent", "recv", "done"} => (pc' = "new" => cur' = Nothing)
  BY <1>4 DEF ReaderInv
<1>6. ASSUME reader.step = "cur"
      PROVE  reader.list = full' /\ AtMost(reader.start, SumOver(count', InSight'))
  BY <1>1, <1>3, <1>4, <1>6, SightGrows DEF ReaderInv
<1>7. ASSUME reader.step \in {"sent", "recv"}
      PROVE  /\ Ascending(reader.list)
             /\ Entries(reader.list) \subseteq InSight'
             /\ reader.start.recv <= SumOver(count', Entries(reader.list)).recv
  <2>1. /\ Ascending(reader.list) /\ Entries(reader.list) \subseteq InSight
        /\ reader.start.recv <= SumOver(count, Entries(reader.list)).recv
    BY <1>4, <1>7 DEF ReaderInv
  <2>2. SumOver(count, Entries(reader.list)).recv <= SumOver(count', Entries(reader.list)).recv
    BY <1>2, ListGrows
  <2>3. InSight \subseteq InSight'
    BY SightGrows
  <2>4. /\ reader.start.recv \in Int /\ SumOver(count, Entries(reader.list)).recv \in Int
        /\ SumOver(count', Entries(reader.list)).recv \in Int
    BY <1>2, <1>3, ListGrows
  <2> QED BY <2>1, <2>2, <2>3, <2>4
<1>8. ASSUME reader.step = "sent"
      PROVE  reader.start.sent <= SumOver(count', Entries(reader.list)).sent
  <2>1. reader.start.sent <= SumOver(count, Entries(reader.list)).sent
    BY <1>4, <1>8 DEF ReaderInv
  <2>2. SumOver(count, Entries(reader.list)).sent <= SumOver(count', Entries(reader.list)).sent
    BY <1>2, ListGrows
  <2>4. /\ reader.start.sent \in Int /\ SumOver(count, Entries(reader.list)).sent \in Int
        /\ SumOver(count', Entries(reader.list)).sent \in Int
    BY <1>2, <1>3, ListGrows
  <2> QED BY <2>1, <2>2, <2>4
<1>9. ASSUME reader.step = "recv"
      PROVE  /\ DOMAIN reader.sent = DOMAIN reader.list
             /\ \A i \in DOMAIN reader.list : reader.sent[i] <= count'[reader.list[i]].sent
             /\ reader.start.sent <= Sum(reader.sent, DOMAIN reader.sent)
  <2>1. /\ DOMAIN reader.sent = DOMAIN reader.list
        /\ \A i \in DOMAIN reader.list : reader.sent[i] <= count[reader.list[i]].sent
        /\ reader.start.sent <= Sum(reader.sent, DOMAIN reader.sent)
    BY <1>4, <1>9 DEF ReaderInv
  <2>2. ASSUME NEW i \in DOMAIN reader.list
        PROVE  reader.sent[i] <= count'[reader.list[i]].sent
    <3>1. reader.sent[i] \in Nat /\ reader.list[i] \in Minutes
      BY <2>1 DEF Types, Readers
    <3>2. count[reader.list[i]] \in Pairs /\ count'[reader.list[i]] \in Pairs
      BY <3>1 DEF Types
    <3>3. count[reader.list[i]].sent <= count'[reader.list[i]].sent
      BY <1>2, <3>1, <3>2
    <3> QED BY <1>2, <2>1, <3>1, <3>2, <3>3
  <2> QED BY <2>1, <2>2
<1>10. ASSUME reader.step = "done"
       PROVE  AtMost(SumOver(reader.series, DOMAIN reader.series), SumOver(count', InSight'))
  <2>1. SumOver(reader.series, DOMAIN reader.series) \in Pairs
    <3>1. /\ Len(reader.series) \in Nat /\ DOMAIN reader.series = 1 .. Len(reader.series)
          /\ \A i \in 1 .. Len(reader.series) : reader.series[i] \in Pairs
      BY DEF Types, Readers
    <3> QED BY <3>1, IntervalIsFinite, TotalIsPair
  <2>2. AtMost(SumOver(reader.series, DOMAIN reader.series), SumOver(count, InSight))
    BY <1>4, <1>10 DEF ReaderInv
  <2> QED BY <1>1, <2>1, <2>2, SightGrows
<1>11. reader'.rolled = reader.rolled /\ reader'.step = reader.step
  OBVIOUS
<1> QED BY <1>4, <1>5, <1>6, <1>7, <1>8, <1>9, <1>10 DEF ReaderInv

----------------------------------------------------------------------------
(* The worker                                                               *)

LEMMA PairFacts ==
  /\ \A a \in Pairs : a.sent \in Nat /\ a.recv \in Nat /\ AtMost(a, a)
  /\ \A a, b \in Pairs : AtMost(a, b) <=> a.sent <= b.sent /\ a.recv <= b.recv
  /\ \A a, b, c \in Pairs : AtMost(a, b) /\ AtMost(b, c) => AtMost(a, c)
  /\ Zero \in Pairs /\ \A a \in Pairs : AtMost(Zero, a)
BY DEF Pairs, AtMost, Zero

\* The sums over all minutes
LEMMA AllMinutes ==
  ASSUME NEW f \in [Minutes -> Pairs]
  PROVE  /\ SumOver(f, Minutes) \in Pairs /\ \A m \in Minutes : f[m] \in Pairs
         /\ \A m \in Minutes : f[m].sent \in Nat /\ f[m].recv \in Nat
         /\ SumOver(f, Minutes).sent \in Nat /\ SumOver(f, Minutes).recv \in Nat
<1>1. \A m \in Minutes : f[m] \in Pairs
  OBVIOUS
<1>2. SumOver(f, Minutes) \in Pairs
  BY <1>1, MinuteFacts, TotalIsPair
<1> QED BY <1>1, <1>2, PairFacts

LEMMA TickKeeps == IInv /\ Tick => IInv'
<1> SUFFICES ASSUME IInv, Tick
             PROVE  IInv'
  OBVIOUS
<1> USE DEF IInv
<1>1. /\ clock' = clock + 1 /\ clock < MaxMinutes /\ file' = file /\ truth' = truth
      /\ UNCHANGED <<stats, full, cur, count, pc, sample, reader, saver, load, rest, spoiled, stops>>
  BY DEF Tick, memory, worker, loading
<1>2. clock' \in Minutes /\ clock <= clock' /\ clock \in Int
  BY <1>1, MinuteFacts, CountsAssumption DEF Types, Minutes
<1>3. Types'
  BY <1>1, <1>2 DEF Types
<1>9. Latest \in Int /\ Latest' \in Int /\ Latest <= Latest'
  BY <1>1, <1>2, <1>3, LatestIsInt DEF Latest, After
<1>4. OrderInv'
  <2>1. cur \in Int /\ sample.minute \in Int /\ clock' \in Int
    BY <1>2, MinuteFacts DEF Types
  <2>2. cur <= clock' /\ sample.minute <= clock'
    BY <1>1, <1>2, <2>1 DEF OrderInv
  <2>3. \A m \in Entries(full) : m \in Int
    BY MinuteFacts DEF Types
  <2>4. Latest \in Int /\ Latest' \in Int /\ Latest <= Latest'
    BY <1>9
  <2>5. \A m \in Entries(full) : IF pc = "new" /\ cur # Nothing THEN m <= cur ELSE m < Latest'
    BY <2>3, <2>4 DEF OrderInv
  <2>6. load = "done" => Uncounted(count, cur, Latest')
    BY <2>4, MinuteFacts DEF OrderInv, Uncounted
  <2> QED BY <1>1, <2>2, <2>5, <2>6 DEF OrderInv
<1>5. CountInv'
  BY <1>1 DEF CountInv, Unsent, Unreplied, Unanswered, At, Totalled
<1>6. SaverInv'
  <2>1. /\ \A m \in Minutes : AtMost(count[m], count'[m])
        /\ cur <= cur' /\ stats.sent <= stats'.sent
    BY <1>1, PairFacts, LatestIsInt DEF Types
  <2> QED BY <1>1, <1>3, <1>9, <2>1, SaverStays
<1>10. LoadInv'
  <2>1. /\ file.cur \in Int /\ \A m \in Entries(full) : m \in Int
        /\ \A m \in Entries(rest) : m \in Int
    BY MinuteFacts DEF Types, Files
  <2>2. After(file.cur, clock) \in Int /\ After(file.cur, clock') \in Int
        /\ After(file.cur, clock) <= After(file.cur, clock')
    BY <1>1, <1>2, <2>1, LatestIsInt DEF After
  <2>3. load = "buckets" => /\ Ordered(rest, After(file.cur, clock'))
                            /\ \A m \in Entries(full) : m < After(file.cur, clock')
    BY <2>1, <2>2 DEF LoadInv, Ordered
  <2> QED BY <1>1, <2>3 DEF LoadInv
<1>7. FileInv'
  <2>1. \A m \in Minutes : AtMost(truth[m], truth'[m])
    BY <1>1, PairFacts, AllMinutes DEF Types
  <2> QED BY <1>1, <1>2, <1>3, <2>1, FileStays
<1>8. LengthInv' /\ ReaderInv'
  BY <1>1 DEF LengthInv, ReaderInv, InSight
<1> QED BY <1>3, <1>4, <1>5, <1>6, <1>7, <1>8, <1>10

LEMMA SampleKeeps == IInv /\ Sample => IInv'
<1> SUFFICES ASSUME IInv, Sample
             PROVE  IInv'
  OBVIOUS
<1> USE DEF IInv
<1>1. /\ pc = "probe" /\ load = "done" /\ pc' = "reply" /\ SumOver(truth, Minutes).sent < MaxSamples
      /\ stats' = [stats EXCEPT !.sent = @ + 1]
      /\ truth' = [truth EXCEPT ![clock].sent = @ + 1]
      /\ sample' \in [minute : {clock}, answered : BOOLEAN]
      /\ UNCHANGED <<clock, full, cur, count, reader, saver, file, load, rest, spoiled, stops>>
  BY DEF Sample, loading
<1>2. /\ clock \in Minutes /\ clock \in Int /\ cur \in Int /\ stats \in Pairs
      /\ count \in [Minutes -> Pairs] /\ truth \in [Minutes -> Pairs]
  BY MinuteFacts DEF Types
<1>7. /\ truth' \in [Minutes -> Pairs]
      /\ \A m \in Minutes : /\ truth'[m].sent = truth[m].sent + (IF m = clock THEN 1 ELSE 0)
                            /\ truth'[m].recv = truth[m].recv
  BY <1>1, <1>2 DEF Pairs
<1>3. /\ truth' \in [Minutes -> Pairs]
      /\ SumOver(truth', Minutes).sent = SumOver(truth, Minutes).sent + 1
      /\ SumOver(truth', Minutes).recv = SumOver(truth, Minutes).recv
  <2>1. \A m \in Minutes : truth[m] \in Pairs /\ truth'[m] \in Pairs
    BY <1>2, <1>7
  <2>2. IsFiniteSet(Minutes) /\ clock \in Minutes
        /\ \A i \in Minutes : /\ truth[i] \in Pairs /\ truth'[i] \in Pairs /\ truth'[i].recv = truth[i].recv
                              /\ truth'[i].sent = truth[i].sent + (IF i = clock THEN 1 ELSE 0)
    BY <1>2, <1>7, <2>1, MinuteFacts
  <2>3. /\ SumOver(truth', Minutes).sent = SumOver(truth, Minutes).sent + 1
        /\ SumOver(truth', Minutes).recv = SumOver(truth, Minutes).recv
    BY <2>2, TotalCountsSent, Zenon
  <2> QED BY <1>7, <2>3
<1>4. /\ stats' \in Pairs /\ stats'.sent = stats.sent + 1 /\ stats'.recv = stats.recv
      /\ sample' \in [minute : Minutes, answered : BOOLEAN] /\ sample'.minute = clock
  BY <1>1, <1>2 DEF Pairs
<1>5. Types'
  BY <1>1, <1>3, <1>4 DEF Types
<1>11. Latest' = Latest
  BY <1>1, <1>4 DEF Latest, After
<1>6. OrderInv'
  BY <1>1, <1>2, <1>4, <1>11 DEF OrderInv
<1>8. CountInv'
  <2>1. ASSUME NEW m \in Minutes
        PROVE  /\ count[m].sent + (IF m = clock THEN 1 ELSE 0) <= truth'[m].sent
               /\ count[m].recv <= truth'[m].recv
               /\ truth'[m].recv + (IF m = clock THEN 1 ELSE 0) <= truth'[m].sent
    <3>1. /\ count[m].sent \in Nat /\ truth[m].sent \in Nat
          /\ count[m].recv \in Nat /\ truth[m].recv \in Nat
      BY <1>2, AllMinutes
    <3>2. /\ count[m].sent <= truth[m].sent /\ count[m].recv <= truth[m].recv
          /\ truth[m].recv <= truth[m].sent
      BY <1>1, <3>1 DEF CountInv, Unsent, Unreplied, Unanswered, At
    <3> QED BY <1>7, <3>1, <3>2
  <2>2. /\ Unsent' = 1 /\ Unreplied' = 0 /\ Unanswered' = 1
        /\ \A m \in Minutes, n \in Nat : At(m, n)' = IF m = clock THEN n ELSE 0
    BY <1>1, <1>4 DEF Unsent, Unreplied, Unanswered, At
  <2>3. \A m \in Minutes :
          /\ count[m].sent + At(m, Unsent)' <= truth'[m].sent
          /\ count[m].recv + At(m, Unreplied)' <= truth'[m].recv
          /\ truth'[m].recv + At(m, Unanswered)' <= truth'[m].sent
    <3>1. ASSUME NEW m \in Minutes
          PROVE  /\ At(m, Unsent)' = (IF m = clock THEN 1 ELSE 0)
                 /\ At(m, Unreplied)' = 0
                 /\ At(m, Unanswered)' = (IF m = clock THEN 1 ELSE 0)
      BY <1>1, <1>4 DEF Unsent, Unreplied, Unanswered, At
    <3>2. \A m \in Minutes : count[m].recv \in Nat
      BY <1>2, AllMinutes
    <3> QED BY <2>1, <3>1, <3>2
  <2>4. /\ Totalled => /\ SumOver(count, Minutes).sent + 1 <= stats'.sent
                       /\ SumOver(count, Minutes).recv <= stats'.recv
        /\ SumOver(count, Minutes).recv \in Nat
    <3>1. /\ SumOver(count, Minutes).sent \in Nat /\ SumOver(count, Minutes).recv \in Nat
          /\ stats.sent \in Nat /\ stats.recv \in Nat
      BY <1>2, AllMinutes, PairFacts
    <3>2. Totalled => /\ SumOver(count, Minutes).sent <= stats.sent
                      /\ SumOver(count, Minutes).recv <= stats.recv
      BY <1>1, <3>1 DEF CountInv, Unsent, Unreplied
    <3> QED BY <1>4, <3>1, <3>2
  <2>5. /\ AtMost(stats', SumOver(truth', Minutes))
        /\ SumOver(truth', Minutes).sent <= MaxSamples
    <3>1. /\ SumOver(truth, Minutes) \in Pairs /\ SumOver(truth', Minutes) \in Pairs
          /\ SumOver(truth, Minutes).sent \in Nat /\ SumOver(truth, Minutes).recv \in Nat
          /\ stats.sent \in Nat /\ stats.recv \in Nat /\ MaxSamples \in Nat
      BY <1>2, <1>3, AllMinutes, PairFacts, CountsAssumption
    <3>2. /\ stats.sent <= SumOver(truth, Minutes).sent
          /\ stats.recv <= SumOver(truth, Minutes).recv
      BY <1>2, <3>1, PairFacts DEF CountInv
    <3>3. /\ stats'.sent <= SumOver(truth', Minutes).sent
          /\ stats'.recv <= SumOver(truth', Minutes).recv
          /\ SumOver(truth', Minutes).sent <= MaxSamples
      BY <1>1, <1>3, <1>4, <3>1, <3>2
    <3> QED BY <3>3 DEF AtMost
  <2> QED BY <1>1, <2>2, <2>3, <2>4, <2>5 DEF CountInv, Totalled
<1>9. /\ \A m \in Minutes : AtMost(count[m], count'[m]) /\ AtMost(truth[m], truth'[m])
      /\ stats.sent <= stats'.sent /\ cur <= cur' /\ clock <= clock'
  <2>1. \A m \in Minutes : /\ truth[m] \in Pairs /\ truth'[m] \in Pairs /\ count[m] \in Pairs
                           /\ truth[m].sent \in Nat /\ truth[m].recv \in Nat
    BY <1>2, <1>3, AllMinutes
  <2>2. stats.sent \in Nat
    BY <1>2, PairFacts
  <2>3. \A m \in Minutes : AtMost(truth[m], truth'[m])
    BY <1>7, <2>1 DEF AtMost
  <2>4. \A m \in Minutes : AtMost(count[m], count'[m])
    BY <1>1, <2>1, PairFacts
  <2> QED BY <1>1, <1>2, <1>4, <2>2, <2>3, <2>4
<1>10. SaverInv' /\ FileInv' /\ LoadInv' /\ LengthInv' /\ ReaderInv'
  <2>1. Latest <= Latest'
    BY <1>11, LatestIsInt
  <2> QED BY <1>1, <1>5, <1>9, <2>1, SaverStays, FileStays, LoadStays, ReaderStays
<1> QED BY <1>5, <1>6, <1>8, <1>10

\* What the worker still has to count, at each of its steps
LEMMA Pending ==
  ASSUME Types, NEW m \in Minutes
  PROVE  /\ At(m, Unsent) = (IF m = sample.minute /\ pc \in {"reply", "append", "new", "sent"}
                             THEN 1 ELSE 0)
         /\ At(m, Unreplied) = (IF /\ m = sample.minute /\ sample.answered
                                   /\ pc \in {"append", "new", "sent", "recv"}
                                THEN 1 ELSE 0)
         /\ At(m, Unanswered) = (IF m = sample.minute /\ pc = "reply" THEN 1 ELSE 0)
BY DEF At, Unsent, Unreplied, Unanswered

\* The counts of a minute and of all minutes, as numbers
LEMMA CountFacts ==
  ASSUME Types
  PROVE  /\ \A m \in Minutes : /\ count[m].sent \in Nat /\ count[m].recv \in Nat
                               /\ truth[m].sent \in Nat /\ truth[m].recv \in Nat
         /\ SumOver(count, Minutes).sent \in Nat /\ SumOver(count, Minutes).recv \in Nat
         /\ SumOver(truth, Minutes).sent \in Nat /\ SumOver(truth, Minutes).recv \in Nat
         /\ stats.sent \in Nat /\ stats.recv \in Nat
         /\ CountInv => /\ stats.sent <= SumOver(truth, Minutes).sent
                        /\ stats.recv <= SumOver(truth, Minutes).recv
<1>1. count \in [Minutes -> Pairs] /\ truth \in [Minutes -> Pairs] /\ stats \in Pairs
  BY DEF Types
<1> QED BY <1>1, AllMinutes, PairFacts DEF CountInv, AtMost

LEMMA CountReplyKeeps == IInv /\ CountReply => IInv'
<1> SUFFICES ASSUME IInv, CountReply
             PROVE  IInv'
  OBVIOUS
<1> USE DEF IInv
<1> DEFINE one == IF sample.answered THEN 1 ELSE 0
           minute == sample.minute
<1>1. /\ pc = "reply" /\ load = "done"
      /\ UNCHANGED <<clock, full, cur, count, sample, reader, saver, file, load, rest, spoiled, stops>>
      /\ cur \in Int /\ minute \in Minutes /\ minute \in Int /\ sample.answered \in BOOLEAN
      /\ stats \in Pairs /\ truth \in [Minutes -> Pairs] /\ count \in [Minutes -> Pairs]
  BY MinuteFacts DEF CountReply, Types, LoadInv, loading
<1>2. /\ stats' \in Pairs /\ truth' \in [Minutes -> Pairs]
      /\ stats'.sent = stats.sent /\ stats'.recv = stats.recv + one
      /\ \A m \in Minutes : /\ truth'[m].sent = truth[m].sent
                            /\ truth'[m].recv = truth[m].recv + (IF m = minute THEN one ELSE 0)
  <2>1. CASE sample.answered
    <3>1. /\ stats' = [stats EXCEPT !.recv = @ + 1]
          /\ truth' = [truth EXCEPT ![sample.minute].recv = @ + 1]
      BY <2>1 DEF CountReply
    <3> QED BY <1>1, <2>1, <3>1 DEF Pairs
  <2>2. CASE ~sample.answered
    <3>1. stats' = stats /\ truth' = truth
      BY <2>2 DEF CountReply
    <3> QED BY <1>1, <2>2, <3>1 DEF Pairs
  <2> QED BY <2>1, <2>2
<1>3. /\ pc' \in {"sent", "new", "append"}
      /\ pc' = "sent" => cur = minute
      /\ pc' = "new" => cur = Nothing
      /\ pc' = "append" => cur # Nothing /\ cur # minute
  <2>1. cur = minute \/ cur = Nothing \/ cur \notin {minute, Nothing}
    OBVIOUS
  <2>2. minute # Nothing
    BY <1>1, MinuteFacts
  <2> QED BY <2>1, <2>2 DEF CountReply
<1>4. Types'
  BY <1>1, <1>2, <1>3 DEF Types
<1>11. Latest' = Latest
  BY <1>1, <1>3 DEF Latest, After
<1>5. OrderInv'
  <2>1. cur <= minute /\ Nothing < minute
    BY <1>1, MinuteFacts DEF OrderInv
  <2>2. pc' \in {"append", "new"} => cur < minute
    BY <1>1, <1>3, <2>1 DEF Nothing
  <2>3. \A m \in Entries(full) : m < Latest
    BY <1>1 DEF OrderInv
  <2>4. \A m \in Entries(full) : m \in Int
    BY MinuteFacts DEF Types
  <2>5. \A m \in Entries(full) : m < Latest' /\ (cur # Nothing => m <= cur)
    BY <1>1, <1>11, <2>3, <2>4 DEF Latest, After
  <2>6. Uncounted(count, cur, Latest')
    BY <1>1, <1>11 DEF OrderInv
  <2> QED BY <1>1, <1>3, <2>2, <2>5, <2>6 DEF OrderInv
<1>6. /\ SumOver(truth', Minutes).sent = SumOver(truth, Minutes).sent
      /\ SumOver(truth', Minutes).recv = SumOver(truth, Minutes).recv + one
  <2>1. \A m \in Minutes : truth[m] \in Pairs /\ truth'[m] \in Pairs
    BY <1>1, <1>2
  <2>2. CASE sample.answered
    <3>1. IsFiniteSet(Minutes) /\ minute \in Minutes
          /\ \A i \in Minutes : /\ truth[i] \in Pairs /\ truth'[i] \in Pairs
                                /\ truth'[i].sent = truth[i].sent
                                /\ truth'[i].recv = truth[i].recv + (IF i = minute THEN 1 ELSE 0)
      BY <1>1, <1>2, <2>1, <2>2, MinuteFacts
    <3> HIDE DEF minute
    <3>2. /\ SumOver(truth', Minutes).recv = SumOver(truth, Minutes).recv + 1
          /\ SumOver(truth', Minutes).sent = SumOver(truth, Minutes).sent
      BY <3>1, TotalCountsRecv, Zenon
    <3> QED BY <2>2, <3>2
  <2>3. CASE ~sample.answered
    <3>1. truth' = truth
      BY <2>3 DEF CountReply
    <3> QED BY <2>3, <3>1, CountFacts
  <2> QED BY <2>2, <2>3
<1>7. one \in {0, 1}
  OBVIOUS
<1>8. CountInv'
  <2>1. ASSUME NEW m \in Minutes
        PROVE  /\ count[m].sent + At(m, Unsent)' <= truth'[m].sent
               /\ count[m].recv + At(m, Unreplied)' <= truth'[m].recv
               /\ truth'[m].recv + At(m, Unanswered)' <= truth'[m].sent
    <3>1. /\ count[m].sent + At(m, Unsent) <= truth[m].sent
          /\ count[m].recv + At(m, Unreplied) <= truth[m].recv
          /\ truth[m].recv + At(m, Unanswered) <= truth[m].sent
      BY DEF CountInv
    <3>2. /\ At(m, Unsent) = (IF m = minute THEN 1 ELSE 0) /\ At(m, Unreplied) = 0
          /\ At(m, Unanswered) = (IF m = minute THEN 1 ELSE 0)
      BY <1>1, Pending
    <3>3. /\ At(m, Unsent)' = (IF m = minute THEN 1 ELSE 0)
          /\ At(m, Unreplied)' = (IF m = minute THEN one ELSE 0) /\ At(m, Unanswered)' = 0
      BY <1>1, <1>3 DEF At, Unsent, Unreplied, Unanswered
    <3>4. /\ count[m].sent \in Nat /\ count[m].recv \in Nat
          /\ truth[m].sent \in Nat /\ truth[m].recv \in Nat
      BY CountFacts
    <3> HIDE DEF one, minute
    <3> QED BY <1>2, <1>7, <3>1, <3>2, <3>3, <3>4
  <2>2. /\ Unsent = 1 /\ Unreplied = 0 /\ Unsent' = 1 /\ Unreplied' = one
    BY <1>1, <1>3 DEF Unsent, Unreplied
  <2>3. Totalled => /\ SumOver(count, Minutes).sent + Unsent' <= stats'.sent
                    /\ SumOver(count, Minutes).recv + Unreplied' <= stats'.recv
    BY <1>2, <1>7, <2>2, CountFacts DEF CountInv
  <2>4. /\ AtMost(stats', SumOver(truth', Minutes))
        /\ SumOver(truth', Minutes).sent <= MaxSamples
    <3>1. /\ stats'.sent <= SumOver(truth', Minutes).sent
          /\ stats'.recv <= SumOver(truth', Minutes).recv
      BY <1>2, <1>6, <1>7, CountFacts
    <3> QED BY <1>6, <3>1 DEF AtMost, CountInv
  <2> QED BY <1>1, <2>1, <2>3, <2>4 DEF CountInv, Totalled
<1>9. /\ \A m \in Minutes : AtMost(count[m], count'[m]) /\ AtMost(truth[m], truth'[m])
      /\ stats.sent <= stats'.sent /\ cur <= cur' /\ clock <= clock'
  <2>1. \A m \in Minutes : truth[m].sent <= truth'[m].sent /\ truth[m].recv <= truth'[m].recv
    BY <1>2, <1>7, CountFacts
  <2>2. \A m \in Minutes : AtMost(truth[m], truth'[m])
    BY <2>1 DEF AtMost
  <2>3. \A m \in Minutes : AtMost(count[m], count'[m])
    BY <1>1, PairFacts
  <2>4. clock \in Int /\ stats.sent \in Nat
    BY MinuteFacts, CountFacts DEF Types
  <2> QED BY <1>1, <1>2, <2>2, <2>3, <2>4
<1>10. SaverInv' /\ FileInv' /\ LoadInv' /\ LengthInv' /\ ReaderInv'
  <2>1. Latest <= Latest'
    BY <1>11, LatestIsInt
  <2> QED BY <1>1, <1>3, <1>4, <1>9, <2>1, SaverStays, FileStays, LoadStays, ReaderStays
<1> QED BY <1>4, <1>5, <1>8, <1>10

LEMMA AppendBucketKeeps == IInv /\ AppendBucket => IInv'
<1> SUFFICES ASSUME IInv, AppendBucket
             PROVE  IInv'
  OBVIOUS
<1> USE DEF IInv
<1>1. /\ pc = "append" /\ load = "done" /\ pc' = "new" /\ Roll
      /\ full' = Append(IF Len(full) < MaxBuckets THEN full ELSE Tail(full), cur)
      /\ UNCHANGED <<clock, stats, cur, count, sample, truth, saver, file, load, rest, spoiled, stops>>
  BY DEF AppendBucket, Push, LoadInv, loading
<1>2. /\ cur # Nothing /\ cur \in Minutes /\ cur \in Int /\ full \in Seq(Minutes)
      /\ Len(full) <= MaxBuckets /\ Ascending(full) /\ \A m \in Entries(full) : m < cur
      /\ Minutes \in SUBSET Int
  BY <1>1, MinuteFacts DEF Types, OrderInv, Latest, After
<1>3. /\ full' \in Seq(Minutes) /\ Len(full') <= MaxBuckets /\ Ascending(full')
      /\ \A m \in Entries(full') : m <= cur
  BY <1>1, <1>2, PushedList
<1>4. /\ reader' = [reader EXCEPT !.rolled = reader.rolled \/ reader.step \in {"cur", "sent", "recv", "done"}]
      /\ reader \in Readers
  BY <1>1 DEF Roll, Types
<1>5. reader' \in Readers /\ reader'.step = reader.step
      /\ reader'.sent = reader.sent /\ reader'.list = reader.list
      /\ reader'.rolled = (reader.rolled \/ reader.step \in {"cur", "sent", "recv", "done"})
  BY <1>4 DEF Readers
<1>6. Types'
  BY <1>1, <1>3, <1>5 DEF Types
<1>11. Latest' = Latest
  BY <1>1 DEF Latest, After
<1>7. OrderInv'
  BY <1>1, <1>2, <1>3, <1>11 DEF OrderInv
<1>8. CountInv'
  BY <1>1 DEF CountInv, Unsent, Unreplied, Unanswered, At, Totalled
<1>9. SaverInv' /\ FileInv' /\ LoadInv'
  BY <1>1, <1>11, LoadStays DEF SaverInv, FileInv, Totalled
<1>10. LengthInv' /\ ReaderInv'
  BY <1>5 DEF LengthInv, ReaderInv
<1> QED BY <1>6, <1>7, <1>8, <1>9, <1>10

LEMMA NewBucketKeeps == IInv /\ NewBucket => IInv'
<1> SUFFICES ASSUME IInv, NewBucket
             PROVE  IInv'
  OBVIOUS
<1> USE DEF IInv
<1>1. /\ pc = "new" /\ load = "done" /\ pc' = "sent" /\ cur' = sample.minute
      /\ count' = [count EXCEPT ![sample.minute] = Zero]
      /\ UNCHANGED <<clock, stats, full, sample, truth, reader, saver, file, load, rest, spoiled, stops>>
      /\ count \in [Minutes -> Pairs] /\ sample.minute \in Minutes
      /\ sample.minute \in Int /\ cur \in Int /\ cur < sample.minute
  BY MinuteFacts DEF NewBucket, Types, OrderInv, LoadInv, loading
<1>2. count' = count
  <2>1. count[sample.minute] = Zero
    BY <1>1 DEF OrderInv, Uncounted, Latest, After
  <2> QED BY <1>1, <2>1
<1>3. Types'
  BY <1>1, <1>2 DEF Types, Ids
<1>10. Latest' = sample.minute /\ Latest <= sample.minute
  <2>1. sample.minute # Nothing
    BY <1>1, MinuteFacts
  <2> QED BY <1>1, <2>1 DEF Latest, After
<1>4. OrderInv'
  <2>1. \A m \in Entries(full) : m \in Int
    BY MinuteFacts DEF Types
  <2>2. \A m \in Entries(full) : m < sample.minute
    BY <1>1, <2>1 DEF OrderInv, Latest, After
  <2>3. \A m \in Minutes : m > sample.minute => count[m] = Zero
    BY <1>1, MinuteFacts DEF OrderInv, Uncounted, Latest, After
  <2> QED BY <1>1, <1>2, <1>10, <2>2, <2>3 DEF OrderInv, Uncounted
<1>5. CountInv'
  BY <1>1, <1>2 DEF CountInv, Unsent, Unreplied, Unanswered, At, Totalled
<1>6. /\ \A m \in Minutes : AtMost(count[m], count'[m])
      /\ cur <= cur' /\ stats.sent <= stats'.sent
  BY <1>1, <1>2, PairFacts, CountFacts
<1>7. SaverInv'
  BY <1>1, <1>3, <1>6, <1>10, SaverStays
<1>8. FileInv' /\ LoadInv'
  BY <1>1, LoadStays DEF FileInv
<1>9. LengthInv' /\ ReaderInv'
  <2>1. CASE cur = Nothing
    BY <1>1, <1>3, <1>6, <2>1, ReaderStays
  <2>2. CASE cur # Nothing
    BY <1>1, <2>2 DEF LengthInv, ReaderInv, Types, Readers
  <2> QED BY <2>1, <2>2
<1> QED BY <1>3, <1>4, <1>5, <1>7, <1>8, <1>9

LEMMA BucketSentKeeps == IInv /\ BucketSent => IInv'
<1> SUFFICES ASSUME IInv, BucketSent
             PROVE  IInv'
  OBVIOUS
<1> USE DEF IInv
<1>1. /\ pc = "sent" /\ load = "done" /\ cur = sample.minute
      /\ count' = [count EXCEPT ![cur].sent = @ + 1]
      /\ UNCHANGED <<clock, stats, full, cur, truth, reader, saver, file, load, rest, spoiled, stops>>
      /\ cur \in Minutes /\ cur \in Int /\ count \in [Minutes -> Pairs]
      /\ sample \in [minute : Minutes, answered : BOOLEAN]
  BY DEF BucketSent, Types, OrderInv, Minutes, LoadInv, loading
<1>2. \/ pc' = "recv" /\ sample' = sample /\ sample.answered
      \/ pc' = "probe" /\ sample' = NoSample /\ ~sample.answered
  BY <1>1 DEF BucketSent, Release
<1>3. /\ 1 \in Minutes /\ NoSample \in [minute : Minutes, answered : BOOLEAN]
      /\ NoSample.minute = 1 /\ 1 <= clock /\ NoSample.answered = FALSE
  BY CountsAssumption DEF Minutes, NoSample, Types
<1>4. /\ count' \in [Minutes -> Pairs]
      /\ \A m \in Minutes : /\ count'[m].recv = count[m].recv
                            /\ count'[m].sent = count[m].sent + (IF m = cur THEN 1 ELSE 0)
                            /\ m # cur => count'[m] = count[m]
  BY <1>1 DEF Pairs
<1>5. Types'
  BY <1>1, <1>2, <1>3, <1>4 DEF Types
<1>11. Latest' = Latest /\ Latest = cur
  BY <1>1, MinuteFacts DEF Latest, After
<1>6. OrderInv'
  <2>1. \A m \in Minutes : m > cur => m # cur /\ count'[m] = Zero
    BY <1>1, <1>4, MinuteFacts DEF OrderInv, Uncounted
  <2> QED BY <1>1, <1>2, <1>3, <1>11, <2>1 DEF OrderInv, Uncounted
<1>7. /\ SumOver(count', Minutes).sent = SumOver(count, Minutes).sent + 1
      /\ SumOver(count', Minutes).recv = SumOver(count, Minutes).recv
  <2>1. IsFiniteSet(Minutes) /\ cur \in Minutes
        /\ \A i \in Minutes : /\ count[i] \in Pairs /\ count'[i] \in Pairs
                              /\ count'[i].recv = count[i].recv
                              /\ count'[i].sent = count[i].sent + (IF i = cur THEN 1 ELSE 0)
    BY <1>1, <1>4, MinuteFacts
  <2> QED BY <2>1, TotalCountsSent, Zenon
<1>8. CountInv'
  <2>1. ASSUME NEW m \in Minutes
        PROVE  /\ count'[m].sent + At(m, Unsent)' <= truth[m].sent
               /\ count'[m].recv + At(m, Unreplied)' <= truth[m].recv
               /\ truth[m].recv + At(m, Unanswered)' <= truth[m].sent
    <3>1. /\ count[m].sent + At(m, Unsent) <= truth[m].sent
          /\ count[m].recv + At(m, Unreplied) <= truth[m].recv
          /\ truth[m].recv + At(m, Unanswered) <= truth[m].sent
      BY DEF CountInv
    <3>2. /\ At(m, Unsent) = (IF m = cur THEN 1 ELSE 0)
          /\ At(m, Unreplied) = (IF m = cur /\ sample.answered THEN 1 ELSE 0)
          /\ At(m, Unanswered) = 0
      BY <1>1, Pending
    <3>3. /\ At(m, Unsent)' = 0 /\ At(m, Unanswered)' = 0
          /\ At(m, Unreplied)' = (IF m = cur /\ sample.answered THEN 1 ELSE 0)
      BY <1>1, <1>2, <1>3 DEF At, Unsent, Unreplied, Unanswered
    <3>4. /\ count[m].sent \in Nat /\ count[m].recv \in Nat
          /\ truth[m].sent \in Nat /\ truth[m].recv \in Nat
      BY CountFacts
    <3> QED BY <1>4, <3>1, <3>2, <3>3, <3>4
  <2>2. /\ Unsent = 1 /\ Unsent' = 0 /\ Unreplied' = Unreplied /\ Unreplied \in {0, 1}
    BY <1>1, <1>2, <1>3 DEF Unsent, Unreplied
  <2>3. Totalled => /\ SumOver(count', Minutes).sent + Unsent' <= stats.sent
                    /\ SumOver(count', Minutes).recv + Unreplied' <= stats.recv
    BY <1>7, <2>2, CountFacts DEF CountInv
  <2> QED BY <1>1, <2>1, <2>3 DEF CountInv, Totalled
<1>9. /\ \A m \in Minutes : AtMost(count[m], count'[m])
      /\ cur <= cur' /\ stats.sent <= stats'.sent
  <2>1. \A m \in Minutes : count[m].sent <= count'[m].sent /\ count[m].recv <= count'[m].recv
    BY <1>4, CountFacts
  <2> QED BY <1>1, <2>1, CountFacts DEF AtMost
<1>10. SaverInv' /\ FileInv' /\ LoadInv' /\ LengthInv' /\ ReaderInv'
  <2>1. FileInv' /\ LoadInv' /\ Latest <= Latest'
    BY <1>1, <1>11, LoadStays DEF FileInv
  <2> QED BY <1>1, <1>2, <1>5, <1>9, <2>1, SaverStays, ReaderStays
<1> QED BY <1>5, <1>6, <1>8, <1>10

LEMMA BucketRecvKeeps == IInv /\ BucketRecv => IInv'
<1> SUFFICES ASSUME IInv, BucketRecv
             PROVE  IInv'
  OBVIOUS
<1> USE DEF IInv
<1>1. /\ pc = "recv" /\ load = "done" /\ cur = sample.minute /\ sample.answered
      /\ count' = [count EXCEPT ![cur].recv = @ + 1]
      /\ UNCHANGED <<clock, stats, full, cur, truth, reader, saver, file, load, rest, spoiled, stops>>
      /\ cur \in Minutes /\ cur \in Int /\ count \in [Minutes -> Pairs]
      /\ pc' = "probe" /\ sample' = NoSample
  BY DEF BucketRecv, Release, Types, OrderInv, Minutes, LoadInv, loading
<1>2. /\ 1 \in Minutes /\ NoSample \in [minute : Minutes, answered : BOOLEAN]
      /\ NoSample.minute = 1 /\ 1 <= clock /\ NoSample.answered = FALSE
  BY CountsAssumption DEF Minutes, NoSample, Types
<1>3. /\ count' \in [Minutes -> Pairs]
      /\ \A m \in Minutes : /\ count'[m].sent = count[m].sent
                            /\ count'[m].recv = count[m].recv + (IF m = cur THEN 1 ELSE 0)
                            /\ m # cur => count'[m] = count[m]
  BY <1>1 DEF Pairs
<1>4. Types'
  BY <1>1, <1>2, <1>3 DEF Types
<1>10. Latest' = Latest /\ Latest = cur
  BY <1>1, MinuteFacts DEF Latest, After
<1>5. OrderInv'
  <2>1. \A m \in Minutes : m > cur => m # cur /\ count'[m] = Zero
    BY <1>1, <1>3, MinuteFacts DEF OrderInv, Uncounted
  <2> QED BY <1>1, <1>2, <1>10, <2>1 DEF OrderInv, Uncounted
<1>6. /\ SumOver(count', Minutes).recv = SumOver(count, Minutes).recv + 1
      /\ SumOver(count', Minutes).sent = SumOver(count, Minutes).sent
  <2>1. IsFiniteSet(Minutes) /\ cur \in Minutes
        /\ \A i \in Minutes : /\ count[i] \in Pairs /\ count'[i] \in Pairs
                              /\ count'[i].sent = count[i].sent
                              /\ count'[i].recv = count[i].recv + (IF i = cur THEN 1 ELSE 0)
    BY <1>1, <1>3, MinuteFacts
  <2> QED BY <2>1, TotalCountsRecv, Zenon
<1>7. CountInv'
  <2>1. ASSUME NEW m \in Minutes
        PROVE  /\ count'[m].sent + At(m, Unsent)' <= truth[m].sent
               /\ count'[m].recv + At(m, Unreplied)' <= truth[m].recv
               /\ truth[m].recv + At(m, Unanswered)' <= truth[m].sent
    <3>1. /\ count[m].sent + At(m, Unsent) <= truth[m].sent
          /\ count[m].recv + At(m, Unreplied) <= truth[m].recv
          /\ truth[m].recv + At(m, Unanswered) <= truth[m].sent
      BY DEF CountInv
    <3>2. /\ At(m, Unsent) = 0 /\ At(m, Unanswered) = 0
          /\ At(m, Unreplied) = (IF m = cur THEN 1 ELSE 0)
      BY <1>1, Pending
    <3>3. At(m, Unsent)' = 0 /\ At(m, Unanswered)' = 0 /\ At(m, Unreplied)' = 0
      BY <1>1, <1>2 DEF At, Unsent, Unreplied, Unanswered
    <3>4. /\ count[m].sent \in Nat /\ count[m].recv \in Nat
          /\ truth[m].sent \in Nat /\ truth[m].recv \in Nat
      BY CountFacts
    <3> QED BY <1>3, <3>1, <3>2, <3>3, <3>4
  <2>2. Unsent = 0 /\ Unreplied = 1 /\ Unsent' = 0 /\ Unreplied' = 0
    BY <1>1, <1>2 DEF Unsent, Unreplied
  <2>3. Totalled => /\ SumOver(count', Minutes).sent + Unsent' <= stats.sent
                    /\ SumOver(count', Minutes).recv + Unreplied' <= stats.recv
    BY <1>6, <2>2, CountFacts DEF CountInv
  <2> QED BY <1>1, <2>1, <2>3 DEF CountInv, Totalled
<1>8. /\ \A m \in Minutes : AtMost(count[m], count'[m])
      /\ cur <= cur' /\ stats.sent <= stats'.sent
  <2>1. \A m \in Minutes : count[m].sent <= count'[m].sent /\ count[m].recv <= count'[m].recv
    BY <1>3, CountFacts
  <2> QED BY <1>1, <2>1, CountFacts DEF AtMost
<1>9. SaverInv' /\ FileInv' /\ LoadInv' /\ LengthInv' /\ ReaderInv'
  <2>1. FileInv' /\ LoadInv' /\ Latest <= Latest'
    BY <1>1, <1>10, LoadStays DEF FileInv
  <2> QED BY <1>1, <1>4, <1>8, <2>1, SaverStays, ReaderStays
<1> QED BY <1>4, <1>5, <1>7, <1>9

----------------------------------------------------------------------------
(* The reader                                                               *)

LEMMA OnlyReaderMoves ==
  ASSUME IInv, UNCHANGED <<clock, memory, worker, saver, file, loading, spoiled, stops>>,
         load = "done" \/ reader' = reader,
         reader' \in Readers, LengthInv', ReaderInv'
  PROVE  IInv'
<1>1. /\ UNCHANGED <<clock, stats, full, cur, count, pc, sample, truth, saver, file>>
      /\ UNCHANGED <<load, rest, spoiled, stops>>
  BY DEF memory, worker, loading
<1>2. Types'
  BY <1>1 DEF IInv, Types
<1>3. OrderInv' /\ SaverInv' /\ FileInv' /\ LoadInv'
  BY <1>1 DEF IInv, OrderInv, SaverInv, FileInv, LoadInv, Latest, Totalled
<1>4. CountInv'
  BY <1>1 DEF IInv, CountInv, Unsent, Unreplied, Unanswered, At, Totalled
<1> QED BY <1>2, <1>3, <1>4 DEF IInv

LEMMA InSightFacts ==
  ASSUME Types
  PROVE  /\ IsFiniteSet(InSight) /\ InSight \in SUBSET Minutes
         /\ SumOver(count, InSight) \in Pairs
<1>1. InSight \subseteq Minutes
  BY MinuteFacts DEF InSight, InWindow, Held, Types
<1>2. IsFiniteSet(InSight)
  BY <1>1, MinuteFacts, FS_Subset
<1>3. \A m \in InSight : count[m] \in Pairs
  BY <1>1 DEF Types
<1> QED BY <1>1, <1>2, <1>3, TotalIsPair

LEMMA AnswerKeeps == IInv /\ Answer => IInv'
<1> SUFFICES ASSUME IInv, Answer
             PROVE  IInv'
  OBVIOUS
<1>1. /\ reader' = NoReader /\ load = "done"
      /\ UNCHANGED <<clock, memory, worker, saver, file, loading, spoiled, stops>>
  BY DEF Answer, IInv, LoadInv, Types
<1>2. NoReader \in Readers /\ NoReader.step = "idle"
  BY PairFacts DEF NoReader, Readers
<1>3. LengthInv' /\ ReaderInv'
  BY <1>1, <1>2 DEF LengthInv, ReaderInv
<1> QED BY <1>1, <1>2, <1>3, OnlyReaderMoves

LEMMA ListFullKeeps == IInv /\ ListFull => IInv'
<1> SUFFICES ASSUME IInv, ListFull
             PROVE  IInv'
  OBVIOUS
<1> DEFINE cutoff == clock - Hours
           seen == SumOver(count, InWindow(Held(full, cur), cutoff))
           rolled == pc = "new" /\ cur # Nothing
<1>1. /\ reader.step = "idle" /\ load = "done"
      /\ reader' = [reader EXCEPT !.step = "cur", !.cutoff = cutoff, !.list = full,
                                  !.start = seen, !.rolled = rolled]
      /\ UNCHANGED <<clock, memory, worker, saver, file, loading, spoiled, stops>>
      /\ UNCHANGED <<full, cur, count, pc>>
  BY DEF ListFull, Read, memory, worker
<1>2. reader \in Readers /\ full \in Seq(Minutes) /\ cutoff \in Int
  BY MinuteFacts, CountsAssumption DEF IInv, Types
<1>3. seen \in Pairs
  <2>1. PICK A : A = InWindow(Held(full, cur), cutoff)
    OBVIOUS
  <2>2. A \subseteq Minutes
    BY <2>1, MinuteFacts DEF IInv, Types, InWindow, Held
  <2>3. IsFiniteSet(A) /\ \A m \in A : count[m] \in Pairs
    BY <2>2, MinuteFacts, FS_Subset DEF IInv, Types
  <2> QED BY <2>1, <2>3, TotalIsPair
<1>4. /\ reader'.step = "cur" /\ reader'.cutoff = cutoff /\ reader'.list = full
      /\ reader'.start = seen /\ reader'.rolled = rolled
  BY <1>1, <1>2 DEF Readers
<1> HIDE DEF seen
<1>5. reader' \in Readers
  BY <1>1, <1>2, <1>3 DEF Readers
<1>6. LengthInv'
  BY <1>4 DEF LengthInv
<1>7. ReaderInv'
  <2>1. SumOver(count, InSight)' = seen
    BY <1>1, <1>4 DEF InSight, seen
  <2>2. AtMost(seen, seen)
    BY <1>3, PairFacts
  <2> QED BY <1>1, <1>4, <2>1, <2>2 DEF ReaderInv
<1> QED BY <1>1, <1>5, <1>6, <1>7, OnlyReaderMoves

LEMMA ListCurKeeps == IInv /\ ListCur => IInv'
<1> SUFFICES ASSUME IInv, ListCur
             PROVE  IInv'
  OBVIOUS
<1>1. PICK last : last = IF cur = Nothing THEN <<>> ELSE <<cur>>
  OBVIOUS
<1>2. PICK b : b = reader.list \o last
  OBVIOUS
<1>3. PICK r : r = Since(b, reader.cutoff)
  OBVIOUS
<1>4. /\ reader.step = "cur" /\ load = "done"
      /\ reader' = [reader EXCEPT !.step = "sent", !.list = r]
      /\ UNCHANGED <<clock, memory, worker, saver, file, loading, spoiled, stops>>
      /\ UNCHANGED <<full, cur, count, pc>>
  BY <1>1, <1>2, <1>3 DEF ListCur, Read, memory, worker, IInv, LoadInv, Types
<1>5. /\ reader \in Readers /\ reader.list \in Seq(Minutes) /\ full \in Seq(Minutes)
      /\ cur \in Ids /\ (cur # Nothing => cur \in Minutes)
      /\ reader.cutoff \in Int /\ Minutes \in SUBSET Int
  BY MinuteFacts DEF IInv, Types, Readers
<1>6. b \in Seq(Minutes)
  <2>1. last \in Seq(Minutes)
    BY <1>1, <1>5
  <2> QED BY <1>2, <1>5, <2>1
<1>7. /\ r \in Seq(Minutes)
      /\ Ascending(b) => Ascending(r)
      /\ \A m : m \in Entries(r) <=> m \in Entries(b) /\ m >= reader.cutoff
  BY <1>3, <1>5, <1>6, SinceList
<1>8. /\ reader' \in Readers /\ reader'.step = "sent" /\ reader'.list = r
      /\ reader'.cutoff = reader.cutoff /\ reader'.start = reader.start
      /\ reader'.rolled = reader.rolled
  BY <1>4, <1>5, <1>7 DEF Readers
<1>9. LengthInv'
  BY <1>8 DEF LengthInv
<1>10. ReaderInv'
  <2> SUFFICES ASSUME ~reader.rolled
               PROVE  ReaderInv'
    BY <1>8 DEF ReaderInv
  <2>1. /\ reader.list = full /\ (pc = "new" => cur = Nothing)
        /\ AtMost(reader.start, SumOver(count, InSight))
    BY <1>4 DEF IInv, ReaderInv
  <2>2. Ascending(full) /\ \A m \in Entries(full) : m < cur \/ cur = Nothing
    BY <2>1 DEF IInv, OrderInv, Latest, After
  <2>3. Ascending(b) /\ \A m : m \in Entries(b) <=> m \in Held(full, cur)
    <3>1. CASE cur = Nothing
      <4>1. b = full
        BY <1>1, <1>2, <1>5, <2>1, <3>1
      <4>2. \A m \in Entries(full) : m # Nothing
        BY <1>5, MinuteFacts
      <4> QED BY <2>2, <3>1, <4>1, <4>2 DEF Held
    <3>2. CASE cur # Nothing
      <4>1. b = full \o <<cur>> /\ \A m \in Entries(full) : m < cur
        BY <1>1, <1>2, <2>1, <2>2, <3>2
      <4>2. Ascending(b) /\ Entries(b) = Entries(full) \cup {cur}
        BY <1>5, <2>2, <3>2, <4>1, LongerList
      <4>3. \A m \in Entries(full) : m # Nothing
        BY <1>5, MinuteFacts
      <4> QED BY <3>2, <4>2, <4>3 DEF Held
    <3> QED BY <3>1, <3>2
  <2>4. Entries(r) = InSight /\ InSight' = InSight
    <3>1. \A m : m \in Entries(r) <=> m \in InSight
      BY <1>7, <2>3 DEF InSight, InWindow
    <3>2. Entries(r) = InSight
      BY <3>1
    <3>3. InSight' = InSight
      BY <1>4, <1>8 DEF InSight
    <3> QED BY <3>2, <3>3
  <2>5. /\ reader.start.recv <= SumOver(count, Entries(r)).recv
        /\ reader.start.sent <= SumOver(count, Entries(r)).sent
    BY <2>1, <2>4 DEF AtMost
  <2>6. Ascending(r)
    BY <1>7, <2>3
  <2> QED BY <1>4, <1>8, <2>1, <2>4, <2>5, <2>6 DEF ReaderInv
<1> QED BY <1>4, <1>8, <1>9, <1>10, OnlyReaderMoves

\* A list of numbers, one for each bucket of another list
LEMMA ListOfNumbers ==
  ASSUME NEW T, NEW b \in Seq(T), NEW S,
         NEW w, w = [i \in DOMAIN b |-> w[i]], \A i \in 1 .. Len(b) : w[i] \in S
  PROVE  w \in Seq(S) /\ DOMAIN w = DOMAIN b /\ DOMAIN b = 1 .. Len(b)
<1>1. Len(b) \in Nat /\ DOMAIN b = 1 .. Len(b)
  BY ListIsIndexed
<1>2. w \in [1 .. Len(b) -> S]
  BY <1>1
<1>3. PICK n \in Nat : n = Len(b)
  BY <1>1
<1>4. w \in Seq(S)
  BY <1>2, <1>3
<1> QED BY <1>1, <1>2, <1>4

LEMMA ReadSentKeeps == IInv /\ ReadSent => IInv'
<1> SUFFICES ASSUME IInv, ReadSent
             PROVE  IInv'
  OBVIOUS
<1>1. PICK b : b = reader.list
  OBVIOUS
<1>2. PICK w : w = [i \in DOMAIN b |-> count[b[i]].sent]
  OBVIOUS
<1>3. /\ reader.step = "sent" /\ load = "done"
      /\ reader' = [reader EXCEPT !.step = "recv", !.sent = w]
      /\ UNCHANGED <<clock, memory, worker, saver, file, loading, spoiled, stops>>
      /\ UNCHANGED <<full, cur, count, pc>>
  BY <1>1, <1>2 DEF ReadSent, Read, memory, worker, IInv, LoadInv, Types
<1>4. /\ reader \in Readers /\ b \in Seq(Minutes) /\ count \in [Minutes -> Pairs]
      /\ Minutes \in SUBSET Int
  BY <1>1, MinuteFacts DEF IInv, Types, Readers
<1>5. \A i \in 1 .. Len(b) : count[b[i]].sent \in Nat
  BY <1>4, ListIsIndexed, PairFacts
<1>6. w \in Seq(Nat) /\ DOMAIN w = DOMAIN b /\ DOMAIN b = 1 .. Len(b)
  <2>1. \A i \in 1 .. Len(b) : w[i] \in Nat
    BY <1>2, <1>4, <1>5, ListIsIndexed
  <2>2. w = [i \in DOMAIN b |-> w[i]]
    BY <1>2
  <2>3. PICK N : N = Nat
    OBVIOUS
  <2>4. w \in Seq(N) /\ DOMAIN w = DOMAIN b /\ DOMAIN b = 1 .. Len(b)
    BY <1>4, <2>1, <2>2, <2>3, ListOfNumbers
  <2> QED BY <2>3, <2>4
<1>7. /\ reader' \in Readers /\ reader'.step = "recv" /\ reader'.list = b /\ reader'.sent = w
      /\ reader'.cutoff = reader.cutoff /\ reader'.start = reader.start
      /\ reader'.rolled = reader.rolled
  BY <1>1, <1>3, <1>4, <1>6 DEF Readers
<1>8. LengthInv'
  BY <1>6, <1>7 DEF LengthInv
<1>9. ReaderInv'
  <2> SUFFICES ASSUME ~reader.rolled
               PROVE  ReaderInv'
    BY <1>7 DEF ReaderInv
  <2>1. /\ Ascending(b) /\ Entries(b) \subseteq InSight /\ (pc = "new" => cur = Nothing)
        /\ reader.start.recv <= SumOver(count, Entries(b)).recv
        /\ reader.start.sent <= SumOver(count, Entries(b)).sent
    BY <1>1, <1>3 DEF IInv, ReaderInv
  <2>2. Sum(w, DOMAIN w) = SumOver(count, Entries(b)).sent
    <3>1. PICK x : x = [m \in Entries(b) |-> count[m].sent]
      OBVIOUS
    <3>2. \A m \in Entries(b) : x[m] \in Nat
      BY <1>4, <3>1, MinuteFacts, PairFacts
    <3>3. \A i \in 1 .. Len(b) : w[i] = x[b[i]]
      BY <1>2, <1>4, <1>6, <3>1, ListIsIndexed
    <3>4. Sum(w, 1 .. Len(b)) = Sum(x, Entries(b))
      BY <1>4, <2>1, <3>2, <3>3, ListIsSummed
    <3> QED BY <1>6, <3>1, <3>4 DEF SumOver
  <2>3. \A i \in DOMAIN b : w[i] <= count[b[i]].sent
    BY <1>2, <1>5, <1>6
  <2>4. InSight' = InSight
    BY <1>3, <1>7 DEF InSight
  <2> QED BY <1>3, <1>6, <1>7, <2>1, <2>2, <2>3, <2>4 DEF ReaderInv
<1> QED BY <1>3, <1>7, <1>8, <1>9, OnlyReaderMoves

LEMMA ReadRecvKeeps == IInv /\ ReadRecv => IInv'
<1> SUFFICES ASSUME IInv, ReadRecv
             PROVE  IInv'
  OBVIOUS
<1>1. PICK b : b = reader.list
  OBVIOUS
<1>2. PICK w : w = [i \in DOMAIN b |-> [sent |-> reader.sent[i], recv |-> count[b[i]].recv]]
  OBVIOUS
<1>3. /\ reader.step = "recv" /\ load = "done"
      /\ reader' = [reader EXCEPT !.step = "done", !.list = <<>>, !.sent = <<>>, !.series = w]
      /\ UNCHANGED <<clock, memory, worker, saver, file, loading, spoiled, stops>>
      /\ UNCHANGED <<full, cur, count, pc>>
  BY <1>1, <1>2 DEF ReadRecv, Read, memory, worker, IInv, LoadInv, Types
<1>4. /\ reader \in Readers /\ b \in Seq(Minutes) /\ count \in [Minutes -> Pairs]
      /\ Minutes \in SUBSET Int /\ reader.sent \in Seq(Nat)
      /\ DOMAIN reader.sent = DOMAIN b
  BY <1>1, <1>3, MinuteFacts DEF IInv, Types, Readers, LengthInv
<1>5. /\ DOMAIN b = 1 .. Len(b) /\ Len(b) \in Nat
      /\ \A i \in 1 .. Len(b) : /\ reader.sent[i] \in Nat /\ b[i] \in Minutes
                                /\ count[b[i]] \in Pairs /\ count[b[i]].recv \in Nat
                                /\ count[b[i]].sent \in Nat
  <2>1. DOMAIN b = 1 .. Len(b) /\ Len(b) \in Nat /\ \A i \in 1 .. Len(b) : b[i] \in Minutes
    BY <1>4, ListIsIndexed
  <2>2. \A i \in 1 .. Len(b) : reader.sent[i] \in Nat
    BY <1>4, <2>1
  <2> QED BY <1>4, <2>1, <2>2, PairFacts
<1>6. \A i \in 1 .. Len(b) : /\ w[i] \in Pairs /\ w[i].sent = reader.sent[i]
                             /\ w[i].recv = count[b[i]].recv
  <2>1. ASSUME NEW i \in 1 .. Len(b)
        PROVE  /\ w[i] \in Pairs /\ w[i].sent = reader.sent[i]
               /\ w[i].recv = count[b[i]].recv
    <3>1. w[i] = [sent |-> reader.sent[i], recv |-> count[b[i]].recv]
      BY <1>2, <1>5
    <3>2. reader.sent[i] \in Nat /\ count[b[i]].recv \in Nat
      BY <1>5
    <3> QED BY <3>1, <3>2 DEF Pairs
  <2> QED BY <2>1
<1>7. w \in Seq(Pairs) /\ DOMAIN w = DOMAIN b
  <2>1. w = [i \in DOMAIN b |-> w[i]]
    BY <1>2
  <2> QED BY <1>4, <1>6, <2>1, ListOfNumbers
<1>8. /\ reader' \in Readers /\ reader'.step = "done" /\ reader'.series = w
      /\ reader'.cutoff = reader.cutoff /\ reader'.start = reader.start
      /\ reader'.rolled = reader.rolled
  <2>1. /\ reader'.step = "done" /\ reader'.series = w /\ reader'.list = <<>>
        /\ reader'.sent = <<>> /\ reader'.cutoff = reader.cutoff
        /\ reader'.start = reader.start /\ reader'.rolled = reader.rolled
    BY <1>3, <1>4 DEF Readers
  <2>2. <<>> \in Seq(Minutes) /\ <<>> \in Seq(Nat)
    OBVIOUS
  <2>3. reader' \in Readers
    BY <1>3, <1>4, <1>7, <2>2 DEF Readers
  <2> QED BY <2>1, <2>3
<1>9. LengthInv'
  BY <1>8 DEF LengthInv
<1>10. ReaderInv'
  <2> SUFFICES ASSUME ~reader.rolled
               PROVE  ReaderInv'
    BY <1>8 DEF ReaderInv
  <2>1. /\ Ascending(b) /\ Entries(b) \subseteq InSight /\ (pc = "new" => cur = Nothing)
        /\ reader.start.recv <= SumOver(count, Entries(b)).recv
        /\ \A i \in 1 .. Len(b) : reader.sent[i] <= count[b[i]].sent
        /\ reader.start.sent <= Sum(reader.sent, 1 .. Len(b))
    BY <1>1, <1>3, <1>4, <1>5 DEF IInv, ReaderInv
  <2>2. PICK x : x = [i \in 1 .. Len(b) |-> count[b[i]]]
    OBVIOUS
  <2>3. SumOver(x, 1 .. Len(b)) = SumOver(count, Entries(b))
    <3>1. \A m \in Entries(b) : count[m].sent \in Nat /\ count[m].recv \in Nat
      BY <1>4, MinuteFacts, PairFacts
    <3>2. ASSUME NEW s, s = [m \in Entries(b) |-> count[m].sent],
                 NEW y, y = [i \in 1 .. Len(b) |-> x[i].sent]
          PROVE  Sum(y, 1 .. Len(b)) = Sum(s, Entries(b))
      <4>1. /\ \A m \in Entries(b) : s[m] \in Nat
            /\ \A i \in 1 .. Len(b) : y[i] = s[b[i]]
        BY <1>4, <2>2, <3>1, <3>2, ListIsIndexed
      <4> QED BY <1>4, <2>1, <4>1, ListIsSummed
    <3>3. ASSUME NEW s, s = [m \in Entries(b) |-> count[m].recv],
                 NEW y, y = [i \in 1 .. Len(b) |-> x[i].recv]
          PROVE  Sum(y, 1 .. Len(b)) = Sum(s, Entries(b))
      <4>1. /\ \A m \in Entries(b) : s[m] \in Nat
            /\ \A i \in 1 .. Len(b) : y[i] = s[b[i]]
        BY <1>4, <2>2, <3>1, <3>3, ListIsIndexed
      <4> QED BY <1>4, <2>1, <4>1, ListIsSummed
    <3> QED BY <3>2, <3>3 DEF SumOver
  <2>4. IsFiniteSet(1 .. Len(b)) /\ 1 .. Len(b) \in SUBSET (1 .. Len(b))
    BY <1>5, IntervalIsFinite
  <2>5. \A i \in 1 .. Len(b) : x[i] \in Pairs /\ AtMost(w[i], x[i])
    BY <1>5, <1>6, <2>1, <2>2 DEF AtMost
  <2>6. AtMost(SumOver(w, 1 .. Len(b)), SumOver(count, Entries(b)))
    <3>1. AtMost(SumOver(w, 1 .. Len(b)), SumOver(x, 1 .. Len(b)))
      BY <1>6, <2>4, <2>5, TotalGrows
    <3> QED BY <2>3, <3>1
  <2>7. SumOver(w, 1 .. Len(b)).sent = Sum(reader.sent, 1 .. Len(b))
    <3>1. [i \in 1 .. Len(b) |-> w[i].sent] = [i \in 1 .. Len(b) |-> reader.sent[i]]
      BY <1>6
    <3>2. [i \in DOMAIN reader.sent |-> reader.sent[i]] = reader.sent
      BY <1>4
    <3>3. [i \in 1 .. Len(b) |-> w[i].sent] = reader.sent
      BY <1>4, <1>5, <3>1, <3>2
    <3> QED BY <3>3 DEF SumOver
  <2>8. SumOver(w, 1 .. Len(b)).recv = SumOver(count, Entries(b)).recv
    <3>1. [i \in 1 .. Len(b) |-> w[i].recv] = [i \in 1 .. Len(b) |-> x[i].recv]
      BY <1>6, <2>2
    <3>2. SumOver(w, 1 .. Len(b)).recv = SumOver(x, 1 .. Len(b)).recv
      BY <3>1 DEF SumOver
    <3> QED BY <2>3, <3>2
  <2>9. AtMost(reader.start, SumOver(w, 1 .. Len(b)))
    BY <2>1, <2>7, <2>8 DEF AtMost
  <2>10. AtMost(SumOver(w, 1 .. Len(b)), SumOver(count, InSight))
    <3>1. PICK A, B : A = Entries(b) /\ B = InSight
      OBVIOUS
    <3>2. B \in SUBSET Minutes /\ A \in SUBSET B /\ IsFiniteSet(B) /\ IsFiniteSet(A)
      BY <2>1, <3>1, InSightFacts, FS_Subset DEF IInv
    <3>3. /\ \A m \in B : count[m] \in Pairs
          /\ \A m \in A : count[m] \in Pairs /\ AtMost(count[m], count[m])
      BY <1>4, <3>2, PairFacts
    <3>4. AtMost(SumOver(count, A), SumOver(count, B))
      BY <3>2, <3>3, TotalGrows
    <3>5. SumOver(count, A) \in Pairs /\ SumOver(count, B) \in Pairs
          /\ SumOver(w, 1 .. Len(b)) \in Pairs
      BY <1>6, <2>4, <3>2, <3>3, TotalIsPair
    <3> QED BY <2>6, <3>1, <3>4, <3>5, PairFacts
  <2>11. InSight' = InSight
    BY <1>3, <1>8 DEF InSight
  <2>12. DOMAIN reader'.series = 1 .. Len(b) /\ SumOver(count, InSight)' = SumOver(count, InSight)
    BY <1>3, <1>5, <1>7, <1>8, <2>11
  <2> QED BY <1>3, <1>8, <2>1, <2>9, <2>10, <2>12 DEF ReaderInv
<1> QED BY <1>3, <1>8, <1>9, <1>10, OnlyReaderMoves

----------------------------------------------------------------------------
(* The saver, and a stop                                                    *)

LEMMA OnlySaverMoves ==
  ASSUME IInv, UNCHANGED <<clock, memory, worker, reader, rest, stops>>,
         load' \in {"done", "interrupted"}, load' = "done" <=> load = "done",
         spoiled' \in BOOLEAN, spoiled => spoiled',
         saver' \in Savers, file' \in Files, SaverInv', FileInv'
  PROVE  IInv'
<1>1. UNCHANGED <<clock, stats, full, cur, count, pc, sample, truth, reader, rest, stops>>
  BY DEF memory, worker
<1>2. Types'
  BY <1>1 DEF IInv, Types
<1>3. OrderInv' /\ LengthInv' /\ ReaderInv'
  BY <1>1 DEF IInv, OrderInv, LengthInv, ReaderInv, InSight, Latest
<1>5. LoadInv'
  BY <1>1 DEF IInv, LoadInv
<1>4. CountInv'
  BY <1>1 DEF IInv, CountInv, Unsent, Unreplied, Unanswered, At, Totalled
<1> QED BY <1>2, <1>3, <1>4, <1>5 DEF IInv

\* Once somebody saves, load_state has returned or never will.
LEMMA SavingIsNotLoading ==
  ASSUME IInv, saver.step # "idle"
  PROVE  load \in {"done", "interrupted"} /\ spoiled \in BOOLEAN
BY DEF IInv, Types, LoadInv

LEMMA EmptySave == NoSaver \in Savers /\ NoSaver.step = "idle"
<1>1. <<>> \in Seq(Minutes) /\ Nothing \in Ids /\ [m \in Minutes |-> Zero] \in [Minutes -> Pairs]
  BY PairFacts DEF Ids
<1> QED BY <1>1, PairFacts DEF NoSaver, Savers

LEMMA SaveFailsKeeps == IInv /\ SaveFails => IInv'
<1> SUFFICES ASSUME IInv, SaveFails
             PROVE  IInv'
  OBVIOUS
<1>1. /\ saver' = NoSaver /\ file' = file /\ clock' = clock /\ truth' = truth
      /\ UNCHANGED <<clock, memory, worker, reader, rest, stops>>
      /\ saver.step # "idle" /\ load' = load /\ spoiled' = spoiled
  BY DEF SaveFails, worker, loading
<1>2. SaverInv'
  BY <1>1, EmptySave DEF SaverInv
<1>3. FileInv'
  BY <1>1 DEF IInv, FileInv
<1>4. file' \in Files
  BY <1>1 DEF IInv, Types
<1> QED BY <1>1, <1>2, <1>3, <1>4, EmptySave, SavingIsNotLoading, OnlySaverMoves

LEMMA SaveCopyKeeps == IInv /\ SaveCopy => IInv'
<1> SUFFICES ASSUME IInv, SaveCopy
             PROVE  IInv'
  OBVIOUS
<1>1. /\ pc = "probe" /\ saver.step = "idle"
      /\ saver' = [saver EXCEPT !.step = "cur", !.full = full]
      /\ UNCHANGED <<clock, memory, worker, reader, rest, stops, file, spoiled>>
      /\ UNCHANGED <<cur, truth, sample, pc>>
      /\ load' = IF load = "done" THEN "done" ELSE "interrupted"
  BY DEF SaveCopy, Save, memory, worker
<1>2. saver \in Savers /\ full \in Seq(Minutes) /\ file \in Files /\ spoiled \in BOOLEAN
  BY DEF IInv, Types
<1>3. /\ saver' \in Savers /\ file' \in Files
      /\ saver'.step = "cur" /\ saver'.full = full
  BY <1>1, <1>2 DEF Savers
<1>4. SaverInv'
  <2>1. Ordered(full, Latest) /\ Latest' = Latest
    BY <1>1 DEF IInv, Types, OrderInv, Ordered, Latest
  <2> QED BY <1>3, <2>1 DEF SaverInv
<1>5. FileInv'
  BY <1>1 DEF IInv, FileInv
<1> QED BY <1>1, <1>2, <1>3, <1>4, <1>5, OnlySaverMoves

LEMMA SaveCurSentKeeps == IInv /\ SaveCurSent => IInv'
<1> SUFFICES ASSUME IInv, SaveCurSent
             PROVE  IInv'
  OBVIOUS
<1>1. PICK f : f = [m \in Minutes |-> IF m \in Held(saver.full, cur) THEN count[m] ELSE Zero]
  OBVIOUS
<1>2. /\ saver.step = "cur"
      /\ saver' = [saver EXCEPT !.step = "recv", !.cur = cur, !.count = f]
      /\ UNCHANGED <<clock, memory, worker, reader, rest, stops, file, load, spoiled>>
      /\ UNCHANGED <<cur, count, truth, pc, sample>>
  BY <1>1 DEF SaveCurSent, Save, memory, worker
<1>3. saver \in Savers /\ file \in Files /\ cur \in Ids /\ count \in [Minutes -> Pairs]
  BY DEF IInv, Types
<1>4. /\ f \in [Minutes -> Pairs]
      /\ \A m \in Minutes : AtMost(f[m], count[m]) /\ (count[m] = Zero => f[m] = Zero)
  BY <1>1, <1>3, PairFacts
<1>5. /\ saver' \in Savers /\ file' \in Files /\ saver'.step = "recv"
      /\ saver'.full = saver.full /\ saver'.cur = cur /\ saver'.count = f
  BY <1>2, <1>3, <1>4 DEF Savers
<1>6. Ordered(saver.full, Latest) /\ Latest' = Latest
  BY <1>2 DEF IInv, SaverInv, Latest
<1>7. cur <= cur /\ Before(saver.full, cur)
  BY <1>3, <1>6, MinuteFacts DEF Ordered, Before, Latest, After
<1>10. Uncounted(f, cur, Latest)
  <2>1. ASSUME NEW m \in Minutes, m > cur, cur = Nothing => m >= Latest
        PROVE  m \notin Held(saver.full, cur)
    <3>1. m \in Int /\ cur \in Int /\ Latest \in Int
      BY LatestIsInt, MinuteFacts DEF IInv
    <3>2. m # cur /\ m >= Latest
      BY <2>1, <3>1 DEF Latest, After
    <3>3. m \notin Entries(saver.full)
      BY <1>6, <3>1, <3>2 DEF Ordered
    <3> QED BY <3>2, <3>3 DEF Held
  <2> QED BY <1>1, <2>1 DEF Uncounted
<1>8. SaverInv'
  BY <1>2, <1>4, <1>5, <1>6, <1>7, <1>10 DEF SaverInv
<1>9. FileInv'
  BY <1>2 DEF IInv, FileInv
<1> QED BY <1>2, <1>5, <1>8, <1>9, SavingIsNotLoading, OnlySaverMoves

LEMMA SaveCurRecvKeeps == IInv /\ SaveCurRecv => IInv'
<1> SUFFICES ASSUME IInv, SaveCurRecv
             PROVE  IInv'
  OBVIOUS
<1>1. PICK f : f = [m \in Minutes |->
                     IF m = saver.cur THEN [saver.count[m] EXCEPT !.recv = count[m].recv]
                     ELSE saver.count[m]]
  OBVIOUS
<1>2. /\ saver.step = "recv"
      /\ saver' = [saver EXCEPT !.step = "stats", !.count = f]
      /\ UNCHANGED <<clock, memory, worker, reader, rest, stops, file, load, spoiled>>
      /\ UNCHANGED <<cur, count, truth, pc, sample>>
  BY <1>1 DEF SaveCurRecv, Save, memory, worker
<1>3. /\ saver \in Savers /\ file \in Files /\ count \in [Minutes -> Pairs]
      /\ saver.count \in [Minutes -> Pairs] /\ saver.cur \in Int /\ saver.cur \in Ids
  BY MinuteFacts DEF IInv, Types, Savers
<1>4. f \in [Minutes -> Pairs]
  BY <1>1, <1>3 DEF Pairs
<1>5. /\ saver' \in Savers /\ file' \in Files /\ saver'.step = "stats"
      /\ saver'.full = saver.full /\ saver'.cur = saver.cur /\ saver'.count = f
  BY <1>2, <1>3, <1>4 DEF Savers
<1>6. /\ Ordered(saver.full, Latest) /\ Before(saver.full, saver.cur) /\ saver.cur <= cur
      /\ Uncounted(saver.count, saver.cur, Latest)
      /\ \A m \in Minutes : AtMost(saver.count[m], count[m])
      /\ Latest' = Latest
  BY <1>2 DEF IInv, SaverInv, Latest
<1>7. \A m \in Minutes : AtMost(f[m], count[m])
  <2>1. ASSUME NEW m \in Minutes
        PROVE  f[m].sent <= count[m].sent /\ f[m].recv <= count[m].recv
    <3>1. saver.count[m] \in Pairs /\ count[m] \in Pairs
      BY <1>3
    <3>2. saver.count[m].sent <= count[m].sent /\ saver.count[m].recv <= count[m].recv
      BY <1>6 DEF AtMost
    <3> QED BY <1>1, <3>1, <3>2 DEF Pairs
  <2> QED BY <2>1 DEF AtMost
<1>8. Uncounted(f, saver.cur, Latest)
  <2>1. ASSUME NEW m \in Minutes, m > saver.cur, saver.cur = Nothing => m >= Latest
        PROVE  f[m] = Zero
    <3>1. m # saver.cur
      BY <1>3, <2>1, MinuteFacts
    <3> QED BY <1>1, <1>6, <2>1, <3>1 DEF Uncounted
  <2> QED BY <2>1 DEF Uncounted
<1>9. SaverInv'
  BY <1>2, <1>5, <1>6, <1>7, <1>8 DEF SaverInv
<1>10. FileInv'
  BY <1>2 DEF IInv, FileInv
<1> QED BY <1>2, <1>5, <1>9, <1>10, SavingIsNotLoading, OnlySaverMoves

\* What the saver has read is no more than what is counted.
LEMMA SavedIsCounted ==
  ASSUME Types, SaverInv, saver.step \in {"recv", "stats", "last"}
  PROVE  /\ SumOver(saver.count, Minutes).sent <= SumOver(count, Minutes).sent
         /\ SumOver(saver.count, Minutes).recv <= SumOver(count, Minutes).recv
         /\ SumOver(saver.count, Minutes).sent \in Nat
         /\ SumOver(saver.count, Minutes).recv \in Nat
<1>1. saver.count \in [Minutes -> Pairs] /\ count \in [Minutes -> Pairs]
  BY DEF Types, Savers
<1>2. \A m \in Minutes : AtMost(saver.count[m], count[m])
  BY DEF SaverInv
<1>3. IsFiniteSet(Minutes) /\ Minutes \in SUBSET Minutes
  BY MinuteFacts
<1>4. \A m \in Minutes : saver.count[m] \in Pairs /\ count[m] \in Pairs
  BY <1>1
<1>5. AtMost(SumOver(saver.count, Minutes), SumOver(count, Minutes))
  BY <1>2, <1>3, <1>4, TotalGrows
<1> QED BY <1>1, <1>5, AllMinutes DEF AtMost

LEMMA SaveStatsSentKeeps == IInv /\ SaveStatsSent => IInv'
<1> SUFFICES ASSUME IInv, SaveStatsSent
             PROVE  IInv'
  OBVIOUS
<1>1. /\ saver.step = "stats"
      /\ saver' = [saver EXCEPT !.step = "last", !.stats = [stats EXCEPT !.recv = 0]]
      /\ UNCHANGED <<clock, memory, worker, reader, rest, stops, file, load, spoiled>>
      /\ UNCHANGED <<cur, count, truth, stats, pc, sample>>
  BY DEF SaveStatsSent, Save, memory, worker
<1>2. saver \in Savers /\ file \in Files /\ stats \in Pairs
  BY DEF IInv, Types
<1>3. /\ saver' \in Savers /\ file' \in Files /\ saver'.step = "last"
      /\ saver'.full = saver.full /\ saver'.cur = saver.cur /\ saver'.count = saver.count
      /\ saver'.stats.sent = stats.sent
  <2>1. PICK s : s = [stats EXCEPT !.recv = 0]
    OBVIOUS
  <2>2. s \in Pairs /\ s.sent = stats.sent
    BY <1>2, <2>1 DEF Pairs
  <2> QED BY <1>1, <1>2, <2>1, <2>2 DEF Savers
<1>4. Unsent \in {0, 1}
  BY DEF Unsent
<1>5. /\ Totalled => SumOver(saver.count, Minutes).sent <= stats.sent
      /\ stats.sent <= stats.sent
  BY <1>1, <1>4, SavedIsCounted, CountFacts DEF IInv, CountInv
<1>6. SaverInv'
  <2>1. Latest' = Latest /\ (Totalled' <=> Totalled)
    BY <1>1 DEF Latest, Totalled
  <2> QED BY <1>1, <1>3, <1>5, <2>1 DEF IInv, SaverInv
<1>7. FileInv'
  BY <1>1 DEF IInv, FileInv
<1> QED BY <1>1, <1>3, <1>6, <1>7, SavingIsNotLoading, OnlySaverMoves

\* A bucket counts no more than was sampled in its minute.
LEMMA CountedWasSampled ==
  ASSUME IInv
  PROVE  \A m \in Minutes : AtMost(count[m], truth[m])
<1>1. ASSUME NEW m \in Minutes
      PROVE  AtMost(count[m], truth[m])
  <2>1. /\ count[m].sent + At(m, Unsent) <= truth[m].sent
        /\ count[m].recv + At(m, Unreplied) <= truth[m].recv
    BY DEF IInv, CountInv
  <2>2. At(m, Unsent) \in {0, 1} /\ At(m, Unreplied) \in {0, 1}
    BY DEF At, Unsent, Unreplied
  <2>3. count[m].sent <= truth[m].sent /\ count[m].recv <= truth[m].recv
    BY <2>1, <2>2, CountFacts DEF IInv
  <2> QED BY <2>3 DEF AtMost
<1> QED BY <1>1

LEMMA SaveFileKeeps == IInv /\ SaveFile => IInv'
<1> SUFFICES ASSUME IInv, SaveFile
             PROVE  IInv'
  OBVIOUS
<1>1. PICK s : s = [saver.stats EXCEPT !.recv = stats.recv]
  OBVIOUS
<1>2. /\ saver.step = "last" /\ saver' = NoSaver
      /\ file' = [full |-> saver.full, cur |-> saver.cur, count |-> saver.count, stats |-> s]
      /\ UNCHANGED <<clock, memory, worker, reader, rest, stops, load>>
      /\ UNCHANGED <<clock, truth>>
      /\ spoiled' = (spoiled \/ load = "interrupted")
  BY <1>1 DEF SaveFile, worker, loading
<1>3. /\ saver \in Savers /\ stats \in Pairs /\ saver.stats \in Pairs /\ saver.cur \in Ids
      /\ saver.full \in Seq(Minutes) /\ saver.count \in [Minutes -> Pairs]
      /\ count \in [Minutes -> Pairs] /\ truth \in [Minutes -> Pairs]
  BY DEF IInv, Types, Savers
<1>4. s \in Pairs /\ s.sent = saver.stats.sent /\ s.recv = stats.recv
  BY <1>1, <1>3 DEF Pairs
<1>5. /\ file' \in Files /\ file'.full = saver.full /\ file'.cur = saver.cur
      /\ file'.count = saver.count /\ file'.stats = s
  BY <1>2, <1>3, <1>4 DEF Files
<1>6. SaverInv'
  BY <1>2, EmptySave DEF SaverInv
<1>7. /\ saver.cur <= cur /\ cur <= clock
      /\ Ordered(saver.full, Latest) /\ Before(saver.full, saver.cur)
      /\ Uncounted(saver.count, saver.cur, Latest)
      /\ \A m \in Minutes : AtMost(saver.count[m], count[m])
      /\ Totalled => SumOver(saver.count, Minutes).sent <= saver.stats.sent
      /\ saver.stats.sent <= stats.sent
  BY <1>2 DEF IInv, SaverInv, OrderInv
<1>8. saver.cur <= clock
  <2>1. saver.cur \in Int /\ cur \in Int /\ clock \in Int
    BY <1>3, MinuteFacts DEF IInv, Types
  <2> QED BY <1>7, <2>1
<1>9. \A m \in Minutes : AtMost(saver.count[m], truth[m])
  <2>1. \A m \in Minutes : AtMost(count[m], truth[m])
    BY CountedWasSampled
  <2>2. \A m \in Minutes : saver.count[m] \in Pairs /\ count[m] \in Pairs /\ truth[m] \in Pairs
    BY <1>3
  <2> QED BY <1>7, <2>1, <2>2, PairFacts
<1>13. load \in {"done", "interrupted"} /\ spoiled \in BOOLEAN
  BY <1>2, SavingIsNotLoading
<1>14. Ordered(saver.full, After(saver.cur, clock)) /\ Uncounted(saver.count, saver.cur, clock)
  <2>1. /\ \A m \in Entries(saver.full) : m \in Int
        /\ clock \in Int /\ Latest \in Int /\ Latest <= clock
    BY <1>3, LatestIsInt, MinuteFacts DEF IInv
  <2>2. Ordered(saver.full, After(saver.cur, clock))
    BY <1>7, <2>1 DEF Ordered, Before, After
  <2>3. Uncounted(saver.count, saver.cur, clock)
    BY <1>7, <2>1, MinuteFacts DEF Uncounted
  <2> QED BY <2>2, <2>3
<1>10. ~spoiled' => AtMost(SumOver(saver.count, Minutes), s)
  <2> SUFFICES ASSUME Totalled
               PROVE  AtMost(SumOver(saver.count, Minutes), s)
    BY <1>2, <1>13 DEF Totalled
  <2>1. Unreplied \in {0, 1}
    BY DEF Unreplied
  <2>2. SumOver(saver.count, Minutes).recv <= stats.recv
    BY <1>2, <2>1, SavedIsCounted, CountFacts DEF IInv, CountInv
  <2> QED BY <1>4, <1>7, <2>2 DEF AtMost
<1>11. AtMost(s, SumOver(truth, Minutes))
  <2>1. s.sent <= SumOver(truth, Minutes).sent /\ s.recv <= SumOver(truth, Minutes).recv
    BY <1>3, <1>4, <1>7, CountFacts, PairFacts DEF IInv
  <2> QED BY <2>1 DEF AtMost
<1>12. FileInv'
  BY <1>2, <1>5, <1>8, <1>9, <1>10, <1>11, <1>14 DEF FileInv
<1> QED BY <1>2, <1>5, <1>6, <1>12, <1>13, EmptySave, OnlySaverMoves

\* After a stop the memory is empty, and load_state has all or nothing to load.
LEMMA StopKeeps ==
  ASSUME IInv, stops < MaxStops, stops' = stops + 1, Release, reader' = NoReader, saver' = NoSaver,
         stats' = Zero, full' = <<>>, cur' = Nothing, UNCHANGED <<clock, truth, file, spoiled>>,
         load' \in {"buckets", "done"}, rest' \in Seq(Minutes), count' \in [Minutes -> Pairs],
         \A m \in Minutes : AtMost(count'[m], truth[m]),
         load' = "done" => \A m \in Minutes : count'[m] = Zero,
         LoadInv'
  PROVE  IInv'
<1>1. pc' = "probe" /\ sample' = NoSample
  BY DEF Release
<1>2. /\ clock \in Minutes /\ clock \in Int /\ file \in Files
      /\ truth \in [Minutes -> Pairs] /\ spoiled \in BOOLEAN
  BY MinuteFacts DEF IInv, Types
<1>3. /\ 1 \in Minutes /\ NoSample \in [minute : Minutes, answered : BOOLEAN]
      /\ NoSample.minute = 1 /\ 1 <= clock /\ 0 <= clock /\ NoSample.answered = FALSE /\ Nothing = 0
  BY <1>2, CountsAssumption DEF Minutes, NoSample, Nothing
<1>4. NoReader \in Readers /\ NoReader.step = "idle"
  BY PairFacts DEF NoReader, Readers
<1>5. <<>> \in Seq(Minutes) /\ Len(<<>>) <= MaxBuckets /\ Ascending(<<>>) /\ Entries(<<>>) = {}
  BY CountsAssumption DEF Ascending, Entries
<1>6. Types'
  <2>1. stops' \in 0 .. MaxStops
    BY CountsAssumption DEF IInv, Types
  <2> QED BY <1>1, <1>2, <1>3, <1>4, <1>5, <2>1, PairFacts, EmptySave DEF Types, Ids
<1>7. OrderInv'
  BY <1>1, <1>3, <1>5 DEF OrderInv, Uncounted
<1>8. CountInv'
  <2>1. /\ Unsent' = 0 /\ Unreplied' = 0
        /\ \A m \in Minutes : At(m, Unsent)' = 0 /\ At(m, Unreplied)' = 0 /\ At(m, Unanswered)' = 0
    BY <1>1, <1>3 DEF At, Unsent, Unreplied, Unanswered
  <2>2. ASSUME NEW m \in Minutes
        PROVE  /\ count'[m].sent <= truth[m].sent /\ count'[m].recv <= truth[m].recv
               /\ truth[m].recv <= truth[m].sent
               /\ count'[m].sent \in Nat /\ count'[m].recv \in Nat /\ truth[m].recv \in Nat
    <3>1. truth[m].recv + At(m, Unanswered) <= truth[m].sent
      BY DEF IInv, CountInv
    <3>2. At(m, Unanswered) \in {0, 1}
      BY DEF At, Unanswered
    <3>3. truth[m].recv <= truth[m].sent /\ truth[m].recv \in Nat
      BY <3>1, <3>2, CountFacts DEF IInv
    <3>4. count'[m].sent \in Nat /\ count'[m].recv \in Nat
      BY AllMinutes
    <3>5. count'[m].sent <= truth[m].sent /\ count'[m].recv <= truth[m].recv
      BY DEF AtMost
    <3> QED BY <3>3, <3>4, <3>5
  <2>3. \A m \in Minutes : /\ count'[m].sent + At(m, Unsent)' <= truth'[m].sent
                           /\ count'[m].recv + At(m, Unreplied)' <= truth'[m].recv
                           /\ truth'[m].recv + At(m, Unanswered)' <= truth'[m].sent
    BY <2>1, <2>2
  <2>4. load' = "done" => /\ SumOver(count', Minutes).sent = 0 /\ SumOver(count', Minutes).recv = 0
                          /\ stats'.sent = 0 /\ stats'.recv = 0
    <3>1. ASSUME load' = "done"
          PROVE  SumOver(count', Minutes) = Zero
      <4>1. PICK f : f = count'
        OBVIOUS
      <4>2. \A m \in Minutes : f[m] = Zero
        BY <3>1, <4>1
      <4> QED BY <4>1, <4>2, TotalOfNothing
    <3> QED BY <3>1 DEF Zero
  <2>5. Totalled' => load' = "done"
    BY DEF Totalled
  <2>6. /\ AtMost(stats', SumOver(truth', Minutes))
        /\ SumOver(truth', Minutes).sent <= MaxSamples
    <3>1. SumOver(truth, Minutes) \in Pairs
      BY <1>2, AllMinutes
    <3> QED BY <3>1, PairFacts DEF IInv, CountInv
  <2> QED BY <2>1, <2>3, <2>4, <2>5, <2>6 DEF CountInv
<1>9. SaverInv'
  BY EmptySave DEF SaverInv
<1>10. FileInv'
  BY DEF IInv, FileInv
<1>11. LengthInv' /\ ReaderInv'
  BY <1>4 DEF LengthInv, ReaderInv
<1> QED BY <1>6, <1>7, <1>8, <1>9, <1>10, <1>11 DEF IInv

LEMMA RestartKeeps == IInv /\ Restart => IInv'
<1> SUFFICES ASSUME IInv, Restart
             PROVE  IInv'
  OBVIOUS
<1>1. PICK floor : floor = clock - MaxBuckets
  OBVIOUS
<1>2. /\ stops < MaxStops /\ stops' = stops + 1 /\ Release
      /\ reader' = NoReader /\ saver' = NoSaver
      /\ load' = "buckets" /\ rest' = Since(file.full, floor)
      /\ stats' = Zero /\ full' = <<>> /\ cur' = Nothing /\ count' = file.count
      /\ UNCHANGED <<clock, truth, file, spoiled>>
  BY <1>1 DEF Restart, Reads
<1>3. /\ file \in Files /\ file.full \in Seq(Minutes) /\ file.count \in [Minutes -> Pairs]
      /\ clock \in Int /\ floor \in Int /\ Minutes \in SUBSET Int
  BY <1>1, MinuteFacts, CountsAssumption DEF IInv, Types, Files
<1>4. /\ Ordered(file.full, After(file.cur, clock))
      /\ \A m \in Minutes : AtMost(file.count[m], truth[m])
  BY DEF IInv, FileInv
<1>5. /\ rest' \in Seq(Minutes) /\ Len(rest') <= Len(file.full) /\ Ascending(rest')
      /\ \A m \in Entries(rest') : m \in Entries(file.full)
  BY <1>2, <1>3, <1>4, SinceList DEF Ordered
<1>6. Ordered(rest', After(file.cur, clock))
  <2>1. Len(rest') <= MaxBuckets
    BY <1>3, <1>4, <1>5, CountsAssumption DEF Ordered
  <2> QED BY <1>4, <1>5, <2>1 DEF Ordered
<1>7. LoadInv'
  <2>1. Entries(<<>>) = {} /\ NoReader.step = "idle" /\ NoSaver.step = "idle" /\ pc' = "probe"
    BY <1>2 DEF Entries, NoReader, NoSaver, Release
  <2> QED BY <1>2, <1>6, <2>1 DEF LoadInv
<1> QED BY <1>2, <1>3, <1>4, <1>5, <1>7, StopKeeps

LEMMA RestartUnreadableKeeps == IInv /\ RestartUnreadable => IInv'
<1> SUFFICES ASSUME IInv, RestartUnreadable
             PROVE  IInv'
  OBVIOUS
<1>1. /\ stops < MaxStops /\ stops' = stops + 1 /\ Release
      /\ reader' = NoReader /\ saver' = NoSaver
      /\ load' = "done" /\ rest' = <<>>
      /\ stats' = Zero /\ full' = <<>> /\ cur' = Nothing
      /\ count' = [m \in Minutes |-> Zero]
      /\ UNCHANGED <<clock, truth, file, spoiled>>
  BY DEF RestartUnreadable
<1>2. /\ count' \in [Minutes -> Pairs] /\ \A m \in Minutes : count'[m] = Zero
      /\ rest' \in Seq(Minutes)
  BY <1>1, PairFacts
<1>3. \A m \in Minutes : AtMost(count'[m], truth[m])
  BY <1>2, PairFacts DEF IInv, Types
<1>4. LoadInv'
  BY <1>1 DEF LoadInv
<1> QED BY <1>1, <1>2, <1>3, <1>4, StopKeeps

\* What load_state finds while it is at work
LEMMA LoadingFacts ==
  ASSUME IInv, Loads, load \in {"buckets", "stats"}
  PROVE  /\ UNCHANGED <<clock, count, pc, sample, truth, reader, saver, file, spoiled, stops>>
         /\ pc = "probe" /\ reader.step = "idle" /\ saver.step = "idle"
         /\ stats = Zero /\ count = file.count
         /\ file.cur \in Ids /\ file.cur \in Int /\ clock \in Int
         /\ full \in Seq(Minutes) /\ rest \in Seq(Minutes) /\ Minutes \in SUBSET Int
         /\ \A m \in Entries(full) : m \in Int
         /\ \A m \in Entries(rest) : m \in Int
         /\ After(file.cur, clock) \in Int
         /\ file.cur <= clock /\ sample.minute <= clock /\ Ascending(full)
<1>1. /\ pc = "probe" /\ reader.step = "idle" /\ saver.step = "idle"
      /\ stats = Zero /\ count = file.count
  BY DEF IInv, LoadInv
<1>2. /\ UNCHANGED <<clock, count, pc, sample, truth, reader, saver, file, spoiled, stops>>
      /\ file.cur <= clock /\ sample.minute <= clock /\ Ascending(full)
  BY DEF Loads, worker, IInv, FileInv, OrderInv
<1>3. /\ file.cur \in Ids /\ file.cur \in Int /\ clock \in Int
      /\ full \in Seq(Minutes) /\ rest \in Seq(Minutes) /\ Minutes \in SUBSET Int
      /\ \A m \in Entries(full) : m \in Int
      /\ \A m \in Entries(rest) : m \in Int
  BY MinuteFacts DEF IInv, Types, Files
<1> QED BY <1>1, <1>2, <1>3 DEF After

\* A step of load_state leaves alone what the others have.
LEMMA LoadKeeps ==
  ASSUME IInv, Loads, load \in {"buckets", "stats"}, Types', OrderInv', CountInv', LoadInv'
  PROVE  IInv'
<1>1. SaverInv' /\ LengthInv' /\ ReaderInv'
  BY LoadingFacts DEF SaverInv, LengthInv, ReaderInv
<1>2. FileInv'
  BY LoadingFacts DEF IInv, FileInv
<1> QED BY <1>1, <1>2 DEF IInv

LEMMA LoadBucketKeeps == IInv /\ LoadBucket => IInv'
<1> SUFFICES ASSUME IInv, LoadBucket
             PROVE  IInv'
  OBVIOUS
<1>1. PICK first : first = Head(rest)
  OBVIOUS
<1>2. PICK list : list = rest
  OBVIOUS
<1>3. /\ load = "buckets" /\ load' = load /\ rest # <<>> /\ Loads
      /\ full' = Append(IF Len(full) < MaxBuckets THEN full ELSE Tail(full), first)
      /\ rest' = Tail(rest) /\ UNCHANGED <<cur, stats>>
  BY <1>1 DEF LoadBucket, Push
<1>4. /\ cur = Nothing /\ Ordered(rest, After(file.cur, clock))
      /\ \A m \in Entries(full), r \in Entries(rest) : m < r
      /\ Len(full) <= MaxBuckets
  BY <1>3 DEF IInv, LoadInv, Types
<1>5. /\ first \in Minutes /\ first \in Entries(rest) /\ first \in Int
      /\ \A m \in Entries(Tail(rest)) : first < m
  <2>1. /\ list \in Seq(Minutes) /\ list # <<>> /\ Ascending(list) /\ first = Head(list)
    BY <1>1, <1>2, <1>3, <1>4, LoadingFacts DEF Ordered
  <2>2. /\ Len(list) \in Nat \ {0} /\ first = list[1] /\ first \in Minutes
    BY <2>1
  <2>3. /\ Tail(list) \in Seq(Minutes) /\ Len(Tail(list)) = Len(list) - 1
        /\ \A i \in 1 .. Len(Tail(list)) : Tail(list)[i] = list[i + 1]
    BY <2>1
  <2>4. first \in Entries(list)
    BY <2>1, <2>2 DEF Entries
  <2>5. ASSUME NEW m \in Entries(Tail(list))
        PROVE  first < m
    <3>1. PICK i \in 1 .. Len(Tail(list)) : m = Tail(list)[i]
      BY <2>3, ListIsIndexed
    <3>2. i + 1 \in 1 .. Len(list) /\ 1 \in 1 .. Len(list) /\ 1 < i + 1
      BY <2>2, <2>3
    <3> QED BY <2>1, <2>2, <2>3, <3>1, <3>2 DEF Ascending
  <2> QED BY <1>2, <2>2, <2>4, <2>5, MinuteFacts
<1>6. /\ full' \in Seq(Minutes) /\ Len(full') <= MaxBuckets /\ Ascending(full')
      /\ \A m \in Entries(full') : m <= first
  <2>1. \A m \in Entries(full) : m < first
    BY <1>4, <1>5
  <2> QED BY <1>3, <1>4, <1>5, <2>1, LoadingFacts, PushedList
<1>7. /\ rest' \in Seq(Minutes) /\ Len(rest') <= MaxBuckets /\ Ascending(rest')
      /\ Entries(rest') \subseteq Entries(rest)
  <2>1. /\ Tail(rest) \in Seq(Minutes) /\ Len(Tail(rest)) = Len(rest) - 1
        /\ Ascending(Tail(rest)) /\ Entries(Tail(rest)) \subseteq Entries(rest)
    BY <1>3, <1>4, LoadingFacts, ShorterList DEF Ordered
  <2>2. Len(rest) \in Nat /\ Len(rest) <= MaxBuckets /\ MaxBuckets \in Nat
    BY <1>3, <1>4, LoadingFacts, CountsAssumption DEF Ordered
  <2> QED BY <1>3, <2>1, <2>2
<1>8. Types'
  BY <1>3, <1>6, <1>7, LoadingFacts DEF IInv, Types
<1>9. /\ \A m \in Entries(full') : m \in Int /\ m < After(file.cur, clock)
      /\ \A m \in Entries(full'), r \in Entries(rest') : m < r
      /\ Ordered(rest', After(file.cur, clock))
  <2>1. \A m \in Entries(full') : m \in Int
    BY <1>6, MinuteFacts
  <2>2. first < After(file.cur, clock) /\ After(file.cur, clock) \in Int
    BY <1>3, <1>4, <1>5, LoadingFacts DEF Ordered
  <2>3. \A r \in Entries(rest') : r \in Int /\ first < r /\ r < After(file.cur, clock)
    BY <1>3, <1>4, <1>5, <1>7, LoadingFacts DEF Ordered
  <2> QED BY <1>5, <1>6, <1>7, <2>1, <2>2, <2>3 DEF Ordered
<1>10. LoadInv'
  BY <1>3, <1>4, <1>9, LoadingFacts DEF LoadInv
<1>11. OrderInv'
  <2>1. After(file.cur, clock) <= clock /\ After(file.cur, clock) \in Int /\ Latest' = clock
        /\ clock \in Int /\ Nothing <= clock
    BY <1>3, <1>4, LoadingFacts, MinuteFacts DEF After, Latest, IInv, Types, OrderInv
  <2>2. \A m \in Entries(full') : m < Latest'
    BY <1>9, <2>1
  <2> QED BY <1>3, <1>4, <1>6, <2>1, <2>2, LoadingFacts DEF OrderInv
<1>12. CountInv'
  BY <1>3, LoadingFacts DEF IInv, CountInv, Unsent, Unreplied, Unanswered, At, Totalled
<1> QED BY <1>3, <1>8, <1>10, <1>11, <1>12, LoadKeeps

LEMMA LoadCurKeeps == IInv /\ LoadCur => IInv'
<1> SUFFICES ASSUME IInv, LoadCur
             PROVE  IInv'
  OBVIOUS
<1>1. /\ load = "buckets" /\ load' = "stats" /\ cur' = file.cur /\ Loads
      /\ UNCHANGED <<rest, full, stats>>
  BY DEF LoadCur
<1>2. \A m \in Entries(full) : m < After(file.cur, clock)
  BY <1>1 DEF IInv, LoadInv
<1>3. Types'
  BY <1>1, LoadingFacts DEF IInv, Types
<1>4. LoadInv'
  BY <1>1, LoadingFacts DEF LoadInv
<1>5. OrderInv'
  <2>1. Latest' = After(file.cur, clock)
    BY <1>1, LoadingFacts DEF Latest
  <2> QED BY <1>1, <1>2, <2>1, LoadingFacts DEF OrderInv
<1>6. CountInv'
  BY <1>1, LoadingFacts DEF IInv, CountInv, Unsent, Unreplied, Unanswered, At, Totalled
<1> QED BY <1>1, <1>3, <1>4, <1>5, <1>6, LoadKeeps

\* The totals come last: now they are those of the buckets, if the file's were.
LEMMA LoadStatsKeeps == IInv /\ LoadStats => IInv'
<1> SUFFICES ASSUME IInv, LoadStats
             PROVE  IInv'
  OBVIOUS
<1>1. /\ load = "stats" /\ load' = "done" /\ stats' = file.stats /\ Loads
      /\ UNCHANGED <<rest, full, cur>>
  BY DEF LoadStats
<1>2. /\ cur = file.cur /\ file \in Files /\ file.stats \in Pairs
      /\ file.count \in [Minutes -> Pairs] /\ truth \in [Minutes -> Pairs]
  BY <1>1 DEF IInv, LoadInv, Types, Files
<1>3. /\ Uncounted(file.count, file.cur, clock)
      /\ AtMost(file.stats, SumOver(truth, Minutes))
      /\ ~spoiled => AtMost(SumOver(file.count, Minutes), file.stats)
  BY DEF IInv, FileInv
<1>4. Types'
  BY <1>1, <1>2, LoadingFacts DEF IInv, Types
<1>5. LoadInv'
  BY <1>1 DEF LoadInv
<1>6. OrderInv'
  <2>1. Latest' = Latest /\ Latest = After(cur, clock)
    BY <1>1, LoadingFacts DEF Latest
  <2>2. Uncounted(count, cur, Latest)
    BY <1>1, <1>2, <1>3, <2>1, LoadingFacts DEF Uncounted, After
  <2> QED BY <1>1, <2>1, <2>2, LoadingFacts DEF IInv, OrderInv
<1>7. CountInv'
  <2>1. Unsent' = 0 /\ Unreplied' = 0
    BY <1>1, LoadingFacts DEF Unsent, Unreplied
  <2>2. Totalled' => /\ SumOver(count', Minutes).sent + Unsent' <= stats'.sent
                     /\ SumOver(count', Minutes).recv + Unreplied' <= stats'.recv
    <3>1. /\ SumOver(file.count, Minutes).sent \in Nat /\ SumOver(file.count, Minutes).recv \in Nat
          /\ count' = file.count
      BY <1>1, <1>2, AllMinutes, LoadingFacts
    <3>2. ~spoiled => /\ SumOver(file.count, Minutes).sent <= file.stats.sent
                      /\ SumOver(file.count, Minutes).recv <= file.stats.recv
      BY <1>3 DEF AtMost
    <3> QED BY <1>1, <2>1, <3>1, <3>2, LoadingFacts DEF Totalled
  <2>3. AtMost(stats', SumOver(truth', Minutes))
    BY <1>1, <1>3, LoadingFacts
  <2> QED BY <1>1, <2>2, <2>3, LoadingFacts DEF IInv, CountInv, Unsent, Unreplied, Unanswered, At
<1> QED BY <1>1, <1>4, <1>5, <1>6, <1>7, LoadKeeps

----------------------------------------------------------------------------
(* The inductive invariant holds                                            *)

LEMMA InitIsTrue == Init => IInv
<1> SUFFICES ASSUME Init
             PROVE  IInv
  OBVIOUS
<1> DEFINE none == [m \in Minutes |-> Zero]
<1>1. /\ clock = 1 /\ stats = Zero /\ full = <<>> /\ cur = Nothing /\ count = none /\ truth = none
      /\ pc = "probe" /\ sample = NoSample /\ reader = NoReader /\ saver = NoSaver
      /\ file = NoFile /\ stops = 0 /\ load = "done" /\ rest = <<>> /\ spoiled = FALSE
  BY DEF Init
<1>2. /\ none \in [Minutes -> Pairs] /\ \A m \in Minutes : none[m] = Zero
      /\ <<>> \in Seq(Minutes) /\ Len(<<>>) = 0
  BY PairFacts
<1>3. /\ 1 \in Minutes /\ NoSample \in [minute : Minutes, answered : BOOLEAN]
      /\ NoSample.minute = 1 /\ NoSample.answered = FALSE /\ MaxBuckets \in Nat
      /\ 0 \in 0 .. MaxStops /\ MaxSamples \in Nat /\ Nothing = 0
  BY CountsAssumption DEF Minutes, NoSample, Nothing
<1>4. NoReader \in Readers /\ NoReader.step = "idle"
  BY PairFacts DEF NoReader, Readers
<1>5. /\ NoFile \in Files /\ NoFile.full = <<>> /\ NoFile.cur = Nothing
      /\ NoFile.count = none /\ NoFile.stats = Zero
  BY <1>2, PairFacts DEF NoFile, Files, Ids
<1>6. SumOver(none, Minutes) = Zero
  <2>1. PICK f : f = none
    OBVIOUS
  <2> QED BY <1>2, <2>1, TotalOfNothing
<1> HIDE DEF none
<1>7. Types
  <2>1. /\ clock \in Minutes /\ stops \in 0 .. MaxStops /\ stats \in Pairs
        /\ count \in [Minutes -> Pairs] /\ truth \in [Minutes -> Pairs] /\ cur \in Ids
    BY <1>1, <1>2, <1>3, PairFacts DEF Ids
  <2>2. /\ full \in Seq(Minutes) /\ Len(full) <= MaxBuckets /\ rest \in Seq(Minutes)
    BY <1>1, <1>2, <1>3
  <2>3. /\ sample \in [minute : Minutes, answered : BOOLEAN]
        /\ reader \in Readers /\ saver \in Savers /\ file \in Files
    BY <1>1, <1>3, <1>4, <1>5, EmptySave
  <2> QED BY <1>1, <2>1, <2>2, <2>3 DEF Types
<1>8. Ascending(<<>>) /\ Entries(<<>>) = {} /\ Len(<<>>) <= MaxBuckets
  BY <1>3 DEF Ascending, Entries
<1>9. OrderInv
  BY <1>1, <1>2, <1>3, <1>8 DEF OrderInv, Uncounted
<1>10. CountInv
  <2>1. /\ Unsent = 0 /\ Unreplied = 0
        /\ \A m \in Minutes : At(m, Unsent) = 0 /\ At(m, Unreplied) = 0 /\ At(m, Unanswered) = 0
    BY <1>1 DEF At, Unsent, Unreplied, Unanswered
  <2> QED BY <1>1, <1>2, <1>3, <1>6, <2>1, PairFacts DEF CountInv, Zero
<1>11. SaverInv
  BY <1>1, EmptySave DEF SaverInv
<1>12. FileInv
  BY <1>1, <1>2, <1>3, <1>5, <1>6, <1>8, PairFacts DEF FileInv, Ordered, Uncounted
<1>13. LengthInv /\ ReaderInv /\ LoadInv
  BY <1>1, <1>4 DEF LengthInv, ReaderInv, LoadInv
<1> QED BY <1>7, <1>9, <1>10, <1>11, <1>12, <1>13 DEF IInv

LEMMA StutterKeeps == IInv /\ UNCHANGED vars => IInv'
<1> SUFFICES ASSUME IInv, UNCHANGED vars
             PROVE  IInv'
  OBVIOUS
<1>1. /\ UNCHANGED <<clock, memory, worker, saver, file, loading, spoiled, stops>>
      /\ UNCHANGED <<full, cur, count, pc, reader>>
  BY DEF vars, memory, worker, loading
<1>2. reader' \in Readers
  BY <1>1 DEF IInv, Types
<1>3. LengthInv' /\ ReaderInv'
  BY <1>1 DEF IInv, LengthInv, ReaderInv, InSight
<1> QED BY <1>1, <1>2, <1>3, OnlyReaderMoves

\* Whatever the worker, the reader and the saver do between each other's steps,
\* wherever the process stops, and wherever a signal stops load_state (which
\* appends the buckets one by one and loads the totals last), the invariant holds.
THEOREM Inductive == Spec => []IInv
<1>1. Init => IInv
  BY InitIsTrue
<1>2. IInv /\ [Next]_vars => IInv'
  <2> SUFFICES ASSUME IInv, [Next]_vars
               PROVE  IInv'
    OBVIOUS
  <2>1. CASE Tick
    BY <2>1, TickKeeps
  <2>2. CASE Worker
    BY <2>2, SampleKeeps, CountReplyKeeps, AppendBucketKeeps, NewBucketKeeps, BucketSentKeeps,
       BucketRecvKeeps DEF Worker
  <2>3. CASE Restart \/ RestartUnreadable \/ LoadBucket \/ LoadCur \/ LoadStats
    BY <2>3, RestartKeeps, RestartUnreadableKeeps, LoadBucketKeeps, LoadCurKeeps, LoadStatsKeeps
  <2>4. CASE ListFull \/ ListCur \/ ReadSent \/ ReadRecv \/ Answer
    BY <2>4, ListFullKeeps, ListCurKeeps, ReadSentKeeps, ReadRecvKeeps, AnswerKeeps
  <2>5. CASE SaveCopy \/ SaveCurSent \/ SaveCurRecv \/ SaveStatsSent \/ SaveFile \/ SaveFails
    BY <2>5, SaveCopyKeeps, SaveCurSentKeeps, SaveCurRecvKeeps, SaveStatsSentKeeps, SaveFileKeeps,
       SaveFailsKeeps
  <2>6. CASE UNCHANGED vars
    BY <2>6, StutterKeeps
  <2> QED BY <2>1, <2>2, <2>3, <2>4, <2>5, <2>6 DEF Next
<1> QED BY <1>1, <1>2, PTL DEF Spec

\* The types, and no count is above the samples that were taken.
THEOREM TypeCorrect == Spec => []TypeOK
<1>1. IInv => TypeOK
  <2> SUFFICES ASSUME IInv
               PROVE  TypeOK
    OBVIOUS
  <2>1. Types /\ CountInv /\ FileInv
    BY DEF IInv
  <2>2. MaxSamples \in Nat
    BY CountsAssumption
  <2>3. \A a \in Pairs : a.sent <= MaxSamples /\ a.recv <= MaxSamples => a \in Counts
    <3>1. ASSUME NEW a \in Pairs, a.sent <= MaxSamples, a.recv <= MaxSamples
          PROVE  a \in Counts
      <4>1. a.sent \in 0 .. MaxSamples /\ a.recv \in 0 .. MaxSamples
        BY <2>2, <3>1, PairFacts
      <4> QED BY <4>1 DEF Counts, Pairs
    <3> QED BY <3>1
  <2>4. SumOver(truth, Minutes).recv <= SumOver(truth, Minutes).sent
    <3>1. ASSUME NEW m \in Minutes
          PROVE  truth[m] \in Pairs /\ truth[m].recv <= truth[m].sent
      <4>1. truth[m].recv + At(m, Unanswered) <= truth[m].sent
        BY <2>1 DEF CountInv
      <4>2. At(m, Unanswered) \in {0, 1}
        BY DEF At, Unanswered
      <4>3. truth[m] \in Pairs
        BY <2>1 DEF Types
      <4> QED BY <2>1, <4>1, <4>2, <4>3, CountFacts
    <3> QED BY <3>1, MinuteFacts, RecvAtMostSent
  <2>5. /\ SumOver(truth, Minutes).sent <= MaxSamples /\ SumOver(truth, Minutes).recv <= MaxSamples
        /\ SumOver(truth, Minutes).sent \in Nat /\ SumOver(truth, Minutes).recv \in Nat
    BY <2>1, <2>2, <2>4, CountFacts DEF CountInv
  <2>6. stats \in Counts /\ file.stats \in Counts
    <3>1. stats \in Pairs /\ file.stats \in Pairs
      BY <2>1 DEF Types, Files
    <3>2. /\ stats.sent <= MaxSamples /\ stats.recv <= MaxSamples
          /\ file.stats.sent <= MaxSamples /\ file.stats.recv <= MaxSamples
      BY <2>1, <2>2, <2>5, <3>1, PairFacts DEF CountInv, FileInv, AtMost
    <3> QED BY <2>3, <3>1, <3>2
  <2>7. ASSUME NEW m \in Minutes
        PROVE  count[m] \in Counts /\ truth[m] \in Counts
    <3>1. count[m] \in Pairs /\ truth[m] \in Pairs
      BY <2>1 DEF Types
    <3>2. truth[m].sent <= SumOver(truth, Minutes).sent
      <4>1. SumOver(truth, {m}).sent = truth[m].sent
        <5>1. PICK f : f = [i \in {m} |-> truth[i].sent]
          OBVIOUS
        <5>2. Sum(f, {m}) = f[m]
          <6>1. Units(f, {m}) = {<<m, k>> : k \in 1 .. f[m]}
            BY DEF Units
          <6>2. PICK n \in Nat : n = f[m]
            BY <3>1, <5>1, PairFacts
          <6>3. ASSUME NEW b, b = [k \in 1 .. n |-> <<m, k>>],
                       NEW N, N = {<<m, k>> : k \in 1 .. n}
                PROVE  b \in Bijection(1 .. n, N)
            <7>1. b \in [1 .. n -> N] /\ \A i, j \in 1 .. n : b[i] = b[j] => i = j
              BY <6>3
            <7>2. \A u \in N : \E k \in 1 .. n : b[k] = u
              BY <6>3
            <7> QED BY <7>1, <7>2, Fun_IsBij
          <6>4. ExistsBijection(1 .. n, Units(f, {m}))
            BY <6>1, <6>2, <6>3 DEF ExistsBijection
          <6>5. IsFiniteSet(1 .. n) /\ Cardinality(1 .. n) = n
            <7>1. 1 \in Int /\ n \in Int
              OBVIOUS
            <7>2. IsFiniteSet(1 .. n) /\ Cardinality(1 .. n) = IF 1 > n THEN 0 ELSE n - 1 + 1
              BY <7>1, FS_Interval, Zenon
            <7> QED BY <7>2
          <6>6. Cardinality(Units(f, {m})) = n
            BY <6>4, <6>5, FS_Bijection
          <6> QED BY <6>2, <6>6 DEF Sum, Units
        <5> QED BY <5>1, <5>2 DEF SumOver
      <4>2. {m} \in SUBSET Minutes /\ IsFiniteSet(Minutes)
        BY MinuteFacts
      <4>3. \A i \in Minutes : truth[i].sent \in Nat /\ truth[i].sent <= truth[i].sent
        BY <2>1, CountFacts
      <4>4. SumOver(truth, {m}).sent <= SumOver(truth, Minutes).sent
        BY <4>2, <4>3, SentGrows
      <4> QED BY <4>1, <4>4
    <3>3. /\ truth[m].sent <= MaxSamples /\ truth[m].recv <= MaxSamples
          /\ count[m].sent <= MaxSamples /\ count[m].recv <= MaxSamples
      <4>1. /\ count[m].sent + At(m, Unsent) <= truth[m].sent
            /\ count[m].recv + At(m, Unreplied) <= truth[m].recv
            /\ truth[m].recv + At(m, Unanswered) <= truth[m].sent
        BY <2>1 DEF CountInv
      <4>2. /\ At(m, Unsent) \in {0, 1} /\ At(m, Unreplied) \in {0, 1}
            /\ At(m, Unanswered) \in {0, 1}
        BY DEF At, Unsent, Unreplied, Unanswered
      <4> QED BY <2>1, <2>2, <2>5, <3>2, <4>1, <4>2, CountFacts
    <3> QED BY <2>3, <3>1, <3>3
  <2>8. count \in [Minutes -> Counts] /\ truth \in [Minutes -> Counts]
    BY <2>1, <2>7 DEF Types
  <2> QED BY <2>1, <2>6, <2>8 DEF Types, TypeOK, Readers, Savers, Files, Ids
<1> QED BY <1>1, Inductive, PTL
----------------------------------------------------------------------------
(* CountsAreTrue                                                            *)

\* The buckets of a list and a current one are among all minutes.
LEMMA HeldIsCounted ==
  ASSUME NEW f \in [Minutes -> Pairs], NEW list \in Seq(Minutes), NEW c \in Ids
  PROVE  /\ Held(list, c) \subseteq Minutes
         /\ SumOver(f, Held(list, c)) \in Pairs
         /\ AtMost(SumOver(f, Held(list, c)), SumOver(f, Minutes))
<1>1. Held(list, c) \in SUBSET Minutes
  BY MinuteFacts DEF Held
<1>2. PICK H : H = Held(list, c)
  OBVIOUS
<1>3. IsFiniteSet(Minutes) /\ H \in SUBSET Minutes /\ IsFiniteSet(H)
  BY <1>1, <1>2, MinuteFacts, FS_Subset
<1>4. \A m \in Minutes : f[m] \in Pairs /\ AtMost(f[m], f[m])
  BY PairFacts
<1>5. SumOver(f, H) \in Pairs
  BY <1>3, <1>4, TotalIsPair
<1>6. AtMost(SumOver(f, H), SumOver(f, Minutes))
  BY <1>3, <1>4, TotalGrows
<1> QED BY <1>1, <1>2, <1>5, <1>6

LEMMA InvImpliesCounts == IInv => CountsAreTrue
<1> SUFFICES ASSUME IInv
             PROVE  CountsAreTrue
  OBVIOUS
<1>1. /\ count \in [Minutes -> Pairs] /\ truth \in [Minutes -> Pairs] /\ stats \in Pairs
      /\ full \in Seq(Minutes) /\ cur \in Ids /\ file \in Files
      /\ file.count \in [Minutes -> Pairs] /\ file.stats \in Pairs
      /\ file.full \in Seq(Minutes) /\ file.cur \in Ids
  BY DEF IInv, Types, Files
<1>2. PICK H, G : H = Held(full, cur) /\ G = Held(file.full, file.cur)
  OBVIOUS
<1>3. /\ H \subseteq Minutes /\ SumOver(count, H) \in Pairs
      /\ AtMost(SumOver(count, H), SumOver(count, Minutes))
  BY <1>1, <1>2, HeldIsCounted
<1>4. /\ G \subseteq Minutes /\ SumOver(file.count, G) \in Pairs
      /\ AtMost(SumOver(file.count, G), SumOver(file.count, Minutes))
  BY <1>1, <1>2, HeldIsCounted
<1>5. SumOver(count, Minutes) \in Pairs /\ SumOver(file.count, Minutes) \in Pairs
  BY <1>1, AllMinutes
<1>6. \A m \in H : AtMost(count[m], truth[m])
  BY <1>3, CountedWasSampled
<1>7. load = "done" /\ ~spoiled => AtMost(SumOver(count, H), stats)
  <2> SUFFICES ASSUME Totalled
               PROVE  AtMost(SumOver(count, H), stats)
    BY DEF Totalled
  <2>1. Unsent \in {0, 1} /\ Unreplied \in {0, 1}
    BY DEF Unsent, Unreplied
  <2>2. /\ SumOver(count, Minutes).sent <= stats.sent
        /\ SumOver(count, Minutes).recv <= stats.recv
    BY <2>1, CountFacts DEF IInv, CountInv
  <2>3. AtMost(SumOver(count, Minutes), stats)
    BY <2>2 DEF AtMost
  <2> QED BY <1>1, <1>3, <1>5, <2>3, PairFacts
<1>8. /\ \A m \in G : AtMost(file.count[m], truth[m])
      /\ ~spoiled => AtMost(SumOver(file.count, G), file.stats)
  <2>1. \A m \in Minutes : AtMost(file.count[m], truth[m])
    BY DEF IInv, FileInv
  <2>2. ~spoiled => AtMost(SumOver(file.count, Minutes), file.stats)
    BY DEF IInv, FileInv
  <2> QED BY <1>1, <1>4, <1>5, <2>1, <2>2, PairFacts
<1>9. cur # Nothing /\ pc # "new" => cur \notin Entries(full)
  <2>1. cur \in Int
    BY <1>1, MinuteFacts
  <2>2. cur # Nothing /\ pc # "new" => \A m \in Entries(full) : m < cur
    BY DEF IInv, OrderInv, Latest, After
  <2> QED BY <2>1, <2>2
<1> QED BY <1>2, <1>6, <1>7, <1>8, <1>9 DEF CountsAreTrue

\* However often the process stops, no bucket counts more than was sampled in its
\* minute, in memory or in what save_state wrote without the lock; and once
\* load_state has returned the buckets count no more than the totals, in memory as
\* in the file, unless the handler of a signal saved in the middle of load_state.
THEOREM CountsTrue == Spec => []CountsAreTrue
BY InvImpliesCounts, Inductive, PTL

----------------------------------------------------------------------------
(* SummaryIsBracketed                                                       *)

LEMMA Quotient ==
  ASSUME NEW a \in Nat, NEW F \in Nat \ {0}
  PROVE  a \div F \in Nat /\ (a \div F) * F <= a /\ a < (a \div F) * F + F
OBVIOUS

LEMMA ProductGrows ==
  ASSUME NEW a \in Nat, NEW b \in Nat, NEW F \in Nat \ {0}, a < b
  PROVE  a * F + F <= b * F /\ a * F \in Nat /\ b * F \in Nat
OBVIOUS

LEMMA ProductBetween ==
  ASSUME NEW a \in Nat, NEW b \in Nat, NEW F \in Nat \ {0}, a * F < b * F + F
  PROVE  a <= b
<1>1. ASSUME b < a
      PROVE  FALSE
  <2>1. b * F + F <= a * F /\ b * F \in Nat /\ a * F \in Nat
    BY <1>1, ProductGrows
  <2> QED BY <2>1
<1> QED BY <1>1

LEMMA ProductOfNext ==
  ASSUME NEW a \in Nat, NEW F \in Nat \ {0}
  PROVE  a * F \in Nat /\ (a + 1) * F \in Nat /\ (a + 1) * F = a * F + F
OBVIOUS

\* A number is in the group of F numbers of its quotient, and in no other.
LEMMA QuotientIsGroup ==
  ASSUME NEW a \in Nat, NEW F \in Nat \ {0}, NEW q \in Nat
  PROVE  a \div F = q <=> q * F <= a /\ a < q * F + F
<1>1. PICK p \in Nat : p = a \div F
  BY Quotient
<1>2. p * F <= a /\ a < p * F + F
  BY <1>1, Quotient
<1>3. p * F \in Nat /\ q * F \in Nat
  BY ProductOfNext
<1>4. ASSUME q * F <= a, a < q * F + F
      PROVE  p = q
  <2>1. q * F < p * F + F /\ p * F < q * F + F
    <3>1. PICK m, n \in Nat : m = p * F /\ n = q * F
      BY <1>3
    <3>2. m <= a /\ a < m + F /\ n <= a /\ a < n + F
      BY <1>2, <1>4, <3>1
    <3>3. n < m + F /\ m < n + F
      BY <3>2
    <3> QED BY <3>1, <3>3
  <2>2. q <= p /\ p <= q
    BY <2>1, ProductBetween
  <2> QED BY <2>2
<1> QED BY <1>1, <1>2, <1>4

\* The groups that downsample_series makes of L places: each place is in one.
Groups(L, F) == 1 .. (L + F - 1) \div F
Group(L, F) == [i \in 1 .. L |-> (i - 1) \div F + 1]

LEMMA PlacesAreGrouped ==
  ASSUME NEW L \in Nat, NEW F \in Nat \ {0}
  PROVE  /\ Group(L, F) \in [1 .. L -> Groups(L, F)]
         /\ \A g \in Groups(L, F) :
              Class(Group(L, F), 1 .. L, g) = (g - 1) * F + 1 .. Lesser(g * F, L)
<1>1. PICK groups : groups = Groups(L, F) /\ groups = 1 .. (L + F - 1) \div F
  BY DEF Groups
<1>2. PICK part : part = Group(L, F) /\ part = [i \in 1 .. L |-> (i - 1) \div F + 1]
  BY DEF Group
<1>3. PICK n \in Nat : n = (L + F - 1) \div F
  <2>1. L + F - 1 \in Nat
    OBVIOUS
  <2> QED BY <2>1, Quotient
<1>4. L + F - 1 < n * F + F /\ n * F \in Nat
  <2>1. L + F - 1 \in Nat
    OBVIOUS
  <2> QED BY <1>3, <2>1, Quotient, ProductOfNext
<1>5. ASSUME NEW i \in 1 .. L
      PROVE  part[i] \in groups
  <2>1. i - 1 \in Nat
    OBVIOUS
  <2>2. PICK q \in Nat : q = (i - 1) \div F
    BY <2>1, Quotient
  <2>3. q * F <= i - 1 /\ q * F \in Nat /\ (q + 1) * F = q * F + F /\ (q + 1) * F \in Nat
    BY <2>1, <2>2, Quotient, ProductOfNext
  <2>4. (q + 1) * F < n * F + F
    <3>1. PICK r, s, t \in Nat : r = (q + 1) * F /\ s = q * F /\ t = n * F
      BY <1>4, <2>3
    <3>2. s <= i - 1 /\ r = s + F /\ L + F - 1 < t + F
      BY <1>4, <2>3, <3>1
    <3>3. r < t + F
      BY <3>2
    <3> QED BY <3>1, <3>3
  <2>5. q + 1 <= n
    BY <2>4, ProductBetween
  <2>6. q + 1 \in 1 .. n
    BY <2>5
  <2>7. part[i] = q + 1
    BY <1>2, <2>2
  <2> QED BY <1>1, <1>3, <2>6, <2>7, Zenon
<1>6. ASSUME NEW g \in groups, NEW i \in 1 .. L
      PROVE  part[i] = g <=> i \in (g - 1) * F + 1 .. Lesser(g * F, L)
  <2>1. g \in 1 .. n /\ i - 1 \in Nat
    BY <1>1, <1>3
  <2>2. PICK q \in Nat : g = q + 1
    <3>1. g - 1 \in Nat /\ g = (g - 1) + 1
      BY <2>1
    <3> QED BY <3>1
  <2>3. PICK p \in Nat : p = (i - 1) \div F
    BY <2>1, Quotient
  <2>4. part[i] = p + 1 /\ (part[i] = g <=> p = q)
    BY <1>2, <2>2, <2>3
  <2>5. p = q <=> q * F <= i - 1 /\ i - 1 < q * F + F
    BY <2>1, <2>3, QuotientIsGroup
  <2>6. PICK r, s \in Nat : r = q * F /\ s = g * F /\ s = r + F /\ r = (g - 1) * F
    <3>1. g - 1 = q
      BY <2>2
    <3> QED BY <2>2, <3>1, ProductOfNext
  <2>7. r <= i - 1 /\ i - 1 < r + F <=> i \in r + 1 .. Lesser(s, L)
    BY <2>6 DEF Lesser
  <2> QED BY <2>4, <2>5, <2>6, <2>7
<1>7. ASSUME NEW g \in groups
      PROVE  Class(part, 1 .. L, g) = (g - 1) * F + 1 .. Lesser(g * F, L)
  <2>1. g \in 1 .. n
    BY <1>1, <1>3
  <2>2. (g - 1) * F \in Nat /\ g * F \in Nat
    <3>1. g - 1 \in Nat /\ g \in Nat
      BY <2>1
    <3> QED BY <3>1, ProductOfNext
  <2>3. PICK A : A = (g - 1) * F + 1 .. Lesser(g * F, L)
    OBVIOUS
  <2>4. A \subseteq 1 .. L
    <3>1. PICK a, b \in Nat : a = (g - 1) * F /\ b = g * F
      BY <2>2
    <3>2. a + 1 .. Lesser(b, L) \subseteq 1 .. L
      BY DEF Lesser
    <3> QED BY <2>3, <3>1, <3>2
  <2>5. \A i \in 1 .. L : part[i] = g <=> i \in A
    BY <1>6, <2>3
  <2> QED BY <2>3, <2>4, <2>5 DEF Class
<1>8. part \in [1 .. L -> groups]
  BY <1>2, <1>5
<1> QED BY <1>1, <1>2, <1>7, <1>8

\* A sum reads its function where it adds up only.
LEMMA SumReads ==
  ASSUME NEW ids, NEW f, NEW g, \A i \in ids : f[i] = g[i]
  PROVE  Sum(f, ids) = Sum(g, ids)
<1>1. ASSUME NEW u
      PROVE  u \in Units(f, ids) <=> u \in Units(g, ids)
  BY UnitIsCounted
<1>2. Units(f, ids) = Units(g, ids)
  BY <1>1
<1> QED BY <1>2 DEF Sum, Units

\* The downsampled series adds up to the series.
LEMMA GroupsAddUp ==
  ASSUME NEW ser \in Seq(Pairs), NEW F \in Nat \ {0},
         NEW down, down = downsample_series(ser, F)
  PROVE  SumOver(down, DOMAIN down) = SumOver(ser, DOMAIN ser)
<1>1. PICK S : S = Pairs
  OBVIOUS
<1>2. /\ Len(ser) \in Nat /\ DOMAIN ser = 1 .. Len(ser)
      /\ \A i \in 1 .. Len(ser) : ser[i] \in S
  BY <1>1
<1>3. PICK L \in Nat : L = Len(ser)
  BY <1>2
<1>4. PICK groups : groups = Groups(L, F)
  OBVIOUS
<1>5. PICK part : part = Group(L, F)
  OBVIOUS
<1>6. /\ part \in [1 .. L -> groups]
      /\ \A g \in groups :
           Class(part, 1 .. L, g) = (g - 1) * F + 1 .. Lesser(g * F, L)
  BY <1>4, <1>5, PlacesAreGrouped
<1>7. /\ DOMAIN down = groups
      /\ \A g \in groups : down[g] = SumOver(ser, Class(part, 1 .. L, g))
  BY <1>3, <1>4, <1>6 DEF downsample_series, Groups
<1>8. IsFiniteSet(1 .. L)
  BY IntervalIsFinite
<1>9. \A i \in 1 .. L : ser[i].sent \in Nat /\ ser[i].recv \in Nat
  BY <1>1, <1>2, <1>3, PairFacts
<1>10. Sum([g \in groups |-> down[g].sent], groups) = Sum([i \in 1 .. L |-> ser[i].sent], 1 .. L)
  <2>1. PICK x : x = [i \in 1 .. L |-> ser[i].sent]
    OBVIOUS
  <2>2. PICK y : y = [g \in groups |-> down[g].sent]
    OBVIOUS
  <2>3. ASSUME NEW g \in groups
        PROVE  y[g] = Sum(x, Class(part, 1 .. L, g))
    <3>1. PICK G : G = Class(part, 1 .. L, g)
      OBVIOUS
    <3>2. PICK z : z = [i \in G |-> ser[i].sent]
      OBVIOUS
    <3>3. y[g] = Sum(z, G)
      <4>1. down[g] = SumOver(ser, G)
        BY <1>7, <3>1
      <4>2. SumOver(ser, G).sent = Sum(z, G)
        BY <3>2 DEF SumOver
      <4> QED BY <2>2, <4>1, <4>2
    <3>4. \A i \in G : z[i] = x[i]
      BY <2>1, <3>1, <3>2 DEF Class
    <3>5. Sum(z, G) = Sum(x, G)
      BY <3>4, SumReads
    <3> QED BY <3>1, <3>3, <3>5
  <2>4. \A i \in 1 .. L : x[i] \in Nat
    BY <1>9, <2>1
  <2>5. Sum(y, groups) = Sum(x, 1 .. L)
    <3>1. PICK D : D = 1 .. L
      OBVIOUS
    <3>2. /\ IsFiniteSet(D) /\ part \in [D -> groups] /\ \A i \in D : x[i] \in Nat
          /\ \A g \in groups : y[g] = Sum(x, Class(part, D, g))
      BY <1>6, <1>8, <2>3, <2>4, <3>1
    <3>3. Sum(y, groups) = Sum(x, D)
      BY <3>2, SumOfGroups
    <3> QED BY <3>1, <3>3
  <2> QED BY <2>1, <2>2, <2>5
<1>11. Sum([g \in groups |-> down[g].recv], groups) = Sum([i \in 1 .. L |-> ser[i].recv], 1 .. L)
  <2>1. PICK x : x = [i \in 1 .. L |-> ser[i].recv]
    OBVIOUS
  <2>2. PICK y : y = [g \in groups |-> down[g].recv]
    OBVIOUS
  <2>3. ASSUME NEW g \in groups
        PROVE  y[g] = Sum(x, Class(part, 1 .. L, g))
    <3>1. PICK G : G = Class(part, 1 .. L, g)
      OBVIOUS
    <3>2. PICK z : z = [i \in G |-> ser[i].recv]
      OBVIOUS
    <3>3. y[g] = Sum(z, G)
      <4>1. down[g] = SumOver(ser, G)
        BY <1>7, <3>1
      <4>2. SumOver(ser, G).recv = Sum(z, G)
        BY <3>2 DEF SumOver
      <4> QED BY <2>2, <4>1, <4>2
    <3>4. \A i \in G : z[i] = x[i]
      BY <2>1, <3>1, <3>2 DEF Class
    <3>5. Sum(z, G) = Sum(x, G)
      BY <3>4, SumReads
    <3> QED BY <3>1, <3>3, <3>5
  <2>4. \A i \in 1 .. L : x[i] \in Nat
    BY <1>9, <2>1
  <2>5. Sum(y, groups) = Sum(x, 1 .. L)
    <3>1. PICK D : D = 1 .. L
      OBVIOUS
    <3>2. /\ IsFiniteSet(D) /\ part \in [D -> groups] /\ \A i \in D : x[i] \in Nat
          /\ \A g \in groups : y[g] = Sum(x, Class(part, D, g))
      BY <1>6, <1>8, <2>3, <2>4, <3>1
    <3>3. Sum(y, groups) = Sum(x, D)
      BY <3>2, SumOfGroups
    <3> QED BY <3>1, <3>3
  <2> QED BY <2>1, <2>2, <2>5
<1> QED BY <1>2, <1>3, <1>7, <1>10, <1>11 DEF SumOver

LEMMA InvImpliesBracketed == IInv => SummaryIsBracketed
<1> SUFFICES ASSUME IInv, reader.step = "done"
             PROVE  SummaryIsBracketed
  BY DEF SummaryIsBracketed
<1>1. reader.series \in Seq(Pairs) /\ Factor \in Nat \ {0}
  BY CountsAssumption DEF IInv, Types, Readers
<1>2. PICK ser, down : ser = reader.series /\ down = downsample_series(ser, Factor)
  OBVIOUS
<1>3. SumOver(down, DOMAIN down) = SumOver(ser, DOMAIN ser)
  BY <1>1, <1>2, GroupsAddUp
<1>4. ~reader.rolled => /\ AtMost(reader.start, SumOver(ser, DOMAIN ser))
                        /\ AtMost(SumOver(ser, DOMAIN ser),
                                  SumOver(count, InWindow(Held(full, cur), reader.cutoff)))
  BY <1>2 DEF IInv, ReaderInv, InSight
<1> QED BY <1>2, <1>3, <1>4 DEF SummaryIsBracketed

\* Without the lock, day_summary still adds up what the buckets held at some
\* moment of its work unless a bucket became full meanwhile, and
\* downsample_series loses no count of it and adds none.
THEOREM SummaryBracketed == Spec => []SummaryIsBracketed
BY InvImpliesBracketed, Inductive, PTL


=============================================================================
