-------------------------- MODULE DetectionProofs --------------------------
(* Theorems about Detection, for every value of its constants.               *)
EXTENDS Detection, FiniteSetTheorems, FunctionTheorems, NaturalsInduction, SequenceTheorems,
        TLAPS

----------------------------------------------------------------------------
(* Numbers                                                                  *)

\* A set of numbers has a least one.
LEMMA Least ==
  ASSUME NEW K \in SUBSET Nat, K # {}
  PROVE  \E i \in K : \A j \in K : i <= j
<1> DEFINE R == OpToRel(<, Nat)
<1>1. IsWellFoundedOn(R, Nat)
  BY NatLessThanWellFounded
<1>2. \A i, j \in Nat : <<i, j>> \in R <=> i < j
  BY DEF OpToRel
<1> HIDE DEF R
<1>3. PICK i \in K : \A j \in K : ~(<<j, i>> \in R)
  BY <1>1, WFMin, Zenon
<1>4. \A j \in K : i \in Nat /\ j \in Nat /\ ~(j < i)
  BY <1>2, <1>3
<1> QED BY <1>4

----------------------------------------------------------------------------
(* Events and stimuli                                                       *)

Parsed == {Parse(line, time) : line \in Lines, time \in 0 .. MaxTime}

LEMMA EventFacts ==
  ASSUME NEW line \in Lines, NEW time \in 0 .. MaxTime, NEW ev, ev = Parse(line, time)
  PROVE  /\ ev \in Parsed /\ ev # None /\ ev.timestamp \in Nat /\ ev.timestamp = time
         /\ ev.raw = line
<1>1. ev \in Parsed /\ ev # None
  BY DetectionAssumption DEF Parsed
<1>2. ev.timestamp = time /\ ev.raw = line
  BY DEF Parse
<1>3. time \in Nat
  BY CollectorAssumption
<1> QED BY <1>1, <1>2, <1>3

LEMMA ParsedFacts == ASSUME NEW ev \in Parsed PROVE ev # None /\ ev.timestamp \in Nat
<1>1. PICK line \in Lines, time \in 0 .. MaxTime : ev = Parse(line, time)
  BY DEF Parsed
<1> QED BY <1>1, EventFacts

LEMMA StimulusFacts ==
  ASSUME clock \in 0 .. MaxTime, NEW s \in Stimuli
  PROVE  /\ s.timestamp \in Nat
         /\ s.five_tuple # None /\ s.expected_event_type # None
         /\ s.five_tuple = [f \in TupleFields |-> s.five_tuple[f]]
<1>1. PICK d \in Descriptors, time \in 0 .. clock :
        s = [five_tuple |-> d.five_tuple, expected_event_type |-> d.expected_event_type,
             expected_fields |-> d.expected_fields, timestamp |-> time]
  BY DEF Stimuli
<1>2. s.timestamp \in Nat
  BY <1>1, CollectorAssumption
<1>3. s.five_tuple = d.five_tuple /\ s.expected_event_type = d.expected_event_type
  BY <1>1
<1> QED BY <1>2, <1>3, DetectionAssumption

LEMMA MatchesAre ==
  ASSUME NEW s, s.timestamp \in Nat, NEW ev, ev.timestamp \in Nat
  PROVE  /\ Matches(s, ev) <=>
              /\ ev.event_type = s.expected_event_type
              /\ ev.timestamp \in s.timestamp - Skew .. s.timestamp + Window + Skew
              /\ ObservationMatches(s.five_tuple, ev.five_tuple)
         /\ Distance(s, ev) \in Nat
<1>1. PICK t \in Nat : t = s.timestamp
  OBVIOUS
<1>2. PICK e \in Nat : e = ev.timestamp
  OBVIOUS
<1>3. Window \in Nat /\ Skew \in Nat
  BY CorrelatorAssumption
<1>4. WithinWindow(t, e) <=> e \in t - Skew .. t + Window + Skew
  BY <1>3 DEF WithinWindow
<1>5. Distance(s, ev) \in Nat
  <2>1. PICK d \in Int : d = e - t
    OBVIOUS
  <2> QED BY <1>1, <1>2, <2>1 DEF Distance
<1> QED BY <1>1, <1>2, <1>4, <1>5 DEF Matches

\* The event that Correlate chooses
Best(s, evs, i) ==
  /\ i \in DOMAIN evs /\ Matches(s, evs[i])
  /\ \A j \in DOMAIN evs : Matches(s, evs[j]) =>
       \/ Distance(s, evs[i]) < Distance(s, evs[j])
       \/ Distance(s, evs[i]) = Distance(s, evs[j]) /\ i <= j

LEMMA CorrelateIsBest ==
  ASSUME NEW s, s.timestamp \in Nat, NEW evs \in Seq(Parsed)
  PROVE  /\ (\A i \in DOMAIN evs : ~Matches(s, evs[i])) => Correlate(s, evs) = None
         /\ (\E i \in DOMAIN evs : Matches(s, evs[i])) =>
              /\ Correlate(s, evs) # None
              /\ \E i : Best(s, evs, i) /\ Correlate(s, evs) = evs[i]
<1>1. PICK K : K = Candidates(s, evs)
  OBVIOUS
<1>2. \A i : i \in K <=> i \in DOMAIN evs /\ Matches(s, evs[i])
  BY <1>1 DEF Candidates
<1>3. \A i \in DOMAIN evs : i \in Nat /\ evs[i] \in Parsed
  OBVIOUS
<1>4. PICK d : d = [i \in DOMAIN evs |-> Distance(s, evs[i])]
  OBVIOUS
<1>5. \A i \in DOMAIN evs : d[i] = Distance(s, evs[i]) /\ d[i] \in Nat
  <2>1. ASSUME NEW i \in DOMAIN evs
        PROVE  Distance(s, evs[i]) \in Nat
    <3>1. PICK ev \in Parsed : ev = evs[i]
      BY <1>3
    <3>2. Distance(s, ev) \in Nat
      BY ParsedFacts, MatchesAre
    <3> QED BY <3>1, <3>2
  <2> QED BY <1>4, <2>1
<1>6. ASSUME K = {}
      PROVE  Correlate(s, evs) = None
  BY <1>1, <1>6 DEF Correlate
<1>7. ASSUME K # {}
      PROVE  /\ Correlate(s, evs) # None
             /\ \E i : Best(s, evs, i) /\ Correlate(s, evs) = evs[i]
  <2>1. PICK D : D = {d[i] : i \in K}
    OBVIOUS
  <2>2. D \in SUBSET Nat /\ D # {}
    BY <1>2, <1>5, <1>7, <2>1
  <2>3. PICK least \in D : \A x \in D : least <= x
    BY <2>2, Least
  <2>4. PICK L : L = {i \in K : d[i] = least}
    OBVIOUS
  <2>5. L \in SUBSET Nat /\ L # {}
    BY <1>2, <1>3, <2>1, <2>3, <2>4
  <2>6. PICK first \in L : \A i \in L : first <= i
    BY <2>5, Least
  <2>7. first \in K /\ \A j \in K : d[first] < d[j] \/ (d[first] = d[j] /\ first <= j)
    <3>1. first \in K /\ d[first] = least /\ least \in Nat
      BY <2>2, <2>4
    <3>2. ASSUME NEW j \in K
          PROVE  d[first] < d[j] \/ (d[first] = d[j] /\ first <= j)
      <4>1. d[j] \in Nat /\ least <= d[j]
        BY <1>2, <1>5, <2>1, <2>3
      <4>2. d[j] = least => first <= j
        BY <2>4, <2>6
      <4> QED BY <3>1, <4>1, <4>2
    <3> QED BY <3>1, <3>2
  <2>8. PICK i : i = CHOOSE a \in K : \A j \in K : d[a] < d[j] \/ (d[a] = d[j] /\ a <= j)
    OBVIOUS
  <2>9. i \in K /\ \A j \in K : d[i] < d[j] \/ (d[i] = d[j] /\ i <= j)
    BY <2>7, <2>8, Zenon
  <2>10. Correlate(s, evs) = evs[i]
    <3>1. \A a, b \in K : d[a] = Distance(s, evs[a]) /\ d[b] = Distance(s, evs[b])
      BY <1>2, <1>5
    <3>2. i = CHOOSE a \in K : \A j \in K :
                \/ Distance(s, evs[a]) < Distance(s, evs[j])
                \/ Distance(s, evs[a]) = Distance(s, evs[j]) /\ a <= j
      BY <2>8, <3>1
    <3> QED BY <1>1, <1>7, <3>2 DEF Correlate
  <2>11. Best(s, evs, i)
    BY <1>2, <1>5, <2>9 DEF Best
  <2>12. evs[i] # None
    BY <1>2, <1>3, <2>9, ParsedFacts
  <2> QED BY <2>10, <2>11, <2>12
<1> QED BY <1>2, <1>6, <1>7
LEMMA ClosestIsBest ==
  ASSUME events \in Seq(Parsed), NEW s, s.timestamp \in Nat, NEW i \in DOMAIN events
  PROVE  Closest(s, i) <=> Best(s, events, i)
<1>1. PICK d : d = [j \in DOMAIN events |-> Distance(s, events[j])]
  OBVIOUS
<1>2. \A j \in DOMAIN events : d[j] = Distance(s, events[j]) /\ d[j] \in Nat /\ j \in Nat
  <2>1. ASSUME NEW j \in DOMAIN events
        PROVE  Distance(s, events[j]) \in Nat
    <3>1. PICK ev \in Parsed : ev = events[j]
      OBVIOUS
    <3>2. Distance(s, ev) \in Nat
      BY ParsedFacts, MatchesAre
    <3> QED BY <3>1, <3>2
  <2> QED BY <1>1, <2>1
<1>3. ASSUME NEW j \in DOMAIN events
      PROVE  (IF j < i THEN d[j] > d[i] ELSE d[j] >= d[i])
               <=> (d[i] < d[j] \/ (d[i] = d[j] /\ i <= j))
  BY <1>2
<1>4. ASSUME NEW j \in DOMAIN events
      PROVE  (IF j < i THEN Distance(s, events[j]) > Distance(s, events[i])
                       ELSE Distance(s, events[j]) >= Distance(s, events[i]))
               <=> \/ Distance(s, events[i]) < Distance(s, events[j])
                   \/ Distance(s, events[i]) = Distance(s, events[j]) /\ i <= j
  BY <1>2, <1>3
<1> QED BY <1>4 DEF Closest, Best

LEMMA BestIsOne ==
  ASSUME NEW evs \in Seq(Parsed), NEW s, s.timestamp \in Nat, NEW i, NEW j,
         Best(s, evs, i), Best(s, evs, j)
  PROVE  i = j
<1>1. i \in DOMAIN evs /\ j \in DOMAIN evs /\ i \in Nat /\ j \in Nat
  BY DEF Best
<1>2. PICK a \in Nat : a = Distance(s, evs[i])
  <2>1. PICK ev \in Parsed : ev = evs[i]
    BY <1>1
  <2> QED BY <2>1, ParsedFacts, MatchesAre
<1>3. PICK b \in Nat : b = Distance(s, evs[j])
  <2>1. PICK ev \in Parsed : ev = evs[j]
    BY <1>1
  <2> QED BY <2>1, ParsedFacts, MatchesAre
<1>4. (a < b \/ (a = b /\ i <= j)) /\ (b < a \/ (b = a /\ j <= i))
  BY <1>1, <1>2, <1>3 DEF Best
<1> QED BY <1>1, <1>4

LEMMA NothingMissing ==
  ASSUME NEW ev, NEW required
  PROVE  Missing(ev, required) = {} <=> required \subseteq Carried(ev)
BY DEF Missing, Carried

\* What Correlate finds, and when it is complete
LEMMA Correlated ==
  ASSUME events \in Seq(Parsed), NEW s, s.timestamp \in Nat, NEW m, m = Correlate(s, events)
  PROVE  /\ m # None <=> \E ev \in Entries(events) :
                           /\ ev.event_type = s.expected_event_type
                           /\ ev.timestamp \in s.timestamp - Skew .. s.timestamp + Window + Skew
                           /\ ObservationMatches(s.five_tuple, ev.five_tuple)
         /\ m # None => m \in Entries(events) /\ Matches(s, m) /\ m.timestamp \in Nat
         /\ (m # None /\ Missing(m, s.expected_fields) = {})
              <=> \E i \in DOMAIN events :
                    Closest(s, i) /\ s.expected_fields \subseteq Carried(events[i])
<1>1. m # None <=> \E i \in DOMAIN events : Matches(s, events[i])
  BY CorrelateIsBest
<1>2. m # None => \E i : Best(s, events, i) /\ m = events[i]
  BY <1>1, CorrelateIsBest
<1>3. \A i \in DOMAIN events : events[i] \in Parsed /\ events[i].timestamp \in Nat
  <2>1. \A i \in DOMAIN events : events[i] \in Parsed
    OBVIOUS
  <2> QED BY <2>1, ParsedFacts
<1>4. DOMAIN events = 1 .. Len(events)
  OBVIOUS
<1>5. ASSUME NEW i \in DOMAIN events, NEW ev, ev = events[i]
      PROVE  Matches(s, ev) <=>
               /\ ev.event_type = s.expected_event_type
               /\ ev.timestamp \in s.timestamp - Skew .. s.timestamp + Window + Skew
               /\ ObservationMatches(s.five_tuple, ev.five_tuple)
  BY <1>3, <1>5, MatchesAre
<1>6. m # None <=> \E ev \in Entries(events) :
                     /\ ev.event_type = s.expected_event_type
                     /\ ev.timestamp \in s.timestamp - Skew .. s.timestamp + Window + Skew
                     /\ ObservationMatches(s.five_tuple, ev.five_tuple)
  BY <1>1, <1>4, <1>5 DEF Entries
<1>7. m # None => m \in Entries(events) /\ Matches(s, m) /\ m.timestamp \in Nat
  BY <1>2, <1>3, <1>4 DEF Best, Entries
<1>8. ASSUME m # None, Missing(m, s.expected_fields) = {}
      PROVE  \E i \in DOMAIN events :
               Closest(s, i) /\ s.expected_fields \subseteq Carried(events[i])
  <2>1. PICK i : Best(s, events, i) /\ m = events[i]
    BY <1>2, <1>8
  <2>2. i \in DOMAIN events
    BY <2>1 DEF Best
  <2>3. Closest(s, i)
    BY <2>1, <2>2, ClosestIsBest
  <2>4. s.expected_fields \subseteq Carried(m)
    BY <1>8, NothingMissing
  <2> QED BY <2>1, <2>2, <2>3, <2>4
<1>9. ASSUME NEW i \in DOMAIN events, Closest(s, i), s.expected_fields \subseteq Carried(events[i])
      PROVE  m # None /\ Missing(m, s.expected_fields) = {}
  <2>1. Best(s, events, i)
    BY <1>9, ClosestIsBest
  <2>2. m # None
    BY <1>1, <2>1 DEF Best
  <2>3. PICK j : Best(s, events, j) /\ m = events[j]
    BY <1>2, <2>2
  <2>4. i = j
    BY <2>1, <2>3, BestIsOne
  <2> QED BY <1>9, <2>2, <2>3, <2>4, NothingMissing
<1> QED BY <1>6, <1>7, <1>8, <1>9

\* The table of verdicts, for any events of the collector
LEMMA TableHolds ==
  ASSUME clock \in 0 .. MaxTime, events \in Seq(Parsed)
  PROVE  VerdictTable
<1> SUFFICES ASSUME NEW s \in Stimuli
             PROVE  LET m == Correlate(s, events)
                        log == \E ev \in Entries(events) :
                          /\ ev.event_type = s.expected_event_type
                          /\ ev.timestamp \in s.timestamp - Skew .. s.timestamp + Window + Skew
                          /\ ObservationMatches(s.five_tuple, ev.five_tuple)
                        complete == \E i \in DOMAIN events :
                          Closest(s, i) /\ s.expected_fields \subseteq Carried(events[i])
                        verdict(truth, strict) ==
                          VerdictOn(s, m, SawGroundTruth(s, truth), strict)
                    IN  /\ (verdict(None, FALSE).fields_complete = "YES") = complete
                        /\ \A truth \in Truths, strict \in BOOLEAN :
                             LET v == verdict(truth, strict)
                                 present == \E t \in truth : ObservationMatches(s.five_tuple, t)
                             IN  IF truth = None
                                   THEN /\ v.logged = (IF log THEN "YES" ELSE "NO")
                                        /\ v.detected = (IF log /\ ~strict THEN "YES" ELSE "INCONCLUSIVE")
                                   ELSE /\ v.detected = (IF present THEN "YES" ELSE "INCONCLUSIVE")
                                        /\ v.logged = (IF log THEN "YES"
                                                       ELSE IF present THEN "NO" ELSE "INCONCLUSIVE")
  BY DEF VerdictTable
<1> DEFINE m == Correlate(s, events)
           log == \E ev \in Entries(events) :
                    /\ ev.event_type = s.expected_event_type
                    /\ ev.timestamp \in s.timestamp - Skew .. s.timestamp + Window + Skew
                    /\ ObservationMatches(s.five_tuple, ev.five_tuple)
           complete == \E i \in DOMAIN events :
                         Closest(s, i) /\ s.expected_fields \subseteq Carried(events[i])
<1>1. s.timestamp \in Nat
  BY StimulusFacts
<1>2. /\ m # None <=> log
      /\ (m # None /\ Missing(m, s.expected_fields) = {}) <=> complete
  BY <1>1, Correlated
<1>3. log \in BOOLEAN /\ complete \in BOOLEAN
  OBVIOUS
<1> HIDE DEF m, log, complete
<1>4. ASSUME NEW gt, NEW strict
      PROVE  LET v == VerdictOn(s, m, gt, strict)
             IN  /\ v.detected = Detected(gt, m, strict) /\ v.logged = Logged(gt, m)
                 /\ v.fields_complete = IF m = None THEN "INCONCLUSIVE"
                                        ELSE IF Missing(m, s.expected_fields) = {} THEN "YES" ELSE "NO"
  BY DEF VerdictOn
<1>5. (VerdictOn(s, m, SawGroundTruth(s, None), FALSE).fields_complete = "YES") = complete
  BY <1>2, <1>3, <1>4
<1>6. ASSUME NEW truth, NEW strict \in BOOLEAN
      PROVE  LET v == VerdictOn(s, m, SawGroundTruth(s, truth), strict)
                 present == \E t \in truth : ObservationMatches(s.five_tuple, t)
             IN  IF truth = None
                   THEN /\ v.logged = (IF log THEN "YES" ELSE "NO")
                        /\ v.detected = (IF log /\ ~strict THEN "YES" ELSE "INCONCLUSIVE")
                   ELSE /\ v.detected = (IF present THEN "YES" ELSE "INCONCLUSIVE")
                        /\ v.logged = (IF log THEN "YES"
                                       ELSE IF present THEN "NO" ELSE "INCONCLUSIVE")
  <2>1. PICK gt : gt = SawGroundTruth(s, truth)
    OBVIOUS
  <2>2. CASE truth = None
    <3>1. gt = "unknown"
      BY <2>1, <2>2 DEF SawGroundTruth
    <3>2. /\ Logged(gt, m) = (IF log THEN "YES" ELSE "NO")
          /\ Detected(gt, m, strict) = (IF log /\ ~strict THEN "YES" ELSE "INCONCLUSIVE")
      BY <1>2, <1>3, <3>1 DEF Logged, Detected
    <3> QED BY <1>4, <2>1, <2>2, <3>2
  <2>3. CASE truth # None
    <3>1. gt = IF \E t \in truth : ObservationMatches(s.five_tuple, t) THEN "seen" ELSE "unseen"
      BY <2>1, <2>3 DEF SawGroundTruth
    <3>2. PICK present : present = (\E t \in truth : ObservationMatches(s.five_tuple, t))
      OBVIOUS
    <3>3. gt = IF present THEN "seen" ELSE "unseen"
      BY <3>1, <3>2
    <3>4. /\ Detected(gt, m, strict) = (IF present THEN "YES" ELSE "INCONCLUSIVE")
          /\ Logged(gt, m) = (IF log THEN "YES" ELSE IF present THEN "NO" ELSE "INCONCLUSIVE")
      BY <1>2, <1>3, <3>2, <3>3 DEF Logged, Detected
    <3> QED BY <1>4, <2>1, <2>3, <3>2, <3>4
  <2> QED BY <2>2, <2>3
<1> QED BY <1>5, <1>6 DEF m, log, complete

----------------------------------------------------------------------------
(* A suite that passes                                                      *)

\* Evidence that tshark reads from a packet agrees with the packet's own headers.
LEMMA TsharkReadsOwnHeaders ==
  ASSUME NEW c \in Captures, NEW p \in c, p.ip # None,
         NEW t, t = [f \in TupleFields |-> t[f]],
         ObservationMatches(t, WithTshark(p))
  PROVE  OwnHeadersMatch(t, p)
<1>1. /\ None \notin {p.ip.src, p.ip.dst, p.ip.proto}
      /\ p.ip.proto \notin {"tcp", "udp"}
      /\ \A header \in {p.tcp, p.udp} \ {None} : None \notin {header.src, header.dst}
  BY DetectionAssumption
<1>2. PICK proto : proto = p.ip.proto
  OBVIOUS
<1>3. PICK ports : ports = CASE proto = "6" -> PortsOf(p.tcp)
                             [] proto = "17" -> PortsOf(p.udp)
                             [] OTHER -> NoPorts
  OBVIOUS
<1>4. PICK name : name = ProtoNum(proto)
  OBVIOUS
<1>5. PICK o : o = [src_ip |-> p.ip.src, dst_ip |-> p.ip.dst, protocol |-> name,
                    src_port |-> ports.src, dst_port |-> ports.dst]
  OBVIOUS
<1>6. WithTshark(p) = o
  BY <1>2, <1>3, <1>4, <1>5 DEF WithTshark, Tuple
<1>7. FiveTupleMatches(t, o)
  BY <1>6 DEF ObservationMatches
<1>8. name # None /\ name \notin {"tcp", "udp"} /\ proto # None
  BY <1>1, <1>2, <1>4, CorrelatorAssumption DEF ProtoNum
<1>9. Upper(name) = name
  BY <1>8 DEF Upper
<1>10. t.protocol # None => Upper(t.protocol) # None
  BY CorrelatorAssumption DEF Upper
<1>11. /\ Normalized(t).src_ip = t.src_ip /\ Normalized(t).dst_ip = t.dst_ip
       /\ Normalized(t).src_port = t.src_port /\ Normalized(t).dst_port = t.dst_port
       /\ Normalized(t).protocol = Upper(t.protocol)
  BY DEF Normalized, TupleFields
<1>12. /\ Normalized(o).src_ip = p.ip.src /\ Normalized(o).dst_ip = p.ip.dst
       /\ Normalized(o).src_port = ports.src /\ Normalized(o).dst_port = ports.dst
       /\ Normalized(o).protocol = name
  BY <1>5, <1>9 DEF Normalized
<1>13. /\ ValueCompatible(t.src_ip, p.ip.src) /\ ValueCompatible(t.dst_ip, p.ip.dst)
       /\ ValueCompatible(t.src_port, ports.src) /\ ValueCompatible(t.dst_port, ports.dst)
       /\ ValueCompatible(Upper(t.protocol), name)
  BY <1>7, <1>11, <1>12 DEF FiveTupleMatches, TupleFields
<1>14. /\ t.src_ip \in {None, p.ip.src} /\ t.dst_ip \in {None, p.ip.dst}
       /\ t.protocol # None => Upper(t.protocol) = name
  BY <1>1, <1>8, <1>10, <1>13 DEF ValueCompatible
<1>15. PICK own : own = CASE proto = "6" -> p.tcp [] proto = "17" -> p.udp [] OTHER -> None
  OBVIOUS
<1>16. ASSUME own # None
       PROVE  t.src_port \in {None, own.src} /\ t.dst_port \in {None, own.dst}
  <2>1. own \in {p.tcp, p.udp} \ {None}
    BY <1>15, <1>16
  <2>2. own.src # None /\ own.dst # None
    BY <1>1, <2>1
  <2>3. ports = own
    BY <1>3, <1>15, <1>16 DEF PortsOf
  <2> QED BY <1>13, <2>2, <2>3 DEF ValueCompatible
<1> QED BY <1>2, <1>4, <1>14, <1>15, <1>16 DEF OwnHeadersMatch

\* What a suite that passes has, for any events of the collector
LEMMA PassingHolds ==
  ASSUME clock \in 0 .. MaxTime, events \in Seq(Parsed)
  PROVE  PassIsJustified
<1> SUFFICES ASSUME NEW time \in 0 .. clock, NEW strict \in BOOLEAN, NEW seen \in Observations,
                    MatrixPassed(Matrix({s \in Stimuli : s.timestamp = time}, events,
                                        seen.truth, strict))
             PROVE  /\ strict => seen.capture # None
                    /\ \A s \in {s \in Stimuli : s.timestamp = time} : \E ev \in Entries(events) :
                         /\ ev.event_type = s.expected_event_type
                         /\ ev.timestamp \in time - Skew .. time + Window + Skew
                         /\ {ev.five_tuple.src_ip, ev.five_tuple.dst_ip} # {None}
                         /\ s.expected_fields \subseteq Carried(ev)
                    /\ seen.reader = "tshark" =>
                         \A s \in {s \in Stimuli : s.timestamp = time} : \E p \in seen.capture :
                           p.ip # None /\ OwnHeadersMatch(s.five_tuple, p)
  BY DEF PassIsJustified
<1>1. PICK suite : suite = {s \in Stimuli : s.timestamp = time}
  OBVIOUS
<1>2. \A s \in suite : s \in Stimuli /\ s.timestamp = time /\ s.timestamp \in Nat
  BY <1>1, StimulusFacts
<1>3. suite # {}
  BY <1>1 DEF MatrixPassed, Matrix
<1>4. ASSUME NEW s \in suite
      PROVE  Passed(Evaluate(s, events, seen.truth, strict))
  BY <1>1 DEF MatrixPassed, Matrix
<1>5. ASSUME NEW s \in suite
      PROVE  /\ \E ev \in Entries(events) :
                  /\ ev.event_type = s.expected_event_type
                  /\ ev.timestamp \in time - Skew .. time + Window + Skew
                  /\ {ev.five_tuple.src_ip, ev.five_tuple.dst_ip} # {None}
                  /\ s.expected_fields \subseteq Carried(ev)
             /\ strict => SawGroundTruth(s, seen.truth) = "seen"
             /\ SawGroundTruth(s, seen.truth) \in {"seen", "unknown"}
  <2>1. PICK m : m = Correlate(s, events)
    OBVIOUS
  <2>2. PICK gt : gt = SawGroundTruth(s, seen.truth)
    OBVIOUS
  <2>3. PICK v : v = VerdictOn(s, m, gt, strict)
    OBVIOUS
  <2>4. /\ v.detected = Detected(gt, m, strict) /\ v.logged = Logged(gt, m)
        /\ v.fields_complete = IF m = None THEN "INCONCLUSIVE"
                               ELSE IF Missing(m, s.expected_fields) = {} THEN "YES" ELSE "NO"
    BY <2>3 DEF VerdictOn
  <2>5. v.detected = "YES" /\ v.logged = "YES" /\ v.fields_complete = "YES"
    BY <1>4, <2>1, <2>2, <2>3 DEF Evaluate, Passed
  <2>6. m # None /\ Missing(m, s.expected_fields) = {}
    BY <2>4, <2>5
  <2>7. (strict => gt = "seen") /\ gt \in {"seen", "unknown"}
    BY <2>4, <2>5 DEF Detected
  <2>8. m \in Entries(events) /\ Matches(s, m) /\ m.timestamp \in Nat
    BY <1>2, <2>1, <2>6, Correlated
  <2>9. /\ m.event_type = s.expected_event_type
        /\ m.timestamp \in time - Skew .. time + Window + Skew
        /\ ObservationMatches(s.five_tuple, m.five_tuple)
    BY <1>2, <2>8, MatchesAre
  <2>10. {m.five_tuple.src_ip, m.five_tuple.dst_ip} # {None}
    BY <2>9 DEF ObservationMatches
  <2>11. s.expected_fields \subseteq Carried(m)
    BY <2>6, NothingMissing
  <2> QED BY <2>2, <2>7, <2>8, <2>9, <2>10, <2>11
<1>6. \/ /\ seen.capture \in Captures /\ seen.reader \in Readers
         /\ seen.truth = ExtractFiveTuples(seen.capture, seen.reader)
      \/ seen.capture = None /\ seen.reader = None /\ seen.truth = None
  BY DEF Observations
<1>7. strict => seen.capture # None
  <2> SUFFICES ASSUME strict, seen.capture = None
               PROVE  FALSE
    OBVIOUS
  <2>1. seen.truth = None
    BY <1>6, DetectionAssumption
  <2>2. PICK s : s \in suite
    BY <1>3
  <2>3. SawGroundTruth(s, seen.truth) = "unknown"
    BY <2>1 DEF SawGroundTruth
  <2> QED BY <1>5, <2>2, <2>3
<1>8. ASSUME seen.reader = "tshark", NEW s \in suite
      PROVE  \E p \in seen.capture : p.ip # None /\ OwnHeadersMatch(s.five_tuple, p)
  <2>1. seen.capture \in Captures /\ seen.truth = ExtractFiveTuples(seen.capture, "tshark")
    BY <1>6, <1>8, DetectionAssumption DEF Readers
  <2>2. seen.truth # None
    BY <2>1, DetectionAssumption DEF Readers
  <2>3. PICK o \in seen.truth : ObservationMatches(s.five_tuple, o)
    BY <1>5, <2>2 DEF SawGroundTruth
  <2>4. PICK p \in seen.capture : p.ip # None /\ o = WithTshark(p)
    BY <2>1, <2>3 DEF ExtractFiveTuples
  <2>5. s.five_tuple = [f \in TupleFields |-> s.five_tuple[f]]
    BY <1>2, StimulusFacts
  <2>6. PICK t : t = s.five_tuple
    OBVIOUS
  <2>7. PICK c \in Captures : c = seen.capture
    BY <2>1
  <2>8. t = [f \in TupleFields |-> t[f]]
    BY <2>5, <2>6
  <2>9. OwnHeadersMatch(t, p)
    BY <2>3, <2>4, <2>6, <2>7, <2>8, TsharkReadsOwnHeaders
  <2> QED BY <2>4, <2>6, <2>9
<1>9. \A s \in suite : \E ev \in Entries(events) :
        /\ ev.event_type = s.expected_event_type
        /\ ev.timestamp \in time - Skew .. time + Window + Skew
        /\ {ev.five_tuple.src_ip, ev.five_tuple.dst_ip} # {None}
        /\ s.expected_fields \subseteq Carried(ev)
  BY <1>5
<1> QED BY <1>1, <1>7, <1>8, <1>9

----------------------------------------------------------------------------
(* The inductive invariant                                                  *)

Piece == [part : {"head", "tail"}, line : Lines]

\* A text in which every line of those in `log' is a head and a tail, and which
\* may end between them.
IsStream(text, log) ==
  /\ text \in Seq(Piece)
  /\ \A k \in 0 .. Len(text) :
       /\ 2 * k + 1 <= Len(text) =>
            text[2 * k + 1].part = "head" /\ text[2 * k + 1].line \in log
       /\ 2 * k + 2 <= Len(text) =>
            text[2 * k + 2].part = "tail" /\ text[2 * k + 2].line = text[2 * k + 1].line

\* What the server of the connection has not made into lines yet
Stream == IF server = 0 THEN inbox ELSE buf[server] \o inbox

ControlType ==
  /\ clock \in 0 .. MaxTime
  /\ protocol \in Protocols
  /\ sock \in {0, starts}
  /\ starts \in 0 .. MaxStarts
  /\ flag \in BOOLEAN /\ stopping \in BOOLEAN /\ late \in BOOLEAN
  /\ pc \in [Threads -> {"none", "loop", "receive", "conn", "chunk", "ingest", "over"}]
  /\ on \in [Threads -> 0 .. MaxStarts]
  /\ link \in {"none", "open", "closed"}
  /\ server \in 0 .. MaxStarts

StoreType ==
  /\ events \in Seq(Parsed) /\ Len(events) <= MaxEvents
  /\ dropped \in Nat
  /\ received \subseteq Parsed
  /\ logged \in Seq(Lines) /\ Len(logged) <= MaxLogged

\* The buffer has what was received and not evicted, of lines that were logged.
StoreInv ==
  /\ Entries(events) \subseteq received
  /\ dropped = 0 => received \subseteq Entries(events)
  /\ \A ev \in received : ev.raw \in Entries(logged)

\* A thread that is not over is that of the open socket, if no join timed out;
\* and one that serves the connection is its server.
ThreadInv ==
  /\ ~late => \A t \in Threads : pc[t] \notin {"none", "over"} => t = starts /\ sock = starts
  /\ \A t \in Threads : pc[t] \in {"conn", "chunk"} => server = t

\* What waits to be ingested was logged.
TodoInv ==
  \A t \in Threads :
    /\ todo[t] \in Seq(Entries(logged))
    /\ pc[t] = "ingest" => todo[t] # <<>>

\* So was what is on its way, and a stream that is open is cut between lines.
NetInv ==
  /\ buf \in [Threads -> Seq(Piece)]
  /\ todo \in [Threads -> Seq(Lines)]
  /\ link = "none" => server = 0
  /\ protocol = "udp" => link = "none" /\ inbox \in Seq(Entries(logged))
  /\ protocol = "tcp" =>
       /\ IsStream(Stream, Entries(logged))
       /\ inbox \in Seq(Piece)
       /\ link = "none" => inbox = <<>>
       /\ link = "open" => \E k \in 0 .. Len(Stream) : Len(Stream) = 2 * k

IInv == ControlType /\ StoreType /\ StoreInv /\ ThreadInv /\ TodoInv /\ NetInv

----------------------------------------------------------------------------
(* Streams                                                                  *)

\* A place in a text is odd or even.
LEMMA Halves ==
  ASSUME NEW n \in Nat
  PROVE  \E k \in Nat : 2 * k <= n /\ n <= 2 * k + 1
<1>1. PICK J : J = {j \in Nat : n <= 2 * j + 1}
  OBVIOUS
<1>2. n \in J /\ J \in SUBSET Nat
  BY <1>1
<1>3. PICK k \in J : \A j \in J : k <= j
  BY <1>2, Least
<1>4. k \in Nat /\ n <= 2 * k + 1
  BY <1>1
<1>5. CASE k = 0
  BY <1>4, <1>5
<1>6. CASE k # 0
  <2>1. k - 1 \in Nat
    BY <1>4, <1>6
  <2>2. ~(n <= 2 * (k - 1) + 1)
    BY <1>1, <1>3, <1>4, <2>1
  <2> QED BY <1>4, <2>2
<1> QED BY <1>5, <1>6

\* Every piece of a stream is a head, or the tail of the head before it.
LEMMA StreamPieces ==
  ASSUME NEW text, NEW log, IsStream(text, log), NEW i \in 1 .. Len(text)
  PROVE  \E k \in Nat :
           \/ i = 2 * k + 1 /\ text[i].part = "head" /\ text[i].line \in log
           \/ i = 2 * k + 2 /\ text[i].part = "tail" /\ text[i].line = text[2 * k + 1].line
<1>0. Len(text) \in Nat /\ i \in Nat /\ i - 1 \in Nat
  BY DEF IsStream
<1>1. PICK k \in Nat : 2 * k <= i - 1 /\ i - 1 <= 2 * k + 1
  BY <1>0, Halves
<1>2. k \in 0 .. Len(text)
  BY <1>0, <1>1
<1>3. CASE i = 2 * k + 1
  BY <1>0, <1>2, <1>3 DEF IsStream
<1>4. CASE i = 2 * k + 2
  BY <1>0, <1>2, <1>4 DEF IsStream
<1> QED BY <1>0, <1>1, <1>3, <1>4

\* What a stream says of each line
LEMMA StreamLine ==
  ASSUME NEW text, NEW log, IsStream(text, log), NEW k \in Nat
  PROVE  /\ 2 * k + 1 <= Len(text) =>
              text[2 * k + 1].part = "head" /\ text[2 * k + 1].line \in log
         /\ 2 * k + 2 <= Len(text) =>
              text[2 * k + 2].part = "tail" /\ text[2 * k + 2].line = text[2 * k + 1].line
<1>1. Len(text) \in Nat
  BY DEF IsStream
<1>2. CASE k \in 0 .. Len(text)
  BY <1>2 DEF IsStream
<1>3. CASE k \notin 0 .. Len(text)
  BY <1>1, <1>3
<1> QED BY <1>2, <1>3

\* To show that a text is a stream, places need no bound.
LEMMA StreamIntro ==
  ASSUME NEW text \in Seq(Piece), NEW log,
         \A k \in Nat :
           /\ 2 * k + 1 <= Len(text) =>
                text[2 * k + 1].part = "head" /\ text[2 * k + 1].line \in log
           /\ 2 * k + 2 <= Len(text) =>
                text[2 * k + 2].part = "tail" /\ text[2 * k + 2].line = text[2 * k + 1].line
  PROVE  IsStream(text, log)
<1>1. \A k \in 0 .. Len(text) : k \in Nat
  OBVIOUS
<1> QED BY <1>1 DEF IsStream

LEMMA StreamGrows ==
  ASSUME NEW text, NEW log, NEW more, IsStream(text, log), log \subseteq more
  PROVE  IsStream(text, more)
BY DEF IsStream

LEMMA StreamPrefix ==
  ASSUME NEW text, NEW log, IsStream(text, log), NEW n \in 0 .. Len(text)
  PROVE  IsStream(SubSeq(text, 1, n), log)
<1>1. text \in Seq(Piece) /\ Len(text) \in Nat
  BY DEF IsStream
<1>2. PICK pre : pre = SubSeq(text, 1, n)
  OBVIOUS
<1>3. pre \in Seq(Piece) /\ Len(pre) = n /\ \A i \in 1 .. n : pre[i] = text[i]
  BY <1>1, <1>2
<1>4. ASSUME NEW k \in Nat
      PROVE  /\ 2 * k + 1 <= Len(pre) =>
                  pre[2 * k + 1].part = "head" /\ pre[2 * k + 1].line \in log
             /\ 2 * k + 2 <= Len(pre) =>
                  pre[2 * k + 2].part = "tail" /\ pre[2 * k + 2].line = pre[2 * k + 1].line
  <2>1. /\ 2 * k + 1 <= Len(text) =>
             text[2 * k + 1].part = "head" /\ text[2 * k + 1].line \in log
        /\ 2 * k + 2 <= Len(text) =>
             text[2 * k + 2].part = "tail" /\ text[2 * k + 2].line = text[2 * k + 1].line
    BY StreamLine
  <2>2. 2 * k + 1 <= n => pre[2 * k + 1] = text[2 * k + 1]
    BY <1>3
  <2>3. 2 * k + 2 <= n => pre[2 * k + 2] = text[2 * k + 2] /\ pre[2 * k + 1] = text[2 * k + 1]
    BY <1>3
  <2> QED BY <1>1, <1>3, <2>1, <2>2, <2>3
<1>5. IsStream(pre, log)
  BY <1>3, <1>4, StreamIntro
<1> QED BY <1>2, <1>5

\* Behind some lines a stream goes on.
LEMMA StreamRest ==
  ASSUME NEW text, NEW log, IsStream(text, log), NEW m \in Nat, 2 * m <= Len(text)
  PROVE  IsStream(SubSeq(text, 2 * m + 1, Len(text)), log)
<1>1. text \in Seq(Piece) /\ Len(text) \in Nat
  BY DEF IsStream
<1>2. PICK rest : rest = SubSeq(text, 2 * m + 1, Len(text))
  OBVIOUS
<1>3. /\ rest \in Seq(Piece) /\ Len(rest) = Len(text) - 2 * m
      /\ \A i \in Nat : 1 <= i /\ i <= Len(rest) => rest[i] = text[2 * m + i]
  <2>1. PICK a \in Int : a = 2 * m + 1
    OBVIOUS
  <2>2. PICK n \in Int : n = Len(text)
    BY <1>1
  <2>3. \A i \in a .. n : text[i] \in Piece
    BY <1>1, <2>1, <2>2
  <2>4. /\ SubSeq(text, a, n) \in Seq(Piece)
        /\ Len(SubSeq(text, a, n)) = IF a <= n THEN n - a + 1 ELSE 0
        /\ \A i \in 1 .. n - a + 1 : SubSeq(text, a, n)[i] = text[a + i - 1]
    BY <2>3, SubSeqProperties
  <2>5. rest = SubSeq(text, a, n)
    BY <1>2, <2>1, <2>2
  <2>6. Len(rest) = n - a + 1
    <3>1. 2 * m <= n
      BY <2>2
    <3>2. a <= n + 1
      BY <2>1, <3>1
    <3> QED BY <2>4, <2>5, <3>2
  <2>7. ASSUME NEW i \in Nat, 1 <= i, i <= Len(rest)
        PROVE  rest[i] = text[2 * m + i]
    <3>1. a + i - 1 = 2 * m + i
      BY <2>1
    <3>2. i \in 1 .. n - a + 1
      BY <2>6, <2>7
    <3> QED BY <2>4, <2>5, <3>1, <3>2
  <2>8. Len(rest) = Len(text) - 2 * m
    BY <2>1, <2>2, <2>6
  <2>9. rest \in Seq(Piece)
    BY <2>4, <2>5
  <2> QED BY <2>7, <2>8, <2>9
<1>4. ASSUME NEW k \in Nat
      PROVE  /\ 2 * k + 1 <= Len(rest) =>
                  rest[2 * k + 1].part = "head" /\ rest[2 * k + 1].line \in log
             /\ 2 * k + 2 <= Len(rest) =>
                  rest[2 * k + 2].part = "tail" /\ rest[2 * k + 2].line = rest[2 * k + 1].line
  <2>1. PICK l \in Nat : l = k + m
    OBVIOUS
  <2>2. /\ 2 * l + 1 <= Len(text) =>
             text[2 * l + 1].part = "head" /\ text[2 * l + 1].line \in log
        /\ 2 * l + 2 <= Len(text) =>
             text[2 * l + 2].part = "tail" /\ text[2 * l + 2].line = text[2 * l + 1].line
    BY StreamLine
  <2>3. 2 * k + 1 <= Len(rest) => rest[2 * k + 1] = text[2 * l + 1]
    <3>1. PICK i \in Nat : i = 2 * k + 1
      OBVIOUS
    <3>2. 2 * m + i = 2 * l + 1 /\ 1 <= i
      BY <2>1, <3>1
    <3>3. i <= Len(rest) => rest[i] = text[2 * l + 1]
      BY <1>3, <3>2
    <3> QED BY <3>1, <3>3
  <2>4. 2 * k + 2 <= Len(rest) =>
          rest[2 * k + 2] = text[2 * l + 2] /\ rest[2 * k + 1] = text[2 * l + 1]
    <3>1. PICK i \in Nat : i = 2 * k + 2
      OBVIOUS
    <3>2. 2 * m + i = 2 * l + 2 /\ 1 <= i
      BY <2>1, <3>1
    <3>3. i <= Len(rest) => rest[i] = text[2 * l + 2]
      BY <1>3, <3>2
    <3>4. 2 * k + 2 <= Len(rest) => 2 * k + 1 <= Len(rest)
      BY <1>1, <1>3
    <3> QED BY <2>3, <3>1, <3>3, <3>4
  <2>5. /\ 2 * k + 1 <= Len(rest) => 2 * l + 1 <= Len(text)
        /\ 2 * k + 2 <= Len(rest) => 2 * l + 2 <= Len(text)
    BY <1>1, <1>3, <2>1
  <2> QED BY <2>2, <2>3, <2>4, <2>5
<1>5. IsStream(rest, log)
  BY <1>3, <1>4, StreamIntro
<1> QED BY <1>2, <1>5

\* A line may follow where the stream is cut between lines.
LEMMA StreamLogs ==
  ASSUME NEW text, NEW log, IsStream(text, log), NEW m \in Nat, Len(text) = 2 * m,
         NEW line \in Lines, line \in log
  PROVE  /\ IsStream(text \o Pieces(line), log)
         /\ Len(text \o Pieces(line)) = 2 * (m + 1)
<1>1. text \in Seq(Piece) /\ Len(text) \in Nat
  BY DEF IsStream
<1>2. PICK head \in Piece : head = [part |-> "head", line |-> line]
  BY DEF Piece
<1>3. PICK tail \in Piece : tail = [part |-> "tail", line |-> line]
  BY DEF Piece
<1>4. PICK more, two : more = text \o two /\ two = <<head, tail>>
  OBVIOUS
<1>5. /\ more \in Seq(Piece) /\ Len(more) = Len(text) + 2
      /\ \A i \in 1 .. Len(text) : more[i] = text[i]
      /\ more[Len(text) + 1] = head /\ more[Len(text) + 2] = tail
  <2>1. two \in Seq(Piece) /\ Len(two) = 2 /\ two[1] = head /\ two[2] = tail
    BY <1>4
  <2>2. /\ more \in Seq(Piece) /\ Len(more) = Len(text) + Len(two)
        /\ \A i \in 1 .. Len(text) + Len(two) :
             more[i] = IF i <= Len(text) THEN text[i] ELSE two[i - Len(text)]
    BY <1>1, <1>4, <2>1, ConcatProperties
  <2> QED BY <1>1, <2>1, <2>2
<1>6. ASSUME NEW k \in Nat
      PROVE  /\ 2 * k + 1 <= Len(more) =>
                  more[2 * k + 1].part = "head" /\ more[2 * k + 1].line \in log
             /\ 2 * k + 2 <= Len(more) =>
                  more[2 * k + 2].part = "tail" /\ more[2 * k + 2].line = more[2 * k + 1].line
  <2>1. CASE k < m
    <3>1. /\ 2 * k + 2 <= Len(text)
          /\ more[2 * k + 1] = text[2 * k + 1] /\ more[2 * k + 2] = text[2 * k + 2]
      BY <1>1, <1>5, <2>1
    <3>2. /\ text[2 * k + 1].part = "head" /\ text[2 * k + 1].line \in log
          /\ text[2 * k + 2].part = "tail" /\ text[2 * k + 2].line = text[2 * k + 1].line
      BY <1>1, <3>1, StreamLine
    <3> QED BY <3>1, <3>2
  <2>2. CASE k = m
    <3>1. more[2 * k + 1] = head /\ more[2 * k + 2] = tail
      BY <1>5, <2>2
    <3> QED BY <1>2, <1>3, <3>1
  <2>3. CASE k > m
    BY <1>1, <1>5, <2>3
  <2> QED BY <2>1, <2>2, <2>3
<1>7. IsStream(more, log)
  BY <1>5, <1>6, StreamIntro
<1>8. text \o Pieces(line) = more
  BY <1>2, <1>3, <1>4 DEF Pieces
<1> QED BY <1>5, <1>7, <1>8

----------------------------------------------------------------------------
(* What SplitLines makes of a stream                                        *)

Evens(n) == {2 * m : m \in 1 .. n}

LEMMA EvensAre ==
  ASSUME NEW n \in Nat
  PROVE  IsFiniteSet(Evens(n)) /\ Cardinality(Evens(n)) = n
<1>1. PICK f : f = [m \in 1 .. n |-> 2 * m]
  OBVIOUS
<1>2. PICK T : T = Evens(n)
  OBVIOUS
<1>3. f \in [1 .. n -> T]
  BY <1>1, <1>2 DEF Evens
<1>4. \A a, b \in 1 .. n : f[a] = f[b] => a = b
  BY <1>1
<1>5. \A x \in T : \E m \in 1 .. n : f[m] = x
  BY <1>1, <1>2 DEF Evens
<1>6. f \in Bijection(1 .. n, T)
  BY <1>3, <1>4, <1>5 DEF Bijection, Injection, Surjection, IsInjective
<1>7. ExistsBijection(1 .. n, T)
  BY <1>6 DEF ExistsBijection
<1>8. IsFiniteSet(1 .. n) /\ Cardinality(1 .. n) = n
  <2>1. n \in Int /\ 1 \in Int
    OBVIOUS
  <2>2. IsFiniteSet(1 .. n) /\ Cardinality(1 .. n) = IF 1 > n THEN 0 ELSE n - 1 + 1
    BY <2>1, FS_Interval, Zenon
  <2> QED BY <2>2
<1>9. IsFiniteSet(T) /\ Cardinality(T) = Cardinality(1 .. n)
  BY <1>7, <1>8, FS_Bijection
<1> QED BY <1>2, <1>8, <1>9

\* The places where a line ends
Ends(text) == {i \in DOMAIN text : text[i].part = "tail"}

\* The lines end at the even places.
LEMMA EndsAreEven ==
  ASSUME NEW text, NEW log, IsStream(text, log), NEW k \in Nat,
         2 * k <= Len(text), Len(text) <= 2 * k + 1
  PROVE  /\ Ends(text) = Evens(k)
         /\ \A n \in 1 .. k : {j \in Ends(text) : j <= 2 * n} = Evens(n)
<1>0. PICK ends : ends = Ends(text) /\ ends = {i \in DOMAIN text : text[i].part = "tail"}
  BY DEF Ends
<1>1. DOMAIN text = 1 .. Len(text) /\ Len(text) \in Nat
  BY DEF IsStream
<1>2. ASSUME NEW i \in ends
      PROVE  i \in Evens(k)
  <2>1. i \in 1 .. Len(text) /\ text[i].part = "tail"
    BY <1>0, <1>1
  <2>2. PICK m \in Nat : i = 2 * m + 2
    BY <2>1, StreamPieces
  <2>3. m + 1 \in 1 .. k /\ i = 2 * (m + 1)
    BY <1>1, <2>1, <2>2
  <2> QED BY <2>3 DEF Evens
<1>3. ASSUME NEW i \in Evens(k)
      PROVE  i \in ends
  <2>1. PICK m \in 1 .. k : i = 2 * m
    BY DEF Evens
  <2>2. PICK l \in Nat : l = m - 1
    OBVIOUS
  <2>3. 2 * l + 2 = i /\ i \in 1 .. Len(text)
    BY <1>1, <2>1, <2>2
  <2>4. 2 * l + 2 <= Len(text) => text[2 * l + 2].part = "tail"
    BY StreamLine
  <2>5. text[i].part = "tail"
    BY <1>1, <2>3, <2>4
  <2> QED BY <1>0, <1>1, <2>3, <2>5
<1>4. ends = Evens(k)
  BY <1>2, <1>3
<1>5. ASSUME NEW n \in 1 .. k
      PROVE  {j \in ends : j <= 2 * n} = Evens(n)
  BY <1>4 DEF Evens
<1> QED BY <1>0, <1>4, <1>5

EndOf(text, n) == CHOOSE i \in Ends(text) : Cardinality({j \in Ends(text) : j <= i}) = n

\* The n-th end is at 2n.
LEMMA EndIs ==
  ASSUME NEW text, NEW log, IsStream(text, log), NEW k \in Nat,
         2 * k <= Len(text), Len(text) <= 2 * k + 1, NEW n \in 1 .. k
  PROVE  EndOf(text, n) = 2 * n
<1>0. PICK ends : ends = Ends(text)
  OBVIOUS
<1>6. ends = Evens(k) /\ \A m \in 1 .. k : {j \in ends : j <= 2 * m} = Evens(m)
  BY <1>0, EndsAreEven
<1>1. \A m \in 1 .. k : 2 * m \in ends
  BY <1>6 DEF Evens
<1>2. \A i \in ends : \E m \in 1 .. k : i = 2 * m
  BY <1>6 DEF Evens
<1>3. ASSUME NEW m \in 1 .. k
      PROVE  Cardinality({j \in ends : j <= 2 * m}) = m
  <2>1. m \in Nat
    OBVIOUS
  <2> QED BY <1>6, <2>1, EvensAre
<1>4. ASSUME NEW i \in ends, Cardinality({j \in ends : j <= i}) = n
      PROVE  i = 2 * n
  <2>1. PICK m \in 1 .. k : i = 2 * m
    BY <1>2
  <2>2. m = n
    BY <1>3, <1>4, <2>1
  <2> QED BY <2>1, <2>2
<1>5. 2 * n \in ends /\ Cardinality({j \in ends : j <= 2 * n}) = n
  BY <1>1, <1>3
<1> QED BY <1>0, <1>4, <1>5 DEF EndOf

LEMMA Assembled ==
  ASSUME NEW line \in Lines, NEW pieces, Len(pieces) = 2,
         pieces[1].part = "head", pieces[1].line = line, pieces[2].line = line
  PROVE  Assemble(pieces) = line
<1>1. PICK f, g, h, m : line = [form |-> f, tag |-> g, sd |-> h, msg |-> m]
  BY CollectorAssumption
<1>2. Assemble(pieces) = [line EXCEPT !.form = line.form, !.tag = line.tag]
  BY DEF Assemble, Last
<1> QED BY <1>1, <1>2

\* A chunk ends a number of lines that were logged, and leaves at most a head.
LEMMA StreamSplits ==
  ASSUME NEW text, NEW log, IsStream(text, log), log \subseteq Lines
  PROVE  \E k \in Nat :
           /\ 2 * k <= Len(text) /\ Len(text) <= 2 * k + 1
           /\ SplitLines(text).lines \in Seq(log)
           /\ SplitLines(text).rest = SubSeq(text, 2 * k + 1, Len(text))
<1>1. text \in Seq(Piece) /\ Len(text) \in Nat
  BY DEF IsStream
<1>2. PICK k \in Nat : 2 * k <= Len(text) /\ Len(text) <= 2 * k + 1
  BY <1>1, Halves
<1> DEFINE count == Cardinality(Ends(text))
           end(n) == EndOf(text, n)
           begin(n) == IF n = 1 THEN 1 ELSE end(n - 1) + 1
           lines == [n \in 1 .. count |-> Assemble(SubSeq(text, begin(n), end(n)))]
           rest == SubSeq(text, begin(count + 1), Len(text))
<1>3. SplitLines(text) = [lines |-> lines, rest |-> rest]
  BY DEF SplitLines, EndOf, Ends
<1> HIDE DEF lines, rest
<1>4. SplitLines(text).lines = lines /\ SplitLines(text).rest = rest
  BY <1>3
<1>5. Ends(text) = Evens(k)
  BY <1>2, EndsAreEven
<1>6. count = k
  BY <1>5, EvensAre
<1>7. \A n \in 1 .. k : end(n) = 2 * n
  BY <1>2, EndIs
<1> HIDE DEF end, count
<1>8. \A n \in 1 .. k + 1 : begin(n) = 2 * n - 1
  <2> TAKE n \in 1 .. k + 1
  <2>1. CASE n = 1
    BY <2>1
  <2>2. CASE n # 1
    <3>1. n - 1 \in 1 .. k
      BY <2>2
    <3>2. end(n - 1) = 2 * (n - 1)
      BY <1>7, <3>1
    <3> QED BY <2>2, <3>2
  <2> QED BY <2>1, <2>2
<1> HIDE DEF begin
<1>9. ASSUME NEW n \in 1 .. k
      PROVE  Assemble(SubSeq(text, begin(n), end(n))) \in log
  <2>1. PICK a \in Int : a = 2 * n - 1
    OBVIOUS
  <2>2. PICK b \in Int : b = 2 * n
    OBVIOUS
  <2>3. begin(n) = a /\ end(n) = b /\ b = a + 1 /\ 1 <= a /\ b <= Len(text)
    <3>1. n \in 1 .. k + 1
      OBVIOUS
    <3> QED BY <1>2, <1>7, <1>8, <2>1, <2>2, <3>1
  <2>4. PICK pieces : pieces = SubSeq(text, a, b)
    OBVIOUS
  <2>5. \A i \in a .. b : text[i] \in Piece
    BY <1>1, <2>3
  <2>6. /\ Len(SubSeq(text, a, b)) = IF a <= b THEN b - a + 1 ELSE 0
        /\ \A i \in 1 .. b - a + 1 : SubSeq(text, a, b)[i] = text[a + i - 1]
    BY <2>5, SubSeqProperties
  <2>7. Len(pieces) = 2
    BY <2>3, <2>4, <2>6
  <2>8. pieces[1] = text[a] /\ pieces[2] = text[b]
    <3>1. 1 \in 1 .. b - a + 1 /\ 2 \in 1 .. b - a + 1 /\ a + 1 - 1 = a /\ a + 2 - 1 = b
      BY <2>3
    <3> QED BY <2>4, <2>6, <3>1
  <2>9. PICK l \in Nat : l = n - 1
    OBVIOUS
  <2>10. 2 * l + 1 = a /\ 2 * l + 2 = b
    BY <2>1, <2>2, <2>9
  <2>11. /\ 2 * l + 1 <= Len(text) =>
              text[2 * l + 1].part = "head" /\ text[2 * l + 1].line \in log
         /\ 2 * l + 2 <= Len(text) =>
              text[2 * l + 2].part = "tail" /\ text[2 * l + 2].line = text[2 * l + 1].line
    BY StreamLine
  <2>12. text[a].part = "head" /\ text[a].line \in log /\ text[b].line = text[a].line
    BY <1>1, <2>3, <2>10, <2>11
  <2>13. PICK line \in Lines : line = text[a].line
    BY <2>12
  <2>14. Assemble(pieces) = line
    BY <2>7, <2>8, <2>12, <2>13, Assembled
  <2> QED BY <2>3, <2>4, <2>12, <2>13, <2>14
<1>10. lines \in Seq(log)
  BY <1>6, <1>9 DEF lines
<1>11. rest = SubSeq(text, 2 * k + 1, Len(text))
  <2>1. begin(k + 1) = 2 * k + 1
    BY <1>8
  <2> QED BY <1>6, <2>1 DEF rest
<1> QED BY <1>2, <1>4, <1>10, <1>11

----------------------------------------------------------------------------
(* The invariant holds at first and is kept.                                *)

LEMMA InitHolds == Init => IInv
<1> SUFFICES ASSUME Init
             PROVE  IInv
  OBVIOUS
<1> USE DEF Init
<1>1. MaxStarts \in Nat /\ MaxTime \in Nat /\ MaxEvents \in Nat /\ MaxLogged \in Nat
  BY CollectorAssumption
<1>2. ControlType
  <2>1. 0 \in 0 .. MaxTime /\ 0 \in 0 .. MaxStarts
    BY <1>1
  <2>2. flag \in BOOLEAN /\ stopping \in BOOLEAN /\ late \in BOOLEAN
    OBVIOUS
  <2> QED BY <2>1, <2>2 DEF ControlType
<1>3. StoreType
  BY <1>1 DEF StoreType
<1>4. StoreInv
  BY DEF StoreInv, Entries
<1>5. ThreadInv
  BY DEF ThreadInv
<1>6. TodoInv
  BY DEF TodoInv
<1>7. NetInv
  <2>1. inbox \in Seq(Piece) /\ Len(inbox) = 0 /\ Stream = inbox
    BY DEF Stream
  <2>2. IsStream(Stream, Entries(logged))
    BY <2>1 DEF IsStream
  <2>3. Len(Stream) = 2 * 0 /\ 0 \in 0 .. Len(Stream)
    BY <2>1
  <2> QED BY <2>1, <2>2, <2>3 DEF NetInv
<1> QED BY <1>2, <1>3, <1>4, <1>5, <1>6, <1>7 DEF IInv

\* A step is one of the actions.
LEMMA Steps ==
  ASSUME [Next]_vars
  PROVE  \/ Start \/ Stop \/ Joined \/ JoinTimesOut \/ Clear
         \/ \E t \in Threads : \/ Loop(t) \/ NothingCame(t) \/ ReceiveDatagram(t) \/ Accept(t)
                               \/ AwaitChunk(t) \/ ReceiveChunk(t) \/ LeaveConnection(t)
                               \/ Ingest(t)
         \/ \E line \in Lines : Log(line)
         \/ Connect \/ Disconnect \/ Tick
         \/ UNCHANGED vars
BY DEF Next, Run

LEMMA ControlStep ==
  ASSUME IInv, [Next]_vars
  PROVE  ControlType' /\ ThreadInv'
<1> USE DEF IInv, ControlType, ThreadInv, Threads, Goto
<1>0. MaxStarts \in Nat /\ MaxTime \in Nat
  BY CollectorAssumption
<1>1. CASE Start
  <2>1. starts + 1 \in 1 .. MaxStarts
    BY <1>0, <1>1 DEF Start
  <2>5. /\ starts' = starts + 1 /\ sock' = starts' /\ flag' = FALSE
        /\ pc' = [pc EXCEPT ![starts'] = "loop"]
        /\ UNCHANGED <<clock, protocol, stopping, late, on, link, server>>
    BY <1>1 DEF Start, net
  <2>2. ControlType'
    <3>1. starts' \in 0 .. MaxStarts /\ sock' \in {0, starts'}
      BY <2>1, <2>5
    <3>2. flag' \in BOOLEAN /\ stopping' \in BOOLEAN /\ late' \in BOOLEAN
      BY <2>5
    <3>3. pc' \in [Threads -> {"none", "loop", "receive", "conn", "chunk", "ingest", "over"}]
      BY <2>5
    <3> QED BY <2>5, <3>1, <3>2, <3>3
  <2>3. ~late => \A t \in Threads : pc[t] \in {"none", "over"}
    <3>1. \A t \in Threads : t # 0
      OBVIOUS
    <3> QED BY <1>1, <3>1 DEF Start
  <2>4. ThreadInv'
    BY <1>1, <2>1, <2>3 DEF Start, net
  <2> QED BY <2>2, <2>4
<1>2. CASE Stop
  BY <1>2 DEF Stop, threadVars, net
<1>3. CASE Joined
  <2>1. ~late => \A t \in Threads : pc[t] \in {"none", "over"}
    BY <1>3 DEF Joined
  <2>2. \A t \in Threads : pc[t] \in {"conn", "chunk"} => server # 0
    OBVIOUS
  <2>3. server' \in 0 .. MaxStarts /\ link' \in {"none", "open", "closed"} /\ sock' = 0
        /\ stopping' = FALSE /\ (server # 0 => server' = server)
    BY <1>0, <1>3 DEF Joined, Close, net
  <2> QED BY <1>3, <2>1, <2>2, <2>3 DEF Joined, threadVars
<1>4. CASE JoinTimesOut
  <2>2. \A t \in Threads : pc[t] \in {"conn", "chunk"} => server # 0
    OBVIOUS
  <2>3. server' \in 0 .. MaxStarts /\ link' \in {"none", "open", "closed"} /\ sock' = 0
        /\ stopping' = FALSE /\ (server # 0 => server' = server)
    BY <1>0, <1>4 DEF JoinTimesOut, Close, net
  <2> QED BY <1>4, <2>2, <2>3 DEF JoinTimesOut, threadVars
<1>5. CASE Clear
  BY <1>5 DEF Clear, owner, threadVars, net
<1>6. ASSUME NEW t \in Threads, Loop(t)
      PROVE  ControlType' /\ ThreadInv'
  <2>1. sock \in 0 .. MaxStarts
    BY <1>0
  <2> QED BY <1>6, <2>1 DEF Loop, owner, net
<1>7. ASSUME NEW t \in Threads, NothingCame(t) \/ AwaitChunk(t)
      PROVE  ControlType' /\ ThreadInv'
  BY <1>7 DEF NothingCame, AwaitChunk, owner, net
<1>8. ASSUME NEW t \in Threads, ReceiveDatagram(t)
      PROVE  ControlType' /\ ThreadInv'
  BY <1>8 DEF ReceiveDatagram, owner
<1>9. ASSUME NEW t \in Threads, Accept(t)
      PROVE  ControlType' /\ ThreadInv'
  <2>1. t \in 0 .. MaxStarts
    BY <1>0
  <2> QED BY <1>9, <2>1 DEF Accept, owner
<1>10. ASSUME NEW t \in Threads, ReceiveChunk(t)
       PROVE  ControlType' /\ ThreadInv'
  <2>1. pc[t] = "chunk" /\ (pc' = [pc EXCEPT ![t] = "conn"] \/ pc' = [pc EXCEPT ![t] = "ingest"])
    BY <1>10 DEF ReceiveChunk
  <2>2. UNCHANGED <<clock, protocol, owner, on, link, server>>
    BY <1>10 DEF ReceiveChunk
  <2> QED BY <2>1, <2>2 DEF owner
<1>11. ASSUME NEW t \in Threads, LeaveConnection(t)
       PROVE  ControlType' /\ ThreadInv'
  BY <1>0, <1>11 DEF LeaveConnection, owner
<1>12. ASSUME NEW t \in Threads, Ingest(t)
       PROVE  ControlType' /\ ThreadInv'
  <2>1. pc[t] = "ingest"
        /\ \/ pc' = [pc EXCEPT ![t] = "ingest"]
           \/ pc' = [pc EXCEPT ![t] = "conn"] /\ server = t
           \/ pc' = [pc EXCEPT ![t] = "loop"]
    BY <1>12 DEF Ingest
  <2>2. UNCHANGED <<clock, protocol, owner, on, net>>
    BY <1>12 DEF Ingest
  <2> QED BY <2>1, <2>2 DEF owner, net
<1>13. ASSUME NEW line \in Lines, Log(line)
       PROVE  ControlType' /\ ThreadInv'
  BY <1>13 DEF Log, owner, threadVars
<1>14. CASE Connect
  BY <1>14 DEF Connect, owner, threadVars
<1>15. CASE Disconnect
  BY <1>15 DEF Disconnect, owner, threadVars
<1>16. CASE Tick
  <2>1. clock' \in 0 .. MaxTime
    BY <1>0, <1>16 DEF Tick
  <2> QED BY <1>16, <2>1 DEF Tick, owner, threadVars, net
<1>17. CASE UNCHANGED vars
  BY <1>17 DEF vars, owner, threadVars, net
<1> QED BY <1>1, <1>2, <1>3, <1>4, <1>5, <1>6, <1>7, <1>8, <1>9, <1>10, <1>11, <1>12, <1>13,
           <1>14, <1>15, <1>16, <1>17, Steps

\* The buffer after an event was added: it has no more than its limit, and loses
\* one only when it is full.
LEMMA Buffered ==
  ASSUME NEW evs \in Seq(Parsed), Len(evs) <= MaxEvents, NEW ev \in Parsed
  PROVE  /\ Latest(Append(evs, ev)) \in Seq(Parsed)
         /\ Len(Latest(Append(evs, ev))) <= MaxEvents
         /\ Entries(Latest(Append(evs, ev))) \subseteq Entries(evs) \cup {ev}
         /\ Len(evs) # MaxEvents =>
              Entries(Latest(Append(evs, ev))) = Entries(evs) \cup {ev}
<1>0. MaxEvents \in Nat \ {0}
  BY CollectorAssumption
<1>1. PICK all : all = Append(evs, ev)
  OBVIOUS
<1>2. /\ all \in Seq(Parsed) /\ all # <<>> /\ Len(all) = Len(evs) + 1
      /\ \A i \in 1 .. Len(evs) : all[i] = evs[i]
      /\ all[Len(evs) + 1] = ev
  BY <1>1, AppendProperties
<1>3. Len(evs) \in Nat
  OBVIOUS
<1>4. Entries(all) = Entries(evs) \cup {ev}
  <2>1. \A x \in Entries(all) : x \in Entries(evs) \cup {ev}
    BY <1>2, <1>3 DEF Entries
  <2>2. \A x \in Entries(evs) : x \in Entries(all)
    BY <1>2, <1>3 DEF Entries
  <2>3. ev \in Entries(all)
    <3>1. Len(evs) + 1 \in 1 .. Len(all)
      BY <1>2, <1>3
    <3> QED BY <1>2, <3>1 DEF Entries
  <2> QED BY <2>1, <2>2, <2>3
<1>5. CASE Len(all) > MaxEvents
  <2>1. Latest(all) = Tail(all)
    BY <1>5 DEF Latest
  <2>2. /\ Tail(all) \in Seq(Parsed) /\ Len(Tail(all)) = Len(all) - 1
        /\ \A i \in 1 .. Len(Tail(all)) : Tail(all)[i] = all[i + 1]
    BY <1>2, HeadTailProperties
  <2>3. Len(Tail(all)) <= MaxEvents
    BY <1>0, <1>2, <1>3, <2>2
  <2>4. Entries(Tail(all)) \subseteq Entries(all)
    <3>1. \A i \in 1 .. Len(Tail(all)) : i + 1 \in 1 .. Len(all)
      BY <1>2, <1>3, <2>2
    <3> QED BY <2>2, <3>1 DEF Entries
  <2>5. Len(evs) = MaxEvents
    BY <1>0, <1>2, <1>3, <1>5
  <2> QED BY <1>1, <1>4, <2>1, <2>2, <2>3, <2>4, <2>5
<1>6. CASE ~(Len(all) > MaxEvents)
  <2>1. Latest(all) = all
    BY <1>6 DEF Latest
  <2>2. Len(all) <= MaxEvents
    BY <1>0, <1>2, <1>3, <1>6
  <2> QED BY <1>1, <1>2, <1>4, <2>1, <2>2
<1> QED BY <1>5, <1>6

\* What was logged stays logged.
LEMMA LogGrows ==
  ASSUME NEW lines \in Seq(Lines), NEW line \in Lines
  PROVE  /\ Append(lines, line) \in Seq(Lines)
         /\ Len(Append(lines, line)) = Len(lines) + 1
         /\ Entries(lines) \subseteq Entries(Append(lines, line))
         /\ line \in Entries(Append(lines, line))
<1>1. PICK all : all = Append(lines, line)
  OBVIOUS
<1>2. /\ all \in Seq(Lines) /\ all # <<>> /\ Len(all) = Len(lines) + 1
      /\ \A i \in 1 .. Len(lines) : all[i] = lines[i]
      /\ all[Len(lines) + 1] = line
  BY <1>1, AppendProperties
<1>3. Len(lines) \in Nat
  OBVIOUS
<1>4. Entries(lines) \subseteq Entries(all)
  BY <1>2, <1>3 DEF Entries
<1>5. Len(lines) + 1 \in 1 .. Len(all)
  BY <1>2, <1>3
<1>6. line \in Entries(all)
  BY <1>2, <1>5 DEF Entries
<1> QED BY <1>1, <1>2, <1>4, <1>6

LEMMA EntriesAre ==
  ASSUME NEW S, NEW seq \in Seq(S)
  PROVE  Entries(seq) \subseteq S
BY DEF Entries

LEMMA SeqGrows ==
  ASSUME NEW S, NEW T, S \subseteq T, NEW seq \in Seq(S)
  PROVE  seq \in Seq(T)
<1>1. /\ Len(seq) \in Nat /\ seq \in [1 .. Len(seq) -> S]
  BY LenProperties
<1>2. seq \in [1 .. Len(seq) -> T]
  BY <1>1
<1> QED BY <1>1, <1>2

\* A line that is ingested was logged, and gives an event of its own.
LEMMA IngestFacts ==
  ASSUME IInv, NEW t \in Threads, pc[t] = "ingest"
  PROVE  /\ Head(todo[t]) \in Entries(logged)
         /\ Parse(Head(todo[t]), clock) \in Parsed
         /\ Parse(Head(todo[t]), clock).raw = Head(todo[t])
         /\ Tail(todo[t]) \in Seq(Entries(logged)) /\ Tail(todo[t]) \in Seq(Lines)
         /\ Len(Tail(todo[t])) = Len(todo[t]) - 1
<1>1. PICK seq : seq = todo[t]
  OBVIOUS
<1>2. PICK log : log = Entries(logged)
  OBVIOUS
<1>3. seq \in Seq(log) /\ seq # <<>>
  BY <1>1, <1>2 DEF IInv, TodoInv
<1>4. Head(seq) \in log /\ Tail(seq) \in Seq(log) /\ Len(Tail(seq)) = Len(seq) - 1
  BY <1>3, HeadTailProperties
<1>5. log \subseteq Lines
  BY <1>2, EntriesAre DEF IInv, StoreType
<1>6. PICK line \in Lines : line = Head(seq)
  BY <1>4, <1>5
<1>7. clock \in 0 .. MaxTime
  BY DEF IInv, ControlType
<1>8. Parse(line, clock) \in Parsed
  BY <1>7 DEF Parsed
<1>9. Parse(line, clock).raw = line
  BY DEF Parse
<1>10. Tail(seq) \in Seq(Lines)
  BY <1>4, <1>5, SeqGrows
<1> QED BY <1>1, <1>2, <1>4, <1>6, <1>8, <1>9, <1>10

LEMMA StoreStep ==
  ASSUME IInv, [Next]_vars
  PROVE  StoreType' /\ StoreInv'
<1>0. MaxLogged \in Nat
  BY CollectorAssumption
<1> DEFINE Kept == UNCHANGED store /\ UNCHANGED logged
<1>1. ASSUME Kept
      PROVE  StoreType' /\ StoreInv'
  BY <1>1 DEF IInv, StoreType, StoreInv, store, Entries
<1>2. CASE Clear
  <2>1. events' = <<>> /\ received' = {} /\ dropped' = dropped /\ logged' = logged
    BY <1>2 DEF Clear
  <2>2. events' \in Seq(Parsed) /\ Len(events') = 0 /\ MaxEvents \in Nat
    BY <2>1, CollectorAssumption
  <2>3. StoreType'
    BY <2>1, <2>2 DEF IInv, StoreType
  <2>4. StoreInv'
    BY <2>1 DEF StoreInv, Entries
  <2> QED BY <2>3, <2>4
<1>3. ASSUME NEW t \in Threads, Ingest(t)
      PROVE  StoreType' /\ StoreInv'
  <2>1. pc[t] = "ingest" /\ logged' = logged
    BY <1>3 DEF Ingest
  <2>2. PICK line : line = Head(todo[t])
    OBVIOUS
  <2>3. PICK ev : ev = Parse(line, clock)
    OBVIOUS
  <2>4. line \in Entries(logged) /\ ev \in Parsed /\ ev.raw = line
    BY <2>1, <2>2, <2>3, IngestFacts
  <2>5. AddEvent(ev) \/ UNCHANGED store
    BY <1>3, <2>2, <2>3 DEF Ingest
  <2>6. CASE AddEvent(ev)
    <3>1. PICK new : new = Latest(Append(events, ev))
      OBVIOUS
    <3>2. events \in Seq(Parsed) /\ Len(events) <= MaxEvents
      BY DEF IInv, StoreType
    <3>3. /\ new \in Seq(Parsed) /\ Len(new) <= MaxEvents
          /\ Entries(new) \subseteq Entries(events) \cup {ev}
          /\ Len(events) # MaxEvents => Entries(new) = Entries(events) \cup {ev}
      BY <2>4, <3>1, <3>2, Buffered
    <3>4. /\ events' = new /\ received' = received \cup {ev}
          /\ dropped' = IF Len(events) = MaxEvents THEN dropped + 1 ELSE dropped
      BY <2>6, <3>1 DEF AddEvent
    <3>5. dropped \in Nat
      BY DEF IInv, StoreType
    <3>6. dropped' \in Nat /\ (dropped' = 0 => dropped = 0 /\ Len(events) # MaxEvents)
      BY <3>4, <3>5
    <3>7. StoreType'
      BY <2>1, <2>4, <3>3, <3>4, <3>6 DEF IInv, StoreType
    <3>8. Entries(events') = Entries(new) /\ Entries(logged') = Entries(logged)
      BY <2>1, <3>4
    <3>9. StoreInv'
      BY <2>4, <3>3, <3>4, <3>6, <3>8 DEF IInv, StoreInv
    <3> QED BY <3>7, <3>9
  <2>7. CASE UNCHANGED store
    BY <1>1, <2>1, <2>7
  <2> QED BY <2>5, <2>6, <2>7
<1>4. ASSUME NEW line \in Lines, Log(line)
      PROVE  StoreType' /\ StoreInv'
  <2>1. /\ logged' = Append(logged, line) /\ Len(logged) < MaxLogged
        /\ UNCHANGED <<events, dropped, received>>
    BY <1>4 DEF Log, store
  <2>2. logged \in Seq(Lines)
    BY DEF IInv, StoreType
  <2>3. /\ logged' \in Seq(Lines) /\ Len(logged') = Len(logged) + 1
        /\ Entries(logged) \subseteq Entries(logged')
    BY <2>1, <2>2, LogGrows
  <2>4. Len(logged') <= MaxLogged
    BY <1>0, <2>1, <2>2, <2>3
  <2>5. Entries(events') = Entries(events)
    BY <2>1
  <2>6. StoreType'
    BY <2>1, <2>3, <2>4 DEF IInv, StoreType
  <2>7. StoreInv'
    BY <2>1, <2>3, <2>5 DEF IInv, StoreInv
  <2> QED BY <2>6, <2>7
<1>5. ASSUME Start \/ Stop \/ Joined \/ JoinTimesOut
      PROVE  Kept
  BY <1>5 DEF Start, Stop, Joined, JoinTimesOut
<1>6. ASSUME NEW t \in Threads,
             \/ Loop(t) \/ NothingCame(t) \/ ReceiveDatagram(t) \/ Accept(t)
             \/ AwaitChunk(t) \/ ReceiveChunk(t) \/ LeaveConnection(t)
      PROVE  Kept
  BY <1>6 DEF Loop, NothingCame, ReceiveDatagram, Accept, AwaitChunk, ReceiveChunk,
              LeaveConnection
<1>7. ASSUME Connect \/ Disconnect \/ Tick \/ UNCHANGED vars
      PROVE  Kept
  BY <1>7 DEF Connect, Disconnect, Tick, vars
<1> HIDE DEF Kept
<1> QED BY <1>1, <1>2, <1>3, <1>4, <1>5, <1>6, <1>7, Steps

\* What remains of a text behind a place, with what follows the text
LEMMA RestThen ==
  ASSUME NEW S, NEW a \in Seq(S), NEW b \in Seq(S), NEW m \in Nat, m <= Len(a)
  PROVE  SubSeq(a, m + 1, Len(a)) \o b = SubSeq(a \o b, m + 1, Len(a \o b))
<1>1. PICK la \in Nat, lb \in Nat : la = Len(a) /\ lb = Len(b)
  BY LenProperties
<1>2. PICK all : all = a \o b
  OBVIOUS
<1>3. /\ all \in Seq(S) /\ Len(all) = la + lb
      /\ \A i \in 1 .. la + lb : all[i] = IF i <= la THEN a[i] ELSE b[i - la]
  BY <1>1, <1>2, ConcatProperties
<1>4. PICK from \in Int : from = m + 1
  OBVIOUS
<1>5. PICK rest : rest = SubSeq(a, from, la)
  OBVIOUS
<1>6. PICK right : right = SubSeq(all, from, la + lb)
  OBVIOUS
<1>7. \A i \in from .. la : a[i] \in S
  BY <1>1, <1>4, ElementOfSeq
<1>8. \A i \in from .. la + lb : all[i] \in S
  BY <1>1, <1>3, <1>4, ElementOfSeq
<1>9. la \in Int /\ la + lb \in Int
  OBVIOUS
<1>10. /\ rest \in Seq(S) /\ Len(rest) = IF from <= la THEN la - from + 1 ELSE 0
       /\ \A i \in 1 .. la - from + 1 : rest[i] = a[from + i - 1]
  BY <1>5, <1>7, <1>9, SubSeqProperties
<1>11. /\ right \in Seq(S) /\ Len(right) = IF from <= la + lb THEN la + lb - from + 1 ELSE 0
       /\ \A i \in 1 .. la + lb - from + 1 : right[i] = all[from + i - 1]
  BY <1>6, <1>8, <1>9, SubSeqProperties
<1>12. Len(rest) = la - m /\ Len(right) = la + lb - m
  BY <1>1, <1>4, <1>10, <1>11
<1>13. PICK left : left = rest \o b
  OBVIOUS
<1>14. /\ left \in Seq(S) /\ Len(left) = la - m + lb
       /\ \A i \in 1 .. la - m + lb : left[i] = IF i <= la - m THEN rest[i] ELSE b[i - (la - m)]
  <2>1. /\ left \in Seq(S) /\ Len(left) = Len(rest) + Len(b)
        /\ \A i \in 1 .. Len(rest) + Len(b) :
             left[i] = IF i <= Len(rest) THEN rest[i] ELSE b[i - Len(rest)]
    BY <1>10, <1>13, ConcatProperties
  <2>2. Len(rest) = la - m /\ Len(b) = lb
    BY <1>1, <1>12
  <2> QED BY <2>1, <2>2, Zenon
<1>15. ASSUME NEW i \in 1 .. la + lb - m
       PROVE  left[i] = right[i]
  <2>1. right[i] = all[m + i] /\ m + i \in 1 .. la + lb
    <3>1. i \in 1 .. la + lb - from + 1 /\ from + i - 1 = m + i /\ m + i \in 1 .. la + lb
      BY <1>4
    <3>2. right[i] = all[from + i - 1]
      BY <1>11, <3>1
    <3> QED BY <3>1, <3>2
  <2>2. CASE i <= la - m
    <3>1. left[i] = a[m + i]
      <4>1. i \in 1 .. la - from + 1 /\ from + i - 1 = m + i /\ i \in 1 .. la - m + lb
        BY <1>4, <2>2
      <4>2. rest[i] = a[from + i - 1]
        BY <1>10, <4>1
      <4>3. left[i] = rest[i]
        BY <1>14, <2>2, <4>1
      <4> QED BY <4>1, <4>2, <4>3
    <3>2. all[m + i] = a[m + i]
      <4>1. m + i <= la
        BY <2>2
      <4> QED BY <1>3, <2>1, <4>1
    <3> QED BY <2>1, <3>1, <3>2
  <2>3. CASE i > la - m
    <3>1. i \in 1 .. la - m + lb /\ ~(i <= la - m) /\ ~(m + i <= la) /\ i - (la - m) = m + i - la
      BY <1>1, <2>3
    <3>2. left[i] = b[i - (la - m)]
      BY <1>14, <3>1
    <3>3. all[m + i] = b[m + i - la]
      BY <1>3, <2>1, <3>1
    <3> QED BY <2>1, <3>1, <3>2, <3>3
  <2> QED BY <2>2, <2>3
<1>16. left = right
  <2>1. Len(left) = Len(right) /\ Len(left) = la + lb - m
    BY <1>12, <1>14
  <2> QED BY <1>11, <1>14, <1>15, <2>1, SeqEqual
<1> QED BY <1>1, <1>2, <1>3, <1>4, <1>5, <1>6, <1>13, <1>16

----------------------------------------------------------------------------
(* The connection                                                           *)

Chunk(t, n) == buf[t] \o SubSeq(inbox, 1, n)
OnItsWay(n) == SubSeq(inbox, n + 1, Len(inbox))

\* What is left of a line, and what is on its way
Beyond(t, n) == SplitLines(Chunk(t, n)).rest \o OnItsWay(n)

LEMMA ServerFacts ==
  ASSUME IInv, NEW t \in Threads, pc[t] \in {"conn", "chunk"}
  PROVE  server = t /\ server # 0 /\ link # "none" /\ protocol = "tcp"
<1>1. server = t /\ t # 0
  BY DEF IInv, ThreadInv, Threads
<1>2. link # "none" /\ protocol # "udp"
  BY <1>1 DEF IInv, NetInv
<1>3. protocol \in {"udp", "tcp"}
  BY CollectorAssumption DEF IInv, ControlType
<1> QED BY <1>1, <1>2, <1>3

\* A stream cut anywhere in what is on its way
LEMMA CutStream ==
  ASSUME NEW b \in Seq(Piece), NEW i \in Seq(Piece), NEW log, IsStream(b \o i, log),
         NEW n \in 0 .. Len(i)
  PROVE  /\ b \o i = (b \o SubSeq(i, 1, n)) \o SubSeq(i, n + 1, Len(i))
         /\ IsStream(b \o SubSeq(i, 1, n), log)
<1>1. PICK all : all = b \o i
  OBVIOUS
<1>2. PICK li \in Nat : li = Len(i)
  BY LenProperties
<1>3. PICK pre : pre = SubSeq(i, 1, n)
  OBVIOUS
<1>4. PICK post : post = SubSeq(i, n + 1, li)
  OBVIOUS
<1>5. pre \in Seq(Piece) /\ post \in Seq(Piece)
  BY <1>2, <1>3, <1>4
<1>6. i = pre \o post
  <2>1. 1 \in 1 .. Len(i) + 1 /\ n \in 1 - 1 .. Len(i) /\ Len(i) \in n .. Len(i)
    BY <1>2
  <2>2. SubSeq(i, 1, n) \o SubSeq(i, n + 1, Len(i)) = SubSeq(i, 1, Len(i))
    BY <2>1, ConcatAdjacentSubSeq
  <2>3. SubSeq(i, 1, Len(i)) = i
    BY SubSeqFull
  <2> QED BY <1>2, <1>3, <1>4, <2>2, <2>3
<1>7. PICK text : text = b \o pre
  OBVIOUS
<1>8. text \in Seq(Piece) /\ all = text \o post
  BY <1>1, <1>5, <1>6, <1>7, ConcatProperties, ConcatAssociative
<1>9. PICK lt \in Nat : lt = Len(text)
  BY <1>8
<1>10. lt \in 0 .. Len(all)
  BY <1>5, <1>8, <1>9, ConcatProperties
<1>11. IsStream(SubSeq(all, 1, lt), log)
  BY <1>1, <1>10, StreamPrefix
<1>12. SubSeq(all, 1, lt) = text
  <2>1. CASE lt = 0
    <3>1. text = <<>>
      BY <1>8, <1>9, <2>1, EmptySeq
    <3>2. SubSeq(all, 1, 0) = <<>>
      BY SubSeqEmpty
    <3> QED BY <2>1, <3>1, <3>2
  <2>2. CASE lt # 0
    <3>1. 1 \in 1 .. Len(text) /\ lt \in 1 .. Len(text)
      BY <1>9, <2>2
    <3>2. SubSeq(text \o post, 1, lt) = SubSeq(text, 1, lt)
      BY <1>5, <1>8, <3>1, SubSeqOfConcat1
    <3>3. SubSeq(text, 1, Len(text)) = text
      BY <1>8, SubSeqFull
    <3> QED BY <1>8, <1>9, <3>2, <3>3
  <2> QED BY <2>1, <2>2
<1> QED BY <1>1, <1>2, <1>3, <1>4, <1>7, <1>8, <1>11, <1>12

LEMMA ChunkFacts ==
  ASSUME IInv, NEW t \in Threads, pc[t] = "chunk", NEW n \in DOMAIN inbox
  PROVE  /\ SplitLines(Chunk(t, n)).lines \in Seq(Entries(logged))
         /\ SplitLines(Chunk(t, n)).rest \in Seq(Piece)
         /\ OnItsWay(n) \in Seq(Piece)
         /\ IsStream(Beyond(t, n), Entries(logged))
         /\ link = "open" => \E k \in 0 .. Len(Beyond(t, n)) : Len(Beyond(t, n)) = 2 * k
<1>0. server = t /\ server # 0 /\ link # "none" /\ protocol = "tcp"
  BY ServerFacts
<1>1. PICK b, i, log : b = buf[t] /\ i = inbox /\ log = Entries(logged)
  OBVIOUS
<1>2. PICK all : all = b \o i
  OBVIOUS
<1>3. Stream = all
  BY <1>0, <1>1, <1>2 DEF Stream
<1>4. b \in Seq(Piece) /\ i \in Seq(Piece) /\ log \subseteq Lines
  BY <1>0, <1>1, EntriesAre DEF IInv, NetInv, StoreType
<1>5. IsStream(all, log)
  BY <1>0, <1>1, <1>3 DEF IInv, NetInv
<1>6. PICK li \in Nat : li = Len(i)
  BY <1>4
<1>7. n \in 1 .. li
  BY <1>1, <1>4, <1>6
<1>8. PICK pre : pre = SubSeq(i, 1, n)
  OBVIOUS
<1>9. PICK post : post = SubSeq(i, n + 1, li)
  OBVIOUS
<1>10. pre \in Seq(Piece) /\ post \in Seq(Piece)
  BY <1>4, <1>6, <1>7, <1>8, <1>9
<1>12. PICK text : text = b \o pre
  OBVIOUS
<1>13. text \in Seq(Piece) /\ all = text \o post /\ IsStream(text, log)
  <2>1. n \in 0 .. Len(i)
    BY <1>6, <1>7
  <2>2. IsStream(b \o i, log)
    BY <1>2, <1>5
  <2>3. /\ b \o i = (b \o SubSeq(i, 1, n)) \o SubSeq(i, n + 1, Len(i))
        /\ IsStream(b \o SubSeq(i, 1, n), log)
    BY <1>4, <2>1, <2>2, CutStream
  <2>4. all = text \o post /\ IsStream(text, log)
    BY <1>2, <1>6, <1>8, <1>9, <1>12, <2>3
  <2> QED BY <2>4 DEF IsStream
<1>14. PICK lt \in Nat : lt = Len(text)
  BY <1>13
<1>16. PICK k \in Nat :
         /\ 2 * k <= Len(text) /\ Len(text) <= 2 * k + 1
         /\ SplitLines(text).lines \in Seq(log)
         /\ SplitLines(text).rest = SubSeq(text, 2 * k + 1, Len(text))
  BY <1>4, <1>13, StreamSplits
<1>17. PICK m \in Nat : m = 2 * k
  OBVIOUS
<1>18. SplitLines(text).rest \in Seq(Piece)
  BY <1>13, <1>14, <1>16, <1>17
<1>19. SplitLines(text).rest \o post = SubSeq(all, 2 * k + 1, Len(all))
  <2>1. SubSeq(text, m + 1, Len(text)) \o post = SubSeq(text \o post, m + 1, Len(text \o post))
    BY <1>10, <1>13, <1>16, <1>17, RestThen
  <2> QED BY <1>13, <1>16, <1>17, <2>1
<1>20. PICK la \in Nat : la = Len(all)
  BY <1>5 DEF IsStream
<1>21. m <= la
  BY <1>10, <1>13, <1>14, <1>16, <1>17, <1>20, ConcatProperties
<1>22. PICK beyond : beyond = SplitLines(text).rest \o post
  OBVIOUS
<1>23. IsStream(beyond, log)
  BY <1>5, <1>17, <1>19, <1>20, <1>21, <1>22, StreamRest
<1>24. Len(beyond) = la - m
  <2>1. all \in Seq(Piece)
    BY <1>5 DEF IsStream
  <2>2. PICK from \in Int, to \in Int : from = m + 1 /\ to = la
    OBVIOUS
  <2>3. \A j \in from .. to : all[j] \in Piece
    BY <1>20, <2>1, <2>2, ElementOfSeq
  <2>4. Len(SubSeq(all, from, to)) = IF from <= to THEN to - from + 1 ELSE 0
    BY <2>3, SubSeqProperties
  <2>5. beyond = SubSeq(all, from, to)
    BY <1>17, <1>19, <1>20, <1>22, <2>2
  <2> QED BY <1>21, <2>2, <2>4, <2>5
<1>25. ASSUME link = "open"
       PROVE  \E j \in 0 .. Len(beyond) : Len(beyond) = 2 * j
  <2>1. PICK l \in 0 .. la : la = 2 * l
    BY <1>0, <1>3, <1>20, <1>25 DEF IInv, NetInv
  <2>2. l - k \in 0 .. Len(beyond) /\ Len(beyond) = 2 * (l - k)
    BY <1>17, <1>20, <1>21, <1>24, <2>1
  <2> QED BY <2>2
<1>26. Chunk(t, n) = text /\ OnItsWay(n) = post
  BY <1>1, <1>6, <1>8, <1>9, <1>12 DEF Chunk, OnItsWay
<1>27. Beyond(t, n) = beyond
  BY <1>22, <1>26 DEF Beyond
<1> QED BY <1>1, <1>10, <1>16, <1>18, <1>23, <1>25, <1>26, <1>27

LEMMA RemoveAtFacts ==
  ASSUME NEW S, NEW seq \in Seq(S), NEW n \in DOMAIN seq
  PROVE  seq[n] \in S /\ RemoveAt(seq, n) \in Seq(S)
<1>1. PICK l \in Nat : l = Len(seq)
  BY LenProperties
<1>2. n \in 1 .. l
  BY <1>1
<1>3. SubSeq(seq, 1, n - 1) \in Seq(S) /\ SubSeq(seq, n + 1, l) \in Seq(S)
  BY <1>1, <1>2
<1> QED BY <1>1, <1>2, <1>3, ConcatProperties DEF RemoveAt

LEMMA TodoStep ==
  ASSUME IInv, [Next]_vars
  PROVE  TodoInv'
<1> DEFINE Same == UNCHANGED <<logged, todo>>
                     /\ \A u \in Threads : pc'[u] = "ingest" => pc[u] = "ingest"
<1>0. /\ pc \in [Threads -> {"none", "loop", "receive", "conn", "chunk", "ingest", "over"}]
      /\ todo \in [Threads -> Seq(Lines)] /\ logged \in Seq(Lines)
  BY DEF IInv, ControlType, NetInv, StoreType
<1>1. ASSUME Same
      PROVE  TodoInv'
  <2>1. Entries(logged') = Entries(logged)
    BY <1>1
  <2> QED BY <1>1, <2>1 DEF IInv, TodoInv
<1>2. ASSUME Start
      PROVE  Same
  <2>1. pc' = [pc EXCEPT ![starts'] = "loop"] /\ UNCHANGED <<logged, todo>>
    BY <1>2 DEF Start
  <2> QED BY <1>0, <2>1
<1>3. ASSUME Stop \/ Joined \/ JoinTimesOut \/ Clear \/ Connect \/ Disconnect \/ Tick
             \/ UNCHANGED vars
      PROVE  Same
  BY <1>3 DEF Stop, Joined, JoinTimesOut, Clear, Connect, Disconnect, Tick, vars, threadVars
<1>4. ASSUME NEW t \in Threads,
             Loop(t) \/ NothingCame(t) \/ Accept(t) \/ AwaitChunk(t) \/ LeaveConnection(t)
      PROVE  Same
  BY <1>0, <1>4 DEF Loop, NothingCame, Accept, AwaitChunk, LeaveConnection, Goto
<1> HIDE DEF Same
<1>5. ASSUME NEW t \in Threads, NEW line, NEW more,
             todo' = [todo EXCEPT ![t] = more], more \in Seq(Entries(logged)),
             logged' = logged, pc'[t] = "ingest" => more # <<>>,
             \A u \in Threads : u # t => pc'[u] = pc[u]
      PROVE  TodoInv'
  <2>1. Entries(logged') = Entries(logged)
    BY <1>5
  <2> QED BY <1>0, <1>5, <2>1 DEF IInv, TodoInv
<1>6. ASSUME NEW t \in Threads, ReceiveDatagram(t)
      PROVE  TodoInv'
  <2>1. PICK i \in DOMAIN inbox : todo' = [todo EXCEPT ![t] = <<inbox[i]>>]
    BY <1>6 DEF ReceiveDatagram
  <2>2. protocol = "udp" /\ logged' = logged /\ pc' = [pc EXCEPT ![t] = "ingest"]
    BY <1>6 DEF ReceiveDatagram, Goto
  <2>3. inbox[i] \in Entries(logged)
    BY <2>1, <2>2 DEF IInv, NetInv
  <2>4. <<inbox[i]>> \in Seq(Entries(logged)) /\ <<inbox[i]>> # <<>>
    BY <2>3
  <2> QED BY <1>0, <1>5, <2>1, <2>2, <2>4
<1>7. ASSUME NEW t \in Threads, ReceiveChunk(t)
      PROVE  TodoInv'
  <2>1. PICK n \in DOMAIN inbox :
          /\ todo' = [todo EXCEPT ![t] = SplitLines(Chunk(t, n)).lines]
          /\ pc' = [pc EXCEPT ![t] = IF SplitLines(Chunk(t, n)).lines = <<>> THEN "conn"
                                     ELSE "ingest"]
    BY <1>7 DEF ReceiveChunk, Goto, Chunk
  <2>2. pc[t] = "chunk" /\ logged' = logged
    BY <1>7 DEF ReceiveChunk
  <2>3. PICK lines : lines = SplitLines(Chunk(t, n)).lines
    OBVIOUS
  <2>4. lines \in Seq(Entries(logged))
    BY <2>2, <2>3, ChunkFacts
  <2>5. pc'[t] = "ingest" => lines # <<>>
    BY <1>0, <2>1, <2>3
  <2> QED BY <1>0, <1>5, <2>1, <2>2, <2>3, <2>4, <2>5
<1>8. ASSUME NEW t \in Threads, Ingest(t)
      PROVE  TodoInv'
  <2>1. pc[t] = "ingest" /\ logged' = logged /\ todo' = [todo EXCEPT ![t] = Tail(@)]
    BY <1>8 DEF Ingest
  <2>2. Tail(todo[t]) \in Seq(Entries(logged)) /\ Len(Tail(todo[t])) = Len(todo[t]) - 1
    BY <2>1, IngestFacts
  <2>3. pc' = [pc EXCEPT ![t] = IF Len(todo[t]) > 1 THEN "ingest"
                                ELSE IF server = t THEN "conn" ELSE "loop"]
    BY <1>8 DEF Ingest, Goto
  <2>4. pc'[t] = "ingest" => Len(todo[t]) > 1
    BY <1>0, <2>3
  <2>5. Len(todo[t]) > 1 => Tail(todo[t]) # <<>>
    <3>1. PICK rest : rest = Tail(todo[t])
      OBVIOUS
    <3>2. rest = <<>> => Len(rest) = 0
      OBVIOUS
    <3>3. Len(todo[t]) > 1 => Len(rest) # 0
      <4>1. PICK n : n = Len(todo[t])
        OBVIOUS
      <4>2. n \in Nat
        <5>1. PICK seq \in Seq(Lines) : seq = todo[t]
          BY <1>0
        <5> QED BY <4>1, <5>1
      <4> QED BY <2>2, <3>1, <4>1, <4>2
    <3> QED BY <3>1, <3>2, <3>3
  <2>6. todo' = [todo EXCEPT ![t] = Tail(todo[t])]
    BY <2>1
  <2> QED BY <1>0, <1>5, <2>1, <2>2, <2>3, <2>4, <2>5, <2>6
<1>9. ASSUME NEW line \in Lines, Log(line)
      PROVE  TodoInv'
  <2>1. logged' = Append(logged, line) /\ UNCHANGED <<pc, todo>>
    BY <1>9 DEF Log, threadVars
  <2>2. Entries(logged) \subseteq Entries(logged')
    BY <1>0, <2>1, LogGrows
  <2>3. ASSUME NEW t \in Threads
        PROVE  todo'[t] \in Seq(Entries(logged'))
    <3>1. PICK a, b : a = Entries(logged) /\ b = Entries(logged')
      OBVIOUS
    <3>2. todo[t] \in Seq(a)
      BY <3>1 DEF IInv, TodoInv
    <3>3. todo[t] \in Seq(b)
      BY <2>2, <3>1, <3>2, SeqGrows
    <3> QED BY <2>1, <3>1, <3>3
  <2> QED BY <2>1, <2>3 DEF IInv, TodoInv
<1> QED BY <1>1, <1>2, <1>3, <1>4, <1>6, <1>7, <1>8, <1>9, Steps

LEMMA QueuesStep ==
  ASSUME IInv, [Next]_vars
  PROVE  buf' \in [Threads -> Seq(Piece)] /\ todo' \in [Threads -> Seq(Lines)]
<1> DEFINE Same == UNCHANGED <<buf, todo>>
           Goal == buf' \in [Threads -> Seq(Piece)] /\ todo' \in [Threads -> Seq(Lines)]
<1>0. buf \in [Threads -> Seq(Piece)] /\ todo \in [Threads -> Seq(Lines)]
  BY DEF IInv, NetInv
<1>1. ASSUME Start \/ Stop \/ Joined \/ JoinTimesOut \/ Clear \/ Connect \/ Disconnect \/ Tick
             \/ UNCHANGED vars
      PROVE  Same
  BY <1>1 DEF Start, Stop, Joined, JoinTimesOut, Clear, Connect, Disconnect, Tick, vars,
              threadVars
<1>2. ASSUME NEW t \in Threads,
             Loop(t) \/ NothingCame(t) \/ AwaitChunk(t) \/ LeaveConnection(t)
      PROVE  Same
  BY <1>2 DEF Loop, NothingCame, AwaitChunk, LeaveConnection, net
<1>3. ASSUME NEW line \in Lines, Log(line)
      PROVE  Same
  BY <1>3 DEF Log, threadVars
<1>4. Entries(logged) \subseteq Lines
  BY EntriesAre DEF IInv, StoreType
<1>5. ASSUME NEW t \in Threads, ReceiveDatagram(t)
      PROVE  Goal
  <2>1. PICK i \in DOMAIN inbox : todo' = [todo EXCEPT ![t] = <<inbox[i]>>]
    BY <1>5 DEF ReceiveDatagram
  <2>2. protocol = "udp" /\ buf' = buf
    BY <1>5 DEF ReceiveDatagram
  <2>3. inbox[i] \in Lines
    BY <1>4, <2>1, <2>2 DEF IInv, NetInv
  <2>4. <<inbox[i]>> \in Seq(Lines)
    BY <2>3
  <2> QED BY <1>0, <2>1, <2>2, <2>4
<1>6. ASSUME NEW t \in Threads, Accept(t)
      PROVE  Goal
  BY <1>0, <1>6 DEF Accept
<1>7. ASSUME NEW t \in Threads, ReceiveChunk(t)
      PROVE  Goal
  <2>1. PICK n \in DOMAIN inbox :
          /\ todo' = [todo EXCEPT ![t] = SplitLines(Chunk(t, n)).lines]
          /\ buf' = [buf EXCEPT ![t] = SplitLines(Chunk(t, n)).rest]
    BY <1>7 DEF ReceiveChunk, Chunk
  <2>2. pc[t] = "chunk"
    BY <1>7 DEF ReceiveChunk
  <2>3. PICK lines, rest : /\ lines = SplitLines(Chunk(t, n)).lines
                           /\ rest = SplitLines(Chunk(t, n)).rest
    OBVIOUS
  <2>4. lines \in Seq(Entries(logged)) /\ rest \in Seq(Piece)
    BY <2>2, <2>3, ChunkFacts
  <2>5. lines \in Seq(Lines)
    BY <1>4, <2>4, SeqGrows
  <2> QED BY <1>0, <2>1, <2>3, <2>4, <2>5
<1>8. ASSUME NEW t \in Threads, Ingest(t)
      PROVE  Goal
  <2>1. pc[t] = "ingest" /\ buf' = buf /\ todo' = [todo EXCEPT ![t] = Tail(@)]
    BY <1>8 DEF Ingest
  <2>2. Tail(todo[t]) \in Seq(Lines)
    BY <2>1, IngestFacts
  <2> QED BY <1>0, <2>1, <2>2
<1>9. ASSUME Same
      PROVE  Goal
  BY <1>0, <1>9
<1> HIDE DEF Same, Goal
<1>10. Goal
  BY <1>1, <1>2, <1>3, <1>5, <1>6, <1>7, <1>8, <1>9, Steps
<1> QED BY <1>10 DEF Goal

\* NetInv without the types of buf and todo
Link ==
  /\ link = "none" => server = 0
  /\ protocol = "udp" => link = "none" /\ inbox \in Seq(Entries(logged))
  /\ protocol = "tcp" =>
       /\ IsStream(Stream, Entries(logged))
       /\ inbox \in Seq(Piece)
       /\ link = "none" => inbox = <<>>
       /\ link = "open" => \E k \in 0 .. Len(Stream) : Len(Stream) = 2 * k

LEMMA NothingIsStream ==
  ASSUME NEW log
  PROVE  /\ IsStream(<<>>, log) /\ <<>> \in Seq(Piece)
         /\ \E k \in 0 .. Len(<<>>) : Len(<<>>) = 2 * k
<1>1. <<>> \in Seq(Piece) /\ Len(<<>>) = 0
  OBVIOUS
<1>2. IsStream(<<>>, log)
  BY <1>1 DEF IsStream
<1>3. 0 \in 0 .. Len(<<>>) /\ Len(<<>>) = 2 * 0
  BY <1>1
<1> QED BY <1>1, <1>2, <1>3

\* No connection, and nothing has arrived
LEMMA Cut ==
  ASSUME link' = "none" \/ (link' = "open" /\ protocol' # "udp"), server' = 0, inbox' = <<>>
  PROVE  Link'
<1>1. Stream' = inbox'
  BY DEF Stream
<1>2. PICK log : log = Entries(logged')
  OBVIOUS
<1>3. /\ IsStream(<<>>, log) /\ <<>> \in Seq(Piece) /\ <<>> \in Seq(log)
      /\ \E k \in 0 .. Len(<<>>) : Len(<<>>) = 2 * k
  BY NothingIsStream
<1> QED BY <1>1, <1>2, <1>3 DEF Link

LEMMA LinkStep ==
  ASSUME IInv, [Next]_vars
  PROVE  Link'
<1> DEFINE Same == UNCHANGED <<link, server, inbox, protocol, logged, buf>>
<1>0. /\ Link /\ buf \in [Threads -> Seq(Piece)] /\ logged \in Seq(Lines)
      /\ protocol \in {"udp", "tcp"} /\ Entries(logged) \subseteq Lines
  BY CollectorAssumption, EntriesAre DEF IInv, NetInv, Link, StoreType, ControlType
<1>1. ASSUME Same
      PROVE  Link'
  <2>1. Entries(logged') = Entries(logged) /\ Stream' = Stream
    BY <1>1 DEF Stream
  <2> QED BY <1>0, <1>1, <2>1 DEF Link
<1>2. ASSUME Start \/ Stop \/ Clear \/ Tick \/ UNCHANGED vars
      PROVE  Same
  BY <1>2 DEF Start, Stop, Clear, Tick, vars, threadVars, net
<1>3. ASSUME NEW t \in Threads, Loop(t) \/ NothingCame(t) \/ AwaitChunk(t) \/ Ingest(t)
      PROVE  Same
  BY <1>3 DEF Loop, NothingCame, AwaitChunk, Ingest, net
<1>4. ASSUME Joined \/ JoinTimesOut
      PROVE  Link'
  <2>1. Close /\ UNCHANGED <<protocol, logged, buf>>
    BY <1>4 DEF Joined, JoinTimesOut, threadVars
  <2>2. CASE server # 0
    BY <1>1, <2>1, <2>2 DEF Close, net
  <2>3. CASE server = 0
    BY <2>1, <2>3, Cut DEF Close
  <2> QED BY <2>2, <2>3
<1>5. ASSUME NEW t \in Threads, ReceiveDatagram(t)
      PROVE  Link'
  <2>1. PICK n \in DOMAIN inbox : inbox' = RemoveAt(inbox, n)
    BY <1>5 DEF ReceiveDatagram
  <2>2. protocol = "udp" /\ UNCHANGED <<protocol, link, server, logged>>
    BY <1>5 DEF ReceiveDatagram
  <2>3. link = "none" /\ server = 0 /\ inbox \in Seq(Entries(logged))
    BY <1>0, <2>2 DEF Link
  <2>4. PICK log : log = Entries(logged) /\ log = Entries(logged')
    BY <2>2
  <2>5. inbox' \in Seq(log)
    BY <2>1, <2>3, <2>4, RemoveAtFacts
  <2> QED BY <2>2, <2>3, <2>4, <2>5 DEF Link
<1>6. ASSUME NEW t \in Threads, Accept(t)
      PROVE  Link'
  <2>1. /\ protocol = "tcp" /\ server = 0 /\ link # "none" /\ server' = t
        /\ buf' = [buf EXCEPT ![t] = <<>>] /\ UNCHANGED <<protocol, link, inbox, logged>>
    BY <1>6 DEF Accept
  <2>2. inbox \in Seq(Piece) /\ Stream = inbox
    BY <1>0, <2>1 DEF Link, Stream
  <2>3. Stream' = <<>> \o inbox
    <3>1. t # 0 /\ buf'[t] = <<>>
      BY <1>0, <2>1 DEF Threads
    <3> QED BY <2>1, <3>1 DEF Stream
  <2>4. Stream' = Stream
    BY <2>2, <2>3, ConcatEmptySeq
  <2>5. Entries(logged') = Entries(logged)
    BY <2>1
  <2> QED BY <1>0, <2>1, <2>4, <2>5 DEF Link
<1>7. ASSUME NEW t \in Threads, ReceiveChunk(t)
      PROVE  Link'
  <2>1. PICK n \in DOMAIN inbox :
          /\ inbox' = OnItsWay(n)
          /\ buf' = [buf EXCEPT ![t] = SplitLines(Chunk(t, n)).rest]
    BY <1>7 DEF ReceiveChunk, Chunk, OnItsWay
  <2>2. pc[t] = "chunk" /\ UNCHANGED <<protocol, link, server, logged>>
    BY <1>7 DEF ReceiveChunk
  <2>3. server = t /\ server # 0 /\ link # "none" /\ protocol = "tcp"
    BY <2>2, ServerFacts
  <2>4. buf'[t] = SplitLines(Chunk(t, n)).rest
    BY <1>0, <2>1
  <2>5. Stream' = Beyond(t, n)
    BY <2>1, <2>2, <2>3, <2>4 DEF Stream, Beyond
  <2>6. PICK log : log = Entries(logged) /\ log = Entries(logged')
    BY <2>2
  <2>7. PICK beyond : beyond = Beyond(t, n)
    OBVIOUS
  <2>8. /\ OnItsWay(n) \in Seq(Piece) /\ IsStream(beyond, log)
        /\ link = "open" => \E k \in 0 .. Len(beyond) : Len(beyond) = 2 * k
    BY <2>2, <2>6, <2>7, ChunkFacts
  <2> QED BY <2>1, <2>2, <2>3, <2>5, <2>6, <2>7, <2>8 DEF Link
<1>8. ASSUME NEW t \in Threads, LeaveConnection(t)
      PROVE  Link'
  <2>1. link' = "none" /\ server' = 0 /\ inbox' = <<>>
    BY <1>8 DEF LeaveConnection
  <2> QED BY <2>1, Cut
<1>9. CASE Connect
  <2>1. /\ protocol = "tcp" /\ link = "none" /\ link' = "open"
        /\ UNCHANGED <<protocol, server, inbox>>
    BY <1>9 DEF Connect
  <2>2. server = 0 /\ inbox = <<>>
    BY <1>0, <2>1 DEF Link
  <2> QED BY <2>1, <2>2, Cut
<1>10. CASE Disconnect
  <2>1. PICK n \in 0 .. Len(inbox) : inbox' = SubSeq(inbox, 1, n)
    BY <1>10 DEF Disconnect
  <2>2. link = "open" /\ link' = "closed" /\ UNCHANGED <<protocol, server, buf, logged>>
    BY <1>10 DEF Disconnect, threadVars
  <2>3. protocol = "tcp" /\ inbox \in Seq(Piece) /\ IsStream(Stream, Entries(logged))
    BY <1>0, <2>2 DEF Link
  <2>4. PICK log : log = Entries(logged) /\ log = Entries(logged')
    BY <2>2
  <2>5. inbox' \in Seq(Piece)
    BY <2>1, <2>3
  <2>6. IsStream(Stream', log)
    <3>1. CASE server = 0
      <4>1. IsStream(inbox, log)
        BY <2>3, <2>4, <3>1 DEF Stream
      <4>2. IsStream(SubSeq(inbox, 1, n), log)
        BY <4>1, StreamPrefix
      <4> QED BY <2>1, <2>2, <3>1, <4>2 DEF Stream
    <3>2. CASE server # 0
      <4>1. server \in Threads
        BY <3>2 DEF IInv, ControlType, Threads
      <4>2. PICK b \in Seq(Piece) : b = buf[server]
        BY <1>0, <4>1
      <4>3. IsStream(b \o inbox, log)
        BY <2>3, <2>4, <3>2, <4>2 DEF Stream
      <4>4. IsStream(b \o SubSeq(inbox, 1, n), log)
        BY <2>3, <4>3, CutStream
      <4> QED BY <2>1, <2>2, <3>2, <4>2, <4>4 DEF Stream
    <3> QED BY <3>1, <3>2
  <2> QED BY <2>2, <2>3, <2>4, <2>5, <2>6 DEF Link
<1>11. ASSUME NEW line \in Lines, Log(line)
       PROVE  Link'
  <2>1. logged' = Append(logged, line) /\ UNCHANGED <<protocol, buf, link, server>>
    BY <1>11 DEF Log, threadVars
  <2>2. PICK a, log : a = Entries(logged) /\ log = Entries(logged')
    OBVIOUS
  <2>3. a \subseteq log /\ line \in log
    BY <1>0, <2>1, <2>2, LogGrows
  <2>4. protocol = "tcp" => IsStream(Stream, log)
    BY <1>0, <2>2, <2>3, StreamGrows DEF Link
  <2>5. protocol = "udp" => inbox \in Seq(log)
    BY <1>0, <2>2, <2>3, SeqGrows DEF Link
  <2>6. CASE inbox' = inbox
    <3>1. Stream' = Stream
      BY <2>1, <2>6 DEF Stream
    <3> QED BY <1>0, <2>1, <2>2, <2>4, <2>5, <2>6, <3>1 DEF Link
  <2>7. CASE protocol = "udp" /\ inbox' = Append(inbox, line)
    <3>1. inbox' \in Seq(log)
      BY <2>3, <2>5, <2>7, AppendProperties
    <3> QED BY <1>0, <2>1, <2>2, <2>7, <3>1 DEF Link
  <2>8. CASE protocol = "tcp" /\ link = "open" /\ inbox' = inbox \o Pieces(line)
    <3>1. Pieces(line) \in Seq(Piece)
      BY DEF Pieces, Piece
    <3>2. inbox \in Seq(Piece)
      BY <1>0, <2>8 DEF Link
    <3>3. inbox' \in Seq(Piece)
      BY <2>8, <3>1, <3>2, ConcatProperties
    <3>4. PICK s : s = Stream
      OBVIOUS
    <3>5. Stream' = s \o Pieces(line)
      <4>1. CASE server = 0
        BY <2>1, <2>8, <3>4, <4>1 DEF Stream
      <4>2. CASE server # 0
        <5>1. server \in Threads
          BY <4>2 DEF IInv, ControlType, Threads
        <5>2. PICK b \in Seq(Piece) : b = buf[server]
          BY <1>0, <5>1
        <5>3. (b \o inbox) \o Pieces(line) = b \o (inbox \o Pieces(line))
          BY <3>1, <3>2, ConcatAssociative
        <5> QED BY <2>1, <2>8, <3>4, <4>2, <5>2, <5>3 DEF Stream
      <4> QED BY <4>1, <4>2
    <3>6. IsStream(s, log)
      BY <2>4, <2>8, <3>4
    <3>7. PICK k \in 0 .. Len(s) : Len(s) = 2 * k
      BY <1>0, <2>8, <3>4 DEF Link
    <3>8. k \in Nat
      OBVIOUS
    <3>9. PICK more : more = s \o Pieces(line)
      OBVIOUS
    <3>10. IsStream(more, log) /\ Len(more) = 2 * (k + 1)
      BY <2>3, <3>6, <3>7, <3>8, <3>9, StreamLogs
    <3>11. k + 1 \in 0 .. Len(more)
      BY <3>8, <3>10
    <3> QED BY <2>1, <2>2, <2>8, <3>3, <3>5, <3>9, <3>10, <3>11, <1>0 DEF Link
  <2>9. \/ inbox' = inbox
        \/ protocol = "udp" /\ inbox' = Append(inbox, line)
        \/ protocol = "tcp" /\ link = "open" /\ inbox' = inbox \o Pieces(line)
    BY <1>11 DEF Log
  <2> QED BY <2>6, <2>7, <2>8, <2>9
<1> HIDE DEF Same
<1> QED BY <1>1, <1>2, <1>3, <1>4, <1>5, <1>6, <1>7, <1>8, <1>9, <1>10, <1>11, Steps

----------------------------------------------------------------------------
(* What the buffer says of the log                                          *)

\* A query over a stimulus's window returns what matches the stimulus.
LEMMA QueryMatches ==
  ASSUME events \in Seq(Parsed), clock \in 0 .. MaxTime, NEW s \in Stimuli, NEW i
  PROVE  i \in Query(s.expected_event_type, s.five_tuple,
                     s.timestamp - Skew, s.timestamp + Window + Skew)
           <=> i \in DOMAIN events /\ Matches(s, events[i])
<1>1. s.timestamp \in Nat /\ s.five_tuple # None /\ s.expected_event_type # None
  BY StimulusFacts
<1>2. Window \in Nat /\ Skew \in Nat /\ None \notin Int
  BY CorrelatorAssumption
<1>3. PICK from \in Int, to \in Int : from = s.timestamp - Skew /\ to = s.timestamp + Window + Skew
  BY <1>1, <1>2
<1>4. from # None /\ to # None
  BY <1>2
<1>5. i \in Query(s.expected_event_type, s.five_tuple, from, to) <=>
        /\ i \in DOMAIN events
        /\ events[i].event_type = s.expected_event_type
        /\ ObservationMatches(s.five_tuple, events[i].five_tuple)
        /\ from <= events[i].timestamp
        /\ events[i].timestamp <= to
  BY <1>1, <1>4 DEF Query
<1>6. Matches(s, events[i]) <=>
        /\ events[i].event_type = s.expected_event_type
        /\ from <= events[i].timestamp
        /\ events[i].timestamp <= to
        /\ ObservationMatches(s.five_tuple, events[i].five_tuple)
  BY <1>3 DEF Matches, WithinWindow
<1> QED BY <1>3, <1>5, <1>6

LEMMA EventsHold ==
  ASSUME IInv
  PROVE  EventsTellTheLog
<1>1. /\ events \in Seq(Parsed) /\ clock \in 0 .. MaxTime
      /\ \A ev \in received : ev.raw \in Entries(logged)
  BY DEF IInv, StoreType, ControlType, StoreInv
<1>2. ASSUME dropped = 0, NEW s \in Stimuli, NEW found \in received, Matches(s, found)
      PROVE  /\ Correlate(s, events) # None
             /\ {ev \in received : Matches(s, ev)} =
                  {events[i] : i \in Query(s.expected_event_type, s.five_tuple,
                                           s.timestamp - Skew, s.timestamp + Window + Skew)}
             /\ ~EventAbsent(events, s.expected_event_type, s.five_tuple)
  <2>1. received = Entries(events)
    BY <1>2 DEF IInv, StoreInv
  <2>2. DOMAIN events = 1 .. Len(events)
    BY <1>1
  <2>3. \A ev : ev \in received <=> \E i \in DOMAIN events : ev = events[i]
    BY <2>1, <2>2 DEF Entries
  <2>4. PICK n \in DOMAIN events : found = events[n]
    BY <2>3
  <2>5. s.timestamp \in Nat
    BY <1>1, StimulusFacts
  <2>6. Correlate(s, events) # None
    BY <1>1, <1>2, <2>4, <2>5, CorrelateIsBest
  <2>7. PICK Q : Q = Query(s.expected_event_type, s.five_tuple,
                           s.timestamp - Skew, s.timestamp + Window + Skew)
    OBVIOUS
  <2>8. \A i : i \in Q <=> i \in DOMAIN events /\ Matches(s, events[i])
    BY <1>1, <2>7, QueryMatches
  <2>9. {ev \in received : Matches(s, ev)} = {events[i] : i \in Q}
    BY <2>3, <2>8
  <2>10. n \in FindEvents(events, s.expected_event_type, s.five_tuple)
    BY <1>2, <2>4 DEF FindEvents, Matches
  <2>11. ~EventAbsent(events, s.expected_event_type, s.five_tuple)
    BY <2>10 DEF EventAbsent, EventPresent
  <2> QED BY <2>6, <2>7, <2>9, <2>11
<1> QED BY <1>1, <1>2 DEF EventsTellTheLog

----------------------------------------------------------------------------
(* The theorems                                                             *)

\* The invariant: types, the buffer, the threads, and what is on its way to them.
THEOREM Inductive == Spec => []IInv
<1>1. Init => IInv
  BY InitHolds
<1>2. IInv /\ [Next]_vars => IInv'
  <2> SUFFICES ASSUME IInv, [Next]_vars
               PROVE  IInv'
    OBVIOUS
  <2>1. ControlType' /\ ThreadInv'
    BY ControlStep
  <2>2. StoreType' /\ StoreInv'
    BY StoreStep
  <2>3. TodoInv'
    BY TodoStep
  <2>4. NetInv'
    BY QueuesStep, LinkStep DEF NetInv, Link
  <2> QED BY <2>1, <2>2, <2>3, <2>4 DEF IInv
<1> QED BY <1>1, <1>2, PTL DEF Spec

\* Every variable has its type, and the buffer no more than its limit.
THEOREM TypeCorrect == Spec => []TypeOK
<1>1. IInv => TypeOK
  BY DEF IInv, ControlType, StoreType, TypeOK
<1> QED BY <1>1, Inductive, PTL

\* Verdicts are those of the table in docs/05-correlation-model.md.
THEOREM TableTrue == Spec => []VerdictTable
<1>1. IInv => VerdictTable
  BY TableHolds DEF IInv, ControlType, StoreType
<1> QED BY <1>1, Inductive, PTL

\* A suite passes only with the evidence the correlator promises for it.
THEOREM PassJustified == Spec => []PassIsJustified
<1>1. IInv => PassIsJustified
  BY PassingHolds DEF IInv, ControlType, StoreType
<1> QED BY <1>1, Inductive, PTL

\* Events are lines that were logged, whatever the network did to the stream;
\* and none that was received is missing without a word.
THEOREM EventsTrue == Spec => []EventsTellTheLog
<1>1. IInv => EventsTellTheLog
  BY EventsHold
<1> QED BY <1>1, Inductive, PTL

\* Nothing is received behind the back of stop.
THEOREM Silent == Spec => SilentAfterStop
<1>1. IInv /\ [Next]_vars => [sock = 0 /\ ~late => received' \subseteq received]_vars
  <2> SUFFICES ASSUME IInv, [Next]_vars, sock = 0, ~late
               PROVE  received' \subseteq received
    OBVIOUS
  <2>1. \A t \in Threads : pc[t] # "ingest"
    <3>1. \A t \in Threads : t # 0
      BY DEF Threads
    <3> QED BY <3>1 DEF IInv, ThreadInv, ControlType
  <2>2. \A t \in Threads : ~Ingest(t)
    BY <2>1 DEF Ingest
  <2>3. ASSUME Start \/ Stop \/ Joined \/ JoinTimesOut \/ Clear
        PROVE  received' \subseteq received
    BY <2>3 DEF Start, Stop, Joined, JoinTimesOut, Clear, store
  <2>4. ASSUME NEW t \in Threads,
               \/ Loop(t) \/ NothingCame(t) \/ ReceiveDatagram(t) \/ Accept(t)
               \/ AwaitChunk(t) \/ ReceiveChunk(t) \/ LeaveConnection(t)
        PROVE  received' \subseteq received
    BY <2>4 DEF Loop, NothingCame, ReceiveDatagram, Accept, AwaitChunk, ReceiveChunk,
                LeaveConnection, store
  <2>5. ASSUME NEW line \in Lines, Log(line)
        PROVE  received' \subseteq received
    BY <2>5 DEF Log, store
  <2>6. ASSUME Connect \/ Disconnect \/ Tick \/ UNCHANGED vars
        PROVE  received' \subseteq received
    BY <2>6 DEF Connect, Disconnect, Tick, vars, store
  <2> QED BY <2>2, <2>3, <2>4, <2>5, <2>6, Steps
<1> QED BY <1>1, Inductive, PTL DEF Spec, SilentAfterStop

=============================================================================
