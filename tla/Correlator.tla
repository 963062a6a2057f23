----------------------------- MODULE Correlator -----------------------------
(***************************************************************************)
(* validation/correlator.py and the presence and completeness checks of    *)
(* validation/assertions.py: which event is evidence for a stimulus, and   *)
(* what verdict that gives.                                                *)
(*                                                                         *)
(* A five-tuple is a function on TupleFields; None in it is a wildcard.    *)
(* A stimulus is [five_tuple, timestamp, expected_event_type,              *)
(* expected_fields], an event [event_type, five_tuple, timestamp, fields], *)
(* where fields is a function on the names the event carries.  Timestamps  *)
(* are finite, so the tests for infinity are left out.                     *)
(***************************************************************************)
EXTENDS Integers, Sequences, FiniteSets

CONSTANTS None,       \* Python's None
          Malformed,  \* values of address fields that are no IP addresses
          Window,     \* window_s
          Skew        \* skew_s

\* Correlator.__init__ rejects a negative window or skew.
\* None is neither a number nor a string (the strings a protocol is compared
\* with are enough).
ASSUME CorrelatorAssumption ==
  /\ Window \in Nat
  /\ Skew \in Nat
  /\ None \notin Int
  /\ None \notin {"tcp", "udp", "ICMP", "TCP", "UDP", "GRE", "ESP"}

TupleFields == {"src_ip", "dst_ip", "protocol", "src_port", "dst_port"}

Entries(seq) == {seq[i] : i \in 1 .. Len(seq)}

----------------------------------------------------------------------------
(* Matching                                                                 *)

Upper(p) == CASE p = "tcp" -> "TCP" [] p = "udp" -> "UDP" [] OTHER -> p

Normalized(t) == [t EXCEPT !.protocol = Upper(@)]

ValueCompatible(a, b) == a = None \/ b = None \/ a = b

FiveTupleMatches(a, b) ==
  LET x == Normalized(a)
      y == Normalized(b)
  IN  \A f \in TupleFields : ValueCompatible(x[f], y[f])

\* An observation needs an address, and all it has must be valid.
ObservationMatches(stimulus, observed) ==
  LET addresses == {observed.src_ip, observed.dst_ip} \ {None}
  IN  /\ addresses # {}
      /\ addresses \cap Malformed = {}
      /\ FiveTupleMatches(stimulus, observed)

WithinWindow(s, e) == s - Skew <= e /\ e <= s + Window + Skew

Matches(stimulus, event) ==
  /\ event.event_type = stimulus.expected_event_type
  /\ WithinWindow(stimulus.timestamp, event.timestamp)
  /\ ObservationMatches(stimulus.five_tuple, event.five_tuple)

\* The candidates, by their places in what was received
Candidates(stimulus, events) == {i \in DOMAIN events : Matches(stimulus, events[i])}

Distance(stimulus, event) ==
  LET d == event.timestamp - stimulus.timestamp IN IF d < 0 THEN -d ELSE d

\* Mutant of Correlate: the first one received.
CorrelateFirst(stimulus, events) ==
  LET cands == Candidates(stimulus, events)
  IN  IF cands = {} THEN None ELSE events[CHOOSE i \in cands : \A j \in cands : i <= j]

\* The first of the candidates after a stable sort by distance.
Correlate(stimulus, events) ==
  LET cands == Candidates(stimulus, events)
      d(i) == Distance(stimulus, events[i])
  IN  IF cands = {} THEN None
      ELSE events[CHOOSE i \in cands :
                    \A j \in cands : d(i) < d(j) \/ (d(i) = d(j) /\ i <= j)]

\* "seen", "unseen", or "unknown" if there is no independent channel.
SawGroundTruth(stimulus, truth) ==
  IF truth = None THEN "unknown"
  ELSE IF \E t \in truth : ObservationMatches(stimulus.five_tuple, t)
    THEN "seen"
    ELSE "unseen"

----------------------------------------------------------------------------
(* Verdicts                                                                 *)

\* field_complete: names missing, or empty
Missing(event, required) ==
  {f \in required : f \notin DOMAIN event.fields \/ event.fields[f] = ""}

Detected(gt, matched, strict) ==
  IF gt = "seen" \/ (gt = "unknown" /\ matched # None /\ ~strict)
    THEN "YES"
    ELSE "INCONCLUSIVE"

\* Mutant of Logged: nothing captured and nothing logged is a failure to log.
LoggedOrNot(gt, matched) == IF matched # None THEN "YES" ELSE "NO"

\* "NO" is taken back when the capture has not seen the stimulus either.
Logged(gt, matched) ==
  IF matched # None THEN "YES"
  ELSE IF gt = "unseen" THEN "INCONCLUSIVE" ELSE "NO"

VerdictOn(stimulus, matched, gt, strict) ==
  [matched |-> matched,
   detected |-> Detected(gt, matched, strict),
   logged |-> Logged(gt, matched),
   fields_complete |->
     IF matched = None THEN "INCONCLUSIVE"
     ELSE IF Missing(matched, stimulus.expected_fields) = {} THEN "YES" ELSE "NO"]

Evaluate(stimulus, events, truth, strict) ==
  VerdictOn(stimulus, Correlate(stimulus, events), SawGroundTruth(stimulus, truth), strict)

\* Mutant of Passed: what is inconclusive passes.
PassedUnlessNo(verdict) ==
  verdict.detected # "NO" /\ verdict.logged # "NO" /\ verdict.fields_complete # "NO"

Passed(verdict) ==
  verdict.detected = "YES" /\ verdict.logged = "YES" /\ verdict.fields_complete = "YES"

\* build_matrix
Matrix(stimuli, events, truth, strict) ==
  {Evaluate(s, events, truth, strict) : s \in stimuli}

\* CoverageMatrix.passed
MatrixPassed(rows) == rows # {} /\ \A r \in rows : Passed(r)

----------------------------------------------------------------------------
(* assertions.py                                                            *)

FindEvents(events, type, tuple) ==
  {i \in DOMAIN events :
    /\ events[i].event_type = type
    /\ tuple # None => ObservationMatches(tuple, events[i].five_tuple)}

EventPresent(events, type, tuple) == FindEvents(events, type, tuple) # {}
EventAbsent(events, type, tuple) == ~EventPresent(events, type, tuple)
=============================================================================
