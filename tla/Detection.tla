----------------------------- MODULE Detection -----------------------------
(***************************************************************************)
(* The collector composed with the correlator: what a verdict on a         *)
(* stimulus means when the events are those a SyslogCollector has just     *)
(* then, for stimuli sent at any time before, any evidence of a            *)
(* PcapCapture, both modes.                                                *)
(***************************************************************************)
EXTENDS SyslogCollector, PcapCapture

CONSTANTS Descriptors, \* stimuli without their timestamps
          Truths,      \* evidence: None or sets of five-tuples
          Captures     \* sets of packets

\* None is no event, no five-tuple and no capture.  A packet has what its
\* headers say, and the number of its protocol.
ASSUME DetectionAssumption ==
  /\ \A line \in Lines, time \in 0 .. MaxTime : Parse(line, time) # None
  /\ \A d \in Descriptors :
       /\ d.five_tuple = [f \in TupleFields |-> d.five_tuple[f]]
       /\ d.five_tuple # None /\ d.expected_event_type # None
  /\ None \notin Readers /\ None \notin Captures
  /\ \A c \in Captures :
       /\ \A r \in Readers : ExtractFiveTuples(c, r) # None
       /\ \A p \in c : p.ip # None =>
            /\ None \notin {p.ip.src, p.ip.dst, p.ip.proto}
            /\ p.ip.proto \notin {"tcp", "udp"}
            /\ \A header \in {p.tcp, p.udp} \ {None} : None \notin {header.src, header.dst}

\* The stimuli that may have been sent by now.
Stimuli ==
  {[five_tuple |-> d.five_tuple, expected_event_type |-> d.expected_event_type,
    expected_fields |-> d.expected_fields, timestamp |-> time] :
     d \in Descriptors, time \in 0 .. clock}

\* What a capture says by either reader.
Observations ==
  {[capture |-> c, reader |-> r, truth |-> ExtractFiveTuples(c, r)] :
     c \in Captures, r \in Readers}
    \cup {[capture |-> None, reader |-> None, truth |-> None]}

----------------------------------------------------------------------------
(* Properties                                                               *)

TypeOK ==
  /\ clock \in 0 .. MaxTime
  /\ protocol \in Protocols
  /\ sock \in {0, starts}
  /\ starts \in 0 .. MaxStarts
  /\ {flag, stopping, late} \subseteq BOOLEAN
  /\ pc \in [Threads -> {"none", "loop", "receive", "conn", "chunk", "ingest", "over"}]
  /\ on \in [Threads -> 0 .. MaxStarts]
  /\ link \in {"none", "open", "closed"}
  /\ server \in 0 .. MaxStarts
  /\ Len(events) <= MaxEvents
  /\ dropped \in Nat
  /\ Len(logged) <= MaxLogged

\* docs/05-correlation-model.md:42-45, the closest candidate wins, and of equally
\* close ones the one received first.
Closest(s, i) ==
  /\ Matches(s, events[i])
  /\ \A j \in DOMAIN events : Matches(s, events[j]) =>
       IF j < i THEN Distance(s, events[j]) > Distance(s, events[i])
                ELSE Distance(s, events[j]) >= Distance(s, events[i])

\* The names for which an event has a value
Carried(ev) == {f \in DOMAIN ev.fields : ev.fields[f] # ""}

\* docs/05-correlation-model.md:96-103, the table of verdicts, and strict mode:
\* "matching log" and "independent tuple evidence" as they are defined there;
\* and the fields are those of the closest event, though another were complete.
VerdictTable ==
  \A s \in Stimuli :
    LET m == Correlate(s, events)
        log == \E ev \in Entries(events) :
                 /\ ev.event_type = s.expected_event_type
                 /\ ev.timestamp \in s.timestamp - Skew .. s.timestamp + Window + Skew
                 /\ ObservationMatches(s.five_tuple, ev.five_tuple)
        complete == \E i \in DOMAIN events :
                      Closest(s, i) /\ s.expected_fields \subseteq Carried(events[i])
        verdict(truth, strict) == VerdictOn(s, m, SawGroundTruth(s, truth), strict)
    IN  /\ (verdict(None, FALSE).fields_complete = "YES") = complete
        /\ \A truth \in Truths, strict \in BOOLEAN :
             LET v == verdict(truth, strict)
                 present == \E t \in truth : ObservationMatches(s.five_tuple, t)
             IN  IF truth = None
                   THEN /\ v.logged = (IF log THEN "YES" ELSE "NO")
                        /\ v.detected = (IF log /\ ~strict THEN "YES" ELSE "INCONCLUSIVE")
                   ELSE /\ v.detected = (IF present THEN "YES" ELSE "INCONCLUSIVE")
                        /\ v.logged = (IF log THEN "YES"
                                       ELSE IF present THEN "NO" ELSE "INCONCLUSIVE")

\* The packet's own headers are compatible with a stimulus.
OwnHeadersMatch(t, p) ==
  LET own == CASE p.ip.proto = "6" -> p.tcp [] p.ip.proto = "17" -> p.udp [] OTHER -> None
  IN  /\ t.src_ip \in {None, p.ip.src} /\ t.dst_ip \in {None, p.ip.dst}
      /\ t.protocol # None => Upper(t.protocol) = ProtoNum(p.ip.proto)
      /\ own # None => t.src_port \in {None, own.src} /\ t.dst_port \in {None, own.dst}

\* A matrix passes only with evidence for every stimulus: an event in its
\* window with an address, of its type and complete; and only with an
\* independent channel in strict mode.  If that is a capture, it has an
\* IPv4 packet between the stimulus's addresses, which as tshark reads it is of
\* its own protocol and ports, not of a packet it carries or quotes.
PassIsJustified ==
  \A time \in 0 .. clock :
    LET suite == {s \in Stimuli : s.timestamp = time}
    IN  \A strict \in BOOLEAN, seen \in Observations :
         MatrixPassed(Matrix(suite, events, seen.truth, strict)) =>
           /\ strict => seen.capture # None
           /\ \A s \in suite : \E ev \in Entries(events) :
                /\ ev.event_type = s.expected_event_type
                /\ ev.timestamp \in time - Skew .. time + Window + Skew
                /\ {ev.five_tuple.src_ip, ev.five_tuple.dst_ip} # {None}
                /\ s.expected_fields \subseteq Carried(ev)
           /\ seen.reader = "tshark" =>
                \A s \in suite : \E p \in seen.capture :
                  p.ip # None /\ OwnHeadersMatch(s.five_tuple, p)

\* An event is one line that the firewall has logged, however the stream was cut
\* into chunks and connections; and "Expected telemetry not found: possible
\* logging gap" (correlator.py:360), an empty query over the window or
\* event_absent are said of a line that was received in the window only if the
\* buffer has evicted events and says so (docs/05-correlation-model.md:74-76).
EventsTellTheLog ==
  /\ \A ev \in received : ev.raw \in Entries(logged)
  /\ dropped = 0 =>
       \A s \in {s \in Stimuli : \E ev \in received : Matches(s, ev)} :
         /\ Correlate(s, events) # None
         /\ {ev \in received : Matches(s, ev)} =
              {events[i] : i \in Query(s.expected_event_type, s.five_tuple,
                                       s.timestamp - Skew, s.timestamp + Window + Skew)}
         /\ ~EventAbsent(events, s.expected_event_type, s.five_tuple)

\* After stop has returned no event is added until the next start, unless its
\* join has timed out.
SilentAfterStop == [][sock = 0 /\ ~late => received' \subseteq received]_vars
=============================================================================
