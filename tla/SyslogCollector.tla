-------------------------- MODULE SyslogCollector --------------------------
(***************************************************************************)
(* collectors/syslog_collector.py: the receiving thread, its socket, the   *)
(* bounded buffer of events, start and stop, and parse_syslog_line.        *)
(*                                                                         *)
(* A line is [form, tag, sd, msg]: an RFC 5424 record, a legacy one or one *)
(* that is broken, its MSGID or tag, and the key/value pairs in its        *)
(* structured data and in its free text, as functions.  A datagram is one  *)
(* line; a TCP stream brings a line in two pieces, the newline in the      *)
(* second.  A line is parsed, stamped and added in one step.               *)
(***************************************************************************)
EXTENDS Correlator, SequencesExt

CONSTANTS Lines,      \* lines the firewall may log
          EventTags,  \* tags _TAG_RE matches
          LegacyTags, \* tags _LEGACY_TAG_RE matches
          MaxEvents,  \* max_events
          Protocols,  \* of "udp" and "tcp"
          MaxLogged,  \* bound: lines logged
          MaxTime,    \* bound: seconds
          MaxStarts   \* bound: calls of start

\* SyslogCollector.__init__ rejects a limit that is not positive.
ASSUME CollectorAssumption ==
  /\ \A line \in Lines :
       line = [form |-> line.form, tag |-> line.tag, sd |-> line.sd, msg |-> line.msg]
  /\ MaxEvents \in Nat \ {0}
  /\ Protocols \subseteq {"udp", "tcp"}
  /\ MaxLogged \in Nat /\ MaxTime \in Nat /\ MaxStarts \in Nat

Threads == 1 .. MaxStarts

VARIABLES
  clock,
  protocol, \* of the collector
  sock,     \* self._sock: the number of the start that opened it, 0 for None
  flag,     \* self._stop is set
  starts,   \* calls of start; self._thread is the thread of the last one
  stopping, \* stop is waiting in join
  late,     \* history: a join has timed out
  pc,       \* thread: "none", "loop", "receive", "conn", "chunk", "ingest" or
             \* "over"
  on,       \* thread: the socket it receives from
  buf,      \* thread: pieces of a line that is not complete
  todo,     \* thread: lines it has received and not ingested
  link,     \* the firewall's TCP connection: "none", "open" or "closed"
  server,   \* the thread that has accepted it, or 0
  inbox,    \* datagrams or pieces that have arrived
  events,   \* self._events
  dropped,  \* self._dropped_events
  logged,   \* history: lines the firewall has logged
  received  \* history: events added since the last clear

threadVars == <<pc, on, buf, todo>>
owner == <<sock, flag, starts, stopping, late>>
net == <<link, server, inbox>>
store == <<events, dropped, received>>
vars == <<clock, protocol, owner, threadVars, net, store, logged>>

----------------------------------------------------------------------------
(* parse_syslog_line                                                        *)

First(fields, keys) ==
  LET found == SelectSeq(keys, LAMBDA k : k \in DOMAIN fields /\ fields[k] # "")
  IN  IF found = <<>> THEN None ELSE fields[found[1]]

PortNumber == [text \in {"0", "80", "443"} |->
                 CASE text = "0" -> 0 [] text = "80" -> 80 [] OTHER -> 443]

ToInt(text) == IF text \in DOMAIN PortNumber THEN PortNumber[text] ELSE None

ProtocolName(raw) == CASE raw = "1" -> "ICMP" [] raw = "6" -> "TCP" [] raw = "17" -> "UDP"
                       [] raw = "47" -> "GRE" [] raw = "50" -> "ESP" [] OTHER -> Upper(raw)

\* Structured data only for RFC 5424, everything behind the tag for a legacy
\* line, where the last value of a name counts.
FieldsOf(line) == IF line.form = "rfc5424" THEN line.sd ELSE line.msg @@ line.sd

Recognized(line) ==
  \/ line.form = "rfc5424" /\ line.tag \in EventTags
  \/ line.form = "legacy" /\ line.tag \in LegacyTags

Parse(line, time) ==
  LET f == FieldsOf(line)
  IN  [event_type |-> line.tag,
       five_tuple |->
         [src_ip |-> First(f, <<"source-address", "src-ip", "nat-source-address">>),
          dst_ip |-> First(f, <<"destination-address", "dst-ip", "nat-destination-address">>),
          protocol |-> ProtocolName(First(f, <<"protocol-id", "protocol", "ip-protocol">>)),
          src_port |-> ToInt(First(f, <<"source-port", "src-port">>)),
          dst_port |-> ToInt(First(f, <<"destination-port", "dst-port">>))],
       timestamp |-> time, fields |-> f, raw |-> line]

----------------------------------------------------------------------------
(* The buffer                                                               *)

Latest(seq) == IF Len(seq) > MaxEvents THEN Tail(seq) ELSE seq

\* Mutant of AddEvent: evictions are not counted.
AddEventUncounted(event) ==
  /\ events' = Latest(Append(events, event))
  /\ received' = received \cup {event}
  /\ UNCHANGED dropped

\* Mutant of AddEvent: a list without maxlen.
AddEventUnbounded(event) ==
  /\ dropped' = IF Len(events) = MaxEvents THEN dropped + 1 ELSE dropped
  /\ events' = Append(events, event)
  /\ received' = received \cup {event}

\* add_event: under the lock, on a deque(maxlen=max_events)
AddEvent(event) ==
  /\ dropped' = IF Len(events) = MaxEvents THEN dropped + 1 ELSE dropped
  /\ events' = Latest(Append(events, event))
  /\ received' = received \cup {event}

Clear ==
  /\ events # <<>>
  /\ events' = <<>>
  /\ received' = {}
  /\ UNCHANGED <<clock, protocol, owner, threadVars, net, dropped, logged>>

\* Mutant of Query: the end of the interval is not included.
QueryHalfOpen(type, tuple, start, end) ==
  {i \in DOMAIN events :
    /\ type # None => events[i].event_type = type
    /\ tuple # None => ObservationMatches(tuple, events[i].five_tuple)
    /\ start # None => start <= events[i].timestamp
    /\ end # None => events[i].timestamp < end}

\* The places of the events that are returned, in their order.  An argument
\* that is None does not filter.
Query(type, tuple, start, end) ==
  {i \in DOMAIN events :
    /\ type # None => events[i].event_type = type
    /\ tuple # None => ObservationMatches(tuple, events[i].five_tuple)
    /\ start # None => start <= events[i].timestamp
    /\ end # None => events[i].timestamp <= end}

----------------------------------------------------------------------------
(* start and stop, called in turn: a second start cannot bind, and a stop of *)
(* a stopped collector changes nothing.                                     *)

Start ==
  /\ sock = 0
  /\ starts < MaxStarts
  /\ starts' = starts + 1
  /\ sock' = starts'
  /\ flag' = FALSE
  /\ pc' = [pc EXCEPT ![starts'] = "loop"]
  /\ UNCHANGED <<clock, protocol, stopping, late, on, buf, todo, net, store, logged>>

Stop ==
  /\ sock # 0 /\ ~stopping
  /\ flag' = TRUE
  /\ stopping' = TRUE
  /\ UNCHANGED <<clock, protocol, sock, starts, late, threadVars, net, store, logged>>

\* The socket closes; what has arrived at it is lost, but for the TCP
\* connection a thread has accepted.
Close ==
  /\ sock' = 0
  /\ stopping' = FALSE
  /\ IF server # 0 THEN UNCHANGED net ELSE link' = "none" /\ inbox' = <<>> /\ server' = 0

\* Mutant of Joined: stop does not wait for the thread.
NotJoined ==
  /\ stopping
  /\ Close
  /\ UNCHANGED <<clock, protocol, flag, starts, late, threadVars, store, logged>>

Joined ==
  /\ stopping
  /\ pc[starts] = "over"
  /\ Close
  /\ UNCHANGED <<clock, protocol, flag, starts, late, threadVars, store, logged>>

\* join(timeout=3.0): the loops look at the flag every half second, so the
\* thread must have been busy with what it had received.
JoinTimesOut ==
  /\ stopping
  /\ pc[starts] = "ingest"
  /\ Close
  /\ late' = TRUE
  /\ UNCHANGED <<clock, protocol, flag, starts, threadVars, store, logged>>

----------------------------------------------------------------------------
(* The receiving thread                                                     *)

Goto(t, place) == pc' = [pc EXCEPT ![t] = place]

\* while not self._stop.is_set(), and the look at self._sock, which raises
\* when it is None
Loop(t) ==
  /\ pc[t] = "loop"
  /\ IF flag \/ sock = 0 THEN Goto(t, "over") ELSE Goto(t, "receive")
  /\ on' = [on EXCEPT ![t] = sock]
  /\ UNCHANGED <<clock, protocol, owner, buf, todo, net, store, logged>>

\* recvfrom or accept times out, or raises because the socket was closed; or
\* conn.recv times out
NothingCame(t) ==
  /\ \/ pc[t] = "receive" /\ Goto(t, IF on[t] = sock THEN "loop" ELSE "over")
     \/ pc[t] = "chunk" /\ Goto(t, "conn")
  /\ UNCHANGED <<clock, protocol, owner, on, buf, todo, net, store, logged>>

\* recvfrom; datagrams may arrive in any order.
ReceiveDatagram(t) ==
  /\ protocol = "udp" /\ pc[t] = "receive" /\ on[t] = sock
  /\ \E i \in DOMAIN inbox :
       /\ todo' = [todo EXCEPT ![t] = <<inbox[i]>>]
       /\ inbox' = RemoveAt(inbox, i)
  /\ Goto(t, "ingest")
  /\ UNCHANGED <<clock, protocol, owner, on, buf, link, server, store, logged>>

\* Mutant of Accept: the rest of the connection before is not dropped.
AcceptKeeping(t) ==
  /\ protocol = "tcp" /\ pc[t] = "receive" /\ on[t] = sock
  /\ link # "none" /\ server = 0
  /\ server' = t
  /\ Goto(t, "conn")
  /\ UNCHANGED <<clock, protocol, owner, on, buf, todo, link, inbox, store, logged>>

Accept(t) ==
  /\ protocol = "tcp" /\ pc[t] = "receive" /\ on[t] = sock
  /\ link # "none" /\ server = 0
  /\ server' = t
  /\ buf' = [buf EXCEPT ![t] = <<>>]
  /\ Goto(t, "conn")
  /\ UNCHANGED <<clock, protocol, owner, on, todo, link, inbox, store, logged>>

\* The line that pieces make up: its beginning gives form and tag, its end the
\* fields.
Assemble(pieces) ==
  [Last(pieces).line EXCEPT
     !.form = IF pieces[1].part = "head" THEN pieces[1].line.form ELSE "broken",
     !.tag = pieces[1].line.tag]

\* The complete lines of a text, and what is left.
SplitLines(text) ==
  LET ends == {i \in DOMAIN text : text[i].part = "tail"}
      count == Cardinality(ends)
      end(n) == CHOOSE i \in ends : Cardinality({j \in ends : j <= i}) = n
      begin(n) == IF n = 1 THEN 1 ELSE end(n - 1) + 1
  IN  [lines |-> [n \in 1 .. count |-> Assemble(SubSeq(text, begin(n), end(n)))],
       rest |-> SubSeq(text, begin(count + 1), Len(text))]

\* while not self._stop.is_set(), on a connection: the flag may be set while
\* the thread is in the recv that follows.
AwaitChunk(t) ==
  /\ pc[t] = "conn" /\ ~flag
  /\ Goto(t, "chunk")
  /\ UNCHANGED <<clock, protocol, owner, on, buf, todo, net, store, logged>>

\* conn.recv, a chunk of any length
ReceiveChunk(t) ==
  /\ pc[t] = "chunk"
  /\ \E n \in DOMAIN inbox :
       LET split == SplitLines(buf[t] \o SubSeq(inbox, 1, n))
       IN  /\ inbox' = SubSeq(inbox, n + 1, Len(inbox))
           /\ buf' = [buf EXCEPT ![t] = split.rest]
           /\ todo' = [todo EXCEPT ![t] = split.lines]
           /\ Goto(t, IF split.lines = <<>> THEN "conn" ELSE "ingest")
  /\ UNCHANGED <<clock, protocol, owner, on, link, server, store, logged>>

\* The end of the stream, or the flag: `with conn' closes the connection.
LeaveConnection(t) ==
  /\ \/ pc[t] = "conn" /\ flag
     \/ pc[t] = "chunk" /\ inbox = <<>> /\ link = "closed"
  /\ link' = "none" /\ server' = 0 /\ inbox' = <<>>
  /\ Goto(t, "loop")
  /\ UNCHANGED <<clock, protocol, owner, on, buf, todo, store, logged>>

\* _ingest, one line
Ingest(t) ==
  /\ pc[t] = "ingest"
  /\ LET line == Head(todo[t])
     IN  IF Recognized(line) THEN AddEvent(Parse(line, clock)) ELSE UNCHANGED store
  /\ todo' = [todo EXCEPT ![t] = Tail(@)]
  /\ Goto(t, IF Len(todo[t]) > 1 THEN "ingest" ELSE IF server = t THEN "conn" ELSE "loop")
  /\ UNCHANGED <<clock, protocol, owner, on, buf, net, logged>>

----------------------------------------------------------------------------
(* The firewall and the network                                             *)

Pieces(line) == <<[part |-> "head", line |-> line], [part |-> "tail", line |-> line]>>

\* A datagram may be lost, and a line is lost when there is no connection.
Log(line) ==
  /\ Len(logged) < MaxLogged
  /\ logged' = Append(logged, line)
  /\ \/ UNCHANGED inbox
     \/ protocol = "udp" /\ sock # 0 /\ inbox' = Append(inbox, line)
     \/ protocol = "tcp" /\ link = "open" /\ inbox' = inbox \o Pieces(line)
  /\ UNCHANGED <<clock, protocol, owner, threadVars, link, server, store>>

Connect ==
  /\ protocol = "tcp" /\ sock # 0 /\ link = "none"
  /\ link' = "open"
  /\ UNCHANGED <<clock, protocol, owner, threadVars, server, inbox, store, logged>>

\* The connection ends; of what is on its way a prefix arrives.
Disconnect ==
  /\ link = "open"
  /\ link' = "closed"
  /\ \E n \in 0 .. Len(inbox) : inbox' = SubSeq(inbox, 1, n)
  /\ UNCHANGED <<clock, protocol, owner, threadVars, server, store, logged>>

Tick ==
  /\ clock < MaxTime
  /\ clock' = clock + 1
  /\ UNCHANGED <<protocol, owner, threadVars, net, store, logged>>

----------------------------------------------------------------------------

Init ==
  /\ clock = 0
  /\ protocol \in Protocols
  /\ sock = 0 /\ flag = FALSE /\ starts = 0 /\ stopping = FALSE /\ late = FALSE
  /\ pc = [t \in Threads |-> "none"]
  /\ on = [t \in Threads |-> 0]
  /\ buf = [t \in Threads |-> <<>>]
  /\ todo = [t \in Threads |-> <<>>]
  /\ link = "none" /\ server = 0 /\ inbox = <<>>
  /\ events = <<>> /\ dropped = 0
  /\ logged = <<>> /\ received = {}

Run(t) ==
  \/ Loop(t) \/ NothingCame(t) \/ ReceiveDatagram(t)
  \/ Accept(t) \/ AwaitChunk(t) \/ ReceiveChunk(t) \/ LeaveConnection(t) \/ Ingest(t)

Next ==
  \/ Start \/ Stop \/ Joined \/ JoinTimesOut \/ Clear
  \/ \E t \in Threads : Run(t)
  \/ \E line \in Lines : Log(line)
  \/ Connect \/ Disconnect \/ Tick

Spec == Init /\ [][Next]_vars
=============================================================================
