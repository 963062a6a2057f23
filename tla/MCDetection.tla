---------------------------- MODULE MCDetection ----------------------------
(* TLC instance of Detection: one server, a full and a partial log of it, a *)
(* TCP and a UDP stimulus.                                                 *)
EXTENDS Detection

Line(form, sd, msg) == [form |-> form, tag |-> "CREATE", sd |-> sd, msg |-> msg]

\* The pairs of a line, from their names and their values
Fields(names, values) ==
  [n \in ToSet(names) |-> values[CHOOSE i \in DOMAIN names : names[i] = n]]

MCLines == {
  Line("rfc5424",
       Fields(<<"source-address", "destination-address", "destination-port", "protocol-id",
                "policy-name">>,
              <<"client", "server", "80", "6", "permit">>),
       Fields(<<"destination-address">>, <<"text">>)),
  \* compatible with both stimuli, and incomplete for the first
  Line("legacy", Fields(<<"dst-ip">>, <<"server">>), Fields(<<"policy-name">>, <<"">>)) }

TcpTuple == [src_ip |-> "client", dst_ip |-> "server", protocol |-> "tcp",
             src_port |-> None, dst_port |-> 80]

UdpTuple == [src_ip |-> None, dst_ip |-> "server", protocol |-> "udp",
             src_port |-> None, dst_port |-> None]

MCDescriptors == {
  [five_tuple |-> TcpTuple, expected_event_type |-> "CREATE",
   expected_fields |-> {"policy-name"}],
  [five_tuple |-> UdpTuple, expected_event_type |-> "CREATE", expected_fields |-> {}] }

\* No capture, one without observations that count, and one of the TCP stimulus
MCTruths == {
  None,
  {[TcpTuple EXCEPT !.src_ip = "bad"], [TcpTuple EXCEPT !.src_ip = None, !.dst_ip = None]},
  {[TcpTuple EXCEPT !.protocol = "TCP", !.src_port = 443]} }

Packet(proto, tcp, udp, quoted) ==
  [ip |-> [src |-> "client", dst |-> "server", proto |-> proto],
   tcp |-> tcp, udp |-> udp, quoted |-> quoted]
Ports(dst) == [src |-> 443, dst |-> dst]

\* What both stimuli send, with a packet of IPv6; and with a tunnel and an
\* ICMP error that only carry what the TCP stimulus sends.
MCCaptures ==
  { {Packet("6", Ports(80), None, FALSE), Packet("17", None, Ports(53), FALSE),
     [ip |-> None, tcp |-> Ports(80), udp |-> None, quoted |-> FALSE]},
    {Packet("47", Ports(80), None, FALSE), Packet("1", Ports(80), None, TRUE),
     Packet("6", Ports(443), None, FALSE), Packet("17", None, Ports(53), FALSE)} }

\* Two lines are enough for a stream to be cut anywhere, and for two threads to
\* meet after a restart; the third one overflows the buffer.
FewLines ==
  /\ protocol = "tcp" => Len(logged) <= 2
  /\ starts = 2 => Len(logged) <= 2 /\ clock = 0
=============================================================================
