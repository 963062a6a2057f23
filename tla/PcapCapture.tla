----------------------------- MODULE PcapCapture -----------------------------
(***************************************************************************)
(* extract_five_tuples of collectors/pcap_capture.py: the independent      *)
(* evidence that a packet capture gives the correlator, by either of its   *)
(* two readers.                                                            *)
(*                                                                         *)
(* A capture is a set of packets [ip, tcp, udp, quoted]:                   *)
(*   ip        the outermost IPv4 header, [src, dst, proto], or None       *)
(*   tcp, udp  the ports [src, dst] of the first such header, whether it   *)
(*             is the packet's own or one inside a tunnel, or None         *)
(*   quoted    these headers are what an ICMP error quotes                 *)
(***************************************************************************)
EXTENDS Correlator

Readers == {"tshark", "scapy"}

\* _PROTO_NUM.get(p, p)
ProtoNum(p) == CASE p = "1" -> "ICMP" [] p = "6" -> "TCP" [] p = "17" -> "UDP"
                 [] p = "47" -> "GRE" [] p = "50" -> "ESP" [] OTHER -> p

NoPorts == [src |-> None, dst |-> None]
PortsOf(header) == IF header = None THEN NoPorts ELSE header

Tuple(ip, protocol, ports) ==
  [src_ip |-> ip.src, dst_ip |-> ip.dst, protocol |-> protocol,
   src_port |-> ports.src, dst_port |-> ports.dst]

\* Mutant of WithTshark: any transport header found counts.
WithTsharkInner(p) ==
  IF p.tcp # None THEN Tuple(p.ip, "TCP", p.tcp)
  ELSE IF p.udp # None THEN Tuple(p.ip, "UDP", p.udp)
  ELSE Tuple(p.ip, ProtoNum(p.ip.proto), NoPorts)

\* "Select ports from the IP protocol, not an unrelated inner transport"
WithTshark(p) ==
  Tuple(p.ip, ProtoNum(p.ip.proto),
        CASE p.ip.proto = "6" -> PortsOf(p.tcp)
          [] p.ip.proto = "17" -> PortsOf(p.udp)
          [] OTHER -> NoPorts)

\* `TCP in pkt' finds the header inside a tunnel, but scapy has types of their
\* own for what an ICMP error quotes.
WithScapy(p) ==
  IF p.tcp # None /\ ~p.quoted THEN Tuple(p.ip, "TCP", p.tcp)
  ELSE IF p.udp # None /\ ~p.quoted THEN Tuple(p.ip, "UDP", p.udp)
  ELSE Tuple(p.ip, ProtoNum(p.ip.proto), NoPorts)

\* Rows without an IPv4 header are rejected.
ExtractFiveTuples(capture, reader) ==
  {IF reader = "tshark" THEN WithTshark(p) ELSE WithScapy(p) :
     p \in {p \in capture : p.ip # None}}
=============================================================================
