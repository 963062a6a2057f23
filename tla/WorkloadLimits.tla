--------------------------- MODULE WorkloadLimits ---------------------------
(***************************************************************************)
(* The limits of a workload, as the three places that enforce them have    *)
(* them: WorkloadLimits (generators/load_gen.py), validate_args and        *)
(* build_all_workloads (deploy/srx_workload.py), and the copy of the       *)
(* defaults in the dashboard's validate_request.                           *)
(*                                                                         *)
(* Arguments are a record with the field cmd, the name of the subcommand   *)
(* or of the do_ function, the field target, what its text is to those     *)
(* that read it (Targets), and the numbers and choices the command has.    *)
(* Paths and query names are ones that both copies of their checks accept. *)
(***************************************************************************)
EXTENDS Integers, Sequences, FiniteSets, FiniteSetsExt

DEFAULT_LIMITS ==
  [max_packets |-> 10000, max_rate_pps |-> 1000, max_ports |-> 4096,
   max_duration_s |-> 300, max_connections |-> 10000, max_threads |-> 64,
   max_parallel |-> 32, max_fragments |-> 64, max_workloads |-> 32]

LimitsValid(limits) ==
  /\ \A f \in DOMAIN limits : limits[f] > 0
  /\ limits.max_ports <= 65535

BoundedInt(value, maximum) == 1 <= value /\ value <= maximum
Has(a, f) == f \in DOMAIN a

\* Mutant of Interval: rounded down.
IntervalDown(rate) == 1000000 \div rate

\* Microseconds between two packets, rounded up.
Interval(rate) == (1000000 + rate - 1) \div rate

\* A host name; addresses, "shortened" one that begins with colons (::1); a
\* "loose" name, with characters no host name has or with a port (my_host,
\* host%1, host:80); a name before a port that is none (host:x, host:0); an
\* address in brackets.
Targets == {"name", "ipv4", "ipv6", "shortened", "loose", "badport", "bracketed"}

\* What ipaddress.ip_address takes.
Addresses == {"ipv4", "ipv6", "shortened"}

\* An address, or a name of letters, digits, dots and hyphens
TargetUrl(target) == target \in Addresses \cup {"name"}

\* urlsplit finds a host in http://<target>/, and no port or a valid one: what
\* follows the first colon of an address without brackets is none.
HttpPort(target) == target \in {"name", "ipv4", "loose", "bracketed"}

Wrk(limits, a) ==
  /\ BoundedInt(a.connections, limits.max_connections)
  /\ BoundedInt(a.threads, Min({limits.max_threads, a.connections}))
  /\ BoundedInt(a.duration, limits.max_duration_s)

Iperf(limits, a) ==
  /\ BoundedInt(a.duration, limits.max_duration_s)
  /\ BoundedInt(a.parallel, limits.max_parallel)
  /\ BoundedInt(a.port, 65535)

\* Mutant of Flood: the time is taken from the rate, not from the interval.
FloodByRate(limits, a) ==
  /\ a.type \in {"syn", "icmp", "udp"}
  /\ BoundedInt(a.count, limits.max_packets)
  /\ BoundedInt(a.rate, limits.max_rate_pps)
  /\ a.count <= limits.max_duration_s * a.rate

\* The last test is count * interval_us > max_duration_s * 1_000_000, divided
\* by the interval.
Flood(limits, a) ==
  /\ a.type \in {"syn", "icmp", "udp"}
  /\ BoundedInt(a.count, limits.max_packets)
  /\ BoundedInt(a.rate, limits.max_rate_pps)
  /\ a.count <= (limits.max_duration_s * 1000000) \div Interval(a.rate)

PortValid(a) ==
  \/ BoundedInt(a.port, 65535)
  \/ a.port = 0 /\ a.cmd = "flood" /\ a.type = "icmp"

ValidateArgs(limits, a) ==
  /\ Has(a, "port") => PortValid(a)
  /\ a.cmd = "crawl" =>
       BoundedInt(a.max_bytes, 4194304) /\ BoundedInt(a.timeout, 30) /\ TargetUrl(a.target)
  /\ a.cmd = "all" => BoundedInt(a.duration, limits.max_duration_s)
  /\ a.cmd = "scan" => BoundedInt(a.max_ports, limits.max_ports)
  /\ a.cmd = "flood" => Flood(limits, a)
  /\ a.cmd = "frag" => BoundedInt(a.count, limits.max_fragments)
  /\ a.cmd = "ttl" => BoundedInt(a.ttl, 255)
  /\ a.cmd = "wrk" => Wrk(limits, a) /\ HttpPort(a.target)
  /\ a.cmd = "iperf" => Iperf(limits, a)

----------------------------------------------------------------------------
(* The complete suite                                                       *)

OnPort(name, cmd, port) == [name |-> name, args |-> [cmd |-> cmd, port |-> port]]
Scan(name, type) == [name |-> name, args |-> [cmd |-> "scan", type |-> type, max_ports |-> 1024]]
FloodOf(name, type, port) ==
  [name |-> name,
   args |-> [cmd |-> "flood", type |-> type, port |-> port, count |-> 2000, rate |-> 500]]

AllWorkloads(a) ==
  << OnPort("http", "http", 80),
     [name |-> "dns", args |-> [cmd |-> "dns"]],
     OnPort("handshake-ftp", "handshake", 21),
     OnPort("eicar", "eicar", 80),
     OnPort("gtube", "gtube", 80),
     Scan("scan-syn", "syn"), Scan("scan-xmas", "xmas"), Scan("scan-fin", "fin"),
     FloodOf("flood-syn", "syn", 80), FloodOf("flood-icmp", "icmp", 0),
     FloodOf("flood-udp", "udp", 53),
     OnPort("malformed", "malformed", 80),
     OnPort("bad-checksum", "badcsum", 80),
     [name |-> "tiny-ttl", args |-> [cmd |-> "ttl", port |-> 80, ttl |-> 1]],
     [name |-> "fragments", args |-> [cmd |-> "frag", port |-> 80, count |-> 8]],
     OnPort("denied-port", "deny", 9),
     [name |-> "wrk", args |-> [cmd |-> "wrk", target |-> a.target, connections |-> 100,
                                threads |-> 4, duration |-> a.duration]],
     [name |-> "iperf3", args |-> [cmd |-> "iperf", port |-> 5201, duration |-> a.duration,
                                   parallel |-> 4]] >>

\* build_all_workloads returns, and run_concurrently's preflight passes.
BuildAll(limits, a) ==
  LET suite == AllWorkloads(a)
  IN  /\ BoundedInt(Len(suite), limits.max_workloads)
      /\ \A i \in DOMAIN suite : ValidateArgs(limits, suite[i].args)

\* WorkloadParser.parse_args does not end in self.error.
ParseArgs(limits, a) ==
  /\ LimitsValid(limits)
  /\ ValidateArgs(limits, a)
  /\ a.cmd = "all" => BuildAll(limits, a)

----------------------------------------------------------------------------
(* The dashboard                                                            *)

\* WORKLOADS: the numbers a workload takes
Params ==
  [http |-> {"port"}, crawl |-> {"port", "max_bytes", "timeout"}, dns |-> {},
   handshake |-> {"port"}, eicar |-> {"port"}, gtube |-> {"port"}, scan |-> {"max_ports"},
   flood |-> {"port", "count", "rate"}, malformed |-> {"port"}, badcsum |-> {"port"},
   ttl |-> {"port", "ttl"}, frag |-> {"port", "count"}, deny |-> {"port"},
   wrk |-> {"connections", "threads", "duration"},
   iperf |-> {"port", "parallel", "duration"}, all |-> {"duration"}]

AGGRESSIVE == {"scan", "flood", "malformed", "badcsum", "ttl", "frag", "deny", "all"}
CRAFTED == {"malformed", "badcsum", "ttl", "frag", "deny", "all"}

MirroredLimit(cmd, param) ==
  CASE param = "count" -> (IF cmd = "frag" THEN 64 ELSE 10000)
    [] OTHER -> [port |-> 65535, max_ports |-> 4096, ttl |-> 255, duration |-> 300,
                 rate |-> 1000, connections |-> 10000, threads |-> 64, parallel |-> 32,
                 max_bytes |-> 4194304, timeout |-> 30][param]

\* [A-Za-z0-9][A-Za-z0-9.:%_-]*
HostPattern(target) == target \notin {"shortened", "bracketed"}

\* Mutant of ValidateRequest: without the checks that relate two numbers.
ValidateEach(a, confirmed) ==
  /\ HostPattern(a.target)
  /\ a.cmd \in AGGRESSIVE => confirmed
  /\ \A p \in Params[a.cmd] : BoundedInt(a[p], MirroredLimit(a.cmd, p))

\* 300000000 is compared with count * interval as above.
ValidateRequest(a, confirmed) ==
  /\ HostPattern(a.target)
  /\ a.cmd \in AGGRESSIVE => confirmed
  /\ \A p \in Params[a.cmd] : BoundedInt(a[p], MirroredLimit(a.cmd, p))
  /\ a.cmd = "wrk" => a.threads <= a.connections
  /\ a.cmd = "flood" => a.count <= 300000000 \div Interval(a.rate)
=============================================================================
