--------------------------- MODULE MCWorkloadSuite ---------------------------
EXTENDS WorkloadSuite

Around(limit) == {0, 1, limit, limit + 1}

MCArguments ==
       [cmd : {"flood"}, target : {"name"}, type : {"syn", "icmp"}, port : {0, 80},
        count : {1, 301, 900, 10000, 10001}, rate : {1, 3, 1000, 1001}]
  \cup [cmd : {"wrk"}, target : {"name"}, connections : {1, 64, 10000, 10001},
        threads : {1, 2, 64, 65}, duration : {1, 301}]
  \cup [cmd : {"wrk"}, target : Targets, connections : {1}, threads : {1}, duration : {1}]
  \cup [cmd : {"iperf"}, target : {"badport"}, port : Around(65535), parallel : {1, 32, 33},
        duration : {300, 301}]
  \cup [cmd : {"frag"}, target : {"name"}, port : {80}, count : Around(64)]
  \cup [cmd : {"ttl"}, target : {"name"}, port : {80}, ttl : Around(255)]
  \cup [cmd : {"scan"}, target : {"name"}, max_ports : Around(4096)]
  \cup [cmd : {"crawl"}, target : {"name"}, port : {80}, max_bytes : {4194304, 4194305},
        timeout : {30, 31}]
  \cup [cmd : {"crawl"}, target : Targets, port : {80}, max_bytes : {1}, timeout : {1}]
  \cup [cmd : {"http", "deny"}, target : {"name"}, port : Around(65535)]
  \cup [cmd : {"all"}, target : {"name"}, duration : Around(300)]
  \cup [cmd : {"all"}, target : Targets, duration : {1}]

\* "http" and "flood-syn"
MCSuite == <<1, 9>>

\* A tool succeeds, or is ended by a signal.
MCCodes == {0, -9}

\* Too few workloads and too slow for the suite's floods, just long enough for
\* them, one that is no ceiling.
MCLimitSets ==
  {[DEFAULT_LIMITS EXCEPT !.max_workloads = 17, !.max_rate_pps = 100],
   [DEFAULT_LIMITS EXCEPT !.max_duration_s = 4],
   [DEFAULT_LIMITS EXCEPT !.max_ports = 65536]}

\* Pages within the cap, as long as it and longer, cut short or not
MCReplies ==
  LET Reply(class, identity, length, coding, size, sent) ==
        [status |-> class, identity |-> identity, length |-> length, coding |-> coding,
         size |-> size, sent |-> sent]
      whole == {1, 2, 3} \X {0, 1, 2, 3}
      sizes == {p \in whole : p[2] <= p[1]}
  IN  {Reply("2xx", TRUE, p[1], "none", p[1], p[2]) : p \in sizes}
        \cup {Reply("2xx", TRUE, None, c, p[1], p[2]) : p \in sizes, c \in {"none", "chunked"}}
        \cup {Reply("2xx", TRUE, 1, "chunked", 1, 1), Reply("2xx", TRUE, Invalid, "none", 1, 1),
              Reply("2xx", FALSE, 1, "none", 1, 1), Reply("3xx", TRUE, 1, "none", 1, 1),
              Reply("other", TRUE, 1, "none", 1, 1), Reply("2xx", TRUE, None, "other", 1, 1)}
=============================================================================
