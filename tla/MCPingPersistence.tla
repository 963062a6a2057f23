------------------------- MODULE MCPingPersistence -------------------------
(* TLC instances of PingPersistence. *)
EXTENDS PingPersistence

\* Not explored: after overlapping saves or a second signal, more than the
\* first minute and any stop; after the file has been spoiled, more than the
\* first minute; in a process that cannot load the file, the last minute.
FewMinutes ==
  /\ overlapped \/ signals = 2 => clock = 1 /\ stops = 0
  /\ spoiled => clock = 1
  /\ load # "done" /\ (signals > 0 \/ load = "failed") => clock < MaxMinutes
=============================================================================
