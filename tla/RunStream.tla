----------------------------- MODULE RunStream -----------------------------
(***************************************************************************)
(* The live output of one run of srx-dashboard/dashboard.py: the event     *)
(* ring and subscriber queues of class Run, the handler threads that serve *)
(* /api/stream, and the browsers' EventSources, which reconnect with       *)
(* Last-Event-ID when a connection ends.                                   *)
(*                                                                         *)
(* An event is its sequence number; 0 is the reset frame, which the code   *)
(* sends with id 0; None is the sentinel of a cut-off queue.  The text of  *)
(* an event is left out: its kind is "end" exactly when it is `terminal'.  *)
(*                                                                         *)
(* run.lock is held from the start of _publish until every subscriber in   *)
(* `todo' has been served and no queue is being drained.  The queues have  *)
(* locks of their own: a handler takes from its queue at any time, in      *)
(* particular while _publish is draining it.                               *)
(***************************************************************************)
EXTENDS Integers, Sequences, FiniteSets

CONSTANTS Clients,         \* browsers that follow the run
          Handlers,        \* handler threads, one per open connection
          None,            \* the sentinel, and "nobody"
          MaxLines,        \* MAX_LINES: events retained in the ring
          QueueSize,       \* QUEUE_SIZE: events a subscriber may lag
          MaxSubscribers,  \* MAX_SUBSCRIBERS
          MaxEvents,       \* bound: events a run publishes, the end included
          MaxBreaks        \* bound: connections that break under a viewer

ASSUME StreamAssumption ==
  /\ MaxLines \in Nat \ {0}
  /\ QueueSize \in Nat \ {0}
  /\ MaxSubscribers \in Nat \ {0}
  /\ MaxEvents \in Nat \ {0}
  /\ MaxBreaks \in Nat
  /\ None \notin Handlers
  /\ None \notin Nat

VARIABLES
  events,       \* Run.events: the ring, oldest first
  sequence,     \* Run.sequence: the number of the latest event
  terminal,     \* Run.terminal: the number of the end event, 0 before it
  subscribers,  \* Run.subscribers: handlers whose queue receives events
  todo,         \* subscribers _publish has still to serve
  victim,       \* the handler whose full queue _publish is draining, or None
  pc,           \* handler: "idle", "replay", "live" or "closing"
  queue,        \* handler: its queue.Queue
  backlog,      \* handler: frames it has still to replay
  done,         \* handler: the `done' that subscribe returned
  conn,         \* browser: the handler at the other end, or None
  lastId,       \* browser: the Last-Event-ID of its EventSource
  status,       \* browser: "watching", "ended", "refused" or "left"
  breaks,       \* connections broken so far
  cleared,      \* history: the browser's last frame was a reset
  skipped       \* history: the browser missed an event and was not told

runVars == <<events, sequence, terminal, subscribers, todo, victim>>
handlerVars == <<pc, queue, backlog, done>>
clientVars == <<conn, lastId, status, cleared, skipped>>
vars == <<runVars, handlerVars, clientVars, breaks>>

Locked == todo # {} \/ victim # None

----------------------------------------------------------------------------
(* The ring: deque(maxlen=MAX_LINES).append, and what subscribe reads of it *)

AppendBounded(ring, e) ==
  IF Len(ring) < MaxLines THEN Append(ring, e) ELSE Append(Tail(ring), e)

\* Mutant of Newer: e[0] >= last_id.
NewerOrEqual(ring, last) ==
  LET from == CHOOSE k \in 1 .. Len(ring) + 1 :
                \A i \in 1 .. Len(ring) : ring[i] >= last <=> i >= k
  IN  SubSeq(ring, from, Len(ring))

\* [e for e in self.events if e[0] > last_id]: the ring is ascending, so the
\* comprehension keeps a suffix.
Newer(ring, last) ==
  LET from == CHOOSE k \in 1 .. Len(ring) + 1 :
                \A i \in 1 .. Len(ring) : ring[i] > last <=> i >= k
  IN  SubSeq(ring, from, Len(ring))

\* Mutant of PrefixLost: off by one, the first lost event goes unnoticed.
PrefixLostLate(last) ==
  events # <<>> /\ (last < Head(events) - 2 \/ last > sequence)

PrefixLost(last) ==
  events # <<>> /\ (last < Head(events) - 1 \/ last > sequence)

Replay(last) ==
  LET frames == IF PrefixLost(last) THEN <<0>> \o events ELSE Newer(events, last)
  IN  IF terminal # 0 /\ \A i \in 1 .. Len(frames) : frames[i] # terminal
        THEN Append(frames, terminal)
        ELSE frames

----------------------------------------------------------------------------
(* The thread that runs the workload: Run.emit, Run.finish, Run._publish    *)

Publish ==
  /\ ~Locked
  /\ terminal = 0
  /\ sequence' = sequence + 1
  /\ events' = AppendBounded(events, sequence + 1)
  /\ todo' = subscribers
  /\ UNCHANGED <<subscribers, victim, handlerVars, clientVars, breaks>>

\* One number is kept back for the end event.
Emit ==
  /\ sequence + 1 < MaxEvents
  /\ Publish
  /\ UNCHANGED terminal

Finish ==
  /\ Publish
  /\ terminal' = sequence + 1

\* q.put_nowait(event) finds room.
PutEvent(h) ==
  /\ victim = None
  /\ h \in todo
  /\ Len(queue[h]) < QueueSize
  /\ queue' = [queue EXCEPT ![h] = Append(@, sequence)]
  /\ todo' = todo \ {h}
  /\ UNCHANGED <<events, sequence, terminal, subscribers, victim,
                 pc, backlog, done, clientVars, breaks>>

\* q.put_nowait(event) raises Full.
CutOff(h) ==
  /\ victim = None
  /\ h \in todo
  /\ Len(queue[h]) >= QueueSize
  /\ subscribers' = subscribers \ {h}
  /\ victim' = h
  /\ todo' = todo \ {h}
  /\ UNCHANGED <<events, sequence, terminal, handlerVars, clientVars, breaks>>

\* One q.get_nowait() of the draining loop.
Drain(h) ==
  /\ victim = h
  /\ queue[h] # <<>>
  /\ queue' = [queue EXCEPT ![h] = Tail(@)]
  /\ UNCHANGED <<runVars, pc, backlog, done, clientVars, breaks>>

\* Mutant of PutSentinel: the drained queue is left empty.
PutNoSentinel(h) ==
  /\ victim = h
  /\ queue[h] = <<>>
  /\ victim' = None
  /\ UNCHANGED <<events, sequence, terminal, subscribers, todo,
                 handlerVars, clientVars, breaks>>

\* q.get_nowait() raises Empty: the loop ends and the sentinel goes in.
PutSentinel(h) ==
  /\ victim = h
  /\ queue[h] = <<>>
  /\ queue' = [queue EXCEPT ![h] = <<None>>]
  /\ victim' = None
  /\ UNCHANGED <<events, sequence, terminal, subscribers, todo,
                 pc, backlog, done, clientVars, breaks>>

----------------------------------------------------------------------------
(* A handler thread: the /api/stream branch of Handler.do_GET               *)

\* What the EventSource at the other end of h, if there still is one, does
\* with a frame.  Frames written after it has gone are lost.
Deliver(h, frame) ==
  LET at == {c \in Clients : conn[c] = h}
      isEnd == frame = terminal /\ frame # 0
  IN  /\ lastId' = [c \in Clients |-> IF c \in at THEN frame ELSE lastId[c]]
      /\ cleared' = [c \in Clients |-> IF c \in at THEN frame = 0 ELSE cleared[c]]
      /\ skipped' = [c \in Clients |->
                       \/ skipped[c]
                       \/ /\ c \in at /\ frame # 0 /\ ~cleared[c]
                          /\ frame # lastId[c] + 1]
      /\ status' = [c \in Clients |-> IF c \in at /\ isEnd THEN "ended" ELSE status[c]]
      /\ conn' = [c \in Clients |-> IF c \in at /\ isEnd THEN None ELSE conn[c]]

\* subscribe() under run.lock, for a browser that (re)connects.
Subscribe(c, h) ==
  /\ ~Locked
  /\ status[c] = "watching"
  /\ conn[c] = None
  /\ pc[h] = "idle"
  /\ Cardinality(subscribers) < MaxSubscribers
  /\ backlog' = [backlog EXCEPT ![h] = Replay(lastId[c])]
  /\ done' = [done EXCEPT ![h] = terminal # 0]
  /\ subscribers' = IF terminal = 0 THEN subscribers \cup {h} ELSE subscribers
  /\ queue' = [queue EXCEPT ![h] = <<>>]
  /\ pc' = [pc EXCEPT ![h] = "replay"]
  /\ conn' = [conn EXCEPT ![c] = h]
  /\ UNCHANGED <<events, sequence, terminal, todo, victim,
                 lastId, status, cleared, skipped, breaks>>

\* subscribe() raises ValueError and the handler answers 400, after which an
\* EventSource does not try again.
Refuse(c) ==
  /\ ~Locked
  /\ status[c] = "watching"
  /\ conn[c] = None
  /\ Cardinality(subscribers) >= MaxSubscribers
  /\ status' = [status EXCEPT ![c] = "refused"]
  /\ UNCHANGED <<runVars, handlerVars, conn, lastId, cleared, skipped, breaks>>

WriteBacklog(h) ==
  /\ pc[h] = "replay"
  /\ backlog[h] # <<>>
  /\ backlog' = [backlog EXCEPT ![h] = Tail(@)]
  /\ Deliver(h, Head(backlog[h]))
  /\ UNCHANGED <<runVars, pc, queue, done, breaks>>

EndReplay(h) ==
  /\ pc[h] = "replay"
  /\ backlog[h] = <<>>
  /\ pc' = [pc EXCEPT ![h] = IF done[h] THEN "closing" ELSE "live"]
  /\ UNCHANGED <<runVars, queue, backlog, done, clientVars, breaks>>

\* Mutant of ServeEvent: the sentinel is written like an event.
ServeAnything(h) ==
  /\ pc[h] = "live"
  /\ queue[h] # <<>>
  /\ queue' = [queue EXCEPT ![h] = Tail(@)]
  /\ pc' = [pc EXCEPT ![h] = IF Head(queue[h]) = terminal THEN "closing" ELSE "live"]
  /\ Deliver(h, Head(queue[h]))
  /\ UNCHANGED <<runVars, backlog, done, breaks>>

\* q.get() returns an event, which is written; "end" ends the loop.
ServeEvent(h) ==
  /\ pc[h] = "live"
  /\ queue[h] # <<>>
  /\ Head(queue[h]) # None
  /\ queue' = [queue EXCEPT ![h] = Tail(@)]
  /\ pc' = [pc EXCEPT ![h] = IF Head(queue[h]) = terminal THEN "closing" ELSE "live"]
  /\ Deliver(h, Head(queue[h]))
  /\ UNCHANGED <<runVars, backlog, done, breaks>>

\* q.get() returns the sentinel: return, and let the browser reconnect.
ServeSentinel(h) ==
  /\ pc[h] = "live"
  /\ queue[h] # <<>>
  /\ Head(queue[h]) = None
  /\ queue' = [queue EXCEPT ![h] = Tail(@)]
  /\ pc' = [pc EXCEPT ![h] = "closing"]
  /\ UNCHANGED <<runVars, backlog, done, clientVars, breaks>>

\* A write, of a frame or of a keepalive, raises OSError because the browser
\* has gone.
WriteFails(h) ==
  /\ pc[h] \in {"replay", "live"}
  /\ \A c \in Clients : conn[c] # h
  /\ pc' = [pc EXCEPT ![h] = "closing"]
  /\ UNCHANGED <<runVars, queue, backlog, done, clientVars, breaks>>

\* Mutant of Unsubscribe: the queue stays in subscribers.
CloseOnly(h) ==
  /\ pc[h] = "closing"
  /\ ~Locked
  /\ pc' = [pc EXCEPT ![h] = "idle"]
  /\ queue' = [queue EXCEPT ![h] = <<>>]
  /\ backlog' = [backlog EXCEPT ![h] = <<>>]
  /\ conn' = [c \in Clients |-> IF conn[c] = h THEN None ELSE conn[c]]
  /\ UNCHANGED <<events, sequence, terminal, subscribers, todo, victim, done,
                 lastId, status, cleared, skipped, breaks>>

\* finally: run.unsubscribe(q), and the connection is closed: the EventSource
\* that was still attached will reconnect.
Unsubscribe(h) ==
  /\ pc[h] = "closing"
  /\ ~Locked
  /\ subscribers' = subscribers \ {h}
  /\ pc' = [pc EXCEPT ![h] = "idle"]
  /\ queue' = [queue EXCEPT ![h] = <<>>]
  /\ backlog' = [backlog EXCEPT ![h] = <<>>]
  /\ conn' = [c \in Clients |-> IF conn[c] = h THEN None ELSE conn[c]]
  /\ UNCHANGED <<events, sequence, terminal, todo, victim, done,
                 lastId, status, cleared, skipped, breaks>>

----------------------------------------------------------------------------
(* The network and the users                                                *)

\* The connection breaks, or its socket timeout expires under a slow browser.
\* The handler finds out when a later write fails.
Break(c) ==
  /\ breaks < MaxBreaks
  /\ conn[c] # None
  /\ conn' = [conn EXCEPT ![c] = None]
  /\ breaks' = breaks + 1
  /\ UNCHANGED <<runVars, handlerVars, lastId, status, cleared, skipped>>

\* The page is closed, or follows another run: currentEs.close().
Leave(c) ==
  /\ status[c] = "watching"
  /\ status' = [status EXCEPT ![c] = "left"]
  /\ conn' = [conn EXCEPT ![c] = None]
  /\ UNCHANGED <<runVars, handlerVars, lastId, cleared, skipped, breaks>>

----------------------------------------------------------------------------

Init ==
  /\ events = <<>>
  /\ sequence = 0
  /\ terminal = 0
  /\ subscribers = {}
  /\ todo = {}
  /\ victim = None
  /\ pc = [h \in Handlers |-> "idle"]
  /\ queue = [h \in Handlers |-> <<>>]
  /\ backlog = [h \in Handlers |-> <<>>]
  /\ done = [h \in Handlers |-> FALSE]
  /\ conn = [c \in Clients |-> None]
  /\ lastId = [c \in Clients |-> 0]
  /\ status = [c \in Clients |-> "watching"]
  /\ breaks = 0
  /\ cleared = [c \in Clients |-> FALSE]
  /\ skipped = [c \in Clients |-> FALSE]

Publisher(h) == PutEvent(h) \/ CutOff(h) \/ Drain(h) \/ PutSentinel(h)

Serve(h) ==
  \/ WriteBacklog(h)
  \/ EndReplay(h)
  \/ ServeEvent(h)
  \/ ServeSentinel(h)
  \/ Unsubscribe(h)

Connect(c) == Refuse(c) \/ \E h \in Handlers : Subscribe(c, h)

Next ==
  \/ Emit
  \/ Finish
  \/ \E h \in Handlers : Publisher(h) \/ Serve(h) \/ WriteFails(h)
  \/ \E c \in Clients : Connect(c) \/ Break(c) \/ Leave(c)

Spec == Init /\ [][Next]_vars

\* Threads run, a lock that is free is obtained, writes to a browser that has
\* gone fail in the end (keepalives every 15 s, socket timeout 20 s), and a
\* browser that watches reconnects.  Nothing obliges the run to go on or to
\* end, a user to leave or a connection to break.
Fairness ==
  /\ \A h \in Handlers : /\ WF_vars(Publisher(h))
                         /\ WF_vars(Serve(h))
                         /\ WF_vars(WriteFails(h))
  /\ \A c \in Clients : WF_vars(Connect(c))

FairSpec == Spec /\ Fairness

----------------------------------------------------------------------------
(* Properties                                                               *)

TypeOK ==
  /\ events \in Seq(Nat)
  /\ sequence \in Nat
  /\ terminal \in Nat
  /\ subscribers \subseteq Handlers
  /\ todo \subseteq Handlers
  /\ victim \in Handlers \cup {None}
  /\ pc \in [Handlers -> {"idle", "replay", "live", "closing"}]
  /\ queue \in [Handlers -> Seq(Nat \cup {None})]
  /\ backlog \in [Handlers -> Seq(Nat)]
  /\ done \in [Handlers -> BOOLEAN]
  /\ conn \in [Clients -> Handlers \cup {None}]
  /\ lastId \in [Clients -> Nat]
  /\ status \in [Clients -> {"watching", "ended", "refused", "left"}]
  /\ breaks \in Nat
  /\ cleared \in [Clients -> BOOLEAN]
  /\ skipped \in [Clients -> BOOLEAN]

\* No handler is left waiting for ever on a queue nobody writes to: a live
\* handler that is no longer subscribed finds the sentinel, and one that is
\* subscribed when the run has ended finds the end event.
NoStrandedHandler ==
  \A h \in Handlers : pc[h] = "live" =>
    \/ h \in subscribers /\ (terminal = 0 \/ h \in todo)
    \/ h \in subscribers /\ queue[h] # <<>> /\ queue[h][Len(queue[h])] = terminal
    \/ victim = h
    \/ h \notin subscribers /\ queue[h] = <<None>>

\* Every subscription belongs to a handler that will end it: none outlives
\* its connection and eats into MAX_SUBSCRIBERS.
NoLeakedSubscription ==
  /\ Cardinality(subscribers) <= MaxSubscribers
  /\ \A h \in subscribers : pc[h] # "idle" /\ ~done[h]

\* A browser that misses events is told so by a reset, except through one
\* window: its handler takes an event from the queue that _publish is
\* draining at that moment.
GapOnlyWhileDraining ==
  [][\A c \in Clients :
       skipped'[c] /\ ~skipped[c] => victim # None /\ victim = conn[c]]_vars

\* A browser is never shown an event twice nor out of order: what is on its
\* way to it, in the replay and in the queue, is ascending and newer than its
\* Last-Event-ID, resets apart.
InOrderNoDuplicates ==
  \A c \in Clients : conn[c] # None =>
    LET ahead == <<lastId[c]>> \o backlog[conn[c]] \o queue[conn[c]]
    IN  \A i, j \in 1 .. Len(ahead) :
          i < j /\ {ahead[i], ahead[j]} \cap {0, None} = {} => ahead[i] < ahead[j]

\* Once the run has ended, every browser that keeps watching and is not
\* refused is told so, however slow it is and however often it is cut off.
EveryViewerSeesTheEnd ==
  \A c \in Clients : terminal # 0 ~> status[c] # "watching"
=============================================================================
