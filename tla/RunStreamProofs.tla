--------------------------- MODULE RunStreamProofs ---------------------------
(* Theorems about RunStream, for every value of its constants.               *)
EXTENDS RunStream, FiniteSetTheorems, SequenceTheorems, TLAPS

----------------------------------------------------------------------------
(* The inductive invariant                                                  *)

RunType ==
  /\ events \in Seq(Nat) /\ sequence \in Nat /\ terminal \in Nat
  /\ subscribers \subseteq Handlers
  /\ todo \subseteq Handlers
  /\ victim \in Handlers \cup {None}

HandlerType ==
  /\ pc \in [Handlers -> {"idle", "replay", "live", "closing"}]
  /\ queue \in [Handlers -> Seq(Nat \cup {None})]
  /\ backlog \in [Handlers -> Seq(Nat)]
  /\ done \in [Handlers -> BOOLEAN]

ClientType ==
  /\ conn \in [Clients -> Handlers \cup {None}]
  /\ lastId \in [Clients -> Nat]
  /\ status \in [Clients -> {"watching", "ended", "refused", "left"}]
  /\ cleared \in [Clients -> BOOLEAN]
  /\ skipped \in [Clients -> BOOLEAN]

\* The numbers up to n, without any but the latest.
UpTo(l, n) ==
  /\ Len(l) <= n
  /\ \A i \in 1 .. Len(l) : l[i] = n - Len(l) + i

\* The ring holds the latest events, and the end event is the last of all.
RingInv ==
  /\ UpTo(events, sequence)
  /\ events = <<>> => sequence = 0
  /\ terminal \in {0, sequence}

\* Who is served, drained and subscribed.
LockInv ==
  /\ todo \subseteq subscribers
  /\ victim \notin subscribers
  /\ IsFiniteSet(subscribers) /\ Cardinality(subscribers) <= MaxSubscribers
  /\ \A h \in subscribers : pc[h] # "idle" /\ ~done[h]

\* What a subscriber has got or will get once the run has ended.
Fed(h) ==
  \/ h \in subscribers /\ (terminal = 0 \/ h \in todo)
  \/ h \in subscribers /\ queue[h] # <<>> /\ queue[h][Len(queue[h])] = terminal
  \/ victim = h
  \/ h \notin subscribers /\ queue[h] = <<None>>

\* A handler that was told of the end when it subscribed does not wait.
FedInv ==
  \A h \in Handlers :
    /\ pc[h] = "live" => ~done[h] /\ backlog[h] = <<>>
    /\ pc[h] \in {"replay", "live"} /\ ~done[h] => Fed(h)

\* A browser is connected to a handler of its own, and has been shown nothing
\* that was not published, and the end only if it has stopped watching.
ConnInv ==
  /\ \A c \in Clients :
       /\ conn[c] # None => status[c] = "watching" /\ pc[conn[c]] # "idle"
       /\ lastId[c] <= sequence
       /\ status[c] = "watching" /\ terminal # 0 => lastId[c] < terminal
       /\ cleared[c] => lastId[c] = 0 /\ events # <<>>
  /\ \A c, d \in Clients : conn[c] = conn[d] /\ conn[c] # None => c = d

\* What is left of a replay continues what the browser has been shown, up to m.
Follows(last, wiped, frames, m) ==
  \/ frames = <<>> /\ last = m /\ ~wiped
  \/ frames # <<>> /\ UpTo(frames, m) /\ (last = m - Len(frames) \/ wiped)
  \/ /\ frames # <<>> /\ Head(frames) = 0
     /\ Tail(frames) # <<>> /\ UpTo(Tail(frames), m)
     /\ last + Len(Tail(frames)) <= m

\* The latest event that the queue of h has been given.
Given(h) == IF h \in todo THEN sequence - 1 ELSE sequence

\* And the queue continues the replay: without a gap while h is subscribed, with
\* one while it is being cut off, and not at all afterwards.
Chain(c, h) ==
  \/ /\ h \in subscribers
     /\ UpTo(queue[h], Given(h))
     /\ Follows(lastId[c], cleared[c], backlog[h], Given(h) - Len(queue[h]))
  \/ /\ h = victim
     /\ UpTo(queue[h], sequence - 1)
     /\ \E m \in 0 .. sequence : /\ m + Len(queue[h]) <= sequence - 1
                                 /\ Follows(lastId[c], cleared[c], backlog[h], m)
  \/ /\ h \notin subscribers /\ h # victim
     /\ queue[h] \in {<<>>, <<None>>}
     /\ \E m \in 0 .. sequence : Follows(lastId[c], cleared[c], backlog[h], m)

ChainInv == \A c \in Clients : conn[c] # None => Chain(c, conn[c])

Types == RunType /\ HandlerType /\ ClientType /\ breaks \in Nat

IInv == Types /\ RingInv /\ LockInv /\ FedInv /\ ConnInv /\ ChainInv

LEMMA TypeParts == TypeOK <=> Types
BY DEF TypeOK, Types, RunType, HandlerType, ClientType

----------------------------------------------------------------------------
(* Sequences                                                                *)

LEMMA AppendFacts ==
  ASSUME NEW S, NEW l \in Seq(S), NEW e \in S
  PROVE  /\ Append(l, e) \in Seq(S) /\ Append(l, e) # <<>>
         /\ Len(Append(l, e)) = Len(l) + 1 /\ Len(l) \in Nat
         /\ Append(l, e)[Len(l) + 1] = e
         /\ \A i \in 1 .. Len(l) : Append(l, e)[i] = l[i]
OBVIOUS

LEMMA TailFacts ==
  ASSUME NEW S, NEW l \in Seq(S), l # <<>>
  PROVE  /\ Len(l) \in Nat \ {0} /\ Head(l) = l[1] /\ Head(l) \in S
         /\ Tail(l) \in Seq(S) /\ Len(Tail(l)) = Len(l) - 1
         /\ \A i \in 1 .. Len(l) - 1 : Tail(l)[i] = l[i + 1]
         /\ Tail(l) = <<>> <=> Len(l) = 1
<1>1. Len(l) \in Nat \ {0}
  BY EmptySeq
<1>2. /\ Head(l) \in S /\ Tail(l) \in Seq(S)
      /\ Len(Tail(l)) = Len(l) - 1
      /\ \A i \in 1 .. Len(Tail(l)) : Tail(l)[i] = l[i + 1]
  BY HeadTailProperties
<1>3. Head(l) = l[1]
  OBVIOUS
<1>4. Tail(l) = <<>> <=> Len(Tail(l)) = 0
  BY <1>2, EmptySeq
<1> QED BY <1>1, <1>2, <1>3, <1>4

----------------------------------------------------------------------------
(* The ring                                                                 *)

\* What is left of the ring is its newest n events.
LEMMA NewerFacts ==
  ASSUME RunType, RingInv, NEW last \in Nat
  PROVE  \E n \in 0 .. Len(events) :
           /\ Newer(events, last) \in Seq(Nat)
           /\ Len(Newer(events, last)) = n
           /\ \A i \in 1 .. n : /\ Newer(events, last)[i] = sequence - n + i
                                /\ Newer(events, last)[i] > last
           /\ n = 0 => events = <<>> \/ sequence <= last
           /\ n < Len(events) => sequence - n <= last
<1> DEFINE L == Len(events)
           Is(k) == \A i \in 1 .. L : events[i] > last <=> i >= k
           from == CHOOSE k \in 1 .. L + 1 : Is(k)
<1>1. /\ L \in Nat /\ sequence \in Nat /\ L <= sequence /\ events \in Seq(Nat)
      /\ \A i \in 1 .. L : events[i] = sequence - L + i
  BY DEF RunType, RingInv, UpTo
<1>2. \E k \in 1 .. L + 1 : Is(k)
  <2>1. CASE last >= sequence
    <3>1. Is(L + 1)
      BY <1>1, <2>1
    <3> QED BY <1>1, <3>1
  <2>2. CASE last <= sequence - L
    <3>1. Is(1)
      BY <1>1, <2>2
    <3> QED BY <1>1, <3>1
  <2>3. CASE sequence - L < last /\ last < sequence
    <3>1. Is(last - sequence + L + 1)
      BY <1>1, <2>3
    <3>2. last - sequence + L + 1 \in 1 .. L + 1
      BY <1>1, <2>3
    <3> QED BY <3>1, <3>2
  <2> QED BY <1>1, <2>1, <2>2, <2>3
<1>3. from \in 1 .. L + 1 /\ Is(from)
  BY <1>2
<1>4. Newer(events, last) = SubSeq(events, from, L)
  BY DEF Newer
<1> HIDE DEF from
<1> DEFINE n == L + 1 - from
           r == SubSeq(events, from, L)
<1>5. n \in 0 .. L /\ L \in Nat /\ from \in Nat /\ from = L + 1 - n
  BY <1>1, <1>3
<1>6. /\ r \in Seq(Nat) /\ Len(r) = n
      /\ \A i \in 1 .. n : r[i] = events[from + i - 1] /\ from + i - 1 \in 1 .. L
  BY <1>1, <1>3, <1>5
<1>7. ASSUME NEW i \in 1 .. n PROVE r[i] = sequence - n + i /\ r[i] > last
  <2>1. from + i - 1 \in 1 .. L /\ from + i - 1 >= from /\ r[i] = events[from + i - 1]
    BY <1>3, <1>5, <1>6
  <2>2. r[i] > last
    BY <1>3, <2>1
  <2>3. r[i] = sequence - L + (from + i - 1)
    BY <1>1, <2>1
  <2> QED BY <1>1, <1>5, <2>2, <2>3
<1>8. ASSUME n < L PROVE sequence - n <= last
  <2>1. from - 1 \in 1 .. L /\ ~(from - 1 >= from)
    BY <1>1, <1>3, <1>5, <1>8
  <2>2. ~(events[from - 1] > last) /\ events[from - 1] = sequence - L + (from - 1)
    BY <1>1, <1>3, <2>1
  <2> QED BY <1>1, <1>5, <2>1, <2>2
<1>9. ASSUME n = 0 PROVE events = <<>> \/ sequence <= last
  <2>1. CASE L = 0
    BY <1>1, <2>1
  <2>2. CASE L # 0
    BY <1>1, <1>5, <1>8, <1>9, <2>2
  <2> QED BY <2>1, <2>2
<1> HIDE DEF n, r
<1>10. /\ r \in Seq(Nat) /\ Len(r) = n
       /\ \A i \in 1 .. n : r[i] = sequence - n + i /\ r[i] > last
       /\ n = 0 => events = <<>> \/ sequence <= last
       /\ n < L => sequence - n <= last
       /\ n \in 0 .. L /\ Newer(events, last) = r
  BY <1>4, <1>5, <1>6, <1>7, <1>8, <1>9 DEF r
<1> QED BY <1>10

\* The frames of a replay are events.
LEMMA ReplayType ==
  ASSUME RunType, RingInv, NEW last \in Nat
  PROVE  Replay(last) \in Seq(Nat)
<1> DEFINE frames == IF PrefixLost(last) THEN <<0>> \o events ELSE Newer(events, last)
<1>1. Newer(events, last) \in Seq(Nat)
  BY NewerFacts
<1>2. <<0>> \o events \in Seq(Nat)
  BY DEF RunType
<1>3. frames \in Seq(Nat)
  BY <1>1, <1>2
<1> HIDE DEF frames
<1>4. Append(frames, terminal) \in Seq(Nat)
  BY <1>3 DEF RunType
<1>5. Replay(last) \in {frames, Append(frames, terminal)}
  BY DEF Replay, frames
<1> QED BY <1>3, <1>4, <1>5

LEMMA AppendUpTo ==
  ASSUME NEW S, Nat \subseteq S, NEW l \in Seq(S), NEW n \in Nat, UpTo(l, n)
  PROVE  /\ Append(l, n + 1) \in Seq(S) /\ Append(l, n + 1) # <<>>
         /\ UpTo(Append(l, n + 1), n + 1)
<1>1. PICK e \in Nat : e = n + 1
  OBVIOUS
<1>2. PICK new : new = Append(l, e)
  OBVIOUS
<1>3. /\ new \in Seq(S) /\ new # <<>> /\ Len(new) = Len(l) + 1 /\ Len(l) \in Nat
      /\ new[Len(l) + 1] = e /\ \A i \in 1 .. Len(l) : new[i] = l[i]
  BY <1>2, AppendFacts
<1>4. Len(l) <= n /\ \A i \in 1 .. Len(l) : l[i] = n - Len(l) + i
  BY DEF UpTo
<1>5. ASSUME NEW i \in 1 .. Len(new) PROVE new[i] = e - Len(new) + i
  <2>1. CASE i = Len(l) + 1
    BY <1>1, <1>3, <2>1
  <2>2. CASE i \in 1 .. Len(l)
    <3>1. new[i] = l[i] /\ l[i] = n - Len(l) + i
      BY <1>3, <1>4, <2>2
    <3> QED BY <1>1, <1>3, <3>1
  <2> QED BY <1>3, <2>1, <2>2
<1>6. UpTo(new, e)
  BY <1>1, <1>3, <1>4, <1>5 DEF UpTo
<1> QED BY <1>1, <1>2, <1>3, <1>6

LEMMA TailUpTo ==
  ASSUME NEW S, Nat \subseteq S, NEW l \in Seq(S), l # <<>>, NEW n \in Nat, UpTo(l, n)
  PROVE  Tail(l) \in Seq(S) /\ UpTo(Tail(l), n)
<1>1. PICK rest : rest = Tail(l)
  OBVIOUS
<1>2. /\ rest \in Seq(S) /\ Len(rest) = Len(l) - 1 /\ Len(l) \in Nat \ {0}
      /\ \A i \in 1 .. Len(l) - 1 : rest[i] = l[i + 1]
  BY <1>1, TailFacts
<1>3. Len(l) <= n /\ \A i \in 1 .. Len(l) : l[i] = n - Len(l) + i
  BY DEF UpTo
<1>4. ASSUME NEW i \in 1 .. Len(rest) PROVE rest[i] = n - Len(rest) + i
  <2>1. i + 1 \in 1 .. Len(l) /\ rest[i] = l[i + 1]
    BY <1>2
  <2>2. l[i + 1] = n - Len(l) + (i + 1)
    BY <1>3, <2>1
  <2> QED BY <1>2, <2>1, <2>2
<1> QED BY <1>1, <1>2, <1>3, <1>4 DEF UpTo

\* Publishing an event keeps the ring what it is.
LEMMA AppendBoundedFacts ==
  ASSUME NEW l \in Seq(Nat), NEW n \in Nat, UpTo(l, n)
  PROVE  /\ AppendBounded(l, n + 1) \in Seq(Nat) /\ AppendBounded(l, n + 1) # <<>>
         /\ UpTo(AppendBounded(l, n + 1), n + 1)
<1>1. CASE Len(l) < MaxLines
  BY <1>1, AppendUpTo DEF AppendBounded
<1>2. CASE ~(Len(l) < MaxLines)
  <2>1. l # <<>>
    BY <1>2, StreamAssumption
  <2>2. Tail(l) \in Seq(Nat) /\ UpTo(Tail(l), n)
    BY <2>1, TailUpTo
  <2> QED BY <1>2, <2>2, AppendUpTo DEF AppendBounded
<1> QED BY <1>1, <1>2

----------------------------------------------------------------------------
(* Types                                                                    *)

LEMMA DeliverType ==
  ASSUME ClientType, NEW h, NEW frame \in Nat, Deliver(h, frame)
  PROVE  ClientType'
<1>1. conn' \in [Clients -> Handlers \cup {None}]
  BY DEF Deliver, ClientType
<1>2. lastId' \in [Clients -> Nat]
  BY DEF Deliver, ClientType
<1>3. status' \in [Clients -> {"watching", "ended", "refused", "left"}]
  BY DEF Deliver, ClientType
<1>4. cleared' \in [Clients -> BOOLEAN]
  BY DEF Deliver, ClientType
<1>5. skipped' \in [Clients -> BOOLEAN]
  BY DEF Deliver, ClientType
<1> QED BY <1>1, <1>2, <1>3, <1>4, <1>5 DEF ClientType

LEMMA StepTypes ==
  ASSUME Types, RingInv, Next
  PROVE  Types'
<1> USE DEF Types
<1>1. CASE Publish /\ terminal' \in {terminal, sequence + 1}
  <2>1. RunType'
    <3>1. /\ events \in Seq(Nat) /\ sequence \in Nat /\ terminal \in Nat
          /\ UpTo(events, sequence)
      BY DEF RunType, RingInv
    <3>2. AppendBounded(events, sequence + 1) \in Seq(Nat)
      BY <3>1, AppendBoundedFacts
    <3> QED BY <1>1, <3>1, <3>2 DEF Publish, RunType
  <2>2. HandlerType' /\ ClientType' /\ breaks' \in Nat
    BY <1>1 DEF Publish, HandlerType, ClientType, handlerVars, clientVars
  <2> QED BY <2>1, <2>2
<1>2. ASSUME NEW h \in Handlers, PutEvent(h) PROVE Types'
  <2>1. sequence \in Nat \cup {None} /\ queue[h] \in Seq(Nat \cup {None})
    BY DEF RunType, HandlerType
  <2>2. Append(queue[h], sequence) \in Seq(Nat \cup {None})
    BY <2>1, AppendFacts
  <2>3. RunType'
    BY <1>2 DEF PutEvent, RunType
  <2>4. HandlerType'
    BY <1>2, <2>2 DEF PutEvent, HandlerType
  <2>5. ClientType' /\ breaks' \in Nat
    BY <1>2 DEF PutEvent, ClientType, clientVars
  <2> QED BY <2>3, <2>4, <2>5
<1>3. ASSUME NEW h \in Handlers, CutOff(h) PROVE Types'
  <2>1. RunType'
    BY <1>3 DEF CutOff, RunType
  <2>2. HandlerType' /\ ClientType' /\ breaks' \in Nat
    BY <1>3 DEF CutOff, HandlerType, ClientType, handlerVars, clientVars
  <2> QED BY <2>1, <2>2
<1>4. ASSUME NEW h \in Handlers, queue[h] # <<>>,
             queue' = [queue EXCEPT ![h] = Tail(@)],
             UNCHANGED <<runVars, backlog, done, breaks>>,
             pc' \in [Handlers -> {"idle", "replay", "live", "closing"}],
             ClientType'
      PROVE  Types'
  <2>1. Tail(queue[h]) \in Seq(Nat \cup {None})
    <3>1. queue[h] \in Seq(Nat \cup {None})
      BY DEF HandlerType
    <3> QED BY <1>4, <3>1, TailFacts
  <2>2. HandlerType'
    BY <1>4, <2>1 DEF HandlerType
  <2>3. RunType' /\ breaks' \in Nat
    BY <1>4 DEF RunType, runVars
  <2> QED BY <1>4, <2>2, <2>3
<1>5. ASSUME NEW h \in Handlers, Drain(h) PROVE Types'
  <2>1. ClientType' /\ pc' \in [Handlers -> {"idle", "replay", "live", "closing"}]
    BY <1>5 DEF Drain, ClientType, HandlerType, clientVars
  <2> QED BY <1>4, <1>5, <2>1 DEF Drain
<1>6. ASSUME NEW h \in Handlers, PutSentinel(h) PROVE Types'
  <2>1. <<None>> \in Seq(Nat \cup {None})
    OBVIOUS
  <2>2. RunType'
    BY <1>6 DEF PutSentinel, RunType
  <2>3. HandlerType'
    BY <1>6, <2>1 DEF PutSentinel, HandlerType
  <2>4. ClientType' /\ breaks' \in Nat
    BY <1>6 DEF PutSentinel, ClientType, clientVars
  <2> QED BY <2>2, <2>3, <2>4
<1>7. ASSUME NEW c \in Clients, NEW h \in Handlers, Subscribe(c, h) PROVE Types'
  <2>1. Replay(lastId[c]) \in Seq(Nat)
    BY ReplayType DEF ClientType
  <2>2. RunType'
    BY <1>7 DEF Subscribe, RunType
  <2>3. HandlerType'
    <3>1. <<>> \in Seq(Nat \cup {None})
      OBVIOUS
    <3>2. /\ pc' \in [Handlers -> {"idle", "replay", "live", "closing"}]
          /\ queue' \in [Handlers -> Seq(Nat \cup {None})]
      BY <1>7, <3>1 DEF Subscribe, HandlerType
    <3>3. /\ backlog' \in [Handlers -> Seq(Nat)]
          /\ done' \in [Handlers -> BOOLEAN]
      BY <1>7, <2>1 DEF Subscribe, HandlerType
    <3> QED BY <3>2, <3>3 DEF HandlerType
  <2>4. ClientType' /\ breaks' \in Nat
    BY <1>7 DEF Subscribe, ClientType
  <2> QED BY <2>2, <2>3, <2>4
<1>8. ASSUME NEW c \in Clients, Refuse(c) \/ Break(c) \/ Leave(c) PROVE Types'
  <2>1. RunType' /\ HandlerType'
    BY <1>8 DEF Refuse, Break, Leave, RunType, HandlerType, runVars, handlerVars
  <2>2. ClientType' /\ breaks' \in Nat
    BY <1>8 DEF Refuse, Break, Leave, ClientType
  <2> QED BY <2>1, <2>2
<1>9. ASSUME NEW h \in Handlers, WriteBacklog(h) PROVE Types'
  <2>1. backlog[h] \in Seq(Nat) /\ backlog[h] # <<>>
    BY <1>9 DEF WriteBacklog, HandlerType
  <2>2. Head(backlog[h]) \in Nat /\ Tail(backlog[h]) \in Seq(Nat)
    BY <2>1, TailFacts
  <2>3. ClientType'
    BY <1>9, <2>2, DeliverType DEF WriteBacklog
  <2>4. HandlerType'
    BY <1>9, <2>2 DEF WriteBacklog, HandlerType
  <2>5. RunType' /\ breaks' \in Nat
    BY <1>9 DEF WriteBacklog, RunType, runVars
  <2> QED BY <2>3, <2>4, <2>5
<1>10. ASSUME NEW h \in Handlers, EndReplay(h) \/ WriteFails(h) PROVE Types'
  <2>1. RunType' /\ ClientType' /\ breaks' \in Nat
    BY <1>10 DEF EndReplay, WriteFails, RunType, ClientType, runVars, clientVars
  <2>2. HandlerType'
    BY <1>10 DEF EndReplay, WriteFails, HandlerType
  <2> QED BY <2>1, <2>2
<1>11. ASSUME NEW h \in Handlers, ServeEvent(h) PROVE Types'
  <2>1. queue[h] \in Seq(Nat \cup {None}) /\ queue[h] # <<>> /\ Head(queue[h]) # None
    BY <1>11 DEF ServeEvent, HandlerType
  <2>2. Head(queue[h]) \in Nat
    BY <2>1, TailFacts
  <2>3. ClientType'
    BY <1>11, <2>2, DeliverType DEF ServeEvent
  <2>4. pc' \in [Handlers -> {"idle", "replay", "live", "closing"}]
    BY <1>11 DEF ServeEvent, HandlerType
  <2> QED BY <1>4, <1>11, <2>3, <2>4 DEF ServeEvent
<1>12. ASSUME NEW h \in Handlers, ServeSentinel(h) PROVE Types'
  <2>1. ClientType' /\ pc' \in [Handlers -> {"idle", "replay", "live", "closing"}]
    BY <1>12 DEF ServeSentinel, ClientType, HandlerType, clientVars
  <2> QED BY <1>4, <1>12, <2>1 DEF ServeSentinel
<1>13. ASSUME NEW h \in Handlers, Unsubscribe(h) PROVE Types'
  <2>1. RunType' /\ breaks' \in Nat
    BY <1>13 DEF Unsubscribe, RunType
  <2>2. HandlerType'
    BY <1>13 DEF Unsubscribe, HandlerType
  <2>3. ClientType'
    BY <1>13 DEF Unsubscribe, ClientType
  <2> QED BY <2>1, <2>2, <2>3
<1> HIDE DEF Types
<1>14. CASE Emit \/ Finish
  BY <1>1, <1>14 DEF Emit, Finish
<1> QED
  BY <1>2, <1>3, <1>5, <1>6, <1>7, <1>8, <1>9, <1>10, <1>11, <1>12, <1>13, <1>14
     DEF Next, Publisher, Serve, Connect

----------------------------------------------------------------------------
(* The ring, the lock and the subscriptions                                 *)

LEMMA StepRing ==
  ASSUME Types, RingInv, Next
  PROVE  RingInv'
<1>1. /\ events \in Seq(Nat) /\ sequence \in Nat /\ terminal \in Nat
      /\ UpTo(events, sequence) /\ (events = <<>> => sequence = 0)
      /\ terminal \in {0, sequence}
  BY DEF Types, RunType, RingInv
<1>2. CASE Publish /\ terminal' \in {terminal, sequence + 1}
  <2>1. /\ UpTo(AppendBounded(events, sequence + 1), sequence + 1)
        /\ AppendBounded(events, sequence + 1) # <<>>
    BY <1>1, AppendBoundedFacts
  <2>2. /\ events' = AppendBounded(events, sequence + 1) /\ sequence' = sequence + 1
        /\ terminal = 0
    BY <1>2 DEF Publish
  <2>3. UpTo(events', sequence') /\ events' # <<>>
    BY <2>1, <2>2
  <2>4. terminal' \in {0, sequence'}
    BY <1>2, <2>2
  <2> QED BY <2>3, <2>4 DEF RingInv
<1>3. CASE UNCHANGED <<events, sequence, terminal>>
  BY <1>1, <1>3 DEF RingInv
<1>4. CASE Emit \/ Finish
  BY <1>2, <1>4 DEF Emit, Finish
<1>5. ASSUME NEW h \in Handlers, Publisher(h) \/ Serve(h) \/ WriteFails(h) PROVE RingInv'
  BY <1>3, <1>5 DEF Publisher, PutEvent, CutOff, Drain, PutSentinel, Serve, WriteBacklog,
       EndReplay, ServeEvent, ServeSentinel, Unsubscribe, WriteFails, runVars
<1>6. ASSUME NEW c \in Clients, Connect(c) \/ Break(c) \/ Leave(c) PROVE RingInv'
  BY <1>3, <1>6 DEF Connect, Refuse, Subscribe, Break, Leave, runVars
<1> QED BY <1>4, <1>5, <1>6 DEF Next

LEMMA StepLock ==
  ASSUME Types, LockInv, Next
  PROVE  LockInv'
<1>1. /\ subscribers \subseteq Handlers /\ todo \subseteq subscribers
      /\ victim \notin subscribers /\ None \notin Handlers
      /\ IsFiniteSet(subscribers) /\ Cardinality(subscribers) <= MaxSubscribers
      /\ Cardinality(subscribers) \in Nat /\ MaxSubscribers \in Nat
      /\ \A h \in subscribers : pc[h] # "idle" /\ ~done[h]
  BY StreamAssumption, FS_CardinalityType DEF Types, RunType, LockInv
<1>2. ASSUME NEW h \in Handlers
      PROVE  /\ IsFiniteSet(subscribers \ {h})
             /\ Cardinality(subscribers \ {h}) <= MaxSubscribers
  <2>1. /\ IsFiniteSet(subscribers \ {h})
        /\ Cardinality(subscribers \ {h}) =
             IF h \in subscribers THEN Cardinality(subscribers) - 1 ELSE Cardinality(subscribers)
    BY <1>1, FS_RemoveElement
  <2> QED BY <1>1, <2>1
<1>3. CASE Publish
  BY <1>1, <1>3 DEF LockInv, Publish, Locked, handlerVars
<1>4. ASSUME NEW h \in Handlers, PutEvent(h) PROVE LockInv'
  BY <1>1, <1>4 DEF LockInv, PutEvent
<1>5. ASSUME NEW h \in Handlers, CutOff(h) PROVE LockInv'
  <2>1. /\ subscribers' = subscribers \ {h} /\ victim' = h /\ todo' = todo \ {h}
        /\ pc' = pc /\ done' = done
    BY <1>5 DEF CutOff, handlerVars
  <2>2. IsFiniteSet(subscribers') /\ Cardinality(subscribers') <= MaxSubscribers
    BY <1>2, <2>1
  <2>3. todo' \subseteq subscribers' /\ victim' \notin subscribers'
    BY <1>1, <2>1
  <2>4. \A x \in subscribers' : pc'[x] # "idle" /\ ~done'[x]
    BY <1>1, <2>1
  <2> QED BY <2>2, <2>3, <2>4 DEF LockInv
<1>6. ASSUME NEW h \in Handlers, Drain(h) \/ PutSentinel(h) PROVE LockInv'
  BY <1>1, <1>6 DEF LockInv, Drain, PutSentinel, runVars
<1>7. ASSUME NEW c \in Clients, NEW h \in Handlers, Subscribe(c, h) PROVE LockInv'
  <2>1. /\ todo = {} /\ victim = None /\ todo' = {} /\ victim' = None
        /\ pc[h] = "idle" /\ Cardinality(subscribers) < MaxSubscribers
        /\ subscribers' = IF terminal = 0 THEN subscribers \cup {h} ELSE subscribers
    BY <1>7 DEF Subscribe, Locked
  <2>2. h \notin subscribers
    BY <1>1, <2>1
  <2>3. /\ pc'[h] = "replay" /\ done'[h] = (terminal # 0)
        /\ \A x \in Handlers \ {h} : pc'[x] = pc[x] /\ done'[x] = done[x]
    BY <1>7 DEF Subscribe, Types, HandlerType
  <2>4. IsFiniteSet(subscribers') /\ Cardinality(subscribers') <= MaxSubscribers
    <3>1. /\ IsFiniteSet(subscribers \cup {h})
          /\ Cardinality(subscribers \cup {h}) = Cardinality(subscribers) + 1
      BY <1>1, <2>2, FS_AddElement
    <3> QED BY <1>1, <2>1, <3>1
  <2>5. todo' \subseteq subscribers' /\ victim' \notin subscribers'
    BY <1>1, <2>1
  <2>6. ASSUME NEW x \in subscribers' PROVE pc'[x] # "idle" /\ ~done'[x]
    <3>1. CASE x = h
      BY <2>1, <2>2, <2>3, <3>1
    <3>2. CASE x # h
      BY <1>1, <2>1, <2>3, <3>2
    <3> QED BY <3>1, <3>2
  <2> QED BY <2>4, <2>5, <2>6 DEF LockInv
<1>8. ASSUME NEW c \in Clients, Refuse(c) \/ Break(c) \/ Leave(c) PROVE LockInv'
  BY <1>1, <1>8 DEF LockInv, Refuse, Break, Leave, runVars, handlerVars
<1>9. ASSUME NEW h \in Handlers,
             WriteBacklog(h) \/ EndReplay(h) \/ ServeEvent(h) \/ ServeSentinel(h)
               \/ WriteFails(h)
      PROVE  LockInv'
  <2>1. /\ subscribers' = subscribers /\ todo' = todo /\ victim' = victim /\ done' = done
    BY <1>9 DEF WriteBacklog, EndReplay, ServeEvent, ServeSentinel, WriteFails, runVars
  <2>2. \E p \in {"replay", "live", "closing"} : pc' = [pc EXCEPT ![h] = p] \/ pc' = pc
    BY <1>9 DEF WriteBacklog, EndReplay, ServeEvent, ServeSentinel, WriteFails
  <2>3. \A x \in subscribers : pc'[x] # "idle"
    BY <1>1, <2>2 DEF Types, HandlerType
  <2> QED BY <1>1, <2>1, <2>3 DEF LockInv
<1>10. ASSUME NEW h \in Handlers, Unsubscribe(h) PROVE LockInv'
  <2>1. /\ todo = {} /\ todo' = {} /\ victim = None /\ victim' = None
        /\ subscribers' = subscribers \ {h} /\ done' = done
        /\ \A x \in Handlers \ {h} : pc'[x] = pc[x]
    BY <1>10 DEF Unsubscribe, Locked, Types, HandlerType
  <2>2. IsFiniteSet(subscribers') /\ Cardinality(subscribers') <= MaxSubscribers
    BY <1>2, <2>1
  <2> QED BY <1>1, <2>1, <2>2 DEF LockInv
<1>11. CASE Emit \/ Finish
  BY <1>3, <1>11 DEF Emit, Finish
<1> QED
  BY <1>4, <1>5, <1>6, <1>7, <1>8, <1>9, <1>10, <1>11
     DEF Next, Publisher, Serve, Connect

\* Taking the head off a queue leaves its last element, unless it was that.
LEMMA LastOfTail ==
  ASSUME NEW S, NEW l \in Seq(S), l # <<>>, Head(l) # l[Len(l)]
  PROVE  Tail(l) # <<>> /\ Tail(l)[Len(Tail(l))] = l[Len(l)]
<1>1. PICK rest : rest = Tail(l)
  OBVIOUS
<1>2. /\ Len(l) \in Nat \ {0} /\ Head(l) = l[1] /\ Len(rest) = Len(l) - 1
      /\ \A i \in 1 .. Len(l) - 1 : rest[i] = l[i + 1]
      /\ rest = <<>> <=> Len(l) = 1
  BY <1>1, TailFacts
<1>3. Len(l) # 1
  BY <1>2
<1>4. Len(rest) \in 1 .. Len(l) - 1 /\ Len(rest) + 1 = Len(l)
  BY <1>2, <1>3
<1>5. rest[Len(rest)] = l[Len(l)]
  BY <1>2, <1>4
<1> QED BY <1>1, <1>2, <1>3, <1>5

LEMMA StepFed ==
  ASSUME Types, RingInv, LockInv, FedInv, Next
  PROVE  FedInv'
<1> DEFINE Waits(h) == /\ pc[h] = "live" => ~done[h] /\ backlog[h] = <<>>
                       /\ pc[h] \in {"replay", "live"} /\ ~done[h] => Fed(h)
<1>1. /\ \A h \in Handlers : Waits(h)
      /\ subscribers \subseteq Handlers /\ todo \subseteq subscribers
      /\ victim \notin subscribers /\ terminal \in {0, sequence}
      /\ queue \in [Handlers -> Seq(Nat \cup {None})]
      /\ pc \in [Handlers -> {"idle", "replay", "live", "closing"}]
      /\ backlog \in [Handlers -> Seq(Nat)] /\ done \in [Handlers -> BOOLEAN]
      /\ \A h \in subscribers : pc[h] # "idle" /\ ~done[h]
  BY DEF FedInv, LockInv, RingInv, Types, RunType, HandlerType
<1>2. SUFFICES ASSUME NEW x \in Handlers
               PROVE  Waits(x)'
  BY DEF FedInv
<1>3. Waits(x)
  BY <1>1
<1>4. ASSUME pc'[x] = pc[x], done'[x] = done[x], backlog'[x] = backlog[x],
             Fed(x) => Fed(x)'
      PROVE  Waits(x)'
  BY <1>3, <1>4
<1>5. ASSUME pc'[x] \in {"idle", "closing"} PROVE Waits(x)'
  BY <1>5
<1> HIDE DEF Waits
<1>6. ASSUME queue'[x] = queue[x], UNCHANGED <<terminal, subscribers, todo, victim>>
      PROVE  Fed(x) => Fed(x)'
  BY <1>6 DEF Fed
<1>7. CASE Publish
  <2>1. /\ todo = {} /\ victim = None /\ terminal = 0 /\ todo' = subscribers
        /\ subscribers' = subscribers /\ victim' = victim
        /\ queue' = queue /\ pc' = pc /\ done' = done /\ backlog' = backlog
    BY <1>7 DEF Publish, Locked, handlerVars
  <2>2. Fed(x) => Fed(x)'
    BY <1>1, <2>1, StreamAssumption DEF Fed
  <2> QED BY <1>4, <2>1, <2>2
<1>8. ASSUME NEW h \in Handlers, PutEvent(h) PROVE Waits(x)'
  <2>1. /\ h \in todo /\ todo' = todo \ {h} /\ victim = None /\ victim' = None
        /\ queue' = [queue EXCEPT ![h] = Append(@, sequence)]
        /\ UNCHANGED <<subscribers, terminal, sequence, pc, done, backlog>>
    BY <1>8 DEF PutEvent
  <2>2. CASE x = h
    <3>1. sequence \in Nat \cup {None} /\ queue[h] \in Seq(Nat \cup {None})
      BY DEF Types, RunType, HandlerType
    <3>2. /\ Append(queue[h], sequence) # <<>>
          /\ Append(queue[h], sequence)[Len(Append(queue[h], sequence))] = sequence
      BY <3>1, AppendFacts
    <3>3. queue'[h] = Append(queue[h], sequence)
      BY <1>1, <2>1
    <3>4. h \in subscribers' /\ terminal' \in {0, sequence}
      BY <1>1, <2>1
    <3>5. Fed(h)'
      BY <3>2, <3>3, <3>4 DEF Fed
    <3> QED BY <1>4, <2>1, <2>2, <3>5
  <2>3. CASE x # h
    <3>1. Fed(x) => Fed(x)'
      BY <1>1, <2>1, <2>3 DEF Fed
    <3> QED BY <1>4, <2>1, <3>1
  <2> QED BY <2>2, <2>3
<1>9. ASSUME NEW h \in Handlers, CutOff(h) PROVE Waits(x)'
  <2>1. /\ victim = None /\ victim' = h /\ subscribers' = subscribers \ {h}
        /\ todo' = todo \ {h}
        /\ UNCHANGED <<queue, terminal, pc, done, backlog>>
    BY <1>9 DEF CutOff, handlerVars
  <2>2. Fed(x) => Fed(x)'
    BY <1>1, <2>1, StreamAssumption DEF Fed
  <2> QED BY <1>4, <2>1, <2>2
<1>10. ASSUME NEW h \in Handlers, Drain(h) PROVE Waits(x)'
  <2>1. /\ victim = h /\ queue' = [queue EXCEPT ![h] = Tail(@)]
        /\ UNCHANGED <<victim, subscribers, todo, terminal, pc, done, backlog>>
    BY <1>10 DEF Drain, runVars
  <2>2. Fed(x) => Fed(x)'
    BY <1>1, <2>1 DEF Fed
  <2> QED BY <1>4, <2>1, <2>2
<1>11. ASSUME NEW h \in Handlers, PutSentinel(h) PROVE Waits(x)'
  <2>1. /\ victim = h /\ queue' = [queue EXCEPT ![h] = <<None>>]
        /\ UNCHANGED <<subscribers, todo, terminal, pc, done, backlog>>
    BY <1>11 DEF PutSentinel
  <2>2. Fed(x) => Fed(x)'
    BY <1>1, <2>1 DEF Fed
  <2> QED BY <1>4, <2>1, <2>2
<1>12. ASSUME NEW c \in Clients, NEW h \in Handlers, Subscribe(c, h) PROVE Waits(x)'
  <2>1. /\ todo' = todo /\ victim' = victim /\ terminal' = terminal /\ todo = {}
        /\ subscribers' = IF terminal = 0 THEN subscribers \cup {h} ELSE subscribers
        /\ pc' = [pc EXCEPT ![h] = "replay"]
        /\ done' = [done EXCEPT ![h] = terminal # 0]
    BY <1>12 DEF Subscribe, Locked
  <2>2. CASE x = h
    <3>1. pc'[h] = "replay" /\ done'[h] = (terminal # 0)
      BY <1>1, <2>1
    <3>2. terminal = 0 => Fed(h)'
      BY <2>1 DEF Fed
    <3> QED BY <2>2, <3>1, <3>2 DEF Waits
  <2>3. CASE x # h
    <3>1. /\ queue'[x] = queue[x] /\ pc'[x] = pc[x] /\ done'[x] = done[x]
          /\ backlog'[x] = backlog[x]
      BY <1>1, <1>12, <2>3 DEF Subscribe
    <3>2. Fed(x) => Fed(x)'
      BY <2>1, <2>3, <3>1 DEF Fed
    <3> QED BY <1>4, <3>1, <3>2
  <2> QED BY <2>2, <2>3
<1>13. ASSUME NEW c \in Clients, Refuse(c) \/ Break(c) \/ Leave(c) PROVE Waits(x)'
  <2>1. UNCHANGED <<runVars, handlerVars>>
    BY <1>13 DEF Refuse, Break, Leave
  <2> QED BY <1>4, <1>6, <2>1 DEF runVars, handlerVars
<1>14. ASSUME NEW h \in Handlers, WriteBacklog(h) PROVE Waits(x)'
  <2>1. /\ UNCHANGED <<terminal, subscribers, todo, victim, queue, pc, done>>
        /\ pc[h] = "replay" /\ backlog' = [backlog EXCEPT ![h] = Tail(@)]
    BY <1>14 DEF WriteBacklog, runVars
  <2>2. Fed(x) => Fed(x)'
    BY <1>6, <2>1
  <2>3. CASE x = h
    BY <1>3, <2>1, <2>2, <2>3 DEF Waits
  <2>4. CASE x # h
    <3>1. backlog'[x] = backlog[x]
      BY <1>1, <2>1, <2>4
    <3> QED BY <1>4, <2>1, <2>2, <3>1
  <2> QED BY <2>3, <2>4
<1>15. ASSUME NEW h \in Handlers, EndReplay(h) PROVE Waits(x)'
  <2>1. /\ UNCHANGED <<terminal, subscribers, todo, victim, queue, backlog, done>>
        /\ pc[h] = "replay" /\ backlog[h] = <<>>
        /\ pc' = [pc EXCEPT ![h] = IF done[h] THEN "closing" ELSE "live"]
    BY <1>15 DEF EndReplay, runVars
  <2>2. Fed(x) => Fed(x)'
    BY <1>6, <2>1
  <2>3. CASE x = h
    <3>1. CASE done[h]
      BY <1>1, <1>5, <2>1, <2>3, <3>1
    <3>2. CASE ~done[h]
      BY <1>3, <2>1, <2>2, <2>3, <3>2 DEF Waits
    <3> QED BY <3>1, <3>2
  <2>4. CASE x # h
    <3>1. pc'[x] = pc[x]
      BY <1>1, <2>1, <2>4
    <3> QED BY <1>4, <2>1, <2>2, <3>1
  <2> QED BY <2>3, <2>4
<1>16. ASSUME NEW h \in Handlers, ServeEvent(h) PROVE Waits(x)'
  <2>1. /\ UNCHANGED <<terminal, subscribers, todo, victim, backlog, done>>
        /\ pc[h] = "live" /\ queue[h] # <<>> /\ Head(queue[h]) # None
        /\ queue' = [queue EXCEPT ![h] = Tail(@)]
        /\ pc' = [pc EXCEPT ![h] = IF Head(queue[h]) = terminal THEN "closing" ELSE "live"]
    BY <1>16 DEF ServeEvent, runVars
  <2>2. CASE x = h /\ Head(queue[h]) = terminal
    BY <1>1, <1>5, <2>1, <2>2
  <2>3. CASE x = h /\ Head(queue[h]) # terminal
    <3>1. pc'[h] = pc[h] /\ queue'[h] = Tail(queue[h]) /\ queue[h] \in Seq(Nat \cup {None})
      BY <1>1, <2>1, <2>3
    <3>2. queue[h][Len(queue[h])] = terminal =>
            Tail(queue[h]) # <<>> /\ Tail(queue[h])[Len(Tail(queue[h]))] = terminal
      BY <2>1, <2>3, <3>1, LastOfTail
    <3>3. queue[h] # <<None>>
      BY <2>1
    <3>4. Fed(h) => Fed(h)'
      BY <2>1, <3>1, <3>2, <3>3 DEF Fed
    <3> QED BY <1>4, <2>1, <2>3, <3>1, <3>4
  <2>4. CASE x # h
    <3>1. queue'[x] = queue[x] /\ pc'[x] = pc[x]
      BY <1>1, <2>1, <2>4
    <3> QED BY <1>4, <1>6, <2>1, <3>1
  <2> QED BY <2>2, <2>3, <2>4
<1>17. ASSUME NEW h \in Handlers, ServeSentinel(h) \/ WriteFails(h) PROVE Waits(x)'
  <2>1. /\ UNCHANGED <<terminal, subscribers, todo, victim, backlog, done>>
        /\ pc' = [pc EXCEPT ![h] = "closing"]
        /\ queue' = queue \/ queue' = [queue EXCEPT ![h] = Tail(@)]
    BY <1>17 DEF ServeSentinel, WriteFails, runVars
  <2>2. CASE x = h
    BY <1>1, <1>5, <2>1, <2>2
  <2>3. CASE x # h
    <3>1. queue'[x] = queue[x] /\ pc'[x] = pc[x]
      BY <1>1, <2>1, <2>3
    <3> QED BY <1>4, <1>6, <2>1, <3>1
  <2> QED BY <2>2, <2>3
<1>18. ASSUME NEW h \in Handlers, Unsubscribe(h) PROVE Waits(x)'
  <2>1. /\ UNCHANGED <<terminal, todo, victim, done>> /\ subscribers' = subscribers \ {h}
        /\ pc' = [pc EXCEPT ![h] = "idle"]
        /\ queue' = [queue EXCEPT ![h] = <<>>] /\ backlog' = [backlog EXCEPT ![h] = <<>>]
    BY <1>18 DEF Unsubscribe
  <2>2. CASE x = h
    BY <1>1, <1>5, <2>1, <2>2
  <2>3. CASE x # h
    <3>1. queue'[x] = queue[x] /\ pc'[x] = pc[x] /\ backlog'[x] = backlog[x]
      BY <1>1, <2>1, <2>3
    <3>2. Fed(x) => Fed(x)'
      BY <2>1, <2>3, <3>1 DEF Fed
    <3> QED BY <1>4, <2>1, <3>1, <3>2
  <2> QED BY <2>2, <2>3
<1>19. CASE Emit \/ Finish
  BY <1>7, <1>19 DEF Emit, Finish
<1> QED
  BY <1>8, <1>9, <1>10, <1>11, <1>12, <1>13, <1>14, <1>15, <1>16, <1>17, <1>18, <1>19
     DEF Next, Publisher, Serve, Connect

----------------------------------------------------------------------------
(* What a browser is shown                                                  *)

\* The head of a sequence of events is the oldest.
LEMMA HeadUpTo ==
  ASSUME NEW S, NEW l \in Seq(S), l # <<>>, NEW n \in Nat, UpTo(l, n)
  PROVE  /\ Len(l) \in 1 .. n /\ Head(l) = n - Len(l) + 1 /\ Head(l) \in 1 .. n
         /\ Len(Tail(l)) = Len(l) - 1 /\ (Tail(l) = <<>> <=> Len(l) = 1)
<1>1. /\ Len(l) \in Nat \ {0} /\ Head(l) = l[1] /\ Len(Tail(l)) = Len(l) - 1
      /\ Tail(l) = <<>> <=> Len(l) = 1
  BY TailFacts
<1>2. Len(l) <= n /\ \A i \in 1 .. Len(l) : l[i] = n - Len(l) + i
  BY DEF UpTo
<1>3. l[1] = n - Len(l) + 1
  BY <1>1, <1>2
<1> QED BY <1>1, <1>2, <1>3

\* What subscribe replays follows what the browser has been shown.
LEMMA ReplayFollows ==
  ASSUME Types, RingInv, ConnInv, NEW c \in Clients, status[c] = "watching"
  PROVE  Follows(lastId[c], cleared[c], Replay(lastId[c]), sequence)
<1>1. /\ events \in Seq(Nat) /\ sequence \in Nat /\ terminal \in {0, sequence}
      /\ lastId[c] \in Nat /\ lastId[c] <= sequence
      /\ terminal # 0 => lastId[c] < terminal
      /\ cleared[c] => lastId[c] = 0 /\ events # <<>>
      /\ UpTo(events, sequence) /\ (events = <<>> => sequence = 0)
  BY DEF Types, RunType, ClientType, RingInv, ConnInv
<1> DEFINE frames == IF PrefixLost(lastId[c]) THEN <<0>> \o events
                                              ELSE Newer(events, lastId[c])
<1>2. ASSUME \E i \in 1 .. Len(frames) : terminal # 0 => frames[i] = terminal
      PROVE  Replay(lastId[c]) = frames
  BY <1>2 DEF Replay
<1>3. CASE PrefixLost(lastId[c])
  <2>1. frames = <<0>> \o events /\ events # <<>>
    BY <1>3 DEF PrefixLost
  <2>2. Len(events) \in 1 .. sequence /\ Head(events) = sequence - Len(events) + 1
    BY <1>1, <2>1, HeadUpTo
  <2>3. events[Len(events)] = sequence
    <3>1. \A i \in 1 .. Len(events) : events[i] = sequence - Len(events) + i
      BY <1>1 DEF UpTo
    <3>2. Len(events) \in 1 .. Len(events) /\ Len(events) \in Nat /\ sequence \in Nat
      BY <1>1, <2>2
    <3>3. events[Len(events)] = sequence - Len(events) + Len(events)
      BY <3>1, <3>2
    <3> QED BY <3>2, <3>3
  <2>4. /\ Len(<<0>> \o events) = Len(events) + 1
        /\ (<<0>> \o events)[Len(events) + 1] = events[Len(events)]
        /\ Head(<<0>> \o events) = 0 /\ Tail(<<0>> \o events) = events
        /\ <<0>> \o events # <<>>
    BY <1>1, <2>2
  <2>5. Replay(lastId[c]) = <<0>> \o events
    <3>1. Len(events) + 1 \in 1 .. Len(frames) /\ frames[Len(events) + 1] = sequence
      BY <2>1, <2>2, <2>3, <2>4
    <3> HIDE DEF frames
    <3>2. terminal # 0 => frames[Len(events) + 1] = terminal
      BY <1>1, <3>1
    <3> QED BY <1>2, <2>1, <3>1, <3>2
  <2>6. lastId[c] + Len(events) <= sequence
    BY <1>1, <1>3, <2>2 DEF PrefixLost
  <2> QED BY <1>1, <2>1, <2>4, <2>5, <2>6 DEF Follows
<1>4. CASE ~PrefixLost(lastId[c])
  <2>1. PICK r : r = Newer(events, lastId[c])
    OBVIOUS
  <2>2. PICK n \in 0 .. Len(events) :
          /\ r \in Seq(Nat) /\ Len(r) = n
          /\ \A i \in 1 .. n : r[i] = sequence - n + i /\ r[i] > lastId[c]
          /\ n = 0 => events = <<>> \/ sequence <= lastId[c]
          /\ n < Len(events) => sequence - n <= lastId[c]
    BY <1>1, <2>1, NewerFacts DEF Types
  <2>3. frames = r
    BY <1>4, <2>1
  <2> HIDE DEF frames
  <2>4. Len(events) \in Nat /\ Len(events) <= sequence
    BY <1>1 DEF UpTo
  <2>5. CASE n = 0
    <3>1. lastId[c] = sequence
      BY <1>1, <2>2, <2>5
    <3>2. terminal = 0
      BY <1>1, <3>1
    <3>3. r = <<>>
      BY <2>2, <2>5, EmptySeq
    <3>4. Replay(lastId[c]) = r
      BY <2>3, <3>2 DEF Replay, frames
    <3>5. ~cleared[c]
      <4>1. ASSUME events # <<>> PROVE sequence # 0
        BY <1>1, <4>1, HeadUpTo
      <4> QED BY <1>1, <3>1, <4>1
    <3> QED BY <3>1, <3>3, <3>4, <3>5 DEF Follows
  <2>6. CASE n # 0
    <3>1. /\ n \in 1 .. n /\ 1 \in 1 .. n /\ r[n] = sequence
          /\ r[1] = sequence - n + 1 /\ r[1] > lastId[c]
      <4>1. n \in Nat /\ n >= 1 /\ sequence \in Nat
        BY <1>1, <2>4, <2>6
      <4>2. n \in 1 .. n /\ 1 \in 1 .. n
        BY <4>1
      <4>3. r[n] = sequence - n + n /\ r[1] = sequence - n + 1 /\ r[1] > lastId[c]
        BY <2>2, <4>2
      <4> QED BY <4>1, <4>2, <4>3
    <3>2. terminal # 0 => frames[n] = terminal
      BY <1>1, <2>3, <3>1
    <3>3. Replay(lastId[c]) = r
      BY <1>2, <2>2, <2>3, <3>1, <3>2
    <3>4. lastId[c] = sequence - n
      <4> lastId[c] \in Nat /\ n \in Nat /\ sequence \in Nat /\ sequence - n + 1 > lastId[c]
        BY <1>1, <2>4, <3>1
      <4>1. CASE n < Len(events)
        <5>1. sequence - n <= lastId[c]
          BY <2>2, <4>1
        <5> QED BY <5>1
      <4>2. CASE n = Len(events)
        <5>1. events # <<>>
          BY <2>6, <4>2
        <5>2. Head(events) = sequence - n + 1
          BY <1>1, <4>2, <5>1, HeadUpTo
        <5>3. lastId[c] >= Head(events) - 1
          BY <1>1, <1>4, <5>1, <5>2 DEF PrefixLost
        <5> QED BY <5>2, <5>3
      <4> QED BY <2>2, <2>4, <4>1, <4>2
    <3>5. r # <<>>
      BY <2>2, <2>6
    <3>6. UpTo(r, sequence)
      <4>1. Len(r) <= sequence /\ \A i \in 1 .. Len(r) : r[i] = sequence - Len(r) + i
        BY <1>1, <2>2, <2>4
      <4> QED BY <4>1 DEF UpTo
    <3> QED BY <2>2, <3>3, <3>4, <3>5, <3>6 DEF Follows
  <2> QED BY <2>5, <2>6
<1> QED BY <1>3, <1>4

\* Showing the next frame of a replay leaves a replay that still follows.
LEMMA FollowsNext ==
  ASSUME NEW frames \in Seq(Nat), NEW m \in Nat, frames # <<>>,
         NEW last, NEW wiped, Follows(last, wiped, frames, m),
         NEW next, NEW reset, next = Head(frames), reset <=> Head(frames) = 0
  PROVE  Follows(next, reset, Tail(frames), m)
<1>1. CASE UpTo(frames, m)
  <2>1. /\ Len(frames) \in 1 .. m /\ Head(frames) = m - Len(frames) + 1
        /\ Head(frames) # 0
        /\ Len(Tail(frames)) = Len(frames) - 1 /\ (Tail(frames) = <<>> <=> Len(frames) = 1)
    BY <1>1, HeadUpTo
  <2>2. UpTo(Tail(frames), m)
    BY <1>1, TailUpTo
  <2>3. next = m - Len(Tail(frames)) /\ ~reset
    BY <2>1
  <2>4. Tail(frames) = <<>> => next = m
    BY <2>1, <2>3
  <2> QED BY <2>2, <2>3, <2>4 DEF Follows
<1>2. CASE Head(frames) = 0 /\ Tail(frames) # <<>> /\ UpTo(Tail(frames), m)
  BY <1>2 DEF Follows
<1> QED BY <1>1, <1>2 DEF Follows

\* The next frame of a replay: a reset, or an event that was published, and the
\* next one if the browser was not reset.
LEMMA FrameFacts ==
  ASSUME NEW frames \in Seq(Nat), NEW m \in Nat, frames # <<>>,
         NEW last, NEW wiped, Follows(last, wiped, frames, m)
  PROVE  /\ Head(frames) <= m
         /\ Head(frames) = 0 => m > 0
         /\ Head(frames) # 0 => Head(frames) = last + 1 \/ wiped
<1>1. CASE UpTo(frames, m) /\ (last = m - Len(frames) \/ wiped)
  BY <1>1, HeadUpTo
<1>2. CASE Head(frames) = 0 /\ Tail(frames) # <<>> /\ UpTo(Tail(frames), m)
  <2>1. Tail(frames) \in Seq(Nat)
    BY TailFacts
  <2>2. Len(Tail(frames)) \in 1 .. m
    BY <1>2, <2>1, HeadUpTo
  <2> QED BY <1>2, <2>2
<1> QED BY <1>1, <1>2 DEF Follows

\* The next frame of the backlog of a browser's handler.
LEMMA BacklogFacts ==
  ASSUME Types, NEW c \in Clients, NEW h \in Handlers, Chain(c, h), backlog[h] # <<>>
  PROVE  /\ Head(backlog[h]) \in Nat /\ Head(backlog[h]) <= sequence
         /\ Head(backlog[h]) = 0 => sequence > 0
         /\ Head(backlog[h]) # 0 => Head(backlog[h]) = lastId[c] + 1 \/ cleared[c]
<1>1. backlog[h] \in Seq(Nat) /\ sequence \in Nat /\ queue[h] \in Seq(Nat \cup {None})
  BY DEF Types, RunType, HandlerType
<1>2. \E m \in Nat : m <= sequence /\ Follows(lastId[c], cleared[c], backlog[h], m)
  <2>1. CASE /\ UpTo(queue[h], Given(h))
             /\ Follows(lastId[c], cleared[c], backlog[h], Given(h) - Len(queue[h]))
    <3>1. Len(queue[h]) \in Nat /\ Len(queue[h]) <= Given(h) /\ Given(h) \in {sequence, sequence - 1}
      BY <1>1, <2>1 DEF UpTo, Given
    <3>2. Given(h) - Len(queue[h]) \in Nat /\ Given(h) - Len(queue[h]) <= sequence
      BY <1>1, <3>1
    <3> QED BY <2>1, <3>2
  <2>2. CASE \E m \in 0 .. sequence : Follows(lastId[c], cleared[c], backlog[h], m)
    BY <1>1, <2>2
  <2> QED BY <2>1, <2>2 DEF Chain
<1>3. PICK m \in Nat : m <= sequence /\ Follows(lastId[c], cleared[c], backlog[h], m)
  BY <1>2
<1>4. Head(backlog[h]) \in Nat
  BY <1>1, TailFacts
<1>5. /\ Head(backlog[h]) <= m
      /\ Head(backlog[h]) = 0 => m > 0
      /\ Head(backlog[h]) # 0 => Head(backlog[h]) = lastId[c] + 1 \/ cleared[c]
  BY <1>1, <1>3, FrameFacts
<1> QED BY <1>1, <1>3, <1>4, <1>5

\* The next event of the queue of a browser's handler, the replay being over.
LEMMA EventFacts ==
  ASSUME Types, NEW c \in Clients, NEW h \in Handlers, Chain(c, h),
         backlog[h] = <<>>, queue[h] # <<>>, Head(queue[h]) # None
  PROVE  /\ Head(queue[h]) \in 1 .. sequence /\ ~cleared[c]
         /\ \/ /\ h \in subscribers /\ UpTo(queue[h], Given(h))
               /\ Head(queue[h]) = lastId[c] + 1 /\ Given(h) \in Nat
            \/ /\ h = victim /\ UpTo(queue[h], sequence - 1) /\ sequence - 1 \in Nat
<1>1. sequence \in Nat /\ queue[h] \in Seq(Nat \cup {None}) /\ Nat \subseteq Nat \cup {None}
  BY DEF Types, RunType, HandlerType
<1>2. Given(h) \in {sequence, sequence - 1}
  BY DEF Given
<1>3. ASSUME NEW m, Follows(lastId[c], cleared[c], backlog[h], m) PROVE lastId[c] = m /\ ~cleared[c]
  BY <1>3 DEF Follows
<1>4. ASSUME NEW n, n \in {sequence, sequence - 1}, UpTo(queue[h], n)
      PROVE  /\ n \in Nat /\ Len(queue[h]) \in 1 .. n
             /\ Head(queue[h]) = n - Len(queue[h]) + 1 /\ Head(queue[h]) \in 1 .. sequence
  <2>1. Len(queue[h]) \in Nat /\ Len(queue[h]) <= n
    BY <1>1, <1>4 DEF UpTo
  <2>2. n \in Nat /\ n <= sequence
    BY <1>1, <1>4, <2>1
  <2>3. /\ Len(queue[h]) \in 1 .. n /\ Head(queue[h]) = n - Len(queue[h]) + 1
        /\ Head(queue[h]) \in 1 .. n
    <3>1. queue[h] \in Seq(Nat \cup {None}) /\ n \in Nat /\ UpTo(queue[h], n) /\ queue[h] # <<>>
      BY <1>1, <1>4, <2>2
    <3> QED BY <3>1, HeadUpTo
  <2>4. ASSUME NEW e \in 1 .. n PROVE e \in 1 .. sequence
    BY <1>1, <2>2
  <2> QED BY <2>2, <2>3, <2>4
<1>5. CASE /\ h \in subscribers /\ UpTo(queue[h], Given(h))
           /\ Follows(lastId[c], cleared[c], backlog[h], Given(h) - Len(queue[h]))
  <2>1. lastId[c] = Given(h) - Len(queue[h]) /\ ~cleared[c]
    BY <1>3, <1>5
  <2> QED BY <1>2, <1>4, <1>5, <2>1
<1>6. CASE /\ h = victim /\ UpTo(queue[h], sequence - 1)
           /\ \E m \in 0 .. sequence : Follows(lastId[c], cleared[c], backlog[h], m)
  BY <1>3, <1>4, <1>6
<1>7. queue[h] \notin {<<>>, <<None>>}
  OBVIOUS
<1> QED BY <1>5, <1>6, <1>7 DEF Chain

LEMMA DeliverConn ==
  ASSUME Types, RingInv, ConnInv, NEW h \in Handlers, NEW frame \in Nat, Deliver(h, frame),
         UNCHANGED <<events, sequence, terminal>>,
         \A x \in Handlers : pc[x] # "idle" => pc'[x] # "idle",
         \A c \in Clients : conn[c] = h => frame <= sequence /\ (frame = 0 => sequence > 0)
  PROVE  ConnInv'
<1>1. /\ sequence \in Nat /\ terminal \in {0, sequence} /\ None \notin Handlers
      /\ events = <<>> => sequence = 0
      /\ conn \in [Clients -> Handlers \cup {None}] /\ lastId \in [Clients -> Nat]
  BY StreamAssumption DEF Types, RunType, ClientType, RingInv
<1>2. ASSUME NEW c \in Clients
      PROVE  /\ conn[c] # None => status[c] = "watching" /\ pc[conn[c]] # "idle"
             /\ lastId[c] <= sequence
             /\ status[c] = "watching" /\ terminal # 0 => lastId[c] < terminal
             /\ cleared[c] => lastId[c] = 0 /\ events # <<>>
  BY DEF ConnInv
<1>3. ASSUME NEW c \in Clients
      PROVE  /\ conn'[c] # None => status'[c] = "watching" /\ pc'[conn'[c]] # "idle"
             /\ lastId'[c] <= sequence
             /\ status'[c] = "watching" /\ terminal # 0 => lastId'[c] < terminal
             /\ cleared'[c] => lastId'[c] = 0 /\ events # <<>>
  <2>1. CASE conn[c] # h
    <3>1. /\ conn'[c] = conn[c] /\ status'[c] = status[c] /\ lastId'[c] = lastId[c]
          /\ cleared'[c] = cleared[c]
      BY <2>1 DEF Deliver
    <3>2. conn[c] # None => conn[c] \in Handlers
      BY <1>1
    <3> QED BY <1>2, <3>1, <3>2
  <2>2. CASE conn[c] = h /\ frame = terminal /\ frame # 0
    <3>1. /\ conn'[c] = None /\ status'[c] = "ended" /\ lastId'[c] = frame
          /\ cleared'[c] = FALSE
      BY <2>2 DEF Deliver
    <3> QED BY <1>1, <2>2, <3>1
  <2>3. CASE conn[c] = h /\ ~(frame = terminal /\ frame # 0)
    <3>1. /\ conn'[c] = h /\ status'[c] = status[c] /\ lastId'[c] = frame
          /\ cleared'[c] = (frame = 0)
      BY <2>3 DEF Deliver
    <3>2. frame <= sequence /\ (frame = 0 => sequence > 0)
      BY <2>3
    <3>3. status[c] = "watching" /\ pc[h] # "idle" /\ pc'[h] # "idle"
      BY <1>1, <1>2, <2>3
    <3>4. terminal # 0 => frame < terminal
      BY <1>1, <2>3, <3>2
    <3>5. frame = 0 => events # <<>>
      BY <1>1, <3>2
    <3> QED BY <3>1, <3>2, <3>3, <3>4, <3>5
  <2> QED BY <2>1, <2>2, <2>3
<1>4. ASSUME NEW c \in Clients, NEW d \in Clients, conn'[c] = conn'[d], conn'[c] # None
      PROVE  c = d
  <2>1. conn[c] = conn[d] /\ conn[c] # None
    BY <1>4 DEF Deliver
  <2> QED BY <2>1 DEF ConnInv
<1> QED BY <1>3, <1>4 DEF ConnInv

LEMMA StepConn ==
  ASSUME Types, RingInv, FedInv, ConnInv, ChainInv, Next
  PROVE  ConnInv'
<1>1. /\ sequence \in Nat /\ terminal \in {0, sequence} /\ None \notin Handlers
      /\ conn \in [Clients -> Handlers \cup {None}] /\ lastId \in [Clients -> Nat]
      /\ pc \in [Handlers -> {"idle", "replay", "live", "closing"}]
      /\ events = <<>> => sequence = 0
  BY StreamAssumption DEF Types, RunType, ClientType, HandlerType, RingInv
<1>2. ASSUME NEW c \in Clients
      PROVE  /\ conn[c] # None => status[c] = "watching" /\ pc[conn[c]] # "idle"
             /\ lastId[c] <= sequence
             /\ status[c] = "watching" /\ terminal # 0 => lastId[c] < terminal
             /\ cleared[c] => lastId[c] = 0 /\ events # <<>>
             /\ conn[c] # None => conn[c] \in Handlers
  BY <1>1 DEF ConnInv
<1>3. ASSUME NEW c \in Clients, NEW d \in Clients, conn[c] = conn[d], conn[c] # None
      PROVE  c = d
  BY <1>3 DEF ConnInv
<1>4. ASSUME UNCHANGED <<conn, lastId, status, cleared, sequence, terminal, events>>,
             \A x \in Handlers : pc[x] # "idle" => pc'[x] # "idle"
      PROVE  ConnInv'
  BY <1>2, <1>3, <1>4 DEF ConnInv
<1>5. CASE Publish /\ terminal' \in {terminal, sequence + 1}
  <2>1. /\ UNCHANGED <<conn, lastId, status, cleared, pc>> /\ sequence' = sequence + 1
        /\ terminal = 0 /\ events' = AppendBounded(events, sequence + 1)
    BY <1>5 DEF Publish, handlerVars, clientVars
  <2>2. events' # <<>>
    BY <2>1, AppendBoundedFacts DEF Types, RunType, RingInv
  <2>3. ASSUME NEW c \in Clients
        PROVE  /\ conn'[c] # None => status'[c] = "watching" /\ pc'[conn'[c]] # "idle"
               /\ lastId'[c] <= sequence'
               /\ status'[c] = "watching" /\ terminal' # 0 => lastId'[c] < terminal'
               /\ cleared'[c] => lastId'[c] = 0 /\ events' # <<>>
    BY <1>1, <1>2, <1>5, <2>1, <2>2
  <2> QED BY <1>3, <2>1, <2>3 DEF ConnInv
<1>6. ASSUME NEW h \in Handlers, Publisher(h) PROVE ConnInv'
  <2>1. UNCHANGED <<conn, lastId, status, cleared, sequence, terminal, events, pc>>
    BY <1>6 DEF Publisher, PutEvent, CutOff, Drain, PutSentinel, runVars, handlerVars, clientVars
  <2> QED BY <1>4, <2>1
<1>7. ASSUME NEW h \in Handlers, EndReplay(h) \/ ServeSentinel(h) \/ WriteFails(h)
      PROVE  ConnInv'
  <2>1. /\ UNCHANGED <<conn, lastId, status, cleared, sequence, terminal, events>>
        /\ \E p \in {"live", "closing"} : pc' = [pc EXCEPT ![h] = p]
    BY <1>7 DEF EndReplay, ServeSentinel, WriteFails, runVars, clientVars
  <2> QED BY <1>1, <1>4, <2>1
<1>8. ASSUME NEW h \in Handlers, WriteBacklog(h) PROVE ConnInv'
  <2>1. /\ backlog[h] # <<>> /\ Deliver(h, Head(backlog[h])) /\ UNCHANGED pc
        /\ UNCHANGED <<events, sequence, terminal>>
    BY <1>8 DEF WriteBacklog, runVars
  <2>2. Head(backlog[h]) \in Nat
    BY <2>1, TailFacts DEF Types, HandlerType
  <2>3. ASSUME NEW c \in Clients, conn[c] = h
        PROVE  Head(backlog[h]) <= sequence /\ (Head(backlog[h]) = 0 => sequence > 0)
    <3>1. Chain(c, h)
      BY <1>1, <2>3 DEF ChainInv
    <3> QED BY <2>1, <3>1, BacklogFacts
  <2> QED BY <2>1, <2>2, <2>3, DeliverConn
<1>9. ASSUME NEW h \in Handlers, ServeEvent(h) PROVE ConnInv'
  <2>1. /\ queue[h] # <<>> /\ Head(queue[h]) # None /\ pc[h] = "live"
        /\ Deliver(h, Head(queue[h]))
        /\ \E p \in {"live", "closing"} : pc' = [pc EXCEPT ![h] = p]
        /\ UNCHANGED <<events, sequence, terminal>>
    BY <1>9 DEF ServeEvent, runVars
  <2>2. Head(queue[h]) \in Nat
    <3>1. queue[h] \in Seq(Nat \cup {None})
      BY DEF Types, HandlerType
    <3> QED BY <2>1, <3>1, TailFacts
  <2>3. ASSUME NEW c \in Clients, conn[c] = h
        PROVE  Head(queue[h]) <= sequence /\ (Head(queue[h]) = 0 => sequence > 0)
    <3>1. Chain(c, h)
      BY <1>1, <2>3 DEF ChainInv
    <3>2. backlog[h] = <<>>
      BY <2>1 DEF FedInv
    <3>3. Head(queue[h]) \in 1 .. sequence
      BY <2>1, <3>1, <3>2, EventFacts
    <3> QED BY <1>1, <3>3
  <2>4. \A x \in Handlers : pc[x] # "idle" => pc'[x] # "idle"
    BY <1>1, <2>1
  <2> QED BY <2>1, <2>2, <2>3, <2>4, DeliverConn
<1>10. ASSUME NEW c \in Clients, NEW h \in Handlers, Subscribe(c, h) PROVE ConnInv'
  <2>1. /\ UNCHANGED <<events, sequence, terminal, lastId, status, cleared>>
        /\ conn' = [conn EXCEPT ![c] = h] /\ pc' = [pc EXCEPT ![h] = "replay"]
        /\ status[c] = "watching" /\ pc[h] = "idle" /\ conn[c] = None
    BY <1>10 DEF Subscribe
  <2>2. ASSUME NEW d \in Clients PROVE conn[d] # h
    BY <1>1, <1>2, <2>1
  <2>3. ASSUME NEW d \in Clients, conn'[d] # None
        PROVE  status'[d] = "watching" /\ pc'[conn'[d]] # "idle"
    BY <1>1, <1>2, <2>1, <2>2, <2>3
  <2>4. ASSUME NEW d \in Clients, NEW e \in Clients, conn'[d] = conn'[e], conn'[d] # None
        PROVE  d = e
    BY <1>1, <1>3, <2>1, <2>2, <2>4
  <2> QED BY <1>2, <2>1, <2>3, <2>4 DEF ConnInv
<1>11. ASSUME UNCHANGED <<events, sequence, terminal, lastId, cleared>>,
              \A d \in Clients : /\ conn'[d] \in {None, conn[d]}
                                 /\ status'[d] = "watching" => status[d] = "watching"
                                 /\ conn'[d] # None => /\ status'[d] = status[d]
                                                       /\ pc'[conn[d]] = pc[conn[d]]
       PROVE  ConnInv'
  <2>1. ASSUME NEW d \in Clients, conn'[d] # None
        PROVE  status'[d] = "watching" /\ pc'[conn'[d]] # "idle"
    BY <1>2, <1>11, <2>1
  <2>2. ASSUME NEW d \in Clients, NEW e \in Clients, conn'[d] = conn'[e], conn'[d] # None
        PROVE  d = e
    BY <1>3, <1>11, <2>2
  <2> QED BY <1>2, <1>11, <2>1, <2>2 DEF ConnInv
<1>12. ASSUME NEW c \in Clients, Refuse(c) \/ Break(c) \/ Leave(c) PROVE ConnInv'
  <2>1. /\ UNCHANGED <<events, sequence, terminal, lastId, cleared, pc>>
        /\ conn' = conn \/ conn' = [conn EXCEPT ![c] = None]
        /\ status' = status \/ (status' = [status EXCEPT ![c] = "refused"] /\ conn[c] = None
                                  /\ conn' = conn)
             \/ (status' = [status EXCEPT ![c] = "left"] /\ conn' = [conn EXCEPT ![c] = None])
    BY <1>12 DEF Refuse, Break, Leave, runVars, handlerVars
  <2>2. status \in [Clients -> {"watching", "ended", "refused", "left"}]
    BY DEF Types, ClientType
  <2>3. ASSUME NEW d \in Clients
        PROVE  /\ conn'[d] \in {None, conn[d]}
               /\ status'[d] = "watching" => status[d] = "watching"
               /\ conn'[d] # None => status'[d] = status[d]
    <3>1. CASE d = c
      BY <1>1, <2>1, <2>2, <3>1
    <3>2. CASE d # c
      BY <1>1, <2>1, <2>2, <3>2
    <3> QED BY <3>1, <3>2
  <2> QED BY <1>11, <2>1, <2>3
<1>13. ASSUME NEW h \in Handlers, Unsubscribe(h) PROVE ConnInv'
  <2>1. /\ UNCHANGED <<events, sequence, terminal, lastId, status, cleared>>
        /\ conn' = [c \in Clients |-> IF conn[c] = h THEN None ELSE conn[c]]
        /\ pc' = [pc EXCEPT ![h] = "idle"]
    BY <1>13 DEF Unsubscribe
  <2>2. ASSUME NEW d \in Clients
        PROVE  /\ conn'[d] \in {None, conn[d]}
               /\ conn'[d] # None => pc'[conn[d]] = pc[conn[d]]
    BY <1>1, <1>2, <2>1
  <2> QED BY <1>11, <2>1, <2>2
<1>14. CASE Emit \/ Finish
  BY <1>5, <1>14 DEF Emit, Finish
<1> QED
  BY <1>6, <1>7, <1>8, <1>9, <1>10, <1>12, <1>13, <1>14 DEF Next, Serve, Connect

LEMMA StepChain ==
  ASSUME Types, RingInv, LockInv, FedInv, ConnInv, ChainInv, Next
  PROVE  ChainInv'
<1>1. /\ sequence \in Nat /\ None \notin Handlers /\ None \notin Nat
      /\ subscribers \subseteq Handlers /\ todo \subseteq subscribers
      /\ victim \notin subscribers
      /\ conn \in [Clients -> Handlers \cup {None}] /\ lastId \in [Clients -> Nat]
      /\ pc \in [Handlers -> {"idle", "replay", "live", "closing"}]
      /\ queue \in [Handlers -> Seq(Nat \cup {None})] /\ backlog \in [Handlers -> Seq(Nat)]
      /\ Nat \subseteq Nat \cup {None}
  BY StreamAssumption DEF Types, RunType, ClientType, HandlerType, LockInv
<1>2. SUFFICES ASSUME NEW c \in Clients, NEW x \in Handlers, conn'[c] = x
               PROVE  Chain(c, x)'
  <2>1. Types'
    BY StepTypes
  <2> QED BY <2>1 DEF ChainInv, Types, ClientType
<1>3. ASSUME conn'[c] = conn[c] PROVE conn[c] = x /\ Chain(c, x)
  BY <1>1, <1>2, <1>3 DEF ChainInv
<1>4. ASSUME Chain(c, x), lastId'[c] = lastId[c], cleared'[c] = cleared[c],
             backlog'[x] = backlog[x], queue'[x] = queue[x], sequence' = sequence,
             x \in todo <=> x \in todo', x \in subscribers <=> x \in subscribers',
             x = victim <=> x = victim'
      PROVE  Chain(c, x)'
  <2>1. Given(x)' = Given(x)
    BY <1>4 DEF Given
  <2> QED BY <1>4, <2>1 DEF Chain
<1>5. CASE Publish
  <2>1. /\ todo = {} /\ victim = None /\ victim' = None /\ todo' = subscribers
        /\ sequence' = sequence + 1
        /\ UNCHANGED <<subscribers, conn, lastId, cleared, queue, backlog>>
    BY <1>5 DEF Publish, Locked, handlerVars, clientVars
  <2>2. conn[c] = x /\ Chain(c, x)
    BY <1>3, <2>1
  <2>4. CASE x \in subscribers
    <3>1. Given(x) = sequence /\ Given(x)' = sequence
      BY <1>1, <2>1, <2>4 DEF Given
    <3>2. /\ UpTo(queue[x], sequence)
          /\ Follows(lastId[c], cleared[c], backlog[x], sequence - Len(queue[x]))
      BY <1>1, <2>1, <2>2, <2>4, <3>1 DEF Chain
    <3> QED BY <2>1, <2>2, <2>4, <3>1, <3>2 DEF Chain
  <2>5. CASE x \notin subscribers
    <3>1. /\ queue[x] \in {<<>>, <<None>>}
          /\ \E m \in 0 .. sequence : Follows(lastId[c], cleared[c], backlog[x], m)
      BY <1>1, <2>1, <2>2, <2>5 DEF Chain
    <3>2. \E m \in 0 .. sequence' : Follows(lastId'[c], cleared'[c], backlog'[x], m)
      <4>1. \A m \in 0 .. sequence : m \in 0 .. sequence + 1
        BY <1>1
      <4> QED BY <2>1, <3>1, <4>1
    <3> QED BY <1>1, <2>1, <2>2, <2>5, <3>1, <3>2 DEF Chain
  <2> QED BY <2>4, <2>5
<1>6. ASSUME NEW h \in Handlers, PutEvent(h) PROVE Chain(c, x)'
  <2>1. /\ victim = None /\ victim' = None /\ h \in todo /\ todo' = todo \ {h}
        /\ queue' = [queue EXCEPT ![h] = Append(@, sequence)]
        /\ UNCHANGED <<subscribers, sequence, conn, lastId, cleared, backlog>>
    BY <1>6 DEF PutEvent, clientVars
  <2>2. conn[c] = x /\ Chain(c, x)
    BY <1>3, <2>1
  <2>3. CASE x # h
    BY <1>1, <1>4, <2>1, <2>2, <2>3
  <2>4. CASE x = h
    <3>1. /\ x \in subscribers /\ Given(x) = sequence - 1 /\ Given(x)' = sequence
          /\ queue'[x] = Append(queue[x], sequence) /\ queue[x] \in Seq(Nat \cup {None})
      BY <1>1, <2>1, <2>4 DEF Given
    <3>2. /\ UpTo(queue[x], sequence - 1)
          /\ Follows(lastId[c], cleared[c], backlog[x], sequence - 1 - Len(queue[x]))
      BY <1>1, <2>1, <2>2, <3>1 DEF Chain
    <3>3. PICK n \in Nat : n = sequence - 1 /\ sequence = n + 1
      <4>1. Len(queue[x]) \in Nat /\ Len(queue[x]) <= sequence - 1
        BY <3>1, <3>2 DEF UpTo
      <4> QED BY <1>1, <4>1
    <3>4. UpTo(Append(queue[x], n + 1), n + 1)
      BY <1>1, <3>1, <3>2, <3>3, AppendUpTo
    <3>5. UpTo(queue'[x], sequence)
      BY <3>1, <3>3, <3>4
    <3>6. sequence - Len(queue'[x]) = sequence - 1 - Len(queue[x])
      BY <1>1, <3>1, AppendFacts
    <3>7. Follows(lastId[c], cleared[c], backlog[x], sequence - Len(queue'[x]))
      BY <3>2, <3>6
    <3> QED BY <2>1, <2>2, <3>1, <3>5, <3>7 DEF Chain
  <2> QED BY <2>3, <2>4
<1>7. ASSUME NEW h \in Handlers, CutOff(h) PROVE Chain(c, x)'
  <2>1. /\ victim = None /\ victim' = h /\ h \in todo /\ todo' = todo \ {h}
        /\ subscribers' = subscribers \ {h}
        /\ UNCHANGED <<sequence, conn, lastId, cleared, queue, backlog>>
    BY <1>7 DEF CutOff, handlerVars, clientVars
  <2>2. conn[c] = x /\ Chain(c, x)
    BY <1>3, <2>1
  <2>3. CASE x # h
    BY <1>1, <1>4, <2>1, <2>2, <2>3
  <2>4. CASE x = h
    <3>1. x \in subscribers /\ Given(x) = sequence - 1
      BY <1>1, <2>1, <2>4 DEF Given
    <3>2. /\ UpTo(queue[x], sequence - 1)
          /\ Follows(lastId[c], cleared[c], backlog[x], sequence - 1 - Len(queue[x]))
      BY <1>1, <2>1, <2>2, <3>1 DEF Chain
    <3>3. Len(queue[x]) \in Nat /\ Len(queue[x]) <= sequence - 1
      BY <1>1, <3>2 DEF UpTo
    <3>4. PICK m \in 0 .. sequence : m = sequence - 1 - Len(queue[x])
      <4>1. sequence - 1 - Len(queue[x]) \in 0 .. sequence
        BY <1>1, <3>3
      <4> QED BY <4>1
    <3>5. m + Len(queue[x]) <= sequence - 1 /\ Follows(lastId[c], cleared[c], backlog[x], m)
      BY <1>1, <3>2, <3>3, <3>4
    <3>6. Follows(lastId'[c], cleared'[c], backlog'[x], m)
      BY <2>1, <3>5 DEF Follows
    <3>7. UpTo(queue[x], sequence - 1)'
      BY <2>1, <3>2
    <3>8. /\ x = victim' /\ m \in 0 .. sequence' /\ m + Len(queue'[x]) <= sequence' - 1
      BY <2>1, <2>2, <2>4, <3>4, <3>5
    <3> QED BY <3>6, <3>7, <3>8 DEF Chain
  <2> QED BY <2>3, <2>4
<1>8. ASSUME NEW h \in Handlers, Drain(h) PROVE Chain(c, x)'
  <2>1. /\ victim = h /\ victim' = h /\ queue[h] # <<>>
        /\ queue' = [queue EXCEPT ![h] = Tail(@)]
        /\ UNCHANGED <<subscribers, todo, sequence, conn, lastId, cleared, backlog>>
    BY <1>8 DEF Drain, runVars, clientVars
  <2>2. conn[c] = x /\ Chain(c, x)
    BY <1>3, <2>1
  <2>3. CASE x # h
    BY <1>1, <1>4, <2>1, <2>2, <2>3
  <2>4. CASE x = h
    <3>1. /\ UpTo(queue[x], sequence - 1)
          /\ \E m \in 0 .. sequence : /\ m + Len(queue[x]) <= sequence - 1
                                      /\ Follows(lastId[c], cleared[c], backlog[x], m)
      BY <1>1, <2>1, <2>2, <2>4 DEF Chain
    <3>2. PICK m \in 0 .. sequence : /\ m + Len(queue[x]) <= sequence - 1
                                    /\ Follows(lastId[c], cleared[c], backlog[x], m)
      BY <3>1
    <3>3. queue[x] \in Seq(Nat \cup {None}) /\ queue'[x] = Tail(queue[x])
      BY <1>1, <2>1, <2>4
    <3>4. Len(queue[x]) \in Nat /\ Len(Tail(queue[x])) = Len(queue[x]) - 1
      BY <2>1, <2>4, <3>3, TailFacts
    <3>5. PICK n \in Nat : n = sequence - 1
      BY <1>1, <3>2, <3>4
    <3>6. UpTo(Tail(queue[x]), sequence - 1)
      BY <1>1, <2>1, <2>4, <3>1, <3>3, <3>5, TailUpTo
    <3>7. m + Len(Tail(queue[x])) <= sequence - 1
      BY <1>1, <3>2, <3>4
    <3>8. UpTo(queue[x], sequence - 1)'
      BY <2>1, <3>3, <3>6
    <3>9. Follows(lastId'[c], cleared'[c], backlog'[x], m)
      BY <2>1, <3>2 DEF Follows
    <3>10. /\ x = victim' /\ m \in 0 .. sequence' /\ m + Len(queue'[x]) <= sequence' - 1
      BY <2>1, <2>2, <2>4, <3>3, <3>7
    <3> QED BY <3>8, <3>9, <3>10 DEF Chain
  <2> QED BY <2>3, <2>4
<1>9. ASSUME NEW h \in Handlers, PutSentinel(h) PROVE Chain(c, x)'
  <2>1. /\ victim = h /\ victim' = None /\ queue' = [queue EXCEPT ![h] = <<None>>]
        /\ UNCHANGED <<subscribers, todo, sequence, conn, lastId, cleared, backlog>>
    BY <1>9 DEF PutSentinel, clientVars
  <2>2. conn[c] = x /\ Chain(c, x)
    BY <1>3, <2>1
  <2>3. CASE x # h
    BY <1>1, <1>4, <2>1, <2>2, <2>3
  <2>4. CASE x = h
    <3>1. \E m \in 0 .. sequence : Follows(lastId[c], cleared[c], backlog[x], m)
      BY <1>1, <2>1, <2>2, <2>4 DEF Chain
    <3>2. PICK m \in 0 .. sequence : Follows(lastId[c], cleared[c], backlog[x], m)
      BY <3>1
    <3>3. Follows(lastId'[c], cleared'[c], backlog'[x], m)
      BY <2>1, <3>2 DEF Follows
    <3>4. /\ x \notin subscribers' /\ x # victim' /\ queue'[x] = <<None>>
          /\ m \in 0 .. sequence'
      BY <1>1, <2>1, <2>2, <2>4
    <3> QED BY <3>3, <3>4 DEF Chain
  <2> QED BY <2>3, <2>4
<1>10. ASSUME NEW d \in Clients, NEW h \in Handlers, Subscribe(d, h) PROVE Chain(c, x)'
  <2>1. /\ todo = {} /\ todo' = {} /\ victim = None /\ victim' = None
        /\ status[d] = "watching" /\ pc[h] = "idle"
        /\ backlog' = [backlog EXCEPT ![h] = Replay(lastId[d])]
        /\ subscribers' = IF terminal = 0 THEN subscribers \cup {h} ELSE subscribers
        /\ queue' = [queue EXCEPT ![h] = <<>>] /\ conn' = [conn EXCEPT ![d] = h]
        /\ UNCHANGED <<sequence, lastId, cleared>>
    BY <1>10 DEF Subscribe, Locked
  <2>2. CASE c # d
    <3>1. conn'[c] = conn[c]
      BY <1>1, <2>1, <2>2
    <3>2. conn[c] = x /\ Chain(c, x)
      BY <1>3, <3>1
    <3>3. x # h
      BY <1>1, <2>1, <3>2 DEF ConnInv
    <3> QED BY <1>1, <1>4, <2>1, <3>2, <3>3
  <2>3. CASE c = d
    <3>1. x = h /\ queue'[h] = <<>> /\ backlog'[h] = Replay(lastId[c])
      BY <1>1, <1>2, <2>1, <2>3
    <3>2. Follows(lastId[c], cleared[c], Replay(lastId[c]), sequence)
      BY <2>1, <2>3, ReplayFollows
    <3>3. Follows(lastId[c], cleared[c], backlog[h], sequence)'
      BY <2>1, <3>1, <3>2 DEF Follows
    <3>4. CASE terminal = 0
      <4>1. h \in subscribers' /\ Given(h)' = sequence'
        BY <2>1, <3>4 DEF Given
      <4>2. UpTo(queue[h], Given(h))'
        BY <1>1, <2>1, <3>1, <4>1 DEF UpTo
      <4>3. sequence' = Given(h)' - Len(queue'[h])
        BY <1>1, <2>1, <3>1, <4>1
      <4>4. Follows(lastId[c], cleared[c], backlog[h], Given(h) - Len(queue[h]))'
        BY <3>3, <4>3
      <4> QED BY <3>1, <4>1, <4>2, <4>4 DEF Chain
    <3>5. CASE terminal # 0
      <4>1. h \notin subscribers
        BY <2>1 DEF LockInv
      <4>2. h \notin subscribers' /\ h # victim' /\ sequence' \in 0 .. sequence'
        BY <1>1, <2>1, <3>5, <4>1
      <4> QED BY <3>1, <3>3, <4>2 DEF Chain
    <3> QED BY <3>4, <3>5
  <2> QED BY <2>2, <2>3
<1>11. ASSUME UNCHANGED <<sequence, subscribers, todo, victim, queue, backlog>>,
              lastId' = lastId, cleared' = cleared, conn'[c] \in {None, conn[c]}
       PROVE  Chain(c, x)'
  <2>1. conn[c] = x /\ Chain(c, x)
    BY <1>1, <1>2, <1>3, <1>11
  <2> QED BY <1>4, <1>11, <2>1
<1>12. ASSUME NEW d \in Clients, Refuse(d) \/ Break(d) \/ Leave(d) PROVE Chain(c, x)'
  <2>1. conn' = conn \/ conn' = [conn EXCEPT ![d] = None]
    BY <1>12 DEF Refuse, Break, Leave
  <2>2. conn'[c] \in {None, conn[c]}
    BY <1>1, <2>1
  <2>3. UNCHANGED <<runVars, handlerVars, lastId, cleared>>
    BY <1>12 DEF Refuse, Break, Leave
  <2> QED BY <1>11, <2>2, <2>3 DEF runVars, handlerVars
<1>13. ASSUME NEW h \in Handlers, EndReplay(h) \/ WriteFails(h) PROVE Chain(c, x)'
  BY <1>11, <1>13 DEF EndReplay, WriteFails, runVars, clientVars
<1>14. ASSUME NEW h \in Handlers, WriteBacklog(h) PROVE Chain(c, x)'
  <2>1. /\ backlog[h] # <<>> /\ backlog' = [backlog EXCEPT ![h] = Tail(@)]
        /\ Deliver(h, Head(backlog[h]))
        /\ UNCHANGED <<sequence, subscribers, todo, victim, queue>>
    BY <1>14 DEF WriteBacklog, runVars
  <2>2. conn'[c] = conn[c]
    BY <1>1, <1>2, <2>1 DEF Deliver
  <2>3. conn[c] = x /\ Chain(c, x)
    BY <1>3, <2>2
  <2>4. CASE x # h
    <3>1. lastId'[c] = lastId[c] /\ cleared'[c] = cleared[c]
      BY <2>1, <2>3, <2>4 DEF Deliver
    <3> QED BY <1>1, <1>4, <2>1, <2>3, <2>4, <3>1
  <2>5. CASE x = h
    <3>1. lastId'[c] = Head(backlog[x]) /\ (cleared'[c] <=> Head(backlog[x]) = 0)
      BY <2>1, <2>3, <2>5 DEF Deliver
    <3>2. backlog'[x] = Tail(backlog[x]) /\ backlog[x] \in Seq(Nat) /\ backlog[x] # <<>>
      BY <1>1, <2>1, <2>5
    <3>3. ASSUME NEW m \in Nat, Follows(lastId[c], cleared[c], backlog[x], m)
          PROVE  Follows(lastId'[c], cleared'[c], backlog'[x], m)
      <4>1. Follows(lastId'[c], cleared'[c], Tail(backlog[x]), m)
        BY <3>1, <3>2, <3>3, FollowsNext
      <4> QED BY <3>2, <4>1
    <3>4. Given(x)' = Given(x) /\ queue'[x] = queue[x]
      BY <2>1 DEF Given
    <3>5. CASE /\ x \in subscribers /\ UpTo(queue[x], Given(x))
               /\ Follows(lastId[c], cleared[c], backlog[x], Given(x) - Len(queue[x]))
      <4>1. /\ Len(queue[x]) \in Nat /\ Len(queue[x]) <= Given(x)
            /\ Given(x) \in {sequence, sequence - 1}
        BY <1>1, <3>5 DEF UpTo, Given
      <4>2. PICK m \in Nat : m = Given(x) - Len(queue[x])
        BY <1>1, <4>1
      <4>3. Follows(lastId'[c], cleared'[c], backlog'[x], m) /\ m = Given(x)' - Len(queue'[x])
        BY <3>3, <3>4, <3>5, <4>2
      <4>4. x \in subscribers' /\ UpTo(queue[x], Given(x))'
        BY <2>1, <3>4, <3>5
      <4>5. Follows(lastId[c], cleared[c], backlog[x], Given(x) - Len(queue[x]))'
        BY <4>3
      <4> QED BY <2>3, <4>4, <4>5 DEF Chain
    <3>6. CASE /\ x = victim /\ UpTo(queue[x], sequence - 1)
               /\ \E m \in 0 .. sequence : /\ m + Len(queue[x]) <= sequence - 1
                                           /\ Follows(lastId[c], cleared[c], backlog[x], m)
      <4>1. PICK m \in 0 .. sequence : /\ m + Len(queue[x]) <= sequence - 1
                                      /\ Follows(lastId[c], cleared[c], backlog[x], m)
        BY <3>6
      <4>2. Follows(lastId'[c], cleared'[c], backlog'[x], m)
        BY <1>1, <3>3, <4>1
      <4>3. /\ x = victim' /\ m \in 0 .. sequence' /\ m + Len(queue'[x]) <= sequence' - 1
            /\ UpTo(queue[x], sequence - 1)'
        BY <2>1, <3>6, <4>1
      <4> QED BY <2>3, <4>2, <4>3 DEF Chain
    <3>7. CASE /\ x \notin subscribers /\ x # victim
               /\ queue[x] \in {<<>>, <<None>>}
               /\ \E m \in 0 .. sequence : Follows(lastId[c], cleared[c], backlog[x], m)
      <4>1. PICK m \in 0 .. sequence : Follows(lastId[c], cleared[c], backlog[x], m)
        BY <3>7
      <4>2. Follows(lastId'[c], cleared'[c], backlog'[x], m)
        BY <1>1, <3>3, <4>1
      <4>3. /\ x \notin subscribers' /\ x # victim' /\ queue'[x] \in {<<>>, <<None>>}
            /\ m \in 0 .. sequence'
        BY <2>1, <3>7
      <4> QED BY <2>3, <4>2, <4>3 DEF Chain
    <3> QED BY <2>3, <3>5, <3>6, <3>7 DEF Chain
  <2> QED BY <2>4, <2>5
<1>15. ASSUME NEW h \in Handlers, ServeEvent(h) PROVE Chain(c, x)'
  <2>1. /\ pc[h] = "live" /\ queue[h] # <<>> /\ Head(queue[h]) # None
        /\ queue' = [queue EXCEPT ![h] = Tail(@)] /\ Deliver(h, Head(queue[h]))
        /\ UNCHANGED <<sequence, subscribers, todo, victim, backlog>>
    BY <1>15 DEF ServeEvent, runVars
  <2>2. conn'[c] = conn[c]
    BY <1>1, <1>2, <2>1 DEF Deliver
  <2>3. conn[c] = x /\ Chain(c, x)
    BY <1>3, <2>2
  <2>4. CASE x # h
    <3>1. lastId'[c] = lastId[c] /\ cleared'[c] = cleared[c]
      BY <2>1, <2>3, <2>4 DEF Deliver
    <3> QED BY <1>1, <1>4, <2>1, <2>3, <2>4, <3>1
  <2>5. CASE x = h
    <3>1. /\ lastId'[c] = Head(queue[x]) /\ cleared'[c] = (Head(queue[x]) = 0)
          /\ backlog[x] = <<>> /\ backlog'[x] = <<>>
      BY <2>1, <2>3, <2>5 DEF Deliver, FedInv
    <3>2. /\ queue'[x] = Tail(queue[x]) /\ queue[x] \in Seq(Nat \cup {None})
          /\ queue[x] # <<>>
      BY <1>1, <2>1, <2>5
    <3>3. /\ Head(queue[x]) \in 1 .. sequence
          /\ \/ /\ x \in subscribers /\ UpTo(queue[x], Given(x)) /\ Given(x) \in Nat
             \/ /\ x = victim /\ UpTo(queue[x], sequence - 1) /\ sequence - 1 \in Nat
      BY <2>1, <2>3, <2>5, <3>1, EventFacts
    <3>4. PICK e \in 1 .. sequence : e = Head(queue[x])
      BY <3>3
    <3>5. e # 0 /\ e \in 0 .. sequence
      BY <1>1, <3>4
    <3>6. Follows(lastId[c], cleared[c], backlog[x], e)'
      BY <3>1, <3>4, <3>5 DEF Follows
    <3>7. CASE x \in subscribers /\ UpTo(queue[x], Given(x)) /\ Given(x) \in Nat
      <4>1. UpTo(Tail(queue[x]), Given(x))
        BY <1>1, <3>2, <3>7, TailUpTo
      <4>2. /\ Len(queue[x]) \in 1 .. Given(x) /\ e = Given(x) - Len(queue[x]) + 1
            /\ Len(Tail(queue[x])) = Len(queue[x]) - 1
        BY <3>2, <3>4, <3>7, HeadUpTo
      <4>3. e = Given(x) - Len(Tail(queue[x]))
        BY <3>7, <4>2
      <4>4. Given(x)' = Given(x)
        BY <2>1 DEF Given
      <4>5. UpTo(queue[x], Given(x))' /\ x \in subscribers' /\ e = (Given(x) - Len(queue[x]))'
        BY <2>1, <3>2, <3>7, <4>1, <4>3, <4>4
      <4>6. Follows(lastId[c], cleared[c], backlog[x], Given(x) - Len(queue[x]))'
        BY <3>6, <4>5
      <4> QED BY <2>3, <4>5, <4>6 DEF Chain
    <3>8. CASE x = victim /\ UpTo(queue[x], sequence - 1) /\ sequence - 1 \in Nat
      <4>1. UpTo(Tail(queue[x]), sequence - 1)
        BY <1>1, <3>2, <3>8, TailUpTo
      <4>2. PICK n \in Nat : n = sequence - 1 /\ UpTo(queue[x], n)
        BY <3>8
      <4>3. /\ Len(queue[x]) \in 1 .. n /\ e = n - Len(queue[x]) + 1
            /\ Len(Tail(queue[x])) = Len(queue[x]) - 1
        BY <3>2, <3>4, <4>2, HeadUpTo
      <4>4. e + Len(Tail(queue[x])) <= n
        <5>1. ASSUME NEW k \in 1 .. n, NEW j, j = k - 1 PROVE n - k + 1 + j <= n
          BY <4>2, <5>1
        <5> QED BY <4>3, <5>1
      <4>5. /\ x = victim' /\ UpTo(queue[x], sequence - 1)' /\ e \in 0 .. sequence'
            /\ e + Len(queue'[x]) <= sequence' - 1
        BY <2>1, <3>2, <3>5, <3>8, <4>1, <4>2, <4>4
      <4> QED BY <2>3, <3>6, <4>5 DEF Chain
    <3> QED BY <3>3, <3>7, <3>8
  <2> QED BY <2>4, <2>5
<1>16. ASSUME NEW h \in Handlers, ServeSentinel(h) PROVE Chain(c, x)'
  <2>1. /\ queue[h] # <<>> /\ Head(queue[h]) = None
        /\ queue' = [queue EXCEPT ![h] = Tail(@)]
        /\ UNCHANGED <<sequence, subscribers, todo, victim, conn, lastId, cleared, backlog>>
    BY <1>16 DEF ServeSentinel, runVars, clientVars
  <2>2. conn[c] = x /\ Chain(c, x)
    BY <1>3, <2>1
  <2>3. CASE x # h
    BY <1>1, <1>4, <2>1, <2>2, <2>3
  <2>4. CASE x = h
    <3>1. queue[x] \in Seq(Nat \cup {None}) /\ queue[x] # <<>> /\ queue'[x] = Tail(queue[x])
      BY <1>1, <2>1, <2>4
    <3>2. ASSUME NEW n \in {sequence, sequence - 1}, UpTo(queue[x], n) PROVE FALSE
      <4>1. Len(queue[x]) \in Nat /\ Len(queue[x]) <= n
        BY <3>1, <3>2 DEF UpTo
      <4>2. n \in Nat
        BY <1>1, <3>2, <4>1
      <4>3. Head(queue[x]) \in 1 .. n
        BY <3>1, <3>2, <4>2, HeadUpTo
      <4> QED BY <1>1, <2>1, <2>4, <4>2, <4>3
    <3>3. /\ x \notin subscribers /\ x # victim /\ queue[x] \in {<<>>, <<None>>}
          /\ \E m \in 0 .. sequence : Follows(lastId[c], cleared[c], backlog[x], m)
      <4>1. Given(x) \in {sequence, sequence - 1}
        BY DEF Given
      <4>2. ~UpTo(queue[x], Given(x)) /\ ~UpTo(queue[x], sequence - 1)
        BY <3>2, <4>1
      <4> QED BY <2>2, <4>2 DEF Chain
    <3>4. queue'[x] = <<>>
      <4>1. queue[x] = <<None>> /\ Len(<<None>>) = 1
        BY <3>1, <3>3
      <4>2. Tail(queue[x]) = <<>> <=> Len(queue[x]) = 1
        BY <3>1, TailFacts
      <4> QED BY <3>1, <4>1, <4>2
    <3>5. PICK m \in 0 .. sequence : Follows(lastId[c], cleared[c], backlog[x], m)
      BY <3>3
    <3>6. Follows(lastId'[c], cleared'[c], backlog'[x], m)
      BY <2>1, <3>5 DEF Follows
    <3> QED BY <2>1, <2>2, <3>3, <3>4, <3>6 DEF Chain
  <2> QED BY <2>3, <2>4
<1>17. ASSUME NEW h \in Handlers, Unsubscribe(h) PROVE Chain(c, x)'
  <2>1. /\ subscribers' = subscribers \ {h}
        /\ queue' = [queue EXCEPT ![h] = <<>>] /\ backlog' = [backlog EXCEPT ![h] = <<>>]
        /\ conn' = [k \in Clients |-> IF conn[k] = h THEN None ELSE conn[k]]
        /\ UNCHANGED <<sequence, todo, victim, lastId, cleared>>
    BY <1>17 DEF Unsubscribe
  <2>2. conn'[c] = conn[c] /\ conn[c] # h
    BY <1>1, <1>2, <2>1
  <2>3. conn[c] = x /\ Chain(c, x)
    BY <1>3, <2>2
  <2> QED BY <1>1, <1>4, <2>1, <2>2, <2>3
<1>18. CASE Emit \/ Finish
  BY <1>5, <1>18 DEF Emit, Finish
<1> QED
  BY <1>6, <1>7, <1>8, <1>9, <1>10, <1>12, <1>13, <1>14, <1>15, <1>16, <1>17, <1>18
     DEF Next, Publisher, Serve, Connect

----------------------------------------------------------------------------
(* The theorems                                                             *)

LEMMA Initially == Init => IInv
<1> SUFFICES ASSUME Init PROVE IInv
  OBVIOUS
<1>1. <<>> \in Seq(Nat) /\ <<>> \in Seq(Nat \cup {None}) /\ Len(<<>>) = 0
  OBVIOUS
<1>2. Types
  BY <1>1 DEF Init, Types, RunType, HandlerType, ClientType
<1>3. RingInv
  BY <1>1 DEF Init, RingInv, UpTo
<1>4. LockInv
  BY FS_EmptySet, StreamAssumption DEF Init, LockInv
<1>5. FedInv
  BY DEF Init, FedInv
<1>6. ConnInv /\ ChainInv
  BY DEF Init, ConnInv, ChainInv
<1> QED BY <1>2, <1>3, <1>4, <1>5, <1>6 DEF IInv

LEMMA Stutter == IInv /\ UNCHANGED vars => IInv'
<1> SUFFICES ASSUME IInv, UNCHANGED vars PROVE IInv'
  OBVIOUS
<1> USE DEF vars, runVars, handlerVars, clientVars
<1>1. Types'
  BY DEF IInv, Types, RunType, HandlerType, ClientType
<1>2. RingInv' /\ LockInv' /\ ConnInv'
  BY DEF IInv, RingInv, LockInv, ConnInv
<1>3. FedInv'
  BY DEF IInv, FedInv, Fed
<1>4. ChainInv'
  BY DEF IInv, ChainInv, Chain, Given
<1> QED BY <1>1, <1>2, <1>3, <1>4 DEF IInv

LEMMA Inductive == Spec => []IInv
<1>1. IInv /\ [Next]_vars => IInv'
  BY StepTypes, StepRing, StepLock, StepFed, StepConn, StepChain, Stutter DEF IInv
<1> QED BY Initially, <1>1, PTL DEF Spec

\* The variables of the model keep their types.
THEOREM TypeCorrect == Spec => []TypeOK
<1>1. IInv => TypeOK
  BY TypeParts DEF IInv
<1> QED BY Inductive, <1>1, PTL

\* No handler waits for ever on a queue that nobody writes to, whatever the
\* number of viewers and however _publish and the handlers interleave.
THEOREM NoStranded == Spec => []NoStrandedHandler
<1>1. IInv => NoStrandedHandler
  BY DEF IInv, FedInv, Fed, NoStrandedHandler
<1> QED BY Inductive, <1>1, PTL

\* No subscription outlives the handler that has to end it, and there are never
\* more than MAX_SUBSCRIBERS.
THEOREM NoLeaked == Spec => []NoLeakedSubscription
<1>1. IInv => NoLeakedSubscription
  BY DEF IInv, LockInv, NoLeakedSubscription
<1> QED BY Inductive, <1>1, PTL

\* A browser misses an event without a reset only when its handler takes from
\* the queue that _publish is draining: the window is the only one.
THEOREM GapOnly == Spec => GapOnlyWhileDraining
<1> DEFINE Told == \A c \in Clients :
                     skipped'[c] /\ ~skipped[c] => victim # None /\ victim = conn[c]
<1>1. ASSUME IInv, Next, NEW c \in Clients, skipped'[c], ~skipped[c]
      PROVE  victim # None /\ victim = conn[c]
  <2>1. /\ Types /\ FedInv /\ ChainInv /\ None \notin Handlers
        /\ conn \in [Clients -> Handlers \cup {None}]
    BY <1>1, StreamAssumption DEF IInv, Types, ClientType
  <2>2. CASE skipped' = skipped
    BY <1>1, <2>2
  <2>3. ASSUME NEW h \in Handlers, WriteBacklog(h)
        PROVE  FALSE
    <3>1. backlog[h] # <<>> /\ Deliver(h, Head(backlog[h]))
      BY <2>3 DEF WriteBacklog
    <3>2. /\ conn[c] = h /\ Head(backlog[h]) # 0 /\ ~cleared[c]
          /\ Head(backlog[h]) # lastId[c] + 1
      BY <1>1, <3>1 DEF Deliver
    <3>3. Chain(c, h)
      BY <2>1, <3>2 DEF ChainInv
    <3> QED BY <2>1, <3>1, <3>2, <3>3, BacklogFacts
  <2>4. ASSUME NEW h \in Handlers, ServeEvent(h)
        PROVE  victim # None /\ victim = conn[c]
    <3>1. /\ queue[h] # <<>> /\ Head(queue[h]) # None /\ pc[h] = "live"
          /\ Deliver(h, Head(queue[h]))
      BY <2>4 DEF ServeEvent
    <3>2. conn[c] = h /\ Head(queue[h]) # lastId[c] + 1
      BY <1>1, <3>1 DEF Deliver
    <3>3. Chain(c, h) /\ backlog[h] = <<>>
      BY <2>1, <3>1, <3>2 DEF ChainInv, FedInv
    <3>4. h = victim
      BY <2>1, <3>1, <3>2, <3>3, EventFacts
    <3> QED BY <2>1, <3>2, <3>4
  <2> QED
    BY <1>1, <2>2, <2>3, <2>4
       DEF Next, Emit, Finish, Publish, Publisher, PutEvent, CutOff, Drain, PutSentinel, Serve,
           EndReplay, ServeSentinel, Unsubscribe, WriteFails, Connect, Refuse, Subscribe,
           Break, Leave, clientVars
<1>2. IInv /\ [Next]_vars => [Told]_vars
  BY <1>1 DEF vars, clientVars
<1> QED BY Inductive, <1>2, PTL DEF Spec, GapOnlyWhileDraining

\* The frames of a replay, each by its place.
LEMMA FollowsFacts ==
  ASSUME NEW last \in Nat, NEW wiped, NEW frames \in Seq(Nat), NEW m \in Nat,
         Follows(last, wiped, frames, m), ~wiped \/ last = 0
  PROVE  /\ last <= m /\ Len(frames) \in Nat
         /\ \A k \in 1 .. Len(frames) :
              \/ k = 1 /\ frames[k] = 0
              \/ /\ frames[k] = m - Len(frames) + k
                 /\ last = 0 \/ frames[k] > last
<1> DEFINE n == Len(frames)
<1>1. n \in Nat
  OBVIOUS
<1>2. CASE frames = <<>> /\ last = m
  BY <1>1, <1>2
<1>3. CASE frames # <<>> /\ UpTo(frames, m) /\ (last = m - Len(frames) \/ wiped)
  <2>1. n <= m /\ \A k \in 1 .. n : frames[k] = m - n + k
    BY <1>3 DEF UpTo
  <2>2. last = m - n \/ last = 0
    BY <1>3
  <2> HIDE DEF n
  <2>3. last <= m
    BY <1>1, <2>1, <2>2
  <2>4. ASSUME NEW k \in 1 .. n PROVE frames[k] = m - n + k /\ (last = 0 \/ frames[k] > last)
    <3>1. frames[k] = m - n + k
      BY <2>1
    <3> QED BY <1>1, <2>2, <3>1
  <2> QED BY <1>1, <2>3, <2>4 DEF n
<1>4. CASE /\ frames # <<>> /\ Head(frames) = 0
           /\ Tail(frames) # <<>> /\ UpTo(Tail(frames), m)
           /\ last + Len(Tail(frames)) <= m
  <2>1. /\ n \in Nat \ {0} /\ frames[1] = 0 /\ Len(Tail(frames)) = n - 1
        /\ \A k \in 1 .. n - 1 : Tail(frames)[k] = frames[k + 1]
    BY <1>4, TailFacts
  <2>2. \A k \in 1 .. n - 1 : Tail(frames)[k] = m - (n - 1) + k
    BY <1>4, <2>1 DEF UpTo
  <2> HIDE DEF n
  <2>3. last + (n - 1) <= m
    BY <1>4, <2>1
  <2>4. ASSUME NEW k \in 1 .. n, k # 1 PROVE frames[k] = m - n + k /\ frames[k] > last
    <3>1. k - 1 \in 1 .. n - 1 /\ (k - 1) + 1 = k
      BY <2>1, <2>4
    <3>2. frames[k] = m - (n - 1) + (k - 1)
      BY <2>1, <2>2, <3>1
    <3> QED BY <2>1, <2>3, <2>4, <3>2
  <2> QED BY <2>1, <2>3, <2>4 DEF n
<1> QED BY <1>2, <1>3, <1>4 DEF Follows

LEMMA TwoParts ==
  ASSUME NEW S, NEW l \in Seq(S), NEW k \in Seq(S)
  PROVE  /\ l \o k \in Seq(S) /\ Len(l \o k) = Len(l) + Len(k)
         /\ Len(l) \in Nat /\ Len(k) \in Nat
         /\ \A i \in 1 .. Len(l) : (l \o k)[i] = l[i]
         /\ \A i \in 1 .. Len(k) : (l \o k)[Len(l) + i] = k[i]
OBVIOUS

LEMMA ThreeParts ==
  ASSUME NEW S, NEW e \in S, NEW l \in Seq(S), NEW k \in Seq(S)
  PROVE  /\ Len(<<e>> \o l \o k) = 1 + Len(l) + Len(k)
         /\ (<<e>> \o l \o k)[1] = e
         /\ \A i \in 1 .. Len(l) : (<<e>> \o l \o k)[1 + i] = l[i]
         /\ \A i \in 1 .. Len(k) : (<<e>> \o l \o k)[1 + Len(l) + i] = k[i]
<1>1. PICK front : front = <<e>> \o l
  OBVIOUS
<1>2. <<e>> \in Seq(S) /\ Len(<<e>>) = 1 /\ <<e>>[1] = e
  OBVIOUS
<1>3. /\ front \in Seq(S) /\ Len(front) = 1 + Len(l) /\ Len(l) \in Nat /\ Len(k) \in Nat
      /\ front[1] = e /\ \A i \in 1 .. Len(l) : front[1 + i] = l[i]
  <2>1. 1 \in 1 .. 1
    OBVIOUS
  <2> QED BY <1>1, <1>2, <2>1, TwoParts
<1>4. ASSUME NEW f \in Seq(S)
      PROVE  /\ Len(f \o k) = Len(f) + Len(k)
             /\ \A i \in 1 .. Len(f) : (f \o k)[i] = f[i]
             /\ \A i \in 1 .. Len(k) : (f \o k)[Len(f) + i] = k[i]
  BY TwoParts
<1>5. 1 \in 1 .. Len(front) /\ \A i \in 1 .. Len(l) : 1 + i \in 1 .. Len(front)
  BY <1>3
<1> QED BY <1>1, <1>3, <1>4, <1>5

\* A queue that continues a replay that follows.
LEMMA AheadOrder ==
  ASSUME NEW last \in Nat, NEW wiped, NEW frames \in Seq(Nat), NEW m \in Nat,
         Follows(last, wiped, frames, m), wiped => last = 0,
         NEW q \in Seq(Nat \cup {None}), NEW n \in Nat,
         q \in {<<>>, <<None>>} \/ (UpTo(q, n) /\ m + Len(q) <= n)
  PROVE  LET ahead == <<last>> \o frames \o q
         IN  \A i, j \in 1 .. Len(ahead) :
               i < j /\ {ahead[i], ahead[j]} \cap {0, None} = {} => ahead[i] < ahead[j]
<1>1. PICK ahead : ahead = <<last>> \o frames \o q
  OBVIOUS
<1>2. PICK b \in Nat : b = Len(frames)
  OBVIOUS
<1>3. PICK s \in Nat : s = Len(q)
  OBVIOUS
<1>4. /\ Len(ahead) = 1 + b + s /\ ahead[1] = last
      /\ \A k \in 1 .. b : ahead[1 + k] = frames[k]
      /\ \A k \in 1 .. s : ahead[1 + b + k] = q[k]
  <2>1. frames \in Seq(Nat \cup {None}) /\ last \in Nat \cup {None}
    OBVIOUS
  <2> QED BY <1>1, <1>2, <1>3, <2>1, ThreeParts
<1>5. /\ last <= m
      /\ \A k \in 1 .. b :
           \/ k = 1 /\ frames[k] = 0
           \/ frames[k] = m - b + k /\ (last = 0 \/ frames[k] > last)
  <2>1. /\ last <= m
        /\ \A k \in 1 .. Len(frames) :
             \/ k = 1 /\ frames[k] = 0
             \/ frames[k] = m - Len(frames) + k /\ (last = 0 \/ frames[k] > last)
    BY FollowsFacts
  <2> QED BY <1>2, <2>1
<1>6. \A k \in 1 .. s : q[k] = None \/ (q[k] = n - s + k /\ m + s <= n)
  <2>1. CASE q \in {<<>>, <<None>>}
    <3>1. CASE q = <<>>
      <4>1. s = 0
        BY <1>3, <3>1
      <4> QED BY <4>1
    <3>2. CASE q = <<None>>
      <4>1. s = 1 /\ q[1] = None
        BY <1>3, <3>2
      <4> QED BY <4>1
    <3> QED BY <2>1, <3>1, <3>2
  <2>2. CASE UpTo(q, n) /\ m + Len(q) <= n
    <3>1. \A k \in 1 .. s : q[k] = n - s + k
      BY <1>3, <2>2 DEF UpTo
    <3> QED BY <1>3, <2>2, <3>1
  <2> QED BY <2>1, <2>2
<1>7. SUFFICES ASSUME NEW i \in 1 .. 1 + b + s, NEW j \in 1 .. 1 + b + s, i < j,
                      ahead[i] \notin {0, None}, ahead[j] \notin {0, None}
               PROVE  ahead[i] < ahead[j]
  BY <1>1, <1>4
<1>8. i \in Nat /\ j \in Nat /\ i >= 1 /\ i < j /\ j <= 1 + b + s
  BY <1>7
<1>9. CASE i = 1
  <2>1. ahead[i] = last /\ last # 0
    BY <1>4, <1>7, <1>9
  <2>2. CASE j <= 1 + b
    <3>1. PICK k \in 1 .. b : j = 1 + k
      <4>1. j - 1 \in 1 .. b /\ j = 1 + (j - 1)
        BY <1>8, <1>9, <2>2
      <4> QED BY <4>1
    <3>2. ahead[j] = frames[k]
      BY <1>4, <3>1
    <3> QED BY <1>5, <1>7, <2>1, <3>2
  <2>3. CASE j > 1 + b
    <3>1. PICK k \in 1 .. s : j = 1 + b + k
      <4>1. j - 1 - b \in 1 .. s /\ j = 1 + b + (j - 1 - b)
        BY <1>8, <2>3
      <4> QED BY <4>1
    <3>2. ahead[j] = q[k] /\ q[k] # None
      BY <1>4, <1>7, <3>1
    <3>3. ahead[j] = n - s + k /\ m + s <= n
      BY <1>6, <3>2
    <3> QED BY <1>5, <2>1, <3>3
  <2> QED BY <2>2, <2>3
<1>10. CASE i > 1 /\ i <= 1 + b
  <2>1. PICK k \in 1 .. b : i = 1 + k
    <3>1. i - 1 \in 1 .. b /\ i = 1 + (i - 1)
      BY <1>8, <1>10
    <3> QED BY <3>1
  <2>2. ahead[i] = frames[k] /\ ahead[i] = m - b + k
    BY <1>4, <1>5, <1>7, <2>1
  <2>3. CASE j <= 1 + b
    <3>1. PICK l \in 1 .. b : j = 1 + l
      <4>1. j - 1 \in 1 .. b /\ j = 1 + (j - 1)
        BY <1>8, <1>10, <2>3
      <4> QED BY <4>1
    <3>2. ahead[j] = m - b + l
      BY <1>4, <1>5, <1>7, <3>1
    <3> QED BY <1>8, <2>1, <2>2, <3>1, <3>2
  <2>4. CASE j > 1 + b
    <3>1. PICK l \in 1 .. s : j = 1 + b + l
      <4>1. j - 1 - b \in 1 .. s /\ j = 1 + b + (j - 1 - b)
        BY <1>8, <2>4
      <4> QED BY <4>1
    <3>2. ahead[j] = q[l] /\ q[l] # None
      BY <1>4, <1>7, <3>1
    <3>3. ahead[j] = n - s + l /\ m + s <= n
      BY <1>6, <3>2
    <3> QED BY <2>1, <2>2, <3>3
  <2> QED BY <2>3, <2>4
<1>11. CASE i > 1 + b
  <2>1. PICK k \in 1 .. s, l \in 1 .. s : i = 1 + b + k /\ j = 1 + b + l
    <3>1. i - 1 - b \in 1 .. s /\ i = 1 + b + (i - 1 - b)
      BY <1>8, <1>11
    <3>2. j - 1 - b \in 1 .. s /\ j = 1 + b + (j - 1 - b)
      BY <1>8, <1>11
    <3> QED BY <3>1, <3>2
  <2>2. ahead[i] = n - s + k /\ ahead[j] = n - s + l
    BY <1>4, <1>6, <1>7, <2>1
  <2> QED BY <1>8, <2>1, <2>2
<1> QED BY <1>8, <1>9, <1>10, <1>11

\* A browser is shown no event twice and none out of order, reconnections with
\* Last-Event-ID, cut-offs and resets included.
THEOREM InOrder == Spec => []InOrderNoDuplicates
<1>1. ASSUME IInv, NEW c \in Clients, NEW h \in Handlers, h = conn[c]
      PROVE  LET ahead == <<lastId[c]>> \o backlog[h] \o queue[h]
             IN  \A i, j \in 1 .. Len(ahead) :
                   i < j /\ {ahead[i], ahead[j]} \cap {0, None} = {} => ahead[i] < ahead[j]
  <2>1. Chain(c, h)
    BY <1>1, StreamAssumption DEF IInv, ChainInv
  <2>2. /\ lastId[c] \in Nat /\ backlog[h] \in Seq(Nat) /\ queue[h] \in Seq(Nat \cup {None})
        /\ sequence \in Nat /\ (cleared[c] => lastId[c] = 0)
    BY <1>1 DEF IInv, Types, RunType, HandlerType, ClientType, ConnInv
  <2>3. \E m \in Nat, n \in Nat :
          /\ Follows(lastId[c], cleared[c], backlog[h], m)
          /\ queue[h] \in {<<>>, <<None>>} \/ (UpTo(queue[h], n) /\ m + Len(queue[h]) <= n)
    <3>1. CASE /\ UpTo(queue[h], Given(h))
               /\ Follows(lastId[c], cleared[c], backlog[h], Given(h) - Len(queue[h]))
      <4>1. /\ Len(queue[h]) \in Nat /\ Len(queue[h]) <= Given(h)
            /\ Given(h) \in {sequence, sequence - 1}
        BY <2>2, <3>1 DEF UpTo, Given
      <4>2. Given(h) \in Nat /\ Given(h) - Len(queue[h]) \in Nat
        BY <2>2, <4>1
      <4>3. (Given(h) - Len(queue[h])) + Len(queue[h]) <= Given(h)
        BY <4>1, <4>2
      <4> QED BY <3>1, <4>2, <4>3
    <3>2. CASE /\ UpTo(queue[h], sequence - 1)
               /\ \E m \in 0 .. sequence : /\ m + Len(queue[h]) <= sequence - 1
                                           /\ Follows(lastId[c], cleared[c], backlog[h], m)
      <4>1. PICK m \in 0 .. sequence : /\ m + Len(queue[h]) <= sequence - 1
                                      /\ Follows(lastId[c], cleared[c], backlog[h], m)
        BY <3>2
      <4>2. sequence - 1 \in Nat /\ m \in Nat
        BY <2>2, <4>1
      <4> QED BY <3>2, <4>1, <4>2
    <3>3. CASE /\ queue[h] \in {<<>>, <<None>>}
               /\ \E m \in 0 .. sequence : Follows(lastId[c], cleared[c], backlog[h], m)
      BY <2>2, <3>3
    <3> QED BY <2>1, <3>1, <3>2, <3>3 DEF Chain
  <2> QED BY <2>2, <2>3, AheadOrder
<1>2. IInv => InOrderNoDuplicates
  <2>1. ASSUME IInv, NEW c \in Clients, conn[c] # None PROVE conn[c] \in Handlers
    BY <2>1 DEF IInv, Types, ClientType
  <2> QED BY <1>1, <2>1 DEF InOrderNoDuplicates
<1> QED BY Inductive, <1>2, PTL

=============================================================================
