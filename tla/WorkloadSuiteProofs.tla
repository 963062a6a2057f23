------------------------ MODULE WorkloadSuiteProofs ------------------------
(* Theorems about WorkloadSuite, for every value of its constants.           *)
EXTENDS WorkloadSuite, FiniteSetTheorems, FunctionTheorems, TLAPS

----------------------------------------------------------------------------
(* The inductive invariant                                                  *)

Places == {"admission", "refused", "start", "source", "confirm", "single", "all", "submit",
           "open", "collect", "head", "rows", "return", "shutdown", "over", "cut"}

\* What the command line and the dashboard have let through.
RequestInv ==
  /\ args \in Arguments /\ via \in {"dashboard", "shell"}
  /\ confirmed \in BOOLEAN /\ src \in BOOLEAN
  /\ limits \in LimitSets \cup {DEFAULT_LIMITS}
  /\ main \in Places
  /\ via = "dashboard" => limits = DEFAULT_LIMITS
  /\ via = "dashboard" /\ main = "start" => ValidateRequest(args, confirmed)
  /\ main \notin {"admission", "refused", "start", "over", "cut"} => ParseArgs(limits, args)
  /\ args.cmd # "all" =>
       main \in {"admission", "refused", "start", "source", "confirm", "single", "over", "cut"}
  /\ main = "single" => args.cmd # "all"

\* A fetched page: what crawl_page knows of the reply, where it is.
PageInv ==
  /\ PageTypeOK
  /\ at = "connect" => untried > 0
  /\ at = "body" => reply \in Replies /\ Acceptable(reply)
  /\ complete => /\ at \in {"extract", "over"}
                 /\ reply \in Replies /\ Acceptable(reply) /\ BodyEnds /\ LengthAgrees
  /\ succeeded => complete /\ reply.status = "2xx"
  /\ succeeded /\ at = "over" => left > 0

\* The gate opens when all workloads have been submitted, and none runs before.
PoolInv ==
  /\ submitted \in 0 .. Len(Workloads) /\ gate \in BOOLEAN
  /\ task \in [Names -> {"none", "queued", "waiting", "running", "over"}]
  /\ gate => submitted = Len(Workloads) /\ args.cmd = "all" /\ ParseArgs(limits, args)
  /\ main \in {"collect", "head", "rows", "return"} => gate
  /\ gate => main \in {"collect", "head", "rows", "return", "over", "cut"}
  /\ main = "submit" => submitted < Len(Workloads)
  /\ main = "open" => submitted = Len(Workloads)
  /\ main \in {"admission", "refused", "start", "source", "confirm", "single", "all"} =>
       submitted = 0
  /\ \A n \in Names : task[n] \in {"running", "over"} => gate
  /\ \A n \in Names : task[n] = "over" => n \in DOMAIN ended /\ ended[n] \in Outcomes
  /\ IF args.cmd = "all" THEN DOMAIN ended = Names
     ELSE \/ DOMAIN ended = {}
          \/ DOMAIN ended = {args.cmd} /\ main = "over" /\ ParseArgs(limits, args)

\* The result of n is that of its workload.
ResultOf(r) ==
  /\ r.name \in Names /\ task[r.name] = "over"
  /\ r.rc = RunWorkload(ended[r.name])

Collected == {r.name : r \in results}

ResultsInv ==
  /\ IsFiniteSet(results)
  /\ \A r \in results : ResultOf(r)
  /\ \A r, q \in results : r.name = q.name => r = q
  /\ main \in {"head", "rows", "return"} => Collected = Names

\* The summary that has been printed: the rows follow the head, each is that of
\* a result, no two are of the same one.
Printed(out, names, res) ==
  \A i \in 1 .. Len(out) : out[i].kind = "row" =>
    /\ out[i].name \in names
    /\ \E r \in res : out[i].name = r.name /\ out[i].rc = r.rc
    /\ \A h \in 1 .. Len(out) : out[h].kind = "head" => h < i
    /\ \A j \in 1 .. Len(out) : out[j].kind = "row" /\ out[i].name = out[j].name => i = j

Plain(out) == \A i \in 1 .. Len(out) : out[i].kind = "text"
HasHead(out) == \E h \in 1 .. Len(out) : out[h].kind = "head"
HasRow(out, n) == \E i \in 1 .. Len(out) : out[i].kind = "row" /\ out[i].name = n

OutLines ==
  [kind : {"text", "head", "row"}, name : Names \cup {None}, rc : Int \cup {None}]

OutputInv ==
  /\ output \in Seq(OutLines)
  /\ rows \subseteq Collected
  /\ main \notin {"rows", "return", "over", "cut"} => rows = {} /\ Plain(output)
  /\ main \in {"rows", "return"} => \A n \in rows : HasRow(output, n)
  /\ main = "return" => rows = Names
  /\ Printed(output, rows, results)

\* How the process ended.
StatusInv ==
  /\ status \in {None, -15, -9} \cup 0 .. 255
  /\ main = "over" => status \in 0 .. 255
  /\ main \in {"over", "cut"} <=> status # None
  /\ main = "cut" => status # 0
  /\ ExitTellsTruth
  /\ main = "over" /\ HasHead(output) =>
       /\ Collected = Names
       /\ \A n \in Names : HasRow(output, n)
       /\ status = 0 <=> \A r \in results : r.rc = 0

BatchInv == BatchIsTrue /\ (batch # None => status # None)

IInv ==
  /\ RequestInv /\ PageInv /\ PoolInv /\ ResultsInv /\ OutputInv /\ StatusInv /\ BatchInv

----------------------------------------------------------------------------
(* The suite, its names and its results                                     *)

\* A request does not change, and with it the workloads it stands for.
LEMMA SameWorkloads ==
  ASSUME args' = args
  PROVE  Workloads' = Workloads /\ Names' = Names
BY DEF Workloads, Names

\* The workloads are as many as their bound says.
LEMMA WorkloadsLength ==
  /\ Len(Workloads) \in Nat /\ DOMAIN Workloads = 1 .. Len(Workloads)
  /\ args.cmd = "all" => Len(Workloads) = Len(Suite) /\ Len(Workloads) > 0
  /\ args.cmd # "all" => Len(Workloads) = 0 /\ Names = {}
  /\ \A i \in 1 .. Len(Workloads) : Workloads[i].name \in Names
<1>1. Len(Suite) \in Nat \ {0} /\ DOMAIN Suite = 1 .. Len(Suite)
  BY SuiteAssumption
<1>2. CASE args.cmd = "all"
  <2>1. Workloads = [i \in 1 .. Len(Suite) |-> AllWorkloads(args)[Suite[i]]]
    BY <1>2 DEF Workloads
  <2>2. Len(Workloads) = Len(Suite) /\ DOMAIN Workloads = 1 .. Len(Suite)
    BY <1>1, <2>1
  <2> QED BY <1>1, <1>2, <2>2 DEF Names
<1>3. CASE args.cmd # "all"
  <2>1. Workloads = <<>>
    BY <1>3 DEF Workloads
  <2>2. Len(Workloads) = 0 /\ DOMAIN Workloads = 1 .. Len(Workloads)
    BY <2>1
  <2> QED BY <1>3, <2>2 DEF Names
<1> QED BY <1>2, <1>3

\* No more names than workloads.
LEMMA NamesAreFew == IsFiniteSet(Names) /\ Cardinality(Names) <= Len(Workloads)
<1> DEFINE f == [i \in 1 .. Len(Workloads) |-> Workloads[i].name]
<1>1. Len(Workloads) \in Nat /\ DOMAIN Workloads = 1 .. Len(Workloads)
  BY WorkloadsLength
<1>2. f \in Surjection(1 .. Len(Workloads), Names)
  <2>1. f \in [1 .. Len(Workloads) -> Names]
    BY <1>1 DEF Names
  <2>2. \A n \in Names : \E i \in 1 .. Len(Workloads) : f[i] = n
    BY <1>1 DEF Names
  <2> QED BY <2>1, <2>2, Fun_IsSurj
<1>3. IsFiniteSet(1 .. Len(Workloads)) /\ Cardinality(1 .. Len(Workloads)) = Len(Workloads)
  <2> DEFINE n == Len(Workloads)
  <2>1. n \in Nat /\ n \in Int /\ 1 \in Int
    BY <1>1
  <2> HIDE DEF n
  <2>2. IsFiniteSet(1 .. n) /\ Cardinality(1 .. n) = IF 1 > n THEN 0 ELSE n - 1 + 1
    BY <2>1, FS_Interval, Zenon
  <2>3. Cardinality(1 .. n) = n
    BY <2>1, <2>2
  <2> QED BY <2>2, <2>3 DEF n
<1> QED BY <1>2, <1>3, FS_Surjection

\* One result per name: there are no more results than names, and when there
\* are as many as workloads every name has one.
LEMMA OnePerName ==
  ASSUME NEW R, NEW N, NEW k \in Nat,
         IsFiniteSet(R), IsFiniteSet(N), Cardinality(N) <= k,
         \A r \in R : r.name \in N,
         \A r, q \in R : r.name = q.name => r = q
  PROVE  /\ Cardinality(R) \in Nat /\ Cardinality(R) <= k
         /\ Cardinality(R) = k => {r.name : r \in R} = N
<1> DEFINE f == [r \in R |-> r.name]
<1>1. f \in Injection(R, N)
  <2>1. f \in [R -> N]
    OBVIOUS
  <2> QED BY <2>1, Fun_IsInj
<1>2. /\ Cardinality(R) <= Cardinality(N)
      /\ Cardinality(R) = Cardinality(N) <=> f \in Surjection(R, N)
  BY <1>1, FS_Injection
<1>3. Cardinality(R) \in Nat /\ Cardinality(N) \in Nat
  BY FS_CardinalityType
<1>4. ASSUME Cardinality(R) = k
      PROVE  {r.name : r \in R} = N
  <2>1. f \in Surjection(R, N)
    BY <1>2, <1>3, <1>4
  <2>2. \A n \in N : \E r \in R : f[r] = n
    BY <2>1, Fun_SurjectionProperties
  <2> QED BY <2>2
<1> QED BY <1>2, <1>3, <1>4

----------------------------------------------------------------------------
(* The crawl                                                                *)

LEMMA MinOfTwo ==
  ASSUME NEW a \in Int, NEW b \in Int
  PROVE  Min({a, b}) \in Int /\ Min({a, b}) <= a /\ Min({a, b}) <= b
<1>1. \E x \in {a, b} : \A y \in {a, b} : x <= y
  OBVIOUS
<1> QED BY <1>1 DEF Min

LEMMA MaxOfTwo ==
  ASSUME NEW a \in Int, NEW b \in Int
  PROVE  Max({a, b}) \in {a, b} /\ Max({a, b}) >= a /\ Max({a, b}) >= b
<1>1. \E x \in {a, b} : \A y \in {a, b} : x >= y
  OBVIOUS
<1> QED BY <1>1 DEF Max

\* What a body that is read can be.
LEMMA ReadableIsNumber ==
  ASSUME reply \in Replies, Acceptable(reply)
  PROVE  Readable \in Int
<1>1. reply.sent \in Int /\ (reply.length # None => reply.length \in Int)
  BY RepliesAssumption DEF Acceptable
<1> QED BY <1>1, MinOfTwo DEF Readable

\* Every step of crawl_page keeps to its deadline and its cap, and calls a page
\* complete only when its end has been read.
LEMMA PageStepKeeps ==
  ASSUME PageInv, NEW numeric, PageStep(numeric)
  PROVE  PageInv'
<1> USE CrawlerAssumption DEF PageInv, PageTypeOK
<1>1. CASE Elapse
  BY <1>1 DEF Elapse, BodyEnds, Readable, LengthAgrees
<1>2. CASE TimesOut \/ Breaks \/ Truncated
  BY <1>2 DEF TimesOut, Breaks, Truncated, Fail, Waiting, BodyEnds, Readable, LengthAgrees
<1>3. CASE Resolve(numeric)
  BY <1>3 DEF Resolve
<1>4. CASE Connects \/ SendRequest
  BY <1>4 DEF Connects, SendRequest
<1>5. CASE Refused
  BY <1>5 DEF Refused
<1>6. CASE GetResponse
  BY <1>6 DEF GetResponse, Acceptable
<1>7. CASE ReadBody
  <2>1. Min({Cap, Readable}) \in Int /\ Min({Cap, Readable}) <= Cap
    <3>1. at = "body" /\ Cap \in Int
      BY <1>7 DEF ReadBody
    <3>2. Readable \in Int
      BY <3>1, ReadableIsNumber
    <3> QED BY <3>1, <3>2, MinOfTwo, Zenon
  <2> QED BY <1>7, <2>1 DEF ReadBody
<1>8. CASE EndBody
  <2>1. /\ at = "body" /\ BodyEnds /\ at' = "extract"
        /\ complete' = LengthAgrees /\ succeeded' = (LengthAgrees /\ reply.status = "2xx")
        /\ UNCHANGED <<left, untried, reply, got>>
    BY <1>8 DEF EndBody
  <2>2. BodyEnds' /\ LengthAgrees' = LengthAgrees /\ LengthAgrees \in BOOLEAN
    BY <2>1 DEF BodyEnds, Readable, LengthAgrees
  <2> QED BY <2>1, <2>2
<1>9. CASE Extract
  BY <1>9 DEF Extract, BodyEnds, Readable, LengthAgrees
<1> QED BY <1>1, <1>2, <1>3, <1>4, <1>5, <1>6, <1>7, <1>8, <1>9 DEF PageStep

\* A run that is cut off had not ended, and keeps the beginning of its output.
LEMMA Interruption ==
  ASSUME Interrupted
  PROVE  /\ via = "dashboard" /\ status = None
         /\ main \notin {"admission", "refused"} /\ main' = "cut"
         /\ status' \in {-15, -9, 1, 126, 127, 255}
         /\ UNCHANGED <<request, page, pool, rows, batch>>
         /\ \/ output' \in {output, Append(output, Text)}
            \/ \E n \in 0 .. Len(output) :
                 output' \in {SubSeq(output, 1, n), Append(SubSeq(output, 1, n), Text)}
BY DEF Interrupted, Killed, ReadFails, NotStarted, CutOff

\* The page is fetched only while a single crawl runs.
LEMMA PageUnlessCrawl ==
  ASSUME Next
  PROVE  UNCHANGED page \/ CrawlPage
BY DEF Next, Main, Thread, Admit, Parse, ResolveSource, Confirm, RunSingle, CrawlReturns, DoAll,
       Submit, SubmitRaises, Shutdown, OpenGate, Collect, PrintHead, PrintRow, ReturnAll,
       PickUp, Begin, End, Interrupted, Killed, ReadFails, NotStarted, CutOff, RecordBatch

LEMMA SamePage ==
  ASSUME PageInv, UNCHANGED page
  PROVE  PageInv'
BY DEF PageInv, PageTypeOK, page, BodyEnds, Readable, LengthAgrees

LEMMA PageKept ==
  ASSUME PageInv, Next
  PROVE  PageInv'
<1>1. CASE UNCHANGED page
  BY <1>1, SamePage
<1>2. CASE CrawlPage
  BY <1>2, PageStepKeeps DEF CrawlPage
<1> QED BY <1>1, <1>2, PageUnlessCrawl

----------------------------------------------------------------------------
(* The command line                                                         *)

\* What a request asks for never changes.
LEMMA SameRequest ==
  ASSUME Next
  PROVE  /\ via' = via /\ args' = args /\ confirmed' = confirmed /\ src' = src
         /\ limits' = limits
BY DEF Next, Main, Thread, Admit, Parse, ResolveSource, Confirm, RunSingle, CrawlReturns, DoAll,
       Submit, SubmitRaises, Shutdown, OpenGate, Collect, PrintHead, PrintRow, ReturnAll,
       PickUp, Begin, End, Interrupted, Killed, ReadFails, NotStarted, CutOff, RecordBatch,
       CrawlPage, OutsidePage, request

\* Where the main thread goes.
LEMMA MainMoves ==
  ASSUME Next, main' # main
  PROVE  \/ main = "admission" /\ main' = IF ValidateRequest(args, confirmed) THEN "start" ELSE "refused"
         \/ main = "start" /\ main' = "source" /\ ParseArgs(limits, args)
         \/ main = "source" /\ main' = "confirm"
         \/ main = "confirm" /\ main' = IF args.cmd = "all" THEN "all" ELSE "single"
         \/ main = "all" /\ main' = "submit"
         \/ main = "submit" /\ main' \in {"open", "shutdown"}
         \/ main = "open" /\ main' = "collect"
         \/ main = "collect" /\ main' = "head"
         \/ main = "head" /\ main' = "rows"
         \/ main = "rows" /\ main' = "return"
         \/ main \notin {"admission", "refused"} /\ main' \in {"over", "cut"}
<1>1. CASE Admit \/ Parse \/ ResolveSource \/ Confirm \/ RunSingle \/ CrawlReturns
  <2>1. CASE Admit
    BY <2>1 DEF Admit, Goto
  <2>2. CASE Parse
    BY <2>2 DEF Parse, Goto, ExitsWith
  <2>3. CASE ResolveSource \/ Confirm
    BY <2>3 DEF ResolveSource, Confirm, Goto, ExitsWith
  <2>4. CASE RunSingle \/ CrawlReturns
    <3>1. main = "single" /\ main' = "over"
      BY <2>4 DEF RunSingle, CrawlReturns, Crawling, ExitsWith
    <3> QED BY <3>1
  <2> QED BY <1>1, <2>1, <2>2, <2>3, <2>4
<1>2. CASE DoAll \/ Submit \/ SubmitRaises \/ Shutdown \/ OpenGate
  BY <1>2 DEF DoAll, Submit, SubmitRaises, Shutdown, OpenGate, Goto, ExitsWith
<1>3. CASE (\E n \in Names : Collect(n)) \/ PrintHead \/ (\E r \in results : PrintRow(r)) \/ ReturnAll
  BY <1>3 DEF Collect, PrintHead, PrintRow, ReturnAll, Goto, ExitsWith
<1>4. CASE CrawlPage \/ (\E n \in Names : Thread(n)) \/ Interrupted \/ RecordBatch
  BY <1>4, Interruption DEF Thread, PickUp, Begin, End, RecordBatch, CrawlPage, OutsidePage
<1> QED BY <1>1, <1>2, <1>3, <1>4 DEF Next, Main

\* The process gets to where the parser and the dashboard have let it.
LEMMA RequestKept ==
  ASSUME RequestInv, Next
  PROVE  RequestInv'
<1>1. /\ via' = via /\ args' = args /\ confirmed' = confirmed /\ src' = src
      /\ limits' = limits
  BY SameRequest
<1>2. CASE main' = main
  BY <1>1, <1>2 DEF RequestInv
<1>3. CASE main' # main
  <2> USE DEF RequestInv, Places
  <2>1. CASE main = "admission" /\ main' = IF ValidateRequest(args, confirmed) THEN "start" ELSE "refused"
    BY <1>1, <2>1
  <2>2. CASE main = "start" /\ main' = "source" /\ ParseArgs(limits, args)
    BY <1>1, <2>2
  <2>3. CASE main = "confirm" /\ main' = IF args.cmd = "all" THEN "all" ELSE "single"
    BY <1>1, <2>3
  <2>4. CASE main' \in {"over", "cut"}
    BY <1>1, <2>4
  <2>5. CASE \/ main = "source" /\ main' = "confirm"
             \/ main = "all" /\ main' = "submit"
             \/ main = "submit" /\ main' \in {"open", "shutdown"}
             \/ main = "open" /\ main' = "collect"
             \/ main = "collect" /\ main' = "head"
             \/ main = "head" /\ main' = "rows"
             \/ main = "rows" /\ main' = "return"
    BY <1>1, <2>5
  <2> QED BY <1>3, <2>1, <2>2, <2>3, <2>4, <2>5, MainMoves
<1> QED BY <1>2, <1>3

----------------------------------------------------------------------------
(* The pool                                                                 *)

Early == {"admission", "refused", "start", "source", "confirm", "single", "all"}

\* Steps of the main thread that leave the pool alone.
LEMMA PoolSame ==
  ASSUME PoolInv, UNCHANGED pool, args' = args, limits' = limits,
         \/ main' = main
         \/ main \in Early /\ main' \in Early
         \/ main = "all" /\ main' = "submit" /\ args.cmd = "all"
         \/ main = "submit" /\ main' = "shutdown"
         \/ main \in {"head", "rows"} /\ main' \in {"head", "rows", "return"}
         \/ main' = "over"
         \/ main' = "cut" /\ main # "over"
  PROVE  PoolInv'
<1>1. Workloads' = Workloads /\ Names' = Names
  BY SameWorkloads
<1>2. /\ submitted' = submitted /\ gate' = gate /\ task' = task /\ ended' = ended
  BY DEF pool
<1>3. args.cmd = "all" => Len(Workloads) > 0
  BY WorkloadsLength
<1>4. IF args'.cmd = "all" THEN DOMAIN ended' = Names'
      ELSE \/ DOMAIN ended' = {}
           \/ DOMAIN ended' = {args'.cmd} /\ main' = "over" /\ ParseArgs(limits', args')
  BY <1>1, <1>2 DEF PoolInv, Early
<1> QED BY <1>1, <1>2, <1>3, <1>4 DEF PoolInv, Early

\* The steps that leave the pool alone.
LEMMA PoolLeft ==
  ASSUME RequestInv, StatusInv,
         \/ Admit \/ Parse \/ ResolveSource \/ Confirm \/ DoAll \/ SubmitRaises \/ Shutdown
         \/ PrintHead \/ (\E r \in results : PrintRow(r)) \/ ReturnAll
         \/ CrawlPage \/ Interrupted \/ RecordBatch
  PROVE  /\ UNCHANGED pool
         /\ \/ main' = main
            \/ main \in Early /\ main' \in Early
            \/ main = "all" /\ main' = "submit" /\ args.cmd = "all"
            \/ main = "submit" /\ main' = "shutdown"
            \/ main \in {"head", "rows"} /\ main' \in {"head", "rows", "return"}
            \/ main' = "over"
            \/ main' = "cut" /\ main # "over"
<1>1. CASE Admit \/ Parse
  BY <1>1 DEF Admit, Parse, Goto, ExitsWith, Early
<1>2. CASE ResolveSource \/ Confirm
  BY <1>2 DEF ResolveSource, Confirm, Goto, ExitsWith, Early
<1>3. CASE DoAll
  <2>1. args.cmd = "all"
    BY <1>3 DEF DoAll, RequestInv
  <2> QED BY <1>3, <2>1 DEF DoAll, Goto, ExitsWith, Early
<1>4. CASE SubmitRaises \/ Shutdown
  BY <1>4 DEF SubmitRaises, Shutdown, Goto, ExitsWith
<1>5. CASE PrintHead \/ (\E r \in results : PrintRow(r)) \/ ReturnAll
  BY <1>5 DEF PrintHead, PrintRow, ReturnAll, Goto, ExitsWith
<1>6. CASE CrawlPage \/ Interrupted \/ RecordBatch
  BY <1>6, Interruption DEF CrawlPage, OutsidePage, RecordBatch, StatusInv
<1> QED BY <1>1, <1>2, <1>3, <1>4, <1>5, <1>6

\* No workload begins before all have been submitted and the gate is open.
LEMMA PoolKept ==
  ASSUME RequestInv, StatusInv, PoolInv, Next
  PROVE  PoolInv'
<1>1. args' = args /\ limits' = limits /\ Workloads' = Workloads /\ Names' = Names
  BY SameRequest, SameWorkloads
<1>2. /\ Len(Workloads) \in Nat /\ (args.cmd # "all" => Names = {})
      /\ \A i \in 1 .. Len(Workloads) : Workloads[i].name \in Names
  BY WorkloadsLength
<1>3. CASE RunSingle \/ CrawlReturns
  <2>1. /\ main = "single" /\ main' = "over" /\ DOMAIN ended' = {args.cmd}
        /\ submitted' = submitted /\ gate' = gate /\ task' = task
    BY <1>3 DEF RunSingle, CrawlReturns, Crawling, ExitsWith
  <2>2. args.cmd # "all" /\ ParseArgs(limits, args) /\ ParseArgs(limits', args')
    BY <1>1, <2>1 DEF RequestInv
  <2> QED BY <1>1, <1>2, <2>1, <2>2 DEF PoolInv
<1>4. CASE Submit
  <2> DEFINE n == Workloads[submitted + 1].name
  <2>1. /\ main = "submit" /\ submitted' = submitted + 1
        /\ main' = IF submitted' = Len(Workloads) THEN "open" ELSE "submit"
        /\ task' = [task EXCEPT ![n] = "queued"] /\ gate' = gate /\ ended' = ended
    BY <1>4 DEF Submit, Goto
  <2>2. submitted \in Nat /\ submitted < Len(Workloads) /\ ~gate
    BY <2>1 DEF PoolInv
  <2>3. n \in Names
    BY <1>2, <2>2
  <2> HIDE DEF n
  <2>4. submitted' \in 0 .. Len(Workloads)
    BY <1>2, <2>1, <2>2
  <2>5. main' = "submit" => submitted' < Len(Workloads)
    BY <1>2, <2>1, <2>4
  <2>6. /\ task' \in [Names -> {"none", "queued", "waiting", "running", "over"}]
        /\ \A m \in Names : task'[m] # "queued" => task'[m] = task[m]
    BY <2>1, <2>3 DEF PoolInv
  <2>7. main' \in {"open", "submit"} /\ (main' = "open" => submitted' = Len(Workloads))
    BY <2>1
  <2>8. IF args'.cmd = "all" THEN DOMAIN ended' = Names'
        ELSE \/ DOMAIN ended' = {}
             \/ DOMAIN ended' = {args'.cmd} /\ main' = "over" /\ ParseArgs(limits', args')
    BY <1>1, <2>1 DEF PoolInv
  <2> QED BY <1>1, <2>1, <2>2, <2>4, <2>5, <2>6, <2>7, <2>8 DEF PoolInv
<1>5. CASE OpenGate
  <2>1. /\ main = "open" /\ gate' = TRUE /\ main' = "collect"
        /\ submitted' = submitted /\ task' = task /\ ended' = ended
    BY <1>5 DEF OpenGate, Goto
  <2>2. args.cmd = "all" /\ ParseArgs(limits, args) /\ ParseArgs(limits', args')
    BY <1>1, <2>1 DEF RequestInv
  <2> QED BY <1>1, <2>1, <2>2 DEF PoolInv
<1>6. CASE \E n \in Names : Collect(n)
  <2>1. /\ main = "collect" /\ main' \in {"collect", "head"}
        /\ submitted' = submitted /\ gate' = gate /\ task' = task /\ ended' = ended
    BY <1>6 DEF Collect, Goto
  <2>2. ParseArgs(limits, args) => ParseArgs(limits', args')
    BY <1>1
  <2> QED BY <1>1, <2>1, <2>2 DEF PoolInv
<1>7. ASSUME NEW n \in Names, Thread(n)
      PROVE  PoolInv'
  <2>1. main' = main /\ submitted' = submitted /\ gate' = gate /\ args.cmd = "all"
    BY <1>2, <1>7 DEF Thread, PickUp, Begin, End
  <2>2. ParseArgs(limits, args) => ParseArgs(limits', args')
    BY <1>1
  <2>3. /\ task' \in [Names -> {"none", "queued", "waiting", "running", "over"}]
        /\ \A m \in Names : task'[m] \in {"running", "over"} => gate
        /\ \A m \in Names : task'[m] = "over" => m \in DOMAIN ended' /\ ended'[m] \in Outcomes
        /\ DOMAIN ended' = Names
    <3>1. /\ task \in [Names -> {"none", "queued", "waiting", "running", "over"}]
          /\ \A m \in Names : task[m] \in {"running", "over"} => gate
          /\ \A m \in Names : task[m] = "over" => m \in DOMAIN ended /\ ended[m] \in Outcomes
          /\ DOMAIN ended = Names
      BY <2>1 DEF PoolInv
    <3>2. CASE PickUp(n)
      BY <1>7, <3>1, <3>2 DEF PickUp
    <3>3. CASE Begin(n)
      BY <1>7, <3>1, <3>3 DEF Begin
    <3>4. CASE End(n)
      <4>1. /\ task[n] = "running" /\ task' = [task EXCEPT ![n] = "over"]
            /\ \E o \in Outcomes : ended' = [ended EXCEPT ![n] = o]
        BY <3>4 DEF End
      <4>2. PICK o \in Outcomes : ended' = [ended EXCEPT ![n] = o]
        BY <4>1
      <4> QED BY <1>7, <3>1, <4>1, <4>2
    <3> QED BY <1>7, <3>2, <3>3, <3>4 DEF Thread
  <2> QED BY <1>1, <2>1, <2>2, <2>3 DEF PoolInv
<1>8. CASE \/ Admit \/ Parse \/ ResolveSource \/ Confirm \/ DoAll \/ SubmitRaises \/ Shutdown
           \/ PrintHead \/ (\E r \in results : PrintRow(r)) \/ ReturnAll
           \/ CrawlPage \/ Interrupted \/ RecordBatch
  BY <1>1, <1>8, PoolLeft, PoolSame
<1> QED BY <1>3, <1>4, <1>5, <1>6, <1>7, <1>8 DEF Next, Main

----------------------------------------------------------------------------
(* The results                                                              *)

\* A result is that of a workload that is over, whose outcome stays.
LEMMA ResultStays ==
  ASSUME PoolInv, ResultsInv, RequestInv, StatusInv, Next
  PROVE  \A r \in results : /\ task'[r.name] = "over" /\ ended'[r.name] = ended[r.name]
                            /\ ResultOf(r)'
<1> SUFFICES ASSUME NEW r \in results
             PROVE  /\ task'[r.name] = "over" /\ ended'[r.name] = ended[r.name]
                    /\ ResultOf(r)'
  OBVIOUS
<1>1. Names' = Names
  BY SameRequest, SameWorkloads
<1>2. r.name \in Names /\ task[r.name] = "over" /\ r.rc = RunWorkload(ended[r.name])
  BY DEF ResultsInv, ResultOf
<1>3. /\ gate /\ args.cmd = "all" /\ main \in {"collect", "head", "rows", "return", "over", "cut"}
      /\ task \in [Names -> {"none", "queued", "waiting", "running", "over"}]
      /\ DOMAIN ended = Names
  BY <1>2 DEF PoolInv
<1>4. main # "single" /\ main # "submit"
  BY <1>3
<1>5. task'[r.name] = "over" /\ ended'[r.name] = ended[r.name]
  <2>1. CASE RunSingle \/ CrawlReturns \/ Submit
    BY <1>4, <2>1 DEF RunSingle, CrawlReturns, Crawling, Submit
  <2>2. CASE OpenGate \/ \E n \in Names : Collect(n)
    BY <1>2, <2>2 DEF OpenGate, Collect
  <2>3. ASSUME NEW n \in Names, Thread(n)
        PROVE  task'[r.name] = "over" /\ ended'[r.name] = ended[r.name]
    <3>1. CASE PickUp(n)
      BY <1>2, <1>3, <3>1 DEF PickUp
    <3>2. CASE Begin(n)
      BY <1>2, <1>3, <3>2 DEF Begin
    <3>3. CASE End(n)
      BY <1>2, <1>3, <3>3 DEF End
    <3> QED BY <2>3, <3>1, <3>2, <3>3 DEF Thread
  <2>4. CASE \/ Admit \/ Parse \/ ResolveSource \/ Confirm \/ DoAll \/ SubmitRaises \/ Shutdown
             \/ PrintHead \/ (\E q \in results : PrintRow(q)) \/ ReturnAll
             \/ CrawlPage \/ Interrupted \/ RecordBatch
    BY <1>2, <2>4, PoolLeft DEF pool
  <2> QED BY <2>1, <2>2, <2>3, <2>4 DEF Next, Main
<1> QED BY <1>1, <1>2, <1>5 DEF ResultOf

\* Results are added by Collect alone.
LEMMA ResultsAdded ==
  ASSUME RequestInv, StatusInv, Next
  PROVE  \/ /\ results' = results
            /\ main' = main \/ main' \notin {"head", "rows", "return"} \/ main \in {"head", "rows"}
         \/ \E n \in Names : Collect(n)
<1>1. CASE \/ Admit \/ Parse \/ ResolveSource \/ Confirm \/ DoAll \/ SubmitRaises \/ Shutdown
           \/ PrintHead \/ (\E r \in results : PrintRow(r)) \/ ReturnAll
           \/ CrawlPage \/ Interrupted \/ RecordBatch
  BY <1>1, PoolLeft DEF pool, Early
<1>2. CASE RunSingle \/ CrawlReturns \/ OpenGate \/ Submit
  BY <1>2 DEF RunSingle, CrawlReturns, OpenGate, Submit, Goto, ExitsWith
<1>3. CASE \E n \in Names : Thread(n)
  BY <1>3 DEF Thread, PickUp, Begin, End
<1> QED BY <1>1, <1>2, <1>3 DEF Next, Main

\* Every result is that of the workload it names, and the summary is made of
\* the results of all.
LEMMA ResultsKept ==
  ASSUME RequestInv, StatusInv, PoolInv, ResultsInv, Next
  PROVE  ResultsInv'
<1>1. Workloads' = Workloads /\ Names' = Names
  BY SameRequest, SameWorkloads
<1>2. CASE /\ results' = results
           /\ main' = main \/ main' \notin {"head", "rows", "return"} \/ main \in {"head", "rows"}
  <2>1. \A r \in results' : ResultOf(r)'
    BY <1>2, ResultStays
  <2> QED BY <1>1, <1>2, <2>1 DEF ResultsInv, Collected
<1>3. ASSUME NEW n \in Names, Collect(n)
      PROVE  ResultsInv'
  <2>2. PICK new : /\ new = [name |-> n, rc |-> RunWorkload(ended[n])]
                   /\ new.name = n /\ new.rc = RunWorkload(ended[n])
    <3> DEFINE code == RunWorkload(ended[n])
    <3> HIDE DEF code
    <3>1. /\ [name |-> n, rc |-> code].name = n
          /\ [name |-> n, rc |-> code].rc = code
      OBVIOUS
    <3>2. \E new : /\ new = [name |-> n, rc |-> code]
                   /\ new.name = n /\ new.rc = code
      BY <3>1, Zenon
    <3> QED BY <3>2 DEF code
  <2>1. /\ task[n] = "over" /\ (\A r \in results : r.name # n)
        /\ results' = results \cup {new}
        /\ main' = IF Cardinality(results') = Len(Workloads) THEN "head" ELSE "collect"
        /\ task' = task /\ ended' = ended
    BY <1>3, <2>2 DEF Collect, Goto
  <2>3. IsFiniteSet(results')
    BY <2>1, FS_AddElement DEF ResultsInv
  <2>4. \A r \in results' : ResultOf(r)'
    <3>1. ResultOf(new)'
      BY <1>1, <2>1, <2>2 DEF ResultOf
    <3> QED BY <2>1, <3>1, ResultStays
  <2>5. \A r, q \in results' : r.name = q.name => r = q
    BY <2>1, <2>2 DEF ResultsInv
  <2>6. main' = "head" => {r.name : r \in results'} = Names
    <3>1. \A r \in results' : r.name \in Names
      BY <1>1, <2>4 DEF ResultOf
    <3>2. IsFiniteSet(Names) /\ Cardinality(Names) <= Len(Workloads) /\ Len(Workloads) \in Nat
      BY NamesAreFew, WorkloadsLength
    <3>3. Cardinality(results') = Len(Workloads) => {r.name : r \in results'} = Names
      BY <2>3, <2>5, <3>1, <3>2, OnePerName
    <3> QED BY <2>1, <3>3
  <2>7. main' \in {"head", "collect"}
    BY <2>1
  <2> QED BY <1>1, <2>3, <2>4, <2>5, <2>6, <2>7 DEF ResultsInv, Collected
<1> QED BY <1>2, <1>3, ResultsAdded

----------------------------------------------------------------------------
(* The output                                                               *)

\* Exit codes are numbers.
LEMMA CodeIsNumber ==
  ASSUME NEW o \in Outcomes
  PROVE  /\ RunWorkload(o) \in -255 .. 255
         /\ RunWorkload(o) = 0 <=> o = [how |-> "returned", code |-> 0]
<1>1. Codes \subseteq -255 .. 255
  BY SuiteAssumption
<1>2. CASE o \in [how : {"returned"}, code : Codes]
  <2>1. o.how = "returned" /\ o.code \in Codes /\ o = [how |-> o.how, code |-> o.code]
    BY <1>2
  <2> QED BY <1>1, <2>1 DEF RunWorkload
<1>3. CASE o \in [how : {"CalledProcessError"}, code : Codes \ {0}]
  <2>1. o.how = "CalledProcessError" /\ o.code \in Codes /\ o.code # 0
    BY <1>3
  <2> QED BY <1>1, <2>1 DEF RunWorkload
<1>4. CASE o \in [how : {"TimeoutExpired", "FileNotFoundError", "Exception"}, code : {0}]
  <2>1. o.how \in {"TimeoutExpired", "FileNotFoundError", "Exception"}
    BY <1>4
  <2> QED BY <2>1 DEF RunWorkload
<1> QED BY <1>2, <1>3, <1>4 DEF Outcomes

\* An output that grows by lines of text keeps what it has printed.
LEMMA GrowText ==
  ASSUME NEW L, NEW out \in Seq(L), NEW more \in Seq(L), NEW names, NEW res,
         Len(out) <= Len(more),
         \A i \in 1 .. Len(out) : more[i] = out[i],
         \A i \in Len(out) + 1 .. Len(more) : more[i].kind = "text",
         Printed(out, names, res)
  PROVE  Printed(more, names, res)
<1>1. Len(out) \in Nat /\ Len(more) \in Nat
  OBVIOUS
<1>2. \A i \in 1 .. Len(more) : more[i].kind # "text" => i \in 1 .. Len(out)
  BY <1>1
<1> QED BY <1>2 DEF Printed

\* So does a prefix.
LEMMA CutPrinted ==
  ASSUME NEW L, NEW out \in Seq(L), NEW less \in Seq(L), NEW names, NEW res,
         Len(less) <= Len(out),
         \A i \in 1 .. Len(less) : less[i] = out[i],
         Printed(out, names, res)
  PROVE  Printed(less, names, res)
<1>1. \A i \in 1 .. Len(less) : i \in 1 .. Len(out)
  OBVIOUS
<1> QED BY <1>1 DEF Printed

\* A row of a name that has none yet may follow.
LEMMA GrowRow ==
  ASSUME NEW L, NEW out \in Seq(L), NEW line \in L, NEW names, NEW res,
         line.kind = "row", line.name \notin names,
         \E r \in res : line.name = r.name /\ line.rc = r.rc,
         Printed(out, names, res)
  PROVE  Printed(Append(out, line), names \cup {line.name}, res)
<1> DEFINE more == Append(out, line)
<1>1. /\ Len(out) \in Nat /\ Len(more) = Len(out) + 1 /\ more[Len(out) + 1] = line
      /\ \A i \in 1 .. Len(out) : more[i] = out[i]
  OBVIOUS
<1> HIDE DEF more
<1>2. \A i \in 1 .. Len(more) : i \in 1 .. Len(out) \/ i = Len(out) + 1
  BY <1>1
<1>3. \A i \in 1 .. Len(out) : i < Len(out) + 1 /\ i # Len(out) + 1
  BY <1>1
<1>4. \A i \in 1 .. Len(out) : out[i].kind = "row" => out[i].name # line.name
  BY DEF Printed
<1>5. ASSUME NEW i \in 1 .. Len(more), more[i].kind = "row"
      PROVE  /\ more[i].name \in names \cup {line.name}
             /\ \E r \in res : more[i].name = r.name /\ more[i].rc = r.rc
             /\ \A h \in 1 .. Len(more) : more[h].kind = "head" => h < i
             /\ \A j \in 1 .. Len(more) : more[j].kind = "row" /\ more[i].name = more[j].name => i = j
  <2>1. CASE i \in 1 .. Len(out)
    <3>1. more[i] = out[i] /\ out[i].kind = "row"
      BY <1>1, <1>5, <2>1
    <3>2. /\ out[i].name \in names
          /\ \E r \in res : out[i].name = r.name /\ out[i].rc = r.rc
          /\ \A h \in 1 .. Len(out) : out[h].kind = "head" => h < i
          /\ \A j \in 1 .. Len(out) : out[j].kind = "row" /\ out[i].name = out[j].name => i = j
      BY <2>1, <3>1 DEF Printed
    <3> QED BY <1>1, <1>2, <1>4, <2>1, <3>1, <3>2
  <2>2. CASE i = Len(out) + 1
    <3>1. more[i] = line
      BY <1>1, <2>2
    <3> QED BY <1>1, <1>2, <1>3, <1>4, <2>2, <3>1
  <2> QED BY <1>2, <2>1, <2>2
<1>6. Printed(more, names \cup {line.name}, res)
  BY <1>5 DEF Printed
<1> QED BY <1>6 DEF more

\* A row is printed with the lines of its error.
LEMMA AppendTexts ==
  ASSUME NEW L, NEW out \in Seq(L), NEW line \in L, Text \in L, NEW k \in Nat,
         NEW more, more = Append(out, line) \o [i \in 1 .. k |-> Text]
  PROVE  /\ more \in Seq(L) /\ Len(more) = Len(out) + 1 + k
         /\ Append(out, line) \in Seq(L) /\ Len(Append(out, line)) = Len(out) + 1
         /\ \A i \in 1 .. Len(out) + 1 : more[i] = Append(out, line)[i]
         /\ \A i \in Len(out) + 2 .. Len(out) + 1 + k : more[i] = Text
<1> DEFINE o == Append(out, line)
           t == [i \in 1 .. k |-> Text]
<1>1. o \in Seq(L) /\ Len(o) = Len(out) + 1 /\ Len(out) \in Nat
  OBVIOUS
<1>2. t \in Seq(L) /\ Len(t) = k /\ \A i \in 1 .. k : t[i] = Text
  OBVIOUS
<1>3. more = o \o t
  OBVIOUS
<1> HIDE DEF o, t
<1>4. /\ more \in Seq(L) /\ Len(more) = Len(o) + Len(t)
      /\ \A i \in 1 .. Len(o) : more[i] = o[i]
      /\ \A i \in Len(o) + 1 .. Len(o) + Len(t) : more[i] = t[i - Len(o)]
  BY <1>1, <1>2, <1>3
<1>5. \A i \in Len(out) + 2 .. Len(out) + 1 + k : i - Len(o) \in 1 .. k
  BY <1>1, <1>2
<1> QED BY <1>1, <1>2, <1>4, <1>5 DEF o

\* The steps that print nothing, or a line of text.
LEMMA OutputMoves ==
  ASSUME Next
  PROVE  \/ /\ rows' = rows /\ output' \in {output, Append(output, Text)}
            /\ \/ main' = main
               \/ main' = "over"
               \/ main \notin {"rows", "return", "over", "cut"} /\ main' \notin {"rows", "return", "over", "cut"}
         \/ PrintHead \/ (\E r \in results : PrintRow(r)) \/ Interrupted
<1>1. CASE Admit \/ Parse \/ ResolveSource \/ Confirm
  BY <1>1 DEF Admit, Parse, ResolveSource, Confirm, Goto, ExitsWith
<1>2. CASE RunSingle \/ CrawlReturns
  BY <1>2 DEF RunSingle, CrawlReturns, Write, ExitsWith
<1>3. CASE DoAll \/ ReturnAll
  BY <1>3 DEF DoAll, ReturnAll, Goto, Write, ExitsWith
<1>4. CASE Submit \/ SubmitRaises \/ Shutdown \/ OpenGate \/ (\E n \in Names : Collect(n))
  BY <1>4 DEF Submit, SubmitRaises, Shutdown, OpenGate, Collect, Goto, ExitsWith
<1>5. CASE CrawlPage \/ (\E n \in Names : Thread(n)) \/ RecordBatch
  BY <1>5 DEF CrawlPage, OutsidePage, Thread, PickUp, Begin, End, Write, RecordBatch
<1> QED BY <1>1, <1>2, <1>3, <1>4, <1>5 DEF Next, Main

\* A result stays.
LEMMA ResultsGrow ==
  ASSUME RequestInv, StatusInv, Next
  PROVE  results \subseteq results'
<1>1. CASE \E n \in Names : Collect(n)
  BY <1>1 DEF Collect
<1> QED BY <1>1, ResultsAdded

LEMMA TextLine ==
  /\ Text \in OutLines /\ Text.kind = "text"
  /\ [kind |-> "head", name |-> None, rc |-> None] \in OutLines
BY DEF Text, OutLines

\* More results take nothing from what has been printed.
LEMMA PrintedOfMore ==
  ASSUME NEW out, NEW names, NEW res, NEW more, res \subseteq more, Printed(out, names, res)
  PROVE  Printed(out, names, more)
BY DEF Printed

\* The summary that is printed is that of the results.
LEMMA OutputKept ==
  ASSUME RequestInv, StatusInv, PoolInv, ResultsInv, OutputInv, Next
  PROVE  OutputInv'
<1>1. Names' = Names /\ OutLines' = OutLines
  BY SameRequest, SameWorkloads DEF OutLines
<1>2. results \subseteq results' /\ Collected \subseteq Collected'
  BY ResultsGrow DEF Collected
<1>3. output \in Seq(OutLines) /\ rows \subseteq Collected /\ Printed(output, rows, results)
  BY DEF OutputInv
<1>4. CASE /\ rows' = rows /\ output' \in {output, Append(output, Text)}
           /\ \/ main' = main
              \/ main' = "over"
              \/ main \notin {"rows", "return", "over", "cut"} /\ main' \notin {"rows", "return", "over", "cut"}
  <2>1. /\ output' \in Seq(OutLines) /\ Len(output) <= Len(output')
        /\ \A i \in 1 .. Len(output) : i \in 1 .. Len(output') /\ output'[i] = output[i]
        /\ \A i \in Len(output) + 1 .. Len(output') : output'[i].kind = "text"
        /\ \A i \in 1 .. Len(output') : i \in 1 .. Len(output) \/ i \in Len(output) + 1 .. Len(output')
    BY <1>3, <1>4, TextLine
  <2>2. Printed(output', rows, results)
    BY <1>3, <2>1, GrowText
  <2>3. Printed(output', rows', results')
    BY <1>2, <1>4, <2>2, PrintedOfMore
  <2>4. main' \notin {"rows", "return", "over", "cut"} => rows' = {} /\ Plain(output')
    BY <1>4, <2>1 DEF OutputInv, Plain
  <2>5. main' \in {"rows", "return"} => \A n \in rows' : HasRow(output', n)
    BY <1>4, <2>1 DEF OutputInv, HasRow
  <2>6. main' = "return" => rows' = Names'
    BY <1>1, <1>4 DEF OutputInv
  <2>7. output' \in Seq(OutLines') /\ rows' \subseteq Collected'
    BY <1>1, <1>2, <1>3, <1>4, <2>1
  <2>8. Plain(output)' <=> Plain(output')
    BY DEF Plain
  <2> QED BY <2>3, <2>4, <2>5, <2>6, <2>7 DEF OutputInv
<1>5. CASE PrintHead
  <2> DEFINE line == [kind |-> "head", name |-> None, rc |-> None]
  <2>1. main = "head" /\ main' = "rows" /\ rows' = rows /\ output' = Append(output, line)
    BY <1>5 DEF PrintHead, Write, Goto
  <2>2. rows = {} /\ Plain(output)
    BY <2>1 DEF OutputInv
  <2>3. line \in OutLines /\ line.kind # "row"
    BY TextLine
  <2> HIDE DEF line
  <2>4. /\ output' \in Seq(OutLines)
        /\ \A i \in 1 .. Len(output') : output'[i].kind # "row"
    <3>1. Len(output') = Len(output) + 1 /\ output' \in Seq(OutLines)
          /\ output'[Len(output) + 1] = line
          /\ \A i \in 1 .. Len(output) : output'[i] = output[i]
      BY <1>3, <2>1, <2>3
    <3>2. \A i \in 1 .. Len(output') : i \in 1 .. Len(output) \/ i = Len(output) + 1
      BY <1>3, <3>1
    <3> QED BY <2>2, <2>3, <3>1, <3>2 DEF Plain
  <2>5. Printed(output', rows', results')
    BY <2>4 DEF Printed
  <2> QED BY <1>1, <1>2, <2>1, <2>2, <2>4, <2>5 DEF OutputInv
<1>6. ASSUME NEW r \in results, PrintRow(r)
      PROVE  OutputInv'
  <2> DEFINE line == [kind |-> "row", name |-> r.name, rc |-> r.rc]
  <2>1. /\ main = "rows" /\ r.name \notin rows /\ rows' = rows \cup {r.name}
        /\ main' = IF rows' = Names THEN "return" ELSE "rows"
        /\ \E k \in 0 .. IF r.rc = 0 THEN 0 ELSE MaxDetail :
             output' = Append(output, line) \o [i \in 1 .. k |-> Text]
    BY <1>6 DEF PrintRow, Goto
  <2>2. PICK k \in Nat : output' = Append(output, line) \o [i \in 1 .. k |-> Text]
    <3>1. MaxDetail \in Nat
      BY SuiteAssumption
    <3>2. \A k \in 0 .. IF r.rc = 0 THEN 0 ELSE MaxDetail : k \in Nat
      BY <3>1
    <3> QED BY <2>1, <3>2, Zenon
  <2>3. r.name \in Names /\ r.rc \in Int
    <3>1. ResultOf(r) /\ ended[r.name] \in Outcomes
      BY DEF ResultsInv, ResultOf, PoolInv
    <3> QED BY <3>1, CodeIsNumber DEF ResultOf
  <2>4. line \in OutLines /\ line.kind = "row" /\ line.name = r.name /\ line.rc = r.rc
    BY <2>3 DEF OutLines
  <2> HIDE DEF line
  <2>5. /\ output' \in Seq(OutLines) /\ Len(output') = Len(output) + 1 + k
        /\ Append(output, line) \in Seq(OutLines) /\ Len(Append(output, line)) = Len(output) + 1
        /\ \A i \in 1 .. Len(output) + 1 : output'[i] = Append(output, line)[i]
        /\ \A i \in Len(output) + 2 .. Len(output) + 1 + k : output'[i] = Text
    BY <1>3, <2>2, <2>4, TextLine, AppendTexts
  <2>6. Printed(Append(output, line), rows', results)
    BY <1>3, <1>6, <2>1, <2>4, GrowRow
  <2>7. Printed(output', rows', results)
    <3>1. Len(output) \in Nat
      BY <1>3
    <3>2. \A i \in Len(Append(output, line)) + 1 .. Len(output') : output'[i].kind = "text"
      BY <2>5, <3>1, TextLine
    <3>3. \A i \in 1 .. Len(Append(output, line)) : output'[i] = Append(output, line)[i]
      BY <2>5
    <3>4. Len(Append(output, line)) <= Len(output')
      BY <2>5, <3>1
    <3> QED BY <2>5, <2>6, <3>2, <3>3, <3>4, GrowText
  <2>8. Printed(output', rows', results')
    BY <1>2, <2>7, PrintedOfMore
  <2>9. \A n \in rows' : HasRow(output', n)
    <3>1. /\ Len(output) \in Nat
          /\ \A i \in 1 .. Len(output) : i \in 1 .. Len(output') /\ output'[i] = output[i]
          /\ Len(output) + 1 \in 1 .. Len(output') /\ output'[Len(output) + 1] = line
      BY <1>3, <2>4, <2>5
    <3>2. \A n \in rows : HasRow(output, n)
      BY <2>1 DEF OutputInv
    <3> QED BY <2>1, <2>4, <3>1, <3>2 DEF HasRow
  <2>10. rows' \subseteq Collected'
    BY <1>2, <1>3, <1>6, <2>1 DEF Collected
  <2>11. main' \in {"rows", "return"} /\ (main' = "return" => rows' = Names')
    BY <1>1, <2>1
  <2>12. output' \in Seq(OutLines')
    BY <1>1, <2>5
  <2> QED BY <2>8, <2>9, <2>10, <2>11, <2>12 DEF OutputInv
<1>7. CASE Interrupted
  <2>1. main' = "cut" /\ rows' = rows
    BY <1>7, Interruption
  <2>2. PICK n \in 0 .. Len(output) :
          output' \in {SubSeq(output, 1, n), Append(SubSeq(output, 1, n), Text)}
    <3>1. Len(output) \in 0 .. Len(output) /\ SubSeq(output, 1, Len(output)) = output
      BY <1>3
    <3> QED BY <1>7, <3>1, Interruption
  <2>3. PICK less \in Seq(OutLines) : less = SubSeq(output, 1, n)
    <3>1. SubSeq(output, 1, n) \in Seq(OutLines)
      <4>1. Len(output) \in Nat /\ n \in Int /\ n <= Len(output)
        BY <1>3
      <4>2. \A i \in 1 .. n : output[i] \in OutLines
        BY <1>3, <4>1
      <4> QED BY <1>3, <4>1, <4>2
    <3> QED BY <3>1
  <2>4. Len(less) <= Len(output) /\ \A i \in 1 .. Len(less) : less[i] = output[i]
    BY <1>3, <2>3
  <2>5. Printed(less, rows, results)
    BY <1>3, <2>4, CutPrinted
  <2>6. /\ output' \in Seq(OutLines) /\ Len(less) <= Len(output')
        /\ \A i \in 1 .. Len(less) : output'[i] = less[i]
        /\ \A i \in Len(less) + 1 .. Len(output') : output'[i].kind = "text"
    BY <2>2, <2>3, TextLine
  <2>7. Printed(output', rows, results)
    BY <2>5, <2>6, GrowText
  <2>8. Printed(output', rows', results')
    BY <1>2, <2>1, <2>7, PrintedOfMore
  <2>9. output' \in Seq(OutLines') /\ rows' \subseteq Collected'
    BY <1>1, <1>2, <1>3, <2>1, <2>6
  <2> QED BY <2>1, <2>8, <2>9 DEF OutputInv
<1> QED BY <1>4, <1>5, <1>6, <1>7, OutputMoves

----------------------------------------------------------------------------
(* The exit status                                                          *)

\* Once the process has ended, only the dashboard goes on.
LEMMA AfterTheEnd ==
  ASSUME status # None, main \in {"over", "cut"}, Next
  PROVE  RecordBatch
<1>1. ~ (Admit \/ Parse \/ ResolveSource \/ Confirm \/ RunSingle \/ CrawlReturns)
  BY DEF Admit, Parse, ResolveSource, Confirm, RunSingle, CrawlReturns, Crawling
<1>2. ~ (DoAll \/ Submit \/ SubmitRaises \/ Shutdown \/ OpenGate \/ \E n \in Names : Collect(n))
  BY DEF DoAll, Submit, SubmitRaises, Shutdown, OpenGate, Collect
<1>3. ~ (PrintHead \/ (\E r \in results : PrintRow(r)) \/ ReturnAll \/ CrawlPage)
  BY DEF PrintHead, PrintRow, ReturnAll, CrawlPage, Crawling
<1>4. ~ (Interrupted \/ \E n \in Names : Thread(n))
  BY Interruption DEF Thread, PickUp, Begin, End
<1> QED BY <1>1, <1>2, <1>3, <1>4 DEF Next, Main

\* Until then there is no status.
LEMMA BeforeTheEnd ==
  ASSUME Next, main' \notin {"over", "cut"}
  PROVE  status' = status
<1>1. CASE Admit \/ Parse \/ ResolveSource \/ Confirm \/ RunSingle \/ CrawlReturns
  BY <1>1 DEF Admit, Parse, ResolveSource, Confirm, RunSingle, CrawlReturns, ExitsWith
<1>2. CASE DoAll \/ Submit \/ SubmitRaises \/ Shutdown \/ OpenGate \/ \E n \in Names : Collect(n)
  BY <1>2 DEF DoAll, Submit, SubmitRaises, Shutdown, OpenGate, Collect, ExitsWith
<1>3. CASE PrintHead \/ (\E r \in results : PrintRow(r)) \/ ReturnAll \/ CrawlPage
  BY <1>3 DEF PrintHead, PrintRow, ReturnAll, CrawlPage, OutsidePage, ExitsWith
<1>4. CASE Interrupted \/ RecordBatch \/ \E n \in Names : Thread(n)
  BY <1>4, Interruption DEF RecordBatch, Thread, PickUp, Begin, End
<1> QED BY <1>1, <1>2, <1>3, <1>4 DEF Next, Main

\* The last steps of the main thread.
LEMMA LastSteps ==
  ASSUME Next, main \notin {"over", "cut"}, main' \in {"over", "cut"}
  PROVE  \/ /\ Parse \/ ResolveSource \/ Confirm \/ DoAll \/ Shutdown
            /\ main \notin {"rows", "return", "over", "cut"} /\ output' = output /\ main' = "over"
            /\ \/ status' = ExitStatus(2)
               \/ status' = ExitStatus(1)
         \/ RunSingle \/ CrawlReturns \/ ReturnAll
         \/ Interrupted
<1>1. CASE Admit \/ Parse \/ ResolveSource \/ Confirm \/ RunSingle \/ CrawlReturns
  <2>1. CASE Admit
    BY <2>1 DEF Admit, Goto
  <2>2. CASE Parse
    BY <2>2 DEF Parse, ExitsWith, Goto
  <2>3. CASE ResolveSource
    BY <2>3 DEF ResolveSource, ExitsWith, Goto
  <2>4. CASE Confirm
    BY <2>4 DEF Confirm, ExitsWith, Goto
  <2> QED BY <1>1, <2>1, <2>2, <2>3, <2>4
<1>2. CASE DoAll \/ Submit \/ SubmitRaises \/ Shutdown \/ OpenGate \/ \E n \in Names : Collect(n)
  <2>1. CASE Submit \/ SubmitRaises \/ OpenGate \/ \E n \in Names : Collect(n)
    BY <2>1 DEF Submit, SubmitRaises, OpenGate, Collect, Goto
  <2>2. CASE DoAll
    BY <2>2 DEF DoAll, ExitsWith, Goto
  <2>3. CASE Shutdown
    BY <2>3 DEF Shutdown, ExitsWith, Goto
  <2> QED BY <1>2, <2>1, <2>2, <2>3
<1>3. CASE PrintHead \/ (\E r \in results : PrintRow(r)) \/ ReturnAll \/ CrawlPage
  BY <1>3 DEF PrintHead, PrintRow, CrawlPage, OutsidePage, Goto
<1>4. CASE Interrupted \/ RecordBatch \/ \E n \in Names : Thread(n)
  BY <1>4 DEF RecordBatch, Thread, PickUp, Begin, End
<1> QED BY <1>1, <1>2, <1>3, <1>4 DEF Next, Main

\* An exit status is a number, and none is without a code that is 0 itself.
LEMMA StatusOfCode ==
  ASSUME NEW code \in -255 .. 255
  PROVE  /\ ExitStatus(code) \in 0 .. 255
         /\ ExitStatus(code) = 0 <=> code = 0
<1>1. CASE code >= 0
  BY <1>1 DEF ExitStatus
<1>2. CASE code < 0
  BY <1>2 DEF ExitStatus
<1> QED BY <1>1, <1>2

\* A crawl that has succeeded has the whole page.
LEMMA CrawlTellsTruth ==
  ASSUME PageInv, at = "over", succeeded
  PROVE  /\ reply.status = "2xx" /\ reply.identity
         /\ complete /\ left > 0
         /\ reply.length # None \/ reply.coding = "chunked" => got = reply.size
<1>1. /\ complete /\ left > 0 /\ reply.status = "2xx"
      /\ reply \in Replies /\ Acceptable(reply) /\ BodyEnds /\ LengthAgrees
  BY DEF PageInv
<1>2. reply.identity /\ reply.length # Invalid
  BY <1>1 DEF Acceptable
<1>3. CASE reply.length # None
  BY <1>1, <1>2, <1>3, RepliesAssumption DEF LengthAgrees
<1>4. CASE reply.length = None /\ reply.coding = "chunked"
  <2>1. got # Cap
    BY <1>1, <1>4, CrawlerAssumption DEF BodyEnds
  <2>2. got = Readable /\ reply.sent = reply.size
    BY <1>1, <1>4, <2>1 DEF BodyEnds
  <2> QED BY <1>1, <1>2, <1>4, <2>2 DEF Readable
<1> QED BY <1>1, <1>2, <1>3, <1>4

\* A workload that ended with code 0 has succeeded.
LEMMA CodeZero ==
  ASSUME PoolInv, ResultsInv, NEW r \in results
  PROVE  r.rc = 0 <=> Succeeded(r.name)
<1>1. ended[r.name] \in Outcomes /\ r.rc = RunWorkload(ended[r.name])
  BY DEF PoolInv, ResultsInv, ResultOf
<1> QED BY <1>1, CodeIsNumber DEF Succeeded

\* The exit status of the process tells what has happened.
LEMMA StatusKept ==
  ASSUME RequestInv, PageInv, PoolInv, ResultsInv, OutputInv, StatusInv, Next
  PROVE  StatusInv'
<1>1. args' = args /\ Names' = Names
  BY SameRequest, SameWorkloads
<1>2. None \notin Int
  BY CrawlerAssumption
<1>3. CASE main \in {"over", "cut"}
  <2>1. RecordBatch
    BY <1>3, AfterTheEnd DEF StatusInv
  <2>2. /\ main' = main /\ status' = status /\ output' = output /\ results' = results
        /\ ended' = ended /\ reply' = reply /\ complete' = complete /\ left' = left /\ got' = got
    BY <2>1 DEF RecordBatch, pool, page
  <2>3. ExitTellsTruth'
    BY <1>1, <2>2 DEF StatusInv, ExitTellsTruth, Succeeded
  <2> QED BY <1>1, <2>2, <2>3 DEF StatusInv, Collected, HasHead, HasRow
<1>4. CASE main \notin {"over", "cut"} /\ main' \notin {"over", "cut"}
  BY <1>2, <1>4, BeforeTheEnd DEF StatusInv, ExitTellsTruth
<1>5. CASE main \notin {"over", "cut"} /\ main' \in {"over", "cut"}
  <2>1. CASE /\ main \notin {"rows", "return", "over", "cut"} /\ output' = output /\ main' = "over"
             /\ \/ status' = ExitStatus(2)
                \/ status' = ExitStatus(1)
    <3>1. status' \in {1, 2}
      BY <2>1 DEF ExitStatus
    <3>2. ~ HasHead(output')
      BY <2>1 DEF OutputInv, Plain, HasHead
    <3> QED BY <1>2, <1>5, <3>1, <3>2 DEF StatusInv, ExitTellsTruth
  <2>2. CASE RunSingle \/ CrawlReturns
    <3>1. /\ main = "single" /\ args.cmd # "all" /\ output' = Append(output, Text)
          /\ main' = "over"
      BY <2>2 DEF RunSingle, CrawlReturns, Crawling, Write, RequestInv, ExitsWith
    <3>2. ~ HasHead(output')
      <4>1. Plain(output) /\ output \in Seq(OutLines)
        BY <3>1 DEF OutputInv
      <4>2. \A i \in 1 .. Len(output') : output'[i].kind = "text"
        BY <3>1, <4>1, TextLine DEF Plain
      <4> QED BY <4>2 DEF HasHead
    <3>3. /\ status' \in 0 .. 255
          /\ status' = 0 =>
               /\ ended'[args.cmd] = [how |-> "returned", code |-> 0]
               /\ args.cmd = "crawl" => at = "over" /\ succeeded /\ UNCHANGED page
      <4>1. CASE RunSingle
        <5>1. PICK o \in Outcomes : /\ ended' = [n \in {args.cmd} |-> o]
                                    /\ status' = ExitStatus(RunWorkload(o))
          BY <4>1 DEF RunSingle, ExitsWith
        <5>2. /\ RunWorkload(o) \in -255 .. 255
              /\ RunWorkload(o) = 0 <=> o = [how |-> "returned", code |-> 0]
          BY CodeIsNumber
        <5>3. ended'[args.cmd] = o
          BY <5>1
        <5>4. args.cmd # "crawl"
          BY <4>1 DEF RunSingle
        <5>5. ExitStatus(RunWorkload(o)) \in 0 .. 255 /\ (ExitStatus(RunWorkload(o)) = 0 <=> RunWorkload(o) = 0)
          BY <5>2, StatusOfCode, Zenon
        <5> QED BY <5>1, <5>2, <5>3, <5>4, <5>5
      <4>2. CASE CrawlReturns
        <5>1. /\ at = "over" /\ UNCHANGED page /\ args.cmd = "crawl"
              /\ status' = ExitStatus(IF succeeded THEN 0 ELSE 1)
              /\ ended' = [n \in {"crawl"} |-> [how |-> "returned", code |-> IF succeeded THEN 0 ELSE 1]]
          BY <4>2 DEF CrawlReturns, Crawling, ExitsWith
        <5>2. CASE succeeded
          BY <5>1, <5>2 DEF ExitStatus
        <5>3. CASE ~succeeded
          BY <5>1, <5>3 DEF ExitStatus
        <5> QED BY <5>2, <5>3
      <4> QED BY <2>2, <4>1, <4>2
    <3>4. ExitTellsTruth'
      BY <1>1, <3>1, <3>3, CrawlTellsTruth DEF ExitTellsTruth, Succeeded, page
    <3> QED BY <1>2, <3>1, <3>2, <3>3, <3>4 DEF StatusInv
  <2>3. CASE ReturnAll
    <3>1. /\ main = "return" /\ main' = "over" /\ results' = results /\ ended' = ended
          /\ status' = ExitStatus(IF \E r \in results : r.rc # 0 THEN 1 ELSE 0)
          /\ output' = Append(output, Text)
      BY <2>3 DEF ReturnAll, ExitsWith, Write, pool
    <3>2. args.cmd = "all" /\ Collected = Names /\ rows = Names
      BY <3>1 DEF RequestInv, ResultsInv, OutputInv
    <3>3. status' \in {0, 1} /\ (status' = 0 <=> \A r \in results : r.rc = 0)
      BY <3>1 DEF ExitStatus
    <3>4. status' = 0 => \A n \in Names : Succeeded(n)
      BY <3>2, <3>3, CodeZero DEF Collected
    <3>5. ExitTellsTruth'
      BY <1>1, <3>1, <3>2, <3>4 DEF ExitTellsTruth, Succeeded
    <3>6. \A n \in Names : HasRow(output', n)
      <4>1. \A n \in Names : HasRow(output, n)
        BY <3>1, <3>2 DEF OutputInv
      <4>2. \A i \in 1 .. Len(output) : i \in 1 .. Len(output') /\ output'[i] = output[i]
        BY <3>1, TextLine DEF OutputInv
      <4> QED BY <4>1, <4>2 DEF HasRow
    <3>7. Collected' = Collected
      BY <3>1 DEF Collected
    <3> QED BY <1>1, <1>2, <1>5, <3>1, <3>2, <3>3, <3>5, <3>6, <3>7 DEF StatusInv
  <2>4. CASE Interrupted
    <3>1. main' = "cut" /\ status' \in {-15, -9, 1, 126, 127, 255}
      BY <2>4, Interruption
    <3> QED BY <1>2, <1>5, <3>1 DEF StatusInv, ExitTellsTruth
  <2> QED BY <1>5, <2>1, <2>2, <2>3, <2>4, LastSteps
<1> QED BY <1>3, <1>4, <1>5

----------------------------------------------------------------------------
(* The dashboard's entry                                                    *)

\* The lines from place m on.
LEMMA LinesFrom ==
  ASSUME NEW L, NEW out \in Seq(L), NEW m \in Nat \ {0}, m <= Len(out) + 1
  PROVE  /\ SubSeq(out, m, Len(out)) \in Seq(L)
         /\ Len(SubSeq(out, m, Len(out))) = Len(out) - (m - 1)
         /\ \A i \in 1 .. Len(out) - (m - 1) : SubSeq(out, m, Len(out))[i] = out[i + (m - 1)]
<1>1. SubSeq(out, m, Len(out)) \in Seq(L) /\ Len(SubSeq(out, m, Len(out))) = Len(out) - (m - 1)
  OBVIOUS
<1>2. \A i \in 1 .. Len(out) - (m - 1) : SubSeq(out, m, Len(out))[i] = out[i + (m - 1)]
  OBVIOUS
<1> QED BY <1>1, <1>2

\* The lines of a run that the dashboard still has are the last ones.
LEMMA LastLines ==
  ASSUME NEW L, NEW out \in Seq(L), NEW k \in Nat \ {0}
  PROVE  \E m \in Nat \ {0} : m <= Len(out) + 1 /\ m = Max({1, Len(out) - k + 1})
<1>1. Len(out) - k + 1 \in Int /\ 1 \in Int /\ Len(out) - k + 1 <= Len(out) + 1 /\ Len(out) \in Nat
  OBVIOUS
<1>2. PICK m : m = Max({1, Len(out) - k + 1})
  OBVIOUS
<1>3. m \in {1, Len(out) - k + 1} /\ m >= 1
  BY <1>1, <1>2, MaxOfTwo, Zenon
<1>4. m \in Nat \ {0} /\ m <= Len(out) + 1
  BY <1>1, <1>3
<1> QED BY <1>2, <1>4

\* What parse_batch_from_lines finds in the last lines: if it finds the head it
\* has every row, since they follow it.
LEMMA SummaryIsWhole ==
  ASSUME NEW L, NEW out \in Seq(L), NEW names, NEW res, Printed(out, names, res),
         NEW tail \in Seq(L), NEW d \in Nat, d <= Len(out), Len(tail) = Len(out) - d,
         \A i \in 1 .. Len(tail) : tail[i] = out[i + d],
         NEW found, found = ParseBatch(tail)
  PROVE  /\ IsFiniteSet(found) /\ found \subseteq 1 .. Len(tail)
         /\ \A i \in found : \E r \in res : tail[i].name = r.name /\ tail[i].rc = r.rc
         /\ \A i, j \in found : tail[i].name = tail[j].name => i = j
         /\ found # {} =>
              /\ HasHead(out)
              /\ \A n : HasRow(out, n) => \E i \in found : tail[i].name = n
<1>1. Len(out) \in Nat /\ Len(tail) \in Nat /\ DOMAIN tail = 1 .. Len(tail)
  OBVIOUS
<1>2. \A i \in 1 .. Len(tail) : i + d \in 1 .. Len(out)
  BY <1>1
<1>3. /\ found \subseteq 1 .. Len(tail)
      /\ \A i \in found : tail[i].kind = "row"
      /\ found # {} => \E h \in 1 .. Len(tail) : tail[h].kind = "head"
  <2>1. \A i \in found :
          i \in 1 .. Len(tail) /\ tail[i].kind = "row" /\ \E h \in 1 .. i : tail[h].kind = "head"
    BY <1>1, Zenon DEF ParseBatch
  <2>2. \A i \in 1 .. Len(tail) : \A h \in 1 .. i : h \in 1 .. Len(tail)
    BY <1>1
  <2> QED BY <2>1, <2>2
<1>4. IsFiniteSet(found)
  <2> DEFINE n == Len(tail)
  <2>1. IsFiniteSet(1 .. n)
    <3>1. n \in Int /\ 1 \in Int
      BY <1>1, SMT
    <3> HIDE DEF n
    <3> QED BY <3>1, FS_Interval, Zenon
  <2> QED BY <1>3, <2>1, FS_Subset
<1>5. \A i \in found :
        /\ \E r \in res : tail[i].name = r.name /\ tail[i].rc = r.rc
        /\ \A j \in found : tail[i].name = tail[j].name => i + d = j + d
  <2>1. \A i \in found : tail[i] = out[i + d] /\ i + d \in 1 .. Len(out) /\ tail[i].kind = "row"
    BY <1>2, <1>3
  <2>2. ASSUME NEW i \in found
        PROVE  /\ \E r \in res : tail[i].name = r.name /\ tail[i].rc = r.rc
               /\ \A j \in found : tail[i].name = tail[j].name => i + d = j + d
    <3>1. PICK e \in 1 .. Len(out) : e = i + d
      BY <2>1
    <3>2. tail[i] = out[e] /\ out[e].kind = "row"
      BY <2>1, <3>1
    <3>3. \E r \in res : tail[i].name = r.name /\ tail[i].rc = r.rc
      BY <3>2 DEF Printed
    <3>4. ASSUME NEW j \in found, tail[i].name = tail[j].name
          PROVE  e = j + d
      <4>1. PICK g \in 1 .. Len(out) : g = j + d
        BY <2>1
      <4>2. out[g] = tail[j] /\ out[g].kind = "row"
        BY <2>1, <4>1
      <4> QED BY <3>2, <3>4, <4>1, <4>2 DEF Printed
    <3> QED BY <3>1, <3>3, <3>4
  <2> QED BY <2>2
<1>6. ASSUME NEW i \in found, NEW j \in found, tail[i].name = tail[j].name
      PROVE  i = j
  <2>1. i + d = j + d
    BY <1>5, <1>6
  <2>2. i \in Int /\ j \in Int
    BY <1>3
  <2> QED BY <2>1, <2>2
<1>7. ASSUME found # {}
      PROVE  /\ HasHead(out)
             /\ \A n : HasRow(out, n) => \E i \in found : tail[i].name = n
  <2>1. PICK h \in 1 .. Len(tail) : tail[h].kind = "head"
    BY <1>3, <1>7
  <2>2. h + d \in 1 .. Len(out) /\ out[h + d].kind = "head"
    BY <1>2, <2>1
  <2>3. ASSUME NEW n, HasRow(out, n)
        PROVE  \E i \in found : tail[i].name = n
    <3>1. PICK j \in 1 .. Len(out) : out[j].kind = "row" /\ out[j].name = n
      BY <2>3 DEF HasRow
    <3>2. h + d < j
      BY <2>2, <3>1 DEF Printed
    <3>3. j - d \in 1 .. Len(tail) /\ h \in 1 .. j - d /\ (j - d) + d = j
      BY <1>1, <3>2
    <3>4. tail[j - d] = out[j]
      BY <3>3
    <3>5. j - d \in found
      BY <1>1, <2>1, <3>1, <3>3, <3>4 DEF ParseBatch
    <3> QED BY <3>1, <3>4, <3>5
  <2> QED BY <2>2, <2>3 DEF HasHead
<1> QED BY <1>3, <1>4, <1>5, <1>6, <1>7

\* Rows of different names are as many as the entries made of them.
LEMMA RowsCounted ==
  ASSUME NEW found, IsFiniteSet(found), NEW tail,
         \A i, j \in found : tail[i].name = tail[j].name => i = j
  PROVE  Cardinality(found)
           = Cardinality({[name |-> tail[i].name, rc |-> tail[i].rc] : i \in found})
<1> DEFINE T == {[name |-> tail[i].name, rc |-> tail[i].rc] : i \in found}
           f == [i \in found |-> [name |-> tail[i].name, rc |-> tail[i].rc]]
<1>1. f \in [found -> T]
  OBVIOUS
<1>2. \A i, j \in found : f[i] = f[j] => i = j
  <2>1. \A i \in found : f[i].name = tail[i].name
    OBVIOUS
  <2> HIDE DEF f
  <2> QED BY <2>1
<1>3. \A t \in T : \E i \in found : f[i] = t
  OBVIOUS
<1>4. f \in Injection(found, T) /\ f \in Surjection(found, T)
  BY <1>1, <1>2, <1>3, Fun_IsInj, Fun_IsSurj
<1>5. IsFiniteSet(T)
  BY <1>4, FS_Surjection
<1>6. Cardinality(found) = Cardinality(T) <=> f \in Surjection(found, T)
  BY <1>4, <1>5, FS_Injection
<1> QED BY <1>4, <1>6

\* None has failed if all have passed.
LEMMA NoneFailed ==
  ASSUME NEW found, IsFiniteSet(found), NEW passed, passed \subseteq found
  PROVE  Cardinality(found) - Cardinality(passed) = 0 <=> passed = found
<1>1. /\ IsFiniteSet(passed) /\ Cardinality(passed) <= Cardinality(found)
      /\ Cardinality(found) = Cardinality(passed) => found = passed
  BY FS_Subset
<1>2. Cardinality(found) \in Nat /\ Cardinality(passed) \in Nat
  BY <1>1, FS_CardinalityType
<1> QED BY <1>1, <1>2

\* Nothing else makes the entry.
LEMMA OnlyRecord ==
  ASSUME Next
  PROVE  batch' = batch \/ RecordBatch
<1>1. CASE Admit \/ Parse \/ ResolveSource \/ Confirm \/ RunSingle \/ CrawlReturns
  BY <1>1 DEF Admit, Parse, ResolveSource, Confirm, RunSingle, CrawlReturns
<1>2. CASE DoAll \/ Submit \/ SubmitRaises \/ Shutdown \/ OpenGate \/ \E n \in Names : Collect(n)
  BY <1>2 DEF DoAll, Submit, SubmitRaises, Shutdown, OpenGate, Collect
<1>3. CASE PrintHead \/ (\E r \in results : PrintRow(r)) \/ ReturnAll \/ CrawlPage
  BY <1>3 DEF PrintHead, PrintRow, ReturnAll, CrawlPage, OutsidePage
<1>4. CASE Interrupted \/ \E n \in Names : Thread(n)
  BY <1>4, Interruption DEF Thread, PickUp, Begin, End
<1> QED BY <1>1, <1>2, <1>3, <1>4 DEF Next, Main

\* The entry of a batch is true when it is made.
LEMMA BatchMade ==
  ASSUME PoolInv, ResultsInv, OutputInv, StatusInv, RecordBatch
  PROVE  BatchIsTrue'
<1> DEFINE tail == Lines
           found == ParseBatch(tail)
           passed == {i \in found : tail[i].rc = 0}
           made == {[name |-> tail[i].name, rc |-> tail[i].rc] : i \in found}
<1>1. /\ batch' = [rc |-> status, summary_available |-> found # {},
                   total |-> Cardinality(found), passed |-> Cardinality(passed),
                   failed |-> Cardinality(found) - Cardinality(passed), results |-> made]
      /\ status # None /\ args' = args /\ ended' = ended /\ main' = main
  BY DEF RecordBatch, request, pool
<1>2. Names' = Names
  BY <1>1, SameWorkloads
<1>3. output \in Seq(OutLines) /\ Printed(output, rows, results)
  BY DEF OutputInv
<1>4. PICK m \in Nat \ {0} : m <= Len(output) + 1 /\ m = Max({1, Len(output) - MaxLines + 1})
  BY <1>3, SuiteAssumption, LastLines
<1>5. tail = SubSeq(output, m, Len(output))
  BY <1>4 DEF Lines
<1>6. /\ tail \in Seq(OutLines) /\ Len(tail) = Len(output) - (m - 1)
      /\ \A i \in 1 .. Len(tail) : tail[i] = output[i + (m - 1)]
      /\ m - 1 \in Nat /\ m - 1 <= Len(output)
  <2>1. /\ tail \in Seq(OutLines) /\ Len(tail) = Len(output) - (m - 1)
        /\ \A i \in 1 .. Len(output) - (m - 1) : tail[i] = output[i + (m - 1)]
    BY <1>3, <1>4, <1>5, LinesFrom, Zenon
  <2>2. m - 1 \in Nat /\ m - 1 <= Len(output)
    BY <1>3, <1>4
  <2> QED BY <2>1, <2>2
<1> HIDE DEF tail
<1>7. /\ IsFiniteSet(found)
      /\ \A i \in found : \E r \in results : tail[i].name = r.name /\ tail[i].rc = r.rc
      /\ \A i, j \in found : tail[i].name = tail[j].name => i = j
      /\ found # {} =>
           /\ HasHead(output)
           /\ \A n : HasRow(output, n) => \E i \in found : tail[i].name = n
  <2>1. PICK d \in Nat : d = m - 1
    BY <1>6
  <2>2. /\ d <= Len(output) /\ Len(tail) = Len(output) - d
        /\ \A i \in 1 .. Len(tail) : tail[i] = output[i + d]
    BY <1>6, <2>1
  <2>3. tail \in Seq(OutLines)
    BY <1>6
  <2> QED BY <1>3, <2>2, <2>3, SummaryIsWhole
<1> HIDE DEF found
<1>8. Cardinality(found) = Cardinality(made)
  <2>1. \A i, j \in found : tail[i].name = tail[j].name => i = j
    BY <1>7
  <2> QED BY <1>7, <2>1, RowsCounted
<1>9. \A i \in found : tail[i].name \in Names /\ (tail[i].rc = 0 <=> Succeeded(tail[i].name))
  <2>1. \A r \in results : r.name \in Names /\ (r.rc = 0 <=> Succeeded(r.name))
    BY CodeZero DEF ResultsInv, ResultOf
  <2> QED BY <1>7, <2>1
<1>10. \A r \in made : r.rc = 0 <=> Succeeded(r.name)
  BY <1>9
<1>11. ASSUME found # {}, status = 0 \/ main # "cut"
       PROVE  /\ {r.name : r \in made} = Names
              /\ status = 0 <=> Cardinality(found) - Cardinality(passed) = 0
  <2>1. /\ Collected = Names /\ \A n \in Names : HasRow(output, n)
        /\ status = 0 <=> \A r \in results : r.rc = 0
    <3>1. main = "over"
      BY <1>1, <1>11 DEF StatusInv
    <3> QED BY <1>7, <1>11, <3>1 DEF StatusInv
  <2>2. \A n \in Names : \E i \in found : tail[i].name = n
    BY <1>7, <1>11, <2>1
  <2>3. {r.name : r \in made} = Names
    <3>1. \A r \in made : \E i \in found : r.name = tail[i].name
      OBVIOUS
    <3>2. ASSUME NEW i \in found
          PROVE  \E r \in made : r.name = tail[i].name
      <4>1. [name |-> tail[i].name, rc |-> tail[i].rc] \in made
        OBVIOUS
      <4>2. [name |-> tail[i].name, rc |-> tail[i].rc].name = tail[i].name
        OBVIOUS
      <4> HIDE DEF made
      <4> QED BY <4>1, <4>2
    <3> HIDE DEF made
    <3> QED BY <1>9, <2>2, <3>1, <3>2
  <2>4. status = 0 <=> \A i \in found : tail[i].rc = 0
    <3>1. ASSUME NEW r \in results
          PROVE  \E i \in found : tail[i].rc = r.rc
      <4>1. PICK i \in found : tail[i].name = r.name
        BY <2>2 DEF ResultsInv, ResultOf
      <4> QED BY <1>7, <4>1 DEF ResultsInv
    <3> QED BY <1>7, <2>1, <3>1
  <2>5. status = 0 <=> passed = found
    BY <2>4
  <2>6. Cardinality(found) - Cardinality(passed) = 0 <=> passed = found
    BY <1>7, NoneFailed
  <2> QED BY <2>3, <2>5, <2>6
<1> HIDE DEF made, passed
<1>12. PICK entry : entry = batch'
  OBVIOUS
<1>13. /\ entry.rc = status /\ entry.summary_available = (found # {})
       /\ entry.total = Cardinality(found) /\ entry.results = made
       /\ entry.failed = Cardinality(found) - Cardinality(passed)
  BY <1>1, <1>12
<1>14. /\ \A r \in entry.results : r.rc = 0 <=> Succeeded(r.name)
       /\ entry.total = Cardinality(entry.results)
       /\ entry.summary_available /\ (entry.rc = 0 \/ main # "cut") =>
            /\ {r.name : r \in entry.results} = Names
            /\ entry.rc = 0 <=> entry.failed = 0
  BY <1>8, <1>10, <1>11, <1>13
<1>15. \A n : Succeeded(n)' <=> Succeeded(n)
  BY <1>1 DEF Succeeded
<1> QED BY <1>1, <1>2, <1>12, <1>14, <1>15 DEF BatchIsTrue, Succeeded

\* The entry stays true.
LEMMA BatchKept ==
  ASSUME PoolInv, ResultsInv, OutputInv, StatusInv, BatchInv, Next
  PROVE  BatchInv'
<1>1. CASE RecordBatch
  <2>1. status' # None
    BY <1>1 DEF RecordBatch
  <2> QED BY <1>1, <2>1, BatchMade DEF BatchInv
<1>2. CASE ~ RecordBatch
  <2>1. batch' = batch
    BY <1>2, OnlyRecord
  <2>2. batch = None
    BY <1>2, AfterTheEnd DEF BatchInv, StatusInv
  <2> QED BY <2>1, <2>2 DEF BatchInv, BatchIsTrue
<1> QED BY <1>1, <1>2

----------------------------------------------------------------------------
(* The invariant holds throughout                                           *)

LEMMA Initially == Init => IInv
<1> SUFFICES ASSUME Init PROVE IInv
  OBVIOUS
<1>1. None \notin Int
  BY CrawlerAssumption
<1>2. RequestInv
  BY ArgumentsAssumption DEF Init, RequestInv, Places
<1>3. PageInv
  <2>1. PageInit
    BY DEF Init
  <2>2. at = "resolve" /\ ~complete /\ ~succeeded
    BY <2>1 DEF PageInit
  <2>3. PageTypeOK
    <3>1. 0 \in 0 .. MaxAddresses /\ 0 \in 0 .. Cap /\ Timeout \in 0 .. Timeout
      BY CrawlerAssumption
    <3>2. complete \in BOOLEAN /\ succeeded \in BOOLEAN
      BY <2>1 DEF PageInit
    <3> QED BY <2>1, <3>1, <3>2 DEF PageInit, PageTypeOK
  <2> QED BY <2>2, <2>3 DEF PageInv
<1>4. PoolInv
  <2>1. Len(Workloads) \in Nat
    BY WorkloadsLength
  <2>2. args.cmd # "all" => Names = {}
    BY WorkloadsLength
  <2>3. /\ submitted = 0 /\ gate = FALSE /\ main \in {"admission", "start"}
        /\ task = [n \in Names |-> "none"] /\ DOMAIN ended = Names
    BY DEF Init
  <2>4. /\ task \in [Names -> {"none", "queued", "waiting", "running", "over"}]
        /\ \A n \in Names : task[n] = "none"
    BY <2>3
  <2>5. IF args.cmd = "all" THEN DOMAIN ended = Names ELSE DOMAIN ended = {}
    BY <2>2, <2>3
  <2>6. ~gate /\ gate \in BOOLEAN
    BY <2>3
  <2>7. submitted \in 0 .. Len(Workloads)
    BY <2>1, <2>3
  <2> QED BY <2>3, <2>4, <2>5, <2>6, <2>7 DEF PoolInv
<1>5. ResultsInv
  BY FS_EmptySet DEF Init, ResultsInv
<1>6. OutputInv
  BY DEF Init, OutputInv, Plain, Printed, Collected
<1>7. StatusInv
  BY <1>1 DEF Init, StatusInv, ExitTellsTruth
<1>8. BatchInv
  BY DEF Init, BatchInv, BatchIsTrue
<1> QED BY <1>2, <1>3, <1>4, <1>5, <1>6, <1>7, <1>8 DEF IInv

LEMMA Stutter ==
  ASSUME IInv, UNCHANGED vars
  PROVE  IInv'
<1> USE DEF vars, request, pool, IInv
<1>1. Workloads' = Workloads /\ Names' = Names
  BY SameWorkloads
<1>2. RequestInv'
  BY DEF RequestInv
<1>3. PageInv'
  BY SamePage
<1>4. PoolInv'
  BY <1>1 DEF PoolInv
<1>5. ResultsInv' /\ Collected' = Collected
  BY <1>1 DEF ResultsInv, ResultOf, Collected
<1>6. OutputInv'
  BY <1>1, <1>5 DEF OutputInv, OutLines, Plain, Printed, HasRow
<1>7. ExitTellsTruth'
  BY <1>1 DEF StatusInv, ExitTellsTruth, Succeeded, page
<1>8. StatusInv'
  BY <1>1, <1>5, <1>7 DEF StatusInv, HasHead, HasRow
<1>9. BatchInv'
  BY <1>1 DEF BatchInv, BatchIsTrue, Succeeded
<1> QED BY <1>2, <1>3, <1>4, <1>5, <1>6, <1>8, <1>9

\* The requests, the page, the pool, the summary and the entry keep to what
\* each of them promises, whatever the rest does.
THEOREM Inductive == Spec => []IInv
<1>1. IInv /\ [Next]_vars => IInv'
  <2>1. ASSUME IInv, Next
        PROVE  IInv'
    <3>1. RequestInv' /\ PageInv' /\ PoolInv'
      BY <2>1, RequestKept, PageKept, PoolKept DEF IInv
    <3>2. ResultsInv' /\ OutputInv'
      BY <2>1, ResultsKept, OutputKept DEF IInv
    <3>3. StatusInv' /\ BatchInv'
      BY <2>1, StatusKept, BatchKept DEF IInv
    <3> QED BY <3>1, <3>2, <3>3 DEF IInv
  <2> QED BY <2>1, Stutter
<1> QED BY <1>1, Initially, PTL DEF Spec

----------------------------------------------------------------------------
(* The limits                                                               *)

\* What the complete suite sends.
LEMMA SuiteLength == ASSUME NEW a PROVE Len(AllWorkloads(a)) = 18 /\ DOMAIN AllWorkloads(a) = 1 .. 18
BY DEF AllWorkloads

LEMMA SuitePlaces == 6 \in 1 .. 18 /\ 9 \in 1 .. 18
OBVIOUS

LEMMA SuiteScan ==
  ASSUME NEW a
  PROVE  AllWorkloads(a)[6].args = [cmd |-> "scan", type |-> "syn", max_ports |-> 1024]
BY DEF AllWorkloads, Scan

LEMMA SuiteFlood ==
  ASSUME NEW a
  PROVE  AllWorkloads(a)[9].args
           = [cmd |-> "flood", type |-> "syn", port |-> 80, count |-> 2000, rate |-> 500]
BY DEF AllWorkloads, FloodOf

LEMMA SuiteFloods ==
  ASSUME NEW a, NEW i \in 1 .. 18, AllWorkloads(a)[i].args.cmd = "flood"
  PROVE  AllWorkloads(a)[i].args.count = 2000 /\ AllWorkloads(a)[i].args.rate = 500
BY DEF AllWorkloads, FloodOf, OnPort, Scan

\* A suite that parse_args lets through is within the ceilings.
LEMMA SuiteWithinLimits ==
  ASSUME NEW l, NEW a, a.cmd = "all", ParseArgs(l, a)
  PROVE  /\ Len(AllWorkloads(a)) <= l.max_workloads
         /\ a.duration <= l.max_duration_s
         /\ 1024 <= l.max_ports /\ 2000 <= l.max_packets /\ 500 <= l.max_rate_pps
<1>1. ValidateArgs(l, a) /\ BuildAll(l, a)
  BY DEF ParseArgs
<1>2. a.duration <= l.max_duration_s
  BY <1>1 DEF ValidateArgs, BoundedInt
<1>3. /\ Len(AllWorkloads(a)) <= l.max_workloads
      /\ ValidateArgs(l, AllWorkloads(a)[6].args) /\ ValidateArgs(l, AllWorkloads(a)[9].args)
  BY <1>1, SuiteLength, SuitePlaces DEF BuildAll, BoundedInt
<1>4. 1024 <= l.max_ports
  BY <1>3, SuiteScan DEF ValidateArgs, BoundedInt
<1>5. Flood(l, AllWorkloads(a)[9].args)
  BY <1>3, SuiteFlood DEF ValidateArgs
<1>6. 2000 <= l.max_packets /\ 500 <= l.max_rate_pps
  BY <1>5, SuiteFlood DEF Flood, BoundedInt
<1> QED BY <1>2, <1>3, <1>4, <1>6

\* The quotient of the code's // .
LEMMA Quotient ==
  ASSUME NEW a \in Int, NEW b \in Nat \ {0}
  PROVE  a \div b \in Int /\ b * (a \div b) <= a /\ a < b * (a \div b) + b
OBVIOUS

\* Rounded up, the quotient is not too small.
LEMMA RoundedUp ==
  ASSUME NEW k \in Nat \ {0}, NEW b \in Nat \ {0}
  PROVE  (k + b - 1) \div b \in Nat \ {0} /\ b * ((k + b - 1) \div b) >= k
<1>1. PICK a : a = k + b - 1
  OBVIOUS
<1>2. a \in Int
  BY <1>1
<1>3. PICK q : q = a \div b
  OBVIOUS
<1>4. q \in Int /\ b * q <= a /\ a < b * q + b
  BY <1>2, <1>3, Quotient, Zenon
<1>5. PICK p : p = b * q
  OBVIOUS
<1>6. p \in Int /\ p >= k
  BY <1>1, <1>2, <1>4, <1>5
<1>7. q > 0
  BY <1>4, <1>5, <1>6
<1> QED BY <1>1, <1>3, <1>4, <1>5, <1>6, <1>7

\* The interval between two packets is never too short.
LEMMA IntervalIsLong ==
  ASSUME NEW rate \in Nat \ {0}
  PROVE  Interval(rate) \in Nat \ {0} /\ rate * Interval(rate) >= 1000000
<1>1. PICK k : k = 1000000
  BY SMT
<1>2. k \in Nat \ {0}
  BY <1>1, SMT
<1>3. (k + rate - 1) \div rate \in Nat \ {0} /\ rate * ((k + rate - 1) \div rate) >= k
  BY <1>2, RoundedUp
<1>4. Interval(rate) = (k + rate - 1) \div rate
  BY <1>1, SMT DEF Interval
<1> QED BY <1>1, <1>3, <1>4, SMT

\* What the quotient bounds.
LEMMA WithinQuotient ==
  ASSUME NEW a \in Int, NEW interval \in Nat \ {0}, NEW count \in Int, count <= a \div interval
  PROVE  count * interval <= a
<1>1. PICK q : q = a \div interval
  OBVIOUS
<1>2. q \in Int /\ interval * q <= a
  BY <1>1, Quotient, Zenon
<1>3. count <= q
  BY <1>1
<1>4. count * interval <= interval * q
  BY <1>2, <1>3
<1>5. count * interval \in Int /\ interval * q \in Int
  BY <1>2
<1> QED BY <1>2, <1>4, <1>5

\* The ceilings are numbers.
LEMMA LimitsAreNumbers ==
  ASSUME RequestInv
  PROVE  limits.max_duration_s \in Int /\ limits.max_rate_pps \in Int
<1>1. DEFAULT_LIMITS \in [DOMAIN DEFAULT_LIMITS -> Int]
  BY SMT DEF DEFAULT_LIMITS
<1>2. limits \in [DOMAIN DEFAULT_LIMITS -> Int]
  BY <1>1, ArgumentsAssumption DEF RequestInv
<1>3. "max_duration_s" \in DOMAIN DEFAULT_LIMITS /\ "max_rate_pps" \in DOMAIN DEFAULT_LIMITS
  BY SMT DEF DEFAULT_LIMITS
<1> QED BY <1>2, <1>3

\* So are the numbers of a flood that has been asked for.
LEMMA FloodIsNumbers ==
  ASSUME NEW a \in Arguments, a.cmd = "flood"
  PROVE  a.rate \in Int /\ a.count \in Int
<1>1. Params[a.cmd] = {"port", "count", "rate"}
  BY DEF Params
<1>2. \A p \in Params[a.cmd] : a[p] \in Int
  BY ArgumentsAssumption
<1> QED BY <1>1, <1>2

\* A flood within the limits is paced within them.
LEMMA FloodKeepsPace ==
  ASSUME NEW l, LimitsValid(l), l.max_duration_s \in Int, "max_duration_s" \in DOMAIN l,
         NEW a, a.cmd = "flood", ValidateArgs(l, a), a.rate \in Int, a.count \in Int
  PROVE  /\ a.rate * Interval(a.rate) >= 1000000
         /\ a.rate <= l.max_rate_pps
         /\ a.count * Interval(a.rate) <= l.max_duration_s * 1000000
<1>1. Flood(l, a)
  BY DEF ValidateArgs
<1>2. a.rate \in Nat \ {0} /\ a.rate <= l.max_rate_pps
  BY <1>1, SMT DEF Flood, BoundedInt
<1>3. Interval(a.rate) \in Nat \ {0} /\ a.rate * Interval(a.rate) >= 1000000
  BY <1>2, IntervalIsLong, SMT
<1>4. l.max_duration_s \in Nat
  BY SMT DEF LimitsValid
<1>5. PICK k : k = 1000000
  BY SMT
<1>6. k \in Nat
  BY <1>5, SMT
<1>7. a.count <= (l.max_duration_s * k) \div Interval(a.rate)
  BY <1>1, <1>5, SMT DEF Flood
<1>8. a.count * Interval(a.rate) <= l.max_duration_s * k
  <2>1. l.max_duration_s * k \in Int
    BY <1>4, <1>6
  <2> QED BY <1>3, <1>7, <2>1, WithinQuotient
<1> QED BY <1>2, <1>3, <1>5, <1>8, SMT

\* A workload of the suite is within the limits when parse_args has passed.
LEMMA SuiteFloodWithinLimits ==
  ASSUME NEW l, NEW a, a.cmd = "all", ParseArgs(l, a), NEW i \in 1 .. 18
  PROVE  ValidateArgs(l, AllWorkloads(a)[i].args)
BY SuiteLength DEF ParseArgs, BuildAll

----------------------------------------------------------------------------
(* The theorems                                                             *)

\* Every variable has its type; the results are no more than the workloads.
THEOREM TypeCorrect == Spec => []TypeOK
<1>1. IInv => TypeOK
  <2> SUFFICES ASSUME IInv PROVE TypeOK
    OBVIOUS
  <2>1. PageTypeOK /\ args \in Arguments /\ via \in {"dashboard", "shell"}
    BY DEF IInv, RequestInv, PageInv
  <2>2. confirmed \in BOOLEAN /\ src \in BOOLEAN /\ gate \in BOOLEAN
    BY DEF IInv, RequestInv, PoolInv
  <2>3. /\ submitted \in 0 .. Len(Workloads)
        /\ task \in [Names -> {"none", "queued", "waiting", "running", "over"}]
    BY DEF IInv, PoolInv
  <2>4. DOMAIN ended \in {Names, {args.cmd}}
    BY WorkloadsLength DEF IInv, PoolInv
  <2>5. Cardinality(results) <= Len(Workloads)
    <3>1. IsFiniteSet(results) /\ \A r \in results : r.name \in Names
      BY DEF IInv, ResultsInv, ResultOf
    <3>2. \A r, q \in results : r.name = q.name => r = q
      BY DEF IInv, ResultsInv
    <3> QED BY <3>1, <3>2, NamesAreFew, WorkloadsLength, OnePerName
  <2>6. rows \subseteq {r.name : r \in results}
    BY DEF IInv, OutputInv, Collected
  <2>7. status \in {None, -15, -9} \cup 0 .. 255 /\ (main = "over" => status \in 0 .. 255)
    BY DEF IInv, StatusInv
  <2> QED BY <2>1, <2>2, <2>3, <2>4, <2>5, <2>6, <2>7 DEF TypeOK
<1> QED BY <1>1, Inductive, PTL

\* run_concurrently: no workload of the suite sends unless all have been
\* submitted, and then the ceilings hold for all 18.
THEOREM SuiteAllOrNothing == Spec => []AllOrNothing
<1>1. IInv => AllOrNothing
  <2> SUFFICES ASSUME IInv, Started # {} PROVE AllOrNothing
    BY DEF AllOrNothing
  <2>1. gate
    BY DEF IInv, PoolInv, Started
  <2>2. submitted = Len(Workloads) /\ args.cmd = "all" /\ ParseArgs(limits, args)
    BY <2>1 DEF IInv, PoolInv
  <2> QED BY <2>2, SuiteWithinLimits DEF AllOrNothing
<1> QED BY <1>1, Inductive, PTL

\* interval_us and the ceilings of WorkloadLimits: no flood that has run was
\* faster than its rate or its rate above the ceiling, and its packets, one each
\* rounded-up interval, took no longer than the ceiling.
THEOREM FloodsArePaced == Spec => []PacedWithinLimits
<1>1. IInv => PacedWithinLimits
  <2> SUFFICES ASSUME IInv PROVE PacedWithinLimits
    OBVIOUS
  <2>1. limits.max_duration_s \in Int /\ "max_duration_s" \in DOMAIN limits
    <3>1. DOMAIN limits = DOMAIN DEFAULT_LIMITS
      BY ArgumentsAssumption DEF IInv, RequestInv
    <3>2. "max_duration_s" \in DOMAIN DEFAULT_LIMITS
      BY SMT DEF DEFAULT_LIMITS
    <3> QED BY <3>1, <3>2, LimitsAreNumbers DEF IInv
  <2>2. ASSUME NEW i \in DOMAIN Workloads, Workloads[i].name \in Started,
               Workloads[i].args.cmd = "flood"
        PROVE  LET a == Workloads[i].args
               IN  /\ a.rate * Interval(a.rate) >= 1000000
                   /\ a.rate <= limits.max_rate_pps
                   /\ a.count * Interval(a.rate) <= limits.max_duration_s * 1000000
    <3>1. gate
      BY <2>2 DEF IInv, PoolInv, Started
    <3>2. args.cmd = "all" /\ ParseArgs(limits, args)
      BY <3>1 DEF IInv, PoolInv
    <3>3. PICK p \in 1 .. 18 : Workloads[i] = AllWorkloads(args)[p]
      <4>1. /\ Workloads = [j \in 1 .. Len(Suite) |-> AllWorkloads(args)[Suite[j]]]
            /\ i \in 1 .. Len(Suite)
        BY <3>2, WorkloadsLength DEF Workloads
      <4>2. Suite[i] \in 1 .. 18
        BY <4>1, SuiteAssumption
      <4> QED BY <4>1, <4>2
    <3>4. PICK a : a = AllWorkloads(args)[p].args
      OBVIOUS
    <3>5. a.cmd = "flood" /\ a.count = 2000 /\ a.rate = 500
      BY <2>2, <3>3, <3>4, SuiteFloods
    <3>6. ValidateArgs(limits, a) /\ LimitsValid(limits)
      BY <3>2, <3>4, SuiteFloodWithinLimits DEF ParseArgs
    <3>7. a.count \in Int /\ a.rate \in Int
      BY <3>5
    <3>8. /\ a.rate * Interval(a.rate) >= 1000000
          /\ a.rate <= limits.max_rate_pps
          /\ a.count * Interval(a.rate) <= limits.max_duration_s * 1000000
      BY <2>1, <3>5, <3>6, <3>7, FloodKeepsPace, SMT
    <3> QED BY <3>3, <3>4, <3>8, SMT
  <2>3. ASSUME args.cmd \in DOMAIN ended, args.cmd = "flood"
        PROVE  /\ args.rate * Interval(args.rate) >= 1000000
               /\ args.rate <= limits.max_rate_pps
               /\ args.count * Interval(args.rate) <= limits.max_duration_s * 1000000
    <3>1. ParseArgs(limits, args)
      BY <2>3 DEF IInv, PoolInv
    <3>2. args.rate \in Int /\ args.count \in Int
      BY <2>3, FloodIsNumbers DEF IInv, RequestInv
    <3> QED BY <2>1, <2>3, <3>1, <3>2, FloodKeepsPace, SMT DEF ParseArgs
  <2> QED BY <2>2, <2>3, SMT DEF PacedWithinLimits
<1> QED BY <1>1, Inductive, PTL

\* The exit status of the process, and of a crawl, tells the truth.
THEOREM StatusTellsTruth == Spec => []ExitTellsTruth
<1>1. IInv => ExitTellsTruth
  BY DEF IInv, StatusInv
<1> QED BY <1>1, Inductive, PTL

\* record_batch: the rows of the entry are true however the run has ended, it has
\* the whole summary or none of it unless the run was cut off, and it agrees with
\* the status.
THEOREM EntryIsTrue == Spec => []BatchIsTrue
<1>1. IInv => BatchIsTrue
  BY DEF IInv, BatchInv
<1> QED BY <1>1, Inductive, PTL

----------------------------------------------------------------------------
(* What the dashboard admits                                                *)

LEMMA DefaultLimits ==
  /\ LimitsValid(DEFAULT_LIMITS)
  /\ DEFAULT_LIMITS.max_packets = 10000 /\ DEFAULT_LIMITS.max_rate_pps = 1000
  /\ DEFAULT_LIMITS.max_ports = 4096 /\ DEFAULT_LIMITS.max_duration_s = 300
  /\ DEFAULT_LIMITS.max_connections = 10000 /\ DEFAULT_LIMITS.max_threads = 64
  /\ DEFAULT_LIMITS.max_parallel = 32 /\ DEFAULT_LIMITS.max_fragments = 64
  /\ DEFAULT_LIMITS.max_workloads = 32
BY SMT DEF DEFAULT_LIMITS, LimitsValid

\* The dashboard's copy of them
LEMMA MirroredLimits ==
  ASSUME NEW cmd
  PROVE  /\ MirroredLimit(cmd, "port") = 65535 /\ MirroredLimit(cmd, "max_ports") = 4096
         /\ MirroredLimit(cmd, "ttl") = 255 /\ MirroredLimit(cmd, "duration") = 300
         /\ MirroredLimit(cmd, "rate") = 1000 /\ MirroredLimit(cmd, "connections") = 10000
         /\ MirroredLimit(cmd, "threads") = 64 /\ MirroredLimit(cmd, "parallel") = 32
         /\ MirroredLimit(cmd, "max_bytes") = 4194304 /\ MirroredLimit(cmd, "timeout") = 30
         /\ MirroredLimit("frag", "count") = 64 /\ MirroredLimit("flood", "count") = 10000
BY SMT DEF MirroredLimit

\* The port of an admitted request
LEMMA AdmittedPort ==
  ASSUME NEW a \in Arguments, NEW c, ValidateRequest(a, c), Has(a, "port")
  PROVE  PortValid(a)
<1>1. "port" \in Params[a.cmd]
  BY ArgumentsAssumption DEF Has
<1>2. BoundedInt(a.port, MirroredLimit(a.cmd, "port"))
  BY <1>1 DEF ValidateRequest
<1> QED BY <1>2, MirroredLimits, SMT DEF PortValid

\* Every number of an admitted request is within the mirrored limit.
LEMMA AdmittedNumbers ==
  ASSUME NEW a \in Arguments, NEW c, ValidateRequest(a, c)
  PROVE  /\ a.cmd = "crawl" => BoundedInt(a.max_bytes, 4194304) /\ BoundedInt(a.timeout, 30)
         /\ a.cmd \in {"all", "wrk", "iperf"} => BoundedInt(a.duration, 300)
         /\ a.cmd = "scan" => BoundedInt(a.max_ports, 4096)
         /\ a.cmd = "flood" => BoundedInt(a.count, 10000) /\ BoundedInt(a.rate, 1000)
         /\ a.cmd = "frag" => BoundedInt(a.count, 64)
         /\ a.cmd = "ttl" => BoundedInt(a.ttl, 255)
         /\ a.cmd = "wrk" => BoundedInt(a.connections, 10000) /\ BoundedInt(a.threads, 64)
         /\ a.cmd = "iperf" => BoundedInt(a.parallel, 32) /\ BoundedInt(a.port, 65535)
<1>1. \A p \in Params[a.cmd] : BoundedInt(a[p], MirroredLimit(a.cmd, p))
  BY DEF ValidateRequest
<1>2. /\ a.cmd = "crawl" => {"max_bytes", "timeout"} \subseteq Params[a.cmd]
      /\ a.cmd \in {"all", "wrk", "iperf"} => "duration" \in Params[a.cmd]
      /\ a.cmd = "scan" => "max_ports" \in Params[a.cmd]
      /\ a.cmd = "flood" => {"count", "rate"} \subseteq Params[a.cmd]
      /\ a.cmd = "frag" => "count" \in Params[a.cmd]
      /\ a.cmd = "ttl" => "ttl" \in Params[a.cmd]
      /\ a.cmd = "wrk" => {"connections", "threads"} \subseteq Params[a.cmd]
      /\ a.cmd = "iperf" => {"parallel", "port"} \subseteq Params[a.cmd]
  BY DEF Params
<1>3. a.cmd = "crawl" => BoundedInt(a.max_bytes, 4194304) /\ BoundedInt(a.timeout, 30)
  BY <1>1, <1>2, MirroredLimits, SMT
<1>4. a.cmd \in {"all", "wrk", "iperf"} => BoundedInt(a.duration, 300)
  BY <1>1, <1>2, MirroredLimits, SMT
<1>5. a.cmd = "scan" => BoundedInt(a.max_ports, 4096)
  BY <1>1, <1>2, MirroredLimits, SMT
<1>6. a.cmd = "flood" => BoundedInt(a.count, 10000) /\ BoundedInt(a.rate, 1000)
  BY <1>1, <1>2, MirroredLimits, SMT
<1>7. a.cmd = "frag" => BoundedInt(a.count, 64)
  BY <1>1, <1>2, MirroredLimits, SMT
<1>8. a.cmd = "ttl" => BoundedInt(a.ttl, 255)
  BY <1>1, <1>2, MirroredLimits, SMT
<1>9. a.cmd = "wrk" => BoundedInt(a.connections, 10000) /\ BoundedInt(a.threads, 64)
  BY <1>1, <1>2, MirroredLimits, SMT
<1>10. a.cmd = "iperf" => BoundedInt(a.parallel, 32) /\ BoundedInt(a.port, 65535)
  BY <1>1, <1>2, MirroredLimits, SMT
<1> QED BY <1>3, <1>4, <1>5, <1>6, <1>7, <1>8, <1>9, <1>10, SMT

\* Two threads limits are one.
LEMMA BelowMin ==
  ASSUME NEW a \in Int, NEW b \in Int, NEW x \in Int, x <= a, x <= b
  PROVE  x <= Min({a, b})
<1>1. \E y \in {a, b} : \A z \in {a, b} : y <= z
  OBVIOUS
<1>2. Min({a, b}) \in {a, b}
  BY <1>1 DEF Min
<1> QED BY <1>2

\* What the dashboard has admitted the program's own checks accept, if the
\* target is one for them.
LEMMA AdmittedArgsAreValid ==
  ASSUME NEW a \in Arguments, NEW c, ValidateRequest(a, c),
         a.cmd = "wrk" => HttpPort(a.target), a.cmd = "crawl" => TargetUrl(a.target)
  PROVE  ValidateArgs(DEFAULT_LIMITS, a)
<1>1. Has(a, "port") => PortValid(a)
  BY AdmittedPort
<1>2. /\ a.cmd = "crawl" => BoundedInt(a.max_bytes, 4194304) /\ BoundedInt(a.timeout, 30)
      /\ a.cmd = "all" => BoundedInt(a.duration, DEFAULT_LIMITS.max_duration_s)
      /\ a.cmd = "scan" => BoundedInt(a.max_ports, DEFAULT_LIMITS.max_ports)
      /\ a.cmd = "frag" => BoundedInt(a.count, DEFAULT_LIMITS.max_fragments)
      /\ a.cmd = "ttl" => BoundedInt(a.ttl, 255)
  BY AdmittedNumbers, DefaultLimits, SMT
<1>3. a.cmd = "flood" => Flood(DEFAULT_LIMITS, a)
  <2>1. a.cmd = "flood" => a.type \in {"syn", "icmp", "udp"}
    BY ArgumentsAssumption
  <2>2. a.cmd = "flood" => a.count <= 300000000 \div Interval(a.rate)
    BY SMT DEF ValidateRequest
  <2>3. 300 * 1000000 = 300000000
    BY SMT
  <2> QED BY <2>1, <2>2, <2>3, AdmittedNumbers, DefaultLimits, SMT DEF Flood
<1>4. a.cmd = "wrk" => Wrk(DEFAULT_LIMITS, a) /\ HttpPort(a.target)
  <2> SUFFICES ASSUME a.cmd = "wrk" PROVE Wrk(DEFAULT_LIMITS, a)
    OBVIOUS
  <2>1. /\ BoundedInt(a.connections, 10000) /\ BoundedInt(a.threads, 64)
        /\ BoundedInt(a.duration, 300) /\ a.threads <= a.connections
    BY AdmittedNumbers, SMT DEF ValidateRequest
  <2>2. a.connections \in Int /\ a.threads \in Int
    <3>1. Params[a.cmd] = {"connections", "threads", "duration"}
      BY DEF Params
    <3> QED BY <3>1, ArgumentsAssumption
  <2>3. a.threads <= Min({64, a.connections})
    <3>1. 64 \in Int /\ a.threads <= 64
      BY <2>1, SMT DEF BoundedInt
    <3> QED BY <2>1, <2>2, <3>1, BelowMin
  <2>4. BoundedInt(a.threads, Min({64, a.connections}))
    BY <2>1, <2>3, SMT DEF BoundedInt
  <2> QED BY <2>1, <2>4, DefaultLimits, SMT DEF Wrk
<1>5. a.cmd = "iperf" => Iperf(DEFAULT_LIMITS, a)
  BY AdmittedNumbers, DefaultLimits, SMT DEF Iperf
<1> QED BY <1>1, <1>2, <1>3, <1>4, <1>5, SMT DEF ValidateArgs

\* The suite at the admitted duration is within the default limits.
LEMMA AdmittedSuite ==
  ASSUME NEW a, BoundedInt(a.duration, 300), HttpPort(a.target)
  PROVE  BuildAll(DEFAULT_LIMITS, a)
<1> DEFINE V(i) == ValidateArgs(DEFAULT_LIMITS, AllWorkloads(a)[i].args)
<1>1. ASSUME NEW cmd \in {"http", "handshake", "eicar", "gtube", "malformed", "badcsum", "deny"},
             NEW port \in {80, 21, 9}
      PROVE  ValidateArgs(DEFAULT_LIMITS, [cmd |-> cmd, port |-> port])
  BY <1>1, SMT DEF ValidateArgs, Has, PortValid, BoundedInt
<1>2. V(1) /\ V(3) /\ V(4) /\ V(5) /\ V(12) /\ V(13) /\ V(16)
  <2>1. /\ AllWorkloads(a)[1].args = [cmd |-> "http", port |-> 80]
        /\ AllWorkloads(a)[3].args = [cmd |-> "handshake", port |-> 21]
        /\ AllWorkloads(a)[4].args = [cmd |-> "eicar", port |-> 80]
        /\ AllWorkloads(a)[5].args = [cmd |-> "gtube", port |-> 80]
        /\ AllWorkloads(a)[12].args = [cmd |-> "malformed", port |-> 80]
        /\ AllWorkloads(a)[13].args = [cmd |-> "badcsum", port |-> 80]
        /\ AllWorkloads(a)[16].args = [cmd |-> "deny", port |-> 9]
    BY DEF AllWorkloads, OnPort
  <2> QED BY <1>1, <2>1
<1>3. V(2)
  <2>1. AllWorkloads(a)[2].args = [cmd |-> "dns"]
    BY DEF AllWorkloads
  <2>2. ValidateArgs(DEFAULT_LIMITS, [cmd |-> "dns"])
    BY SMT DEF ValidateArgs, Has
  <2> QED BY <2>1, <2>2
<1>4. V(6) /\ V(7) /\ V(8)
  <2>1. ASSUME NEW type
        PROVE  ValidateArgs(DEFAULT_LIMITS, [cmd |-> "scan", type |-> type, max_ports |-> 1024])
    BY DefaultLimits, SMT DEF ValidateArgs, Has, BoundedInt
  <2>2. /\ AllWorkloads(a)[6].args = [cmd |-> "scan", type |-> "syn", max_ports |-> 1024]
        /\ AllWorkloads(a)[7].args = [cmd |-> "scan", type |-> "xmas", max_ports |-> 1024]
        /\ AllWorkloads(a)[8].args = [cmd |-> "scan", type |-> "fin", max_ports |-> 1024]
    BY DEF AllWorkloads, Scan
  <2> QED BY <2>1, <2>2
<1>5. V(9) /\ V(10) /\ V(11)
  <2>1. Interval(500) = 2000 /\ (300 * 1000000) \div 2000 = 150000
    BY SMT DEF Interval
  <2>2. ASSUME NEW flood, flood.cmd = "flood", flood.type \in {"syn", "icmp", "udp"},
               flood.count = 2000, flood.rate = 500, PortValid(flood)
        PROVE  ValidateArgs(DEFAULT_LIMITS, flood)
    <3>1. Flood(DEFAULT_LIMITS, flood)
      BY <2>1, <2>2, DefaultLimits, SMT DEF Flood, BoundedInt
    <3> QED BY <2>2, <3>1, SMT DEF ValidateArgs
  <2>3. /\ V(9) <=> ValidateArgs(DEFAULT_LIMITS, AllWorkloads(a)[9].args)
        /\ V(10) <=> ValidateArgs(DEFAULT_LIMITS, AllWorkloads(a)[10].args)
        /\ V(11) <=> ValidateArgs(DEFAULT_LIMITS, AllWorkloads(a)[11].args)
    OBVIOUS
  <2>4. /\ AllWorkloads(a)[9].args
             = [cmd |-> "flood", type |-> "syn", port |-> 80, count |-> 2000, rate |-> 500]
        /\ AllWorkloads(a)[10].args
             = [cmd |-> "flood", type |-> "icmp", port |-> 0, count |-> 2000, rate |-> 500]
        /\ AllWorkloads(a)[11].args
             = [cmd |-> "flood", type |-> "udp", port |-> 53, count |-> 2000, rate |-> 500]
    BY DEF AllWorkloads, FloodOf
  <2>5. ASSUME NEW flood, NEW type \in {"syn", "icmp", "udp"}, NEW port \in {80, 0, 53},
               port = 0 => type = "icmp",
               flood = [cmd |-> "flood", type |-> type, port |-> port, count |-> 2000, rate |-> 500]
        PROVE  ValidateArgs(DEFAULT_LIMITS, flood)
    <3>1. /\ flood.cmd = "flood" /\ flood.type = type /\ flood.port = port
          /\ flood.count = 2000 /\ flood.rate = 500
      BY <2>5
    <3>2. PortValid(flood)
      BY <2>5, <3>1, SMT DEF PortValid, BoundedInt
    <3> QED BY <2>2, <3>1, <3>2
  <2> HIDE DEF V
  <2>6. V(9)
    BY <2>3, <2>4, <2>5, SMT
  <2>7. V(10)
    BY <2>3, <2>4, <2>5, SMT
  <2>8. V(11)
    BY <2>3, <2>4, <2>5, SMT
  <2> QED BY <2>6, <2>7, <2>8
<1>6. V(14) /\ V(15)
  <2>1. /\ AllWorkloads(a)[14].args = [cmd |-> "ttl", port |-> 80, ttl |-> 1]
        /\ AllWorkloads(a)[15].args = [cmd |-> "frag", port |-> 80, count |-> 8]
    BY DEF AllWorkloads
  <2>2. ValidateArgs(DEFAULT_LIMITS, [cmd |-> "ttl", port |-> 80, ttl |-> 1])
    BY SMT DEF ValidateArgs, Has, PortValid, BoundedInt
  <2>3. ValidateArgs(DEFAULT_LIMITS, [cmd |-> "frag", port |-> 80, count |-> 8])
    BY DefaultLimits, SMT DEF ValidateArgs, Has, PortValid, BoundedInt
  <2> QED BY <2>1, <2>2, <2>3
<1>7. V(17)
  <2>1. PICK wrk : wrk = AllWorkloads(a)[17].args
    OBVIOUS
  <2>2. wrk = [cmd |-> "wrk", target |-> a.target, connections |-> 100,
               threads |-> 4, duration |-> a.duration]
    BY <2>1 DEF AllWorkloads
  <2>3. 4 <= Min({64, 100})
    BY BelowMin, SMT
  <2>4. Wrk(DEFAULT_LIMITS, wrk) /\ HttpPort(wrk.target) /\ wrk.cmd = "wrk"
    BY <2>2, <2>3, DefaultLimits, SMT DEF Wrk, BoundedInt
  <2>5. ~ Has(wrk, "port")
    BY <2>2 DEF Has
  <2> QED BY <2>1, <2>4, <2>5, SMT DEF ValidateArgs
<1>8. V(18)
  <2>1. PICK iperf : iperf = AllWorkloads(a)[18].args
    OBVIOUS
  <2>2. iperf = [cmd |-> "iperf", port |-> 5201, duration |-> a.duration, parallel |-> 4]
    BY <2>1 DEF AllWorkloads
  <2>3. Iperf(DEFAULT_LIMITS, iperf) /\ PortValid(iperf) /\ iperf.cmd = "iperf"
    BY <2>2, DefaultLimits, SMT DEF Iperf, PortValid, BoundedInt
  <2> QED BY <2>1, <2>3, SMT DEF ValidateArgs
<1>9. \A i \in 1 .. 18 : V(i)
  <2> HIDE DEF V
  <2>1. \A i \in 1 .. 18 :
          i \in {1, 2, 3, 4, 5, 6, 7, 8, 9, 10, 11, 12, 13, 14, 15, 16, 17, 18}
    BY SMT
  <2> QED BY <1>2, <1>3, <1>4, <1>5, <1>6, <1>7, <1>8, <2>1, SMT
<1>10. BoundedInt(Len(AllWorkloads(a)), DEFAULT_LIMITS.max_workloads)
  <2>1. Len(AllWorkloads(a)) = 18
    BY SuiteLength, Zenon
  <2>2. DEFAULT_LIMITS.max_workloads = 32
    BY DefaultLimits, SMT
  <2> QED BY <2>1, <2>2, SMT DEF BoundedInt
<1>11. DOMAIN AllWorkloads(a) = 1 .. 18
  BY SuiteLength
<1>12. ASSUME NEW i \in DOMAIN AllWorkloads(a)
      PROVE  ValidateArgs(DEFAULT_LIMITS, AllWorkloads(a)[i].args)
  <2>1. i \in 1 .. 18
    BY <1>11
  <2>2. V(i)
    <3> HIDE DEF V
    <3> QED BY <1>9, <2>1
  <2> QED BY <2>2
<1> QED BY <1>10, <1>12 DEF BuildAll

\* The suite asks for the URL of its target.
LEMMA SuiteNeedsUrl ==
  ASSUME NEW l, NEW a, BuildAll(l, a)
  PROVE  HttpPort(a.target)
<1>1. PICK wrk : wrk = AllWorkloads(a)[17].args
  OBVIOUS
<1>2. ValidateArgs(l, wrk)
  <2>1. 17 \in 1 .. 18
    BY SMT
  <2> QED BY <1>1, <2>1, SuiteLength DEF BuildAll
<1>3. wrk.cmd = "wrk" /\ wrk.target = a.target
  BY <1>1 DEF AllWorkloads
<1> QED BY <1>2, <1>3 DEF ValidateArgs

\* "Mirror default CLI WorkloadLimits": of what the dashboard has admitted the
\* command line rejects the crawls and the URLs whose target is none for them,
\* and nothing else.
THEOREM AdmittedRequestsParse == Spec => []AdmittedIsAccepted
<1>1. IInv => AdmittedIsAccepted
  <2> SUFFICES ASSUME IInv, via = "dashboard", main = "start"
               PROVE  ParseArgs(limits, args) <=>
                        /\ ~(args.cmd = "crawl" /\ args.target \in {"loose", "badport"})
                        /\ ~(args.cmd \in {"wrk", "all"} /\ args.target \in {"ipv6", "badport"})
    BY DEF AdmittedIsAccepted
  <2>1. limits = DEFAULT_LIMITS /\ args \in Arguments /\ ValidateRequest(args, confirmed)
    BY DEF IInv, RequestInv
  <2>2. args.target \in {"name", "ipv4", "ipv6", "loose", "badport"}
    BY <2>1, ArgumentsAssumption DEF ValidateRequest, HostPattern, Targets
  <2>3. /\ TargetUrl(args.target) <=> args.target \notin {"loose", "badport"}
        /\ HttpPort(args.target) <=> args.target \notin {"ipv6", "badport"}
    BY <2>2 DEF TargetUrl, HttpPort, Addresses
  <2>4. ASSUME args.cmd = "crawl" => TargetUrl(args.target),
               args.cmd \in {"wrk", "all"} => HttpPort(args.target)
        PROVE  ParseArgs(limits, args)
    <3>1. ValidateArgs(DEFAULT_LIMITS, args)
      BY <2>1, <2>4, AdmittedArgsAreValid
    <3>2. args.cmd = "all" => BuildAll(DEFAULT_LIMITS, args)
      BY <2>1, <2>4, AdmittedNumbers, AdmittedSuite
    <3> QED BY <2>1, <3>1, <3>2, DefaultLimits DEF ParseArgs
  <2>5. ASSUME ParseArgs(limits, args)
        PROVE  /\ args.cmd = "crawl" => TargetUrl(args.target)
               /\ args.cmd \in {"wrk", "all"} => HttpPort(args.target)
    <3>1. ValidateArgs(limits, args) /\ (args.cmd = "all" => BuildAll(limits, args))
      BY <2>5 DEF ParseArgs
    <3>2. args.cmd = "crawl" => TargetUrl(args.target)
      BY <3>1 DEF ValidateArgs
    <3>3. args.cmd = "wrk" => HttpPort(args.target)
      BY <3>1 DEF ValidateArgs
    <3> QED BY <3>1, <3>2, <3>3, SuiteNeedsUrl
  <2> QED BY <2>3, <2>4, <2>5
<1> QED BY <1>1, Inductive, PTL

=============================================================================
