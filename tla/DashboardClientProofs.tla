------------------------ MODULE DashboardClientProofs ------------------------
(* Theorems about DashboardClient, for every value of its constants.         *)
EXTENDS DashboardClient, WellFoundedInduction, TLAPS

----------------------------------------------------------------------------
(* The inductive invariant                                                  *)

ServerType ==
  /\ launched \in Seq(Requests \cup {Elsewhere}) /\ Len(launched) <= MaxLaunches
  /\ oldest \in 1 .. Len(launched) + 1
  /\ ended \subseteq 1 .. Len(launched)
  /\ restarts \in 0 .. MaxRestarts

\* The part of TypeOK that is about the page.
PageType ==
  /\ late \subseteq Requests
  /\ run \in 0 .. Len(launched)
  /\ es \in {"none", "live", "refused"} /\ (es = "none" <=> run = 0)
  /\ pending \in Requests \cup {None} /\ (pending = None \/ run = 0)
  /\ keys \in 0 .. MaxKeys
  /\ sent \in Requests \cup {None}
  /\ reply \in Replies \cup {None} /\ (reply # None => sent # None)
  /\ held \in BOOLEAN /\ (held => asking)
  /\ stopping \in BOOLEAN /\ asking \in BOOLEAN
  /\ seen \in Snapshots \cup {None} /\ (seen # None => asking)

\* An accepted launch is answered with a run that exists.
ReplyIsKnown ==
  reply # None /\ reply.status = 200 => reply.id \in 1 .. Len(launched)

\* A list of runs is one the server has had: what it lacks is older than all the
\* server retains now, or newer than all it shows.
SeenIsPast ==
  seen # None =>
    /\ seen.from <= oldest
    /\ seen.to <= Len(launched)
    /\ seen.done \subseteq ended

IInv == TypeOK /\ ReplyIsKnown /\ SeenIsPast

LEMMA TypeParts == TypeOK <=> ServerType /\ PageType
BY DEF TypeOK, ServerType, PageType

\* What the server has done stays done.
Grows ==
  /\ Len(launched) <= Len(launched')
  /\ oldest <= oldest'
  /\ ended \subseteq ended'

----------------------------------------------------------------------------
(* The server                                                               *)

LEMMA AdmitGrows ==
  ASSUME ServerType, NEW req \in Requests \cup {Elsewhere}, Admit(req)
  PROVE  ServerType' /\ Grows /\ Len(launched') = Len(launched) + 1
<1>1. /\ Len(launched) < MaxLaunches
      /\ launched' = Append(launched, req)
      /\ oldest' = Larger(oldest, Len(launched) + 2 - MAX_RUNS)
      /\ UNCHANGED <<ended, restarts>>
  BY DEF Admit
<1>2. launched \in Seq(Requests \cup {Elsewhere}) /\ Len(launched) \in Nat
  BY DEF ServerType
<1>3. launched' \in Seq(Requests \cup {Elsewhere}) /\ Len(launched') = Len(launched) + 1
  BY <1>1, <1>2
<1>4. MaxLaunches \in Nat /\ MAX_RUNS \in Nat \ {0}
  BY ClientAssumption
<1>5. oldest' \in 1 .. Len(launched') + 1 /\ oldest <= oldest'
  BY <1>1, <1>2, <1>3, <1>4 DEF ServerType, Larger
<1> QED BY <1>1, <1>2, <1>3, <1>4, <1>5 DEF ServerType, Grows

LEMMA UnchangedServer ==
  ASSUME ServerType, UNCHANGED server
  PROVE  ServerType' /\ Grows
<1>1. launched' = launched /\ oldest' = oldest /\ ended' = ended /\ restarts' = restarts
  BY DEF server
<1> QED BY <1>1 DEF ServerType, Grows

\* A launch is answered with a run that exists then, if it is accepted.
LEMMA PostRunAnswers ==
  ASSUME ServerType, NEW req \in Requests, NEW ans, PostRun(req, ans)
  PROVE  /\ ServerType' /\ Grows
         /\ ans \in Replies
         /\ ans.status = 200 => ans.id \in 1 .. Len(launched')
<1>1. MaxLaunches \in Nat /\ Len(launched) \in Nat /\ Len(launched) <= MaxLaunches
  BY ClientAssumption DEF ServerType
<1>2. CASE UNCHANGED server /\ ans = [status |-> 400, id |-> 0]
  BY <1>2, UnchangedServer DEF Replies
<1>3. CASE UNCHANGED server /\ ans = [status |-> 409, id |-> 0]
  BY <1>3, UnchangedServer DEF Replies
<1>4. CASE /\ UNCHANGED server
           /\ \E id \in RUNS : ans = [status |-> 200, id |-> id]
  <2>1. PICK id \in RUNS : ans = [status |-> 200, id |-> id]
    BY <1>4
  <2>2. id \in 1 .. Len(launched) /\ id \in Ids
    BY <1>1 DEF RUNS, ServerType, Ids
  <2>3. launched' = launched
    BY <1>4 DEF server
  <2> QED BY <1>4, <2>1, <2>2, <2>3, UnchangedServer DEF Replies
<1>5. CASE Admit(req) /\ ans = [status |-> 200, id |-> Len(launched) + 1]
  <2>1. ServerType' /\ Grows /\ Len(launched') = Len(launched) + 1
    BY <1>5, AdmitGrows
  <2>2. Len(launched) < MaxLaunches
    BY <1>5 DEF Admit
  <2>3. Len(launched) + 1 \in 1 .. Len(launched') /\ Len(launched) + 1 \in Ids
    BY <1>1, <2>1, <2>2 DEF Ids
  <2> QED BY <1>5, <2>1, <2>3 DEF Replies
<1> QED BY <1>2, <1>3, <1>4, <1>5 DEF PostRun

\* No step of anyone undoes what the server has done.
LEMMA ServerStep ==
  ASSUME IInv, [Next]_vars
  PROVE  ServerType' /\ Grows
<1> ServerType /\ PageType
  BY TypeParts DEF IInv
<1>1. CASE UNCHANGED server
  BY <1>1, UnchangedServer
<1>2. CASE ServeLaunch
  <2>1. sent \in Requests /\ PostRun(sent, reply')
    BY <1>2 DEF ServeLaunch, PageType
  <2> QED BY <2>1, PostRunAnswers
<1>3. ASSUME NEW req \in late, ServeLate(req) PROVE ServerType' /\ Grows
  <2>1. req \in Requests
    BY DEF PageType
  <2>2. PICK ans \in Replies : PostRun(req, ans)
    BY <1>3 DEF ServeLate
  <2> QED BY <2>1, <2>2, PostRunAnswers
<1>4. CASE LaunchElsewhere
  BY <1>4, AdmitGrows DEF LaunchElsewhere
<1>5. ASSUME NEW id \in RUNS, RunEnds(id) PROVE ServerType' /\ Grows
  <2>1. ended' = ended \cup {id} /\ launched' = launched /\ oldest' = oldest
        /\ restarts' = restarts
    BY <1>5 DEF RunEnds
  <2>2. id \in 1 .. Len(launched)
    BY DEF RUNS, ServerType
  <2> QED BY <2>1, <2>2 DEF ServerType, Grows
<1>6. CASE ServerRestarts
  <2>1. /\ restarts < MaxRestarts /\ restarts' = restarts + 1
        /\ oldest' = Len(launched) + 1 /\ launched' = launched /\ ended' = ended
    BY <1>6 DEF ServerRestarts
  <2>2. Len(launched) \in Nat /\ MaxRestarts \in Nat
    BY ClientAssumption DEF ServerType
  <2> QED BY <2>1, <2>2 DEF ServerType, Grows
<1>7. CASE UNCHANGED vars
  BY <1>7, <1>1 DEF vars
<1> QED BY <1>1, <1>2, <1>3, <1>4, <1>5, <1>6, <1>7
    DEF Next, Click, LaunchAnswered, LaunchFails, Poll, ServeRuns, PollAnswered,
        PollFails, StreamEnds, StreamBreaks, Stop, StopDone, Reload

----------------------------------------------------------------------------
(* The page                                                                 *)

\* `find' finds the first of the runs shown, if there is one.
LEMMA FirstExists ==
  ASSUME NEW S, S \subseteq Nat, S # {}
  PROVE  (CHOOSE i \in S : \A j \in S : i <= j) \in S
<1> DEFINE R == OpToRel(<, Nat)
<1>1. IsWellFoundedOn(R, Nat)
  BY NatLessThanWellFounded
<1>2. \A i, j \in Nat : <<i, j>> \in R <=> i < j
  BY DEF OpToRel
<1> HIDE DEF R
<1>3. PICK i \in S : \A j \in S : <<j, i>> \notin R
  BY <1>1, WFMin
<1>4. ASSUME NEW j \in S PROVE i <= j
  <2>1. i \in Nat /\ j \in Nat /\ <<j, i>> \notin R
    BY <1>3
  <2>2. ~(j < i)
    BY <1>2, <2>1
  <2> QED BY <2>1, <2>2
<1> QED BY <1>4

\* reconcile picks a run of the list, or none.
LEMMA PickedIsShown ==
  ASSUME PageType, seen # None
  PROVE  Picked = 0 \/ Picked \in Shown
<1>1. Shown \subseteq Nat
  BY DEF PageType, Snapshots, Shown
<1>2. CASE run \in Shown
  BY <1>2 DEF Picked
<1>3. CASE run \notin Shown /\ Keyed # {}
  <2>1. Keyed \subseteq Shown
    BY DEF Keyed
  <2>2. (CHOOSE i \in Keyed : \A j \in Keyed : i <= j) \in Keyed
    BY <1>1, <1>3, <2>1, FirstExists
  <2> QED BY <1>3, <2>1, <2>2 DEF Picked
<1>4. CASE run \notin Shown /\ Keyed = {}
  <2> DEFINE open == Shown \ seen.done
  <2>1. CASE open = {}
    BY <1>4, <2>1 DEF Picked
  <2>2. CASE open # {}
    <3>1. (CHOOSE i \in open : \A j \in open : i <= j) \in open
      BY <1>1, <2>2, FirstExists
    <3> QED BY <1>4, <2>2, <3>1 DEF Picked
  <2> QED BY <2>1, <2>2
<1> QED BY <1>2, <1>3, <1>4

\* The part of the invariant that a step of the page may disturb.
PageInv == PageType /\ ReplyIsKnown /\ SeenIsPast

\* Whatever else stays, the page may meet a server that has done more.
LEMMA PageStays ==
  ASSUME IInv, Grows, ServerType', UNCHANGED <<run, es, launch, poll>>, late' \subseteq late
  PROVE  PageInv'
<1>1. /\ run' = run /\ es' = es /\ pending' = pending /\ keys' = keys /\ sent' = sent
      /\ reply' = reply /\ held' = held
      /\ stopping' = stopping /\ asking' = asking /\ seen' = seen
  BY DEF launch, poll
<1>2. PageType /\ ServerType /\ ReplyIsKnown /\ SeenIsPast
  BY TypeParts DEF IInv
<1>3. /\ Len(launched) \in Nat /\ Len(launched') \in Nat
      /\ oldest \in Nat /\ oldest' \in Nat
  BY <1>2 DEF ServerType
<1>4. PageType'
  BY <1>1, <1>2, <1>3 DEF PageType, Grows
<1>5. ReplyIsKnown'
  BY <1>1, <1>2, <1>3 DEF ReplyIsKnown, Grows
<1>6. SeenIsPast'
  <2>1. seen # None => seen.from \in Nat /\ seen.to \in Nat
    BY <1>2 DEF PageType, Snapshots
  <2> QED BY <1>1, <1>2, <1>3, <2>1 DEF SeenIsPast, Grows
<1> QED BY <1>4, <1>5, <1>6 DEF PageInv

LEMMA PageStep ==
  ASSUME IInv, [Next]_vars
  PROVE  PageInv'
<1>1. ServerType /\ PageType /\ ReplyIsKnown /\ SeenIsPast
  BY TypeParts DEF IInv
<1>2. ServerType' /\ Grows
  BY ServerStep
<1>3. /\ Len(launched) \in Nat /\ MaxLaunches \in Nat /\ Len(launched) <= MaxLaunches
      /\ oldest \in 1 .. Len(launched) + 1 /\ ended \subseteq 1 .. Len(launched)
  BY <1>1, ClientAssumption DEF ServerType
<1> USE DEF PageInv
<1>4. ASSUME UNCHANGED <<run, es, launch, poll>>, late' \subseteq late PROVE PageInv'
  BY <1>2, <1>4, PageStays
\* Where the server does not move, what is said of it stays true.
<1> DEFINE Still == launched' = launched /\ oldest' = oldest /\ ended' = ended
<1>5. ASSUME NEW w \in Workloads, Click(w) PROVE PageInv'
  <2>1. /\ run = 0 /\ sent' = pending' /\ pending' \in Requests /\ keys' \in 0 .. MaxKeys
    <3>1. CASE pending = None
      <4>1. keys < MaxKeys /\ keys' = keys + 1 /\ pending' = [key |-> keys', workload |-> w]
            /\ sent' = pending' /\ run = 0
        BY <1>5, <3>1 DEF Click
      <4>2. keys \in 0 .. MaxKeys /\ MaxKeys \in Nat
        BY <1>1, ClientAssumption DEF PageType
      <4> QED BY <4>1, <4>2 DEF Requests
    <3>2. CASE pending # None
      BY <1>1, <1>5, <3>2 DEF Click, PageType
    <3> QED BY <3>1, <3>2
  <2>2. /\ Still /\ late' = late /\ run' = run /\ es' = es /\ reply' = reply /\ held' = held
        /\ stopping' = stopping /\ asking' = asking /\ seen' = seen
    BY <1>5 DEF Click, server, poll
  <2>3. reply # None => sent' # None
    BY <1>1, <1>5, <2>1 DEF PageType, Click, Launching
  <2>4. PageType'
    BY <1>1, <2>1, <2>2, <2>3 DEF PageType
  <2> QED BY <1>1, <2>2, <2>4 DEF ReplyIsKnown, SeenIsPast
<1>6. CASE ServeLaunch
  <2>1. sent \in Requests /\ PostRun(sent, reply')
    BY <1>1, <1>6 DEF ServeLaunch, PageType
  <2>2. reply' \in Replies /\ (reply'.status = 200 => reply'.id \in 1 .. Len(launched'))
    BY <1>1, <2>1, PostRunAnswers
  <2>3. /\ sent # None /\ late' = late /\ run' = run /\ es' = es /\ pending' = pending
        /\ keys' = keys /\ sent' = sent /\ held' = held
        /\ stopping' = stopping /\ asking' = asking /\ seen' = seen
    BY <1>6 DEF ServeLaunch, poll
  <2>4. Len(launched') \in Nat /\ oldest' \in Nat /\ Len(launched) <= Len(launched')
        /\ oldest <= oldest' /\ ended \subseteq ended'
    BY <1>2 DEF ServerType, Grows
  <2>5. PageType'
    BY <1>1, <1>3, <2>2, <2>3, <2>4 DEF PageType
  <2>6. SeenIsPast'
    <3>1. seen # None => seen.from \in Nat /\ seen.to \in Nat
      BY <1>1 DEF PageType, Snapshots
    <3>2. CASE seen # None
      <4>1. /\ seen.from <= oldest /\ seen.to <= Len(launched)
            /\ seen.done \subseteq ended
        BY <1>1, <3>2 DEF SeenIsPast
      <4>2. seen.from <= oldest' /\ seen.to <= Len(launched')
        <5>1. seen.from \in Nat /\ seen.to \in Nat /\ oldest \in Nat
          BY <1>3, <3>1, <3>2
        <5> QED BY <1>3, <2>4, <4>1, <5>1
      <4>3. seen.done \subseteq ended'
        BY <2>4, <4>1
      <4> QED BY <2>3, <4>2, <4>3 DEF SeenIsPast
    <3> QED BY <2>3, <3>2 DEF SeenIsPast
  <2> QED BY <2>2, <2>5, <2>6 DEF ReplyIsKnown
<1>7. ASSUME NEW req \in late, ServeLate(req) PROVE PageInv'
  BY <1>4, <1>7 DEF ServeLate
<1>8. CASE LaunchElsewhere \/ ServerRestarts
  BY <1>4, <1>8 DEF LaunchElsewhere, ServerRestarts
<1>9. ASSUME NEW id \in RUNS, RunEnds(id) PROVE PageInv'
  BY <1>4, <1>9 DEF RunEnds
<1>10. CASE ServeRuns
  <2>1. /\ Still /\ late' = late /\ run' = run /\ es' = es /\ pending' = pending
        /\ keys' = keys /\ sent' = sent /\ reply' = reply /\ held' = held
        /\ stopping' = stopping /\ asking' = asking /\ asking
        /\ seen' = [from |-> oldest, to |-> Len(launched), done |-> ended]
    BY <1>10 DEF ServeRuns, server, launch
  <2>2. seen' \in Snapshots
    BY <1>3, <2>1 DEF Snapshots, Ids
  <2>3. PageType'
    BY <1>1, <2>1, <2>2 DEF PageType
  <2>4. SeenIsPast'
    BY <1>3, <2>1 DEF SeenIsPast
  <2> QED BY <1>1, <2>1, <2>3, <2>4 DEF ReplyIsKnown
<1>11. CASE LaunchAnswered
  <2>1. /\ Still /\ late' = late /\ keys' = keys /\ reply # None
        /\ pending' = None /\ sent' = None /\ reply' = None
    BY <1>11 DEF LaunchAnswered, server
  <2>2. /\ run' \in 0 .. Len(launched) /\ es' \in {"none", "live", "refused"}
        /\ es' = "none" <=> run' = 0
    <3>1. CASE reply.status = 200 /\ run' = reply.id /\ es' = "live"
      BY <1>1, <1>3, <2>1, <3>1 DEF ReplyIsKnown
    <3>2. CASE run' = run /\ es' = es
      BY <1>1, <3>2 DEF PageType
    <3> QED BY <1>11, <3>1, <3>2 DEF LaunchAnswered, Follow
  <2>3. /\ held' \in BOOLEAN /\ (held' => asking') /\ stopping' = stopping
        /\ asking' \in BOOLEAN /\ seen' = seen /\ (seen # None => asking')
    <3>1. CASE UNCHANGED <<held, poll>>
      BY <1>1, <3>1 DEF poll, PageType
    <3>2. CASE AwaitReconcile
      BY <1>1, <3>2 DEF PageType, AwaitReconcile, Reconcile
    <3> QED BY <1>11, <3>1, <3>2 DEF LaunchAnswered
  <2>4. PageType'
    BY <1>1, <2>1, <2>2, <2>3 DEF PageType
  <2> QED BY <1>1, <2>1, <2>3, <2>4 DEF ReplyIsKnown, SeenIsPast
<1>12. CASE LaunchFails
  <2>1. /\ Still /\ late' \subseteq Requests /\ keys' = keys /\ run' = run /\ es' = es
        /\ pending' = pending /\ sent' = None /\ reply' = None
    BY <1>1, <1>12 DEF LaunchFails, server, Unserved, PageType
  <2>2. /\ held' \in BOOLEAN /\ (held' => asking') /\ stopping' = stopping
        /\ asking' \in BOOLEAN /\ seen' = seen /\ (seen # None => asking')
    BY <1>1, <1>12 DEF LaunchFails, PageType, AwaitReconcile, Reconcile
  <2>3. PageType'
    BY <1>1, <2>1, <2>2 DEF PageType
  <2> QED BY <1>1, <2>1, <2>2, <2>3 DEF ReplyIsKnown, SeenIsPast
<1>13. CASE Poll \/ StreamBreaks \/ Stop \/ StopDone
  <2>1. /\ Still /\ late' = late /\ run' = run /\ pending' = pending /\ keys' = keys
        /\ sent' = sent /\ reply' = reply /\ held' = held /\ seen' = seen
        /\ stopping' \in BOOLEAN /\ asking' \in BOOLEAN /\ (asking => asking')
    BY <1>1, <1>13 DEF Poll, StreamBreaks, Stop, StopDone, Reconcile, server, launch, PageType
  <2>2. /\ es' \in {"none", "live", "refused"}
        /\ es' = "none" <=> run = 0
    BY <1>1, <1>13 DEF Poll, StreamBreaks, Stop, StopDone, PageType
  <2>3. PageType'
    BY <1>1, <2>1, <2>2 DEF PageType
  <2> QED BY <1>1, <2>1, <2>3 DEF ReplyIsKnown, SeenIsPast
<1>14. CASE PollFails
  <2>1. /\ Still /\ late' = late /\ run' = run /\ es' = es /\ pending' = pending
        /\ keys' = keys /\ sent' = sent /\ reply' = reply /\ held' = FALSE
        /\ stopping' = stopping /\ asking' = FALSE /\ seen' = None
    BY <1>14 DEF PollFails, PollDone, server
  <2>2. PageType'
    BY <1>1, <2>1 DEF PageType
  <2> QED BY <1>1, <2>1, <2>2 DEF ReplyIsKnown, SeenIsPast
<1>15. CASE PollAnswered
  <2>1. /\ Still /\ late' = late /\ keys' = keys /\ sent' = sent /\ reply' = reply
        /\ held' = FALSE /\ stopping' = stopping /\ asking' = FALSE
        /\ seen # None /\ seen' = None
    BY <1>15 DEF PollAnswered, PollDone, server
  <2>2. /\ run' \in 0 .. Len(launched) /\ es' \in {"none", "live", "refused"}
        /\ es' = "none" <=> run' = 0
        /\ pending' \in Requests \cup {None} /\ (pending' = None \/ run' = 0)
    <3>1. CASE Picked = 0 /\ run' = 0 /\ es' = "none" /\ pending' = pending
      BY <1>1, <1>3, <3>1 DEF PageType
    <3>2. CASE Picked # 0 /\ pending' = None
      <4>1. Picked \in 1 .. Len(launched)
        <5>1. Picked \in Shown
          BY <1>1, <2>1, <3>2, PickedIsShown
        <5>2. seen.from \in 1 .. MaxLaunches + 1 /\ seen.to \in 0 .. MaxLaunches
          BY <1>1, <2>1 DEF PageType, Snapshots
        <5> QED BY <1>1, <1>3, <2>1, <5>1, <5>2 DEF Shown, SeenIsPast
      <4>2. CASE LetGo
        BY <1>3, <3>2, <4>2 DEF LetGo
      <4>3. CASE Follow(Picked)
        BY <1>3, <3>2, <4>1, <4>3 DEF Follow
      <4>4. CASE UNCHANGED <<run, es>>
        BY <1>1, <3>2, <4>4 DEF PageType
      <4> QED BY <1>15, <3>2, <4>2, <4>3, <4>4 DEF PollAnswered
    <3> QED BY <1>15, <3>1, <3>2 DEF PollAnswered, LetGo
  <2>3. PageType'
    BY <1>1, <2>1, <2>2 DEF PageType
  <2> QED BY <1>1, <2>1, <2>3 DEF ReplyIsKnown, SeenIsPast
<1>16. CASE StreamEnds
  <2>1. /\ Still /\ late' = late /\ run' = 0 /\ es' = "none" /\ pending' = pending
        /\ keys' = keys /\ sent' = sent /\ reply' = reply /\ held' = held
        /\ stopping' = stopping /\ asking' = asking /\ seen' = seen
    BY <1>16 DEF StreamEnds, LetGo, server, launch, poll
  <2>2. PageType'
    BY <1>1, <1>3, <2>1 DEF PageType
  <2> QED BY <1>1, <2>1, <2>2 DEF ReplyIsKnown, SeenIsPast
<1>17. CASE Reload
  <2>1. /\ Still /\ late' \subseteq Requests /\ run' = 0 /\ es' = "none" /\ pending' = None
        /\ keys' = keys /\ sent' = None /\ reply' = None /\ held' = FALSE
        /\ stopping' = FALSE /\ asking' = TRUE /\ seen' = None
    BY <1>1, <1>17 DEF Reload, LetGo, server, Unserved, PageType
  <2>2. PageType'
    <3>1. run' \in 0 .. Len(launched') /\ keys' \in 0 .. MaxKeys
      BY <1>1, <1>3, <2>1 DEF PageType
    <3>2. /\ pending' \in Requests \cup {None} /\ sent' \in Requests \cup {None}
          /\ reply' \in Replies \cup {None} /\ seen' \in Snapshots \cup {None}
      BY <2>1
    <3> QED BY <2>1, <3>1, <3>2 DEF PageType
  <2> QED BY <2>1, <2>2 DEF ReplyIsKnown, SeenIsPast
<1>18. CASE UNCHANGED vars
  BY <1>4, <1>18 DEF vars
<1> QED BY <1>5, <1>6, <1>7, <1>8, <1>9, <1>10, <1>11, <1>12, <1>13, <1>14, <1>15, <1>16,
           <1>17, <1>18 DEF Next

----------------------------------------------------------------------------
(* Theorems                                                                 *)

LEMMA Inductive == Spec => []IInv
<1>1. Init => IInv
  <2> SUFFICES ASSUME Init PROVE IInv
    OBVIOUS
  <2>1. ServerType
    BY ClientAssumption DEF Init, ServerType
  <2>2. PageType
    <3>1. run \in 0 .. Len(launched) /\ keys \in 0 .. MaxKeys
      BY ClientAssumption DEF Init
    <3>2. /\ pending \in Requests \cup {None} /\ sent \in Requests \cup {None}
          /\ reply \in Replies \cup {None} /\ seen \in Snapshots \cup {None}
      BY DEF Init
    <3> QED BY <3>1, <3>2 DEF Init, PageType
  <2> QED BY <2>1, <2>2, TypeParts DEF Init, IInv, ReplyIsKnown, SeenIsPast
<1>2. IInv /\ [Next]_vars => IInv'
  <2> SUFFICES ASSUME IInv, [Next]_vars PROVE IInv'
    OBVIOUS
  <2>1. ServerType' /\ PageInv'
    BY ServerStep, PageStep
  <2> QED BY <2>1 DEF IInv, PageInv, TypeOK, ServerType, PageType
<1> QED BY <1>1, <1>2, PTL DEF Spec

\* Types; among them that the page has a stream just when it follows a run,
\* and that it never follows one while the outcome of a launch is unknown to it.
THEOREM TypeCorrect == Spec => []TypeOK
<1>1. IInv => TypeOK
  BY DEF IInv
<1> QED BY <1>1, Inductive, PTL

\* An active run that the list shows is the one reconcile picks, and keeps.
LEMMA KeptIfShown ==
  ASSUME IInv, PollAnswered, Active(run), run' # run
  PROVE  seen # None /\ seen.to < run
<1>1. ServerType /\ PageType /\ SeenIsPast /\ seen # None
  BY TypeParts DEF IInv, PollAnswered
<1>2. /\ seen.from \in Nat /\ seen.to \in Nat /\ seen.from <= oldest /\ seen.done \subseteq ended
      /\ oldest \in 1 .. Len(launched) + 1 /\ Len(launched) \in Nat
  BY <1>1 DEF ServerType, PageType, Snapshots, SeenIsPast
<1>3. run \in oldest .. Len(launched) /\ run \notin ended
  BY DEF Active, RUNS
<1>4. ASSUME run \in Shown PROVE FALSE
  <2>1. Picked = run
    BY <1>4 DEF Picked
  <2>2. run # 0 /\ run \notin seen.done
    BY <1>2, <1>3
  <2>3. es # "none"
    BY <1>1, <2>2 DEF PageType
  <2> QED BY <2>1, <2>2, <2>3 DEF PollAnswered
<1> QED BY <1>1, <1>2, <1>3, <1>4 DEF Shown

\* The key is dropped only for a run found.
LEMMA KeyIfNotFound ==
  ASSUME IInv, PollAnswered, pending # None, pending' # pending
  PROVE  seen # None /\ (Keyed # {} \/ Shown \ seen.done # {})
<1>1. PageType /\ seen # None /\ run = 0
  BY TypeParts DEF IInv, PollAnswered, PageType
<1>2. Picked # 0
  BY DEF PollAnswered
<1>3. run \notin Shown
  BY <1>1 DEF PageType, Snapshots, Shown
<1> QED BY <1>1, <1>2, <1>3 DEF Picked

\* The page never lets go of an active run, nor forgets the key of a launch, but
\* for an answer that says so or a reload (reconcile, runIt and onerror).
THEOREM Remembers == Spec => PageRemembers
<1>1. ASSUME IInv, [Next]_vars, Active(run), run' # run
      PROVE  \/ reply # None /\ reply.status = 200
             \/ seen # None /\ seen.to < run
             \/ Reload
  <2>1. run \notin ended
    BY <1>1 DEF Active
  <2>2. CASE PollAnswered
    BY <1>1, <2>2, KeptIfShown
  <2>3. CASE LaunchAnswered
    BY <1>1, <2>3 DEF LaunchAnswered
  <2> QED BY <1>1, <2>1, <2>2, <2>3
      DEF Next, vars, Click, ServeLaunch, LaunchFails, Poll, ServeRuns, PollFails,
          StreamEnds, StreamBreaks, Stop, StopDone, LaunchElsewhere, ServeLate, RunEnds,
          ServerRestarts
<1>2. ASSUME IInv, [Next]_vars, pending # None, pending' # pending
      PROVE  \/ reply # None
             \/ seen # None /\ (Keyed # {} \/ Shown \ seen.done # {})
             \/ Reload
  <2>1. CASE PollAnswered
    BY <1>2, <2>1, KeyIfNotFound
  <2>2. CASE LaunchAnswered
    BY <2>2 DEF LaunchAnswered
  <2> QED BY <1>2, <2>1, <2>2
      DEF Next, vars, launch, Click, ServeLaunch, LaunchFails, Poll, ServeRuns, PollFails,
          StreamEnds, StreamBreaks, Stop, StopDone, LaunchElsewhere, ServeLate, RunEnds,
          ServerRestarts
<1>3. IInv /\ [Next]_vars =>
        [/\ Active(run) /\ run' # run =>
              \/ reply # None /\ reply.status = 200
              \/ seen # None /\ seen.to < run
              \/ Reload
         /\ pending # None /\ pending' # pending =>
              \/ reply # None
              \/ seen # None /\ (Keyed # {} \/ Shown \ seen.done # {})
              \/ Reload]_vars
  BY <1>1, <1>2
<1> QED BY <1>3, Inductive, PTL DEF Spec, PageRemembers
=============================================================================
