-------------------------- MODULE DriveInboxProofs --------------------------
(***************************************************************************)
(* The Drive provider implements the abstract fetch route, and a file only *)
(* ever leaves the watched folder after it has become an item.             *)
(***************************************************************************)
EXTENDS DriveInbox, InboxFetchProofs

\* process() returned for the message about to be marked, or mark_seen is done too.
ItemInHand ==
    \A f \in Fetcher :
        /\ At(f, "mark") /\ fetch[f].ok => items[fetch[f].msg] > 0
        /\ At(f, "reflect") => fetch[f].msg \in seen /\ items[fetch[f].msg] > 0

IDrive == IType /\ place \in [Message -> Place] /\ ItemInHand /\ MovedIsProcessed

LEMMA DriveInit == Init => IDrive /\ RouteInit
<1> SUFFICES ASSUME Init PROVE IDrive /\ RouteInit
  OBVIOUS
<1>1. IType
  BY SafeInit DEF Init, ISafe
<1>2. ItemInHand
  BY DEF Init, RouteInit, ItemInHand, At, NoFetch
<1>3. place \in [Message -> Place] /\ MovedIsProcessed
  BY DEF Init, Place, MovedIsProcessed
<1> QED BY <1>1, <1>2, <1>3 DEF Init, IDrive

\* A step of the route: what it stores stays, and it hands over only what it stored.
LEMMA RouteStepEffect ==
  ASSUME IType, ItemInHand, NEW f \in Fetcher,
         \/ StartFetch(f)
         \/ \E msgs \in SUBSET Message : List(f, msgs)
         \/ Work(f) \/ Reflect(f) \/ Abort(f) \/ ConnectionLost(f)
  PROVE  /\ IType'
         /\ ItemInHand'
         /\ seen \subseteq seen'
         /\ \A m \in Message : items[m] > 0 => items'[m] > 0
<1>0. /\ IType' /\ OnlyBy(f)
      /\ fetch \in [Fetcher -> Fetch] /\ items \in [Message -> Nat]
      /\ At(f, "process") \/ At(f, "mark") => fetch[f].msg \in Message
  BY TypeStep DEF IType, RouteTypeOK, HoldsMessage, At
<1>1. \A j : Goto(f, j) => fetch'[f] = j
  BY <1>0 DEF Goto
<1>2. seen \subseteq seen' /\ \A m \in Message : items[m] > 0 => items'[m] > 0
  <2>1. CASE Ingest(f)
    BY <1>0, <2>1 DEF Ingest
  <2>2. CASE ~Ingest(f)
    BY <2>2 DEF StartFetch, List, Work, Skip, Take, IngestRaises, MarkSeen,
                Reflect, Finish, Abort, ConnectionLost
  <2> QED BY <2>1, <2>2
<1>3. /\ fetch'[f].pc = "mark" /\ fetch'[f].ok =>
             fetch'[f] = fetch[f] \/ items'[fetch'[f].msg] > 0
      /\ fetch'[f].pc = "reflect" =>
             \/ fetch'[f] = fetch[f]
             \/ fetch'[f].msg \in seen' /\ items'[fetch'[f].msg] > 0
  <2>1. CASE Ingest(f)
    <3>1. fetch'[f].pc = "mark" /\ fetch'[f].msg = fetch[f].msg
      BY <1>0, <2>1, IngestEffect
    <3>2. items'[fetch[f].msg] > 0
      BY <1>0, <2>1 DEF Ingest
    <3> QED BY <3>1, <3>2
  <2>2. CASE IngestRaises(f)
    <3>1. fetch'[f] = [fetch[f] EXCEPT !.pc = "mark", !.ok = FALSE]
      BY <1>1, <2>2 DEF IngestRaises
    <3> QED BY <1>0, <3>1 DEF Fetch
  <2>3. CASE MarkSeen(f)
    <3>1. CASE Ended(f)
      <4>1. fetch'[f] = NoFetch
        BY <1>1, <3>1 DEF Ended
      <4> QED BY <4>1 DEF NoFetch
    <3>2. CASE fetch[f].ok /\ ~Ended(f)
      <4>1. fetch'[f] = [fetch[f] EXCEPT !.pc = "reflect", !.ok = FALSE]
        BY <1>1, <2>3, <3>2 DEF MarkSeen
      <4>2. fetch'[f].msg = fetch[f].msg /\ fetch'[f].pc = "reflect"
        BY <1>0, <4>1 DEF Fetch
      <4>3. items[fetch[f].msg] > 0
        BY <2>3, <3>2 DEF ItemInHand, MarkSeen
      <4> QED BY <2>3, <4>2, <4>3 DEF MarkSeen
    <3>3. CASE ~fetch[f].ok /\ ~Ended(f)
      <4>1. fetch'[f] = [fetch[f] EXCEPT !.pc = "next", !.msg = NoMessage]
        BY <1>1, <2>3, <3>3 DEF MarkSeen
      <4> QED BY <1>0, <4>1 DEF Fetch
    <3> QED BY <3>1, <3>2, <3>3
  <2>4. CASE StartFetch(f)
    BY <1>1, <2>4 DEF StartFetch, NoFetch
  <2>5. ASSUME NEW msgs \in SUBSET Message, List(f, msgs)
        PROVE  fetch'[f].pc = "next"
    BY <1>0, <1>1, <2>5 DEF List, Fetch
  <2>6. ASSUME NEW m \in Message, Skip(f, m) \/ Take(f, m)
        PROVE  fetch'[f].pc \in {"next", "process"}
    BY <1>0, <1>1, <2>6 DEF Skip, Take, Fetch, At
  <2>7. CASE Reflect(f)
    <3>1. fetch'[f] = [fetch[f] EXCEPT !.pc = "next", !.msg = NoMessage]
      BY <1>1, <2>7 DEF Reflect
    <3>2. fetch'[f].pc = "next"
      BY <1>0, <3>1 DEF Fetch
    <3> QED BY <3>2
  <2>8. CASE Finish(f) \/ Abort(f)
    <3>1. fetch'[f] = NoFetch
      BY <1>1, <2>8 DEF Finish, Abort, Ended
    <3> QED BY <3>1 DEF NoFetch
  <2>9. CASE ConnectionLost(f)
    BY <2>9 DEF ConnectionLost
  <2> QED BY <2>1, <2>2, <2>3, <2>4, <2>5, <2>6, <2>7, <2>8, <2>9 DEF Work
<1>4. ItemInHand'
  <2>1. ASSUME NEW g \in Fetcher, fetch'[g] = fetch[g]
        PROVE  /\ At(g, "mark")' /\ fetch'[g].ok => items'[fetch'[g].msg] > 0
               /\ At(g, "reflect")' =>
                    fetch'[g].msg \in seen' /\ items'[fetch'[g].msg] > 0
    BY <1>2, <2>1 DEF ItemInHand, At, IType, HoldsMessage
  <2>2. \A g \in Fetcher \ {f} : fetch'[g] = fetch[g]
    BY <1>0 DEF OnlyBy
  <2> QED BY <1>3, <2>1, <2>2 DEF ItemInHand, At
<1> QED BY <1>0, <1>2, <1>4

LEMMA DriveStep ==
  ASSUME IDrive, [Next]_driveVars
  PROVE  IDrive' /\ [RouteNext]_routeVars
<1>0. /\ IType /\ place \in [Message -> Place] /\ ItemInHand /\ MovedIsProcessed
      /\ fetch \in [Fetcher -> Fetch] /\ items \in [Message -> Nat]
      /\ Root \subseteq Message
  BY DEF IDrive, IType, RouteTypeOK, Root
<1>1. CASE UNCHANGED driveVars
  BY <1>0, <1>1 DEF driveVars, routeVars, IDrive, IType, RouteTypeOK, HoldsMessage,
                    ItemInHand, MovedIsProcessed, At
<1>2. ASSUME NEW m \in Message, Upload(m)
      PROVE  IDrive' /\ UNCHANGED routeVars
  <2>1. place' \in [Message -> Place] /\ MovedIsProcessed'
    BY <1>0, <1>2 DEF Upload, Place, routeVars, MovedIsProcessed
  <2> QED BY <1>0, <1>2, <2>1 DEF Upload, routeVars, IDrive, IType, RouteTypeOK,
                                  HoldsMessage, ItemInHand, At
<1>3. ASSUME NEW f \in Fetcher,
             \/ StartFetch(f)
             \/ \E msgs \in SUBSET Message : List(f, msgs)
             \/ Work(f) \/ Reflect(f) \/ Abort(f) \/ ConnectionLost(f),
             \/ UNCHANGED place
             \/ At(f, "reflect") /\ place' = [place EXCEPT ![fetch[f].msg] = "moved"]
      PROVE  IDrive' /\ RouteNext
  <2>1. /\ IType' /\ ItemInHand'
        /\ seen \subseteq seen'
        /\ \A m \in Message : items[m] > 0 => items'[m] > 0
    BY <1>0, <1>3, RouteStepEffect
  <2>2. place' \in [Message -> Place]
    BY <1>0, <1>3 DEF Place
  <2>3. MovedIsProcessed'
    BY <1>0, <1>3, <2>1 DEF MovedIsProcessed, ItemInHand
  <2>4. RouteNext
    BY <1>3 DEF RouteNext
  <2> QED BY <2>1, <2>2, <2>3, <2>4 DEF IDrive
<1>4. ASSUME NEW f \in Fetcher, Run(f)
      PROVE  IDrive' /\ RouteNext
  <2>1. CASE ListFolder(f)
    <3>1. UNCHANGED place /\ \E msgs \in SUBSET Message : List(f, msgs)
      BY <1>0, <2>1 DEF ListFolder
    <3> QED BY <1>3, <3>1
  <2>2. CASE Work(f) /\ UNCHANGED place
    BY <1>3, <2>2
  <2>3. CASE MoveAway(f)
    BY <1>3, <2>3 DEF MoveAway, Reflect
  <2>4. CASE MoveFails(f)
    BY <1>3, <2>4 DEF MoveFails
  <2> QED BY <1>4, <2>1, <2>2, <2>3, <2>4 DEF Run
<1>5. CASE Next
  <2>1. ASSUME NEW f \in Fetcher,
               \/ (StartFetch(f) \/ Abort(f) \/ ConnectionLost(f)) /\ UNCHANGED place
               \/ MovedThenAborted(f)
        PROVE  IDrive' /\ RouteNext
    BY <1>3, <2>1 DEF MovedThenAborted
  <2> QED BY <1>2, <1>4, <1>5, <2>1 DEF Next
<1> QED BY <1>1, <1>5 DEF driveVars

LEMMA DriveInvariant == Spec => []IDrive
<1>1. Init => IDrive
  BY DriveInit
<1>2. IDrive /\ [Next]_driveVars => IDrive'
  BY DriveStep
<1> QED BY <1>1, <1>2, PTL DEF Spec

\* The watched folder and the fetches keep their types.
THEOREM DriveTypeCorrect == Spec => []TypeOK
<1>1. IDrive => TypeOK
  BY DEF IDrive, IType, TypeOK
<1> QED BY <1>1, DriveInvariant, PTL

\* DriveInbox is a provider as the fetch route takes it: every behaviour with Drive
\* is one of the abstract route.
THEOREM DriveImplementsRoute == Spec => RouteSpec
<1>1. Init => RouteInit
  BY DriveInit
<1>2. IDrive /\ [Next]_driveVars => [RouteNext]_routeVars
  BY DriveStep
<1> QED BY <1>1, <1>2, DriveInvariant, PTL DEF Spec, RouteSpec

\* With any number of overlapping fetches, crashes and errors, a file is moved out
\* of sight only after it has become an item and is marked as seen.
THEOREM MovedIsProcessedTheorem == Spec => []MovedIsProcessed
<1>1. IDrive => MovedIsProcessed
  BY DEF IDrive
<1> QED BY <1>1, DriveInvariant, PTL

\* With Drive, too: at most one item for a file plus one for each fault.
THEOREM DriveOneItemPerMessage == Spec => []OneItemPerMessage
BY DriveImplementsRoute, OneItemPerMessageTheorem, PTL
=============================================================================
