-------------------------- MODULE InboxFetchProofs --------------------------
(***************************************************************************)
(* Proofs about the fetch route, whatever the provider lists: for any      *)
(* messages, request threads and faults.                                   *)
(***************************************************************************)
EXTENDS InboxFetch, FiniteSetTheorems, TLAPS

\* A fetch that is past is_seen has a message in its hands, and will not take that
\* one again from its list.
HoldsMessage ==
    \A f \in Fetcher :
        fetch[f].pc \in {"process", "mark", "reflect"} =>
            fetch[f].msg \in Message \ fetch[f].todo

IType == RouteTypeOK /\ HoldsMessage

\* A message about to be marked has become an item or is in the log.
MarkedNext ==
    \A f \in Fetcher :
        At(f, "mark") => items[fetch[f].msg] > 0 \/ fetch[f].msg \in logged

ISafe == IType /\ NoLeakedLock /\ SeenIsProcessed /\ MarkedNext

\* The fetches that may still store an item for the message whatever is marked
\* from now on, or that have lost the lock and may yet come to it.
Makers(m) ==
    {f \in Fetcher :
        \/ At(f, "process") /\ fetch[f].msg = m
        \/ lock # f /\ (At(f, "list") \/ m \in fetch[f].todo)}

\* The one item that needs no fault has been made, or is being made: the message
\* is marked, or the fetch that has the lock is between is_seen and mark_seen.
Spent(m) ==
    \/ m \in seen
    \/ \E f \in Fetcher :
          lock = f /\ fetch[f].pc \in {"process", "mark"} /\ fetch[f].msg = m

One(p) == IF p THEN 1 ELSE 0

\* Every item, made or possible, is paid by a fault or is the one.
Paid(m) ==
    items[m] + Cardinality(Makers(m)) <= faults + One(Spent(m))

IPaid == ISafe /\ \A m \in Message : Paid(m)

-----------------------------------------------------------------------------
(* Types, the lock, and what a mark means *)

\* What any step leaves alone: the other fetches, and who of them has the lock.
OnlyBy(f) ==
    /\ fetch' = [fetch EXCEPT ![f] = fetch'[f]]
    /\ \A g \in Fetcher \ {f} : lock' = g <=> lock = g

LEMMA SafeInit == RouteInit => ISafe
BY FetchAssumption
   DEF RouteInit, ISafe, IType, RouteTypeOK, HoldsMessage, NoLeakedLock,
       SeenIsProcessed, MarkedNext, At, NoFetch, Fetch

LEMMA EndedEffect ==
  ASSUME IType, NEW f \in Fetcher, Ended(f)
  PROVE  /\ OnlyBy(f)
         /\ fetch'[f] = NoFetch
         /\ lock' \in {lock, NoFetcher} /\ lock' # f
BY FetchAssumption DEF IType, RouteTypeOK, Ended, Goto, OnlyBy

LEMMA TypeStep ==
  ASSUME IType, NEW f \in Fetcher,
         \/ StartFetch(f)
         \/ \E m \in Message : Drop(f, m)
         \/ \E msgs \in SUBSET Message : List(f, msgs)
         \/ ListRaises(f) \/ Work(f) \/ Reflect(f) \/ Abort(f) \/ ConnectionLost(f)
  PROVE  IType' /\ OnlyBy(f)
<1>0. /\ seen \subseteq Message /\ logged \subseteq Message
      /\ lock \in Fetcher \union {NoFetcher}
      /\ items \in [Message -> Nat]
      /\ fetch \in [Fetcher -> Fetch]
      /\ faults \in 0..MaxFaults /\ MaxFaults \in Nat
      /\ NoFetch \in Fetch /\ NoFetcher \notin Fetcher
      /\ HoldsMessage
  BY FetchAssumption DEF IType, RouteTypeOK, NoFetch, Fetch
<1>1. ASSUME seen' \subseteq Message, logged' \subseteq Message,
             lock' \in Fetcher \union {NoFetcher},
             items' \in [Message -> Nat], faults' \in 0..MaxFaults,
             NEW j \in Fetch, fetch' = [fetch EXCEPT ![f] = j],
             \A g \in Fetcher \ {f} : lock' = g <=> lock = g,
             j.pc \in {"process", "mark", "reflect"} => j.msg \in Message \ j.todo
      PROVE  IType' /\ OnlyBy(f)
  BY <1>0, <1>1 DEF IType, RouteTypeOK, HoldsMessage, OnlyBy
<1>2. Fault => faults' \in 0..MaxFaults
  BY <1>0 DEF Fault
<1>3. Ended(f) =>
        /\ fetch' = [fetch EXCEPT ![f] = NoFetch]
        /\ lock' \in Fetcher \union {NoFetcher}
        /\ \A g \in Fetcher \ {f} : lock' = g <=> lock = g
        /\ NoFetch.pc = "idle"
  BY <1>0 DEF Ended, Goto, NoFetch
<1>4. CASE StartFetch(f)
  <2>1. [NoFetch EXCEPT !.pc = "list"] \in Fetch
    BY DEF NoFetch, Fetch
  <2> QED BY <1>0, <1>1, <1>4, <2>1 DEF StartFetch, LockFree, Goto, NoFetch
<1>5. ASSUME NEW m \in Message, Drop(f, m)
      PROVE  IType' /\ OnlyBy(f)
  <2>1. /\ seen' \subseteq Message /\ logged' \subseteq Message /\ items' = items
    BY <1>0, <1>5 DEF Drop
  <2>2. CASE UNCHANGED <<lock, fetch, faults>>
    BY <1>0, <2>1, <2>2 DEF IType, RouteTypeOK, HoldsMessage, OnlyBy
  <2>3. CASE Ended(f) /\ Fault
    BY <1>0, <1>1, <1>2, <1>3, <2>1, <2>3
  <2> QED BY <1>5, <2>2, <2>3 DEF Drop
<1>6. ASSUME NEW msgs \in SUBSET Message, List(f, msgs)
      PROVE  IType' /\ OnlyBy(f)
  <2>1. /\ [fetch[f] EXCEPT !.pc = "next", !.todo = msgs] \in Fetch
        /\ [fetch[f] EXCEPT !.pc = "next", !.todo = msgs].pc = "next"
    BY <1>0 DEF Fetch
  <2> QED BY <1>0, <1>1, <1>2, <1>6, <2>1 DEF List, Goto, Handled
<1>7. ASSUME NEW m \in Message, Skip(f, m)
      PROVE  IType' /\ OnlyBy(f)
  <2>1. /\ [fetch[f] EXCEPT !.todo = @ \ {m}] \in Fetch
        /\ [fetch[f] EXCEPT !.todo = @ \ {m}].pc = "next"
    BY <1>0, <1>7 DEF Fetch, Skip, At
  <2> QED BY <1>0, <1>1, <1>7, <2>1 DEF Skip, Goto
<1>8. ASSUME NEW m \in Message, Take(f, m)
      PROVE  IType' /\ OnlyBy(f)
  <2> DEFINE j == [fetch[f] EXCEPT !.pc = "process", !.todo = @ \ {m}, !.msg = m]
  <2>1. j \in Fetch /\ j.msg \in Message \ j.todo
    BY <1>0 DEF Fetch
  <2> QED BY <1>0, <1>1, <1>8, <2>1 DEF Take, Goto
<1>9. CASE Ingest(f)
  <2> DEFINE j(b) == [fetch[f] EXCEPT !.pc = "mark", !.ok = b]
  <2>1. fetch[f].msg \in Message \ fetch[f].todo
    BY <1>0, <1>9 DEF Ingest, At, HoldsMessage
  <2>2. \A b \in BOOLEAN : j(b) \in Fetch /\ j(b).msg \in Message \ j(b).todo
    BY <1>0, <2>1 DEF Fetch
  <2>3. items' \in [Message -> Nat] /\ UNCHANGED <<seen, lock>>
    BY <1>0, <1>9, <2>1 DEF Ingest
  <2>4. CASE Goto(f, j(TRUE)) /\ UNCHANGED <<faults, logged>>
    BY <1>0, <1>1, <2>2, <2>3, <2>4 DEF Goto
  <2>5. CASE Goto(f, j(FALSE)) /\ logged' = logged \union {fetch[f].msg} /\ Fault
    BY <1>0, <1>1, <1>2, <2>1, <2>2, <2>3, <2>5 DEF Goto
  <2> QED BY <1>9, <2>4, <2>5 DEF Ingest
<1>10. CASE IngestRaises(f)
  <2> DEFINE j == [fetch[f] EXCEPT !.pc = "mark", !.ok = FALSE]
  <2>1. fetch[f].msg \in Message \ fetch[f].todo
    BY <1>0, <1>10 DEF IngestRaises, At, HoldsMessage
  <2>2. j \in Fetch /\ j.msg \in Message \ j.todo
    BY <1>0, <2>1 DEF Fetch
  <2>3. /\ UNCHANGED <<seen, lock, items>>
        /\ logged' \subseteq Message /\ faults' \in 0..MaxFaults
        /\ fetch' = [fetch EXCEPT ![f] = j]
    BY <1>0, <1>2, <1>10, <2>1 DEF IngestRaises, Goto
  <2> QED BY <1>0, <1>1, <2>2, <2>3
<1>11. CASE MarkSeen(f)
  <2> DEFINE j == IF fetch[f].ok
                  THEN [fetch[f] EXCEPT !.pc = "reflect", !.ok = FALSE]
                  ELSE [fetch[f] EXCEPT !.pc = "next", !.msg = NoMessage]
  <2>1. fetch[f].msg \in Message \ fetch[f].todo
    BY <1>0, <1>11 DEF MarkSeen, At, HoldsMessage
  <2>2. j \in Fetch /\ (j.pc = "next" \/ j.msg \in Message \ j.todo)
    BY <1>0, <2>1 DEF Fetch
  <2>3. seen' \subseteq Message /\ UNCHANGED <<items, logged>>
    BY <1>0, <1>11, <2>1 DEF MarkSeen
  <2>4. CASE Goto(f, j) /\ UNCHANGED <<lock, faults>>
    BY <1>0, <1>1, <2>2, <2>3, <2>4 DEF Goto
  <2>5. CASE Ended(f) /\ Fault
    BY <1>0, <1>1, <1>2, <1>3, <2>3, <2>5
  <2> QED BY <1>11, <2>4, <2>5 DEF MarkSeen
<1>12. CASE Reflect(f)
  <2> DEFINE j == [fetch[f] EXCEPT !.pc = "next", !.msg = NoMessage]
  <2>1. j \in Fetch /\ j.pc = "next"
    BY <1>0 DEF Fetch
  <2> QED BY <1>0, <1>1, <1>2, <1>12, <2>1 DEF Reflect, Goto, Handled
<1>13. CASE Finish(f) \/ ListRaises(f)
  BY <1>0, <1>1, <1>3, <1>13 DEF Finish, ListRaises
<1>14. CASE Abort(f)
  BY <1>0, <1>1, <1>2, <1>3, <1>14 DEF Abort
<1>15. CASE ConnectionLost(f)
  BY <1>0, <1>2, <1>15 DEF ConnectionLost, IType, RouteTypeOK, HoldsMessage, OnlyBy
<1> QED BY <1>4, <1>5, <1>6, <1>7, <1>8, <1>9, <1>10, <1>11, <1>12, <1>13, <1>14, <1>15 DEF Work

LEMMA IngestEffect ==
  ASSUME fetch \in [Fetcher -> Fetch], NEW f \in Fetcher, Ingest(f) \/ IngestRaises(f)
  PROVE  /\ fetch'[f].pc = "mark"
         /\ fetch'[f].msg = fetch[f].msg
         /\ fetch'[f].todo = fetch[f].todo
<1>1. \A b \in BOOLEAN :
        LET j == [fetch[f] EXCEPT !.pc = "mark", !.ok = b] IN
        j.pc = "mark" /\ j.msg = fetch[f].msg /\ j.todo = fetch[f].todo
  BY DEF Fetch
<1>2. \E b \in BOOLEAN : fetch'[f] = [fetch[f] EXCEPT !.pc = "mark", !.ok = b]
  <2>1. \A j : Goto(f, j) => fetch'[f] = j
    BY DEF Goto
  <2>2. CASE Ingest(f)
    <3>1. CASE Goto(f, [fetch[f] EXCEPT !.pc = "mark", !.ok = TRUE])
      BY <2>1, <3>1
    <3>2. CASE Goto(f, [fetch[f] EXCEPT !.pc = "mark", !.ok = FALSE])
      BY <2>1, <3>2
    <3> QED BY <2>2, <3>1, <3>2 DEF Ingest
  <2>3. CASE IngestRaises(f)
    BY <2>1, <2>3 DEF IngestRaises
  <2> QED BY <2>2, <2>3
<1> QED BY <1>1, <1>2

LEMMA MarkEffect ==
  ASSUME fetch \in [Fetcher -> Fetch], NEW f \in Fetcher, MarkSeen(f) \/ Reflect(f)
  PROVE  \/ Ended(f) /\ Fault
         \/ /\ fetch'[f].pc \in {"reflect", "next"}
            /\ fetch'[f].todo = fetch[f].todo
            /\ UNCHANGED lock /\ Handled
<1>1. LET j == [fetch[f] EXCEPT !.pc = "next", !.msg = NoMessage] IN
      j.pc = "next" /\ j.todo = fetch[f].todo
  BY DEF Fetch
<1>2. LET j == [fetch[f] EXCEPT !.pc = "reflect", !.ok = FALSE] IN
      j.pc = "reflect" /\ j.todo = fetch[f].todo
  BY DEF Fetch
<1>3. \A j : Goto(f, j) => fetch'[f] = j
  BY DEF Goto
<1>4. CASE Reflect(f)
  BY <1>1, <1>3, <1>4 DEF Reflect
<1>5. CASE MarkSeen(f)
  <2>1. CASE fetch[f].ok
    BY <1>2, <1>3, <1>5, <2>1 DEF MarkSeen, Handled
  <2>2. CASE ~fetch[f].ok
    BY <1>1, <1>3, <1>5, <2>2 DEF MarkSeen, Handled
  <2> QED BY <2>1, <2>2
<1> QED BY <1>4, <1>5

LEMMA SafeStep ==
  ASSUME ISafe, [RouteNext]_routeVars
  PROVE  ISafe'
<1>0. IType /\ NoLeakedLock /\ SeenIsProcessed /\ MarkedNext
  BY DEF ISafe
<1>1. CASE UNCHANGED routeVars
  BY <1>0, <1>1 DEF routeVars, ISafe, IType, RouteTypeOK, HoldsMessage, NoLeakedLock,
                    SeenIsProcessed, MarkedNext, At
<1>2. CASE RouteNext
  <2>1. PICK f \in Fetcher :
          \/ StartFetch(f)
          \/ \E m \in Message : Drop(f, m)
          \/ \E msgs \in SUBSET Message : List(f, msgs)
          \/ ListRaises(f) \/ Work(f) \/ Reflect(f) \/ Abort(f) \/ ConnectionLost(f)
    BY <1>2 DEF RouteNext
  <2>2. IType' /\ OnlyBy(f)
    BY <1>0, <2>1, TypeStep
  <2>3. /\ \A g \in Fetcher \ {f} : fetch'[g] = fetch[g] /\ (lock' = g <=> lock = g)
        /\ fetch \in [Fetcher -> Fetch] /\ items \in [Message -> Nat]
        /\ seen \subseteq Message
        /\ At(f, "process") \/ At(f, "mark") => fetch[f].msg \in Message
    BY <1>0, <2>2 DEF OnlyBy, IType, RouteTypeOK, HoldsMessage, At
  <2>4. NoLeakedLock'
    <3>1. lock' = f => ~At(f, "idle")'
      <4>1. Ended(f) => lock' # f
        BY <1>0, EndedEffect
      <4>2. At(f, "list") \/ At(f, "next") \/ At(f, "process") \/ At(f, "mark")
              \/ At(f, "reflect") => ~At(f, "idle")
        BY DEF At
      <4>3. ConnectionLost(f) => lock' # f
        BY FetchAssumption DEF ConnectionLost
      <4>4. fetch'[f].pc = "idle" => lock' # f \/ UNCHANGED <<fetch, lock>>
        <5>1. StartFetch(f) => fetch'[f].pc # "idle"
          BY <2>3 DEF StartFetch, Goto, NoFetch
        <5>2. ASSUME NEW m \in Message, Drop(f, m)
              PROVE  Ended(f) \/ UNCHANGED <<fetch, lock>>
          BY <5>2 DEF Drop
        <5>3. ASSUME NEW msgs, List(f, msgs)
              PROVE  fetch'[f].pc # "idle"
          BY <2>3, <5>3 DEF List, Goto, Fetch
        <5>4. ASSUME NEW m, Skip(f, m) \/ Take(f, m)
              PROVE  fetch'[f].pc # "idle"
          BY <2>3, <5>4 DEF Skip, Take, Goto, Fetch, At
        <5>5. Ingest(f) \/ IngestRaises(f) => fetch'[f].pc # "idle"
          BY <2>3, IngestEffect
        <5>6. MarkSeen(f) \/ Reflect(f) => Ended(f) \/ fetch'[f].pc # "idle"
          BY <2>3, MarkEffect
        <5>7. Finish(f) \/ Abort(f) \/ ListRaises(f) => Ended(f)
          BY DEF Finish, Abort, ListRaises
        <5> QED BY <2>1, <4>1, <4>3, <5>1, <5>2, <5>3, <5>4, <5>5, <5>6, <5>7 DEF Work
      <4> QED BY <1>0, <4>4 DEF NoLeakedLock, At
    <3> QED BY <1>0, <2>3, <3>1 DEF NoLeakedLock, At
  <2>5. /\ \A m \in Message : items[m] > 0 => items'[m] > 0
        /\ logged \subseteq logged'
    <3>1. CASE Ingest(f)
      BY <2>3, <3>1 DEF Ingest
    <3>2. CASE ~Ingest(f)
      BY <2>1, <3>2
         DEF StartFetch, Drop, List, ListRaises, Work, Skip, Take, IngestRaises,
             MarkSeen, Reflect, Finish, Abort, ConnectionLost
    <3> QED BY <3>1, <3>2
  <2>6. SeenIsProcessed'
    <3>1. \A m \in seen' \ seen : items[m] > 0 \/ m \in logged'
      BY <1>0, <2>1, <2>3
         DEF StartFetch, Drop, List, ListRaises, Work, Skip, Take, Ingest,
             IngestRaises, MarkSeen, Reflect, Finish, Abort, ConnectionLost, MarkedNext
    <3>2. seen' \subseteq Message
      BY <2>2 DEF IType, RouteTypeOK
    <3> QED BY <1>0, <2>5, <3>1, <3>2 DEF SeenIsProcessed
  <2>7. MarkedNext'
    <3>1. fetch'[f].pc = "mark" =>
            \/ fetch'[f] = fetch[f]
            \/ items'[fetch'[f].msg] > 0
            \/ fetch'[f].msg \in logged'
      <4>1. CASE Ingest(f)
        <5>1. fetch'[f].msg = fetch[f].msg
          BY <2>3, <4>1 DEF Ingest, Goto, Fetch
        <5> QED BY <2>3, <4>1, <5>1 DEF Ingest
      <4>2. CASE IngestRaises(f)
        <5>1. fetch'[f].msg = fetch[f].msg
          BY <2>3, <4>2 DEF IngestRaises, Goto, Fetch
        <5> QED BY <4>2, <5>1 DEF IngestRaises
      <4>3. StartFetch(f) => fetch'[f].pc # "mark"
        BY <2>3 DEF StartFetch, Goto, NoFetch
      <4>4. Ended(f) => fetch'[f].pc # "mark"
        BY <1>0, EndedEffect DEF NoFetch
      <4>5. ASSUME NEW msgs, List(f, msgs)
            PROVE  fetch'[f].pc # "mark"
        BY <2>3, <4>5 DEF List, Goto, Fetch
      <4>6. ASSUME NEW m, Skip(f, m) \/ Take(f, m)
            PROVE  fetch'[f].pc # "mark"
        BY <2>3, <4>6 DEF Skip, Take, Goto, Fetch, At
      <4>7. MarkSeen(f) \/ Reflect(f) => Ended(f) \/ fetch'[f].pc # "mark"
        BY <2>3, MarkEffect
      <4>8. Finish(f) \/ Abort(f) \/ ListRaises(f) => Ended(f)
        BY DEF Finish, Abort, ListRaises
      <4>9. (\E m \in Message : Drop(f, m)) \/ ConnectionLost(f)
              => Ended(f) \/ fetch' = fetch
        BY DEF Drop, ConnectionLost
      <4> QED BY <2>1, <4>1, <4>2, <4>3, <4>4, <4>5, <4>6, <4>7, <4>8, <4>9 DEF Work
    <3>2. \A g \in Fetcher : fetch'[g] = fetch[g] /\ fetch'[g].pc = "mark" =>
            items'[fetch'[g].msg] > 0 \/ fetch'[g].msg \in logged'
      BY <1>0, <2>5 DEF MarkedNext, At, IType, HoldsMessage
    <3> QED BY <2>3, <3>1, <3>2 DEF MarkedNext, At
  <2> QED BY <2>2, <2>4, <2>6, <2>7 DEF ISafe
<1> QED BY <1>1, <1>2

\* Any step of the route keeps the declared types.
THEOREM RouteTypeCorrect == RouteSpec => []RouteTypeOK
<1>1. ISafe => RouteTypeOK
  BY DEF ISafe, IType
<1> QED BY <1>1, SafeInit, SafeStep, PTL DEF RouteSpec

\* The lock is always held by a fetch that runs, through errors, crashes and lost
\* connections: nothing leaves it behind (inbox_fetch_lock).
THEOREM NoLeakedLockTheorem == RouteSpec => []NoLeakedLock
<1>1. ISafe => NoLeakedLock
  BY DEF ISafe
<1> QED BY <1>1, SafeInit, SafeStep, PTL DEF RouteSpec

\* Every message marked as seen has become an item or is in the log, whatever the
\* provider lists and drops, with any number of overlapping fetches.
THEOREM SeenIsProcessedTheorem == RouteSpec => []SeenIsProcessed
<1>1. ISafe => SeenIsProcessed
  BY DEF ISafe
<1> QED BY <1>1, SafeInit, SafeStep, PTL DEF RouteSpec

-----------------------------------------------------------------------------
(* How many items one message can become *)

LEMMA PaidInit == RouteInit => IPaid
<1> SUFFICES ASSUME RouteInit PROVE IPaid
  OBVIOUS
<1>1. ISafe
  BY SafeInit
<1>2. ASSUME NEW m \in Message PROVE Paid(m)
  <2>1. Makers(m) = {}
    BY DEF RouteInit, Makers, At, NoFetch
  <2>2. Cardinality(Makers(m)) = 0
    BY <2>1, FS_EmptySet
  <2>3. items[m] = 0 /\ faults = 0
    BY DEF RouteInit
  <2> QED BY <2>2, <2>3 DEF Paid, One
<1> QED BY <1>1, <1>2 DEF IPaid

LEMMA SameButOne ==
  ASSUME NEW S, NEW T, NEW x, IsFiniteSet(S), IsFiniteSet(T), S \ {x} = T \ {x}
  PROVE  Cardinality(T) = Cardinality(S) + One(x \in T) - One(x \in S)
<1>1. Cardinality(S) \in Nat /\ Cardinality(T) \in Nat
  BY FS_CardinalityType
<1>2. Cardinality(S \ {x}) = IF x \in S THEN Cardinality(S) - 1 ELSE Cardinality(S)
  BY FS_RemoveElement
<1>3. Cardinality(T \ {x}) = IF x \in T THEN Cardinality(T) - 1 ELSE Cardinality(T)
  BY FS_RemoveElement
<1>4. (IF x \in S THEN Cardinality(S) - 1 ELSE Cardinality(S))
        = (IF x \in T THEN Cardinality(T) - 1 ELSE Cardinality(T))
  BY <1>2, <1>3
<1>5. CASE x \in S /\ x \in T
  BY <1>1, <1>4, <1>5 DEF One
<1>6. CASE x \in S /\ x \notin T
  BY <1>1, <1>4, <1>6 DEF One
<1>7. CASE x \notin S /\ x \in T
  BY <1>1, <1>4, <1>7 DEF One
<1>8. CASE x \notin S /\ x \notin T
  BY <1>1, <1>4, <1>8 DEF One
<1> QED BY <1>5, <1>6, <1>7, <1>8

\* A step of one fetch adds or removes that fetch alone.
LEMMA MakersChange ==
  ASSUME IType, NEW f \in Fetcher, OnlyBy(f), NEW m
  PROVE  /\ Cardinality(Makers(m)) \in Nat
         /\ Cardinality(Makers(m)') \in Nat
         /\ Cardinality(Makers(m)') =
               Cardinality(Makers(m)) + One(f \in Makers(m)') - One(f \in Makers(m))
<1>1. \A g \in Fetcher \ {f} : g \in Makers(m) <=> g \in Makers(m)'
  BY DEF OnlyBy, IType, RouteTypeOK, Makers, At
<1>2. Makers(m) \subseteq Fetcher /\ Makers(m)' \subseteq Fetcher
  BY DEF Makers
<1>3. IsFiniteSet(Makers(m)) /\ IsFiniteSet(Makers(m)')
  BY <1>2, FetchAssumption, FS_Subset
<1>4. Makers(m) \ {f} = Makers(m)' \ {f}
  BY <1>1, <1>2
<1>5. /\ Cardinality(Makers(m)) \in Nat
      /\ Cardinality(Makers(m)') \in Nat
  BY <1>3, FS_CardinalityType
<1> QED BY <1>3, <1>4, <1>5, SameButOne

\* It is enough to balance what the step adds against what pays for it.
LEMMA Balance ==
  ASSUME IPaid, IType', NEW f \in Fetcher, OnlyBy(f), NEW m \in Message,
         items'[m] + One(f \in Makers(m)') + One(Spent(m)) + faults
           <= items[m] + One(f \in Makers(m)) + One(Spent(m)') + faults'
  PROVE  Paid(m)'
<1>1. /\ items[m] \in Nat /\ items'[m] \in Nat
      /\ faults \in Nat /\ faults' \in Nat
  BY FetchAssumption DEF IPaid, ISafe, IType, RouteTypeOK
<1>2. /\ Cardinality(Makers(m)) \in Nat
      /\ Cardinality(Makers(m)') \in Nat
      /\ Cardinality(Makers(m)') =
            Cardinality(Makers(m)) + One(f \in Makers(m)') - One(f \in Makers(m))
  BY MakersChange DEF IPaid, ISafe
<1>3. \A p \in BOOLEAN : One(p) \in 0..1
  BY DEF One
<1>4. items[m] + Cardinality(Makers(m)) <= faults + One(Spent(m))
  BY DEF IPaid, Paid
<1>5. /\ One(f \in Makers(m)) \in 0..1 /\ One(f \in Makers(m)') \in 0..1
      /\ One(Spent(m)) \in 0..1 /\ One(Spent(m)') \in 0..1
  BY DEF One
<1>6. items'[m] + Cardinality(Makers(m)') <= faults' + One(Spent(m)')
  BY <1>1, <1>2, <1>4, <1>5
<1> QED BY <1>6 DEF Paid

\* A fetch that ends has nothing more to make.
LEMMA EndedMakesNothing ==
  ASSUME IType, NEW f \in Fetcher, fetch'[f] = NoFetch, NEW m
  PROVE  f \notin Makers(m)'
BY DEF Makers, At, NoFetch

\* The steps that make no item and spend nothing: what may be made shrinks.
LEMMA QuietStep ==
  ASSUME IPaid, IType', NEW f \in Fetcher, OnlyBy(f), NEW m \in Message,
         items'[m] = items[m],
         f \in Makers(m)' => f \in Makers(m),
         Spent(m) => Spent(m)',
         faults <= faults'
  PROVE  Paid(m)'
<1>1. items[m] \in Nat /\ faults \in Nat /\ faults' \in Nat
  BY FetchAssumption DEF IPaid, ISafe, IType, RouteTypeOK
<1>2. /\ One(f \in Makers(m)') <= One(f \in Makers(m))
      /\ One(Spent(m)) <= One(Spent(m)')
      /\ One(f \in Makers(m)) \in 0..1 /\ One(f \in Makers(m)') \in 0..1
      /\ One(Spent(m)) \in 0..1 /\ One(Spent(m)') \in 0..1
  BY DEF One
<1>3. items'[m] + One(f \in Makers(m)') + One(Spent(m)) + faults
        <= items[m] + One(f \in Makers(m)) + One(Spent(m)') + faults'
  BY <1>1, <1>2
<1> QED BY <1>3, Balance

\* A fault pays for what a fetch that ends had spent.
LEMMA EndedByFault ==
  ASSUME IPaid, IType', NEW f \in Fetcher, Ended(f), Fault, NEW m \in Message,
         items'[m] = items[m]
  PROVE  Paid(m)'
<1>1. /\ items[m] \in Nat /\ faults \in Nat /\ faults' = faults + 1
      /\ OnlyBy(f) /\ f \notin Makers(m)'
  BY FetchAssumption, EndedEffect, EndedMakesNothing
     DEF IPaid, ISafe, IType, RouteTypeOK, Fault
<1>2. /\ One(f \in Makers(m)') = 0
      /\ One(f \in Makers(m)) \in 0..1
      /\ One(Spent(m)) \in 0..1 /\ One(Spent(m)') \in 0..1
  BY <1>1 DEF One
<1>3. items'[m] + One(f \in Makers(m)') + One(Spent(m)) + faults
        <= items[m] + One(f \in Makers(m)) + One(Spent(m)') + faults'
  BY <1>1, <1>2
<1> QED BY <1>1, <1>3, Balance

LEMMA PaidStep ==
  ASSUME IPaid, [RouteNext]_routeVars
  PROVE  IPaid'
<1>0. ISafe' /\ ISafe /\ IType /\ IType'
  BY SafeStep DEF IPaid, ISafe
<1> SUFFICES ASSUME NEW m \in Message PROVE Paid(m)'
  BY <1>0 DEF IPaid
<1>1. CASE UNCHANGED routeVars
  <2>1. Makers(m)' = Makers(m) /\ Spent(m)' = Spent(m)
    BY <1>1 DEF routeVars, Makers, Spent, At
  <2>2. UNCHANGED <<items, faults>> /\ Paid(m)
    BY <1>1 DEF routeVars, IPaid
  <2> QED BY <2>1, <2>2 DEF Paid
<1>2. CASE RouteNext
  <2>1. PICK f \in Fetcher :
          \/ StartFetch(f)
          \/ \E x \in Message : Drop(f, x)
          \/ \E msgs \in SUBSET Message : List(f, msgs)
          \/ ListRaises(f) \/ Work(f) \/ Reflect(f) \/ Abort(f) \/ ConnectionLost(f)
    BY <1>2 DEF RouteNext
  <2>2. OnlyBy(f)
    BY <1>0, <2>1, TypeStep
  <2>3. /\ \A g \in Fetcher \ {f} : fetch'[g] = fetch[g] /\ (lock' = g <=> lock = g)
        /\ fetch \in [Fetcher -> Fetch] /\ items \in [Message -> Nat]
        /\ faults \in Nat /\ items[m] \in Nat
        /\ lock \in Fetcher \union {NoFetcher}
        /\ fetch[f].pc \in {"process", "mark", "reflect"} =>
              fetch[f].msg \in Message \ fetch[f].todo
        /\ NoFetcher \notin Fetcher
    BY <1>0, <2>2, FetchAssumption DEF OnlyBy, IType, RouteTypeOK, HoldsMessage
  <2>q. ASSUME items'[m] = items[m], f \in Makers(m)' => f \in Makers(m),
               Spent(m) => Spent(m)', faults <= faults'
        PROVE  Paid(m)'
    BY <1>0, <2>2, <2>q, QuietStep
  <2>e. ASSUME Ended(f), Fault, items'[m] = items[m]
        PROVE  Paid(m)'
    BY <1>0, <2>e, EndedByFault
  <2>m. /\ f \in Makers(m) <=>
              \/ fetch[f].pc = "process" /\ fetch[f].msg = m
              \/ lock # f /\ (fetch[f].pc = "list" \/ m \in fetch[f].todo)
        /\ f \in Makers(m)' <=>
              \/ fetch'[f].pc = "process" /\ fetch'[f].msg = m
              \/ lock' # f /\ (fetch'[f].pc = "list" \/ m \in fetch'[f].todo)
    BY DEF Makers, At
  \* Only f's own part of Spent can change, and the mark.
  <2>s. ASSUME seen \subseteq seen',
               lock = f /\ fetch[f].pc \in {"process", "mark"} /\ fetch[f].msg = m
                 => Spent(m)'
        PROVE  Spent(m) => Spent(m)'
    BY <2>3, <2>s DEF Spent
  <2>4. CASE StartFetch(f)
    <3>1. fetch'[f] = [NoFetch EXCEPT !.pc = "list"] /\ lock' = f
      BY <2>3, <2>4 DEF StartFetch, Goto
    <3>2. f \notin Makers(m)'
      BY <2>m, <3>1 DEF NoFetch
    <3>3. lock # f /\ UNCHANGED <<seen, items, faults>>
      BY <2>3, <2>4 DEF StartFetch, LockFree
    <3> QED BY <2>3, <2>q, <2>s, <3>2, <3>3
  <2>5. ASSUME NEW x \in Message, Drop(f, x)
        PROVE  Paid(m)'
    <3>1. seen \subseteq seen' /\ items' = items
      BY <2>5 DEF Drop
    <3>2. CASE UNCHANGED <<lock, fetch, faults>>
      BY <2>3, <2>m, <2>q, <3>1, <3>2 DEF Spent
    <3>3. CASE Ended(f) /\ Fault
      BY <2>e, <3>1, <3>3
    <3> QED BY <2>5, <3>2, <3>3 DEF Drop
  <2>6. ASSUME NEW msgs \in SUBSET Message, List(f, msgs)
        PROVE  Paid(m)'
    <3>1. /\ fetch[f].pc = "list" /\ fetch'[f].pc = "next"
          /\ UNCHANGED <<seen, lock, items>> /\ faults <= faults'
      BY <2>3, <2>6 DEF List, Goto, At, Fetch, Handled, Fault
    <3> QED BY <2>3, <2>m, <2>q, <2>s, <3>1
  <2>7. ASSUME NEW x \in Message, Skip(f, x)
        PROVE  Paid(m)'
    <3>1. /\ fetch[f].pc = "next" /\ fetch'[f].pc = "next"
          /\ fetch'[f].todo \subseteq fetch[f].todo
          /\ UNCHANGED <<seen, lock, items, faults>>
      BY <2>3, <2>7 DEF Skip, Goto, At, Fetch
    <3> QED BY <2>3, <2>m, <2>q, <2>s, <3>1
  <2>8. ASSUME NEW x \in Message, Take(f, x)
        PROVE  Paid(m)'
    <3>1. /\ fetch[f].pc = "next" /\ fetch'[f].pc = "process"
          /\ fetch'[f].todo \subseteq fetch[f].todo
          /\ fetch'[f].msg = x /\ x \in fetch[f].todo /\ x \notin seen
          /\ UNCHANGED <<seen, lock, items, faults>>
      BY <2>3, <2>8 DEF Take, Goto, At, Fetch
    <3>2. CASE lock # f \/ x # m
      BY <2>3, <2>m, <2>q, <2>s, <3>1, <3>2
    <3>3. CASE lock = f /\ x = m
      <4>1. ~Spent(m) /\ f \notin Makers(m)
        BY <2>m, <3>1, <3>3 DEF Spent
      <4>2. Spent(m)'
        BY <3>1, <3>3 DEF Spent
      <4>3. /\ One(Spent(m)) = 0 /\ One(f \in Makers(m)) = 0
            /\ One(Spent(m)') = 1 /\ One(f \in Makers(m)') \in 0..1
        BY <4>1, <4>2 DEF One
      <4>4. items'[m] + One(f \in Makers(m)') + One(Spent(m)) + faults
              <= items[m] + One(f \in Makers(m)) + One(Spent(m)') + faults'
        BY <2>3, <3>1, <4>3
      <4> QED BY <1>0, <2>2, <4>4, Balance
    <3> QED BY <3>2, <3>3
  <2>9. CASE Ingest(f) \/ IngestRaises(f)
    <3>1. /\ fetch[f].pc = "process" /\ fetch'[f].pc = "mark"
          /\ fetch'[f].msg = fetch[f].msg /\ fetch'[f].todo = fetch[f].todo
          /\ UNCHANGED <<seen, lock>>
      BY <2>3, <2>9, IngestEffect DEF Ingest, IngestRaises, At
    <3>2. faults <= faults' /\ faults' \in Nat
      BY <2>3, <2>9 DEF Ingest, IngestRaises, Fault
    <3>3. Spent(m) => Spent(m)'
      BY <2>s, <3>1 DEF Spent
    <3>4. CASE items'[m] = items[m]
      BY <2>m, <2>q, <3>1, <3>2, <3>3, <3>4
    <3>5. CASE items'[m] # items[m]
      <4>1. fetch[f].msg = m /\ items'[m] = items[m] + 1
        BY <2>3, <2>9, <3>1, <3>5 DEF Ingest, IngestRaises
      <4>2. f \in Makers(m) /\ f \notin Makers(m)'
        BY <2>3, <2>m, <3>1, <4>1
      <4>3. /\ One(f \in Makers(m)) = 1 /\ One(f \in Makers(m)') = 0
            /\ One(Spent(m)) <= One(Spent(m)')
            /\ One(Spent(m)) \in 0..1 /\ One(Spent(m)') \in 0..1
        BY <3>3, <4>2 DEF One
      <4>4. items'[m] + One(f \in Makers(m)') + One(Spent(m)) + faults
              <= items[m] + One(f \in Makers(m)) + One(Spent(m)') + faults'
        BY <2>3, <3>2, <4>1, <4>3
      <4> QED BY <1>0, <2>2, <4>4, Balance
    <3> QED BY <3>4, <3>5
  <2>10. CASE MarkSeen(f)
    <3>1. /\ fetch[f].pc = "mark" /\ items' = items
          /\ seen' = seen \union {fetch[f].msg}
      BY <2>10 DEF MarkSeen, At
    <3>2. CASE Ended(f) /\ Fault
      BY <2>e, <3>1, <3>2
    <3>3. CASE /\ fetch'[f].pc \in {"reflect", "next"}
               /\ fetch'[f].todo = fetch[f].todo
               /\ UNCHANGED lock /\ Handled
      <4>0. faults <= faults'
        BY <2>3, <3>3 DEF Handled, Fault
      <4>1. fetch[f].msg = m => Spent(m)'
        BY <3>1 DEF Spent
      <4> QED BY <2>3, <2>m, <2>q, <2>s, <3>1, <3>3, <4>0, <4>1
    <3> QED BY <2>3, <2>10, <3>2, <3>3, MarkEffect
  <2>11. CASE Reflect(f)
    <3>1. /\ fetch[f].pc = "reflect" /\ fetch'[f].pc = "next"
          /\ fetch'[f].todo = fetch[f].todo
          /\ UNCHANGED <<seen, lock, items>> /\ faults <= faults'
      BY <2>3, <2>11 DEF Reflect, Goto, At, Fetch, Handled, Fault
    <3> QED BY <2>3, <2>m, <2>q, <2>s, <3>1
  <2>12. CASE Finish(f) \/ ListRaises(f)
    <3>1. /\ fetch[f].pc \in {"next", "list"} /\ fetch'[f] = NoFetch
          /\ UNCHANGED <<seen, items, faults>>
      BY <2>3, <2>12 DEF Finish, ListRaises, Ended, Goto, At
    <3>2. f \notin Makers(m)'
      BY <1>0, <3>1, EndedMakesNothing
    <3> QED BY <2>3, <2>q, <2>s, <3>1, <3>2
  <2>13. CASE Abort(f)
    BY <2>e, <2>13 DEF Abort
  <2>14. CASE ConnectionLost(f)
    <3>1. /\ lock = f /\ lock' = NoFetcher /\ fetch' = fetch
          /\ UNCHANGED <<seen, items>> /\ faults' = faults + 1
      BY <2>14 DEF ConnectionLost, Fault
    <3>2. CASE fetch[f].pc \in {"process", "mark"} /\ fetch[f].msg = m
      <4>1. f \in Makers(m)' => f \in Makers(m)
        BY <2>3, <2>m, <3>1, <3>2
      <4>2. /\ One(f \in Makers(m)') <= One(f \in Makers(m))
            /\ One(f \in Makers(m)) \in 0..1 /\ One(f \in Makers(m)') \in 0..1
            /\ One(Spent(m)) \in 0..1 /\ One(Spent(m)') \in 0..1
        BY <4>1 DEF One
      <4>3. items'[m] + One(f \in Makers(m)') + One(Spent(m)) + faults
              <= items[m] + One(f \in Makers(m)) + One(Spent(m)') + faults'
        BY <2>3, <3>1, <4>2
      <4> QED BY <1>0, <2>2, <4>3, Balance
    <3>3. CASE ~(fetch[f].pc \in {"process", "mark"} /\ fetch[f].msg = m)
      <4>1. Spent(m) => Spent(m)'
        BY <2>s, <3>1, <3>3
      <4>2. /\ One(Spent(m)) <= One(Spent(m)')
            /\ One(f \in Makers(m)) \in 0..1 /\ One(f \in Makers(m)') \in 0..1
            /\ One(Spent(m)) \in 0..1 /\ One(Spent(m)') \in 0..1
        BY <4>1 DEF One
      <4>3. items'[m] + One(f \in Makers(m)') + One(Spent(m)) + faults
              <= items[m] + One(f \in Makers(m)) + One(Spent(m)') + faults'
        BY <2>3, <3>1, <4>2
      <4> QED BY <1>0, <2>2, <4>3, Balance
    <3> QED BY <3>2, <3>3
  <2> QED BY <2>1, <2>4, <2>5, <2>6, <2>7, <2>8, <2>9, <2>10, <2>11, <2>12, <2>13, <2>14
          DEF Work
<1> QED BY <1>1, <1>2

\* One message becomes one item, and each fault - a crash before mark_seen, a lock
\* lost with its connection - adds at most one more: for any provider, any number
\* of overlapping fetches and any number of faults.
THEOREM OneItemPerMessageTheorem == RouteSpec => []OneItemPerMessage
<1>1. IPaid => OneItemPerMessage
  <2> SUFFICES ASSUME IPaid, NEW m \in Message PROVE items[m] <= 1 + faults
    BY DEF OneItemPerMessage
  <2>1. /\ items[m] \in Nat /\ faults \in Nat
        /\ items[m] + Cardinality(Makers(m)) <= faults + One(Spent(m))
    BY FetchAssumption DEF IPaid, ISafe, IType, RouteTypeOK, Paid
  <2>2. Makers(m) \subseteq Fetcher
    BY DEF Makers
  <2>3. Cardinality(Makers(m)) \in Nat
    BY <2>2, FetchAssumption, FS_Subset, FS_CardinalityType
  <2>4. One(Spent(m)) \in 0..1
    BY DEF One
  <2> QED BY <2>1, <2>3, <2>4
<1> QED BY <1>1, PaidInit, PaidStep, PTL DEF RouteSpec
=============================================================================
