-------------------------- MODULE GmailInboxProofs --------------------------
(***************************************************************************)
(* The Gmail provider implements the abstract fetch route, so that what    *)
(* was proved of the route with any provider holds with this one; and,     *)
(* while nothing fails, the stored history id covers no mail that is       *)
(* neither seen nor in the hands of a fetch.                               *)
(***************************************************************************)
EXTENDS GmailInbox, InboxFetchProofs

LEMMA MailIsMessages ==
  ASSUME box \in Seq(Message), NEW from \in Nat, NEW to \in Nat, to <= Len(box)
  PROVE  Mail(from, to) \subseteq Message
BY DEF Mail

LEMMA ArrivedIsMessages ==
  ASSUME box \in Seq(Message)
  PROVE  Arrived \subseteq Message
<1>1. Len(box) \in Nat
  BY DEF TypeOK
<1> QED BY <1>1, MailIsMessages DEF Arrived

LEMMA GmailInit == Init => TypeOK /\ RouteInit
<1> SUFFICES ASSUME Init PROVE TypeOK /\ RouteInit
  OBVIOUS
<1>1. RouteTypeOK
  BY SafeInit DEF Init, ISafe, IType
<1>2. NoSync \in Sync
  BY DEF NoSync, Sync, Cursor
<1> QED BY <1>1, <1>2 DEF Init, TypeOK, Cursor

\* One fetch's record of its listing changes, the mailbox and the history id do not.
LEMMA SyncType ==
  ASSUME TypeOK, RouteTypeOK', NEW f \in Fetcher, NEW s \in Sync,
         sync' = [sync EXCEPT ![f] = s], UNCHANGED mailbox,
         cursor' \in Cursor, passed' \subseteq Message
  PROVE  TypeOK'
BY DEF TypeOK, mailbox

\* Every step of fetch_messages is a step of the route or changes nothing of it.
LEMMA SyncStepImplements ==
  ASSUME TypeOK, NEW f \in Fetcher, SyncStep(f)
  PROVE  /\ TypeOK'
         /\ \/ UNCHANGED routeVars
            \/ \E m \in Message : Drop(f, m)
            \/ \E msgs \in SUBSET Message : List(f, msgs)
            \/ ListRaises(f) \/ Abort(f)
<1>0. /\ sync \in [Fetcher -> Sync] /\ sync[f] \in Sync /\ NoSync \in Sync
      /\ box \in Seq(Message) /\ Len(box) \in Nat
      /\ cursor \in Cursor /\ passed \subseteq Message /\ RouteTypeOK
      /\ HistoryPage \in Nat /\ Arrived \subseteq Message
  BY GmailAssumption, ArrivedIsMessages DEF TypeOK, NoSync, Sync, Cursor
<1>r. UNCHANGED routeVars => RouteTypeOK'
  BY <1>0 DEF routeVars, RouteTypeOK
<1>l. ASSUME NEW s \in Sync, NEW missed \in SUBSET Message, Listed(f, s, missed)
      PROVE  TypeOK' /\ UNCHANGED routeVars
  BY <1>0, <1>r, <1>l, SyncType DEF Listed
<1>s. ASSUME NEW m \in Message, NEW got \in SUBSET Message, Screened(f, m, got)
      PROVE  \E s \in Sync : sync' = [sync EXCEPT ![f] = s]
  <2>1. [sync[f] EXCEPT !.cand = @ \ {m}, !.got = @ \union got] \in Sync
    BY <1>0 DEF Sync
  <2> QED BY <1>0, <1>s, <2>1 DEF Screened
<1>1. CASE Backfill(f)
  <2>1. [NoSync EXCEPT !.at = "probe", !.cand = Arrived] \in Sync
    BY <1>0 DEF NoSync, Sync
  <2> QED BY <1>1, <1>l, <2>1 DEF Backfill
<1>2. CASE Incremental(f)
  <2>1. cursor \in Nat
    BY <1>0, <1>2 DEF Incremental, Cursor
  <2> DEFINE to == IF Len(box) < cursor + HistoryPage THEN Len(box) ELSE cursor + HistoryPage
  <2>2. to \in Nat /\ to <= Len(box)
    BY <1>0, <2>1
  <2>3. Delta(cursor) \subseteq Message
    BY <1>0, <2>1, <2>2, MailIsMessages DEF Delta
  <2>4. Mail(cursor, Len(box)) \subseteq Message
    BY <1>0, <2>1, MailIsMessages
  <2>5. [at |-> "screen", cand |-> Delta(cursor), got |-> {}, new |-> Len(box)] \in Sync
    BY <1>0, <2>3 DEF Sync, Cursor
  <2> QED BY <1>2, <1>l, <2>3, <2>4, <2>5 DEF Incremental
<1>3. CASE Bootstrap(f)
  <2>1. /\ [sync[f] EXCEPT !.at = "screen"] \in Sync
        /\ [sync[f] EXCEPT !.at = "screen", !.new = Len(box)] \in Sync
        /\ Arrived \ sync[f].cand \in SUBSET Message
    BY <1>0 DEF Sync, Cursor
  <2> QED BY <1>3, <1>l, <2>1 DEF Bootstrap
<1>4. ASSUME NEW m \in Message, Keep(f, m)
      PROVE  TypeOK' /\ UNCHANGED routeVars
  <2>1. \E s \in Sync : sync' = [sync EXCEPT ![f] = s]
    <3>1. CASE m \in seen
      BY <1>4, <1>s, <3>1 DEF Keep
    <3>2. CASE m \notin seen
      BY <1>4, <1>s, <3>2 DEF Keep
    <3> QED BY <3>1, <3>2
  <2> QED BY <1>0, <1>4, <1>r, <2>1, SyncType DEF Keep
<1>5. ASSUME NEW m \in Message, SkipUnreadable(f, m)
      PROVE  TypeOK' /\ UNCHANGED routeVars
  <2>1. \E s \in Sync : sync' = [sync EXCEPT ![f] = s]
    BY <1>5, <1>s DEF SkipUnreadable
  <2> QED BY <1>0, <1>5, <1>r, <2>1, SyncType DEF SkipUnreadable
<1>6. ASSUME NEW m \in Message, DropNonReceipt(f, m)
      PROVE  TypeOK' /\ Drop(f, m)
  <2>1. Drop(f, m)
    BY <1>6 DEF DropNonReceipt, Drop, SyncAt, MayDrop
  <2>2. \E s \in Sync : sync' = [sync EXCEPT ![f] = s]
    BY <1>0, <1>6, <1>s DEF DropNonReceipt
  <2>3. RouteTypeOK'
    <3>1. seen' \subseteq Message /\ logged' \subseteq Message /\ items' = items
      BY <1>0, <2>1 DEF Drop, RouteTypeOK
    <3>2. CASE UNCHANGED <<lock, fetch, faults>>
      BY <1>0, <3>1, <3>2 DEF RouteTypeOK
    <3>3. CASE Ended(f) /\ Fault
      BY <1>0, <3>1, <3>3, FetchAssumption DEF Ended, Goto, Fault, NoFetch, Fetch, RouteTypeOK
    <3> QED BY <2>1, <3>2, <3>3 DEF Drop
  <2> QED BY <1>0, <1>6, <2>1, <2>2, <2>3, SyncType DEF DropNonReceipt
<1>7. CASE Return(f)
  <2>1. cursor' \in Cursor /\ sync' = [sync EXCEPT ![f] = NoSync]
        /\ sync[f].got \in SUBSET Message
    BY <1>0, <1>7 DEF Return, Sync
  <2>2. CASE List(f, sync[f].got)
    <3>1. [fetch[f] EXCEPT !.pc = "next", !.todo = sync[f].got] \in Fetch
      BY <1>0, <2>1 DEF RouteTypeOK, Fetch
    <3>2. faults' \in 0..MaxFaults
      BY <1>0, <2>2, FetchAssumption DEF List, Handled, Fault, RouteTypeOK
    <3>3. RouteTypeOK'
      BY <1>0, <2>2, <3>1, <3>2 DEF List, Goto, RouteTypeOK
    <3> QED BY <1>0, <1>7, <2>1, <2>2, <3>3, SyncType DEF Return
  <2>3. CASE Ended(f) /\ Fault /\ UNCHANGED <<seen, items, logged>>
    <3>1. Abort(f)
      BY <1>7, <2>3 DEF Return, SyncAt, At, Abort
    <3>2. RouteTypeOK'
      BY <1>0, <2>3, FetchAssumption DEF Ended, Goto, Fault, NoFetch, Fetch, RouteTypeOK
    <3> QED BY <1>0, <1>7, <2>1, <3>1, <3>2, SyncType DEF Return
  <2> QED BY <1>7, <2>2, <2>3 DEF Return
<1>8. ASSUME NEW m \in Message, AttachmentRaises(f, m)
      PROVE  TypeOK' /\ ListRaises(f)
  <2>1. ListRaises(f)
    BY <1>8 DEF AttachmentRaises
  <2>2. RouteTypeOK'
    BY <1>0, <2>1, FetchAssumption DEF ListRaises, Ended, Goto, NoFetch, Fetch, RouteTypeOK
  <2> QED BY <1>0, <1>8, <2>1, <2>2, SyncType DEF AttachmentRaises
<1> QED BY <1>1, <1>2, <1>3, <1>4, <1>5, <1>6, <1>7, <1>8, <1>l DEF SyncStep, Backfill, Incremental, Bootstrap

\* HoldsMessage rides along: the route's own type lemma needs it.
IGmail == TypeOK /\ IType

LEMMA GmailStep ==
  ASSUME IGmail, [Next]_gmailVars
  PROVE  IGmail' /\ [RouteNext]_routeVars
<1>0. TypeOK /\ IType
  BY DEF IGmail
<1>1. CASE UNCHANGED gmailVars
  BY <1>0, <1>1 DEF gmailVars, routeVars, IGmail, TypeOK, IType, RouteTypeOK, HoldsMessage
<1>2. ASSUME UNCHANGED routeVars PROVE IType'
  BY <1>0, <1>2 DEF routeVars, IType, RouteTypeOK, HoldsMessage
<1>3. ASSUME NEW m \in Message, Arrive(m)
      PROVE  TypeOK' /\ UNCHANGED routeVars
  <2>1. /\ box' \in Seq(Message) /\ Len(box') = Len(box) + 1 /\ Len(box) \in Nat
    BY <1>0, <1>3 DEF Arrive, TypeOK
  <2> QED BY <1>0, <1>3, <2>1 DEF Arrive, TypeOK, routeVars, RouteTypeOK
<1>4. CASE Purge
  <2>1. oldest' \in 0..Len(box) /\ Len(box) \in Nat
    BY <1>0, <1>4 DEF Purge, TypeOK
  <2> QED BY <1>0, <1>2, <1>4, <2>1 DEF Purge, TypeOK, routeVars, RouteTypeOK, IGmail
<1>5. ASSUME NEW f \in Fetcher, SyncStep(f)
      PROVE  IGmail' /\ [RouteNext]_routeVars
  <2>1. TypeOK' /\ (UNCHANGED routeVars \/ RouteNext)
    BY <1>0, <1>5, SyncStepImplements DEF RouteNext
  <2>2. IType'
    <3>1. CASE UNCHANGED routeVars
      BY <1>2, <3>1
    <3>2. CASE ~(UNCHANGED routeVars)
      BY <1>0, <1>5, <3>2, SyncStepImplements, TypeStep
    <3> QED BY <3>1, <3>2
  <2> QED BY <2>1, <2>2 DEF IGmail
<1>6. ASSUME NEW f \in Fetcher, RouteStep(f) \/ AbortFetch(f)
      PROVE  IGmail' /\ RouteNext
  <2>1. StartFetch(f) \/ Work(f) \/ Reflect(f) \/ ConnectionLost(f) \/ Abort(f)
    BY <1>6 DEF RouteStep, AbortFetch
  <2>2. RouteNext
    BY <2>1 DEF RouteNext
  <2>3. IType'
    BY <1>0, <2>1, TypeStep
  <2>4. /\ UNCHANGED <<mailbox, cursor, passed>>
        /\ sync' \in [Fetcher -> Sync]
    BY <1>0, <1>6 DEF RouteStep, AbortFetch, TypeOK, NoSync, Sync, Cursor
  <2>5. TypeOK'
    BY <1>0, <2>3, <2>4 DEF TypeOK, IType, mailbox
  <2> QED BY <2>2, <2>3, <2>5 DEF IGmail
<1>7. CASE Next
  <2>1. CASE \E m \in Message : Arrive(m)
    BY <1>2, <1>3, <2>1 DEF IGmail
  <2>2. CASE Purge
    <3>1. UNCHANGED routeVars
      BY <2>2 DEF Purge
    <3> QED BY <1>4, <2>2, <3>1
  <2> QED BY <1>5, <1>6, <1>7, <2>1, <2>2 DEF Next
<1> QED BY <1>1, <1>7 DEF gmailVars

LEMMA GmailInvariant == Spec => []IGmail
<1>1. Init => IGmail
  BY GmailInit, SafeInit DEF IGmail, ISafe
<1>2. IGmail /\ [Next]_gmailVars => IGmail'
  BY GmailStep
<1> QED BY <1>1, <1>2, PTL DEF Spec

\* The listing, the history id and the mailbox keep their types.
THEOREM GmailTypeCorrect == Spec => []TypeOK
<1>1. IGmail => TypeOK
  BY DEF IGmail
<1> QED BY <1>1, GmailInvariant, PTL

\* GmailInbox.fetch_messages, with its receipt filter, is a provider as the fetch
\* route takes it: every behaviour with Gmail is one of the abstract route.
THEOREM GmailImplementsRoute == Spec => RouteSpec
<1>1. Init => RouteInit
  BY GmailInit
<1>2. IGmail /\ [Next]_gmailVars => [RouteNext]_routeVars
  BY GmailStep
<1> QED BY <1>1, <1>2, GmailInvariant, PTL DEF Spec, RouteSpec

\* With Gmail, too: at most one item for a message plus one for each fault, no
\* message marked without an item or an entry in the log, and no lock left behind.
THEOREM GmailKeepsThePromises ==
  Spec => [](OneItemPerMessage /\ SeenIsProcessed /\ NoLeakedLock)
BY GmailImplementsRoute, OneItemPerMessageTheorem, SeenIsProcessedTheorem,
   NoLeakedLockTheorem, PTL

-----------------------------------------------------------------------------
(* No mail is missed while nothing fails *)

\* What a fetch that has its list still works off.
Left(f) ==
    fetch[f].todo \union
    IF fetch[f].pc \in {"process", "mark"} THEN {fetch[f].msg} ELSE {}

InWork == IF lock = NoFetcher THEN {} ELSE Left(lock)

\* A listing that is being screened accounts for all the mail up to the history id
\* that it will store.
Screening(f) ==
    At(f, "list") =>
        /\ sync[f].at = "probe" => sync[f].new = NoCursor
        /\ sync[f].at = "screen" /\ sync[f].new # NoCursor =>
              /\ sync[f].new <= Len(box)
              /\ Mail(0, sync[f].new)
                    \subseteq seen \union passed \union sync[f].cand \union sync[f].got

\* Stronger than NoMailMissed: one fetch runs at a time, and what the stored history
\* id covers is done or in the list of that fetch.  What it has only found, and loses
\* when fetch_messages raises, is not covered yet.
AccountedFor ==
    /\ \A f \in Fetcher : At(f, "list") \/ sync[f].at = "start"
    /\ \A f \in Fetcher : At(f, "idle") \/ lock = f
    /\ \A f \in Fetcher : fetch[f].pc \in {"idle", "list"} => fetch[f].todo = {}
    /\ cursor # NoCursor => cursor <= Len(box)
    /\ Covered \subseteq seen \union passed \union InWork
    /\ \A f \in Fetcher : Screening(f)

IAccounted == IGmail /\ (faults = 0 => AccountedFor)

LEMMA AccountedInit == Init => IAccounted
<1> SUFFICES ASSUME Init PROVE IAccounted
  OBVIOUS
<1>1. IGmail
  BY GmailInit, SafeInit DEF Init, IGmail, ISafe
<1>2. \A f \in Fetcher : /\ At(f, "idle") /\ ~At(f, "list")
                         /\ fetch[f].todo = {} /\ sync[f].at = "start"
  BY DEF Init, RouteInit, NoFetch, NoSync, At
<1>3. Covered = {} /\ cursor = NoCursor
  BY DEF Init, Covered
<1> QED BY <1>1, <1>2, <1>3 DEF IAccounted, AccountedFor, Screening

\* Further mail changes nothing about the mail so far.
LEMMA MailStays ==
  ASSUME box \in Seq(Message), NEW m \in Message, box' = Append(box, m),
         NEW n \in Nat, n <= Len(box)
  PROVE  Mail(0, n)' = Mail(0, n) /\ n <= Len(box')
<1>1. Len(box') = Len(box) + 1 /\ Len(box) \in Nat
  OBVIOUS
<1>2. \A k \in 1..n : box'[k] = box[k]
  BY <1>1
<1>3. (0 + 1)..n = 1..n
  OBVIOUS
<1>4. \A x : x \in {box'[k] : k \in 1..n} <=> x \in {box[k] : k \in 1..n}
  BY <1>2
<1> QED BY <1>1, <1>3, <1>4 DEF Mail

\* The mail up to n is the mail up to an earlier id and the changes since.
LEMMA MailSplits ==
  ASSUME NEW c \in Nat, NEW n \in Nat
  PROVE  Mail(0, n) \subseteq Mail(0, c) \union Mail(c, n)
<1> SUFFICES ASSUME NEW k \in (0 + 1)..n
             PROVE  box[k] \in Mail(0, c) \union Mail(c, n)
  BY DEF Mail
<1>1. CASE k <= c
  BY <1>1 DEF Mail
<1>2. CASE ~(k <= c)
  BY <1>2 DEF Mail
<1> QED BY <1>1, <1>2

\* A step of the fetch that has the lock, apart from its listing.
LEMMA AccountedByOne ==
  ASSUME IGmail, faults = 0, AccountedFor, NEW f \in Fetcher, lock = f, OnlyBy(f),
         \A g \in Fetcher \ {f} : sync'[g] = sync[g],
         lock' = f \/ (lock' = NoFetcher /\ At(f, "idle")'),
         At(f, "list")' \/ sync'[f].at = "start",
         fetch'[f].pc \in {"idle", "list"} => fetch'[f].todo = {},
         UNCHANGED mailbox, seen \subseteq seen', passed \subseteq passed',
         cursor' # NoCursor => cursor' <= Len(box),
         Covered' \subseteq seen' \union passed'
                              \union IF lock' = f THEN Left(f)' ELSE {},
         Screening(f)'
  PROVE  AccountedFor'
<1>1. /\ fetch \in [Fetcher -> Fetch] /\ NoFetcher \notin Fetcher
      /\ \A g \in Fetcher \ {f} : fetch'[g] = fetch[g] /\ At(g, "idle")
  BY FetchAssumption DEF IGmail, IType, RouteTypeOK, OnlyBy, AccountedFor
<1>2. /\ \A g \in Fetcher : At(g, "list")' \/ sync'[g].at = "start"
      /\ \A g \in Fetcher : At(g, "idle")' \/ lock' = g
      /\ \A g \in Fetcher : fetch'[g].pc \in {"idle", "list"} => fetch'[g].todo = {}
  BY <1>1 DEF AccountedFor, At
<1>3. \A g \in Fetcher : Screening(g)'
  BY <1>1 DEF Screening, At
<1>4. Covered' \subseteq seen' \union passed' \union InWork'
  BY <1>1 DEF InWork
<1> QED BY <1>2, <1>3, <1>4 DEF AccountedFor, mailbox

\* A step of fetch_messages that only goes on with its listing.
LEMMA AccountedListing ==
  ASSUME IGmail, faults = 0, AccountedFor, NEW f \in Fetcher, At(f, "list"),
         NEW s, sync' = [sync EXCEPT ![f] = s], passed \subseteq passed',
         UNCHANGED <<mailbox, cursor, fetch, lock>>, seen \subseteq seen',
         s.at = "probe" => s.new = NoCursor,
         s.at = "screen" /\ s.new # NoCursor =>
            /\ s.new <= Len(box)
            /\ Mail(0, s.new) \subseteq seen' \union passed' \union s.cand \union s.got
  PROVE  AccountedFor'
<1>1. /\ fetch \in [Fetcher -> Fetch] /\ sync \in [Fetcher -> Sync]
      /\ lock = f /\ fetch[f].todo = {} /\ InWork = {} /\ NoFetcher \notin Fetcher
  BY FetchAssumption DEF IGmail, IType, RouteTypeOK, TypeOK, AccountedFor, InWork, Left, At
<1>2. OnlyBy(f)
  BY <1>1 DEF OnlyBy
<1>3. sync'[f] = s /\ \A g \in Fetcher \ {f} : sync'[g] = sync[g]
  BY <1>1
<1>4. box' = box /\ \A n : Mail(0, n)' = Mail(0, n)
  BY DEF mailbox, Mail
<1>5. Covered' = Covered
  BY <1>4 DEF Covered
<1>6. Screening(f)'
  BY <1>3, <1>4 DEF Screening
<1>7. /\ cursor' # NoCursor => cursor' <= Len(box)
      /\ Covered' \subseteq seen' \union passed'
  BY <1>1, <1>5 DEF AccountedFor
<1> QED BY <1>1, <1>2, <1>3, <1>6, <1>7, AccountedByOne DEF At

\* The listing is given up, and what it has found with it.
LEMMA AccountedEnd ==
  ASSUME IGmail, faults = 0, AccountedFor, NEW f \in Fetcher, ~At(f, "idle"), Ended(f),
         At(f, "list") \/ (At(f, "next") /\ fetch[f].todo = {}),
         sync' = [sync EXCEPT ![f] = NoSync] \/ (sync' = sync /\ ~At(f, "list")),
         UNCHANGED <<mailbox, cursor, passed, seen>>
  PROVE  AccountedFor'
<1>1. /\ fetch \in [Fetcher -> Fetch] /\ sync \in [Fetcher -> Sync]
      /\ lock = f /\ fetch[f].todo = {} /\ InWork = {} /\ NoFetcher \notin Fetcher /\ IType
  BY FetchAssumption DEF IGmail, IType, RouteTypeOK, TypeOK, AccountedFor, InWork, Left, At
<1>2. OnlyBy(f) /\ fetch'[f] = NoFetch /\ lock' = NoFetcher
  BY <1>1, EndedEffect
<1>3. sync'[f].at = "start" /\ \A g \in Fetcher \ {f} : sync'[g] = sync[g]
  BY <1>1 DEF NoSync, AccountedFor
<1>4. Covered' = Covered /\ Len(box) = Len(box')
  BY DEF mailbox, Mail, Covered
<1>5. fetch'[f].pc = "idle" /\ fetch'[f].todo = {}
  BY <1>2 DEF NoFetch
<1>6. Screening(f)'
  BY <1>5 DEF Screening, At
<1>7. /\ cursor' # NoCursor => cursor' <= Len(box)
      /\ Covered' \subseteq seen' \union passed'
  BY <1>1, <1>4 DEF AccountedFor
<1> QED BY <1>1, <1>2, <1>3, <1>5, <1>6, <1>7, AccountedByOne DEF At

LEMMA AccountedSync ==
  ASSUME IGmail, faults = 0, faults' = 0, AccountedFor, NEW f \in Fetcher, SyncStep(f)
  PROVE  AccountedFor'
<1>0. /\ sync \in [Fetcher -> Sync] /\ sync[f] \in Sync
      /\ box \in Seq(Message) /\ Len(box) \in Nat
      /\ cursor \in Cursor /\ passed \subseteq Message /\ HistoryPage \in Nat
      /\ fetch \in [Fetcher -> Fetch] /\ NoCursor \notin Nat
      /\ ~Fault
  BY GmailAssumption DEF IGmail, TypeOK, Sync, IType, RouteTypeOK, Fault
<1>1. At(f, "list")
  BY DEF SyncStep, Backfill, Incremental, Bootstrap, Keep, AttachmentRaises, SkipUnreadable,
         DropNonReceipt, Return, SyncAt
<1>2. lock = f /\ Covered \subseteq seen \union passed /\ fetch[f].todo = {}
      /\ NoFetcher \notin Fetcher
  BY <1>1, FetchAssumption DEF AccountedFor, InWork, Left, At
<1>3. CASE Backfill(f)
  <2>1. PICK s : s = [NoSync EXCEPT !.at = "probe", !.cand = Arrived]
    OBVIOUS
  <2>2. s.at = "probe" /\ s.new = NoCursor
    BY <2>1 DEF NoSync
  <2> QED BY <1>1, <1>3, <2>1, <2>2, AccountedListing DEF Backfill, Listed, routeVars
<1>4. CASE Incremental(f)
  <2>1. PICK s : s = [at |-> "screen", cand |-> Delta(cursor), got |-> {}, new |-> Len(box)]
    OBVIOUS
  <2>2. /\ Listed(f, s, Mail(cursor, Len(box)) \ Delta(cursor))
        /\ cursor \in Nat
    BY <1>0, <1>4, <2>1 DEF Incremental, Cursor
  <2>3. Covered = Mail(0, cursor)
    BY <1>0, <2>2 DEF Covered
  <2>4. Mail(0, Len(box)) \subseteq Mail(0, cursor) \union Mail(cursor, Len(box))
    BY <1>0, <2>2, MailSplits
  <2>5. /\ s.at = "screen" /\ s.new = Len(box) /\ s.cand = Delta(cursor) /\ s.got = {}
        /\ passed' = passed \union (Mail(cursor, Len(box)) \ Delta(cursor))
        /\ seen' = seen
    BY <2>1, <2>2 DEF Listed, routeVars
  <2>6. Mail(0, s.new) \subseteq seen' \union passed' \union s.cand \union s.got
    BY <1>2, <2>3, <2>4, <2>5
  <2>7. s.new <= Len(box) /\ s.at # "probe" /\ passed \subseteq passed'
    BY <1>0, <2>5
  <2> QED BY <1>1, <2>2, <2>5, <2>6, <2>7, AccountedListing DEF Listed, routeVars
<1>5. CASE Bootstrap(f)
  <2>1. sync[f].at = "probe" /\ sync[f].new = NoCursor
    BY <1>1, <1>5 DEF Bootstrap, SyncAt, AccountedFor, Screening
  <2>2. CASE Expired(0)
    <3>1. PICK s : s = [sync[f] EXCEPT !.at = "screen"]
      OBVIOUS
    <3>2. s.at = "screen" /\ s.new = NoCursor
      BY <1>0, <2>1, <3>1 DEF Sync
    <3>3. Listed(f, s, {})
      BY <1>5, <2>2, <3>1 DEF Bootstrap
    <3> QED BY <1>1, <3>2, <3>3, AccountedListing DEF Listed, routeVars
  <2>3. CASE ~Expired(0)
    <3>1. PICK s : s = [sync[f] EXCEPT !.at = "screen", !.new = Len(box)]
      OBVIOUS
    <3>2. s.at = "screen" /\ s.new = Len(box) /\ s.cand = sync[f].cand
      BY <1>0, <3>1 DEF Sync
    <3>3. Listed(f, s, Arrived \ sync[f].cand)
      BY <1>5, <2>3, <3>1 DEF Bootstrap
    <3>4. Mail(0, s.new) \subseteq seen' \union passed' \union s.cand \union s.got
      BY <3>2, <3>3 DEF Listed, Arrived
    <3>5. s.new <= Len(box) /\ s.at # "probe" /\ seen' = seen /\ passed \subseteq passed'
      BY <1>0, <3>2, <3>3 DEF Listed, routeVars
    <3> QED BY <1>1, <3>3, <3>4, <3>5, AccountedListing DEF Listed, routeVars
  <2> QED BY <2>2, <2>3
<1>6. ASSUME NEW m \in Message, NEW got \in SUBSET Message, SyncAt(f, "screen"),
             Screened(f, m, got),
             m \in seen' \union passed' \union got,
             seen \subseteq seen', passed \subseteq passed',
             UNCHANGED <<mailbox, cursor, fetch, lock>>
      PROVE  AccountedFor'
  <2>1. PICK s : s = [sync[f] EXCEPT !.cand = @ \ {m}, !.got = @ \union got]
    OBVIOUS
  <2>2. /\ s.at = "screen" /\ s.new = sync[f].new
        /\ s.cand = sync[f].cand \ {m} /\ s.got = sync[f].got \union got
    BY <1>0, <1>6, <2>1 DEF Sync, SyncAt
  <2>3. sync' = [sync EXCEPT ![f] = s]
    BY <1>0, <1>6, <2>1 DEF Screened, Sync
  <2>4. s.new # NoCursor =>
           /\ s.new <= Len(box)
           /\ Mail(0, s.new) \subseteq seen \union passed \union sync[f].cand \union sync[f].got
    BY <1>6, <2>2 DEF AccountedFor, Screening, SyncAt
  <2>5. s.new # NoCursor =>
           Mail(0, s.new) \subseteq seen' \union passed' \union s.cand \union s.got
    BY <1>6, <2>2, <2>4
  <2> QED BY <1>1, <1>6, <2>2, <2>3, <2>4, <2>5, AccountedListing
<1>7. ASSUME NEW m \in Message, Keep(f, m)
      PROVE  AccountedFor'
  <2>1. PICK got : got = (IF m \in seen THEN {} ELSE {m})
    OBVIOUS
  <2>2. got \in SUBSET Message /\ m \in seen \union got
    BY <2>1
  <2> QED BY <1>6, <1>7, <2>1, <2>2 DEF Keep, routeVars
<1>8. ASSUME NEW m \in Message, SkipUnreadable(f, m)
      PROVE  AccountedFor'
  BY <1>6, <1>8 DEF SkipUnreadable, routeVars
<1>9. ASSUME NEW m \in Message, DropNonReceipt(f, m)
      PROVE  AccountedFor'
  BY <1>0, <1>6, <1>9 DEF DropNonReceipt
<1>10. ASSUME NEW m \in Message, AttachmentRaises(f, m)
       PROVE  AccountedFor'
  BY <1>1, <1>10, AccountedEnd DEF AttachmentRaises, ListRaises, At
<1>11. CASE Return(f)
  <2>1. /\ List(f, sync[f].got)
        /\ sync[f].cand = {} /\ sync[f].at = "screen"
        /\ sync' = [sync EXCEPT ![f] = NoSync]
        /\ cursor' = IF sync[f].new = NoCursor THEN cursor ELSE sync[f].new
        /\ UNCHANGED <<mailbox, passed>>
    BY <1>0, <1>11 DEF Return, SyncAt
  <2>2. /\ fetch' = [fetch EXCEPT ![f] = [fetch[f] EXCEPT !.pc = "next", !.todo = sync[f].got]]
        /\ UNCHANGED <<seen, lock>>
    BY <2>1 DEF List, Goto
  <2>3. fetch'[f].pc = "next" /\ fetch'[f].todo = sync[f].got
    BY <1>0, <2>2 DEF Fetch
  <2>4. OnlyBy(f)
    BY <1>0, <2>2 DEF OnlyBy
  <2>5. sync'[f] = NoSync /\ \A g \in Fetcher \ {f} : sync'[g] = sync[g]
    BY <1>0, <2>1
  <2>6. sync[f].got \subseteq Left(f)'
    BY <2>3 DEF Left
  <2>7. box' = box /\ \A n : Mail(0, n)' = Mail(0, n)
    BY <2>1 DEF mailbox, Mail
  <2>8. /\ cursor' # NoCursor => cursor' <= Len(box)
        /\ Covered' \subseteq seen' \union passed' \union Left(f)'
    <3>1. CASE sync[f].new = NoCursor
      <4>1. Covered' = Covered /\ cursor' = cursor
        BY <2>1, <2>7, <3>1 DEF Covered, mailbox, Mail
      <4> QED BY <1>2, <2>1, <2>2, <4>1 DEF AccountedFor
    <3>2. CASE sync[f].new # NoCursor
      <4>1. cursor' = sync[f].new
        BY <2>1, <3>2
      <4>2. /\ sync[f].new <= Len(box)
            /\ Mail(0, sync[f].new) \subseteq seen \union passed \union sync[f].got
        BY <1>1, <2>1, <3>2 DEF AccountedFor, Screening
      <4>3. Covered' = Mail(0, sync[f].new)
        BY <2>7, <3>2, <4>1 DEF Covered, mailbox, Mail
      <4> QED BY <2>1, <2>2, <2>6, <4>1, <4>2, <4>3
    <3> QED BY <3>1, <3>2
  <2>9. sync'[f].at = "start" /\ Screening(f)'
    BY <2>3, <2>5 DEF NoSync, Screening, At
  <2> QED BY <1>2, <2>1, <2>2, <2>3, <2>4, <2>5, <2>8, <2>9, AccountedByOne DEF At
<1> QED BY <1>3, <1>4, <1>5, <1>7, <1>8, <1>9, <1>10, <1>11 DEF SyncStep

\* A step on the list of the fetch that has the lock.
LEMMA AccountedWork ==
  ASSUME IGmail, faults = 0, AccountedFor, NEW f \in Fetcher,
         fetch[f].pc \notin {"idle", "list"}, fetch'[f].pc \notin {"idle", "list"},
         OnlyBy(f), UNCHANGED lock, UNCHANGED <<mailbox, cursor, sync, passed>>,
         seen \subseteq seen', Left(f) \subseteq seen' \union Left(f)'
  PROVE  AccountedFor'
<1>1. lock = f /\ lock' = f /\ sync'[f].at = "start" /\ NoFetcher \notin Fetcher
  BY FetchAssumption DEF AccountedFor, At
<1>2. Covered' = Covered
  BY DEF mailbox, Mail, Covered
<1>3. /\ cursor' # NoCursor => cursor' <= Len(box)
      /\ Covered' \subseteq seen' \union passed' \union Left(f)'
  BY <1>1, <1>2 DEF AccountedFor, InWork
<1>4. Screening(f)'
  BY DEF Screening, At
<1> QED BY <1>1, <1>3, <1>4, AccountedByOne

LEMMA AccountedRoute ==
  ASSUME IGmail, faults = 0, faults' = 0, AccountedFor, NEW f \in Fetcher, RouteStep(f)
  PROVE  AccountedFor'
<1>0. /\ IType /\ RouteTypeOK /\ fetch \in [Fetcher -> Fetch] /\ fetch[f] \in Fetch
      /\ NoFetcher \notin Fetcher /\ ~Fault
      /\ UNCHANGED <<mailbox, cursor, sync, passed>>
  BY FetchAssumption DEF IGmail, IType, RouteTypeOK, RouteStep, Fault
<1>1. OnlyBy(f)
  BY <1>0, TypeStep DEF RouteStep
<1>2. CASE StartFetch(f)
  <2>1. /\ lock = NoFetcher /\ lock' = f /\ fetch'[f].pc = "list" /\ fetch'[f].todo = {}
        /\ seen' = seen
    BY <1>0, <1>2 DEF StartFetch, Goto, NoFetch, LockFree
  <2>2. \A g \in Fetcher \ {f} : fetch'[g] = fetch[g] /\ At(g, "idle")
    BY <1>0, <1>1, <2>1 DEF OnlyBy, AccountedFor
  <2>3. sync[f].at = "start"
    BY <1>2 DEF AccountedFor, StartFetch, At
  <2>4. InWork = {} /\ Covered' = Covered
    BY <1>0, <2>1 DEF InWork, mailbox, Mail, Covered
  <2>5. \A g \in Fetcher : Screening(g)'
    BY <1>0, <2>2, <2>3 DEF Screening, At
  <2>6. /\ \A g \in Fetcher : At(g, "list")' \/ sync'[g].at = "start"
        /\ \A g \in Fetcher : At(g, "idle")' \/ lock' = g
        /\ \A g \in Fetcher : fetch'[g].pc \in {"idle", "list"} => fetch'[g].todo = {}
    BY <1>0, <2>1, <2>2 DEF AccountedFor, At
  <2>7. /\ cursor' # NoCursor => cursor' <= Len(box')
        /\ Covered' \subseteq seen' \union passed' \union InWork'
    BY <1>0, <2>1, <2>4 DEF AccountedFor, mailbox
  <2> QED BY <2>5, <2>6, <2>7 DEF AccountedFor
<1>3. ASSUME NEW m \in Message, Skip(f, m) \/ Take(f, m)
      PROVE  AccountedFor'
  <2>1. \A j : /\ j = [fetch[f] EXCEPT !.todo = @ \ {m}] => j.pc = fetch[f].pc /\ j.todo = fetch[f].todo \ {m}
               /\ j = [fetch[f] EXCEPT !.pc = "process", !.todo = @ \ {m}, !.msg = m]
                    => j.pc = "process" /\ j.todo = fetch[f].todo \ {m} /\ j.msg = m
    BY <1>0 DEF Fetch
  <2>2. /\ fetch[f].pc = "next" /\ UNCHANGED <<lock, seen>>
        /\ \/ m \in seen /\ fetch'[f].pc = "next" /\ fetch'[f].todo = fetch[f].todo \ {m}
           \/ /\ fetch'[f].pc = "process" /\ fetch'[f].todo = fetch[f].todo \ {m}
              /\ fetch'[f].msg = m
    BY <1>0, <1>3, <2>1 DEF Skip, Take, Goto, At
  <2>3. Left(f) \subseteq seen' \union Left(f)'
    BY <2>2 DEF Left
  <2> QED BY <1>0, <1>1, <2>2, <2>3, AccountedWork
<1>4. CASE Ingest(f) \/ IngestRaises(f)
  <2>1. /\ fetch[f].pc = "process" /\ fetch'[f].pc = "mark"
        /\ fetch'[f].msg = fetch[f].msg /\ fetch'[f].todo = fetch[f].todo
        /\ UNCHANGED <<lock, seen>>
    BY <1>0, <1>4, IngestEffect DEF Ingest, IngestRaises, At
  <2>2. Left(f) \subseteq seen' \union Left(f)'
    BY <2>1 DEF Left
  <2> QED BY <1>0, <1>1, <2>1, <2>2, AccountedWork
<1>5. CASE MarkSeen(f) \/ (Reflect(f) /\ UNCHANGED faults)
  <2>1. /\ \/ fetch[f].pc = "mark" /\ seen' = seen \union {fetch[f].msg}
           \/ fetch[f].pc = "reflect" /\ seen' = seen
        /\ fetch'[f].pc \in {"reflect", "next"}
        /\ fetch'[f].todo = fetch[f].todo /\ UNCHANGED lock
    BY <1>0, <1>5, MarkEffect DEF MarkSeen, Reflect, At
  <2>2. Left(f) \subseteq seen' \union Left(f)'
    BY <2>1 DEF Left
  <2> QED BY <1>0, <1>1, <2>1, <2>2, AccountedWork
<1>6. CASE Finish(f)
  BY <1>0, <1>6, AccountedEnd DEF Finish, At
<1> QED BY <1>0, <1>2, <1>3, <1>4, <1>5, <1>6 DEF RouteStep, Work, ConnectionLost

\* What happens to the mailbox alone.
LEMMA AccountedMailbox ==
  ASSUME IGmail, AccountedFor, (\E m \in Message : Arrive(m)) \/ Purge
  PROVE  AccountedFor'
<1>0. /\ box \in Seq(Message) /\ Len(box) \in Nat /\ sync \in [Fetcher -> Sync]
      /\ cursor \in Cursor
  BY DEF IGmail, TypeOK
<1>1. UNCHANGED <<routeVars, cursor, sync, passed>>
  BY DEF Arrive, Purge
<1>2. \A n \in Nat : n <= Len(box) => Mail(0, n)' = Mail(0, n) /\ n <= Len(box')
  <2>1. CASE Purge
    BY <2>1 DEF Purge, Mail
  <2>2. ASSUME NEW m \in Message, Arrive(m)
        PROVE  \A n \in Nat : n <= Len(box) => Mail(0, n)' = Mail(0, n) /\ n <= Len(box')
    <3> SUFFICES ASSUME NEW n \in Nat, n <= Len(box)
                 PROVE  Mail(0, n)' = Mail(0, n) /\ n <= Len(box')
      OBVIOUS
    <3>1. box' = Append(box, m)
      BY <2>2 DEF Arrive
    <3> QED BY <1>0, <3>1, MailStays
  <2> QED BY <2>1, <2>2
<1>3. cursor # NoCursor => cursor \in Nat /\ cursor <= Len(box)
  BY <1>0 DEF Cursor, AccountedFor
<1>4. Covered' = Covered /\ (cursor' # NoCursor => cursor' <= Len(box'))
  <2>1. CASE cursor = NoCursor
    BY <1>1, <2>1 DEF Covered
  <2>2. CASE cursor # NoCursor
    <3>1. PICK n : n = cursor
      OBVIOUS
    <3>2. Mail(0, n)' = Mail(0, n) /\ n <= Len(box')
      BY <1>2, <1>3, <2>2, <3>1
    <3>3. cursor' = n /\ Covered = Mail(0, n) /\ Covered' = Mail(0, n)'
      BY <1>1, <2>2, <3>1 DEF Covered
    <3> QED BY <3>2, <3>3
  <2> QED BY <2>1, <2>2
<1>5. ASSUME NEW f \in Fetcher PROVE Screening(f)'
  <2>1. PICK n : n = sync[f].new
    OBVIOUS
  <2>2. sync' = sync /\ fetch' = fetch /\ seen' = seen /\ passed' = passed
    BY <1>1 DEF routeVars
  <2>3. n \in Nat \/ n = NoCursor
    BY <1>0, <2>1 DEF Sync, Cursor
  <2>4. Screening(f)
    BY DEF AccountedFor
  <2>5. n \in Nat /\ n <= Len(box) => Mail(0, n)' = Mail(0, n) /\ n <= Len(box')
    BY <1>2
  <2>6. Mail(0, sync[f].new)' = Mail(0, n)'
    BY <2>1, <2>2 DEF Mail
  <2> QED BY <2>1, <2>2, <2>3, <2>4, <2>5, <2>6 DEF Screening, At
<1> QED BY <1>1, <1>4, <1>5 DEF AccountedFor, InWork, Left, At, routeVars

LEMMA AccountedStep ==
  ASSUME IAccounted, [Next]_gmailVars
  PROVE  IAccounted'
<1>0. IGmail /\ IGmail' /\ faults \in Nat /\ faults' \in Nat
  BY GmailStep, FetchAssumption DEF IAccounted, IGmail, IType, RouteTypeOK
<1> SUFFICES ASSUME faults' = 0 PROVE AccountedFor'
  BY <1>0 DEF IAccounted
<1>1. faults = 0
  <2>1. faults' = faults \/ faults' = faults + 1
    BY DEF Next, gmailVars, routeVars, Arrive, Purge, RouteStep, AbortFetch, SyncStep,
           Backfill, Incremental, Bootstrap, Keep, AttachmentRaises, SkipUnreadable,
           DropNonReceipt, Return, Listed, ListRaises, List, Handled, Fault, StartFetch,
           Work, Skip, Take, Ingest, IngestRaises, MarkSeen, Reflect, Finish, Abort,
           ConnectionLost
  <2> QED BY <1>0, <2>1
<1>2. AccountedFor
  BY <1>1 DEF IAccounted
<1>3. CASE (\E m \in Message : Arrive(m)) \/ Purge
  BY <1>0, <1>2, <1>3, AccountedMailbox
<1>4. ASSUME NEW f \in Fetcher, SyncStep(f) \/ RouteStep(f) \/ AbortFetch(f)
      PROVE  AccountedFor'
  <2>1. ~AbortFetch(f)
    BY <1>1 DEF AbortFetch, Abort, Fault
  <2> QED BY <1>0, <1>1, <1>2, <1>4, <2>1, AccountedSync, AccountedRoute
<1>5. CASE UNCHANGED gmailVars
  BY <1>2, <1>5
     DEF gmailVars, routeVars, AccountedFor, Covered, Mail, InWork, Left, Screening, At
<1> QED BY <1>3, <1>4, <1>5 DEF Next

\* GmailInbox.fetch_messages stores the history id before the route has processed
\* anything: while nothing fails, every message that the stored id covers is seen, or
\* in the hands of the running fetch, or was passed over.
THEOREM NoMailMissedTheorem == Spec => []NoMailMissed
<1>1. Init => IAccounted
  BY AccountedInit
<1>2. IAccounted /\ [Next]_gmailVars => IAccounted'
  BY AccountedStep
<1>3. IAccounted => NoMailMissed
  <2> SUFFICES ASSUME IGmail, AccountedFor PROVE Covered \subseteq seen \union InHand \union passed
    BY DEF IAccounted, NoMailMissed
  <2>1. lock # NoFetcher => lock \in Fetcher
    BY DEF IGmail, IType, RouteTypeOK
  <2>2. InWork \subseteq InHand
    BY <2>1 DEF InWork, Left, InHand
  <2> QED BY <2>2 DEF AccountedFor
<1> QED BY <1>1, <1>2, <1>3, PTL DEF Spec
=============================================================================
