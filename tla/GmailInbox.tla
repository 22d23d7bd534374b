----------------------------- MODULE GmailInbox -----------------------------
(***************************************************************************)
(* The fetch route with a Gmail mailbox as its provider: a full listing    *)
(* when no history id is stored or the stored one has expired, the changes *)
(* since the stored id otherwise, the receipt filter on each candidate,    *)
(* and the new history id stored at the end of fetch_messages, before the  *)
(* route has processed anything.                                           *)
(*                                                                         *)
(* The mailbox is external.  Its history id is the number of messages that *)
(* have arrived; its history of changes before the id "oldest" is purged.  *)
(***************************************************************************)
EXTENDS InboxFetch, Sequences

CONSTANTS
    Broken,         \* messages with an attachment whose answer cannot be decoded
    HistoryPage,    \* how many messages one answer of history.list carries
    NoCursor        \* no history id

ASSUME GmailAssumption ==
    /\ Broken \subseteq Message
    /\ HistoryPage \in Nat \ {0}
    /\ NoCursor \notin Nat

VARIABLES
    box,      \* the messages of the mailbox in the order of their arrival
    oldest,   \* the first history id from which changes can still be listed
    cursor,   \* table gmail_sync_state
    sync,     \* what the fetch_messages of each fetcher has got so far
    passed    \* messages that fetch_messages passed over: no listing returned them,
              \* or they could not be read

gmailVars == <<routeVars, box, oldest, cursor, sync, passed>>
mailbox == <<box, oldest>>

Cursor == Nat \union {NoCursor}

\* at: where fetch_messages is; cand: ids still to be screened; got: messages
\* to return; new: the history id to store.
Sync == [at   : {"start", "probe", "screen"},
         cand : SUBSET Message,
         got  : SUBSET Message,
         new  : Cursor]

NoSync == [at |-> "start", cand |-> {}, got |-> {}, new |-> NoCursor]

TypeOK ==
    /\ RouteTypeOK
    /\ box \in Seq(Message)
    /\ oldest \in 0..Len(box)
    /\ cursor \in Cursor
    /\ sync \in [Fetcher -> Sync]
    /\ passed \subseteq Message

Init ==
    /\ RouteInit
    /\ box = <<>>
    /\ oldest = 0
    /\ cursor = NoCursor
    /\ sync = [f \in Fetcher |-> NoSync]
    /\ passed = {}

-----------------------------------------------------------------------------
(* The mailbox (external) *)

Mail(from, to) == {box[n] : n \in (from + 1)..to}
Arrived == Mail(0, Len(box))

Arrive(m) ==
    /\ m \notin Arrived
    /\ box' = Append(box, m)
    /\ UNCHANGED <<routeVars, oldest, cursor, sync, passed>>

Purge ==
    /\ oldest < Len(box)
    /\ oldest' = oldest + 1
    /\ UNCHANGED <<routeVars, box, cursor, sync, passed>>

Expired(id) == id < oldest

\* history_list: the first page of changes and the current history id; a next
\* page is not asked for.
Delta(id) == Mail(id, IF Len(box) < id + HistoryPage THEN Len(box) ELSE id + HistoryPage)

-----------------------------------------------------------------------------
(* GmailInbox.fetch_messages *)

SyncAt(f, at) == At(f, "list") /\ sync[f].at = at

Listed(f, s, missed) ==
    /\ sync' = [sync EXCEPT ![f] = s]
    /\ passed' = passed \union missed
    /\ UNCHANGED <<routeVars, mailbox, cursor>>

\* (mutant) nobody catches GmailHistoryExpired, and every later fetch raises it
BackfillOnce(f) ==
    /\ SyncAt(f, "start")
    /\ \/ cursor = NoCursor /\ Listed(f, [NoSync EXCEPT !.at = "probe", !.cand = Arrived], {})
       \/ /\ cursor # NoCursor
          /\ Expired(cursor)
          /\ ListRaises(f)
          /\ UNCHANGED <<mailbox, cursor, sync, passed>>

\* The pages of list_messages, of the whole tax year, taken as one listing.
Backfill(f) ==
    /\ SyncAt(f, "start")
    /\ cursor # NoCursor => Expired(cursor)
    /\ Listed(f, [NoSync EXCEPT !.at = "probe", !.cand = Arrived], {})

\* (mutant) an expired history id is taken for a mailbox without changes
DeltaOrNothing(f) ==
    /\ SyncAt(f, "start")
    /\ cursor # NoCursor
    /\ LET got == IF Expired(cursor) THEN {} ELSE Delta(cursor) IN
          Listed(f, [at |-> "screen", cand |-> got, got |-> {}, new |-> Len(box)],
                 IF Expired(cursor) THEN {} ELSE Mail(cursor, Len(box)) \ got)

Incremental(f) ==
    /\ SyncAt(f, "start")
    /\ cursor # NoCursor
    /\ ~Expired(cursor)
    /\ LET got == Delta(cursor) IN
          Listed(f, [at |-> "screen", cand |-> got, got |-> {}, new |-> Len(box)],
                 Mail(cursor, Len(box)) \ got)

\* _bootstrap_history_id: the current id, by a probe from the sentinel "0" whose
\* messages are thrown away; no id when the sentinel has expired.
Bootstrap(f) ==
    /\ SyncAt(f, "probe")
    /\ IF Expired(0)
       THEN Listed(f, [sync[f] EXCEPT !.at = "screen"], {})
       ELSE Listed(f, [sync[f] EXCEPT !.at = "screen", !.new = Len(box)],
                   Arrived \ sync[f].cand)

Screened(f, m, got) ==
    sync' = [sync EXCEPT ![f].cand = @ \ {m}, ![f].got = @ \union got]

\* is_seen, then _classify_and_fetch: a message that is kept.
Keep(f, m) ==
    /\ SyncAt(f, "screen")
    /\ m \in sync[f].cand
    /\ m \in seen \/ m \notin Broken
    /\ Screened(f, m, IF m \in seen THEN {} ELSE {m})
    /\ UNCHANGED <<routeVars, mailbox, cursor, passed>>

\* get_attachment decodes outside its try: what it raises is no GmailClientError,
\* and ends the request.
AttachmentRaises(f, m) ==
    /\ SyncAt(f, "screen")
    /\ m \in sync[f].cand \ seen
    /\ m \in Broken
    /\ ListRaises(f)
    /\ sync' = [sync EXCEPT ![f] = NoSync]
    /\ UNCHANGED <<mailbox, cursor, passed>>

\* A GmailClientError on one message: it is skipped, with a warning.
SkipUnreadable(f, m) ==
    /\ SyncAt(f, "screen")
    /\ m \in sync[f].cand \ seen
    /\ Screened(f, m, {})
    /\ passed' = passed \union {m}
    /\ UNCHANGED <<routeVars, mailbox, cursor>>

\* (mutant) whatever the filter calls a non-receipt is dropped, sure or not
SureOrNot(m) == TRUE

\* A verdict of non-receipt at or above _DROP_CONFIDENCE_THRESHOLD is possible.
MayDrop(m) == m \notin Receipt

DropNonReceipt(f, m) ==
    /\ SyncAt(f, "screen")
    /\ m \in sync[f].cand \ seen
    /\ MayDrop(m)
    /\ seen' = seen \union {m}
    /\ logged' = logged \union {m}
    /\ \/ Screened(f, m, {}) /\ UNCHANGED <<lock, fetch, faults>>
       \/ Ended(f) /\ Fault /\ sync' = [sync EXCEPT ![f] = NoSync]
    /\ UNCHANGED <<items, mailbox, cursor, passed>>

\* set_sync_history_id, and the list is returned to the route; a lost
\* acknowledgement ends the request instead.
Return(f) ==
    /\ SyncAt(f, "screen")
    /\ sync[f].cand = {}
    /\ cursor' = IF sync[f].new = NoCursor THEN cursor ELSE sync[f].new
    /\ sync' = [sync EXCEPT ![f] = NoSync]
    /\ \/ List(f, sync[f].got) /\ UNCHANGED faults
       \/ Ended(f) /\ Fault /\ UNCHANGED <<seen, items, logged>>
    /\ UNCHANGED <<mailbox, passed>>

-----------------------------------------------------------------------------

\* on_processed does nothing: the mailbox is read-only.
SyncStep(f) ==
    \/ Backfill(f) \/ Incremental(f) \/ Bootstrap(f)
    \/ \E m \in Message : Keep(f, m) \/ AttachmentRaises(f, m)
                         \/ SkipUnreadable(f, m) \/ DropNonReceipt(f, m)
    \/ Return(f)

RouteStep(f) ==
    /\ \/ StartFetch(f) \/ Work(f) \/ ConnectionLost(f)
       \/ Reflect(f) /\ UNCHANGED faults
    /\ UNCHANGED <<mailbox, cursor, sync, passed>>

AbortFetch(f) ==
    /\ Abort(f)
    /\ sync' = [sync EXCEPT ![f] = NoSync]
    /\ UNCHANGED <<mailbox, cursor, passed>>

Next ==
    \/ \E m \in Message : Arrive(m)
    \/ Purge
    \/ \E f \in Fetcher : SyncStep(f) \/ RouteStep(f) \/ AbortFetch(f)

Spec == Init /\ [][Next]_gmailVars

\* The poller asks again and again; a fetch that has started runs on.
Fairness ==
    /\ WF_gmailVars(\E f \in Fetcher : StartFetch(f) /\ UNCHANGED <<mailbox, cursor, sync, passed>>)
    /\ \A f \in Fetcher :
          WF_gmailVars(SyncStep(f) \/ ((Work(f) \/ (Reflect(f) /\ UNCHANGED faults)) /\ UNCHANGED <<mailbox, cursor, sync, passed>>))

FairSpec == Spec /\ Fairness

-----------------------------------------------------------------------------
(* Properties *)

\* The messages that the stored history id covers: no delta lists them again.
Covered == IF cursor = NoCursor THEN {} ELSE Mail(0, cursor)

InHand ==
    UNION {sync[f].cand \union sync[f].got \union fetch[f].todo \union {fetch[f].msg} :
              f \in Fetcher}

\* While nothing fails, the history id never runs ahead of the mail: a message it
\* covers is seen, or a running fetch has it in hand, except for those that were
\* passed over.
NoMailMissed == faults = 0 => Covered \subseteq seen \union InHand \union passed

\* While nothing fails, every message that arrives is seen in the end, whatever
\* is purged from the history meanwhile, with the same exception and as long as no
\* broken message is waiting.
MailIsSeen ==
    \A m \in Message :
        m \in Arrived ~> (m \in seen \/ m \in passed \/ faults > 0
                            \/ \E b \in Broken : b \in Arrived \ seen)

\* inbox/gmail.py:_bootstrap_history_id: the messages that the probe reports may be
\* discarded because "the backfill just performed already covers them".
BackfillCovers == faults = 0 => Covered \subseteq seen \union InHand
=============================================================================
