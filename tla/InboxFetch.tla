----------------------------- MODULE InboxFetch -----------------------------
(***************************************************************************)
(* POST /api/inbox/fetch: the route that pulls messages from the inbox     *)
(* provider and runs each new one through the pipeline, under the advisory *)
(* lock of Postgres.  The provider is abstract here: its fetch_messages    *)
(* returns any messages, and may mark non-receipts as seen on its way.     *)
(* GmailInbox and DriveInbox replace it by the real ones.                  *)
(*                                                                         *)
(* A fetcher is a request thread: the poller's, or a click in the hub.     *)
(* The order in which a provider lists is its own affair, so a listing is  *)
(* a set, taken in any order; an id that is listed twice is skipped by     *)
(* is_seen the second time.                                                *)
(***************************************************************************)
EXTENDS Naturals, FiniteSets

CONSTANTS
    Message,        \* message ids
    Receipt,        \* the messages that the receipt filter always lets through
    Poison,         \* the messages for which process() raises before it stores an item
    Fetcher,        \* request threads
    NoFetcher,      \* the owner of a free lock
    NoMessage,      \* no message is being worked on
    MaxFaults       \* bound on the faults of a behaviour

ASSUME FetchAssumption ==
    /\ Receipt \subseteq Message
    /\ Poison \subseteq Message
    /\ IsFiniteSet(Fetcher)
    /\ NoFetcher \notin Fetcher
    /\ NoMessage \notin Message
    /\ MaxFaults \in Nat

VARIABLES
    seen,     \* table seen_messages
    lock,     \* the session that holds the advisory lock
    items,    \* how many items process() has stored for each message
    logged,   \* messages that were given up with an entry in the log
    fetch,    \* what each fetcher is doing
    faults    \* how many faults have happened

routeVars == <<seen, lock, items, logged, fetch, faults>>

Fetch == [pc   : {"idle", "list", "next", "process", "mark", "reflect"},
          todo : SUBSET Message,
          msg  : Message \union {NoMessage},
          ok   : BOOLEAN]

NoFetch == [pc |-> "idle", todo |-> {}, msg |-> NoMessage, ok |-> FALSE]

RouteTypeOK ==
    /\ seen \subseteq Message
    /\ lock \in Fetcher \union {NoFetcher}
    /\ items \in [Message -> Nat]
    /\ logged \subseteq Message
    /\ fetch \in [Fetcher -> Fetch]
    /\ faults \in 0..MaxFaults

RouteInit ==
    /\ seen = {}
    /\ lock = NoFetcher
    /\ items = [m \in Message |-> 0]
    /\ logged = {}
    /\ fetch = [f \in Fetcher |-> NoFetch]
    /\ faults = 0

-----------------------------------------------------------------------------

At(f, pc) == fetch[f].pc = pc

Goto(f, j) == fetch' = [fetch EXCEPT ![f] = j]

Fault == faults < MaxFaults /\ faults' = faults + 1

\* (mutant) an error or the end of the loop leaves the session lock behind
LockKept(f) == Goto(f, NoFetch) /\ UNCHANGED lock

\* The end of the with block: a fetcher frees the lock that is still its own.
Ended(f) ==
    /\ Goto(f, NoFetch)
    /\ lock' = IF lock = f THEN NoFetcher ELSE lock

\* (mutant) a fetch goes ahead without the lock
NotAsked == TRUE

LockFree == lock = NoFetcher

\* pg_try_advisory_lock; a refusal (409) changes nothing.
StartFetch(f) ==
    /\ At(f, "idle")
    /\ LockFree
    /\ lock' = f
    /\ Goto(f, [NoFetch EXCEPT !.pc = "list"])
    /\ UNCHANGED <<seen, items, logged, faults>>

\* The receipt filter of the provider drops a message: logged, and marked seen.
Drop(f, m) ==
    /\ At(f, "list")
    /\ m \notin Receipt
    /\ seen' = seen \union {m}
    /\ logged' = logged \union {m}
    /\ \/ UNCHANGED <<lock, fetch, faults>>
       \/ Ended(f) /\ Fault
    /\ UNCHANGED items

\* Errors that a provider handles by itself are faults, too.
Handled == UNCHANGED faults \/ Fault

List(f, msgs) ==
    /\ At(f, "list")
    /\ Goto(f, [fetch[f] EXCEPT !.pc = "next", !.todo = msgs])
    /\ Handled
    /\ UNCHANGED <<seen, lock, items, logged>>

\* fetch_messages raises: the request ends before it has any message.
ListRaises(f) ==
    /\ At(f, "list")
    /\ Ended(f)
    /\ UNCHANGED <<seen, items, logged, faults>>

Skip(f, m) ==
    /\ At(f, "next")
    /\ m \in fetch[f].todo
    /\ m \in seen
    /\ Goto(f, [fetch[f] EXCEPT !.todo = @ \ {m}])
    /\ UNCHANGED <<seen, lock, items, logged, faults>>

\* (mutant) seen is stored before the message is processed
TakeMarked(f, m) ==
    /\ At(f, "next")
    /\ m \in fetch[f].todo
    /\ m \notin seen
    /\ seen' = seen \union {m}
    /\ Goto(f, [fetch[f] EXCEPT !.pc = "process", !.todo = @ \ {m}, !.msg = m])
    /\ UNCHANGED <<lock, items, logged, faults>>

Take(f, m) ==
    /\ At(f, "next")
    /\ m \in fetch[f].todo
    /\ m \notin seen
    /\ Goto(f, [fetch[f] EXCEPT !.pc = "process", !.todo = @ \ {m}, !.msg = m])
    /\ UNCHANGED <<seen, lock, items, logged, faults>>

\* process(): it stores the item and runs the pipeline to an end, or an error
\* escapes from it after the item was stored, or before.
Ingest(f) ==
    /\ At(f, "process")
    /\ fetch[f].msg \notin Poison
    /\ items' = [items EXCEPT ![fetch[f].msg] = @ + 1]
    /\ \/ Goto(f, [fetch[f] EXCEPT !.pc = "mark", !.ok = TRUE]) /\ UNCHANGED <<faults, logged>>
       \/ /\ Goto(f, [fetch[f] EXCEPT !.pc = "mark", !.ok = FALSE])
          /\ logged' = logged \union {fetch[f].msg}
          /\ Fault
    /\ UNCHANGED <<seen, lock>>

\* (mutant) the error ends the request, and the message is not marked
RaiseEscapes(f) ==
    /\ At(f, "process")
    /\ \/ fetch[f].msg \in Poison /\ UNCHANGED faults
       \/ Fault
    /\ logged' = logged \union {fetch[f].msg}
    /\ Ended(f)
    /\ UNCHANGED <<seen, items>>

\* (mutant) the handler of the error has lost the message it was about
IngestForgets(f) ==
    /\ At(f, "process")
    /\ \/ fetch[f].msg \in Poison /\ UNCHANGED faults
       \/ Fault
    /\ logged' = logged \union {fetch[f].msg}
    /\ Goto(f, [fetch[f] EXCEPT !.pc = "mark", !.msg = NoMessage, !.ok = FALSE])
    /\ UNCHANGED <<seen, lock, items>>

IngestRaises(f) ==
    /\ At(f, "process")
    /\ \/ fetch[f].msg \in Poison /\ UNCHANGED faults
       \/ Fault
    /\ logged' = logged \union {fetch[f].msg}
    /\ Goto(f, [fetch[f] EXCEPT !.pc = "mark", !.ok = FALSE])
    /\ UNCHANGED <<seen, lock, items>>

\* mark_seen; a lost acknowledgement ends the request with an error.
MarkSeen(f) ==
    /\ At(f, "mark")
    /\ seen' = seen \union {fetch[f].msg}
    /\ \/ /\ Goto(f, IF fetch[f].ok
                     THEN [fetch[f] EXCEPT !.pc = "reflect", !.ok = FALSE]
                     ELSE [fetch[f] EXCEPT !.pc = "next", !.msg = NoMessage])
          /\ UNCHANGED <<lock, faults>>
       \/ Ended(f) /\ Fault
    /\ UNCHANGED <<items, logged>>

\* on_processed, which handles its own errors, and the summary for the answer.
Reflect(f) ==
    /\ At(f, "reflect")
    /\ Goto(f, [fetch[f] EXCEPT !.pc = "next", !.msg = NoMessage])
    /\ Handled
    /\ UNCHANGED <<seen, lock, items, logged>>

Finish(f) ==
    /\ At(f, "next")
    /\ fetch[f].todo = {}
    /\ Ended(f)
    /\ UNCHANGED <<seen, items, logged, faults>>

\* The provider or the database raises, or the thread dies.  In all cases the
\* fetch is over, what it had stored stays, and its lock is free.
Abort(f) ==
    /\ ~At(f, "idle")
    /\ Ended(f)
    /\ Fault
    /\ UNCHANGED <<seen, items, logged>>

\* The connection that holds the lock dies; the fetch goes on without noticing.
ConnectionLost(f) ==
    /\ lock = f
    /\ lock' = NoFetcher
    /\ Fault
    /\ UNCHANGED <<seen, items, logged, fetch>>

\* What a running fetch does by itself after its listing is there.
Work(f) ==
    \/ \E m \in Message : Skip(f, m) \/ Take(f, m)
    \/ Ingest(f) \/ IngestRaises(f) \/ MarkSeen(f) \/ Finish(f)

RouteNext ==
    \E f \in Fetcher :
        \/ StartFetch(f)
        \/ \E m \in Message : Drop(f, m)
        \/ \E msgs \in SUBSET Message : List(f, msgs)
        \/ ListRaises(f)
        \/ Work(f)
        \/ Reflect(f)
        \/ Abort(f)
        \/ ConnectionLost(f)

RouteSpec == RouteInit /\ [][RouteNext]_routeVars

-----------------------------------------------------------------------------
(* Safety, with any provider *)

\* A message becomes one item; each fault (a crash between process and mark_seen,
\* a lock lost with its connection) may add one more (main.py, #0005).
OneItemPerMessage == \A m \in Message : items[m] <= 1 + faults

\* The lock belongs to a fetch that runs: a pooled connection never keeps it after
\* the fetch is over, which would answer 409 to every later one
\* (repository.inbox_fetch_lock).
NoLeakedLock == \A f \in Fetcher : lock = f => ~At(f, "idle")

\* A message that will never be looked at again has become an item, or the log
\* says why not.
SeenIsProcessed == \A m \in seen : items[m] > 0 \/ m \in logged
=============================================================================
