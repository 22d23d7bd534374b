------------------------------ MODULE CertCache ------------------------------
(***************************************************************************)
(* Authentication of a request by an assertion of the proxy in front (IAP): *)
(* the public keys that verify it are fetched from Google and kept in one   *)
(* dictionary that all request threads read and write without a lock.       *)
(*                                                                         *)
(* Time is kept as ages, in units of one tick: what matters of a time stamp *)
(* is only whether it is older than one of three limits.  An age does not   *)
(* grow beyond its limit.  A token here has a good signature; what is in    *)
(* question is whether its key is known.                                    *)
(***************************************************************************)
EXTENDS Naturals, FiniteSets

CONSTANTS
    Client,      \* request threads
    Ttl,         \* _CERTS_TTL_SECONDS
    ForcedMin,   \* _FORCED_REFRESH_MIN_SECONDS
    Backoff,     \* _FAILURE_BACKOFF_SECONDS
    NoCerts,     \* nothing was ever fetched
    MaxOutages   \* bound on the outages of the key endpoint

ASSUME CertAssumption ==
    /\ {Ttl, ForcedMin, Backoff} \subseteq Nat \ {0}
    /\ MaxOutages \in Nat
    /\ \A certs \in SUBSET {1, 2} : NoCerts # certs

VARIABLES
    published,   \* the keys that Google publishes (external)
    outages,     \* outages of the key endpoint so far
    up,          \* the key endpoint answers (external)
    cache,       \* _certs_cache: certs, and the ages of fetched_at, forced_at, failed_at
    client       \* where each request is, with its local values

certVars == <<published, outages, up, cache, client>>

KeyId == {1, 2}
Certs == (SUBSET KeyId) \union {NoCerts}

Cache == [certs : Certs, fetched : 0..Ttl, forced : 0..ForcedMin, failed : 0..Backoff]

\* since: the age of "now" while it matters; had: (ghost) there were keys when the
\* request began.
Asker == [pc    : {"idle", "look", "weigh", "ask", "store", "verify", "unavailable"},
          kid   : KeyId,
          force : BOOLEAN,
          certs : Certs,
          since : 0..Ttl,
          had   : BOOLEAN]

NoAsker == [pc |-> "idle", kid |-> 1, force |-> FALSE, certs |-> NoCerts,
            since |-> 0, had |-> FALSE]

CertTypeOK ==
    /\ published \in SUBSET KeyId
    /\ outages \in 0..MaxOutages
    /\ up \in BOOLEAN
    /\ cache \in Cache
    /\ client \in [Client -> Asker]

\* A time stamp that is None is as good as one beyond its limit.
CertInit ==
    /\ published = {1}
    /\ outages = 0
    /\ up = TRUE
    /\ cache = [certs |-> NoCerts, fetched |-> Ttl, forced |-> ForcedMin, failed |-> Backoff]
    /\ client = [c \in Client |-> NoAsker]

-----------------------------------------------------------------------------
(* The world *)

Older(age, limit) == IF age < limit THEN age + 1 ELSE limit

Tick ==
    /\ cache' = [cache EXCEPT !.fetched = Older(@, Ttl), !.forced = Older(@, ForcedMin),
                              !.failed = Older(@, Backoff)]
    /\ client' = [c \in Client |->
                     IF client[c].pc \in {"ask", "store"}
                     THEN [client[c] EXCEPT !.since = Older(@, Ttl)] ELSE client[c]]
    /\ UNCHANGED <<published, outages, up>>

\* The new key is published beside the old one, which is retired later.
Rotate ==
    /\ published' = CASE published = {1} -> {1, 2} [] OTHER -> {2}
    /\ published' # published
    /\ UNCHANGED <<outages, up, cache, client>>

Outage ==
    /\ up /\ outages < MaxOutages
    /\ up' = FALSE
    /\ outages' = outages + 1
    /\ UNCHANGED <<published, cache, client>>

Repair ==
    /\ ~up
    /\ up' = TRUE
    /\ UNCHANGED <<published, outages, cache, client>>

-----------------------------------------------------------------------------
(* verify_iap_assertion and _fetch_certs *)

ClientAt(c, pc) == client[c].pc = pc

World == UNCHANGED <<published, outages, up>>

Step(c, j) == client' = [client EXCEPT ![c] = j] /\ World

\* A request with a token that is signed with a key in use.
Authenticate(c, kid) ==
    /\ ClientAt(c, "idle")
    /\ kid \in published
    /\ Step(c, [NoAsker EXCEPT !.pc = "look", !.kid = kid, !.had = cache.certs # NoCerts])
    /\ UNCHANGED cache

\* The keys are read first, the time stamps after them.
ReadCerts(c) ==
    /\ ClientAt(c, "look")
    /\ Step(c, [client[c] EXCEPT !.pc = "weigh", !.certs = cache.certs])
    /\ UNCHANGED cache

\* (mutant) keys that were fetched once are good for ever
FreshForEver(c) == client[c].certs # NoCerts /\ ~client[c].force

Fresh(c) == client[c].certs # NoCerts /\ ~client[c].force /\ cache.fetched < Ttl

Limited(c) == client[c].certs # NoCerts /\ client[c].force /\ cache.forced < ForcedMin

BackingOff(c) == client[c].certs = NoCerts /\ cache.failed < Backoff

UseCached(c) ==
    /\ ClientAt(c, "weigh")
    /\ Fresh(c) \/ Limited(c)
    /\ Step(c, [client[c] EXCEPT !.pc = "verify"])
    /\ UNCHANGED cache

FailFast(c) ==
    /\ ClientAt(c, "weigh")
    /\ BackingOff(c)
    /\ Step(c, [client[c] EXCEPT !.pc = "unavailable"])
    /\ UNCHANGED cache

\* forced_at is written before the call; the call is under way when it returns.
Fetch(c) ==
    /\ ClientAt(c, "weigh")
    /\ ~(Fresh(c) \/ Limited(c) \/ BackingOff(c))
    /\ cache' = IF client[c].certs # NoCerts /\ client[c].force
                THEN [cache EXCEPT !.forced = 0] ELSE cache
    /\ Step(c, [client[c] EXCEPT !.pc = "ask", !.since = 0])

\* The endpoint's answer is what it publishes at that moment; it may be stored late.
Answered(c) ==
    /\ ClientAt(c, "ask")
    /\ up
    /\ Step(c, [client[c] EXCEPT !.pc = "store", !.certs = published])
    /\ UNCHANGED cache

\* fetched_at is the time at which this call looked, not the time of the answer.
Store(c) ==
    /\ ClientAt(c, "store")
    /\ cache' = [cache EXCEPT !.certs = client[c].certs, !.fetched = client[c].since,
                              !.failed = Backoff]
    /\ Step(c, [client[c] EXCEPT !.pc = "verify", !.since = 0])

FailedAt(age) == [cache EXCEPT !.failed = IF age < Backoff THEN age ELSE Backoff]

\* (mutant) a failed fetch is an outage, whatever was fetched before
LockOut(c) ==
    /\ ClientAt(c, "ask")
    /\ ~up
    /\ cache' = FailedAt(client[c].since)
    /\ Step(c, [client[c] EXCEPT !.pc = "unavailable"])

\* Old keys, where there are any, are better than none.
FallBack(c) ==
    /\ ClientAt(c, "ask")
    /\ ~up
    /\ cache' = FailedAt(client[c].since)
    /\ Step(c, [client[c] EXCEPT !.pc = IF client[c].certs = NoCerts THEN "unavailable"
                                        ELSE "verify",
                                 !.since = 0])

\* The request goes on (its key is known) or gets 401.  An unknown key id is tried
\* again first, once, with a forced fetch.
Verify(c) ==
    /\ ClientAt(c, "verify")
    /\ Step(c, IF client[c].kid \in client[c].certs \/ client[c].force THEN NoAsker
               ELSE [client[c] EXCEPT !.pc = "look", !.force = TRUE, !.certs = NoCerts])
    /\ UNCHANGED cache

Unavailable(c) ==
    /\ ClientAt(c, "unavailable")
    /\ Step(c, NoAsker)
    /\ UNCHANGED cache

Handle(c) ==
    \/ ReadCerts(c) \/ UseCached(c) \/ FailFast(c) \/ Fetch(c)
    \/ Answered(c) \/ Store(c) \/ FallBack(c) \/ Verify(c) \/ Unavailable(c)

CertNext ==
    \/ Tick \/ Rotate \/ Outage \/ Repair
    \/ \E c \in Client : Handle(c) \/ \E kid \in KeyId : Authenticate(c, kid)

\* Time goes on, an outage ends, a request that was received is handled, and users
\* keep coming back with each key that is in use.
CertFairness ==
    /\ WF_certVars(Tick) /\ WF_certVars(Repair)
    /\ \A c \in Client : WF_certVars(Handle(c))
    /\ \A kid \in KeyId : SF_certVars(\E c \in Client : Authenticate(c, kid))

-----------------------------------------------------------------------------
(* Properties *)

\* "Stale beats locking everyone out" (auth.py): once keys have been fetched, no
\* request that begins gets 503, whatever fails and however fetches overlap.
StaleBeatsLockout == \A c \in Client : ClientAt(c, "unavailable") => ~client[c].had

\* When the rotation of the keys is over, the cache settles on the keys in use: no
\* answer that was overtaken, outage or refresh limit keeps a new key out or a
\* retired key in for good.
KeysFollow == <>[](cache.certs = published)
=============================================================================
