----------------------------- MODULE GmailAccount -----------------------------
(***************************************************************************)
(* The Gmail account that the inbox reads: its refresh token is granted by  *)
(* Google, deployed in the environment and kept encrypted in the database,  *)
(* the copy in the database being the one that counts.  Polls use it while  *)
(* an operator revokes it, connects again or changes the encryption key.    *)
(***************************************************************************)
EXTENDS Naturals, FiniteSets

CONSTANTS
    Poll,       \* fetches in flight
    Token,      \* refresh tokens that Google may grant, from 1 on and in this order
    NoToken,    \* no row in oauth_tokens
    NoCursor,   \* no row in gmail_sync_state
    MaxKeys     \* bound on the encryption keys that are deployed in turn

ASSUME AccountAssumption ==
    /\ Token \subseteq Nat /\ 1 \in Token
    /\ MaxKeys \in Nat \ {0}

VARIABLES
    granted,   \* the tokens that Google honours (external)
    consents,  \* tokens granted so far
    env,       \* GMAIL_REFRESH_TOKEN of the deployed revision
    key,       \* GMAIL_TOKEN_ENC_KEY; 0: not set
    stored,    \* oauth_tokens: the token and the key it is encrypted with
    cursor,    \* gmail_sync_state: the grant whose mailbox it is a position in
    tool,      \* gmail_revoke: idle, or between Google and the database
    poll,      \* where each fetch is
    orderly    \* (ghost) see OrderlyReconnect

accountVars == <<granted, consents, env, key, stored, cursor, tool, poll, orderly>>

Sealed == [token : Token, key : 1..MaxKeys]

\* A fetch has the settings of the revision that it runs in.
Polling == [pc : {"load", "seal", "list", "save"}, env : Token, key : 0..MaxKeys, token : Token]

NoPoll == [pc |-> "idle"]

AccountTypeOK ==
    /\ granted \in SUBSET Token
    /\ consents \in Token
    /\ env \in Token
    /\ key \in 0..MaxKeys
    /\ stored \in Sealed \union {NoToken}
    /\ cursor \in Token \union {NoCursor}
    /\ tool \in {"idle", "clear"}
    /\ poll \in [Poll -> Polling \union {NoPoll}]
    /\ orderly \in {"no", "revoking", "cleared", "yes"}

AccountInit ==
    /\ granted = {1}
    /\ consents = 1
    /\ env = 1
    /\ key \in {0, 1}
    /\ stored = NoToken
    /\ cursor = NoCursor
    /\ tool = "idle"
    /\ poll = [p \in Poll |-> NoPoll]
    /\ orderly = "no"

-----------------------------------------------------------------------------
(* A poll: _build_gmail_inbox, _load_refresh_token and the fetch *)

PollAt(p, pc) == poll[p].pc = pc

Advance(p, j) == poll' = [poll EXCEPT ![p] = j]

Account == UNCHANGED <<granted, consents, env, key, tool>>

StartPoll(p) ==
    /\ PollAt(p, "idle")
    /\ Advance(p, [pc |-> "load", env |-> env, key |-> key, token |-> env])
    /\ orderly' = IF orderly \in {"revoking", "cleared"} THEN "no" ELSE orderly
    /\ Account /\ UNCHANGED <<stored, cursor>>

\* A row encrypted with another key, or none, is as good as no row.
Decrypted(s, k) == IF s # NoToken /\ s.key = k THEN {s.token} ELSE {}

\* The stored token wins; the one of the environment is stored where there is none.
LoadToken(p) ==
    /\ PollAt(p, "load")
    /\ LET j == poll[p]
       IN  IF j.key # 0 /\ stored = NoToken THEN Advance(p, [j EXCEPT !.pc = "seal"])
           ELSE Advance(p, [j EXCEPT !.pc = "list",
                                     !.token = IF Decrypted(stored, j.key) = {} THEN j.env
                                               ELSE CHOOSE t \in Decrypted(stored, j.key) : TRUE])
    /\ Account /\ UNCHANGED <<stored, cursor, orderly>>

Seal(p) ==
    /\ PollAt(p, "seal")
    /\ stored' = [token |-> poll[p].env, key |-> poll[p].key]
    /\ Advance(p, [poll[p] EXCEPT !.pc = "list"])
    /\ Account /\ UNCHANGED <<cursor, orderly>>

\* Google answers, or refuses to mint an access token for a token it does not honour.
List(p) ==
    /\ PollAt(p, "list")
    /\ Advance(p, IF poll[p].token \in granted THEN [poll[p] EXCEPT !.pc = "save"] ELSE NoPoll)
    /\ Account /\ UNCHANGED <<stored, cursor, orderly>>

SaveCursor(p) ==
    /\ PollAt(p, "save")
    /\ cursor' = poll[p].token
    /\ Advance(p, NoPoll)
    /\ Account /\ UNCHANGED <<stored, orderly>>

-----------------------------------------------------------------------------
(* The operator *)

\* gmail_revoke, first half: the token of the environment; Google may not answer.
Revoke ==
    /\ tool = "idle"
    /\ granted' \in {granted, granted \ {env}}
    /\ tool' = "clear"
    /\ orderly' = IF \A p \in Poll : PollAt(p, "idle") THEN "revoking" ELSE "no"
    /\ UNCHANGED <<consents, env, key, stored, cursor, poll>>

\* (mutant) the encrypted token is not cleared
ClearCursor ==
    /\ tool = "clear"
    /\ cursor' = NoCursor
    /\ tool' = "idle"
    /\ orderly' = IF orderly = "revoking" THEN "cleared" ELSE "no"
    /\ UNCHANGED <<granted, consents, env, key, stored, poll>>

\* _clear_local_state: both rows, in one transaction.
Clear ==
    /\ tool = "clear"
    /\ stored' = NoToken
    /\ cursor' = NoCursor
    /\ tool' = "idle"
    /\ orderly' = IF orderly = "revoking" THEN "cleared" ELSE "no"
    /\ UNCHANGED <<granted, consents, env, key, poll>>

ToolDies ==
    /\ tool = "clear"
    /\ tool' = "idle"
    /\ orderly' = "no"
    /\ UNCHANGED <<granted, consents, env, key, stored, cursor, poll>>

\* gmail_oauth_setup gets a new token, perhaps of another mailbox.
Consent ==
    /\ consents + 1 \in Token
    /\ consents' = consents + 1
    /\ granted' = granted \union {consents'}
    /\ UNCHANGED <<env, key, stored, cursor, tool, poll, orderly>>

\* A revision with the newest token; polls of the old revision go on.
Redeploy ==
    /\ env # consents
    /\ env' = consents
    /\ orderly' = IF orderly = "cleared" THEN "yes" ELSE "no"
    /\ UNCHANGED <<granted, consents, key, stored, cursor, tool, poll>>

RotateKey ==
    /\ key < MaxKeys
    /\ key' = key + 1
    /\ UNCHANGED <<granted, consents, env, stored, cursor, tool, poll, orderly>>

AccountNext ==
    \/ \E p \in Poll : StartPoll(p) \/ LoadToken(p) \/ Seal(p) \/ List(p) \/ SaveCursor(p)
    \/ Revoke \/ Clear \/ ToolDies \/ Consent \/ Redeploy \/ RotateKey

-----------------------------------------------------------------------------
(* Properties *)

\* "A subsequent connect starts from a clean slate" (gmail_revoke.py), provided no
\* poll is in flight or begins between the revocation and the deployment of the new
\* token: every later poll uses the new token, whatever key it is stored with, and
\* the cursor is a position in the new account's mailbox.
OrderlyReconnect ==
    orderly = "yes" =>
        /\ cursor \in {NoCursor, env}
        /\ \A p \in Poll : poll[p].pc \in {"list", "save"} => poll[p].token = env
=============================================================================
