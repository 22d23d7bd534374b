---------------------------- MODULE ServiceProofs ----------------------------
(***************************************************************************)
(* Proofs about the mechanisms beside the pipeline: for any number of       *)
(* threads, releases and polls, and any limits.                             *)
(***************************************************************************)
EXTENDS Service, SequenceTheorems, FiniteSetTheorems, TLAPS

\* Each mechanism takes its own steps and no other touches its variables.
LEMMA OwnSteps ==
  ASSUME [Next]_vars
  PROVE  /\ [CertNext]_certVars
         /\ [PageNext]_pageVars
         /\ [MigrationNext]_migrationVars
         /\ [AccountNext]_accountVars
BY DEF Next, vars

-----------------------------------------------------------------------------
(* The key cache *)

\* A request that came when there were keys still has some.
KeysStay ==
    \A c \in Client :
        client[c].had =>
            /\ cache.certs # NoCerts
            /\ client[c].pc \in {"weigh", "ask", "store", "verify"} => client[c].certs # NoCerts

\* An answer has keys.
StoredKeys == \A c \in Client : client[c].pc = "store" => client[c].certs # NoCerts

ICert == CertTypeOK /\ KeysStay /\ StoredKeys /\ StaleBeatsLockout

LEMMA CertInitial == CertInit => ICert
<1> SUFFICES ASSUME CertInit PROVE ICert
  OBVIOUS
<1>1. NoAsker \in Asker /\ ~NoAsker.had /\ NoAsker.pc = "idle"
  BY CertAssumption DEF NoAsker, Asker, Certs, KeyId
<1>2. CertTypeOK
  BY <1>1, CertAssumption DEF CertInit, CertTypeOK, Cache, Certs, KeyId
<1> QED BY <1>1, <1>2 DEF CertInit, ICert, KeysStay, StoredKeys, StaleBeatsLockout, ClientAt

\* What a request may do: it becomes j, and the keys in the cache do not vanish.
LEMMA CertMove ==
  ASSUME ICert, NEW c \in Client, NEW j \in Asker, Step(c, j), cache' \in Cache,
         cache.certs # NoCerts => cache'.certs # NoCerts,
         j.pc = "store" => j.certs # NoCerts,
         j.had => /\ cache'.certs # NoCerts
                  /\ j.pc \in {"weigh", "ask", "store", "verify"} => j.certs # NoCerts
                  /\ j.pc # "unavailable"
  PROVE  ICert'
<1>1. /\ client' \in [Client -> Asker]
      /\ client'[c] = j
      /\ \A d \in Client \ {c} : client'[d] = client[d]
  BY DEF Step, ICert, CertTypeOK
<1>2. CertTypeOK'
  BY <1>1 DEF Step, World, ICert, CertTypeOK
<1>3. KeysStay' /\ StoredKeys'
  BY <1>1 DEF ICert, KeysStay, StoredKeys
<1>4. StaleBeatsLockout'
  BY <1>1 DEF ICert, StaleBeatsLockout, ClientAt
<1> QED BY <1>2, <1>3, <1>4 DEF ICert

LEMMA CertStep ==
  ASSUME ICert, [CertNext]_certVars
  PROVE  ICert'
<1>t. CertTypeOK /\ KeysStay /\ StoredKeys /\ StaleBeatsLockout
  BY DEF ICert
<1>n. /\ Ttl \in Nat /\ ForcedMin \in Nat /\ Backoff \in Nat
      /\ 0 \in 0..Ttl /\ 0 \in 0..ForcedMin /\ Backoff \in 0..Backoff
      /\ NoCerts \notin SUBSET KeyId
  BY CertAssumption DEF KeyId
<1>o. ASSUME NEW limit \in Nat, NEW age \in 0..limit
      PROVE  Older(age, limit) \in 0..limit
  BY DEF Older
<1>0. CASE UNCHANGED certVars
  BY <1>0, <1>t DEF certVars, ICert, CertTypeOK, KeysStay, StoredKeys, StaleBeatsLockout, ClientAt
<1>1. CASE Tick
  <2>1. cache' \in Cache /\ cache'.certs = cache.certs
    <3>1. cache \in Cache
      BY <1>t DEF CertTypeOK
    <3>2. /\ Older(cache.fetched, Ttl) \in 0..Ttl
          /\ Older(cache.forced, ForcedMin) \in 0..ForcedMin
          /\ Older(cache.failed, Backoff) \in 0..Backoff
      BY <3>1, <1>n, <1>o DEF Cache
    <3> QED BY <1>1, <3>1, <3>2 DEF Tick, Cache
  <2>2. \A c \in Client :
           /\ client'[c] \in Asker /\ client'[c].had = client[c].had
           /\ client'[c].pc = client[c].pc /\ client'[c].certs = client[c].certs
    BY <1>1, <1>t, <1>n DEF Tick, Older, CertTypeOK, Asker
  <2>3. client' \in [Client -> Asker]
    BY <1>1, <2>2 DEF Tick
  <2> QED BY <1>1, <1>t, <2>1, <2>2, <2>3
          DEF Tick, ICert, CertTypeOK, KeysStay, StoredKeys, StaleBeatsLockout, ClientAt
<1>2. CASE Rotate \/ Outage \/ Repair
  <2>1. UNCHANGED <<cache, client>> /\ up' \in BOOLEAN
    BY <1>2, <1>t DEF Rotate, Outage, Repair, CertTypeOK
  <2>2. published' \in SUBSET KeyId
    <3>1. {1, 2} \in SUBSET KeyId /\ {2} \in SUBSET KeyId
      BY DEF KeyId
    <3> QED BY <1>2, <1>t, <3>1 DEF Rotate, Outage, Repair, CertTypeOK
  <2>3. outages' \in 0..MaxOutages
    <3>1. outages \in 0..MaxOutages /\ MaxOutages \in Nat
      BY <1>t, CertAssumption DEF CertTypeOK
    <3>2. CASE Outage
      BY <3>1, <3>2 DEF Outage
    <3>3. CASE Rotate \/ Repair
      BY <3>1, <3>3 DEF Rotate, Repair
    <3> QED BY <1>2, <3>2, <3>3
  <2> QED BY <1>t, <2>1, <2>2, <2>3
          DEF ICert, CertTypeOK, KeysStay, StoredKeys, StaleBeatsLockout, ClientAt
<1>3. ASSUME NEW c \in Client, NEW kid \in KeyId, Authenticate(c, kid)
      PROVE  ICert'
  <2> DEFINE j == [NoAsker EXCEPT !.pc = "look", !.kid = kid, !.had = cache.certs # NoCerts]
  <2>1. j \in Asker /\ j.pc = "look" /\ (j.had => cache.certs # NoCerts)
    BY <1>n DEF NoAsker, Asker, Certs
  <2>2. Step(c, j) /\ cache' = cache /\ cache \in Cache
    BY <1>3, <1>t DEF Authenticate, CertTypeOK
  <2> QED BY <2>1, <2>2, CertMove
<1>4. ASSUME NEW c \in Client, Handle(c)
      PROVE  ICert'
  <2>a. client[c] \in Asker /\ cache \in Cache /\ published \in SUBSET KeyId
    BY <1>t DEF CertTypeOK
  <2>h. client[c].had =>
            /\ cache.certs # NoCerts
            /\ client[c].pc \in {"weigh", "ask", "store", "verify"} => client[c].certs # NoCerts
    BY <1>t DEF KeysStay
  <2>1. CASE ReadCerts(c)
    <3> DEFINE j == [client[c] EXCEPT !.pc = "weigh", !.certs = cache.certs]
    <3>1. j \in Asker /\ j.pc = "weigh" /\ j.certs = cache.certs /\ j.had = client[c].had
      BY <2>a DEF Asker, Cache
    <3>2. Step(c, j) /\ cache' = cache
      BY <2>1 DEF ReadCerts
    <3> QED BY <2>a, <2>h, <3>1, <3>2, CertMove
  <2>2. CASE UseCached(c) \/ FailFast(c)
    <3> DEFINE j(pc) == [client[c] EXCEPT !.pc = pc]
    <3>1. \A pc \in {"verify", "unavailable"} :
             j(pc) \in Asker /\ j(pc).pc = pc /\ j(pc).certs = client[c].certs
             /\ j(pc).had = client[c].had
      BY <2>a DEF Asker
    <3>2. CASE UseCached(c)
      <4>1. Step(c, j("verify")) /\ cache' = cache /\ client[c].pc = "weigh"
        BY <3>2 DEF UseCached, ClientAt
      <4> QED BY <2>a, <2>h, <3>1, <4>1, CertMove
    <3>3. CASE FailFast(c)
      <4>1. /\ Step(c, j("unavailable")) /\ cache' = cache
            /\ client[c].pc = "weigh" /\ client[c].certs = NoCerts
        BY <3>3 DEF FailFast, BackingOff, ClientAt
      <4> QED BY <2>a, <2>h, <3>1, <4>1, CertMove
    <3> QED BY <2>2, <3>2, <3>3
  <2>3. CASE Fetch(c)
    <3> DEFINE j == [client[c] EXCEPT !.pc = "ask", !.since = 0]
    <3>1. j \in Asker /\ j.pc = "ask" /\ j.certs = client[c].certs /\ j.had = client[c].had
      BY <2>a, <1>n DEF Asker
    <3>2. Step(c, j) /\ client[c].pc = "weigh"
      BY <2>3 DEF Fetch, ClientAt
    <3>3. cache' \in Cache /\ cache'.certs = cache.certs
      BY <2>3, <2>a, <1>n DEF Fetch, Cache
    <3> QED BY <2>h, <3>1, <3>2, <3>3, CertMove
  <2>4. CASE Answered(c)
    <3> DEFINE j == [client[c] EXCEPT !.pc = "store", !.certs = published]
    <3>1. j \in Asker /\ j.pc = "store" /\ j.certs # NoCerts /\ j.had = client[c].had
      BY <2>a, <1>n DEF Asker, Certs
    <3>2. Step(c, j) /\ cache' = cache
      BY <2>4 DEF Answered
    <3> QED BY <2>a, <2>h, <3>1, <3>2, CertMove
  <2>5. CASE Store(c)
    <3> DEFINE j == [client[c] EXCEPT !.pc = "verify", !.since = 0]
    <3>1. j \in Asker /\ j.pc = "verify" /\ j.certs = client[c].certs /\ j.had = client[c].had
      BY <2>a, <1>n DEF Asker
    <3>2. Step(c, j) /\ client[c].pc = "store"
      BY <2>5 DEF Store, ClientAt
    <3>3. cache' \in Cache /\ cache'.certs = client[c].certs
      BY <2>5, <2>a, <1>n DEF Store, Cache, Asker
    <3>4. client[c].certs # NoCerts
      BY <3>2, <1>t DEF StoredKeys
    <3> QED BY <2>h, <3>1, <3>2, <3>3, <3>4, CertMove
  <2>6. CASE FallBack(c)
    <3> DEFINE j == [client[c] EXCEPT !.pc = IF client[c].certs = NoCerts THEN "unavailable"
                                             ELSE "verify",
                                      !.since = 0]
    <3>1. /\ j \in Asker /\ j.certs = client[c].certs /\ j.had = client[c].had
          /\ j.pc = IF client[c].certs = NoCerts THEN "unavailable" ELSE "verify"
      BY <2>a, <1>n DEF Asker
    <3>2. Step(c, j) /\ client[c].pc = "ask"
      BY <2>6 DEF FallBack, ClientAt
    <3>3. cache' \in Cache /\ cache'.certs = cache.certs
      BY <2>6, <2>a, <1>n DEF FallBack, FailedAt, Cache, Asker
    <3> HIDE DEF j
    <3> QED BY <2>h, <3>1, <3>2, <3>3, CertMove
  <2>7. CASE Verify(c) \/ Unavailable(c)
    <3> DEFINE j == [client[c] EXCEPT !.pc = "look", !.force = TRUE, !.certs = NoCerts]
    <3>1. j \in Asker /\ j.pc = "look" /\ j.had = client[c].had
      BY <2>a DEF Asker, Certs
    <3>2. NoAsker \in Asker /\ ~NoAsker.had /\ NoAsker.pc = "idle"
      BY <1>n DEF NoAsker, Asker, Certs, KeyId
    <3>3. cache' = cache /\ (Step(c, j) \/ Step(c, NoAsker))
      BY <2>7 DEF Verify, Unavailable
    <3> HIDE DEF j
    <3>4. CASE Step(c, j)
      BY <2>a, <2>h, <3>1, <3>3, <3>4, CertMove
    <3>5. CASE Step(c, NoAsker)
      BY <2>a, <3>2, <3>3, <3>5, CertMove
    <3> QED BY <3>3, <3>4, <3>5
  <2> QED BY <1>4, <2>1, <2>2, <2>3, <2>4, <2>5, <2>6, <2>7 DEF Handle
<1> QED BY <1>0, <1>1, <1>2, <1>3, <1>4 DEF CertNext

-----------------------------------------------------------------------------
(* The migrations *)

\* Only the holder of the advisory lock is past it.
LockHeld == \A r \in Runner : runner[r].pc \in {"check", "run"} => holder = r

\* A run has come to a file when all files before it are recorded, and it executes one
\* that is not recorded itself.
InOrder ==
    \A r \in Runner :
        runner[r].pc # "stopped" =>
            /\ runner[r].at <= runner[r].release
            /\ \A m \in File : m < runner[r].at => m \in done
            /\ RunnerAt(r, "run") => runner[r].at \in File \ done

\* What a request to /ready has found stays so.
FoundReady == probe.pc = "ready" => 1..probe.release \subseteq done

IMigration ==
    MigrationTypeOK /\ LockHeld /\ InOrder /\ FoundReady /\ SchemaMatchesVersions

LEMMA MigrationInitial == MigrationInit => IMigration
<1> SUFFICES ASSUME MigrationInit PROVE IMigration
  OBVIOUS
<1>1. MigrationTypeOK
  <2>1. 0 \in 0..MaxDeploys
    BY MigrationAssumption
  <2> QED BY <2>1 DEF MigrationInit, MigrationTypeOK
<1>2. \A r \in Runner : runner[r].pc = "stopped"
  BY DEF MigrationInit, Stopped
<1>3. probe.pc = "unasked"
  BY DEF MigrationInit, Unasked
<1> QED BY <1>1, <1>2, <1>3
        DEF MigrationInit, IMigration, LockHeld, InOrder, FoundReady, SchemaMatchesVersions,
            RunnerAt

\* One run takes a step: what it may do to itself, the lock and the schema.
LEMMA RunnerMove ==
  ASSUME IMigration, NEW r \in Runner, NEW j \in Running \union {Stopped},
         runner' = [runner EXCEPT ![r] = j],
         table' \in BOOLEAN, deploys' \in 0..MaxDeploys, UNCHANGED probe,
         done \subseteq done', done' \in SUBSET File, effect' \in [File -> Nat],
         \A m \in File : effect'[m] = IF m \in done' THEN 1 ELSE 0,
         \A m \in done' : 1..m \subseteq done',
         done' # done => holder = r,
         holder' \in {holder, r, NoRunner},
         holder' = NoRunner => (holder \in {r, NoRunner} /\ j.pc \notin {"check", "run"}),
         holder' = r => holder \in {r, NoRunner},
         j.pc \in {"check", "run"} => holder' = r,
         j.pc # "stopped" => /\ j.at <= j.release
                             /\ \A m \in File : m < j.at => m \in done'
                             /\ j.pc = "run" => j.at \in File \ done'
  PROVE  IMigration'
<1>t. MigrationTypeOK /\ LockHeld /\ InOrder /\ FoundReady
  BY DEF IMigration
<1>1. /\ runner' \in [Runner -> Running \union {Stopped}]
      /\ runner'[r] = j
      /\ \A q \in Runner \ {r} : runner'[q] = runner[q]
  BY <1>t DEF MigrationTypeOK
<1>2. MigrationTypeOK'
  BY <1>1, <1>t DEF MigrationTypeOK
<1>3. LockHeld'
  BY <1>1, <1>t, MigrationAssumption DEF LockHeld
<1>4. InOrder'
  <2>1. ASSUME NEW q \in Runner \ {r}, runner[q].pc = "run"
        PROVE  done' = done
    BY <1>t, <2>1 DEF LockHeld
  <2> QED BY <1>1, <1>t, <2>1 DEF InOrder, RunnerAt
<1>5. FoundReady' /\ SchemaMatchesVersions'
  BY <1>t DEF FoundReady, SchemaMatchesVersions
<1> QED BY <1>2, <1>3, <1>4, <1>5 DEF IMigration

\* Where a run is when its transaction has ended.
LEMMA Finished ==
  ASSUME IMigration, NEW r \in Runner, RunnerAt(r, "check") \/ RunnerAt(r, "run"),
         NEW done1, done \subseteq done1, runner[r].at # 0 => runner[r].at \in done1,
         Finish(r)
  PROVE  \E j \in Running \union {Stopped} :
            /\ runner' = [runner EXCEPT ![r] = j]
            /\ j.pc \notin {"check", "run"}
            /\ j.pc # "stopped" => /\ j.at <= j.release
                                   /\ \A m \in File : m < j.at => m \in done1
<1> DEFINE k == runner[r]
           n == [pc |-> "begin", release |-> k.release, at |-> k.at + 1, ran |-> 0]
<1>1. k \in Running /\ k.at <= k.release /\ (\A m \in File : m < k.at => m \in done)
  BY DEF IMigration, MigrationTypeOK, InOrder, RunnerAt, Stopped
<1>2. CASE k.at = k.release
  <2>1. runner' = [runner EXCEPT ![r] = Stopped] /\ Stopped.pc = "stopped"
    BY <1>2 DEF Finish, Stopped
  <2> QED BY <2>1
<1>3. CASE k.at # k.release
  <2>1. n \in Running /\ n.pc = "begin" /\ n.at = k.at + 1 /\ n.release = k.release
    BY <1>1, <1>3, MigrationAssumption DEF Running, File
  <2>2. runner' = [runner EXCEPT ![r] = n]
    BY <1>3 DEF Finish
  <2>3. k.at \in Nat /\ k.release \in Nat
    BY <1>1, MigrationAssumption DEF Running, File
  <2>4. \A m \in File : m < n.at => m \in done1
    BY <1>1, <2>1, <2>3 DEF File
  <2>5. n.at <= n.release
    BY <1>1, <1>3, <2>1, <2>3
  <2> HIDE DEF n
  <2> QED BY <2>1, <2>2, <2>4, <2>5
<1> QED BY <1>2, <1>3

LEMMA MigrationStep ==
  ASSUME IMigration, [MigrationNext]_migrationVars
  PROVE  IMigration'
<1>t. /\ MigrationTypeOK /\ LockHeld /\ InOrder /\ FoundReady
      /\ \A m \in File : effect[m] = IF m \in done THEN 1 ELSE 0
      /\ \A m \in done : 1..m \subseteq done
  BY DEF IMigration, SchemaMatchesVersions
<1>y. /\ \A r \in Runner : runner[r] \in Running \union {Stopped}
      /\ table \in BOOLEAN /\ done \in SUBSET File /\ effect \in [File -> Nat]
      /\ deploys \in 0..MaxDeploys /\ holder \in Runner \union {NoRunner}
  BY <1>t DEF MigrationTypeOK
<1>n. Latest \in Nat \ {0} /\ Statements \in Nat \ {0} /\ MaxDeploys \in Nat
      /\ NoRunner \notin Runner
  BY MigrationAssumption
<1>0. CASE UNCHANGED migrationVars
  BY <1>0, <1>t DEF migrationVars, IMigration, MigrationTypeOK, LockHeld, InOrder, FoundReady,
                    SchemaMatchesVersions, RunnerAt
<1>1. ASSUME NEW r \in Runner, NEW n \in File, Deploy(r, n)
      PROVE  IMigration'
  <2> DEFINE j == [pc |-> "begin", release |-> n, at |-> 0, ran |-> 0]
  <2>1. j \in Running
    BY <1>n DEF Running, File
  <2>2. /\ runner' = [runner EXCEPT ![r] = j] /\ deploys' \in 0..MaxDeploys
        /\ UNCHANGED <<table, done, effect, holder, probe>>
    BY <1>1, <1>y, <1>n DEF Deploy, Database
  <2>3. \A m \in File : ~(m < 0)
    BY DEF File
  <2>4. j.pc = "begin" /\ j.at = 0 /\ j.at <= j.release
    BY <1>n DEF File
  <2> QED BY <1>t, <1>y, <1>n, <2>1, <2>2, <2>3, <2>4, RunnerMove
<1>2. ASSUME NEW r \in Runner, Break(r)
      PROVE  IMigration'
  <2>1. /\ runner' = [runner EXCEPT ![r] = Stopped] /\ Stopped.pc = "stopped"
        /\ holder' = (IF holder = r THEN NoRunner ELSE holder)
        /\ UNCHANGED <<table, done, effect, deploys, probe>>
    BY <1>2 DEF Break, Database, Others, Stopped
  <2> QED BY <1>t, <1>y, <1>n, <2>1, RunnerMove
<1>3. ASSUME NEW r \in Runner, Migrate(r)
      PROVE  IMigration'
  <2>1. CASE Lock(r)
    <3> DEFINE j == [runner[r] EXCEPT !.pc = "check"]
    <3>1. runner[r].pc = "begin" /\ runner[r] \in Running
      BY <2>1, <1>y DEF Lock, RunnerAt, Stopped
    <3>2. j \in Running /\ j.pc = "check" /\ j.at = runner[r].at /\ j.release = runner[r].release
      BY <3>1 DEF Running
    <3>3. /\ runner' = [runner EXCEPT ![r] = j] /\ holder = NoRunner /\ holder' = r
          /\ UNCHANGED <<table, done, effect, deploys, probe>>
      BY <2>1 DEF Lock, Database, Others
    <3>4. j.at <= j.release /\ \A m \in File : m < j.at => m \in done'
      BY <1>t, <3>1, <3>2, <3>3 DEF InOrder
    <3> QED BY <1>t, <1>y, <1>n, <3>2, <3>3, <3>4, RunnerMove
  <2>2. CASE CreateTable(r)
    <3>1. /\ RunnerAt(r, "check") /\ runner[r].at = 0 /\ holder = r
          /\ Finish(r) /\ holder' = NoRunner
          /\ table' \in BOOLEAN /\ UNCHANGED <<done, effect, deploys, probe>>
      BY <2>2, <1>t DEF CreateTable, Finish, Others, LockHeld, RunnerAt
    <3>2. PICK j \in Running \union {Stopped} :
            /\ runner' = [runner EXCEPT ![r] = j]
            /\ j.pc \notin {"check", "run"}
            /\ j.pc # "stopped" => /\ j.at <= j.release
                                   /\ \A m \in File : m < j.at => m \in done
      BY <3>1, Finished
    <3> QED BY <1>t, <1>y, <1>n, <3>1, <3>2, RunnerMove
  <2>3. CASE Check(r)
    <3>1. /\ RunnerAt(r, "check") /\ runner[r].at # 0 /\ holder = r
          /\ UNCHANGED <<table, done, effect, deploys, probe>>
      BY <2>3, <1>t DEF Check, Finish, Database, Others, LockHeld, RunnerAt
    <3>2. CASE runner[r].at \in done
      <4>1. Finish(r) /\ holder' = NoRunner
        BY <2>3, <3>2 DEF Check, Finish
      <4>2. PICK j \in Running \union {Stopped} :
              /\ runner' = [runner EXCEPT ![r] = j]
              /\ j.pc \notin {"check", "run"}
              /\ j.pc # "stopped" => /\ j.at <= j.release
                                     /\ \A m \in File : m < j.at => m \in done
        BY <3>1, <3>2, <4>1, Finished
      <4> QED BY <1>t, <1>y, <1>n, <3>1, <4>1, <4>2, RunnerMove
    <3>3. CASE runner[r].at \notin done
      <4> DEFINE j == [runner[r] EXCEPT !.pc = "run"]
      <4>1. runner' = [runner EXCEPT ![r] = j] /\ holder' = holder
        BY <2>3, <3>3 DEF Check
      <4>2. runner[r] \in Running
        BY <3>1, <1>y DEF RunnerAt, Stopped
      <4>3. j \in Running /\ j.pc = "run" /\ j.at = runner[r].at /\ j.release = runner[r].release
        BY <4>2 DEF Running
      <4>4. /\ j.at <= j.release /\ (\A m \in File : m < j.at => m \in done)
            /\ j.at \in File
        BY <1>t, <1>n, <3>1, <4>2, <4>3 DEF InOrder, RunnerAt, Running, File
      <4>5. /\ holder' = r /\ holder = r /\ r # NoRunner
            /\ runner[r].at \notin done /\ j.at \in File \ done'
        BY <1>n, <3>1, <3>3, <4>1, <4>3, <4>4
      <4> HIDE DEF j
      <4> QED BY <1>t, <1>y, <3>1, <4>1, <4>3, <4>4, <4>5, RunnerMove
    <3> QED BY <3>2, <3>3
  <2>4. CASE Execute(r)
    <3> DEFINE j == [runner[r] EXCEPT !.ran = runner[r].ran + 1]
    <3>1. /\ runner[r].pc = "run" /\ runner[r].ran < Statements
          /\ runner' = [runner EXCEPT ![r] = j]
          /\ UNCHANGED <<table, done, effect, holder, deploys, probe>>
      BY <2>4 DEF Execute, Database, Others, RunnerAt
    <3>2. runner[r] \in Running
      BY <3>1, <1>y DEF Stopped
    <3>3. j \in Running /\ j.pc = "run" /\ j.at = runner[r].at /\ j.release = runner[r].release
      BY <3>1, <3>2, <1>n DEF Running
    <3>4. /\ j.at <= j.release /\ (\A m \in File : m < j.at => m \in done)
          /\ j.at \in File \ done /\ holder = r
      BY <1>t, <3>1, <3>3 DEF InOrder, RunnerAt, LockHeld
    <3> QED BY <1>t, <1>y, <1>n, <3>1, <3>3, <3>4, RunnerMove
  <2>5. CASE Commit(r)
    <3> DEFINE k == runner[r].at
    <3>1. /\ RunnerAt(r, "run") /\ holder = r
          /\ Finish(r) /\ holder' = NoRunner
          /\ done' = done \union {k} /\ effect' = [effect EXCEPT ![k] = @ + 1]
          /\ UNCHANGED <<table, deploys, probe>>
      BY <2>5, <1>t DEF Commit, Finish, Others, LockHeld, RunnerAt
    <3>2. k \in File \ done /\ \A m \in File : m < k => m \in done
      BY <1>t, <3>1 DEF InOrder, RunnerAt
    <3>3. /\ effect' \in [File -> Nat]
          /\ \A m \in File : effect'[m] = IF m \in done' THEN 1 ELSE 0
      BY <1>t, <1>y, <3>1, <3>2
    <3>4. \A m \in done' : 1..m \subseteq done'
      BY <1>t, <1>n, <1>y, <3>1, <3>2 DEF File
    <3>5. PICK j \in Running \union {Stopped} :
            /\ runner' = [runner EXCEPT ![r] = j]
            /\ j.pc \notin {"check", "run"}
            /\ j.pc # "stopped" => /\ j.at <= j.release
                                   /\ \A m \in File : m < j.at => m \in done'
      BY <3>1, Finished
    <3>6. done \subseteq done' /\ done' \in SUBSET File /\ holder # NoRunner
      BY <1>y, <1>n, <3>1, <3>2
    <3> QED BY <1>y, <3>1, <3>3, <3>4, <3>5, <3>6, RunnerMove
  <2> QED BY <1>3, <2>1, <2>2, <2>3, <2>4, <2>5 DEF Migrate
<1>4. ASSUME SchemaUnchanged, probe' \in Probing \union {Unasked},
             probe'.pc = "ready" => 1..probe'.release \subseteq done
      PROVE  IMigration'
  BY <1>4, <1>t DEF SchemaUnchanged, IMigration, MigrationTypeOK, LockHeld, InOrder, FoundReady,
                    SchemaMatchesVersions, RunnerAt
<1>5. ASSUME NEW n \in File, AskReady(n)
      PROVE  IMigration'
  <2>1. probe' \in Probing /\ probe'.pc = "tables" /\ SchemaUnchanged
    BY <1>5 DEF AskReady, Probing
  <2> QED BY <1>4, <2>1
<1>6. CASE LookForTable \/ LookForVersions
  <2>1. probe \in Probing /\ SchemaUnchanged
    BY <1>6, <1>t DEF LookForTable, LookForVersions, MigrationTypeOK, Unasked
  <2>2. \E pc \in {"versions", "pending", "ready"} :
           /\ probe' = [probe EXCEPT !.pc = pc]
           /\ pc = "ready" => 1..probe.release \subseteq done
    BY <1>6 DEF LookForTable, LookForVersions
  <2>3. /\ probe' \in Probing /\ probe'.release = probe.release
        /\ probe'.pc = "ready" => 1..probe.release \subseteq done
    BY <2>1, <2>2 DEF Probing
  <2> QED BY <1>4, <2>1, <2>3
<1>7. CASE AnswerReady
  <2>1. probe' = Unasked /\ SchemaUnchanged /\ Unasked.pc = "unasked"
    BY <1>7 DEF AnswerReady, Unasked
  <2> QED BY <1>4, <2>1
<1> QED BY <1>0, <1>1, <1>2, <1>3, <1>5, <1>6, <1>7 DEF MigrationNext

-----------------------------------------------------------------------------
(* The cache of page images *)

\* An image in the cache shows its key's document, and not less than the time in the
\* key; a key without a time is one of a stored PDF.
GoodEntry ==
    {e \in [key : Key, image : Image] :
        /\ e.image.doc = e.key.doc
        /\ e.image.shows >= 1
        /\ e.image.shows >= e.key.stamp
        /\ e.key.stamp = 0 => e.key.doc \in StoredDoc}

\* Nobody changes a stored PDF.
StoredStays == \A d \in StoredDoc : version[d] = 1

\* A file only becomes newer, until it is gone: what request j has noted of it, v
\* being the versions now, is no newer.
Noted(v, j) ==
    v[j.key.doc] # 0 => j.since <= v[j.key.doc] /\ j.key.stamp <= v[j.key.doc]

\* Where request j has come to, what it looks for and what it has fit together.
Fits(j) ==
    /\ j.image.doc = j.key.doc
    /\ j.key.stamp = 0 \/ j.key.stamp >= j.since
    /\ j.pc \in {"render", "put"} => (j.key.stamp = 0 => j.key.doc \in StoredDoc)
    /\ j.pc = "put" => j.image.shows >= 1 /\ j.image.shows >= j.key.stamp
    /\ j.pc \in {"put", "trim", "evict", "found"} => j.image.shows >= j.since

IPage ==
    /\ PageTypeOK
    /\ StoredStays
    /\ pages \in Seq(GoodEntry)
    /\ \A r \in Reader : reader[r] # NoReading => Noted(version, reader[r]) /\ Fits(reader[r])

LEMMA PageInitial == PageInit => IPage
<1> SUFFICES ASSUME PageInit PROVE IPage
  OBVIOUS
<1>1. 1 \in Version
  BY PageAssumption DEF Version
<1>2. PageTypeOK
  BY <1>1 DEF PageInit, PageTypeOK
<1>3. pages \in Seq(GoodEntry)
  BY DEF PageInit
<1> QED BY <1>2, <1>3 DEF PageInit, IPage, StoredStays, Doc

LEMMA SeqOfMore ==
  ASSUME NEW S, NEW T, S \subseteq T, NEW s \in Seq(S)
  PROVE  s \in Seq(T)
<1>1. SubSeq(s, 1, Len(s)) \in Seq(T)
  <2>1. Len(s) \in Int /\ \A i \in 1..Len(s) : s[i] \in T
    OBVIOUS
  <2> QED BY <2>1, SubSeqProperties
<1>2. SubSeq(s, 1, Len(s)) = s
  BY SubSeqFull
<1> QED BY <1>1, <1>2

\* One request becomes j and the cache holds good entries: nothing else happens.
LEMMA ReaderMove ==
  ASSUME IPage, NEW r \in Reader, NEW j \in Reading \union {NoReading}, Go(r, j),
         pages' \in Seq(GoodEntry),
         j # NoReading => Noted(version, j) /\ Fits(j)
  PROVE  IPage'
<1>1. /\ reader' \in [Reader -> Reading \union {NoReading}]
      /\ reader'[r] = j
      /\ \A q \in Reader \ {r} : reader'[q] = reader[q]
      /\ version' = version
  BY DEF Go, IPage, PageTypeOK
<1>2. pages' \in Seq([key : Key, image : Image])
  <2>1. GoodEntry \subseteq [key : Key, image : Image]
    BY DEF GoodEntry
  <2> QED BY <2>1, SeqOfMore
<1>3. PageTypeOK' /\ StoredStays'
  BY <1>1, <1>2 DEF IPage, PageTypeOK, StoredStays
<1>4. \A q \in Reader : reader'[q] # NoReading => Noted(version', reader'[q]) /\ Fits(reader'[q])
  BY <1>1 DEF IPage
<1> QED BY <1>3, <1>4 DEF IPage

\* The dictionary after each of its operations.
LEMMA CacheOps ==
  ASSUME pages \in Seq(GoodEntry)
  PROVE  /\ pages # <<>> => Tail(pages) \in Seq(GoodEntry) /\ Len(Tail(pages)) = Len(pages) - 1
         /\ \A e \in GoodEntry : /\ WithEntry(e) \in Seq(GoodEntry)
                                /\ Len(WithEntry(e)) <= Len(pages) + 1
         /\ \A key0 \in Key : Cached(key0) =>
               /\ MoveToEnd(key0) \in Seq(GoodEntry)
               /\ Len(MoveToEnd(key0)) = Len(pages)
               /\ \E e \in GoodEntry : e.key = key0 /\ ImageOf(key0) = e.image
<1>1. pages # <<>> => Tail(pages) \in Seq(GoodEntry) /\ Len(Tail(pages)) = Len(pages) - 1
  BY HeadTailProperties
<1>2. ASSUME NEW e \in GoodEntry
      PROVE  WithEntry(e) \in Seq(GoodEntry) /\ Len(WithEntry(e)) <= Len(pages) + 1
  <2>1. Append(pages, e) \in Seq(GoodEntry) /\ Len(Append(pages, e)) = Len(pages) + 1
    BY AppendProperties
  <2>2. DOMAIN pages = 1..Len(pages) /\ Len(pages) \in Nat /\ \A i \in DOMAIN pages : pages[i] \in GoodEntry
    OBVIOUS
  <2> DEFINE replaced == [i \in DOMAIN pages |-> IF pages[i].key = e.key THEN e ELSE pages[i]]
  <2>3. replaced \in Seq(GoodEntry)
    BY <2>2
  <2>4. Len(replaced) = Len(pages)
    BY <2>2
  <2> HIDE DEF replaced
  <2>5. WithEntry(e) = replaced \/ WithEntry(e) = Append(pages, e)
    BY DEF WithEntry, replaced
  <2> QED BY <2>1, <2>2, <2>3, <2>4, <2>5
<1>3. ASSUME NEW key0 \in Key, Cached(key0)
      PROVE  /\ MoveToEnd(key0) \in Seq(GoodEntry)
             /\ Len(MoveToEnd(key0)) = Len(pages)
             /\ \E e \in GoodEntry : e.key = key0 /\ ImageOf(key0) = e.image
  <2> DEFINE i == Position(key0)
             before == SubSeq(pages, 1, i - 1)
             after  == SubSeq(pages, i + 1, Len(pages))
  <2>1. i \in DOMAIN pages /\ pages[i].key = key0
    BY <1>3 DEF Cached, Position
  <2>2. /\ i \in 1..Len(pages) /\ Len(pages) \in Nat
        /\ \A k \in 1..Len(pages) : pages[k] \in GoodEntry
    BY <2>1
  <2> HIDE DEF i
  <2>3. /\ before \in Seq(GoodEntry) /\ Len(before) = i - 1
        /\ after \in Seq(GoodEntry) /\ Len(after) = Len(pages) - i
    <3>1. /\ 1 \in Int /\ i - 1 \in Int /\ i + 1 \in Int /\ Len(pages) \in Int
          /\ \A k \in 1..(i - 1) : pages[k] \in GoodEntry
          /\ \A k \in (i + 1)..Len(pages) : pages[k] \in GoodEntry
      BY <2>2
    <3>2. /\ before \in Seq(GoodEntry)
          /\ Len(before) = IF 1 <= i - 1 THEN (i - 1) - 1 + 1 ELSE 0
      BY <3>1, SubSeqProperties
    <3>3. /\ after \in Seq(GoodEntry)
          /\ Len(after) = IF i + 1 <= Len(pages) THEN Len(pages) - (i + 1) + 1 ELSE 0
      BY <3>1, SubSeqProperties
    <3> QED BY <2>2, <3>2, <3>3
  <2> HIDE DEF before, after
  <2>4. before \o after \in Seq(GoodEntry) /\ Len(before \o after) = Len(before) + Len(after)
    BY <2>3, ConcatProperties
  <2>5. /\ Append(before \o after, pages[i]) \in Seq(GoodEntry)
        /\ Len(Append(before \o after, pages[i])) = Len(before \o after) + 1
    BY <2>2, <2>4, AppendProperties
  <2>l. Len(before \o after) + 1 = Len(pages)
    BY <2>2, <2>3, <2>4
  <2>6. MoveToEnd(key0) = Append(before \o after, pages[i])
    BY DEF MoveToEnd, before, after, i
  <2>7. ImageOf(key0) = pages[i].image
    BY DEF ImageOf, i
  <2> QED BY <2>1, <2>2, <2>5, <2>6, <2>7, <2>l
<1> QED BY <1>1, <1>2, <1>3

LEMMA PageStep ==
  ASSUME IPage, [PageNext]_pageVars
  PROVE  IPage'
<1>t. /\ PageTypeOK /\ StoredStays /\ pages \in Seq(GoodEntry)
      /\ \A r \in Reader : reader[r] # NoReading => Noted(version, reader[r]) /\ Fits(reader[r])
  BY DEF IPage
<1>v. \A d \in Doc : version[d] \in Nat /\ version[d] \in Version
  BY <1>t, PageAssumption DEF PageTypeOK, Version
<1>r. ASSUME NEW r \in Reader, reader[r].pc # "idle"
      PROVE  /\ reader[r] \in Reading /\ reader[r] # NoReading
             /\ Noted(version, reader[r]) /\ Fits(reader[r])
             /\ reader[r].since \in Nat /\ reader[r].key.stamp \in Nat
             /\ reader[r].image.shows \in Nat
             /\ reader[r].key \in Key /\ reader[r].image \in Image /\ reader[r].key.doc \in Doc
  BY <1>r, <1>t, PageAssumption DEF PageTypeOK, NoReading, Reading, Key, Image, Version
<1>0. CASE UNCHANGED pageVars
  BY <1>0, <1>t DEF pageVars, IPage, PageTypeOK, StoredStays
<1>1. ASSUME NEW d \in Doc, Edit(d) \/ Remove(d)
      PROVE  IPage'
  <2>1. d \notin StoredDoc /\ UNCHANGED <<pages, reader>>
    BY <1>1, PageAssumption DEF Edit, Remove
  <2>2. PICK n \in Version : /\ version' = [version EXCEPT ![d] = n]
                             /\ n = 0 \/ (version[d] # 0 /\ n > version[d])
    <3>1. CASE Edit(d)
      <4>1. version[d] + 1 \in Version
        BY <3>1, <1>v, PageAssumption DEF Edit, Version
      <4>2. /\ version' = [version EXCEPT ![d] = version[d] + 1]
            /\ version[d] # 0 /\ version[d] + 1 > version[d]
        BY <3>1, <1>v, PageAssumption DEF Edit
      <4> QED BY <4>1, <4>2
    <3>2. CASE Remove(d)
      <4>1. 0 \in Version
        BY PageAssumption DEF Version
      <4> QED BY <3>2, <4>1, PageAssumption DEF Remove
    <3> QED BY <1>1, <3>1, <3>2
  <2>3. PageTypeOK' /\ StoredStays'
    BY <2>1, <2>2, <1>t DEF PageTypeOK, StoredStays
  <2>4. n \in Nat
    BY PageAssumption DEF Version
  <2>5. ASSUME NEW r \in Reader, reader[r] # NoReading
        PROVE  Noted(version', reader[r])
    <3>1. reader[r] \in Reading /\ reader[r].pc # "idle"
      BY <2>5, <1>t DEF PageTypeOK, Reading
    <3>2. /\ Noted(version, reader[r]) /\ reader[r].key.doc \in Doc
          /\ reader[r].since \in Nat /\ reader[r].key.stamp \in Nat
      BY <1>r, <3>1
    <3>3. version'[reader[r].key.doc] = IF reader[r].key.doc = d THEN n
                                        ELSE version[reader[r].key.doc]
      BY <2>2, <3>2, <1>t DEF PageTypeOK
    <3> QED BY <2>2, <2>4, <3>2, <3>3, <1>v DEF Noted
  <2> QED BY <1>t, <2>1, <2>3, <2>5 DEF IPage
<1>2. ASSUME NEW r \in Reader, NEW d \in Doc, GetPage(r, d)
      PROVE  IPage'
  <2> DEFINE j == [pc |-> "look", key |-> [doc |-> d, stamp |-> 0],
                   image |-> [doc |-> d, shows |-> 0], since |-> version[d]]
  <2>1. 0 \in Version
    BY PageAssumption DEF Version
  <2>2. j \in Reading
    BY <2>1, <1>v DEF Reading, Key, Image
  <2>3. Noted(version, j) /\ Fits(j)
    BY <1>v DEF Noted, Fits
  <2>4. Go(r, j) /\ pages' = pages
    BY <1>2 DEF GetPage
  <2> QED BY <1>t, <2>2, <2>3, <2>4, ReaderMove
<1>3. ASSUME NEW r \in Reader, Serve(r)
      PROVE  IPage'
  <2> DEFINE k == reader[r]
  <2>1. CASE Look(r)
    <3>1. PICK pc \in {"touch", "load", "render"} :
             /\ Go(r, [k EXCEPT !.pc = pc]) /\ pages' = pages /\ k.pc = "look"
             /\ pc = "render" => k.key.stamp # 0
      BY <2>1 DEF Look, ReaderAt
    <3> QED BY <1>t, <1>r, <3>1, ReaderMove DEF Reading, Noted, Fits
  <2>2. CASE Load(r)
    <3>1. k.pc = "load" /\ pages' = pages
      BY <2>2 DEF Load, ReaderAt
    <3>2. CASE k.key.doc \in StoredDoc
      <4>1. Go(r, [k EXCEPT !.pc = "render"])
        BY <2>2, <3>2 DEF Load
      <4> QED BY <1>t, <1>r, <3>1, <3>2, <4>1, ReaderMove DEF Reading, Noted, Fits
    <3>3. CASE k.key.doc \notin StoredDoc /\ version[k.key.doc] = 0
      <4>1. Go(r, [k EXCEPT !.pc = "missing"])
        BY <2>2, <3>3 DEF Load
      <4> QED BY <1>t, <1>r, <3>1, <4>1, ReaderMove DEF Reading, Noted, Fits
    <3>4. CASE k.key.doc \notin StoredDoc /\ version[k.key.doc] # 0
      <4> DEFINE j == [k EXCEPT !.pc = "look", !.key = PathKey(k.key.doc)]
      <4>1. Go(r, j)
        BY <2>2, <3>4 DEF Load
      <4>2. k \in Reading /\ k.key.doc \in Doc /\ Noted(version, k) /\ Fits(k)
        BY <1>r, <3>1
      <4>3. /\ PathKey(k.key.doc) \in Key /\ PathKey(k.key.doc).doc = k.key.doc
            /\ PathKey(k.key.doc).stamp = version[k.key.doc]
        BY <4>2, <1>v DEF PathKey, Key
      <4>4. /\ j \in Reading /\ j.pc = "look" /\ j.key = PathKey(k.key.doc)
            /\ j.image = k.image /\ j.since = k.since
        BY <4>2, <4>3 DEF Reading
      <4>5. Noted(version, j) /\ Fits(j)
        BY <3>4, <4>2, <4>3, <4>4, <1>v DEF Noted, Fits
      <4> QED BY <1>t, <3>1, <4>1, <4>4, <4>5, ReaderMove
    <3> QED BY <3>2, <3>3, <3>4
  <2>3. CASE Touch(r)
    <3>1. k.pc = "touch" /\ k \in Reading /\ k.key \in Key /\ Noted(version, k) /\ Fits(k)
      BY <2>3, <1>r DEF Touch, ReaderAt
    <3>2. PICK pc \in {"read", "failed"} : Go(r, [k EXCEPT !.pc = pc])
      BY <2>3 DEF Touch
    <3>3. pages' \in Seq(GoodEntry)
      BY <2>3, <3>1, <1>t, CacheOps DEF Touch
    <3> QED BY <3>1, <3>2, <3>3, ReaderMove DEF Reading, Noted, Fits
  <2>4. CASE ReadPage(r)
    <3>1. /\ k.pc = "read" /\ k \in Reading /\ k.key \in Key /\ k.key.doc \in Doc
          /\ k.since \in Nat /\ k.key.stamp \in Nat /\ Noted(version, k) /\ Fits(k)
          /\ pages' = pages
      BY <2>4, <1>r DEF ReadPage, ReaderAt
    <3>2. CASE Cached(k.key)
      <4>1. PICK e \in GoodEntry : e.key = k.key /\ ImageOf(k.key) = e.image
        BY <3>1, <3>2, <1>t, CacheOps
      <4> DEFINE j == [k EXCEPT !.pc = "found", !.image = e.image]
      <4>2. Go(r, j)
        BY <2>4, <3>2, <4>1 DEF ReadPage
      <4>3. e.image \in Image /\ e.image.shows \in Nat
        BY PageAssumption DEF GoodEntry, Image, Version
      <4>4. /\ j \in Reading /\ j.pc = "found" /\ j.key = k.key /\ j.image = e.image
            /\ j.since = k.since
        BY <3>1, <4>3 DEF Reading
      <4>5. e.image.shows >= k.since
        <5>1. CASE k.key.stamp = 0
          BY <3>1, <4>1, <4>3, <5>1, <1>t DEF GoodEntry, StoredStays, Noted
        <5>2. CASE k.key.stamp # 0
          BY <3>1, <4>1, <4>3, <5>2 DEF GoodEntry, Fits
        <5> QED BY <5>1, <5>2
      <4>6. Noted(version, j) /\ Fits(j)
        BY <3>1, <4>1, <4>4, <4>5 DEF Noted, Fits, GoodEntry
      <4> QED BY <1>t, <3>1, <4>2, <4>4, <4>6, ReaderMove
    <3>3. CASE ~Cached(k.key)
      <4>1. Go(r, [k EXCEPT !.pc = "failed"])
        BY <2>4, <3>3 DEF ReadPage
      <4> QED BY <1>t, <3>1, <4>1, ReaderMove DEF Reading, Noted, Fits
    <3> QED BY <3>2, <3>3
  <2>5. CASE Render(r)
    <3> DEFINE now == version[k.key.doc]
               j == [k EXCEPT !.pc = IF now = 0 THEN "missing" ELSE "put",
                              !.image.shows = now]
    <3>1. /\ k.pc = "render" /\ k \in Reading /\ k.key.doc \in Doc
          /\ Noted(version, k) /\ Fits(k) /\ k.since \in Nat /\ k.key.stamp \in Nat
          /\ k.image \in Image /\ now \in Nat /\ now \in Version
      BY <2>5, <1>r, <1>v DEF Render, ReaderAt
    <3>2. Go(r, j) /\ pages' = pages
      BY <2>5 DEF Render
    <3>3. /\ j \in Reading /\ j.key = k.key /\ j.image.doc = k.image.doc
          /\ j.image.shows = now /\ j.since = k.since
          /\ j.pc = IF now = 0 THEN "missing" ELSE "put"
      BY <3>1 DEF Reading, Image
    <3>4. Noted(version, j) /\ Fits(j)
      BY <3>1, <3>3 DEF Noted, Fits
    <3> HIDE DEF j
    <3> QED BY <1>t, <3>2, <3>3, <3>4, ReaderMove
  <2>6. CASE Put(r)
    <3> DEFINE e == [key |-> k.key, image |-> k.image]
    <3>1. /\ k.pc = "put" /\ k \in Reading /\ Noted(version, k) /\ Fits(k)
          /\ k.key \in Key /\ k.image \in Image
      BY <2>6, <1>r DEF Put, ReaderAt
    <3>2. Go(r, [k EXCEPT !.pc = "trim"]) /\ pages' = WithEntry(e)
      BY <2>6 DEF Put
    <3>3. e \in GoodEntry
      BY <3>1 DEF GoodEntry, Fits
    <3>4. pages' \in Seq(GoodEntry)
      BY <3>2, <3>3, <1>t, CacheOps
    <3> QED BY <3>1, <3>2, <3>4, ReaderMove DEF Reading, Noted, Fits
  <2>7. CASE Trim(r) \/ Evict(r)
    <3>1. /\ k.pc \in {"trim", "evict"} /\ k \in Reading /\ Noted(version, k) /\ Fits(k)
      BY <2>7, <1>r DEF Trim, Evict, ReaderAt
    <3>2. PICK pc \in {"trim", "evict", "found", "failed"} : Go(r, [k EXCEPT !.pc = pc])
      BY <2>7 DEF Trim, Evict
    <3>3. pages' \in Seq(GoodEntry)
      BY <2>7, <1>t, CacheOps DEF Trim, Evict
    <3> QED BY <3>1, <3>2, <3>3, ReaderMove DEF Reading, Noted, Fits
  <2>8. CASE Answer(r)
    <3>1. Go(r, NoReading) /\ pages' = pages
      BY <2>8 DEF Answer
    <3> QED BY <1>t, <3>1, ReaderMove
  <2> QED BY <1>3, <2>1, <2>2, <2>3, <2>4, <2>5, <2>6, <2>7, <2>8 DEF Serve
<1> QED BY <1>0, <1>1, <1>2, <1>3 DEF PageNext

\* The threads that have put an image and are still to trim.
Trimming == {r \in Reader : reader[r].pc \in {"trim", "evict"}}

LEMMA Trimmers ==
  ASSUME IPage, NEW r \in Reader, NEW j, Go(r, j)
  PROVE  /\ Trimming' = IF j.pc \in {"trim", "evict"} THEN Trimming \union {r} ELSE Trimming \ {r}
         /\ IsFiniteSet(Trimming) /\ IsFiniteSet(Trimming')
         /\ Cardinality(Trimming) \in Nat /\ Cardinality(Trimming') \in Nat
         /\ r \notin Trimming => Cardinality(Trimming \union {r}) = Cardinality(Trimming) + 1
<1>1. reader'[r] = j /\ \A q \in Reader \ {r} : reader'[q] = reader[q]
  BY DEF Go, IPage, PageTypeOK
<1>2. IsFiniteSet(Trimming) /\ IsFiniteSet(Trimming')
  BY PageAssumption, FS_Subset DEF Trimming
<1>3. r \notin Trimming => Cardinality(Trimming \union {r}) = Cardinality(Trimming) + 1
  BY <1>2, FS_AddElement
<1> QED BY <1>1, <1>2, <1>3, FS_CardinalityType DEF Trimming

LEMMA BoundKept ==
  ASSUME IPage, CacheBounded, [PageNext]_pageVars
  PROVE  CacheBounded'
<1>l. /\ Len(pages) \in Nat /\ CacheSize \in Nat /\ pages \in Seq(GoodEntry)
      /\ Len(pages) <= CacheSize + Cardinality(Trimming)
  BY PageAssumption DEF IPage, CacheBounded, Trimming
<1>s. SUFFICES Len(pages') <= CacheSize + Cardinality(Trimming')
  BY DEF CacheBounded, Trimming
<1>0. CASE UNCHANGED <<pages, reader>>
  BY <1>0, <1>l DEF Trimming
<1>1. ASSUME NEW r \in Reader, NEW j, Go(r, j), pages' = pages,
             reader[r].pc \notin {"trim", "evict"}, j.pc \notin {"trim", "evict"}
      PROVE  Len(pages') <= CacheSize + Cardinality(Trimming')
  BY <1>1, <1>l, Trimmers DEF Trimming
<1>2. ASSUME NEW r \in Reader, NEW d \in Doc, GetPage(r, d)
      PROVE  Len(pages') <= CacheSize + Cardinality(Trimming')
  BY <1>1, <1>2 DEF GetPage, ReaderAt
<1>3. ASSUME NEW r \in Reader, Serve(r)
      PROVE  Len(pages') <= CacheSize + Cardinality(Trimming')
  <2> DEFINE k == reader[r]
  <2>k. k.pc # "idle" => k \in Reading /\ k.key \in Key
    BY DEF IPage, PageTypeOK, NoReading, Reading
  <2>1. CASE Look(r) \/ Load(r) \/ ReadPage(r) \/ Render(r) \/ Answer(r)
    <3>1. k.pc \notin {"trim", "evict"} /\ pages' = pages /\ k \in Reading
      BY <2>1, <2>k DEF Look, Load, ReadPage, Render, Answer, ReaderAt
    <3>2. \A pc, x : /\ [k EXCEPT !.pc = pc].pc = pc
                    /\ [k EXCEPT !.pc = pc, !.key = x].pc = pc
                    /\ [k EXCEPT !.pc = pc, !.image = x].pc = pc
                    /\ [k EXCEPT !.pc = pc, !.image.shows = x].pc = pc
      BY <3>1 DEF Reading
    <3>3. \E j : Go(r, j) /\ j.pc \notin {"trim", "evict"}
      <4>1. CASE Look(r)
        <5>1. PICK pc \in {"touch", "load", "render"} : Go(r, [k EXCEPT !.pc = pc])
          BY <4>1 DEF Look
        <5> QED BY <3>2, <5>1
      <4>2. CASE Load(r)
        <5>1. CASE \E pc \in {"render", "missing"} : Go(r, [k EXCEPT !.pc = pc])
          <6>1. PICK pc \in {"render", "missing"} : Go(r, [k EXCEPT !.pc = pc])
            BY <5>1
          <6> QED BY <3>2, <6>1
        <5>2. CASE Go(r, [k EXCEPT !.pc = "look", !.key = PathKey(k.key.doc)])
          <6>1. [k EXCEPT !.pc = "look", !.key = PathKey(k.key.doc)].pc = "look"
            BY <3>2
          <6> QED BY <5>2, <6>1
        <5> QED BY <4>2, <5>1, <5>2 DEF Load
      <4>3. CASE ReadPage(r)
        <5>1. CASE Go(r, [k EXCEPT !.pc = "found", !.image = ImageOf(k.key)])
          <6>1. [k EXCEPT !.pc = "found", !.image = ImageOf(k.key)].pc = "found"
            BY <3>2
          <6> QED BY <5>1, <6>1
        <5>2. CASE Go(r, [k EXCEPT !.pc = "failed"])
          <6>1. [k EXCEPT !.pc = "failed"].pc = "failed"
            BY <3>2
          <6> QED BY <5>2, <6>1
        <5> QED BY <4>3, <5>1, <5>2 DEF ReadPage
      <4>4. CASE Render(r)
        <5>1. PICK pc \in {"missing", "put"} :
                 Go(r, [k EXCEPT !.pc = pc, !.image.shows = version[k.key.doc]])
          BY <4>4 DEF Render
        <5> QED BY <3>2, <5>1
      <4>5. CASE Answer(r)
        BY <4>5 DEF Answer, NoReading
      <4> QED BY <2>1, <4>1, <4>2, <4>3, <4>4, <4>5
    <3> QED BY <1>1, <3>1, <3>3
  <2>2. CASE Touch(r)
    <3>1. k.pc = "touch" /\ k \in Reading
      BY <2>2, <2>k DEF Touch, ReaderAt
    <3>2. PICK pc \in {"read", "failed"} : Go(r, [k EXCEPT !.pc = pc])
      BY <2>2 DEF Touch
    <3>3. [k EXCEPT !.pc = pc].pc = pc
      BY <3>1 DEF Reading
    <3>4. Len(pages') = Len(pages)
      BY <2>2, <2>k, <3>1, <1>l, CacheOps DEF Touch
    <3>5. Trimming' = Trimming
      BY <3>1, <3>2, <3>3, Trimmers DEF Trimming
    <3> QED BY <1>l, <3>4, <3>5
  <2>3. CASE Put(r)
    <3> DEFINE j == [k EXCEPT !.pc = "trim"]
               e == [key |-> k.key, image |-> k.image]
    <3>1. k.pc = "put" /\ k \in Reading /\ r \notin Trimming
      BY <2>3, <2>k DEF Put, ReaderAt, Trimming
    <3>2. Go(r, j) /\ j.pc = "trim" /\ pages' = WithEntry(e)
      BY <2>3, <3>1 DEF Put, Reading
    <3>3. e \in GoodEntry
      BY <3>1 DEF IPage, Fits, GoodEntry, Reading, NoReading
    <3>4. Len(pages') <= Len(pages) + 1 /\ Len(pages') \in Nat
      BY <3>2, <3>3, <1>l, CacheOps
    <3> HIDE DEF j
    <3>5. Cardinality(Trimming') = Cardinality(Trimming) + 1 /\ Cardinality(Trimming) \in Nat
      BY <3>1, <3>2, Trimmers
    <3> QED BY <1>l, <3>4, <3>5
  <2>4. CASE Trim(r) \/ Evict(r)
    <3>1. k.pc \in {"trim", "evict"} /\ k \in Reading /\ r \in Trimming
      BY <2>4, <2>k DEF Trim, Evict, ReaderAt, Trimming
    <3>2. \E j : Go(r, j)
      BY <2>4 DEF Trim, Evict
    <3>3. Cardinality(Trimming') \in Nat /\ Cardinality(Trimming) \in Nat
      BY <3>2, Trimmers
    <3>4. CASE Len(pages') <= CacheSize /\ pages' \in Seq(GoodEntry)
      BY <1>l, <3>3, <3>4
    <3>5. ASSUME NEW pc \in {"trim", "evict"}, Go(r, [k EXCEPT !.pc = pc]),
                 Len(pages') <= Len(pages), Len(pages') \in Nat
          PROVE  Len(pages') <= CacheSize + Cardinality(Trimming')
      <4>1. [k EXCEPT !.pc = pc].pc = pc
        BY <3>1 DEF Reading
      <4>2. Trimming' = Trimming
        BY <3>1, <3>5, <4>1, Trimmers
      <4> QED BY <1>l, <3>3, <3>5, <4>2
    <3>6. CASE Trim(r)
      <4>1. CASE Len(pages) > CacheSize
        BY <1>l, <3>5, <3>6, <4>1 DEF Trim
      <4>2. CASE Len(pages) <= CacheSize
        BY <1>l, <3>4, <3>6, <4>2 DEF Trim
      <4> QED BY <1>l, <4>1, <4>2
    <3>7. CASE Evict(r)
      <4>1. CASE pages = <<>>
        BY <1>l, <3>4, <3>7, <4>1 DEF Evict
      <4>2. CASE pages # <<>>
        <5>1. pages' = Tail(pages) /\ Go(r, [k EXCEPT !.pc = "trim"])
          BY <3>7, <4>2 DEF Evict
        <5>2. Len(pages') <= Len(pages) /\ Len(pages') \in Nat
          BY <1>l, <4>2, <5>1, CacheOps
        <5> QED BY <3>5, <5>1, <5>2
      <4> QED BY <4>1, <4>2
    <3> QED BY <2>4, <3>6, <3>7
  <2> QED BY <1>3, <2>1, <2>2, <2>3, <2>4 DEF Serve
<1> QED BY <1>0, <1>2, <1>3 DEF PageNext, Edit, Remove, pageVars

-----------------------------------------------------------------------------
(* The Gmail account *)

\* How far an orderly reconnect has come, and what it rests on: from the revocation to
\* the new revision no poll is in flight; from the clearing on there is neither a
\* token nor a position of the old account; afterwards there is only the new token.
Orderly ==
    /\ orderly \in {"revoking", "cleared"} => \A p \in Poll : poll[p].pc = "idle"
    /\ orderly = "cleared" => stored = NoToken /\ cursor = NoCursor
    /\ orderly = "yes" =>
          /\ stored = NoToken \/ stored.token = env
          /\ cursor \in {NoCursor, env}
          /\ \A p \in Poll : poll[p].pc # "idle" => poll[p].env = env /\ poll[p].token = env

\* Nothing is sealed without a key.
SealedWithKey == \A p \in Poll : poll[p].pc = "seal" => poll[p].key # 0

IAccount == AccountTypeOK /\ Orderly /\ SealedWithKey

LEMMA AccountInitial == AccountInit => IAccount
<1> SUFFICES ASSUME AccountInit PROVE IAccount
  OBVIOUS
<1>1. 1 \in Token
  BY AccountAssumption
<1>2. AccountTypeOK
  BY <1>1, AccountAssumption DEF AccountInit, AccountTypeOK
<1> QED BY <1>2 DEF AccountInit, IAccount, Orderly, SealedWithKey, NoPoll

\* A poll becomes j: it uses the token of the current revision, if only that is left.
LEMMA PollMove ==
  ASSUME IAccount, NEW p \in Poll, NEW j \in Polling \union {NoPoll}, Advance(p, j), Account,
         poll[p].pc # "idle", UNCHANGED orderly,
         stored' \in Sealed \union {NoToken}, cursor' \in Token \union {NoCursor},
         j.pc = "seal" => j.key # 0,
         orderly = "yes" =>
            /\ stored' = NoToken \/ stored'.token = env
            /\ cursor' \in {NoCursor, env}
            /\ j.pc # "idle" => j.env = env /\ j.token = env
  PROVE  IAccount'
<1>1. /\ poll' \in [Poll -> Polling \union {NoPoll}]
      /\ poll'[p] = j
      /\ \A q \in Poll \ {p} : poll'[q] = poll[q]
  BY DEF Advance, IAccount, AccountTypeOK
<1>2. AccountTypeOK'
  BY <1>1 DEF Account, IAccount, AccountTypeOK
<1>3. Orderly' /\ SealedWithKey'
  BY <1>1 DEF Account, IAccount, Orderly, SealedWithKey
<1> QED BY <1>2, <1>3 DEF IAccount

LEMMA AccountStep ==
  ASSUME IAccount, [AccountNext]_accountVars
  PROVE  IAccount'
<1>t. AccountTypeOK /\ Orderly /\ SealedWithKey
  BY DEF IAccount
<1>0. CASE UNCHANGED accountVars
  BY <1>0, <1>t DEF accountVars, IAccount, AccountTypeOK, Orderly, SealedWithKey
<1>1. ASSUME NEW p \in Poll, StartPoll(p)
      PROVE  IAccount'
  <2> DEFINE j == [pc |-> "load", env |-> env, key |-> key, token |-> env]
  <2>1. j \in Polling
    BY <1>t DEF AccountTypeOK, Polling
  <2>2. /\ poll' = [poll EXCEPT ![p] = j] /\ Account /\ UNCHANGED <<stored, cursor>>
        /\ orderly' = IF orderly \in {"revoking", "cleared"} THEN "no" ELSE orderly
    BY <1>1 DEF StartPoll, Advance
  <2>3. j.env = env /\ j.token = env /\ j.pc = "load"
    OBVIOUS
  <2> HIDE DEF j
  <2>4. AccountTypeOK'
    BY <1>t, <2>1, <2>2 DEF Account, AccountTypeOK
  <2>5. Orderly' /\ SealedWithKey'
    BY <1>t, <2>2, <2>3 DEF Account, Orderly, SealedWithKey, AccountTypeOK
  <2> QED BY <2>4, <2>5 DEF IAccount
<1>2. ASSUME NEW p \in Poll, LoadToken(p) \/ Seal(p) \/ List(p) \/ SaveCursor(p)
      PROVE  IAccount'
  <2> DEFINE k == poll[p]
  <2>1. /\ k.pc # "idle" /\ k \in Polling /\ Account /\ UNCHANGED orderly
        /\ orderly = "yes" => k.env = env /\ k.token = env
        /\ k.pc = "seal" => k.key # 0
        /\ stored \in Sealed \union {NoToken} /\ cursor \in Token \union {NoCursor}
    BY <1>2, <1>t DEF LoadToken, Seal, List, SaveCursor, PollAt, AccountTypeOK, Orderly, NoPoll,
                         SealedWithKey
  <2>2. CASE LoadToken(p)
    <3>1. PICK pc \in {"seal", "list"}, t \in {k.token, k.env} \union Decrypted(stored, k.key) :
             /\ Advance(p, [k EXCEPT !.pc = pc, !.token = t]) /\ UNCHANGED <<stored, cursor>>
             /\ pc = "seal" => k.key # 0
      BY <2>1, <2>2 DEF LoadToken, Polling
    <3> DEFINE j == [k EXCEPT !.pc = pc, !.token = t]
    <3>2. t \in Token /\ (orderly = "yes" => t = env)
      BY <2>1, <3>1, <1>t DEF Decrypted, Polling, Sealed, Orderly
    <3>3. j \in Polling /\ j.env = k.env /\ j.token = t /\ j.pc = pc /\ j.key = k.key
      BY <2>1, <3>2 DEF Polling
    <3> QED BY <2>1, <3>1, <3>2, <3>3, <1>t, PollMove DEF Orderly
  <2>3. CASE Seal(p)
    <3> DEFINE j == [k EXCEPT !.pc = "list"]
               s == [token |-> k.env, key |-> k.key]
    <3>1. Advance(p, j) /\ stored' = s /\ UNCHANGED cursor
      BY <2>3 DEF Seal
    <3>2. j \in Polling /\ j.env = k.env /\ j.token = k.token /\ j.pc # "seal"
      BY <2>1 DEF Polling
    <3>3. s \in Sealed
      BY <2>1, <2>3, AccountAssumption DEF Seal, PollAt, Polling, Sealed
    <3> QED BY <2>1, <3>1, <3>2, <3>3, <1>t, PollMove DEF Orderly
  <2>4. CASE List(p)
    <3> DEFINE j == [k EXCEPT !.pc = "save"]
    <3>1. (Advance(p, j) \/ Advance(p, NoPoll)) /\ UNCHANGED <<stored, cursor>>
      BY <2>4 DEF List
    <3>2. j \in Polling /\ j.env = k.env /\ j.token = k.token /\ j.pc # "seal"
      BY <2>1 DEF Polling
    <3>3. NoPoll.pc = "idle"
      BY DEF NoPoll
    <3> HIDE DEF j
    <3>4. CASE Advance(p, j)
      BY <2>1, <3>1, <3>2, <3>4, <1>t, PollMove DEF Orderly
    <3>5. CASE Advance(p, NoPoll)
      BY <2>1, <3>1, <3>3, <3>5, <1>t, PollMove DEF Orderly
    <3> QED BY <3>1, <3>4, <3>5
  <2>5. CASE SaveCursor(p)
    <3>1. Advance(p, NoPoll) /\ cursor' = k.token /\ UNCHANGED stored
      BY <2>5 DEF SaveCursor
    <3>2. NoPoll.pc = "idle" /\ k.token \in Token
      BY <2>1 DEF NoPoll, Polling
    <3> QED BY <2>1, <3>1, <3>2, <1>t, PollMove DEF Orderly
  <2> QED BY <1>2, <2>2, <2>3, <2>4, <2>5
<1>3. CASE Revoke \/ Clear \/ ToolDies
  <2>1. AccountTypeOK'
    BY <1>3, <1>t DEF Revoke, Clear, ToolDies, AccountTypeOK
  <2>2. Orderly' /\ SealedWithKey'
    BY <1>3, <1>t DEF Revoke, Clear, ToolDies, Orderly, SealedWithKey, PollAt
  <2> QED BY <2>1, <2>2 DEF IAccount
<1>4. CASE Consent \/ Redeploy \/ RotateKey
  <2>1. AccountTypeOK'
    <3>1. CASE Consent
      BY <3>1, <1>t DEF Consent, AccountTypeOK
    <3>2. CASE Redeploy
      BY <3>2, <1>t DEF Redeploy, AccountTypeOK
    <3>3. CASE RotateKey
      <4>1. key' \in 0..MaxKeys
        BY <3>3, <1>t, AccountAssumption DEF RotateKey, AccountTypeOK
      <4> QED BY <3>3, <4>1, <1>t DEF RotateKey, AccountTypeOK
    <3> QED BY <1>4, <3>1, <3>2, <3>3
  <2>2. Orderly' /\ SealedWithKey'
    BY <1>4, <1>t DEF Consent, Redeploy, RotateKey, Orderly, SealedWithKey
  <2> QED BY <2>1, <2>2 DEF IAccount
<1> QED BY <1>0, <1>1, <1>2, <1>3, <1>4 DEF AccountNext

-----------------------------------------------------------------------------
(* Theorems *)

IInv == ICert /\ IMigration /\ IPage /\ CacheBounded /\ IAccount /\ mechanism \in Mechanism

\* The induction: each mechanism keeps its own invariant, whichever of them it is that
\* takes steps.
THEOREM ServiceInvariant == Spec => []IInv
<1>1. Init => IInv
  <2> SUFFICES ASSUME Init PROVE IInv
    OBVIOUS
  <2>1. CacheBounded
    <3>1. Len(pages) = 0 /\ \A r \in Reader : reader[r].pc = "idle"
      BY DEF Init, PageInit, NoReading
    <3>2. {r \in Reader : reader[r].pc \in {"trim", "evict"}} = {}
      BY <3>1
    <3>3. Cardinality({r \in Reader : reader[r].pc \in {"trim", "evict"}}) = 0
      BY <3>2, FS_EmptySet
    <3> QED BY <3>1, <3>3, PageAssumption DEF CacheBounded
  <2> QED BY <2>1, CertInitial, MigrationInitial, PageInitial, AccountInitial DEF Init, IInv
<1>2. IInv /\ [Next]_vars => IInv'
  <2> SUFFICES ASSUME IInv, [Next]_vars PROVE IInv'
    OBVIOUS
  <2>1. mechanism' = mechanism
    BY DEF Next, vars
  <2> QED BY <2>1, OwnSteps, CertStep, MigrationStep, PageStep, BoundKept, AccountStep DEF IInv
<1> QED BY <1>1, <1>2, PTL DEF Spec

\* The variables stay in their domains.
THEOREM TypeCorrect == Spec => []TypeOK
<1>1. IInv => TypeOK
  BY DEF IInv, ICert, IMigration, IPage, IAccount, TypeOK
<1> QED BY <1>1, ServiceInvariant, PTL

\* "Stale beats locking everyone out" (auth.py): any number of request threads, any
\* limits, any outages and rotations of the keys.
THEOREM NoLockout == Spec => []StaleBeatsLockout
<1>1. IInv => StaleBeatsLockout
  BY DEF IInv, ICert
<1> QED BY <1>1, ServiceInvariant, PTL

\* Each recorded file was executed once and after the files before it (migrate.py), for
\* any number of overlapping runs of any releases, each of which may break off anywhere.
THEOREM SchemaMatches == Spec => []SchemaMatchesVersions
<1>1. IInv => SchemaMatchesVersions
  BY DEF IInv, IMigration
<1> QED BY <1>1, ServiceInvariant, PTL

\* /ready says so only when every file of the release is in effect, though it reads the
\* database twice.
THEOREM ReadyMeansMigrated == Spec => []ReadyIsMigrated
<1>1. IInv => ReadyIsMigrated
  <2> SUFFICES ASSUME IInv, probe.pc = "ready", NEW m \in 1..probe.release
               PROVE  effect[m] = 1
    BY DEF ReadyIsMigrated
  <2>1. m \in done /\ done \subseteq File
    BY DEF IInv, IMigration, FoundReady, MigrationTypeOK
  <2> QED BY <2>1 DEF IInv, IMigration, SchemaMatchesVersions
<1> QED BY <1>1, ServiceInvariant, PTL

\* A page image is of the document asked for and not older than the request, for any
\* number of threads, any size of the cache and any edits of the files.
THEOREM PagesAreCurrent == Spec => []PageIsCurrent
<1>1. IInv => PageIsCurrent
  <2> SUFFICES ASSUME IInv, NEW r \in Reader, reader[r].pc = "found"
               PROVE  /\ reader[r].image.doc = reader[r].key.doc
                      /\ reader[r].image.shows >= reader[r].since
    BY DEF PageIsCurrent, ReaderAt
  <2>1. reader[r] # NoReading
    BY DEF NoReading
  <2> QED BY <2>1 DEF IInv, IPage, Fits
<1> QED BY <1>1, ServiceInvariant, PTL

\* The cache never outgrows its limit by more than the images that are being put.
THEOREM CacheIsBounded == Spec => []CacheBounded
<1>1. IInv => CacheBounded
  BY DEF IInv
<1> QED BY <1>1, ServiceInvariant, PTL

\* "A subsequent connect starts from a clean slate" (gmail_revoke.py), for any number of
\* polls, tokens and encryption keys, when no poll runs in between.
THEOREM ReconnectIsClean == Spec => []OrderlyReconnect
<1>1. IInv => OrderlyReconnect
  BY DEF IInv, IAccount, Orderly, OrderlyReconnect
<1> QED BY <1>1, ServiceInvariant, PTL
=============================================================================
