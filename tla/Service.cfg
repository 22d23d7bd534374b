SPECIFICATION Spec
CONSTANTS
    Client = {c1, c2}
    Ttl = 2
    ForcedMin = 1
    Backoff = 1
    NoCerts = NoCerts
    MaxOutages = 1
    Reader = {r1, r2}
    StoredDoc = {d1}
    FileDoc = {d2}
    CacheSize = 1
    MaxEdits = 2
    Runner = {m1, m2}
    Latest = 3
    Statements = 2
    NoRunner = NoRunner
    MaxDeploys = 3
    Poll = {p1, p2}
    Token = {1, 2, 3}
    NoToken = NoToken
    NoCursor = NoCursor
    MaxKeys = 2
INVARIANTS
    TypeOK
    StaleBeatsLockout
    PageIsCurrent
    CacheBounded
    SchemaMatchesVersions
    ReadyIsMigrated
    OrderlyReconnect
PROPERTY
    KeysSettle
CHECK_DEADLOCK FALSE
