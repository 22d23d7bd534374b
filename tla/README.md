# Intake Hub in TLA+

A verification project for the Intake Hub: the program that pulls receipts and
invoices out of an inbox, lets language models read them, and files each one as a
row of the user's Google Sheet, with a hub in which people correct, rerun, reject
and retry what the program did not file by itself.

The hard part of this program is concurrent: threads and Cloud Run instances that
share Postgres, two Google services that may do a thing and not say so, and a person
who clicks while a pass is running. The other part is a long way from a document to a
row, through what a language model replied, what a reviewer typed over it, and what
later passes read back of both. The modules model the two apart: interleavings and
faults with abstract contents (`Orchestrator`, the inboxes, the mechanisms of
`Service`), contents with one request at a time (`ItemReview`). What text a model
returns is a value, taken from a small set.

Paths below are relative to `src/backend/`.

## 1. Inventory

| Component | State it keeps | Operations | Talks to |
|---|---|---|---|
| Orchestrator (`orchestrator/`) | none of its own; one pass holds a local copy of the invoice | `process`, `rerun`, `recover`, the shared tail `_categorize_and_file` | repository, extraction, categorization, Sheets client |
| Transitions (`domain/transitions.py`) | a table | `is_allowed` | API, hub |
| QC actions (`api/main.py`) | none; each handler reads, checks, writes | correct metadata or category, reject, escalate, rerun, retry; note, reviewed, confirm, spot check | repository, orchestrator |
| Sheets client (`clients/sheets.py`) | the Sheet, external | `append_filed_row` (ledger, append, record) | Sheets API, `sheet_appends` |
| Repository (`db/`) | tables `invoices`, `line_items`, `exceptions`, `audit_events`, `sheet_appends`, `seen_messages`, `gmail_sync_state`, the advisory locks | transactions and reads | everyone |
| Corrections (`corrections/`) | the correction events in the audit trail | overlay of human values on stored ones, field by field | orchestrator, API |
| Decision (`decision/`, `domain/taxonomy.py`) | none | flags of a record, `submit` or `hold` | orchestrator |
| Ledger integrity (`ledger_integrity/`) | none | `find_duplicate`, spot-check sample | orchestrator, API |
| Fetch route (`api/main.py`, `tools/inbox_poller.py`) | the advisory lock | one fetch: list, then `is_seen`, `process`, `mark_seen`, `on_processed` for each message | inbox provider, orchestrator |
| Gmail inbox (`inbox/gmail.py`, `clients/gmail.py`, `receipts/`) | the history id | backfill, incremental listing, bootstrap probe, receipt filter | Gmail API |
| Drive inbox (`inbox/drive.py`, `clients/drive.py`) | the folder, external | list and download, move away | Drive API |
| Audit trail and metrics (`audit/`) | table `audit_events` | record; replay of the trail into counts | everyone; API |
| Extraction (`extraction/`) | none | a reply of the model to fields, confidences, missing fields, line items | language model |
| Categorization (`categorize/`) | none | keyword scores, ambiguity, adjudication, document type, instruction-like wording | language model |
| Hub views (`api/main.py`) | none | list, review queue, notifications, trace, detail | repository, corrections |
| Authentication (`api/auth.py`) | the cached keys of the proxy | fetch, refresh, back off, verify | Google's key endpoint, request threads |
| Page images (`api/main.py`, `parser/raster.py`) | an ordered dictionary of images | hit, render, store, trim | request threads, files |
| Migrations (`db/migrate.py`, `/ready`) | `schema_migrations`, the schema | apply in order under a lock; readiness | deploys, instances |
| Gmail account (`inbox/`, `tools/gmail_revoke.py`, `tools/gmail_oauth_setup.py`) | refresh token in the environment and in `oauth_tokens`, encryption key, cursor | load, store, revoke, consent, redeploy | Google, polls |
| Parsing, OCR, citations | none | files to text and positions | extraction |
| Clients, configuration, one-shot tools, frontend | none | wiring and presentation | |

What is hard here, and what makes each part correct:

* **Filing is not atomic.** The row is appended to the Sheet, then recorded in
  `sheet_appends`, then the invoice is marked posted: three systems' worth of
  places to stop between, a retry loop inside, and a person's retry outside. It is
  correct when the ledger never claims a row that is not there, stops further
  rows once it knows one, and bounds the others by what went wrong.
* **Stale copies.** A QC handler reads the status, then writes in another
  transaction; a pass saves its whole local invoice at each stage. It is correct,
  for requests that do not overlap, when settled states are final and the stored
  decision, exceptions and metadata agree with the status.
* **Recovery.** A thread that dies leaves an item in flight; only `retry` takes it
  on. It is correct when every item can leave the in-flight states.
* **A message or file is processed once.** The lock lives on a connection and
  may be lost while the fetch goes on; a crash may come before `mark_seen`, an
  error may escape from `process`. It is correct when each extra item is paid by
  a fault, nothing is marked unprocessed in silence, and nothing wedges the poll.
* **Contents travel through the audit trail.** A rerun and a retry decide on what the
  trail recorded, overlaid with the corrections in it, blank and unparsable ones
  included; metrics and hub replay the same trail in their own ways. It is correct when
  no unsure value reaches the ledger unseen, every value of a row has an author, and the
  views agree with the row and with each other.
* **Unlocked caches.** The certificate cache and the page cache are shared by request
  threads without a lock: a check, a fetch and a store are separate. They are correct
  when a failure never locks everyone out, keys and images do not stay stale, and the
  cache does not grow for good.
* **Two releases at once.** Migrations of two deploys overlap and break off, and
  `/ready` looks at two tables in turn. They are correct when each recorded version
  ran once and in order, and ready means migrated.
* **Two copies of one secret.** The stored refresh token wins over the environment:
  changing the account takes four steps of a person while polls go on.
* **The history id runs ahead of the mail.** It is stored before the messages
  are processed, may expire, and moves over what one page did not show. It is
  correct when, without faults, it covers only mail that was seen or is in hand.

The full list, at the lines where they bite and with the properties that cover
them, or the reason why none does, is `hazards` in `PROJECT.json`.

## 2. The modules

| Module | Models | Extends |
|---|---|---|
| `Transitions` | the table of allowed QC actions | |
| `Orchestrator` | the pipeline, the QC actions, the tables, the Sheet, crashes | `Transitions` |
| `MCOrchestrator` | the constants of TLC's instances that are not model values | `Orchestrator` |
| `InboxFetch` | the fetch route and its lock with an **abstract provider** | |
| `GmailInbox` | the route with the Gmail provider | `InboxFetch` |
| `DriveInbox` | the route with the Drive provider | `InboxFetch` |
| `Filing` | the **abstract specification** of filing, which `Orchestrator` implements (`INSTANCE Filing WITH`) | |
| `Extraction` | what a reply of the model becomes | |
| `Categorization` | scores, candidates, adjudication, document type | `Extraction` |
| `Decision` | flags, thresholds, confidence, verdict | `Categorization` |
| `AuditTrail` | the events and everything that is replayed from them: overlays, recorded signals, metrics | `Decision` |
| `ItemReview` | one item with its contents, from the first pass through the reviewer's requests | `AuditTrail`, `Transitions` |
| `HubViews` | list row, queue, notifications, trace and detail of that item | `ItemReview` |
| `MCItemReview` | TLC's instance: documents, replies, corrections | `HubViews` |
| `CertCache`, `PageCache`, `Migrations`, `GmailAccount` | a mechanism with its own state each | |
| `Service` | the four of them in one specification | all four |
| `OrchestratorProofs`, `OrchestratorRowsProofs`, `OrchestratorStatusProofs` | theorems about `Orchestrator`: types and the ledger; rows, and the refinement of `Filing`; what a status promises | |
| `ItemReviewProofs` | theorems about `ItemReview` and `HubViews` | |
| `InboxFetchProofs`, `GmailInboxProofs`, `DriveInboxProofs` | theorems about the inbox modules | |
| `ServiceProofs` | theorems about the four mechanisms | |

The definitions marked `(mutant)` are slips that a run must be able to see; no
other definition uses them. `PROJECT.json` pairs each property with one.

### Orchestrator

A *worker* is a request thread on any instance. Its `job` holds what the handler
holds in local variables: the operation, the step it takes next (`pc`), the copy
of the invoice, the audit trail it read, the reason of a hold or failure, and the
attempts used. A step is what happens between two points where another thread can
come in: one transaction, one read, one external call, or the pure computation
next to it.

| State | Code |
|---|---|
| `row` | table `invoices`: status, decision, metadata (`Earlier`: the metadata of items posted before, which no request is about) |
| `excs` | table `exceptions`, the types only |
| `audit` | what is read back of `audit_events` and `line_items`: an `EXTRACTED` event, line items without one, the latest metadata correction, a category correction |
| `appends` | table `sheet_appends`; the reference is the position of the row |
| `sheet` | the rows in the Sheet (external); a row is the metadata it was built from |

| Actions | Code in `orchestrator/__init__.py`, unless said |
|---|---|
| `Receive`, `Parse`, `Extract`, `ExtractFails`, `StoreExtraction` | `process` |
| `RequestPass`, `Load`, `ReadAudit`, `Restart` | the routes `/rerun`, `/retry`, and the head of `rerun` and `recover` |
| `Reconstruct`, `ReExtract` | the two branches of `recover` |
| `Classify`, `Categorize`, `Decide`, `CheckDuplicates`, `Hold` | `_categorize_and_file`, `_hold`, `_hold_duplicate` |
| `CheckLedger`, `AppendRow`, `AppendRefused`, `RecordAppend`, `Post` | `_file_to_sheet`, `_retry`, `append_filed_row` of `clients/sheets.py` |
| `Fail`, `StageRaises`, `Raised` | the `except` branches and `_fail` |
| `RequestEdit`, `Apply` | `correct_metadata`, `correct_category`, `reject_invoice`, `escalate_invoice`, `_set_status` of `api/main.py` |
| `Crash`, `DatabaseError`, `Commit`'s second disjunct | the thread dies; a query fails; a commit succeeds and its acknowledgement is lost |

`Raised` is the code's error discipline in one place: an error inside the `try` of a
pass goes to `_fail` with `stage_failure`; one inside that marking, or outside the
`try`, ends the request. So a commit whose acknowledgement is lost after
`POSTED` sends the pass to `_fail`, as it does in the code.

### InboxFetch, GmailInbox, DriveInbox

`InboxFetch` is `POST /api/inbox/fetch`: `seen` is `seen_messages`, `lock` the
session that holds the advisory lock, `items` counts the items that `process`
stored for a message, `logged` the messages that the log accounts for, `fetch` what
each fetcher's loop is doing. `process` is one step (its inside is `Orchestrator`):
it stores an item, or an error escapes from it before or after it did. The
provider is abstract: it may list any messages (`List`), raise (`ListRaises`), and
mark and log non-receipts (`Drop`).

`GmailInbox` puts `fetch_messages` in its place, step by step: the expiry test
and the delta (`Incremental`), the full listing (`Backfill`) and the probe after
it (`Bootstrap`), one step per candidate (`Keep`, `AttachmentRaises`,
`SkipUnreadable`, `DropNonReceipt`), and `Return`, which stores the history id **before** the route
processes anything. The mailbox is a sequence, a history id is a position in it,
and `Purge` makes old ids expire. `passed` is a history variable: the mail that a
listing did not return or that could not be read.

`DriveInbox` has the folder: a file is absent, in the root or moved. `ListFolder`
lists the root, with downloads that fail; `MoveAway` and `MoveFails` are
`on_processed`.

Both keep the route's actions and variables, so that a step of theirs is
literally a step of the route or leaves the route alone; this is the refinement
`Spec => RouteSpec`, which TLC checks (`PROPERTY RouteSpec`) and TLAPS proves.

### Filing

Three numbers of each item: the rows it has in the Sheet, the row the ledger refers to,
and whether the item shows as posted. A row is written, then recorded once and for
good, then the item is marked; a failure or another request takes the mark away and
never the row. The refinement mapping reads them off `sheet`, `appends` and `row`;
requests, stages, attempts, faults and crashes all disappear in stuttering.

### ItemReview and the modules below it

`Orchestrator` asks what happens when things overlap or fail; `ItemReview` asks what a
row says, and who said it. Its passes are one step each, because `Orchestrator` has
their inside: `Process`, `Rerun` and `Retry` are `process`, `rerun` and `recover` with
the whole shared tail, including the trail they append. The other actions are the QC
routes. Where the words of a message stand matters (`source`): every pass looks at the
subject and the sender (`head`), the first pass also at a body inside the source, which
only `POST /api/invoices/process` can put there (`body`), and no pass looks at the body
that the inbox puts beside the source (`mail`), although the extraction may read it.

| State | Code |
|---|---|
| `meta`, `decision`, `status` | columns of `invoices` |
| `items`, `excs` | tables `line_items`, `exceptions` (types) |
| `audit` | table `audit_events`: actor, action, and the details that something reads |
| `row` | the filed row |
| `ai` | history: what the latest extraction returned, to say whose value a row has |

The stages are operators with the source's thresholds. A *word* stands for any wording
that is in a keyword list, names a vendor, means income or looks like an instruction.
Metadata is three fields, vendor, date and amount, which are the ones that a stage or the
duplicate guard treats differently; a value may be blank (`NoValue`) or text
that does not parse (`Unreadable`). A reply gives each field a value, a
confidence or none, and whether the text corroborates it.

### Service

The four mechanisms share nothing, with each other or with the pipeline, so one of them
is chosen in the initial state and only that one moves: one run explores the sum of
their states, and the theorems are about all four.

* `CertCache` has a request at each point of `_fetch_certs` and
  `verify_iap_assertion` where another thread can come in. Time stamps are ages, cut off
  at the limit they are compared with. Keys rotate (beside, then instead), the endpoint
  fails and comes back.
* `PageCache` has each call on the ordered dictionary as one step of `_page_png`. Files
  are edited and removed; a stored PDF is not. The losers of a race (`KeyError`) end in
  `failed`.
* `Migrations` has a transaction per file with its lock, its second look and each of
  its statements, and may break off anywhere; releases differ in the number of files.
  `/ready` is its two reads.
* `GmailAccount` has the poll's reads and writes of the token and the cursor, and the
  operator's four steps: revoke at Google, clear, consent, redeploy. A poll
  keeps the settings of the revision it began in. `orderly` is a history
  variable for the one order that the tools promise something about.

## 3. What the runs check

| Run | Instance | Shows |
|---|---|---|
| `sequential` | one item beside one posted before that it may look like, one worker, two faults, all QC actions, three attempts | with requests that do not overlap: type, `ExceptionsExplainStatus`, `HubShowsTheRow`, `RecordedStopsAppends`, `RejectedIsFinal`, `PostedIsFinal`, `RerunFilesCorrection`; the duplicate guard in first passes and retries (`NoUnreviewedDuplicate`); every request ends and no item is stuck in flight; the pipeline implements `Filing` (`FilingSpec`) |
| `concurrent` | one item, two workers, one fault, two attempts, escalate as the edit | what holds even when requests overlap: `PostedIsRecorded`, `RowsBounded`, `DecisionMatchesStatus` |
| `gmail` | two messages (one doubtful and broken), two fetchers, one fault, a one-change page | no mail missed or unseen without a fault, no leaked lock, the route implemented |
| `drive` | three files (one poison), two fetchers, two faults | one item per file and fault, nothing hidden unprocessed, every file seen |
| `review` | one item, five documents, six replies, two answers, four requests after the first pass | what the contents may come to: no unsure value, unreviewed duplicate or instruction-like wording *that the passes look at* is filed (`FiledIsSure`, `DuplicateIsReviewed`, `SpoofedIsHeld`), each value of a row has an author (`FiledRowHasAuthor`), an item with an unparsable correction is stuck where the reviewer left it (`UnreadableStays`), the metrics know every correction of a filed item, and what they count as a false submit (`CorrectionsAreCounted`), the hub's views agree (`HubAgrees`) |
| `service` | two requests at each cache, three deploys by two processes, two polls, three tokens, two keys | `StaleBeatsLockout`, `KeysSettle`; `PageIsCurrent`, `CacheBounded`; `SchemaMatchesVersions`, `ReadyIsMigrated`; `OrderlyReconnect` |

and six runs in which the code does not keep what its text says (`findings` in
`PROJECT.json` has the quotations):

| Run | Refuted | What happens |
|---|---|---|
| `partial_append` | `NeverPostedTwice` | a crash between append and record, or a lost answer: the retry appends a second row |
| `reject_race` | `RejectedIsFinal` | a reject during a pass is overwritten by the pass's next save |
| `lost_correction` | `FiledRowReflectsCorrection` | `recover` of an item whose extraction failed extracts again and files without the correction |
| `gmail_backfill_gap` | `BackfillCovers` | mail between the backfill's listing and the probe is covered by the stored id and was never listed |
| `review_no_amount` | `FiledHasAmount` | after a failed first extraction, a retry finds no amount and holds; a plain rerun has no recorded signals, so nothing is missing, and files a row without an amount |
| `review_adversarial` | `AdversarialIsHeld` | instruction-like wording in a body beside the source is filed by the first pass: `_doc_text` reads the body in the source only |

The properties of the passing runs say precisely what is left of these promises:
`RowsBounded` for the first, the restriction to requests that do not overlap for
the second, `RerunFilesCorrection` for the third, the exception of the `passed`
messages in `NoMailMissed` and `MailIsSeen` for the fourth, `SignalsKnown` in
`FiledIsSure` for the fifth and `SpoofedIsHeld` for the last. Two more limits of the code
are named exceptions of passing properties: mail beyond the first page of `history.list`
counts as `passed`, and while a message is waiting whose attachment does not decode, no
fetch gets further (the last exception of `MailIsSeen`).

In three more places a passing property states what the code does **against** a text of
the repository, so that it is the text that is off (`findings`, too):

| Property | The code | The text |
|---|---|---|
| `DuplicateIsReviewed`, `NoUnreviewedDuplicate` | a retry looks for duplicates as a first pass does, and the comment in `recover` says why | the docstring of `_categorize_and_file` and a comment below it say that the guard is off for `recover`, as an earlier entry of `implementation-notes.md` does; a later entry agrees with the code |
| `CorrectionsAreCounted` | no posted item can be corrected; with requests that do not overlap, a counted false submit is an item that failed before a decision, was corrected or escalated, and was posted then | `audit/metrics.py` defines a false submit as an auto-submit that a human **later** corrected, and excludes what was fixed before it was submitted |
| `UnreadableStays` | an item with a correction that does not parse is offered a rerun and a correction by its status, and both raise | `domain/transitions.py`: `allowed_actions` hides buttons that would fail |

The mutants of the first two are the texts' own claims (`FirstPassOnly`,
`CorrectedLater`), and each violates its property.

### Bounds, and why they are enough

* **Workers.** Two threads on one item show every pairwise race; the theorems
  hold for any number. The runs with one worker state what the code promises
  when requests on an item do not overlap.
* **MaxFaults.** One fault shows each failure by itself; two show a failure of
  the handling of a failure (`_fail` itself failing) and a second crash on the way back.
* **RetryAttempts.** Three as in the code where counting matters, two where two
  threads do; the loop has no other use of the number.
* **Metadata.** Two values tell a corrected row from an uncorrected one; one of them
  looks like an item that was posted before (`Earlier`), the other does not, so a
  correction may make a duplicate or undo one. One look-alike is enough: the guard asks
  whether there is any.
* **Messages, fetchers.** Two fetchers are an old fetch that lost its lock and a
  new one. Two messages suffice for a delta with more than one page of one change,
  for a gap between listing and probe, and for a broken message beside a good one.
* `items`, `sheet` and `appends` are unbounded in the modules; that they stay small is
  a consequence (`OneItemPerMessage`, `RowsBounded`), so no run needs a state constraint.

* **Contents (`MCItemReview`).** One document for each outcome of the categorization (clear,
  income by its words, nothing to go by) and with instruction-like words in the
  head, in the body inside the source or in the mail body beside it; one reply for each outcome of the extraction (clear, the twin of
  the posted item without a date, an unsure field with a total off by more than one unit,
  no amount with a line whose words mean income, a line item with instruction-like words
  beside one without a known word, and one that does not parse). Days and confidences sit at the
  edges of the windows. The corrections set, change back, blank and break a field.
* **MaxRequests = 4.** The longest stories here have four steps: correct, rerun, correct
  again, rerun; or retry, correct, blank, rerun.
* **Caches.** Two requests show the races of check, fetch and store; a cache of one image
  with two documents evicts at once; two edits are one before and one
  after a store. `Ttl = 2` with limits of one tick separates fresh, stale and limited.
* **Migrations.** Three deploys by two processes are two that overlap and one that
  comes after a breakdown; two statements have a middle; releases of one to three
  files.
* **Account.** Three tokens are two changes of account, two keys are one rotation, and
  no key at all is an initial state, too.

`CHECK_DEADLOCK FALSE` stands in the runs of `Orchestrator` and `ItemReview`, where
the system rests when every item is posted or rejected and nobody asks for
anything (or no request is left), and in `service`, where the deploys and tokens
may be used up.

### Fairness

* `Fairness` of `Orchestrator`: a request that was accepted runs on (weak fairness
  of each worker's `Step`), as a server thread does. No request is promised.
* `OperatorRetries`, assumed only for `NoDeadEnd`: an item that may be retried is
  retried again and again (strong fairness, since the status may change in between).
  The code has no automatic recovery, so this is a promise of the person at the
  queue, and the property says that the API gives that person a way out of every
  in-flight state.
* The inboxes: `inbox_poller.run_loop` asks for a fetch for ever (weak fairness
  of some `StartFetch`), and a fetch that started runs on. Arrivals, purges and
  faults are never fair.
* `CertFairness` of `CertCache`, assumed for `KeysSettle` only: time passes, an outage
  ends, a request thread that was started is run, and users with each key in use keep coming
  (strong fairness: the proxy signs every request, and a retired key stops being used).
  Rotation and outages are not fair, and bounded.

## 4. What is proved

Every safety property that a passing run checks is also stated by a theorem; TLC shows
it on a small instance, the theorem for every value of the constants that satisfies the
named assumptions (`ConstantsAssumption`, `FetchAssumption`, `GmailAssumption`,
`ExtractionAssumption`, `CategorizationAssumption`, `ReviewAssumption`, `HubAssumption`,
`CertAssumption`, `PageAssumption`, `MigrationAssumption`, `AccountAssumption`): any
number of items, messages, attempts and faults, finitely many threads, and in
`ItemReview` any documents, replies, answers, ledger and corrections and any number of
requests. The assumptions about contents are the types of the code's records: a reply
holds a value, a confidence and a list of lines (amounts and confidences are any
integers, since nothing clamps them); a correction is about known fields; the category
table has an order (`Rank` is injective); null is no value.

| Theorem | Says | Argument |
|---|---|---|
| `TypeCorrect` | `Spec => []TypeOK` | one step per action; the attempts stay below `RetryAttempts` because `AppendError` tests before it counts |
| `PostedIsRecordedTheorem` | a posted item's reference is a row of the Sheet | strengthened by: a recorded reference is within the Sheet, a worker at `record` holds a reference within it, and one at `post` has the item recorded |
| `RowsBoundedTheorem` | rows of an item ≤ threads + faults | not inductive: a thread that has passed the ledger may still append. The strengthening counts, for each item, the threads that are appending against the ones that have not yet, and pays each lost row with a fault |
| `DecisionMatchesStatusTheorem` | stored decision and status agree | a worker's copy at `dupcheck`, `ledger`, `append`, `record`, `post` says submit, at `hold` says hold |
| `ExceptionsExplainStatusTheorem`, `HubShowsTheRowTheorem`, `RecordedStopsAppendsTheorem`, `RejectedIsFinalTheorem`, `PostedIsFinalTheorem`, `RerunFilesCorrectionTheorem` | invariants and action properties, under `[]Apart`: no two requests about **one** item overlap, any number about others may | below |
| `NoUnreviewedDuplicateTheorem` | the duplicate guard, under `[]Alone`: no two requests overlap | below |
| `NoLeakedLockTheorem`, `SeenIsProcessedTheorem` | the route, with any provider | a fetch holds a message it will not take again; a message about to be marked has an item or a log entry |
| `OneItemPerMessageTheorem` | items of a message ≤ 1 + faults, with any number of overlapping fetches | below |
| `GmailTypeCorrect`, `GmailImplementsRoute`, `GmailKeepsThePromises` | Gmail is a provider of the route | every step of `fetch_messages` is a `Drop`, `List`, `ListRaises`, `Abort` or leaves the route alone |
| `NoMailMissedTheorem` | while nothing has failed, what the stored history id covers is seen, in hand or passed over, for any mailbox, page size and number of fetches | below |
| `DriveTypeCorrect`, `DriveImplementsRoute`, `DriveOneItemPerMessage`, `MovedIsProcessedTheorem` | Drive is one, too, and hides no unprocessed file | a fetch at `reflect` has marked its message, and `process` returned for it |
| `FilingRefinement` (in `OrchestratorRowsProofs`) | `Orchestrator` implements `Filing`, with any number of overlapping requests | the initial states agree; `AppendRow` maps to writing a row, the commit of `RecordAppend` to recording it, saves to marking and unmarking, the rest to a stutter. It rests on the invariant of `PostedIsRecordedTheorem`: a reference about to be recorded is a row, a worker at `post` has its item recorded |
| `ServiceInvariant`, and `TypeCorrect`, `NoLockout`, `SchemaMatches`, `ReadyMeansMigrated`, `PagesAreCurrent`, `CacheIsBounded`, `ReconnectIsClean` | every safety property of `service`, for any numbers of threads, documents, releases, deploys, polls and encryption keys | below |
| `ReviewTypeCorrect`, `FiledIsSureTheorem`, `SpoofedIsHeldTheorem`, `DuplicateIsReviewedTheorem`, `FiledRowHasAuthorTheorem`, `CorrectionsAreCountedTheorem`, `UnreadableStaysTheorem`, `HubAgreesTheorem` | every property of `review`, without any further hypothesis | below |

### Requests that do not overlap

That requests about one item do not overlap is a hypothesis and not a fact: nothing in
the code keeps a reviewer's request from an item in flight, and `reject_race` shows what then
happens. The theorems say that this is the only way to break these promises: crashes, lost
acknowledgements, database errors, retries and any requests about other items do not.

The invariant `ISound` says what a job may take for granted of its item (`Sound`):
while it runs, the item is neither rejected nor, before the handling of a failure, posted; a
pass that has cleared the exceptions finds none; one about to append works on an
unrecorded item; a rerun that has read the trail holds the reviewer's values; and without
faults nothing is recorded before the pass records it, and the row recorded is what will
be saved. Each step is then a *turn* (`Turn`): one worker goes on and one item
changes, its own or one just received, so that the promises of all other jobs, which by
`Apart` are about other items, stand. `Sound` speaks of the job's own item and of nothing
else, which is what makes the step go through.

The duplicate guard is the one promise about two items: two look-alikes can be
checked together and posted together by requests that are apart. Under `Alone`, whoever is past the
guard is the only one who can post, so what it found (`Fresh`) stays true.

### Mail

`NoMailMissed` is about the moments in which an id is stored, so the invariant
`AccountedFor` follows the mail through `fetch_messages`: what the id that a fetch is
*going* to store covers is seen, passed over, a candidate or kept, at each of its steps;
what the stored id covers is seen, passed over or in the list of the fetch that
holds the lock. It needs that there is one fetch: while nothing fails, every running fetch
has the lock. `IAccounted` states it for `faults = 0` and the types without.

### What a row says

`ItemReview` reads trails of any length: the overlays, the recorded signals and the
metrics look for the first or last event with some property. Four layers of lemmas
bring that down to single steps:

* the largest and smallest of a set of positions exist, and how they move when one is
  added; with the least counterexample in the place of induction, also that finitely
  many confidences have a weakest one;
* *one more event*: what each reader of the trail makes of a trail with an event
  appended, above all that an event that is neither an extraction nor a correction leaves the
  overlays, the signals and the reviewer's words as they were (`Kept`), and that what
  was in a trail stays (`Begins`);
* what a stage guarantees: a decision to submit comes with each confidence at 80 or more and
  an amount, a decision to hold with an exception that the hub shows (`DecideEffect`);
  what comes out of an extraction is typed (`ExtractEffect`);
* every step is one of five: a first pass (`First`), a pass over the recorded contents
  (`Again`), a pass that extracts anew (`Anew`), one that gives up before a
  decision (`GivenUp`), or one event of a reviewer (`Noted`); each says all that the
  invariants need of it.

On top of these, `IShape` (types, and trails whose events are readable) is strengthened once for each
property: `Stuck` (an item with an unparsable correction is corrected, escalated or
rejected, and no pass takes it on), `Valued` and `FiledRow` (a value that is not missing is the
model's or was typed; a filed row has the item's values and the reviewer's where there
are some), `Counted` (what is decided first to be filed stays filed, so a correction can come
before it only after a failure), `Explained` (why an item is held, and how it failed
last). `SpoofedIsHeldTheorem` is about what the passes look at: the subject, the sender
and the line items in every pass, a body inside the source in the first; it claims nothing
of a mail body beside the source, and `review_adversarial` shows why. `SpoofedIsHeld` and
`DuplicateIsReviewed` are inductive together with `IShape`
alone, `FiledIsSure` together with `Valued`. TLC checked the strengthened invariants
before they were proved.

### The four mechanisms

The invariant of `Service` is the conjunction of one for each mechanism, and a step of
one leaves the variables of the others alone (`OwnSteps`):

* certificates: once there are keys there always are, and what a fetch is about to store is a
  set of keys, so a request that began with keys finds some whatever failed since;
* migrations: between the lock and the end of a transaction the process holds the lock,
  so the open file is not recorded and all earlier ones are; what a probe has found
  recorded stays recorded;
* pages: every entry of the cache and every image in a thread's hands shows its own
  document, at least as new as its key says; a key is no older than the request that
  computed it;
* the cache's bound: storing adds a thread to the set of those that have yet to trim
  before it adds an image; a thread that leaves the set has just seen the cache within
  its size, or no larger than the others account for;
* account: during an orderly change no poll is in flight, and after it the stored token, if
  any, and the token of every poll are the deployed one.

### One item per message

`OneItemPerMessage` needs the longest way. It is not inductive: with the lock lost,
several fetches may be on their way to the same message. `Makers(m)` is the set of
fetches that may still store an item for `m` whatever is marked from now on, or
that go on without the lock; `Spent(m)` says that the one item without a fault has
been made or is being made by the holder of the lock. The invariant is

    items[m] + |Makers(m)| <= faults + (1 if Spent(m) else 0)

and each step is balanced: a lost connection adds a maker and pays with its
fault, `Take` under the lock adds one and spends the one, `Ingest` turns a maker
into an item, `mark_seen` makes the spending permanent, and a crash pays for what it
un-spends. TLC checked the strengthened invariants before they were proved.

### What is only model-checked

* all liveness (`RequestsEnd`, `NoDeadEnd`, `MailIsSeen`, `FilesAreSeen`, `KeysSettle`),
  which is out of the prover's reach, as is `ENABLED`;
* what the code does not keep: the six runs that refute a promise are counterexamples,
  and need no proof.

## 5. What is left out

In what is modelled:

* in `Orchestrator`, audit events are what is read back of them and a metadata correction
  is one value for all fields; the reads that `correct_metadata` merges are one read.
  `AuditTrail` has the events and the fields, in the order they are recorded: two that
  carry the same time stamp are not reordered;
* `ItemReview` has one request at a time, so a look-alike item that is in flight in
  another request is not in its `Ledger`: the guard reads and the item files in different
  transactions, and two such items can pass it. No property excludes that;
* a row that reaches the Sheet late counts when it is sent;
* creation of a spreadsheet and its header; the deployment configures one;
* `process_all`, a loop over `process`; texts of exceptions, rationales and remarks; sponsor
  and study names; fields beyond vendor, date and amount; the sums and quotients of the
  metrics over all items;
* in `CertCache`, each read or write of the cache dictionary between two calls is one
  step, and a token fails for no reason but its key: audience, issuer and e-mail checks
  depend on the token alone;
* paging and sorting of the hub's lists, the page sizes of a document, and the render
  cache of the OCR path;
* the pages of a Gmail backfill are taken as one listing; the 1000 files of
  one Drive page, the subfolder a file is moved to, MIME parsing and the mock inbox
  are left out. `GmailAccount` has the disconnect of a mailbox, `GmailInbox` runs
  between two of them.

Not modelled: parsing, OCR and citations (text and positions without state; a document
is its set of words here), the in-memory repository (for tests and offline use; it says
that it is not thread-safe, and the modules model Postgres), clients, configuration,
one-shot tools and the frontend (wiring and presentation: what the frontend may do is what
the API's routes allow).

## 6. Running it

    tlc -config OrchestratorSequential.cfg MCOrchestrator.tla
    tlc -config GmailInbox.cfg GmailInbox.tla
    tlc -config ItemReview.cfg MCItemReview.tla
    tlc -config Service.cfg Service.tla
    tlapm InboxFetchProofs.tla

The module and configuration of each run are in `PROJECT.json`; each run takes less
than three minutes on two cores.
