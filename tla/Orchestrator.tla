---------------------------- MODULE Orchestrator ----------------------------
(***************************************************************************)
(* The core of the program: the pipeline that takes one item from intake   *)
(* to a row of the user's Sheet (process, rerun, recover), the human QC    *)
(* actions of the API, the Postgres tables they share, and the external    *)
(* Sheet.                                                                  *)
(*                                                                         *)
(* FastAPI runs every handler on a thread of its own, on any of several    *)
(* Cloud Run instances.  A worker is such a thread.  A step of a worker is *)
(* what the code does between two points where another thread can come in: *)
(* one transaction, one read, or one call of the Sheets API.  What a       *)
(* handler has read stays in its job record until it is used.              *)
(*                                                                         *)
(* Faults, at most MaxFaults of them: a worker dies between two steps, a   *)
(* database call fails, a commit succeeds but its acknowledgement is lost, *)
(* or the Sheet writes a row and the answer is lost.                       *)
(***************************************************************************)
EXTENDS Naturals, Sequences, FiniteSets, Transitions

CONSTANTS
    Item,           \* ids that ingest() may give to an item
    Worker,         \* request threads
    Meta,           \* metadata that extraction may produce or a reviewer may type
    Similar,        \* pairs of metadata that find_duplicate takes for one transaction
    Earlier,        \* metadata of the items posted before, which no request is about
    NoMeta,         \* the empty metadata of an item that was never extracted
    Bad,            \* a reviewer's value that does not validate as metadata
    Edit,           \* the QC actions that reviewers use, of those in AnyEdit
    RetryAttempts,  \* _RETRY_ATTEMPTS: tries of one Sheet append in one pass
    MaxFaults       \* bound on the faults of a behaviour

AnyEdit == {"correct_metadata", "correct_category", "reject", "escalate"}

ASSUME ConstantsAssumption ==
    /\ IsFiniteSet(Worker)
    /\ Edit \subseteq AnyEdit
    /\ NoMeta \notin Meta
    /\ Bad \notin Meta
    /\ NoMeta # Bad
    /\ Similar \subseteq Meta \X Meta
    /\ Earlier \subseteq Meta
    /\ RetryAttempts \in Nat \ {0}
    /\ MaxFaults \in Nat

VARIABLES
    row,      \* table invoices: status, decision and metadata of each item
    excs,     \* table exceptions: the exception types of each item
    audit,    \* tables audit_events and line_items: what the code reads back
    appends,  \* table sheet_appends: 0, or the position of the row recorded for the item
    sheet,    \* the rows of each item in the Google Sheet, in order (external)
    job,      \* what each worker is doing, with the values it has read
    faults    \* how many faults have happened

vars == <<row, excs, audit, appends, sheet, job, faults>>
tables == <<row, excs, audit, appends>>

-----------------------------------------------------------------------------
(* Values *)

AnyMeta == Meta \union {NoMeta}

\* What a metadata correction may set: a value, an unparsable text, or blank.
Typed == Meta \union {NoMeta, Bad}

HoldReason == {"low_extraction_confidence", "low_category_confidence"}
FailKind == {"extraction_failed", "sheet_write_failed", "stage_failure"}
ExceptionType == HoldReason \union FailKind \union {"suspected_duplicate"}

DecisionValue == {"none", "submit", "hold"}

\* The status "absent" stands for an item without a row in invoices.
Invoice == [status   : InvoiceStatus \union {"absent"},
            decision : DecisionValue,
            meta     : AnyMeta]

\* extracted: an EXTRACTED event exists; items: a retry has stored line items
\* without one; overlay: the latest human metadata correction (NoMeta when there
\* is none, or when it is blank); pinned: a human category correction exists.
Trail == [extracted : BOOLEAN, items : BOOLEAN, overlay : Typed, pinned : BOOLEAN]

Pass == {"process", "rerun", "retry"}

\* Where a worker is: the step it takes next.
Guarded == {"parse", "extract", "store", "rebuild", "classify", "categorize",
            "decide", "hold", "dupcheck", "ledger", "append", "record", "post",
            "fail"}
Unguarded == {"load", "audit", "restart", "edit"}

Job == [op     : Edit \union Pass \union {"none"},
        pc     : Guarded \union Unguarded \union {"idle"},
        item   : Item \union {"none"},
        inv    : [decision : DecisionValue, meta : AnyMeta],
        trail  : Trail,
        scored : BOOLEAN,
        typed  : Typed,
        why    : SUBSET ExceptionType,
        tries  : 0..(RetryAttempts - 1),
        ref    : Nat]

NewInvoice == [decision |-> "none", meta |-> NoMeta]
NoTrail == [extracted |-> FALSE, items |-> FALSE, overlay |-> NoMeta, pinned |-> FALSE]

NoJob == [op |-> "none", pc |-> "idle", item |-> "none", inv |-> NewInvoice,
          trail |-> NoTrail, scored |-> FALSE, typed |-> NoMeta, why |-> {},
          tries |-> 0, ref |-> 0]

TypeOK ==
    /\ row \in [Item -> Invoice]
    /\ excs \in [Item -> SUBSET ExceptionType]
    /\ audit \in [Item -> Trail]
    /\ appends \in [Item -> Nat]
    /\ sheet \in [Item -> Seq(AnyMeta)]
    /\ job \in [Worker -> Job]
    /\ faults \in 0..MaxFaults

Init ==
    /\ row = [i \in Item |-> [status |-> "absent", decision |-> "none", meta |-> NoMeta]]
    /\ excs = [i \in Item |-> {}]
    /\ audit = [i \in Item |-> NoTrail]
    /\ appends = [i \in Item |-> 0]
    /\ sheet = [i \in Item |-> <<>>]
    /\ job = [w \in Worker |-> NoJob]
    /\ faults = 0

-----------------------------------------------------------------------------
(* Building blocks of the steps *)

\* (mutant) the override is recorded but never applied
AIOnly(stored, overlay) == stored

\* The AI value with the latest human override applied on top.
Effective(stored, overlay) == IF overlay \in Meta THEN overlay ELSE stored

\* (mutant) the metadata is missing from the columns that the upsert updates
SaveWithoutMetadata(j, s) ==
    [row EXCEPT ![j.item] = [status |-> s, decision |-> j.inv.decision, meta |-> @.meta]]

\* (mutant) the decision is missing from the columns that the upsert updates
SaveWithoutDecision(j, s) ==
    [row EXCEPT ![j.item] = [status |-> s, decision |-> @.decision, meta |-> j.inv.meta]]

\* repo.save_invoice(invoice): the whole local copy overwrites the stored row.
Save(j, s) ==
    [row EXCEPT ![j.item] =
        [status |-> s, decision |-> j.inv.decision, meta |-> j.inv.meta]]

\* (mutant) stale hold reasons pile up over the passes
Kept(types) == types

\* _supersede_exceptions: what is left of an item's exceptions when a pass starts.
Superseded(types) == {}

\* The job after _fail was chosen for it with this kind.
FailWith(j, kind) == [j EXCEPT !.pc = "fail", !.why = {kind}]

\* The job after its current step raised.  Inside the try of process, rerun and
\* recover the handler marks the item failed; when that marking itself raises as
\* a stage failure, or anywhere outside the try, the request ends with an error.
Raised(j) ==
    IF j.pc \in Guarded /\ ~(j.pc = "fail" /\ j.why = {"stage_failure"})
    THEN FailWith(j, "stage_failure")
    ELSE NoJob

Goto(w, j) == job' = [job EXCEPT ![w] = j]

Fault == faults < MaxFaults /\ faults' = faults + 1

\* A transaction has committed; the worker learns it, or the acknowledgement is
\* lost and the commit looks like an error to the worker.
Commit(w, next) ==
    \/ Goto(w, next) /\ UNCHANGED faults
    \/ Goto(w, Raised(job[w])) /\ Fault

\* A step that only computes or reads.
Local(w, j) == Goto(w, j) /\ UNCHANGED <<tables, sheet, faults>>

At(w, pc) == job[w].pc = pc

-----------------------------------------------------------------------------
(* process: intake, parsing, extraction *)

Receive(w, i) ==
    /\ At(w, "idle")
    /\ row[i].status = "absent"
    /\ row' = [row EXCEPT ![i] =
                  [status |-> "received", decision |-> "none", meta |-> NoMeta]]
    /\ Commit(w, [NoJob EXCEPT !.op = "process", !.pc = "parse", !.item = i])
    /\ UNCHANGED <<excs, audit, appends, sheet>>

Parse(w) ==
    /\ At(w, "parse")
    /\ row' = Save(job[w], "parsed")
    /\ Commit(w, [job[w] EXCEPT !.pc = "extract"])
    /\ UNCHANGED <<excs, audit, appends, sheet>>

\* The call of the extraction model and the citations; no write yet.
Extract(w) ==
    /\ At(w, "extract")
    /\ \E m \in Meta :
          Local(w, [job[w] EXCEPT !.pc = "store", !.inv.meta = m, !.scored = TRUE])

ExtractFails(w) ==
    /\ At(w, "extract")
    /\ Local(w, FailWith(job[w], "extraction_failed"))

StoreExtraction(w) ==
    /\ At(w, "store")
    /\ row' = Save(job[w], "extracted")
    /\ audit' = [audit EXCEPT ![job[w].item].extracted = TRUE]
    /\ Commit(w, [job[w] EXCEPT !.pc = "classify"])
    /\ UNCHANGED <<excs, appends, sheet>>

-----------------------------------------------------------------------------
(* rerun and recover: how an existing item re-enters the pipeline *)

\* POST .../rerun and .../retry: the status is checked on a read of its own.
RequestPass(w, i, op) ==
    /\ At(w, "idle")
    /\ row[i].status # "absent"
    /\ IsAllowed(op, row[i].status)
    /\ Local(w, [NoJob EXCEPT !.op = op, !.pc = "load", !.item = i])

Load(w) ==
    /\ At(w, "load")
    /\ LET r == row[job[w].item] IN
          Local(w, [job[w] EXCEPT !.pc = "audit",
                                  !.inv = [decision |-> r.decision, meta |-> r.meta]])

\* rerun reconstructs the extraction here, before it has written anything and
\* outside its try: an overlay that does not validate ends the request.
ReadAudit(w) ==
    /\ At(w, "audit")
    /\ LET a == audit[job[w].item] IN
          IF job[w].op = "rerun"
          THEN IF a.overlay = Bad
               THEN Local(w, NoJob)
               ELSE Local(w, [job[w] EXCEPT
                       !.pc = "restart",
                       !.inv.meta = Effective(job[w].inv.meta, a.overlay),
                       !.scored = a.extracted \/ a.items \/ a.overlay \in Meta])
          ELSE Local(w, [job[w] EXCEPT !.pc = "restart", !.trail = a])

\* The RERUN or RECOVERED event, the exceptions cleared, and the new status.
Restart(w) ==
    /\ At(w, "restart")
    /\ excs' = [excs EXCEPT ![job[w].item] = Superseded(@)]
    /\ row' = Save(job[w], "rerun_requested")
    /\ Commit(w, [job[w] EXCEPT !.pc = IF job[w].op = "rerun" THEN "classify" ELSE "rebuild"])
    /\ UNCHANGED <<audit, appends, sheet>>

\* recover reuses a recorded extraction, with the overlay on top ...
Reconstruct(w) ==
    /\ At(w, "rebuild")
    /\ job[w].trail.extracted
    /\ Local(w, IF job[w].trail.overlay = Bad
                THEN Raised(job[w])
                ELSE [job[w] EXCEPT
                        !.pc = "classify",
                        !.inv.meta = Effective(job[w].inv.meta, job[w].trail.overlay),
                        !.scored = TRUE,
                        !.trail = NoTrail])

\* ... and extracts again, without the overlay, when none was recorded.  The new
\* line items are stored at once; no EXTRACTED event is.
ReExtract(w) ==
    /\ At(w, "rebuild")
    /\ ~job[w].trail.extracted
    /\ audit' = [audit EXCEPT ![job[w].item].items = TRUE]
    /\ \E m \in Meta :
          Commit(w, [job[w] EXCEPT !.pc = "classify", !.inv.meta = m,
                                   !.scored = TRUE, !.trail = NoTrail])
    /\ UNCHANGED <<row, excs, appends, sheet>>

-----------------------------------------------------------------------------
(* _categorize_and_file: the tail that every pass runs *)

Classify(w) ==
    /\ At(w, "classify")
    /\ row' = Save(job[w], "classified")
    /\ Commit(w, [job[w] EXCEPT !.pc = "categorize"])
    /\ UNCHANGED <<excs, audit, appends, sheet>>

Categorize(w) ==
    /\ At(w, "categorize")
    /\ row' = Save(job[w], "categorized")
    /\ Commit(w, [job[w] EXCEPT !.pc = "decide"])
    /\ UNCHANGED <<excs, audit, appends, sheet>>

\* The blocking flags decide() may raise, those of the extraction (a missing field,
\* a low confidence, totals that disagree) and those of the categorization taken
\* as one each, what no category correction lifts with the former: a category that
\* the reviewer pinned has confidence 1.0, and without any scored field or line
\* item the extraction confidence is 0.
PossibleFlags(j, trail) ==
    {f \in SUBSET HoldReason :
        /\ trail.pinned => "low_category_confidence" \notin f
        /\ ~j.scored => "low_extraction_confidence" \in f}

\* (mutant) recover skips the duplicate guard, as _categorize_and_file says it does
FirstPassOnly(op) == op = "process"

\* check_duplicates: on for a first pass and for recover, off for rerun.
ChecksDuplicates(op) == op # "rerun"

Decide(w) ==
    /\ At(w, "decide")
    /\ \E flags \in PossibleFlags(job[w], audit[job[w].item]) :
          Local(w, IF flags # {}
                   THEN [job[w] EXCEPT !.pc = "hold", !.why = flags,
                                       !.inv.decision = "hold"]
                   ELSE [job[w] EXCEPT
                            !.pc = IF ChecksDuplicates(job[w].op) THEN "dupcheck" ELSE "ledger",
                            !.inv.decision = "submit"])

\* The posted items that find_duplicate would take for this one.
Duplicates(i, meta) ==
    {k \in Item \ {i} : row[k].status = "posted" /\ <<meta, row[k].meta>> \in Similar}

\* find_duplicate finds one, of those or of the items posted before.
LooksPosted(i, meta) ==
    Duplicates(i, meta) # {} \/ \E m \in Earlier : <<meta, m>> \in Similar

HoldDuplicate(j) ==
    [j EXCEPT !.pc = "hold", !.why = {"suspected_duplicate"}, !.inv.decision = "hold"]

CheckDuplicates(w) ==
    /\ At(w, "dupcheck")
    /\ Local(w, IF LooksPosted(job[w].item, job[w].inv.meta)
                THEN HoldDuplicate(job[w])
                ELSE [job[w] EXCEPT !.pc = "ledger"])

\* _hold and _hold_duplicate: exceptions, status and event in one transaction.
Hold(w) ==
    /\ At(w, "hold")
    /\ excs' = [excs EXCEPT ![job[w].item] = @ \union job[w].why]
    /\ row' = Save(job[w], "held")
    /\ Commit(w, NoJob)
    /\ UNCHANGED <<audit, appends, sheet>>

\* _fail
Fail(w) ==
    /\ At(w, "fail")
    /\ excs' = [excs EXCEPT ![job[w].item] = @ \union job[w].why]
    /\ row' = Save(job[w], "failed")
    /\ Commit(w, NoJob)
    /\ UNCHANGED <<audit, appends, sheet>>

\* parse, categorize or another pure stage raises.
StageRaises(w) ==
    /\ job[w].pc \in {"parse", "classify", "rebuild"}
    /\ Local(w, Raised(job[w]))

-----------------------------------------------------------------------------
(* _file_to_sheet: append_filed_row under _retry, and the POSTED transaction *)

\* (mutant) the dedup ledger is not consulted
NeverAppended(i) == FALSE

IsAppended(i) == appends[i] # 0

CheckLedger(w) ==
    /\ At(w, "ledger")
    /\ Local(w, [job[w] EXCEPT !.pc = IF IsAppended(job[w].item) THEN "post" ELSE "append"])

\* (mutant) when the attempts run out the item is marked posted all the same
AppendErrorPosts(j) ==
    [j EXCEPT !.tries = IF @ + 1 < RetryAttempts THEN @ + 1 ELSE 0,
              !.pc = IF j.tries + 1 < RetryAttempts THEN "ledger" ELSE "post"]

\* (mutant) one attempt too many
AppendErrorOnceMore(j) ==
    IF j.tries < RetryAttempts
    THEN [j EXCEPT !.tries = @ + 1, !.pc = "ledger"]
    ELSE FailWith(j, "sheet_write_failed")

\* (mutant) the attempts are not counted
AppendErrorForever(j) == [j EXCEPT !.pc = "ledger"]

\* A SheetsClientError: another attempt, or sheet_write_failed after the last.
AppendError(j) ==
    IF j.tries + 1 < RetryAttempts
    THEN [j EXCEPT !.tries = @ + 1, !.pc = "ledger"]
    ELSE FailWith(j, "sheet_write_failed")

NewRow(j) == sheet' = [sheet EXCEPT ![j.item] = Append(@, j.inv.meta)]

\* The append succeeds, or the row is written and the answer is lost (a timeout
\* is a SheetsClientError, an unreadable answer is not).
AppendRow(w) ==
    /\ At(w, "append")
    /\ NewRow(job[w])
    /\ \/ /\ Goto(w, [job[w] EXCEPT !.pc = "record", !.ref = Len(sheet[job[w].item]) + 1])
          /\ UNCHANGED faults
       \/ Goto(w, AppendError(job[w])) /\ Fault
       \/ Goto(w, Raised(job[w])) /\ Fault
    /\ UNCHANGED tables

\* The append fails before a row is written: an HTTP error, or another error
\* (refreshing the token) that _retry does not catch.
AppendRefused(w) ==
    /\ At(w, "append")
    /\ \/ Local(w, AppendError(job[w]))
       \/ Local(w, Raised(job[w]))

\* on_conflict_do_nothing: the first recorded reference stays.
FirstRef(recorded, ref) == IF recorded = 0 THEN ref ELSE recorded

RecordAppend(w) ==
    /\ At(w, "record")
    /\ appends' = [appends EXCEPT ![job[w].item] = FirstRef(@, job[w].ref)]
    /\ Commit(w, [job[w] EXCEPT !.pc = "post"])
    /\ UNCHANGED <<row, excs, audit, sheet>>

Post(w) ==
    /\ At(w, "post")
    /\ row' = Save(job[w], "posted")
    /\ Commit(w, NoJob)
    /\ UNCHANGED <<excs, audit, appends, sheet>>

-----------------------------------------------------------------------------
(* The human QC actions that change an item *)

ActionOf(op) == IF op \in {"correct_metadata", "correct_category"} THEN "correct" ELSE op

\* The handler reads the invoice and checks its status; correct_metadata also
\* applies the current overlay, and fails when that does not validate.
RequestEdit(w, i, op) ==
    /\ At(w, "idle")
    /\ row[i].status # "absent"
    /\ IsAllowed(ActionOf(op), row[i].status)
    /\ op = "correct_metadata" => audit[i].overlay # Bad
    /\ \E t \in IF op = "correct_metadata" THEN Typed ELSE {NoMeta} :
          Local(w, [NoJob EXCEPT !.op = op, !.pc = "edit", !.item = i, !.typed = t,
                       !.inv = [decision |-> row[i].decision, meta |-> row[i].meta]])

\* The event and _set_status in one transaction, with the invoice read before.
Apply(w) ==
    /\ At(w, "edit")
    /\ LET i == job[w].item
           op == job[w].op IN
          /\ row' = Save(job[w], CASE ActionOf(op) = "correct" -> "corrected"
                                   [] op = "reject" -> "rejected"
                                   [] op = "escalate" -> "escalated")
          /\ audit' = CASE op = "correct_metadata" -> [audit EXCEPT ![i].overlay = job[w].typed]
                        [] op = "correct_category" -> [audit EXCEPT ![i].pinned = TRUE]
                        [] OTHER -> audit
    /\ Commit(w, NoJob)
    /\ UNCHANGED <<excs, appends, sheet>>

-----------------------------------------------------------------------------
(* Faults, and the specification *)

\* The thread, its process or its instance dies between two steps.
Crash(w) ==
    /\ ~At(w, "idle")
    /\ Goto(w, NoJob)
    /\ Fault
    /\ UNCHANGED <<tables, sheet>>

\* The database call of the current step fails and nothing is written.
DatabaseError(w) ==
    /\ job[w].pc \notin {"idle", "extract", "append"}
    /\ Goto(w, Raised(job[w]))
    /\ Fault
    /\ UNCHANGED <<tables, sheet>>

Step(w) ==
    \/ Parse(w) \/ Extract(w) \/ ExtractFails(w) \/ StoreExtraction(w)
    \/ Load(w) \/ ReadAudit(w) \/ Restart(w) \/ Reconstruct(w) \/ ReExtract(w)
    \/ Classify(w) \/ Categorize(w) \/ Decide(w) \/ CheckDuplicates(w)
    \/ Hold(w) \/ Fail(w) \/ StageRaises(w)
    \/ CheckLedger(w) \/ AppendRow(w) \/ AppendRefused(w) \/ RecordAppend(w) \/ Post(w)
    \/ Apply(w)

Next ==
    \E w \in Worker :
        \/ Step(w)
        \/ \E i \in Item :
              \/ Receive(w, i)
              \/ \E op \in {"rerun", "retry"} : RequestPass(w, i, op)
              \/ \E op \in Edit : RequestEdit(w, i, op)
        \/ Crash(w)
        \/ DatabaseError(w)

Spec == Init /\ [][Next]_vars

\* A request that was accepted runs on; nobody promises further requests.
Fairness == \A w \in Worker : WF_vars(Step(w))

FairSpec == Spec /\ Fairness

\* The operator who works the queue: an item that is in flight or failed is
\* retried again and again as long as the API allows it and a thread is free.
OperatorRetries ==
    \A i \in Item : SF_vars(\E w \in Worker : RequestPass(w, i, "retry"))

OperatorSpec == FairSpec /\ OperatorRetries

-----------------------------------------------------------------------------
(* Safety, whatever the number of threads *)

\* An item that the hub shows as posted is in the dedup ledger, and the ledger's
\* reference points at a row of that item which the Sheet really has.
PostedIsRecorded ==
    \A i \in Item : row[i].status = "posted" => appends[i] \in 1..Len(sheet[i])

\* The rows of one item: each thread adds at most one while the ledger does not
\* know the item, and each fault at most one more; the ledger stops the rest,
\* however often the item is rerun and retried.
RowsBounded ==
    \A i \in Item : Len(sheet[i]) <= Cardinality(Worker) + faults

\* The decision stored with a settled item is the one that settled it.
DecisionMatchesStatus ==
    \A i \in Item :
        /\ row[i].status = "posted" => row[i].decision = "submit"
        /\ row[i].status = "held" => row[i].decision = "hold"

Filed == INSTANCE Filing WITH
             rows     <- [i \in Item |-> Len(sheet[i])],
             recorded <- appends,
             posted   <- [i \in Item |-> row[i].status = "posted"]

\* The pipeline implements Filing: whatever the threads do and wherever they die,
\* row, ledger and status follow in this order, and the ledger's reference stays.
FilingSpec == Filed!Spec

-----------------------------------------------------------------------------
(* Safety with one thread: what the code promises when no two requests overlap *)

\* Once the ledger has an item, no pass appends a row for it again: not after a
\* crash, a lost answer, a rerun or a retry (append_filed_row).
RecordedStopsAppends ==
    [][\A i \in Item : appends[i] # 0 => sheet'[i] = sheet[i]]_vars

\* A rejected item stays rejected, and no row is written for it from then on
\* (reject_invoice; transitions.py: "rejected is terminal").
RejectedIsFinal ==
    [][\A i \in Item :
          row[i].status = "rejected" => row'[i] = row[i] /\ sheet'[i] = sheet[i]]_vars

\* A posted item is changed only by the failure handling of the very pass that
\* posted it, when the commit's acknowledgement was lost.
PostedIsFinal ==
    [][\A i \in Item :
          row[i].status = "posted" /\ row'[i] # row[i]
             => \E w \in Worker : At(w, "fail") /\ job[w].item = i]_vars

\* The stored exceptions say why the item is where it is now: a hold has hold
\* reasons only, a failure a failure kind, and a posted item has none left.
ExceptionsExplainStatus ==
    \A i \in Item :
        /\ row[i].status = "held" =>
              excs[i] # {} /\ excs[i] \subseteq HoldReason \union {"suspected_duplicate"}
        /\ row[i].status = "failed" => excs[i] \intersect FailKind # {}
        /\ row[i].status = "posted" => excs[i] = {}

\* A first pass or a recovery never posts an item while a posted item looks like the
\* same transaction; only a reviewer's rerun may.  That recover checks is what its own
\* comment says (orchestrator.recover); the docstring of _categorize_and_file and its
\* comment on the guard say the opposite: off for rerun and recover, first pass only.
NoUnreviewedDuplicate ==
    [][\A w \in Worker :
          /\ At(w, "post")
          /\ job[w].op # "rerun"
          /\ row'[job[w].item].status = "posted"
          => ~LooksPosted(job[w].item, job[w].inv.meta)]_vars

\* The row that a rerun files carries the reviewer's latest metadata correction
\* (orchestrator.rerun: "not the stale AI values that the correction unblocked").
RerunFilesCorrection ==
    [][\A w \in Worker :
          LET i == job[w].item IN
          /\ job[w].op = "rerun"
          /\ sheet'[i] # sheet[i]
          /\ audit[i].overlay \in Meta
          => sheet'[i][Len(sheet'[i])] = audit[i].overlay]_vars

\* Without faults, the row that the ledger points at says what the hub shows.
HubShowsTheRow ==
    \A i \in Item :
        row[i].status = "posted" /\ faults = 0 => sheet[i][appends[i]] = row[i].meta

-----------------------------------------------------------------------------
(* Liveness *)

\* Every accepted request comes to an end: the append is not retried for ever.
RequestsEnd == \A w \in Worker : ~At(w, "idle") ~> At(w, "idle")

\* An item never stays in flight for ever, even when the pass that moved it
\* died, provided that somebody keeps retrying what may be retried.
NoDeadEnd == \A i \in Item : row[i].status \in InFlight ~> row[i].status \notin InFlight

-----------------------------------------------------------------------------
(* What the comments say of the program, and the code does not keep *)

\* migrations/0001_baseline.sql: "the same filed item is never posted to the
\* Sheet twice" after a crashed or partial append.
NeverPostedTwice == \A i \in Item : Len(sheet[i]) <= 1

\* docs/implementation-notes.md: rerun and recover see to it that "a reviewer's
\* corrected vendor/date/amount" is what the row of the Sheet shows.
FiledRowReflectsCorrection ==
    [][\A i \in Item :
          sheet'[i] # sheet[i] /\ audit[i].overlay \in Meta
             => sheet'[i][Len(sheet'[i])] = audit[i].overlay]_vars
=============================================================================
