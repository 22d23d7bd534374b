------------------------------ MODULE ItemReview ------------------------------
(***************************************************************************)
(* One item from its first pass to a filed row, with the contents that      *)
(* module Orchestrator leaves abstract: what extraction, categorization and  *)
(* decision make of the document, what the reviewer's corrections change,   *)
(* and what the metrics make of the audit trail.                            *)
(*                                                                         *)
(* Requests about the item come one after the other and each runs to its    *)
(* end: interleavings, crashes and database faults are Orchestrator's.       *)
(***************************************************************************)
EXTENDS AuditTrail, Transitions

CONSTANTS
    Source,       \* documents: the words of each, by the place in which they arrive
    Reply,        \* what the language model may reply to the extraction
    Answer,       \* what it may answer when it is asked to adjudicate
    Ledger,       \* metadata of the items that were posted before
    Updates,      \* metadata corrections that a reviewer may send
    Pin,          \* categories that a reviewer may send
    MaxRequests   \* bound on the requests after the first pass

\* What a reply holds: a value of the field or none, or a text that is no amount.
ReplyCell(field) ==
    [value : ValueOf(field) \union {NoValue}
                 \union (IF field = "total_amount" THEN {Unreadable} ELSE {}),
     confidence : Int \union {NoConfidence},
     corroborated : BOOLEAN]

ReplyLine ==
    {line \in [words : SUBSET Keyword, described : BOOLEAN,
               total : Amount \union {NoValue, Unreadable},
               confidence : Int \union {NoConfidence}] :
        line.words # {} => line.described}

ASSUME ReviewAssumption ==
    /\ \A reply \in Reply : /\ \A f \in Field : reply.cells[f] \in ReplyCell(f)
                            /\ reply.lines \in Seq(ReplyLine)
    /\ \A answer \in Answer : {answer.typeConfidence, answer.categoryConfidence} \subseteq Int
    /\ Ledger \subseteq Metadata
    /\ \A updates \in Updates :
          \A f \in DOMAIN updates :
             f \in Field /\ updates[f] \in ValueOf(f) \union {NoValue, Unreadable}

VARIABLES
    source,     \* what arrived.  head: subject and sender, recorded on RECEIVED; body:
                \* the body that an HTTP request may put into its source, not recorded;
                \* mail: the body of the message, beside the source, read by the parser
    status,     \* invoices.status
    meta,       \* invoices.metadata
    decision,   \* invoices.decision and decision_confidence
    items,      \* table line_items
    excs,       \* table exceptions: types
    audit,      \* table audit_events
    row,        \* the row filed in the Sheet, once the status is posted
    ai          \* (ghost) the metadata that the latest extraction returned

vars == <<source, status, meta, decision, items, excs, audit, row, ai>>

NoDecision == [verdict |-> "none", confidence |-> 0]
NoRow == [meta |-> NoMetadata, category |-> NoValue]

LineItem == [words : SUBSET Keyword, total : Amount \union {NoValue}, confidence : Int]

ExceptionType ==
    {"suspected_adversarial", "ambiguous_income_expense", "low_category_confidence",
     "missing_total", "low_extraction_confidence", "moderate_extraction_confidence",
     "total_mismatch", "low_confidence", "suspected_duplicate", "extraction_failed",
     "sheet_write_failed", "stage_failure"}

Init ==
    /\ source \in Source
    /\ status = "received"
    /\ meta = NoMetadata
    /\ decision = NoDecision
    /\ items = <<>>
    /\ excs = {}
    /\ audit = <<>>
    /\ row = NoRow
    /\ ai = NoMetadata

-----------------------------------------------------------------------------
(* The duplicate guard *)

\* (mutant) a missing date is no match
DatesDiffer(a, b) == a # NoValue /\ b # NoValue /\ a <= b + 3 /\ b <= a + 3

\* _dates_close: without both dates the two cannot be told apart on time.
DatesClose(a, b) == (a # NoValue /\ b # NoValue) => (a <= b + 3 /\ b <= a + 3)

\* find_duplicate
LooksPosted(m) ==
    /\ m["vendor_name"] # NoValue
    /\ m["total_amount"] # NoValue
    /\ \E posted \in Ledger :
          /\ posted["vendor_name"] = m["vendor_name"]
          /\ posted["total_amount"] = m["total_amount"]
          /\ DatesClose(m["invoice_date"], posted["invoice_date"])

-----------------------------------------------------------------------------
(* The tail that all three passes share: _categorize_and_file *)

\* A reviewer's category is a fixed, confident input.
Pinned(cat, trail) ==
    IF CategoryOverlay(trail) = NoValue THEN cat
    ELSE [cat EXCEPT !.category = CategoryOverlay(trail), !.categoryConfidence = 100]

\* One pass has ended: the status it leaves, why, and its last event.
EndPass(s, why, event, verdict, filed) ==
    /\ status' = s
    /\ excs' = why
    /\ audit' = event
    /\ decision' = verdict
    /\ row' = filed

Fail(kind, trail, verdict) ==
    EndPass("failed", {kind}, Append(trail, FailedEvent(kind)), verdict, NoRow)

Hold(why, trail, verdict) ==
    EndPass("held", why, Append(trail, Event("ai", "held")), verdict, NoRow)

\* What becomes of a decision about metadata m, seen being the audit trail so far.
\* The Sheet may refuse the row.
File(d, m, category, seen, guarded) ==
    LET verdict == [verdict |-> d.verdict, confidence |-> d.confidence]
        posted  == guarded /\ LooksPosted(m) IN
    \/ /\ d.verdict = "hold"
       /\ Hold(Reportable(d.flags), seen, verdict)
    \/ /\ d.verdict = "submit" /\ posted
       /\ Hold({"suspected_duplicate"}, seen, [verdict EXCEPT !.verdict = "hold"])
    \/ /\ d.verdict = "submit" /\ ~posted
       /\ EndPass("posted", {}, Append(seen, Event("ai", "posted")), verdict,
                  [meta |-> m, category |-> category])
    \/ /\ d.verdict = "submit" /\ ~posted
       /\ Fail("sheet_write_failed", seen, verdict)

CategorizeAndFile(ex, text, answer, trail, guarded) ==
    LET cat   == Categorize(ex, text, answer)
        final == Pinned(cat, trail) IN
    File(Decide(ex, final), ex.metadata, final.category,
         trail \o <<ClassifiedEvent(cat), CategorizedEvent(cat)>>, guarded)

-----------------------------------------------------------------------------
(* The three passes *)

Received == <<Event("system", "received"), Event("system", "parsed")>>

\* process: the stages look at all of the source, and at nothing beside it.
Process(reply, answer) ==
    /\ status = "received"
    /\ UNCHANGED source
    /\ \/ /\ Malformed(reply)
          /\ Fail("extraction_failed", Received, NoDecision)
          /\ UNCHANGED <<meta, items, ai>>
       \/ LET ex == Extract(reply) IN
          /\ ~Malformed(reply)
          /\ meta' = ex.metadata
          /\ items' = ex.items
          /\ ai' = ex.metadata
          /\ CategorizeAndFile(ex, source.head \union source.body, answer,
                               Append(Received, ExtractedEvent(ex)), TRUE)

\* _reconstruct_extraction: a corrected field is certain and no longer missing.
Reconstruct ==
    LET signals == RecordedSignals(audit)
        typed   == Overridden(audit) IN
    [metadata   |-> EffectiveMetadata(meta, audit),
     items      |-> items,
     confidence |-> [f \in DOMAIN signals.confidence \union typed |->
                        IF f \in typed THEN 100 ELSE signals.confidence[f]],
     missing    |-> signals.missing \ typed]

\* rerun: raises before it writes anything when a correction does not parse.
Rerun(answer) ==
    /\ IsAllowed("rerun", status)
    /\ OverlayValid(audit)
    /\ meta' = Reconstruct.metadata
    /\ UNCHANGED <<source, items, ai>>
    /\ CategorizeAndFile(Reconstruct, source.head, answer,
                         Append(audit, Event("human", "rerun")), FALSE)

\* recover: extracts again, without the reviewer's corrections, unless an earlier
\* pass has recorded an extraction.
Retry(reply, answer) ==
    LET trail     == Append(audit, Event("system", "recovered"))
        extracted == HasEvent(audit, "extracted") IN
    /\ IsAllowed("retry", status)
    /\ status # "received"
    /\ UNCHANGED source
    /\ \/ /\ IF extracted THEN ~OverlayValid(audit) ELSE Malformed(reply)
          /\ Fail("stage_failure", trail, decision)
          /\ UNCHANGED <<meta, items, ai>>
       \/ /\ extracted /\ OverlayValid(audit)
          /\ meta' = Reconstruct.metadata
          /\ UNCHANGED <<items, ai>>
          /\ CategorizeAndFile(Reconstruct, source.head, answer, trail, TRUE)
       \/ LET ex == Extract(reply) IN
          /\ ~extracted /\ ~Malformed(reply)
          /\ meta' = ex.metadata
          /\ items' = ex.items
          /\ ai' = ex.metadata
          /\ CategorizeAndFile(ex, source.head, answer, trail, TRUE)

-----------------------------------------------------------------------------
(* The reviewer's other actions *)

Record(event) ==
    /\ audit' = Append(audit, event)
    /\ UNCHANGED <<source, meta, decision, items, excs, row, ai>>

\* (mutant) the values before are taken from the stored metadata
CorrectBlind(updates) ==
    /\ IsAllowed("correct", status)
    /\ Record(MetadataCorrected([f \in DOMAIN updates |-> meta[f]], updates))
    /\ status' = "corrected"

\* correct_metadata: records what the reviewer sends, whatever it is, but raises
\* when an earlier correction does not parse.
CorrectMetadata(updates) ==
    /\ IsAllowed("correct", status)
    /\ OverlayValid(audit)
    /\ LET current == EffectiveMetadata(meta, audit) IN
       Record(MetadataCorrected([f \in DOMAIN updates |-> current[f]], updates))
    /\ status' = "corrected"

\* correct_category
CorrectCategory(category) ==
    LET prior == IF CategoryOverlay(audit) # NoValue THEN CategoryOverlay(audit)
                 ELSE IF HasEvent(audit, "categorized")
                 THEN Latest(audit, "categorized").category ELSE NoValue IN
    /\ IsAllowed("correct", status)
    /\ Record(CategoryCorrected(prior, category))
    /\ status' = "corrected"

\* escalate and reject_invoice
Escalate ==
    /\ IsAllowed("escalate", status)
    /\ Record(Event("human", "escalated"))
    /\ status' = "escalated"

Reject ==
    /\ IsAllowed("reject", status)
    /\ Record(Event("human", "rejected"))
    /\ status' = "rejected"

\* mark_reviewed looks at no status and changes none.  confirm_citation and add_note
\* are the same, with an event that no reader tells from this one.
Remark ==
    /\ Record(Event("human", "reviewed"))
    /\ UNCHANGED status

\* spot_check
SpotCheck ==
    /\ status = "posted"
    /\ Record(Event("system", "note"))
    /\ UNCHANGED status

-----------------------------------------------------------------------------

\* The requests that were made since the first pass, an event each.
Requests ==
    {n \in DOMAIN audit :
        \/ audit[n].actor = "human"
        \/ audit[n].action \in {"recovered", "note"}}

Review ==
    \/ \E answer \in Answer : Rerun(answer)
    \/ \E reply \in Reply, answer \in Answer : Retry(reply, answer)
    \/ \E updates \in Updates : CorrectMetadata(updates)
    \/ \E category \in Pin : CorrectCategory(category)
    \/ Remark \/ Escalate \/ Reject \/ SpotCheck

Next ==
    \/ \E reply \in Reply, answer \in Answer : Process(reply, answer)
    \/ status # "received" /\ Cardinality(Requests) < MaxRequests /\ Review

Spec == Init /\ [][Next]_vars

-----------------------------------------------------------------------------
(* Properties *)

TypeOK ==
    /\ source \in Source
    /\ status \in InvoiceStatus
    /\ meta \in Metadata /\ ai \in Metadata
    /\ decision \in [verdict : {"none", "submit", "hold"}, confidence : Int]
    /\ items \in Seq(LineItem)
    /\ excs \subseteq ExceptionType
    /\ row \in [meta : Metadata, category : Category \union Pin \union {NoValue}]

Happened(action) == HasEvent(audit, action)

\* A row in the ledger has an amount: "the one header field a ledger row cannot do
\* without" (decision/__init__.py).
FiledHasAmount == status = "posted" => row.meta["total_amount"] # NoValue

\* The signals that a rerun decides on are those of the extraction.  They are not
\* when the first pass failed to extract: a retry records no EXTRACTED event.
SignalsKnown == Happened("extracted") \/ ~Happened("rerun")

\* Nothing the model was unsure of, and no row without an amount, reaches the ledger
\* unseen: each field of a filed row that the reviewer did not type, and each line
\* item, has a confidence of 80 or more.  This holds whatever is corrected, blanked
\* again, rerun and retried in between, as long as the signals are known.
FiledIsSure ==
    status = "posted" /\ SignalsKnown =>
        /\ FiledHasAmount
        /\ \A k \in DOMAIN items : items[k].confidence >= 80
        /\ LET signals == RecordedSignals(audit) IN
           \A f \in DOMAIN signals.confidence \ (signals.missing \union Overridden(audit)) :
              signals.confidence[f] >= 80

\* The corrections that name a field, and what the last of them says.
Typed(f) == {n \in Corrections(audit, "metadata") : f \in DOMAIN audit[n].after}

LastWord(f) == {audit[n].after[f] : n \in {k \in Typed(f) : \A j \in Typed(f) : j <= k}}

\* Each value of a filed row has an author: the reviewer's latest word where it is
\* not blank; otherwise the model, or an earlier word of the reviewer that a rerun
\* has written into the item and that blanking does not undo.
FiledRowHasAuthor ==
    status = "posted" /\ Happened("extracted") =>
        /\ \A f \in Field :
              row.meta[f] \in IF LastWord(f) \subseteq {NoValue}
                              THEN {ai[f]} \union {audit[n].after[f] : n \in Typed(f)}
                              ELSE LastWord(f)
        /\ row.category = IF CategoryOverlay(audit) # NoValue THEN CategoryOverlay(audit)
                          ELSE Latest(audit, "categorized").category

\* The correction routes take any text.  After one that is no amount, the item is stuck
\* where the reviewer left it: no pass runs over it again and no later metadata
\* correction is recorded, although transitions.py goes on offering both (every
\* listing of the items raises as well: main.py, _summary_row).
UnreadableStays ==
    [][~OverlayValid(audit) =>
          /\ MetadataOverlay(audit') = MetadataOverlay(audit)
          /\ UNCHANGED <<meta, items, decision, row>>
          /\ status' \in {"corrected", "escalated", "rejected"}]_vars

\* The metrics know a reviewer's correction of a filed row: as a hold that needed a
\* human, or as a false submit.  By metrics.py a false submit was filed by the AI alone
\* and corrected later; no posted item allows a correction, so what is counted is the
\* opposite case: an item that failed before it was decided, was corrected or escalated,
\* and was filed afterwards.
CorrectionsAreCounted ==
    /\ CountedFalseSubmit(audit) =>
          Positions(audit, "failed") # {} /\
          Min(Positions(audit, "failed")) < Min(Decisions(audit))
    /\ status = "posted" /\ Happened("corrected") =>
          CountedHoldConfirmed(audit) \/ CountedFalseSubmit(audit)

\* Instruction-like wording is never filed from where every pass looks: the subject,
\* the sender and the line items, those of earlier passes too.  A first pass also looks
\* at a body inside the source; that is not recorded, so a later pass may file it.
SpoofedIsHeld ==
    status = "posted" =>
        /\ source.head \intersect InjectionWords = {}
        /\ \A k \in DOMAIN items : items[k].words \intersect InjectionWords = {}
        /\ source.body \intersect InjectionWords # {} =>
              Happened("rerun") \/ Happened("recovered")

\* What looks like a posted item (the same vendor and the same amount, neither of them
\* blank, and no proof that the dates are more than three days apart) is filed only if a
\* reviewer asked for a rerun: a retry looks for duplicates as a first pass does, as the
\* comment in recover says and the docstring of _categorize_and_file denies.
DuplicateIsReviewed ==
    status = "posted" /\ ~Happened("rerun") =>
        \A posted \in Ledger :
            LET day == row.meta["invoice_date"]
                other == posted["invoice_date"] IN
            (\A f \in {"vendor_name", "total_amount"} : row.meta[f] = posted[f] /\ posted[f] # NoValue) =>
                /\ NoValue \notin {day, other}
                /\ (day > other + 3 \/ other > day + 3)

\* README.md: "Adversarial-looking content is always held."  The words of the document
\* are content wherever they stand: in its head, in its source or in the mail's body.
AdversarialIsHeld ==
    status = "posted" =>
        (source.head \union source.body \union source.mail) \intersect InjectionWords = {}
=============================================================================
