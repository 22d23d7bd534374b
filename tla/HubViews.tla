------------------------------- MODULE HubViews -------------------------------
(***************************************************************************)
(* What the reviewer's hub shows of an item: its row in the list, its entry *)
(* in the review queue and the notifications, its trace and its detail view. *)
(* None of this is stored: each view is put together anew, from the item,    *)
(* its exceptions and its audit trail.                                       *)
(***************************************************************************)
EXTENDS ItemReview

ASSUME HubAssumption == NoValue \notin ExceptionType

LowConfidenceFlags ==
    {"low_extraction_confidence", "moderate_extraction_confidence", "low_confidence",
     "ambiguous_income_expense", "low_category_confidence"}

\* _filter_tags
FilterTags ==
    {status}
    \union When(status \in {"held", "failed"}, "needs_review")
    \union When(\/ excs \intersect LowConfidenceFlags # {}
                \/ decision.verdict = "submit" /\ decision.confidence < 75,
                "low_confidence")

\* The list cannot be shown, this item's row or any other, while a correction of
\* this item does not parse.
Listable == OverlayValid(audit)

\* _summary_row
SummaryRow ==
    [status     |-> status,
     decision   |-> decision,
     metadata   |-> EffectiveMetadata(meta, audit),
     exceptions |-> Cardinality(excs),
     tags       |-> FilterTags]

\* review_queue: the row and a reason to group by.
Queued == status = "held"

Reason == IF excs = {} THEN NoValue ELSE CHOOSE e \in excs : TRUE

\* notifications: the reasons that a held item is counted under.
CountedUnder == IF Queued THEN excs ELSE {}

\* is_retryable
Retryable(kind) == kind \in {"sheet_write_failed", "extraction_failed", "stage_failure"}

\* invoice_trace
Trace ==
    [n \in DOMAIN audit |->
        LET ok == audit[n].action # "failed" IN
        [stage     |-> audit[n].action,
         actor     |-> audit[n].actor,
         kind      |-> IF ok THEN NoValue ELSE audit[n].kind,
         retryable |-> ~ok /\ Retryable(audit[n].kind)]]

\* _build_detail
Detail ==
    [extraction  |-> RecordedSignals(audit),
     category    |-> IF HasEvent(audit, "categorized")
                     THEN Latest(audit, "categorized").category ELSE NoValue,
     corrections |-> [metadata |-> MetadataOverlay(audit), category |-> CategoryOverlay(audit)],
     allowed     |-> {a \in {"correct", "rerun", "retry", "reject", "escalate"} :
                        IsAllowed(a, status)}]

-----------------------------------------------------------------------------
(* Properties *)

\* The views agree with each other and with the ledger, after any passes and
\* corrections.  A held item is in the queue under a reason that notifications count
\* and shows as one to review, and as one of low confidence when it is well below the
\* bar.  A failed item can be retried, and its exceptions are
\* the failure that its trace ends with.  A filed item is listed with the values of
\* its row, and the detail view has the row's category.
HubAgrees ==
    /\ Queued => /\ Reason \in CountedUnder
                 /\ "needs_review" \in SummaryRow.tags
                 /\ decision.confidence < 70 => "low_confidence" \in SummaryRow.tags
    /\ status = "failed" =>
          LET failures == {n \in DOMAIN Trace : Trace[n].kind # NoValue} IN
          /\ Trace[Max(failures)].retryable
          /\ excs = {Trace[Max(failures)].kind}
          /\ "retry" \in Detail.allowed
    /\ status = "posted" /\ Happened("extracted") =>
          /\ Listable
          /\ SummaryRow.metadata = row.meta
          /\ row.category = IF Detail.corrections.category # NoValue
                            THEN Detail.corrections.category ELSE Detail.category
=============================================================================
