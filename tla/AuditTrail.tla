------------------------------ MODULE AuditTrail ------------------------------
(***************************************************************************)
(* One item's append-only audit trail, oldest event first, and what the     *)
(* program replays from it: the reviewer's overlays, the latest details of   *)
(* a stage, and the strategy metrics.                                        *)
(*                                                                         *)
(* An event is a record with an actor, an action and the details that some  *)
(* reader looks at.                                                         *)
(***************************************************************************)
EXTENDS Decision

Event(actor, action) == [actor |-> actor, action |-> action]

\* The details that categorization and extraction leave for later readers.
ExtractedEvent(ex) ==
    [actor |-> "ai", action |-> "extracted",
     confidence |-> ex.confidence, missing |-> ex.missing]

ClassifiedEvent(cat) ==
    [actor |-> "ai", action |-> "classified", type |-> cat.type]

CategorizedEvent(cat) ==
    [actor |-> "ai", action |-> "categorized", category |-> cat.category]

MetadataCorrected(before, after) ==
    [actor |-> "human", action |-> "corrected", target |-> "metadata",
     before |-> before, after |-> after]

CategoryCorrected(before, after) ==
    [actor |-> "human", action |-> "corrected", target |-> "category",
     before |-> before, after |-> after]

\* (mutant) whatever failed is a failed stage
StageFailed(kind) == [actor |-> "system", action |-> "failed", kind |-> "stage_failure"]

FailedEvent(kind) == [actor |-> "system", action |-> "failed", kind |-> kind]

-----------------------------------------------------------------------------
(* Reading the trail *)

Positions(audit, action) == {n \in DOMAIN audit : audit[n].action = action}

HasEvent(audit, action) == Positions(audit, action) # {}

\* latest_details, for an action that has an event
Latest(audit, action) == audit[Max(Positions(audit, action))]

\* What the detail view and a rerun read back of the extraction: nothing, when no
\* first pass got that far.
RecordedSignals(audit) ==
    IF HasEvent(audit, "extracted")
    THEN [confidence |-> Latest(audit, "extracted").confidence,
          missing    |-> Latest(audit, "extracted").missing]
    ELSE [confidence |-> [f \in {} |-> 0], missing |-> {}]

Corrections(audit, target) ==
    {n \in Positions(audit, "corrected") :
        audit[n].actor = "human" /\ audit[n].target = target}

\* (mutant) the first correction of a field wins
FirstTyped(audit) ==
    LET of(f) == {n \in Corrections(audit, "metadata") : f \in DOMAIN audit[n].after} IN
    [f \in {g \in Field : of(g) # {}} |-> audit[Min(of(f))].after[f]]

\* metadata_overlay: the latest override of each field that was ever corrected.
MetadataOverlay(audit) ==
    LET of(f) == {n \in Corrections(audit, "metadata") : f \in DOMAIN audit[n].after} IN
    [f \in {g \in Field : of(g) # {}} |-> audit[Max(of(f))].after[f]]

\* category_overlay: the latest category that is not blank.
CategoryOverlay(audit) ==
    LET named == {n \in Corrections(audit, "category") : audit[n].after # NoValue} IN
    IF named = {} THEN NoValue ELSE audit[Max(named)].after

\* The fields on which the reviewer's word stands: blank overrides do not count.
Overridden(audit) ==
    {f \in DOMAIN MetadataOverlay(audit) : MetadataOverlay(audit)[f] # NoValue}

\* Whether effective_metadata can build its typed record; it raises otherwise.
OverlayValid(audit) ==
    \A f \in Overridden(audit) : MetadataOverlay(audit)[f] # Unreadable

EffectiveMetadata(stored, audit) ==
    [f \in Field |-> IF f \in Overridden(audit) THEN MetadataOverlay(audit)[f]
                     ELSE stored[f]]

-----------------------------------------------------------------------------
(* compute_metrics, one item at a time *)

NeedsHuman == {"corrected", "escalated"}

Decisions(audit) == Positions(audit, "posted") \union Positions(audit, "held")

\* _first_decision
FirstDecision(audit) ==
    IF Decisions(audit) = {} THEN "none" ELSE audit[Min(Decisions(audit))].action

HumanActions(audit) ==
    {audit[n].action : n \in {k \in DOMAIN audit : audit[k].actor = "human"}}

\* (mutant) what the module's docstring says: a human corrected it after it was filed
CorrectedLater(audit) ==
    /\ FirstDecision(audit) = "posted"
    /\ \E a \in NeedsHuman, n \in DOMAIN audit :
          audit[n].action = a /\ audit[n].actor = "human" /\ n > Min(Decisions(audit))

\* False submits, by what the code counts: any human correction or escalation, before
\* the item was filed or after.
CountedFalseSubmit(audit) ==
    FirstDecision(audit) = "posted" /\ HumanActions(audit) \intersect NeedsHuman # {}

CountedHoldConfirmed(audit) ==
    FirstDecision(audit) = "held" /\ HumanActions(audit) \intersect NeedsHuman # {}
=============================================================================
