---------------------------- MODULE Transitions ----------------------------
(***************************************************************************)
(* Which human QC action each workflow status allows: the table that the   *)
(* API checks before every action (409 otherwise) and that the hub uses to *)
(* hide buttons.  Definitions marked (mutant) are slips that a check must  *)
(* be able to see; nothing uses them.                                      *)
(***************************************************************************)

\* Pre-pivot statuses that only rows of the old deployment still carry.
LegacyStatus == {"context_resolved", "catalog_matched", "submitted"}

\* The statuses an item passes through while a pipeline pass is running.
InFlight ==
    {"received", "parsed", "extracted", "classified", "categorized",
     "rerun_requested"} \union LegacyStatus

InvoiceStatus ==
    InFlight \union
    {"posted", "held", "failed", "corrected", "escalated", "rejected"}

\* (mutant) a rejection may be undone by a correction
CorrectRejected == {"held", "failed", "corrected", "escalated", "rejected"}
\* (mutant) a posted item may be corrected
CorrectPosted == {"held", "failed", "corrected", "escalated", "posted"}
CorrectFrom == {"held", "failed", "corrected", "escalated"}

RerunFrom == {"held", "corrected", "escalated"}

\* (mutant) an item that a crash left in flight has no way forward
RetryFailed == {"failed"}
RetryFrom == {"failed"} \union InFlight

RejectFrom == {"held", "failed", "corrected", "escalated"} \union InFlight
EscalateFrom == {"held", "failed", "corrected"} \union InFlight

AllowedFrom(action) ==
    CASE action = "correct"  -> CorrectFrom
      [] action = "rerun"    -> RerunFrom
      [] action = "retry"    -> RetryFrom
      [] action = "reject"   -> RejectFrom
      [] action = "escalate" -> EscalateFrom

IsAllowed(action, status) == status \in AllowedFrom(action)
=============================================================================
