------------------------------- MODULE Decision -------------------------------
(***************************************************************************)
(* The decision stage: file the item or hold it for a reviewer, from the    *)
(* weakest of all confidences and a set of graded flags.                    *)
(***************************************************************************)
EXTENDS Categorization, FiniteSetsExt

\* The flags decide() may raise.  Only those of high severity block.
MediumFlags == {"moderate_extraction_confidence"}
LowFlags == {"missing_optional_fields"}

Blocking(flags) == flags \ (MediumFlags \union LowFlags)

\* from_decision: flags of medium and high severity become exceptions.
Reportable(flags) == flags \ LowFlags

\* The confidences of the header fields that are scored and not missing, and of
\* the line items.
Scores(ex) ==
    {ex.confidence[f] : f \in DOMAIN ex.confidence \ ex.missing}
    \union {ex.items[k].confidence : k \in DOMAIN ex.items}

\* (mutant) the strongest link
BestScore(ex) == IF Scores(ex) = {} THEN 0 ELSE Max(Scores(ex))

\* _extraction_confidence: the weakest link, 0 when nothing is scored.
ExtractionConfidence(ex) == IF Scores(ex) = {} THEN 0 ELSE Min(Scores(ex))

\* The line items and the total, when there are both, differ by more than a cent.
TotalMismatch(ex) ==
    LET priced == {k \in DOMAIN ex.items : ex.items[k].total # NoValue}
        sum    == MapThenSumSet(LAMBDA k : ex.items[k].total, priced)
        total  == ex.metadata["total_amount"] IN
    /\ total # NoValue
    /\ ex.items # <<>>
    /\ sum > total + 1 \/ total > sum + 1

When(condition, flag) == IF condition THEN {flag} ELSE {}

StageFlags(ex, cat) ==
    When(cat.adversarial, "suspected_adversarial")
    \union When(cat.type = "unknown" \/ cat.typeConfidence < 70, "ambiguous_income_expense")
    \union When(cat.category = NoValue \/ cat.categoryConfidence < 70,
                "low_category_confidence")
    \union When("total_amount" \in ex.missing, "missing_total")
    \union When(ex.missing \ {"total_amount"} # {}, "missing_optional_fields")
    \union When(ExtractionConfidence(ex) < 50, "low_extraction_confidence")
    \union When(ExtractionConfidence(ex) \in 50..79, "moderate_extraction_confidence")
    \union When(TotalMismatch(ex), "total_mismatch")

\* decide
Decide(ex, cat) ==
    LET confidence == Min({ExtractionConfidence(ex), cat.typeConfidence,
                           cat.categoryConfidence})
        stage == StageFlags(ex, cat)
        flags == stage \union
                 When(Blocking(stage) = {} /\ confidence < 80, "low_confidence") IN
    [verdict    |-> IF Blocking(flags) = {} THEN "submit" ELSE "hold",
     confidence |-> confidence,
     flags      |-> flags]
=============================================================================
