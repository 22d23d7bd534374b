---------------------------- MODULE Categorization ----------------------------
(***************************************************************************)
(* The categorize stage: income or expense, and a Schedule C category, from *)
(* the words of the document.  Keywords decide the clear cases; a close     *)
(* race or no clear type goes to the language model, whose usable answer    *)
(* replaces both calls.                                                     *)
(*                                                                         *)
(* A text is the set of meaningful words in it.  A type or category is a    *)
(* pair of a value and a confidence in percent.                             *)
(***************************************************************************)
EXTENDS Extraction

CONSTANTS
    Category,        \* Schedule C category names
    Rank,            \* position of each category in the table: breaks ties
    Keyword,         \* words that mean something to this stage
    KeywordsOf,      \* the keywords of each category
    IncomeCategory,  \* the one category of income
    IncomeWords,     \* wording that says money came in
    InjectionWords,  \* phrases that try to steer the model
    VendorWords      \* the meaningful words in each vendor's name

ASSUME CategorizationAssumption ==
    /\ Rank \in [Category -> Nat]
    /\ \A c, d \in Category : Rank[c] = Rank[d] => c = d
    /\ KeywordsOf \in [Category -> SUBSET Keyword]
    /\ IncomeCategory \in Category
    /\ IncomeWords \subseteq Keyword
    /\ InjectionWords \subseteq Keyword
    /\ VendorWords \in [Vendor -> SUBSET Keyword]
    /\ NoValue \notin Category

DocumentType == {"income", "expense", "unknown"}

\* _doc_text: vendor, line descriptions, and what the caller passes of the source.
DocText(ex, source) ==
    (IF ex.metadata["vendor_name"] = NoValue THEN {}
     ELSE VendorWords[ex.metadata["vendor_name"]])
    \union (UNION {ex.items[k].words : k \in DOMAIN ex.items})
    \union source

\* _score_category
Score(text, c) ==
    LET hits == Cardinality(text \intersect KeywordsOf[c]) IN
    CASE hits = 0 -> 0
      [] hits = 1 -> 80
      [] hits = 2 -> 90
      [] OTHER    -> 95

\* _candidates, all of them above the floor of 50
Candidates(text) == {c \in Category : Score(text, c) >= 50}

Best(text) ==
    CHOOSE c \in Candidates(text) :
        \A d \in Candidates(text) \ {c} :
            \/ Score(text, c) > Score(text, d)
            \/ Score(text, c) = Score(text, d) /\ Rank[c] < Rank[d]

\* _is_ambiguous: a second candidate within 15 of the best.
IsAmbiguous(text) ==
    \E c \in Candidates(text) :
        c # Best(text) /\ Score(text, c) + 15 >= Score(text, Best(text))

\* The category by keywords; an unresolved race is capped at 70.
ByKeywords(text) ==
    IF Candidates(text) = {} THEN <<NoValue, 0>>
    ELSE <<Best(text), IF IsAmbiguous(text) THEN 70 ELSE Score(text, Best(text))>>

\* _classify_type
TypeByWording(text, ex) ==
    IF text \intersect IncomeWords # {} \/ ByKeywords(text)[1] = IncomeCategory
    THEN <<"income", 90>>
    ELSE IF ex.metadata["total_amount"] # NoValue
    THEN <<"expense", IF ex.metadata["vendor_name"] # NoValue THEN 90 ELSE 60>>
    ELSE IF ex.items # <<>> THEN <<"expense", 60>> ELSE <<"unknown", 0>>

\* _adjudicate: an answer whose type is no document type is not used at all, and
\* a category that was not offered is dropped.
Usable(answer) == answer.type \in DocumentType

Offered(text) == IF Candidates(text) = {} THEN Category ELSE Candidates(text)

Adjudicated(text, answer) ==
    <<IF answer.category \in Offered(text) THEN answer.category ELSE NoValue,
      answer.categoryConfidence>>

\* (mutant) the phrases are looked for in the vendor's name and line items only
OwnWords(ex, source) == DocText(ex, {}) \intersect InjectionWords # {}

\* _looks_adversarial
LooksAdversarial(ex, source) == DocText(ex, source) \intersect InjectionWords # {}

\* categorize
Categorize(ex, source, answer) ==
    LET text  == DocText(ex, source)
        type  == TypeByWording(text, ex)
        asked == (IsAmbiguous(text) \/ type[1] = "unknown") /\ Usable(answer)
        final == IF asked THEN <<answer.type, answer.typeConfidence>> ELSE type
        best  == IF asked THEN Adjudicated(text, answer) ELSE ByKeywords(text) IN
    [type               |-> final[1],
     typeConfidence     |-> final[2],
     category           |-> best[1],
     categoryConfidence |-> best[2],
     adversarial        |-> LooksAdversarial(ex, source)]
=============================================================================
