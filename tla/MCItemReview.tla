----------------------------- MODULE MCItemReview -----------------------------
(***************************************************************************)
(* A small instance of ItemReview for TLC: two vendors, three categories of  *)
(* which two can tie, and one reply for each way an extraction can go.       *)
(***************************************************************************)
EXTENDS HubViews, TLC

CONSTANTS v, w, office, software, income, ignore, payout

MCDay == {1, 4, 5}
MCAmount == {400, 600, 1000, 1001, 1002}
MCCategory == {office, software, income}
MCKeyword == {office, software, payout, ignore}
MCRank == [c \in MCCategory |-> CASE c = office -> 1 [] c = software -> 2 [] c = income -> 3]
MCKeywordsOf == [c \in MCCategory |-> IF c = income THEN {payout} ELSE {c}]
MCVendorWords == [x \in {v, w} |-> IF x = w THEN {software} ELSE {}]

Doc(head, body, mail) == [head |-> head, body |-> body, mail |-> mail]

\* Instruction-like wording in each of the three places, and nowhere.
MCSource == {Doc({payout}, {}, {}), Doc({}, {}, {office}), Doc({office}, {}, {ignore}),
             Doc({office}, {ignore}, {}), Doc({office, ignore}, {}, {})}

Cell(value, confidence) ==
    [value |-> value, confidence |-> confidence, corroborated |-> FALSE]

Header(vendor, day, amount) ==
    [f \in Field |-> CASE f = "vendor_name"  -> vendor
                       [] f = "invoice_date" -> day
                       [] f = "total_amount" -> amount]

Line(words, total) ==
    [words |-> words, described |-> words # {}, total |-> total, confidence |-> NoConfidence]

Clear == [cells |-> Header(Cell(v, NoConfidence), Cell(5, NoConfidence), Cell(1000, NoConfidence)),
          lines |-> <<>>]

\* The duplicate of the posted item, at the edge of the window or without a date.
Twin(day) == [Clear EXCEPT !.cells["invoice_date"] = Cell(day, NoConfidence)]

Unsure == [Clear EXCEPT !.cells["vendor_name"] = Cell(w, 60), !.lines = <<Line({}, 1002)>>]
NoAmount == [cells |-> [Clear.cells EXCEPT !["total_amount"] = Cell(NoValue, NoConfidence)],
             lines |-> <<Line({payout}, 1001)>>]
Broken == [Clear EXCEPT !.cells["total_amount"] = Cell(Unreadable, NoConfidence)]

\* Beyond doubt but for the wording of one line item; and a described line item without
\* any word of the table, which is complete all the same.
Steering == [Clear EXCEPT !.lines = <<Line({ignore}, 600),
                                      [Line({}, 400) EXCEPT !.described = TRUE]>>]

MCReply == {Clear, Twin(NoValue), Unsure, NoAmount, Broken, Steering}

Says(type, category, confidence) ==
    [type |-> type, category |-> category,
     typeConfidence |-> confidence, categoryConfidence |-> confidence]

MCAnswer == {Says("nonsense", office, 90), Says("income", income, 75)}

MCLedger == {[vendor_name |-> v, invoice_date |-> 1, total_amount |-> 1000]}

Set(field, value) == [f \in {field} |-> value]

MCUpdates == {Set("total_amount", Unreadable), Set("vendor_name", w), Set("vendor_name", v),
              Set("total_amount", 1001) @@ Set("vendor_name", NoValue)}

MCPin == {office, NoValue}
=============================================================================
