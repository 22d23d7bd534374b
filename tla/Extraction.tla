------------------------------ MODULE Extraction ------------------------------
(***************************************************************************)
(* The extraction stage: what the language model's reply about one document *)
(* becomes.  A header field arrives with a confidence or without, a field   *)
(* that is null or empty is missing, and an amount that is no number makes  *)
(* the typed record, and with it the whole stage, fail.                     *)
(*                                                                         *)
(* Confidences are whole percents.  A line item keeps the words of its      *)
(* description, if it has one, that mean something to the categorize stage. *)
(*                                                                         *)
(* Definitions marked (mutant), here and in the modules that follow, are    *)
(* slips that a check must be able to see; nothing uses them.               *)
(***************************************************************************)
EXTENDS Integers, Sequences, FiniteSets

CONSTANTS
    Vendor,        \* vendor names, as the duplicate guard normalizes them
    Day,           \* invoice dates that parse, as day numbers
    Amount,        \* amounts, in cents
    NoValue,       \* null, or the empty text of a header field
    Unreadable,    \* a text that is no number, where a number is asked for (the empty
                   \* text too, in a line item)
    NoConfidence   \* the reply gives no confidence for the value

ASSUME ExtractionAssumption ==
    /\ Day \subseteq Nat
    /\ Amount \subseteq Int
    /\ NoValue \notin Vendor \union Day \union Amount
    /\ Unreadable \notin Vendor \union Day \union Amount
    /\ Unreadable # NoValue
    /\ NoConfidence \notin Int

\* The header fields that later stages read.  The ten others are text that only
\* counts as present or missing, as the date does for the decision.
Field == {"vendor_name", "invoice_date", "total_amount"}

ValueOf(field) ==
    CASE field = "vendor_name" -> Vendor
      [] field = "invoice_date" -> Day
      [] field = "total_amount" -> Amount

Metadata == {m \in [Field -> Vendor \union Day \union Amount \union {NoValue}] :
                \A f \in Field : m[f] \in ValueOf(f) \union {NoValue}}

NoMetadata == [f \in Field |-> NoValue]

\* (mutant) the typed record takes any text for an amount
Raises(reply) == FALSE

\* InvoiceMetadata(**values) and LineItem(**fields) refuse an amount they cannot
\* parse: invalid output is a failure, never passed on.
Malformed(reply) ==
    \/ reply.cells["total_amount"].value = Unreadable
    \/ \E k \in DOMAIN reply.lines : reply.lines[k].total = Unreadable

\* _read_field: a value without a confidence of its own gets 95 when the source
\* text contains it and 90 when not.
FieldConfidence(cell) ==
    IF cell.value = NoValue THEN 0
    ELSE IF cell.confidence # NoConfidence THEN cell.confidence
    ELSE IF cell.corroborated THEN 95 ELSE 90

\* _read_line_item
ReadLineItem(line) ==
    [words |-> line.words,
     total |-> line.total,
     confidence |-> IF line.confidence # NoConfidence THEN line.confidence
                    ELSE IF line.described /\ line.total # NoValue THEN 90 ELSE 60]

\* extract
Extract(reply) ==
    [metadata   |-> [f \in Field |-> reply.cells[f].value],
     items      |-> [k \in DOMAIN reply.lines |-> ReadLineItem(reply.lines[k])],
     confidence |-> [f \in Field |-> FieldConfidence(reply.cells[f])],
     missing    |-> {f \in Field : reply.cells[f].value = NoValue}]
=============================================================================
