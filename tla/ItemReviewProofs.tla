--------------------------- MODULE ItemReviewProofs ---------------------------
(***************************************************************************)
(* What one item's passes and corrections can leave behind, proved for any *)
(* documents, replies, answers, ledger and corrections, and for any number *)
(* of requests: what may be filed, whose values a filed row holds, and what *)
(* the metrics and the hub read back from the audit trail.                 *)
(***************************************************************************)
EXTENDS HubViews, FiniteSetTheorems, SequenceTheorems, WellFoundedInduction, TLAPS

-----------------------------------------------------------------------------
(* The largest and the smallest of some positions *)

LEMMA NatHasLeast ==
  ASSUME NEW S, S \subseteq Nat, S # {}
  PROVE  \E x \in S : \A y \in S : x <= y
<1>1. IsWellFoundedOn(OpToRel(<, Nat), Nat)
  BY NatLessThanWellFounded
<1>2. PICK x \in S : \A y \in S : ~(<<y, x>> \in OpToRel(<, Nat))
  BY <1>1, WFMin
<1>3. \A y \in S : ~(y < x)
  <2> TAKE y \in S
  <2>1. <<y, x>> \in Nat \X Nat
    OBVIOUS
  <2>2. ~(<<y, x>> \in OpToRel(<, Nat))
    BY <1>2
  <2> QED BY <2>1, <2>2 DEF OpToRel
<1> QED BY <1>3

LEMMA MinIsLeast ==
  ASSUME NEW S, S \subseteq Nat, S # {}
  PROVE  Min(S) \in S /\ \A y \in S : Min(S) <= y
BY NatHasLeast DEF Min

\* The same for integers that are bounded below.
LEMMA MinIsLowest ==
  ASSUME NEW S, NEW b \in Int, \A y \in S : y \in Int /\ b <= y, S # {}
  PROVE  Min(S) \in S /\ \A y \in S : Min(S) <= y
<1>1. PICK T : T = {y - b : y \in S}
  OBVIOUS
<1>2. T \subseteq Nat /\ T # {}
  BY <1>1
<1>3. PICK t \in T : \A u \in T : t <= u
  BY <1>2, NatHasLeast
<1>4. PICK x \in S : t = x - b
  BY <1>1, <1>3
<1>5. \A y \in S : x <= y
  <2> TAKE y \in S
  <2>1. x - b <= y - b /\ x \in Int /\ y \in Int
    BY <1>1, <1>3, <1>4
  <2> QED BY <2>1
<1> QED BY <1>5 DEF Min

LEMMA MaxIsGreatest ==
  ASSUME NEW S, NEW n \in Nat, \A y \in S : y \in Nat /\ y <= n, S # {}
  PROVE  Max(S) \in S /\ \A y \in S : y <= Max(S)
<1>1. \A y \in S : n - y \in Nat
  OBVIOUS
<1>2. PICK T : T = {n - y : y \in S}
  OBVIOUS
<1>3. T \subseteq Nat /\ T # {}
  BY <1>1, <1>2
<1>4. PICK t \in T : \A u \in T : t <= u
  BY <1>3, NatHasLeast
<1>5. PICK x \in S : t = n - x
  BY <1>2, <1>4
<1>6. \A y \in S : x >= y
  <2> TAKE y \in S
  <2>1. n - y \in T
    BY <1>2
  <2>2. n - x <= n - y
    BY <1>4, <1>5, <2>1
  <2>3. x \in Nat /\ y \in Nat
    OBVIOUS
  <2> QED BY <2>2, <2>3
<1>7. Max(S) \in S /\ \A y \in S : Max(S) >= y
  BY <1>6 DEF Max
<1> QED BY <1>7

\* A position after all others is the largest one.
LEMMA MaxOfLater ==
  ASSUME NEW S, NEW n \in Nat, S \subseteq 1..n
  PROVE  Max(S \union {n + 1}) = n + 1
<1>1. PICK T : T = S \union {n + 1}
  OBVIOUS
<1>2. \A y \in S : y \in Nat /\ y <= n
  OBVIOUS
<1>3. \A y \in T : y \in Nat /\ y <= n + 1
  BY <1>1, <1>2
<1>4. Max(T) \in T /\ \A y \in T : y <= Max(T)
  BY <1>1, <1>3, MaxIsGreatest
<1>5. Max(T) = n + 1
  <2>1. n + 1 \in T /\ Max(T) \in Nat /\ Max(T) <= n + 1
    BY <1>1, <1>3, <1>4
  <2>2. n + 1 <= Max(T)
    BY <1>4, <2>1
  <2> QED BY <2>1, <2>2
<1> QED BY <1>1, <1>5, Zenon

\* And the smallest one only when there is no other.
LEMMA MinOfLater ==
  ASSUME NEW S, NEW n \in Nat, S \subseteq 1..n
  PROVE  Min(S \union {n + 1}) = IF S = {} THEN n + 1 ELSE Min(S)
<1>1. PICK T : T = S \union {n + 1}
  OBVIOUS
<1>2. \A y \in S : y \in Nat /\ y <= n
  OBVIOUS
<1>3. \A y \in T : y \in Nat
  BY <1>1, <1>2
<1>4. Min(T) \in T /\ \A y \in T : Min(T) <= y
  BY <1>1, <1>3, MinIsLeast
<1>5. S # {} => Min(S) \in S /\ \A y \in S : Min(S) <= y
  BY <1>2, MinIsLeast
<1>6. ASSUME S = {} PROVE Min(T) = n + 1
  BY <1>1, <1>4, <1>6
<1>7. ASSUME S # {} PROVE Min(T) = Min(S)
  <2>1. Min(T) \in Nat /\ Min(S) \in Nat
    BY <1>2, <1>3, <1>4, <1>5, <1>7
  <2>2. Min(T) <= Min(S)
    BY <1>1, <1>4, <1>5, <1>7
  <2>3. Min(T) # n + 1
    BY <1>2, <1>5, <1>7, <2>1, <2>2
  <2>4. Min(S) <= Min(T)
    BY <1>1, <1>4, <1>5, <1>7, <2>3
  <2> QED BY <1>7, <2>1, <2>2, <2>4
<1> QED BY <1>1, <1>6, <1>7, Zenon

-----------------------------------------------------------------------------
(* What one more event changes for the readers of the trail *)

IsTrail(t) == \E S : t \in Seq(S)

LEMMA TrailDomain ==
  ASSUME NEW t, IsTrail(t)
  PROVE  Len(t) \in Nat /\ DOMAIN t = 1..Len(t)
BY DEF IsTrail

\* Trail u is trail t and one more event.
Extends(u, t, e) ==
    /\ IsTrail(t) /\ IsTrail(u)
    /\ DOMAIN t = 1..Len(t) /\ Len(t) \in Nat
    /\ DOMAIN u = DOMAIN t \union {Len(t) + 1}
    /\ \A n \in DOMAIN t : u[n] = t[n]
    /\ u[Len(t) + 1] = e

LEMMA OneMore ==
  ASSUME NEW t, IsTrail(t), NEW e, NEW u, u = Append(t, e)
  PROVE  Extends(u, t, e)
<1>1. PICK S : t \in Seq(S)
  BY DEF IsTrail
<1>2. PICK R : R = S \union {e}
  OBVIOUS
<1>3. t \in Seq(R)
  BY <1>1, <1>2, SeqMonotonic
<1>4. e \in R
  BY <1>2
<1>5. /\ u \in Seq(R) /\ Len(u) = Len(t) + 1 /\ Len(t) \in Nat
      /\ DOMAIN u = 1..(Len(t) + 1) /\ DOMAIN t = 1..Len(t)
  BY <1>3, <1>4
<1>6. \A n \in 1..Len(t) : u[n] = t[n]
  BY <1>3, <1>4
<1>7. u[Len(t) + 1] = e
  BY <1>3, <1>4
<1>8. DOMAIN u = DOMAIN t \union {Len(t) + 1}
  BY <1>5
<1> QED BY <1>5, <1>6, <1>7, <1>8 DEF Extends, IsTrail

\* Trail u begins with trail t.
Begins(u, t) ==
    /\ IsTrail(t) /\ IsTrail(u)
    /\ DOMAIN t \subseteq DOMAIN u
    /\ \A n \in DOMAIN t : u[n] = t[n]
    /\ \A n \in DOMAIN t, k \in DOMAIN u \ DOMAIN t : n < k

LEMMA BeginsOnce ==
  ASSUME NEW t, NEW e, NEW u, Extends(u, t, e)
  PROVE  Begins(u, t)
BY DEF Extends, Begins

LEMMA BeginsTwice ==
  ASSUME NEW t, NEW u, NEW v, Begins(u, t), Begins(v, u)
  PROVE  Begins(v, t)
<1>1. DOMAIN t \subseteq DOMAIN v /\ \A n \in DOMAIN t : v[n] = t[n]
  BY DEF Begins
<1>2. \A n \in DOMAIN t, k \in DOMAIN v \ DOMAIN t : n < k
  BY Zenon DEF Begins
<1> QED BY <1>1, <1>2 DEF Begins

\* What a trail has, a longer one has first.
LEMMA FirstOfLonger ==
  ASSUME NEW t, NEW u, Begins(u, t), NEW a, NEW b
  PROVE  /\ HasEvent(t, a) => HasEvent(u, a)
         /\ Positions(t, a) = Positions(u, a) \intersect DOMAIN t
         /\ LET P == Positions(t, a) \union Positions(t, b)
                Q == Positions(u, a) \union Positions(u, b) IN
            /\ P # {} => Min(Q) = Min(P) /\ Min(P) \in DOMAIN t
            /\ P = {} => \A n \in DOMAIN t, k \in Q : n < k
<1>1. Positions(t, a) = Positions(u, a) \intersect DOMAIN t
  BY DEF Begins, Positions
<1>2. Positions(t, b) = Positions(u, b) \intersect DOMAIN t
  BY DEF Begins, Positions
<1>3. PICK P, Q : P = Positions(t, a) \union Positions(t, b) /\ Q = Positions(u, a) \union Positions(u, b)
  OBVIOUS
<1>4. P = Q \intersect DOMAIN t /\ Q \subseteq DOMAIN u
  BY <1>1, <1>2, <1>3 DEF Positions
<1>5. DOMAIN t \subseteq Nat /\ DOMAIN u \subseteq Nat
  BY TrailDomain DEF Begins
<1>6. \A n \in DOMAIN t, k \in Q \ P : n < k
  BY <1>4 DEF Begins
<1>7. ASSUME P # {} PROVE Min(Q) = Min(P) /\ Min(P) \in DOMAIN t
  <2>1. Min(P) \in P /\ \A y \in P : Min(P) <= y
    BY <1>4, <1>5, <1>7, MinIsLeast
  <2>2. Min(Q) \in Q /\ \A y \in Q : Min(Q) <= y
    BY <1>4, <1>5, <1>7, MinIsLeast
  <2>3. Min(P) \in Nat /\ Min(Q) \in Nat /\ Min(P) \in Q /\ Min(P) \in DOMAIN t
    BY <1>4, <1>5, <2>1, <2>2
  <2>4. Min(Q) \in P
    BY <1>6, <2>2, <2>3
  <2> QED BY <2>1, <2>2, <2>3, <2>4
<1>8. P = {} => \A n \in DOMAIN t, k \in Q : n < k
  BY <1>6
<1> QED BY <1>1, <1>3, <1>7, <1>8 DEF HasEvent

LEMMA PositionsOfMore ==
  ASSUME NEW t, NEW e, NEW u, Extends(u, t, e), NEW a
  PROVE  /\ Positions(t, a) \subseteq 1..Len(t)
         /\ e.action = a => Positions(u, a) = Positions(t, a) \union {Len(t) + 1}
         /\ e.action # a => Positions(u, a) = Positions(t, a)
         /\ HasEvent(u, a) <=> HasEvent(t, a) \/ e.action = a
<1>1. /\ DOMAIN u = DOMAIN t \union {Len(t) + 1} /\ DOMAIN t = 1..Len(t)
      /\ \A n \in DOMAIN t : u[n] = t[n]
      /\ u[Len(t) + 1] = e
  BY DEF Extends
<1>2. Positions(t, a) \subseteq 1..Len(t)
  BY <1>1 DEF Positions
<1>3. e.action = a => Positions(u, a) = Positions(t, a) \union {Len(t) + 1}
  BY <1>1 DEF Positions
<1>4. e.action # a => Positions(u, a) = Positions(t, a)
  BY <1>1 DEF Positions
<1> QED BY <1>2, <1>3, <1>4 DEF HasEvent

LEMMA LatestOfMore ==
  ASSUME NEW t, NEW e, NEW u, Extends(u, t, e), NEW a
  PROVE  /\ e.action = a => Latest(u, a) = e
         /\ e.action # a /\ HasEvent(t, a) => Latest(u, a) = Latest(t, a)
         /\ HasEvent(t, a) =>
               \E n \in DOMAIN t : Latest(t, a) = t[n] /\ t[n].action = a
<1>1. /\ DOMAIN t = 1..Len(t) /\ Len(t) \in Nat
      /\ \A n \in DOMAIN t : u[n] = t[n]
      /\ u[Len(t) + 1] = e
      /\ Positions(t, a) \subseteq 1..Len(t)
  BY PositionsOfMore DEF Extends
<1>2. ASSUME e.action = a PROVE Latest(u, a) = e
  <2>1. Positions(u, a) = Positions(t, a) \union {Len(t) + 1}
    BY <1>2, PositionsOfMore
  <2>2. Max(Positions(u, a)) = Len(t) + 1
    BY <1>1, <2>1, MaxOfLater
  <2> QED BY <1>1, <2>2 DEF Latest
<1>3. HasEvent(t, a) => Max(Positions(t, a)) \in Positions(t, a)
  BY <1>1, MaxIsGreatest DEF HasEvent
<1>4. ASSUME e.action # a, HasEvent(t, a) PROVE Latest(u, a) = Latest(t, a)
  <2>1. Positions(u, a) = Positions(t, a)
    BY <1>4, PositionsOfMore
  <2> QED BY <1>1, <1>3, <1>4, <2>1 DEF Latest
<1>5. HasEvent(t, a) => \E n \in DOMAIN t : Latest(t, a) = t[n] /\ t[n].action = a
  BY <1>3 DEF Latest, Positions
<1> QED BY <1>2, <1>4, <1>5

LEMMA SignalsOfMore ==
  ASSUME NEW t, NEW e, NEW u, Extends(u, t, e)
  PROVE  /\ e.action # "extracted" => RecordedSignals(u) = RecordedSignals(t)
         /\ e.action = "extracted" =>
               RecordedSignals(u) = [confidence |-> e.confidence, missing |-> e.missing]
<1>1. HasEvent(u, "extracted") <=> HasEvent(t, "extracted") \/ e.action = "extracted"
  BY PositionsOfMore
<1>2. /\ e.action = "extracted" => Latest(u, "extracted") = e
      /\ e.action # "extracted" /\ HasEvent(t, "extracted") =>
            Latest(u, "extracted") = Latest(t, "extracted")
  BY LatestOfMore
<1> QED BY <1>1, <1>2 DEF RecordedSignals

\* The corrections of one field, as metadata_overlay takes them.
TypedIn(t, f) == {n \in Corrections(t, "metadata") : f \in DOMAIN t[n].after}

LEMMA OverlayOfTyped ==
  ASSUME NEW t
  PROVE  MetadataOverlay(t) = [f \in {g \in Field : TypedIn(t, g) # {}} |->
                                 t[Max(TypedIn(t, f))].after[f]]
BY DEF MetadataOverlay, TypedIn

LEMMA CorrectionsOfMore ==
  ASSUME NEW t, NEW e, NEW u, Extends(u, t, e), NEW target
  PROVE  /\ Corrections(t, target) \subseteq 1..Len(t)
         /\ ~(e.action = "corrected" /\ e.actor = "human" /\ e.target = target) =>
               Corrections(u, target) = Corrections(t, target)
         /\ e.action = "corrected" /\ e.actor = "human" /\ e.target = target =>
               Corrections(u, target) = Corrections(t, target) \union {Len(t) + 1}
<1>1. /\ DOMAIN u = DOMAIN t \union {Len(t) + 1} /\ DOMAIN t = 1..Len(t)
      /\ \A n \in DOMAIN t : u[n] = t[n]
      /\ u[Len(t) + 1] = e
  BY DEF Extends
<1> QED BY <1>1 DEF Corrections, Positions

\* Only a reviewer's corrections change an overlay.
LEMMA OverlaysOfMore ==
  ASSUME NEW t, NEW e, NEW u, Extends(u, t, e)
  PROVE  /\ ~(e.action = "corrected" /\ e.target = "metadata") =>
               /\ MetadataOverlay(u) = MetadataOverlay(t)
               /\ \A f : TypedIn(u, f) = TypedIn(t, f)
         /\ ~(e.action = "corrected" /\ e.target = "category") =>
               CategoryOverlay(u) = CategoryOverlay(t)
<1>1. /\ DOMAIN t = 1..Len(t) /\ Len(t) \in Nat
      /\ \A n \in DOMAIN t : u[n] = t[n]
  BY DEF Extends
<1>2. ASSUME ~(e.action = "corrected" /\ e.target = "metadata")
      PROVE  /\ MetadataOverlay(u) = MetadataOverlay(t)
             /\ \A f : TypedIn(u, f) = TypedIn(t, f)
  <2>1. /\ Corrections(u, "metadata") = Corrections(t, "metadata")
        /\ Corrections(t, "metadata") \subseteq 1..Len(t)
    <3>1. ~(e.action = "corrected" /\ e.actor = "human" /\ e.target = "metadata")
      BY <1>2
    <3>2. Corrections(u, "metadata") = Corrections(t, "metadata")
      BY <3>1, CorrectionsOfMore
    <3>3. Corrections(t, "metadata") \subseteq 1..Len(t)
      BY CorrectionsOfMore
    <3> QED BY <3>2, <3>3
  <2>2. \A f : TypedIn(u, f) = TypedIn(t, f)
    BY <1>1, <2>1 DEF TypedIn
  <2>3. \A f : TypedIn(t, f) # {} => Max(TypedIn(t, f)) \in 1..Len(t)
    <3> SUFFICES ASSUME NEW f, TypedIn(t, f) # {} PROVE Max(TypedIn(t, f)) \in 1..Len(t)
      OBVIOUS
    <3>1. TypedIn(t, f) \subseteq 1..Len(t)
      BY <2>1 DEF TypedIn
    <3>2. Max(TypedIn(t, f)) \in TypedIn(t, f)
      BY <1>1, <3>1, MaxIsGreatest
    <3> QED BY <3>1, <3>2
  <2>4. \A f : TypedIn(t, f) # {} =>
           u[Max(TypedIn(u, f))].after[f] = t[Max(TypedIn(t, f))].after[f]
    BY <1>1, <2>2, <2>3
  <2>5. MetadataOverlay(u) = MetadataOverlay(t)
    <3>1. {g \in Field : TypedIn(u, g) # {}} = {g \in Field : TypedIn(t, g) # {}}
      BY <2>2
    <3>2. [f \in {g \in Field : TypedIn(u, g) # {}} |-> u[Max(TypedIn(u, f))].after[f]]
            = [f \in {g \in Field : TypedIn(t, g) # {}} |-> t[Max(TypedIn(t, f))].after[f]]
      BY <2>4, <3>1
    <3> QED BY <3>2, OverlayOfTyped
  <2> QED BY <2>2, <2>5
<1>3. ASSUME ~(e.action = "corrected" /\ e.target = "category")
      PROVE  CategoryOverlay(u) = CategoryOverlay(t)
  <2>1. /\ Corrections(u, "category") = Corrections(t, "category")
        /\ Corrections(t, "category") \subseteq 1..Len(t)
    <3>1. ~(e.action = "corrected" /\ e.actor = "human" /\ e.target = "category")
      BY <1>3
    <3>2. Corrections(u, "category") = Corrections(t, "category")
      BY <3>1, CorrectionsOfMore
    <3>3. Corrections(t, "category") \subseteq 1..Len(t)
      BY CorrectionsOfMore
    <3> QED BY <3>2, <3>3
  <2>2. PICK N : N = {n \in Corrections(t, "category") : t[n].after # NoValue}
    OBVIOUS
  <2>3. {n \in Corrections(u, "category") : u[n].after # NoValue} = N
    BY <1>1, <2>1, <2>2
  <2>4. N # {} => Max(N) \in 1..Len(t)
    <3>1. N \subseteq 1..Len(t) /\ \A y \in N : y \in Nat /\ y <= Len(t)
      BY <1>1, <2>1, <2>2
    <3>2. N # {} => Max(N) \in N
      BY <1>1, <3>1, MaxIsGreatest
    <3> QED BY <3>1, <3>2
  <2>5. N # {} => u[Max(N)].after = t[Max(N)].after
    BY <1>1, <2>4
  <2> QED BY <2>2, <2>3, <2>5 DEF CategoryOverlay
<1> QED BY <1>2, <1>3

-----------------------------------------------------------------------------
(* Extraction, categorization and decision *)

LEMMA ScoreType ==
  ASSUME NEW text, NEW c
  PROVE  Score(text, c) \in {0, 80, 90, 95}
BY DEF Score

\* The candidates can be ranked: one of them is the best.
LEMMA BestIsCandidate ==
  ASSUME NEW text, Candidates(text) # {}
  PROVE  Best(text) \in Category
<1>1. PICK C : C = Candidates(text)
  OBVIOUS
<1>2. C # {} /\ C \subseteq Category
  BY <1>1 DEF Candidates
<1>3. \A c \in C : Score(text, c) \in Nat /\ Score(text, c) <= 95
  BY ScoreType
<1>4. PICK s \in {Score(text, c) : c \in C} : \A c \in C : Score(text, c) <= s
  <2>1. PICK T : T = {Score(text, c) : c \in C}
    OBVIOUS
  <2>2. T # {} /\ \A y \in T : y \in Nat /\ y <= 95
    BY <1>2, <1>3, <2>1
  <2>3. Max(T) \in T /\ \A y \in T : y <= Max(T)
    BY <2>2, MaxIsGreatest
  <2> QED BY <2>1, <2>3
<1>5. PICK D : D = {c \in C : Score(text, c) = s}
  OBVIOUS
<1>6. D # {} /\ D \subseteq C
  BY <1>4, <1>5
<1>7. \A c \in Category : Rank[c] \in Nat
  BY CategorizationAssumption
<1>8. PICK b \in D : \A d \in D : Rank[b] <= Rank[d]
  <2>1. PICK T : T = {Rank[d] : d \in D}
    OBVIOUS
  <2>2. T \subseteq Nat /\ T # {}
    BY <1>2, <1>6, <1>7, <2>1
  <2>3. PICK r \in T : \A y \in T : r <= y
    BY <2>2, NatHasLeast
  <2> QED BY <2>1, <2>3
<1>9. \A d \in C \ {b} : \/ Score(text, b) > Score(text, d)
                         \/ Score(text, b) = Score(text, d) /\ Rank[b] < Rank[d]
  <2> TAKE d \in C \ {b}
  <2>1. Score(text, b) = s /\ Score(text, d) <= s /\ s \in Nat /\ Score(text, d) \in Nat
    BY <1>3, <1>4, <1>5, <1>6, <1>8
  <2>2. CASE Score(text, d) = s
    <3>1. d \in D /\ b \in Category /\ d \in Category
      BY <1>2, <1>5, <1>6, <1>8, <2>2
    <3>2. Rank[b] <= Rank[d] /\ Rank[b] # Rank[d]
      BY <1>8, <3>1, CategorizationAssumption
    <3> QED BY <1>7, <2>1, <2>2, <3>1, <3>2
  <2>3. CASE Score(text, d) # s
    BY <2>1, <2>3
  <2> QED BY <2>2, <2>3
<1>10. b \in C
  BY <1>6, <1>8
<1>11. Best(text) \in C
  BY <1>1, <1>9, <1>10 DEF Best
<1> QED BY <1>2, <1>11

\* A typed extraction, as extract() and _reconstruct_extraction return it.
Extracted(ex) ==
    /\ ex.metadata \in Metadata
    /\ ex.items \in Seq(LineItem)
    /\ DOMAIN ex.confidence \subseteq Field
    /\ \A f \in DOMAIN ex.confidence : ex.confidence[f] \in Int

LEMMA ScoresType ==
  ASSUME NEW ex, Extracted(ex)
  PROVE  Scores(ex) \subseteq Int
<1>1. \A k \in DOMAIN ex.items : ex.items[k].confidence \in Int
  <2>1. \A k \in DOMAIN ex.items : ex.items[k] \in LineItem
    BY DEF Extracted
  <2> QED BY <2>1 DEF LineItem
<1> QED BY <1>1 DEF Extracted, Scores

\* A sequence of integers has a lower bound: what the shortest part without one would
\* lack is only its last element.
LEMMA SequenceBounded ==
  ASSUME NEW n \in Nat, NEW f, \A k \in 1..n : f[k] \in Int
  PROVE  \E b \in Int : \A k \in 1..n : b <= f[k]
<1>1. PICK S : S = {m \in Nat : m <= n /\ ~(\E b \in Int : \A k \in 1..m : b <= f[k])}
  OBVIOUS
<1>2. S = {}
  <2> SUFFICES ASSUME S # {} PROVE FALSE
    OBVIOUS
  <2>1. PICK m \in S : \A y \in S : m <= y
    BY <1>1, NatHasLeast
  <2>2. m \in Nat /\ m <= n /\ ~(\E b \in Int : \A k \in 1..m : b <= f[k])
    BY <1>1, <2>1
  <2>3. m # 0
    BY <2>2
  <2>4. m - 1 \in Nat /\ m - 1 <= n /\ m - 1 \notin S
    BY <2>1, <2>2, <2>3
  <2>5. PICK b \in Int : \A k \in 1..(m - 1) : b <= f[k]
    BY <1>1, <2>4
  <2>6. PICK a \in Int : a <= b /\ a <= f[m]
    <3>1. f[m] \in Int
      BY <2>2, <2>3
    <3> QED BY <2>5, <3>1
  <2>7. \A k \in 1..m : a <= f[k]
    <3> TAKE k \in 1..m
    <3>1. CASE k = m
      BY <2>6, <3>1
    <3>2. CASE k # m
      <4>1. k \in 1..(m - 1) /\ f[k] \in Int
        BY <2>2, <3>2
      <4> QED BY <2>5, <2>6, <4>1
    <3> QED BY <3>1, <3>2
  <2> QED BY <2>2, <2>6, <2>7
<1>3. n \notin S
  BY <1>2
<1> QED BY <1>1, <1>3

\* The weakest link is a score and no score is below it, however low a confidence the
\* model gives.
LEMMA WeakestLink ==
  ASSUME NEW ex, Extracted(ex)
  PROVE  /\ ExtractionConfidence(ex) \in Int
         /\ \A s \in Scores(ex) : ExtractionConfidence(ex) <= s
<1>1. PICK D : D = DOMAIN ex.confidence
  OBVIOUS
<1>2. PICK c : c = ex.confidence
  OBVIOUS
<1>3. D \subseteq {"vendor_name", "invoice_date", "total_amount"} /\ \A f \in D : c[f] \in Int
  BY <1>1, <1>2 DEF Extracted, Field
<1>4. PICK b \in Int : \A f \in D : b <= c[f]
  <2>1. \E x \in Int : "vendor_name" \in D => x <= c["vendor_name"]
    BY <1>3
  <2>2. \E y \in Int : "invoice_date" \in D => y <= c["invoice_date"]
    BY <1>3
  <2>3. \E z \in Int : "total_amount" \in D => z <= c["total_amount"]
    BY <1>3
  <2>4. PICK x, y, z \in Int :
           /\ "vendor_name" \in D => x <= c["vendor_name"]
           /\ "invoice_date" \in D => y <= c["invoice_date"]
           /\ "total_amount" \in D => z <= c["total_amount"]
    BY <2>1, <2>2, <2>3
  <2>5. PICK b \in Int : b <= x /\ b <= y /\ b <= z
    OBVIOUS
  <2>6. \A f \in D : b <= c[f]
    BY <1>3, <2>4, <2>5
  <2> QED BY <2>6
<1>5. PICK g : g = [k \in DOMAIN ex.items |-> ex.items[k].confidence]
  OBVIOUS
<1>6. /\ DOMAIN ex.items = 1..Len(ex.items) /\ Len(ex.items) \in Nat
      /\ \A k \in DOMAIN ex.items : g[k] = ex.items[k].confidence /\ g[k] \in Int
  <2>1. ex.items \in Seq(LineItem)
    BY DEF Extracted
  <2>2. /\ DOMAIN ex.items = 1..Len(ex.items) /\ Len(ex.items) \in Nat
        /\ \A k \in DOMAIN ex.items : ex.items[k] \in LineItem
    BY <2>1
  <2>3. \A l \in LineItem : l.confidence \in Int
    BY DEF LineItem
  <2> QED BY <1>5, <2>2, <2>3
<1>7. PICK a \in Int : \A k \in DOMAIN ex.items : a <= g[k]
  BY <1>6, SequenceBounded
<1>8. PICK m \in Int : m <= a /\ m <= b
  OBVIOUS
<1>9. \A s \in Scores(ex) : s \in Int /\ m <= s
  <2> TAKE s \in Scores(ex)
  <2>1. CASE \E f \in D : s = c[f]
    BY <1>3, <1>4, <1>8, <2>1
  <2>2. CASE \E k \in DOMAIN ex.items : s = g[k]
    BY <1>6, <1>7, <1>8, <2>2
  <2> QED BY <1>1, <1>2, <1>6, <2>1, <2>2 DEF Scores
<1>10. CASE Scores(ex) = {}
  BY <1>10 DEF ExtractionConfidence
<1>11. CASE Scores(ex) # {}
  <2>1. Min(Scores(ex)) \in Scores(ex) /\ \A s \in Scores(ex) : Min(Scores(ex)) <= s
    BY <1>9, <1>11, MinIsLowest
  <2> QED BY <1>9, <1>11, <2>1 DEF ExtractionConfidence
<1> QED BY <1>10, <1>11

LEMMA ByKeywordsType ==
  ASSUME NEW text
  PROVE  /\ ByKeywords(text)[1] \in Category \union {NoValue}
         /\ ByKeywords(text)[2] \in Int
BY BestIsCandidate, ScoreType DEF ByKeywords

LEMMA CategorizeType ==
  ASSUME NEW ex, NEW text, NEW answer \in Answer, NEW cat, cat = Categorize(ex, text, answer)
  PROVE  /\ cat.typeConfidence \in Int /\ cat.categoryConfidence \in Int
         /\ cat.category \in Category \union {NoValue}
         /\ cat.adversarial <=> LooksAdversarial(ex, text)
<1>1. PICK words : words = DocText(ex, text)
  OBVIOUS
<1>2. TypeByWording(words, ex)[2] \in Int
  BY DEF TypeByWording
<1>3. /\ ByKeywords(words)[1] \in Category \union {NoValue}
      /\ ByKeywords(words)[2] \in Int
  BY ByKeywordsType
<1>4. answer.typeConfidence \in Int /\ answer.categoryConfidence \in Int
  BY ReviewAssumption
<1>5. /\ Adjudicated(words, answer)[1] \in Category \union {NoValue}
      /\ Adjudicated(words, answer)[2] \in Int
  BY <1>4 DEF Adjudicated, Offered, Candidates
<1>6. PICK asked : asked = ((IsAmbiguous(words) \/ TypeByWording(words, ex)[1] = "unknown") /\ Usable(answer))
  OBVIOUS
<1>7. /\ cat.typeConfidence = (IF asked THEN <<answer.type, answer.typeConfidence>> ELSE TypeByWording(words, ex))[2]
      /\ cat.category = (IF asked THEN Adjudicated(words, answer) ELSE ByKeywords(words))[1]
      /\ cat.categoryConfidence = (IF asked THEN Adjudicated(words, answer) ELSE ByKeywords(words))[2]
      /\ cat.adversarial = LooksAdversarial(ex, text)
  BY <1>1, <1>6 DEF Categorize
<1>8. CASE asked
  BY <1>4, <1>5, <1>7, <1>8
<1>9. CASE ~asked
  BY <1>2, <1>3, <1>7, <1>9
<1> QED BY <1>8, <1>9

\* What a decision says about what it was made from.  A hold has a reason that
\* becomes an exception, and one far below the bar has a reason that the hub shows as
\* low confidence.
LEMMA DecideEffect ==
  ASSUME NEW ex, Extracted(ex), NEW cat,
         cat.typeConfidence \in Int, cat.categoryConfidence \in Int,
         NEW d, d = Decide(ex, cat)
  PROVE  /\ d.verdict \in {"submit", "hold"} /\ d.confidence \in Int
         /\ Reportable(d.flags) \subseteq ExceptionType
         /\ d.verdict = "submit" =>
               /\ d.confidence >= 80 /\ ~cat.adversarial /\ "total_amount" \notin ex.missing
               /\ \A s \in Scores(ex) : s >= 80
         /\ d.verdict = "hold" =>
               /\ Reportable(d.flags) # {}
               /\ d.confidence < 70 => Reportable(d.flags) \intersect LowConfidenceFlags # {}
<1>1. PICK e : e = ExtractionConfidence(ex)
  OBVIOUS
<1>2. e \in Int /\ \A s \in Scores(ex) : e <= s
  BY <1>1, WeakestLink
<1>3. PICK c : c = d.confidence
  OBVIOUS
<1>4. PICK S : S = {e, cat.typeConfidence, cat.categoryConfidence}
  OBVIOUS
<1>5. c = Min(S)
  BY <1>1, <1>3, <1>4 DEF Decide
<1>6. c \in S /\ \A y \in S : c <= y
  <2>1. PICK m \in Int : m <= e /\ m <= cat.typeConfidence /\ m <= cat.categoryConfidence
    BY <1>2
  <2>2. \A y \in S : y \in Int /\ m <= y
    BY <1>2, <1>4, <2>1
  <2> QED BY <1>4, <1>5, <2>2, MinIsLowest
<1>7. PICK stage : stage = StageFlags(ex, cat)
  OBVIOUS
<1>8. PICK flags : flags = stage \union When(Blocking(stage) = {} /\ c < 80, "low_confidence")
  OBVIOUS
<1>9. d.verdict = (IF Blocking(flags) = {} THEN "submit" ELSE "hold") /\ d.flags = flags
  BY <1>1, <1>3, <1>4, <1>5, <1>7, <1>8 DEF Decide
<1>10. /\ cat.adversarial => "suspected_adversarial" \in stage
       /\ cat.typeConfidence < 70 => "ambiguous_income_expense" \in stage
       /\ cat.categoryConfidence < 70 => "low_category_confidence" \in stage
       /\ "total_amount" \in ex.missing => "missing_total" \in stage
       /\ e < 50 => "low_extraction_confidence" \in stage
       /\ e \in 50..79 => "moderate_extraction_confidence" \in stage
  BY <1>1, <1>7 DEF StageFlags, When
<1>11. stage \subseteq {"suspected_adversarial", "ambiguous_income_expense",
                        "low_category_confidence", "missing_total",
                        "missing_optional_fields", "low_extraction_confidence",
                        "moderate_extraction_confidence", "total_mismatch"}
  BY <1>7 DEF StageFlags, When
<1>12. /\ flags \subseteq stage \union {"low_confidence"} /\ stage \subseteq flags
       /\ Blocking(stage) = {} /\ c < 80 => "low_confidence" \in flags
  BY <1>8 DEF When
<1>13. Reportable(flags) \subseteq ExceptionType
  BY <1>11, <1>12 DEF Reportable, LowFlags, ExceptionType
<1>14. Blocking(flags) \subseteq Reportable(flags)
  BY DEF Blocking, Reportable
<1>15. ASSUME Blocking(flags) = {}
       PROVE  /\ c >= 80 /\ ~cat.adversarial /\ "total_amount" \notin ex.missing
              /\ \A s \in Scores(ex) : s >= 80
  <2>1. Blocking(stage) = {} /\ "low_confidence" \notin flags
    BY <1>12, <1>15 DEF Blocking, MediumFlags, LowFlags
  <2>2. c >= 80
    BY <1>2, <1>4, <1>6, <1>12, <2>1
  <2>3. e >= 80
    BY <1>2, <1>4, <1>6, <2>2
  <2>4. \A s \in Scores(ex) : s >= 80
    <3> TAKE s \in Scores(ex)
    <3>1. s \in Int
      BY ScoresType
    <3> QED BY <1>2, <2>3, <3>1
  <2>5. "suspected_adversarial" \notin stage /\ "missing_total" \notin stage
    BY <2>1 DEF Blocking, MediumFlags, LowFlags
  <2> QED BY <1>10, <2>2, <2>4, <2>5
<1>16. ASSUME c < 70
       PROVE  Reportable(flags) \intersect LowConfidenceFlags # {}
  <2>1. e < 70 \/ cat.typeConfidence < 70 \/ cat.categoryConfidence < 70
    BY <1>4, <1>6, <1>16
  <2>2. \/ "ambiguous_income_expense" \in stage \/ "low_category_confidence" \in stage
        \/ "low_extraction_confidence" \in stage
        \/ "moderate_extraction_confidence" \in stage
    BY <1>2, <1>10, <2>1
  <2> QED BY <1>12, <2>2 DEF Reportable, LowFlags, LowConfidenceFlags
<1>17. c \in Int
  BY <1>2, <1>4, <1>6
<1>18. CASE Blocking(flags) = {}
  BY <1>3, <1>9, <1>13, <1>15, <1>17, <1>18
<1>19. CASE Blocking(flags) # {}
  BY <1>3, <1>9, <1>13, <1>14, <1>16, <1>17, <1>19
<1> QED BY <1>18, <1>19

LEMMA ExtractEffect ==
  ASSUME NEW reply \in Reply, ~Malformed(reply), NEW ex, ex = Extract(reply)
  PROVE  /\ Extracted(ex)
         /\ DOMAIN ex.confidence = Field /\ ex.missing \subseteq Field
         /\ \A f \in Field \ ex.missing : ex.metadata[f] # NoValue
<1>1. /\ \A f \in Field : reply.cells[f] \in ReplyCell(f)
      /\ reply.lines \in Seq(ReplyLine)
  BY ReviewAssumption
<1>2. /\ \A f \in Field : reply.cells[f].value \in ValueOf(f) \union {NoValue, Unreadable}
      /\ \A f \in Field : f # "total_amount" => reply.cells[f].value \in ValueOf(f) \union {NoValue}
      /\ \A f \in Field : reply.cells[f].confidence \in Int \union {NoConfidence}
  BY <1>1 DEF ReplyCell
<1>3. reply.cells["total_amount"].value # Unreadable
  BY DEF Malformed
<1>4. \A f \in Field : reply.cells[f].value \in ValueOf(f) \union {NoValue}
  BY <1>2, <1>3
<1>5. \A f \in Field : ValueOf(f) \subseteq Vendor \union Day \union Amount
  BY DEF Field, ValueOf
<1>6. /\ ex.metadata = [f \in Field |-> reply.cells[f].value]
      /\ ex.items = [k \in DOMAIN reply.lines |-> ReadLineItem(reply.lines[k])]
      /\ ex.confidence = [f \in Field |-> FieldConfidence(reply.cells[f])]
      /\ ex.missing = {f \in Field : reply.cells[f].value = NoValue}
  BY DEF Extract
<1>7. ex.metadata \in Metadata
  <2>1. ex.metadata \in [Field -> Vendor \union Day \union Amount \union {NoValue}]
    BY <1>4, <1>5, <1>6
  <2>2. \A f \in Field : ex.metadata[f] \in ValueOf(f) \union {NoValue}
    BY <1>4, <1>6
  <2> QED BY <2>1, <2>2 DEF Metadata
<1>8. ex.items \in Seq(LineItem)
  <2>1. /\ DOMAIN reply.lines = 1..Len(reply.lines) /\ Len(reply.lines) \in Nat
        /\ \A k \in DOMAIN reply.lines : reply.lines[k] \in ReplyLine
    BY <1>1
  <2>2. \A k \in DOMAIN reply.lines : ReadLineItem(reply.lines[k]) \in LineItem
    <3> TAKE k \in DOMAIN reply.lines
    <3>1. PICK l : l = reply.lines[k]
      OBVIOUS
    <3>2. /\ l.words \in SUBSET Keyword /\ l.total \in Amount \union {NoValue}
          /\ l.confidence \in Int \union {NoConfidence}
      BY <2>1, <3>1 DEF ReplyLine, Malformed
    <3>3. ReadLineItem(l) \in LineItem
      BY <3>2 DEF ReadLineItem, LineItem
    <3> QED BY <3>1, <3>3
  <2> QED BY <1>6, <2>1, <2>2
<1>9. \A f \in Field : FieldConfidence(reply.cells[f]) \in Int
  BY <1>2 DEF FieldConfidence
<1> QED BY <1>4, <1>6, <1>7, <1>8, <1>9 DEF Extracted

-----------------------------------------------------------------------------
(* The reviewer's word, and the events that leave it alone *)

\* What a reader may rely on in an event of a trail.
Readable(e) ==
    /\ e.action = "extracted" =>
          /\ DOMAIN e.confidence \subseteq Field
          /\ \A f \in DOMAIN e.confidence : e.confidence[f] \in Int
    /\ e.action = "failed" => Retryable(e.kind)
    /\ e.action = "corrected" =>
          /\ e.actor = "human"
          /\ e.target = "metadata" => e.after \in Updates
          /\ e.target = "category" => e.after \in Pin

Legible(t) == IsTrail(t) /\ \A n \in DOMAIN t : Readable(t[n])

\* The values that the reviewer ever typed for a field.
Words(t, f) == {t[n].after[f] : n \in TypedIn(t, f)}

\* Trail u tells the same as trail t about the extraction and the corrections.
Kept(u, t) ==
    /\ RecordedSignals(u) = RecordedSignals(t)
    /\ MetadataOverlay(u) = MetadataOverlay(t)
    /\ CategoryOverlay(u) = CategoryOverlay(t)
    /\ \A f : Words(u, f) = Words(t, f)

LEMMA QuietEvent ==
  ASSUME NEW t, NEW e, NEW u, Extends(u, t, e), e.action \notin {"extracted", "corrected"}
  PROVE  Kept(u, t)
<1>1. /\ RecordedSignals(u) = RecordedSignals(t)
      /\ MetadataOverlay(u) = MetadataOverlay(t)
      /\ CategoryOverlay(u) = CategoryOverlay(t)
      /\ \A f : TypedIn(u, f) = TypedIn(t, f)
  BY SignalsOfMore, OverlaysOfMore
<1>2. /\ \A n \in DOMAIN t : u[n] = t[n]
      /\ \A f : TypedIn(t, f) \subseteq DOMAIN t
  BY DEF Extends, TypedIn, Corrections, Positions
<1>3. \A f : Words(u, f) = Words(t, f)
  BY <1>1, <1>2 DEF Words
<1> QED BY <1>1, <1>3 DEF Kept

LEMMA KeptTwice ==
  ASSUME NEW t, NEW u, NEW v, Kept(u, t), Kept(v, u)
  PROVE  Kept(v, t)
BY DEF Kept

LEMMA KeptOverlay ==
  ASSUME NEW t, NEW u, Kept(u, t)
  PROVE  /\ Overridden(u) = Overridden(t)
         /\ OverlayValid(u) <=> OverlayValid(t)
BY DEF Kept, Overridden, OverlayValid

LEMMA LegibleMore ==
  ASSUME NEW t, NEW e, NEW u, Extends(u, t, e), Legible(t), Readable(e)
  PROVE  Legible(u)
BY DEF Extends, Legible

\* An overlay holds what the reviewer has sent.
LEMMA OverlayType ==
  ASSUME NEW t, Legible(t)
  PROVE  /\ DOMAIN MetadataOverlay(t) \subseteq Field
         /\ \A f \in DOMAIN MetadataOverlay(t) :
               /\ MetadataOverlay(t)[f] \in Words(t, f)
               /\ MetadataOverlay(t)[f] \in ValueOf(f) \union {NoValue, Unreadable}
         /\ CategoryOverlay(t) \in Pin \union {NoValue}
<1>1. /\ DOMAIN t = 1..Len(t) /\ Len(t) \in Nat
  BY TrailDomain DEF Legible
<1>2. MetadataOverlay(t) = [f \in {g \in Field : TypedIn(t, g) # {}} |->
                              t[Max(TypedIn(t, f))].after[f]]
  BY OverlayOfTyped
<1>3. ASSUME NEW f \in Field, TypedIn(t, f) # {}
      PROVE  /\ t[Max(TypedIn(t, f))].after[f] \in Words(t, f)
             /\ t[Max(TypedIn(t, f))].after[f] \in ValueOf(f) \union {NoValue, Unreadable}
  <2>1. TypedIn(t, f) \subseteq 1..Len(t)
    BY <1>1 DEF TypedIn, Corrections, Positions
  <2>2. PICK n \in TypedIn(t, f) : n = Max(TypedIn(t, f))
    BY <1>1, <1>3, <2>1, MaxIsGreatest
  <2>3. /\ t[n].action = "corrected" /\ t[n].target = "metadata"
        /\ f \in DOMAIN t[n].after /\ Readable(t[n])
    BY <2>2 DEF TypedIn, Corrections, Positions, Legible
  <2>4. t[n].after[f] \in ValueOf(f) \union {NoValue, Unreadable}
    BY <2>3, ReviewAssumption DEF Readable
  <2> QED BY <2>2, <2>4 DEF Words
<1>4. CategoryOverlay(t) \in Pin \union {NoValue}
  <2>1. PICK N : N = {n \in Corrections(t, "category") : t[n].after # NoValue}
    OBVIOUS
  <2>2. \A y \in N : y \in Nat /\ y <= Len(t)
    BY <1>1, <2>1 DEF Corrections, Positions
  <2>3. ASSUME N # {} PROVE t[Max(N)].after \in Pin
    <3>1. PICK n \in N : n = Max(N)
      BY <1>1, <2>2, <2>3, MaxIsGreatest
    <3>2. t[n].action = "corrected" /\ t[n].target = "category" /\ Readable(t[n])
      BY <2>1, <3>1 DEF Corrections, Positions, Legible
    <3> QED BY <3>1, <3>2 DEF Readable
  <2> QED BY <2>1, <2>3 DEF CategoryOverlay
<1> QED BY <1>2, <1>3, <1>4

LEMMA EffectiveType ==
  ASSUME NEW t, Legible(t), OverlayValid(t), NEW stored \in Metadata
  PROVE  EffectiveMetadata(stored, t) \in Metadata
<1>1. \A f \in Field : stored[f] \in ValueOf(f) \union {NoValue}
  BY DEF Metadata
<1>2. \A f \in Field : EffectiveMetadata(stored, t)[f] \in ValueOf(f) \union {NoValue}
  BY <1>1, OverlayType DEF EffectiveMetadata, OverlayValid, Overridden
<1>3. \A f \in Field : ValueOf(f) \subseteq Vendor \union Day \union Amount
  BY DEF Field, ValueOf
<1>4. EffectiveMetadata(stored, t) \in [Field -> Vendor \union Day \union Amount \union {NoValue}]
  <2>1. EffectiveMetadata(stored, t) =
           [f \in Field |-> IF f \in Overridden(t) THEN MetadataOverlay(t)[f] ELSE stored[f]]
    BY DEF EffectiveMetadata
  <2>2. \A f \in Field : (IF f \in Overridden(t) THEN MetadataOverlay(t)[f] ELSE stored[f])
                            \in Vendor \union Day \union Amount \union {NoValue}
    BY <1>2, <1>3, <2>1
  <2> QED BY <2>1, <2>2
<1> QED BY <1>2, <1>4 DEF Metadata

LEMMA SignalsType ==
  ASSUME NEW t, Legible(t)
  PROVE  /\ DOMAIN RecordedSignals(t).confidence \subseteq Field
         /\ \A f \in DOMAIN RecordedSignals(t).confidence : RecordedSignals(t).confidence[f] \in Int
<1>1. CASE HasEvent(t, "extracted")
  <2>1. Positions(t, "extracted") \subseteq 1..Len(t) /\ Len(t) \in Nat
    BY TrailDomain DEF Legible, Positions
  <2>2. PICK n \in Positions(t, "extracted") : n = Max(Positions(t, "extracted"))
    BY <1>1, <2>1, MaxIsGreatest DEF HasEvent
  <2>3. t[n].action = "extracted" /\ Readable(t[n])
    BY <2>2 DEF Positions, Legible
  <2>4. RecordedSignals(t).confidence = t[n].confidence
    BY <1>1, <2>2 DEF RecordedSignals, Latest
  <2> QED BY <2>3, <2>4 DEF Readable
<1>2. CASE ~HasEvent(t, "extracted")
  BY <1>2 DEF RecordedSignals
<1> QED BY <1>1, <1>2

LEMMA WordsOfLonger ==
  ASSUME NEW t, NEW u, Begins(u, t), NEW f
  PROVE  Words(t, f) \subseteq Words(u, f)
BY DEF Begins, Words, TypedIn, Corrections, Positions

-----------------------------------------------------------------------------
(* What a pass makes of an extraction *)

\* The end of a pass over trail t.
Settled(ex, text, t, guarded) ==
    /\ status' \in {"posted", "held", "failed"}
    /\ decision' \in [verdict : {"none", "submit", "hold"}, confidence : Int]
    /\ status' = "posted" =>
          /\ excs' = {} /\ row'.meta = ex.metadata
          /\ ~LooksAdversarial(ex, text) /\ "total_amount" \notin ex.missing
          /\ \A s \in Scores(ex) : s >= 80
          /\ guarded => ~LooksPosted(ex.metadata)
    /\ status' = "held" =>
          /\ excs' # {} /\ excs' \subseteq ExceptionType
          /\ decision'.confidence < 70 => excs' \intersect LowConfidenceFlags # {}
    /\ status' = "failed" => excs' = {"sheet_write_failed"}

\* The events of a pass over trail t, the last of which tells how it ended.
Trailed(u, t, s, category) ==
    \E cat, t1, t2, last :
       /\ Extends(t1, t, ClassifiedEvent(cat))
       /\ Extends(t2, t1, CategorizedEvent(cat))
       /\ Extends(u, t2, last)
       /\ last = IF s = "failed" THEN FailedEvent("sheet_write_failed") ELSE Event("ai", s)
       /\ s \in {"posted", "held", "failed"}
       /\ cat.category \in Category \union {NoValue}
       /\ category = IF CategoryOverlay(t) = NoValue THEN cat.category ELSE CategoryOverlay(t)

LEMMA TwoMore ==
  ASSUME NEW t, IsTrail(t), NEW a, NEW b
  PROVE  \E t1 : Extends(t1, t, a) /\ Extends(t \o <<a, b>>, t1, b)
<1>1. PICK t1 : t1 = Append(t, a)
  OBVIOUS
<1>2. Extends(t1, t, a) /\ IsTrail(t1)
  <2>1. Extends(t1, t, a)
    BY <1>1, OneMore
  <2> QED BY <2>1 DEF Extends
<1>3. PICK S : t \in Seq(S)
  BY DEF IsTrail
<1>4. PICK R : R = S \union {a, b}
  OBVIOUS
<1>5. t \in Seq(R) /\ a \in R /\ b \in R
  BY <1>3, <1>4, SeqMonotonic
<1>6. t \o <<a, b>> = Append(t1, b)
  <2>1. t1 \in Seq(R) /\ Len(t1) = Len(t) + 1 /\ Append(t1, b) \in Seq(R) /\ <<a, b>> \in Seq(R)
    BY <1>1, <1>5
  <2>2. t \o <<a, b>> \in Seq(R) /\ Len(t \o <<a, b>>) = Len(t) + 2 /\ Len(Append(t1, b)) = Len(t) + 2
    BY <1>5, <2>1
  <2>3. \A i \in 1..(Len(t) + 2) : (t \o <<a, b>>)[i] = Append(t1, b)[i]
    BY <1>1, <1>5, <2>1, <2>2
  <2> QED BY <2>1, <2>2, <2>3, SeqEqual
<1>7. Extends(t \o <<a, b>>, t1, b)
  BY <1>2, <1>6, OneMore
<1> QED BY <1>2, <1>7

LEMMA PassEffect ==
  ASSUME NEW ex, Extracted(ex), NEW text, NEW answer \in Answer, NEW t, Legible(t),
         NEW guarded \in BOOLEAN, CategorizeAndFile(ex, text, answer, t, guarded)
  PROVE  /\ Settled(ex, text, t, guarded)
         /\ row' \in [meta : Metadata, category : Category \union Pin \union {NoValue}]
         /\ \E category : /\ Trailed(audit', t, status', category)
                          /\ status' = "posted" => row'.category = category
<1>1. PICK cat : cat = Categorize(ex, text, answer)
  OBVIOUS
<1>2. PICK final : final = Pinned(cat, t)
  OBVIOUS
<1>3. PICK d : d = Decide(ex, final)
  OBVIOUS
<1>4. PICK seen : seen = t \o <<ClassifiedEvent(cat), CategorizedEvent(cat)>>
  OBVIOUS
<1>5. File(d, ex.metadata, final.category, seen, guarded)
  BY <1>1, <1>2, <1>3, <1>4, Zenon DEF CategorizeAndFile
<1>6. /\ cat.typeConfidence \in Int /\ cat.categoryConfidence \in Int
      /\ cat.category \in Category \union {NoValue}
      /\ cat.adversarial <=> LooksAdversarial(ex, text)
  BY <1>1, CategorizeType
<1>7. PICK t1 : Extends(t1, t, ClassifiedEvent(cat)) /\ Extends(seen, t1, CategorizedEvent(cat))
  BY <1>4, TwoMore DEF Legible
<1>8. /\ final.typeConfidence \in Int /\ final.categoryConfidence \in Int
      /\ final.category = IF CategoryOverlay(t) = NoValue THEN cat.category ELSE CategoryOverlay(t)
      /\ final.adversarial <=> LooksAdversarial(ex, text)
  BY <1>1, <1>2, <1>6 DEF Pinned, Categorize
<1>9. final.category \in Category \union Pin \union {NoValue}
  BY <1>6, <1>8, OverlayType
<1>10. /\ d.verdict \in {"submit", "hold"} /\ d.confidence \in Int
       /\ Reportable(d.flags) \subseteq ExceptionType
       /\ d.verdict = "submit" =>
             /\ d.confidence >= 80 /\ ~LooksAdversarial(ex, text) /\ "total_amount" \notin ex.missing
             /\ \A s \in Scores(ex) : s >= 80
       /\ d.verdict = "hold" =>
             /\ Reportable(d.flags) # {}
             /\ d.confidence < 70 => Reportable(d.flags) \intersect LowConfidenceFlags # {}
  BY <1>3, <1>8, DecideEffect
<1>11. PICK verdict : verdict = [verdict |-> d.verdict, confidence |-> d.confidence]
  OBVIOUS
<1>12. verdict \in [verdict : {"none", "submit", "hold"}, confidence : Int]
  BY <1>10, <1>11
<1>13. ASSUME NEW s \in {"posted", "held", "failed"}, NEW last, audit' = Append(seen, last),
              last = IF s = "failed" THEN FailedEvent("sheet_write_failed") ELSE Event("ai", s)
       PROVE  Trailed(audit', t, s, final.category)
  <2>1. Extends(audit', seen, last)
    <3>1. IsTrail(seen)
      BY <1>7 DEF Extends
    <3> QED BY <1>13, <3>1, OneMore
  <2> QED BY <1>6, <1>7, <1>8, <1>13, <2>1 DEF Trailed
<1>14. /\ NoRow \in [meta : Metadata, category : Category \union Pin \union {NoValue}]
       /\ ex.metadata \in Metadata
  BY DEF NoRow, NoMetadata, Metadata, Extracted
<1>15. CASE d.verdict = "hold" /\ Hold(Reportable(d.flags), seen, verdict)
  <2>1. /\ status' = "held" /\ excs' = Reportable(d.flags) /\ decision' = verdict
        /\ audit' = Append(seen, Event("ai", "held")) /\ row' = NoRow
    BY <1>15 DEF Hold, EndPass
  <2>2. Settled(ex, text, t, guarded)
    BY <1>10, <1>11, <1>12, <1>15, <2>1 DEF Settled
  <2> QED BY <1>13, <1>14, <2>1, <2>2
<1>16. CASE /\ d.verdict = "submit"
            /\ Hold({"suspected_duplicate"}, seen, [verdict EXCEPT !.verdict = "hold"])
  <2>1. /\ status' = "held" /\ excs' = {"suspected_duplicate"} /\ row' = NoRow
        /\ decision' = [verdict EXCEPT !.verdict = "hold"]
        /\ audit' = Append(seen, Event("ai", "held"))
    BY <1>16 DEF Hold, EndPass
  <2>2. /\ decision' \in [verdict : {"none", "submit", "hold"}, confidence : Int]
        /\ decision'.confidence = d.confidence
    BY <1>11, <1>12, <2>1
  <2>3. ~(decision'.confidence < 70)
    BY <1>10, <1>16, <2>2
  <2>4. Settled(ex, text, t, guarded)
    BY <2>1, <2>2, <2>3 DEF Settled, ExceptionType
  <2> QED BY <1>13, <1>14, <2>1, <2>4
<1>17. CASE /\ d.verdict = "submit" /\ ~(guarded /\ LooksPosted(ex.metadata))
            /\ EndPass("posted", {}, Append(seen, Event("ai", "posted")), verdict,
                       [meta |-> ex.metadata, category |-> final.category])
  <2>1. /\ status' = "posted" /\ excs' = {} /\ decision' = verdict
        /\ row' = [meta |-> ex.metadata, category |-> final.category]
        /\ audit' = Append(seen, Event("ai", "posted"))
    BY <1>17 DEF EndPass
  <2>2. Settled(ex, text, t, guarded)
    BY <1>10, <1>12, <1>17, <2>1 DEF Settled
  <2>3. row' \in [meta : Metadata, category : Category \union Pin \union {NoValue}]
    BY <1>9, <1>14, <2>1
  <2> QED BY <1>13, <2>1, <2>2, <2>3
<1>18. CASE d.verdict = "submit" /\ Fail("sheet_write_failed", seen, verdict)
  <2>1. /\ status' = "failed" /\ excs' = {"sheet_write_failed"} /\ decision' = verdict
        /\ audit' = Append(seen, FailedEvent("sheet_write_failed")) /\ row' = NoRow
    BY <1>18 DEF Fail, EndPass
  <2>2. Settled(ex, text, t, guarded)
    BY <1>12, <2>1 DEF Settled
  <2> QED BY <1>13, <1>14, <2>1, <2>2
<1> QED BY <1>5, <1>11, <1>15, <1>16, <1>17, <1>18, Zenon DEF File

LEMMA TailEffect ==
  ASSUME NEW t, NEW u, NEW s, NEW category, Legible(t), Trailed(u, t, s, category)
  PROVE  /\ Legible(u) /\ Kept(u, t) /\ s \in {"posted", "held", "failed"}
         /\ \A a : a \notin {"classified", "categorized", s} => (HasEvent(u, a) <=> HasEvent(t, a))
         /\ HasEvent(u, s) /\ HasEvent(u, "categorized") /\ Begins(u, t)
         /\ s = "failed" => Latest(u, "failed").kind = "sheet_write_failed"
         /\ category = IF CategoryOverlay(u) # NoValue THEN CategoryOverlay(u)
                       ELSE Latest(u, "categorized").category
<1>1. PICK cat, t1, t2, last :
         /\ Extends(t1, t, ClassifiedEvent(cat))
         /\ Extends(t2, t1, CategorizedEvent(cat))
         /\ Extends(u, t2, last)
         /\ last = IF s = "failed" THEN FailedEvent("sheet_write_failed") ELSE Event("ai", s)
         /\ s \in {"posted", "held", "failed"}
         /\ cat.category \in Category \union {NoValue}
         /\ category = IF CategoryOverlay(t) = NoValue THEN cat.category ELSE CategoryOverlay(t)
  BY DEF Trailed
<1>2. PICK a1, a2 : a1 = ClassifiedEvent(cat) /\ a2 = CategorizedEvent(cat)
  OBVIOUS
<1>3. a1.action = "classified" /\ a2.action = "categorized" /\ a2.category = cat.category
  BY <1>2 DEF ClassifiedEvent, CategorizedEvent
<1>4. last.action = s /\ (s = "failed" => last.kind = "sheet_write_failed")
  BY <1>1 DEF FailedEvent, Event
<1>5. Extends(t1, t, a1) /\ Extends(t2, t1, a2) /\ Extends(u, t2, last)
  BY <1>1, <1>2
<1>6. Readable(a1) /\ Readable(a2) /\ Readable(last)
  BY <1>1, <1>3, <1>4 DEF Readable, Retryable
<1>7. Legible(t1) /\ Legible(t2) /\ Legible(u)
  <2>1. Legible(t1)
    BY <1>5, <1>6, LegibleMore
  <2>2. Legible(t2)
    BY <1>5, <1>6, <2>1, LegibleMore
  <2> QED BY <1>5, <1>6, <2>1, <2>2, LegibleMore
<1>8. Kept(t1, t) /\ Kept(t2, t1) /\ Kept(u, t2)
  BY <1>1, <1>3, <1>4, <1>5, QuietEvent
<1>9. Kept(u, t)
  BY <1>8, KeptTwice
<1>10. \A a : /\ HasEvent(t1, a) <=> HasEvent(t, a) \/ a = "classified"
              /\ HasEvent(t2, a) <=> HasEvent(t1, a) \/ a = "categorized"
              /\ HasEvent(u, a) <=> HasEvent(t2, a) \/ a = s
  BY <1>3, <1>4, <1>5, PositionsOfMore
<1>11. Latest(u, s) = last
  BY <1>4, <1>5, LatestOfMore
<1>12. Latest(u, "categorized").category = cat.category
  <2>1. Latest(t2, "categorized") = a2 /\ HasEvent(t2, "categorized")
    BY <1>3, <1>5, <1>10, LatestOfMore
  <2>2. last.action # "categorized"
    BY <1>1, <1>4
  <2>3. Latest(u, "categorized") = Latest(t2, "categorized")
    BY <1>5, <2>1, <2>2, LatestOfMore
  <2> QED BY <1>3, <2>1, <2>3
<1>13. CategoryOverlay(u) = CategoryOverlay(t)
  BY <1>9 DEF Kept
<1>14. category = IF CategoryOverlay(u) # NoValue THEN CategoryOverlay(u)
                  ELSE Latest(u, "categorized").category
  BY <1>1, <1>12, <1>13
<1>15. s = "failed" => Latest(u, "failed").kind = "sheet_write_failed"
  BY <1>4, <1>11
<1>16. Begins(u, t)
  <2>1. Begins(t1, t) /\ Begins(t2, t1) /\ Begins(u, t2)
    BY <1>5, BeginsOnce
  <2> QED BY <2>1, BeginsTwice
<1> QED BY <1>1, <1>7, <1>9, <1>10, <1>14, <1>15, <1>16

LEMMA NothingTyped ==
  ASSUME NEW t, ~HasEvent(t, "corrected")
  PROVE  /\ Overridden(t) = {} /\ OverlayValid(t) /\ CategoryOverlay(t) = NoValue
         /\ \A f : TypedIn(t, f) = {} /\ Words(t, f) = {}
<1>1. \A target : Corrections(t, target) = {}
  BY DEF Corrections, HasEvent
<1>2. \A f : TypedIn(t, f) = {}
  BY <1>1 DEF TypedIn
<1>3. \A f : Words(t, f) = {}
  BY <1>2 DEF Words
<1>4. DOMAIN MetadataOverlay(t) = {}
  BY <1>2, OverlayOfTyped
<1>5. CategoryOverlay(t) = NoValue
  BY <1>1 DEF CategoryOverlay
<1> QED BY <1>2, <1>3, <1>4, <1>5 DEF Overridden, OverlayValid

\* The trail that the first pass starts from.
LEMMA FirstTrail ==
  ASSUME NEW ex, Extracted(ex), NEW t, t = Append(Received, ExtractedEvent(ex))
  PROVE  /\ Extends(t, Received, ExtractedEvent(ex))
         /\ Legible(Received) /\ Legible(t)
         /\ \A a : HasEvent(Received, a) <=> a \in {"received", "parsed"}
         /\ \A a : HasEvent(t, a) <=> a \in {"received", "parsed", "extracted"}
         /\ RecordedSignals(t) = [confidence |-> ex.confidence, missing |-> ex.missing]
<1>1. /\ DOMAIN Received = 1..2
      /\ Received[1].action = "received" /\ Received[2].action = "parsed"
  BY DEF Received, Event
<1>2. IsTrail(Received)
  <2>1. Received \in Seq({Event("system", "received"), Event("system", "parsed")})
    BY DEF Received
  <2> QED BY <2>1 DEF IsTrail
<1>3. Legible(Received)
  BY <1>1, <1>2 DEF Legible, Readable
<1>4. \A a : HasEvent(Received, a) <=> a \in {"received", "parsed"}
  BY <1>1 DEF HasEvent, Positions
<1>5. PICK e : e = ExtractedEvent(ex)
  OBVIOUS
<1>6. e.action = "extracted" /\ e.confidence = ex.confidence /\ e.missing = ex.missing
  BY <1>5 DEF ExtractedEvent
<1>7. Extends(t, Received, e)
  BY <1>2, <1>5, OneMore
<1>8. Readable(e)
  BY <1>6 DEF Readable, Extracted
<1>9. Legible(t)
  BY <1>3, <1>7, <1>8, LegibleMore
<1>10. \A a : HasEvent(t, a) <=> a \in {"received", "parsed", "extracted"}
  BY <1>4, <1>6, <1>7, PositionsOfMore
<1>11. RecordedSignals(t) = [confidence |-> ex.confidence, missing |-> ex.missing]
  BY <1>6, <1>7, SignalsOfMore
<1> QED BY <1>3, <1>4, <1>5, <1>7, <1>9, <1>10, <1>11

-----------------------------------------------------------------------------
(* The steps of an item, by what they leave *)

Stored == {"received", "posted", "held", "failed", "corrected", "escalated", "rejected"}

IShape ==
    /\ TypeOK
    /\ status \in Stored
    /\ Legible(audit)
    /\ status = "received" => audit = <<>>

Passed(ex, text, t, guarded) ==
    /\ Extracted(ex) /\ Legible(t)
    /\ Settled(ex, text, t, guarded)
    /\ meta' = ex.metadata /\ items' = ex.items /\ source' = source
    /\ row' \in [meta : Metadata, category : Category \union Pin \union {NoValue}]
    /\ \E category : /\ Trailed(audit', t, status', category)
                     /\ status' = "posted" => row'.category = category

\* The first pass of a document that can be extracted.
First ==
    \E reply \in Reply : \E ex, text, t :
       /\ status = "received" /\ ~Malformed(reply)
       /\ ex = Extract(reply) /\ t = Append(Received, ExtractedEvent(ex))
       /\ text = source.head \union source.body
       /\ ai' = ex.metadata
       /\ Passed(ex, text, t, TRUE)

\* A pass over what is recorded of the item, with the corrections: a rerun that a
\* reviewer asked for, or a retry.
Replay(e, guarded) ==
    \E ex, text, t :
       /\ ex = Reconstruct /\ text = source.head
       /\ Extends(t, audit, e)
       /\ Passed(ex, text, t, guarded)

Again ==
    /\ status \in CorrectFrom
    /\ OverlayValid(audit)
    /\ UNCHANGED ai
    /\ \/ Replay(Event("human", "rerun"), FALSE)
       \/ HasEvent(audit, "extracted") /\ Replay(Event("system", "recovered"), TRUE)

\* A pass that extracts anew what no earlier one could.
Anew ==
    \E reply \in Reply : \E ex, text, t :
       /\ status = "failed" /\ ~Malformed(reply)
       /\ ~HasEvent(audit, "extracted")
       /\ ex = Extract(reply) /\ Extends(t, audit, Event("system", "recovered"))
       /\ text = source.head
       /\ ai' = ex.metadata
       /\ Passed(ex, text, t, TRUE)

\* A pass that fails before it has a decision.
GivenUp ==
    \E kind, t :
       /\ Extends(audit', t, FailedEvent(kind)) /\ Legible(t)
       /\ Retryable(kind)
       /\ status' = "failed" /\ excs' = {kind} /\ row' = NoRow
       /\ decision' \in {NoDecision, decision}
       /\ UNCHANGED <<source, meta, items, ai>>
       /\ \/ status = "received" /\ t = Received
          \/ status = "failed" /\ Extends(t, audit, Event("system", "recovered"))

\* An action of the reviewer, or a spot check: one event.
Noted ==
    \E e :
       /\ Extends(audit', audit, e) /\ Readable(e)
       /\ UNCHANGED <<source, meta, decision, items, excs, row, ai>>
       /\ status # "received"
       /\ \/ status' = status /\ e.action \in {"reviewed", "note"}
          \/ /\ status' = e.action /\ e.action \in {"corrected", "escalated", "rejected"}
             /\ status \in {"held", "failed", "corrected", "escalated"}
             /\ e.action = "corrected" /\ e.target = "metadata" => OverlayValid(audit)

LEMMA ReconstructEffect ==
  ASSUME IShape, OverlayValid(audit), NEW ex, ex = Reconstruct
  PROVE  /\ Extracted(ex)
         /\ ex.metadata = EffectiveMetadata(meta, audit) /\ ex.items = items
         /\ ex.missing = RecordedSignals(audit).missing \ Overridden(audit)
         /\ \A f \in DOMAIN RecordedSignals(audit).confidence \ Overridden(audit) :
               /\ f \in DOMAIN ex.confidence
               /\ ex.confidence[f] = RecordedSignals(audit).confidence[f]
<1>1. PICK c : c = RecordedSignals(audit).confidence
  OBVIOUS
<1>2. PICK typed : typed = Overridden(audit)
  OBVIOUS
<1>3. /\ ex.metadata = EffectiveMetadata(meta, audit) /\ ex.items = items
      /\ ex.confidence = [f \in DOMAIN c \union typed |-> IF f \in typed THEN 100 ELSE c[f]]
      /\ ex.missing = RecordedSignals(audit).missing \ typed
  BY <1>1, <1>2 DEF Reconstruct
<1>4. \A f \in DOMAIN c : c[f] \in Int
  BY <1>1, SignalsType DEF IShape
<1>5. /\ DOMAIN ex.confidence \subseteq Field
      /\ \A f \in DOMAIN ex.confidence : ex.confidence[f] \in Int
  <2>1. DOMAIN c \subseteq Field /\ typed \subseteq Field
    BY <1>1, <1>2, SignalsType, OverlayType DEF IShape, Overridden
  <2> QED BY <1>3, <1>4, <2>1
<1>6. EffectiveMetadata(meta, audit) \in Metadata /\ items \in Seq(LineItem)
  BY EffectiveType DEF IShape, TypeOK
<1>7. Extracted(ex)
  BY <1>3, <1>5, <1>6 DEF Extracted
<1> QED BY <1>1, <1>2, <1>3, <1>7

LEMMA InitShape == Init => IShape
<1> SUFFICES ASSUME Init PROVE IShape
  OBVIOUS
<1>1. NoMetadata \in Metadata
  BY DEF NoMetadata, Metadata
<1>2. audit = <<>> /\ DOMAIN audit = {} /\ IsTrail(audit)
  <2>1. audit \in Seq({})
    BY DEF Init
  <2> QED BY <2>1 DEF Init, IsTrail
<1>3. Legible(audit)
  BY <1>2 DEF Legible
<1>4. TypeOK
  BY <1>1 DEF Init, TypeOK, InvoiceStatus, InFlight, NoDecision, NoRow
<1> QED BY <1>2, <1>3, <1>4 DEF IShape, Stored, Init

LEMMA PassedBy ==
  ASSUME NEW ex, Extracted(ex), NEW text, NEW answer \in Answer, NEW t, Legible(t),
         NEW guarded \in BOOLEAN, CategorizeAndFile(ex, text, answer, t, guarded),
         meta' = ex.metadata, items' = ex.items, source' = source
  PROVE  Passed(ex, text, t, guarded)
<1>1. /\ Settled(ex, text, t, guarded)
      /\ row' \in [meta : Metadata, category : Category \union Pin \union {NoValue}]
      /\ \E category : /\ Trailed(audit', t, status', category)
                       /\ status' = "posted" => row'.category = category
  BY PassEffect
<1> QED BY <1>1 DEF Passed

LEMMA ProcessCases ==
  ASSUME IShape, NEW reply \in Reply, NEW answer \in Answer, Process(reply, answer)
  PROVE  First \/ GivenUp
<1>1. status = "received" /\ source' = source
  BY DEF Process
<1>2. CASE Malformed(reply) /\ Fail("extraction_failed", Received, NoDecision)
           /\ UNCHANGED <<meta, items, ai>>
  <2>1. PICK e : e = FailedEvent("extraction_failed")
    OBVIOUS
  <2>2. /\ status' = "failed" /\ excs' = {"extraction_failed"} /\ row' = NoRow
        /\ decision' = NoDecision /\ audit' = Append(Received, e)
    BY <1>2, <2>1 DEF Fail, EndPass
  <2>3. PICK t : t = Received
    OBVIOUS
  <2>4. Legible(t)
    <3>1. Extracted([metadata |-> NoMetadata, items |-> <<>>, confidence |-> <<>>])
      BY DEF Extracted, NoMetadata, Metadata
    <3> QED BY <2>3, <3>1, FirstTrail
  <2>5. Extends(audit', t, e)
    BY <2>2, <2>3, <2>4, OneMore DEF Legible
  <2>6. Retryable("extraction_failed")
    BY DEF Retryable
  <2> QED BY <1>1, <1>2, <2>1, <2>2, <2>3, <2>4, <2>5, <2>6 DEF GivenUp
<1>3. ASSUME NEW ex, ex = Extract(reply), ~Malformed(reply),
             meta' = ex.metadata, items' = ex.items, ai' = ex.metadata,
             CategorizeAndFile(ex, source.head \union source.body, answer,
                               Append(Received, ExtractedEvent(ex)), TRUE)
      PROVE  First
  <2>1. Extracted(ex)
    BY <1>3, ExtractEffect
  <2>2. PICK t : t = Append(Received, ExtractedEvent(ex))
    OBVIOUS
  <2>3. Legible(t)
    BY <2>1, <2>2, FirstTrail
  <2>4. PICK text : text = source.head \union source.body
    OBVIOUS
  <2>5. CategorizeAndFile(ex, text, answer, t, TRUE)
    BY <1>3, <2>2, <2>4
  <2>6. Passed(ex, text, t, TRUE)
    BY <1>1, <1>3, <2>1, <2>3, <2>5, PassedBy
  <2> QED BY <1>1, <1>3, <2>2, <2>4, <2>6 DEF First
<1> QED BY <1>2, <1>3, Zenon DEF Process

LEMMA RerunCases ==
  ASSUME IShape, NEW answer \in Answer, Rerun(answer)
  PROVE  Again
<1>1. PICK e : e = Event("human", "rerun")
  OBVIOUS
<1>2. PICK t : t = Append(audit, e)
  OBVIOUS
<1>3. PICK ex : ex = Reconstruct
  OBVIOUS
<1>4. /\ status \in {"held", "failed", "corrected", "escalated"}
      /\ OverlayValid(audit) /\ meta' = ex.metadata
      /\ UNCHANGED <<source, items, ai>>
      /\ CategorizeAndFile(ex, source.head, answer, t, FALSE)
  <2>1. IsAllowed("rerun", status) => status \in {"held", "corrected", "escalated"}
    BY DEF IsAllowed, AllowedFrom, RerunFrom
  <2> QED BY <1>1, <1>2, <1>3, <2>1 DEF Rerun
<1>5. Extracted(ex) /\ ex.items = items
  BY <1>3, <1>4, ReconstructEffect
<1>6. Extends(t, audit, e)
  BY <1>2, OneMore DEF IShape, Legible
<1>7. Readable(e)
  BY <1>1 DEF Readable, Event
<1>8. Legible(t)
  BY <1>6, <1>7, LegibleMore DEF IShape
<1>9. PICK text : text = source.head
  OBVIOUS
<1>10. Passed(ex, text, t, FALSE)
  <2>1. CategorizeAndFile(ex, text, answer, t, FALSE)
    BY <1>4, <1>9
  <2>2. meta' = ex.metadata /\ items' = ex.items /\ source' = source
    BY <1>4, <1>5
  <2> QED BY <1>5, <1>8, <2>1, <2>2, PassedBy
<1>11. Replay(Event("human", "rerun"), FALSE)
  BY <1>1, <1>3, <1>6, <1>9, <1>10 DEF Replay
<1> QED BY <1>4, <1>11 DEF Again, CorrectFrom

LEMMA RetryCases ==
  ASSUME IShape, NEW reply \in Reply, NEW answer \in Answer, Retry(reply, answer)
  PROVE  Again \/ Anew \/ GivenUp
<1>1. PICK e : e = Event("system", "recovered")
  OBVIOUS
<1>2. PICK t : t = Append(audit, e)
  OBVIOUS
<1>3. status = "failed" /\ source' = source
  <2>1. IsAllowed("retry", status) /\ status # "received" /\ source' = source
    BY DEF Retry
  <2> QED BY <2>1 DEF IShape, Stored, IsAllowed, AllowedFrom, RetryFrom, InFlight, LegacyStatus
<1>4. Extends(t, audit, e)
  BY <1>2, OneMore DEF IShape, Legible
<1>10. PICK text : text = source.head
  OBVIOUS
<1>5. Readable(e)
  BY <1>1 DEF Readable, Event
<1>6. Legible(t)
  BY <1>4, <1>5, LegibleMore DEF IShape
<1>7. CASE Fail("stage_failure", t, decision) /\ UNCHANGED <<meta, items, ai>>
  <2>1. PICK last : last = FailedEvent("stage_failure")
    OBVIOUS
  <2>2. /\ status' = "failed" /\ excs' = {"stage_failure"} /\ row' = NoRow
        /\ decision' = decision /\ audit' = Append(t, last)
    BY <1>7, <2>1 DEF Fail, EndPass
  <2>3. Extends(audit', t, last)
    BY <1>6, <2>2, OneMore DEF Legible
  <2>4. Retryable("stage_failure")
    BY DEF Retryable
  <2> QED BY <1>1, <1>3, <1>4, <1>6, <1>7, <2>1, <2>2, <2>3, <2>4 DEF GivenUp
<1>8. CASE /\ HasEvent(audit, "extracted") /\ OverlayValid(audit)
           /\ meta' = Reconstruct.metadata
           /\ UNCHANGED <<items, ai>>
           /\ CategorizeAndFile(Reconstruct, source.head, answer, t, TRUE)
  <2>1. PICK ex : ex = Reconstruct
    OBVIOUS
  <2>2. CategorizeAndFile(ex, source.head, answer, t, TRUE) /\ meta' = ex.metadata
    BY <1>8, <2>1
  <2>3. Extracted(ex) /\ ex.items = items
    BY <1>8, <2>1, ReconstructEffect
  <2>4. Passed(ex, text, t, TRUE)
    <3>1. CategorizeAndFile(ex, text, answer, t, TRUE)
      BY <1>10, <2>2
    <3>2. meta' = ex.metadata /\ items' = ex.items /\ source' = source
      BY <1>3, <1>8, <2>2, <2>3
    <3> QED BY <1>6, <2>3, <3>1, <3>2, PassedBy
  <2>5. Replay(Event("system", "recovered"), TRUE)
    BY <1>1, <1>4, <1>10, <2>1, <2>4 DEF Replay
  <2> QED BY <1>3, <1>8, <2>5 DEF Again, CorrectFrom
<1>9. ASSUME NEW ex, ex = Extract(reply), ~HasEvent(audit, "extracted"), ~Malformed(reply),
             meta' = ex.metadata, items' = ex.items, ai' = ex.metadata,
             CategorizeAndFile(ex, source.head, answer, t, TRUE)
      PROVE  Anew
  <2>1. Extracted(ex)
    BY <1>9, ExtractEffect
  <2>2. Passed(ex, text, t, TRUE)
    <3>1. CategorizeAndFile(ex, text, answer, t, TRUE)
      BY <1>9, <1>10
    <3>2. meta' = ex.metadata /\ items' = ex.items /\ source' = source
      BY <1>3, <1>9
    <3> QED BY <1>6, <2>1, <3>1, <3>2, PassedBy
  <2> QED BY <1>1, <1>3, <1>4, <1>9, <1>10, <2>2 DEF Anew
<1> QED BY <1>1, <1>2, <1>7, <1>8, <1>9, Zenon DEF Retry

LEMMA NotedCases ==
  ASSUME IShape, status # "received",
         \/ \E updates \in Updates : CorrectMetadata(updates)
         \/ \E category \in Pin : CorrectCategory(category)
         \/ Remark \/ Escalate \/ Reject \/ SpotCheck
  PROVE  Noted
<1>1. ASSUME NEW e, Record(e), Readable(e),
             \/ status' = status /\ e.action \in {"reviewed", "note"}
             \/ /\ status' = e.action /\ e.action \in {"corrected", "escalated", "rejected"}
                /\ status \in {"held", "failed", "corrected", "escalated"}
                /\ e.action = "corrected" /\ e.target = "metadata" => OverlayValid(audit)
      PROVE  Noted
  <2>1. audit' = Append(audit, e) /\ UNCHANGED <<source, meta, decision, items, excs, row, ai>>
    BY <1>1 DEF Record
  <2>2. Extends(audit', audit, e)
    BY <2>1, OneMore DEF IShape, Legible
  <2> QED BY <1>1, <2>1, <2>2 DEF Noted
<1>2. ASSUME NEW updates \in Updates, CorrectMetadata(updates) PROVE Noted
  <2>1. PICK before : before = [f \in DOMAIN updates |-> EffectiveMetadata(meta, audit)[f]]
    OBVIOUS
  <2>2. PICK e : e = MetadataCorrected(before, updates)
    OBVIOUS
  <2>3. Record(e) /\ status' = "corrected" /\ OverlayValid(audit) /\ IsAllowed("correct", status)
    BY <1>2, <2>1, <2>2 DEF CorrectMetadata
  <2>4. e.action = "corrected" /\ e.actor = "human" /\ e.target = "metadata" /\ e.after = updates
    BY <2>2 DEF MetadataCorrected
  <2>5. Readable(e)
    BY <2>4 DEF Readable
  <2>6. status \in {"held", "failed", "corrected", "escalated"}
    BY <2>3 DEF IsAllowed, AllowedFrom, CorrectFrom
  <2> QED BY <1>1, <2>3, <2>4, <2>5, <2>6
<1>3. ASSUME NEW category \in Pin, CorrectCategory(category) PROVE Noted
  <2>1. PICK prior : prior = IF CategoryOverlay(audit) # NoValue THEN CategoryOverlay(audit)
                 ELSE IF HasEvent(audit, "categorized")
                 THEN Latest(audit, "categorized").category ELSE NoValue
    OBVIOUS
  <2>2. PICK e : e = CategoryCorrected(prior, category)
    OBVIOUS
  <2>3. Record(e) /\ status' = "corrected" /\ IsAllowed("correct", status)
    BY <1>3, <2>1, <2>2 DEF CorrectCategory
  <2>4. e.action = "corrected" /\ e.actor = "human" /\ e.target = "category" /\ e.after = category
    BY <2>2 DEF CategoryCorrected
  <2>5. Readable(e)
    BY <2>4 DEF Readable
  <2>6. status \in {"held", "failed", "corrected", "escalated"}
    BY <2>3 DEF IsAllowed, AllowedFrom, CorrectFrom
  <2> QED BY <1>1, <2>3, <2>4, <2>5, <2>6
<1>4. ASSUME Remark PROVE Noted
  <2>1. PICK e : e = Event("human", "reviewed")
    OBVIOUS
  <2>2. Record(e) /\ status' = status /\ e.action = "reviewed"
    BY <1>4, <2>1 DEF Remark, Event
  <2>3. Readable(e)
    BY <2>2 DEF Readable
  <2> QED BY <1>1, <2>2, <2>3
<1>5. ASSUME SpotCheck PROVE Noted
  <2>1. PICK e : e = Event("system", "note")
    OBVIOUS
  <2>2. Record(e) /\ status' = status /\ e.action = "note"
    BY <1>5, <2>1 DEF SpotCheck, Event
  <2>3. Readable(e)
    BY <2>2 DEF Readable
  <2> QED BY <1>1, <2>2, <2>3
<1>6. ASSUME Escalate PROVE Noted
  <2>1. PICK e : e = Event("human", "escalated")
    OBVIOUS
  <2>2. Record(e) /\ status' = "escalated" /\ e.action = "escalated" /\ IsAllowed("escalate", status)
    BY <1>6, <2>1 DEF Escalate, Event
  <2>3. Readable(e)
    BY <2>2 DEF Readable
  <2>4. status \in {"held", "failed", "corrected", "escalated"}
    BY <2>2 DEF IsAllowed, AllowedFrom, EscalateFrom, InFlight, LegacyStatus, IShape, Stored
  <2> QED BY <1>1, <2>2, <2>3, <2>4
<1>7. ASSUME Reject PROVE Noted
  <2>1. PICK e : e = Event("human", "rejected")
    OBVIOUS
  <2>2. Record(e) /\ status' = "rejected" /\ e.action = "rejected" /\ IsAllowed("reject", status)
    BY <1>7, <2>1 DEF Reject, Event
  <2>3. Readable(e)
    BY <2>2 DEF Readable
  <2>4. status \in {"held", "failed", "corrected", "escalated"}
    BY <2>2 DEF IsAllowed, AllowedFrom, RejectFrom, InFlight, LegacyStatus, IShape, Stored
  <2> QED BY <1>1, <2>2, <2>3, <2>4
<1> QED BY <1>2, <1>3, <1>4, <1>5, <1>6, <1>7

\* Every step is one of these.
LEMMA NextCases ==
  ASSUME IShape, Next
  PROVE  First \/ Again \/ Anew \/ GivenUp \/ Noted
<1>1. ASSUME NEW reply \in Reply, NEW answer \in Answer, Process(reply, answer)
      PROVE  First \/ GivenUp
  BY <1>1, ProcessCases
<1>2. ASSUME NEW answer \in Answer, Rerun(answer) PROVE Again
  BY <1>2, RerunCases
<1>3. ASSUME NEW reply \in Reply, NEW answer \in Answer, Retry(reply, answer)
      PROVE  Again \/ Anew \/ GivenUp
  BY <1>3, RetryCases
<1>4. ASSUME status # "received",
             \/ \E updates \in Updates : CorrectMetadata(updates)
             \/ \E category \in Pin : CorrectCategory(category)
             \/ Remark \/ Escalate \/ Reject \/ SpotCheck
      PROVE  Noted
  BY <1>4, NotedCases
<1> QED BY <1>1, <1>2, <1>3, <1>4, Zenon DEF Next, Review

-----------------------------------------------------------------------------
(* Type correctness *)

LEMMA PassedStep ==
  ASSUME IShape, NEW ex, NEW text, NEW t, NEW guarded, Passed(ex, text, t, guarded),
         ai' \in Metadata
  PROVE  /\ status' \in {"posted", "held", "failed"}
         /\ IShape' /\ Kept(audit', t)
         /\ \A a : a \notin {"classified", "categorized", status'} =>
                      (HasEvent(audit', a) <=> HasEvent(t, a))
         /\ HasEvent(audit', status') /\ HasEvent(audit', "categorized") /\ Begins(audit', t)
         /\ status' = "failed" =>
               /\ excs' = {Latest(audit', "failed").kind}
               /\ Retryable(Latest(audit', "failed").kind)
         /\ status' = "posted" =>
               row'.category = IF CategoryOverlay(audit') # NoValue THEN CategoryOverlay(audit')
                               ELSE Latest(audit', "categorized").category
<1>1. /\ Extracted(ex) /\ Legible(t)
      /\ Settled(ex, text, t, guarded)
      /\ meta' = ex.metadata /\ items' = ex.items /\ source' = source
      /\ row' \in [meta : Metadata, category : Category \union Pin \union {NoValue}]
  BY DEF Passed
<1>2. PICK category : /\ Trailed(audit', t, status', category)
                      /\ status' = "posted" => row'.category = category
  BY DEF Passed
<1>3. /\ Legible(audit') /\ Kept(audit', t) /\ status' \in {"posted", "held", "failed"}
      /\ \A a : a \notin {"classified", "categorized", status'} =>
                   (HasEvent(audit', a) <=> HasEvent(t, a))
      /\ HasEvent(audit', status') /\ HasEvent(audit', "categorized") /\ Begins(audit', t)
      /\ status' = "failed" => Latest(audit', "failed").kind = "sheet_write_failed"
      /\ category = IF CategoryOverlay(audit') # NoValue THEN CategoryOverlay(audit')
                    ELSE Latest(audit', "categorized").category
  BY <1>1, <1>2, TailEffect
<1>4. /\ decision' \in [verdict : {"none", "submit", "hold"}, confidence : Int]
      /\ status' = "posted" => excs' = {}
      /\ status' = "held" => excs' \subseteq ExceptionType
      /\ status' = "failed" => excs' = {"sheet_write_failed"}
  BY <1>1 DEF Settled
<1>5. excs' \subseteq ExceptionType
  BY <1>3, <1>4 DEF ExceptionType
<1>6. TypeOK'
  <2>1. source' \in Source
    BY <1>1 DEF IShape, TypeOK
  <2>2. meta' \in Metadata /\ items' \in Seq(LineItem)
    BY <1>1 DEF Extracted
  <2> QED BY <1>1, <1>3, <1>4, <1>5, <2>1, <2>2 DEF TypeOK, InvoiceStatus
<1>7. status' \in Stored /\ status' # "received"
  BY <1>3 DEF Stored
<1>8. IShape'
  BY <1>3, <1>6, <1>7 DEF IShape
<1> QED BY <1>2, <1>3, <1>4, <1>8 DEF Retryable

LEMMA GivenUpStep ==
  ASSUME IShape, GivenUp
  PROVE  /\ status' = "failed" /\ IShape'
         /\ excs' = {Latest(audit', "failed").kind}
         /\ Retryable(Latest(audit', "failed").kind)
<1>1. PICK kind, t :
         /\ Extends(audit', t, FailedEvent(kind)) /\ Legible(t)
         /\ Retryable(kind)
         /\ status' = "failed" /\ excs' = {kind} /\ row' = NoRow
         /\ decision' \in {NoDecision, decision}
         /\ UNCHANGED <<source, meta, items, ai>>
  BY DEF GivenUp
<1>2. PICK e : e = FailedEvent(kind)
  OBVIOUS
<1>3. e.action = "failed" /\ e.kind = kind
  BY <1>2 DEF FailedEvent
<1>4. Readable(e)
  BY <1>1, <1>3 DEF Readable
<1>5. Legible(audit')
  BY <1>1, <1>2, <1>4, LegibleMore
<1>6. Latest(audit', "failed") = e
  BY <1>1, <1>2, <1>3, LatestOfMore
<1>7. TypeOK'
  <2>1. NoDecision \in [verdict : {"none", "submit", "hold"}, confidence : Int]
    BY DEF NoDecision
  <2>2. NoRow \in [meta : Metadata, category : Category \union Pin \union {NoValue}]
    BY DEF NoRow, NoMetadata, Metadata
  <2>3. kind \in ExceptionType
    BY <1>1 DEF Retryable, ExceptionType
  <2> QED BY <1>1, <2>1, <2>2, <2>3 DEF IShape, TypeOK, InvoiceStatus
<1>8. IShape'
  BY <1>1, <1>5, <1>7 DEF IShape, Stored
<1> QED BY <1>1, <1>3, <1>6, <1>8

LEMMA NotedStep ==
  ASSUME IShape, Noted
  PROVE  IShape' /\ status' # "received"
<1>1. PICK e :
         /\ Extends(audit', audit, e) /\ Readable(e)
         /\ UNCHANGED <<source, meta, decision, items, excs, row, ai>>
         /\ status # "received"
         /\ \/ status' = status
            \/ status' \in {"corrected", "escalated", "rejected"}
  BY DEF Noted
<1>2. Legible(audit')
  BY <1>1, LegibleMore DEF IShape
<1>3. status' \in Stored /\ status' # "received"
  BY <1>1 DEF IShape, Stored
<1>4. TypeOK'
  BY <1>1, <1>3 DEF IShape, TypeOK, Stored, InvoiceStatus, InFlight
<1> QED BY <1>2, <1>3, <1>4 DEF IShape

\* The passes, all three of them.
LEMMA PassSteps ==
  ASSUME IShape, First \/ Again \/ Anew
  PROVE  \E ex, text, t, guarded : Passed(ex, text, t, guarded) /\ ai' \in Metadata
<1>1. CASE First
  <2>1. PICK reply, ex, text, t :
           /\ reply \in Reply
           /\ ~Malformed(reply) /\ ex = Extract(reply)
           /\ ai' = ex.metadata /\ Passed(ex, text, t, TRUE)
    BY <1>1 DEF First
  <2>2. Extracted(ex)
    BY <2>1, ExtractEffect
  <2> QED BY <2>1, <2>2 DEF Extracted
<1>2. CASE Anew
  <2>1. PICK reply, ex, text, t :
           /\ reply \in Reply
           /\ ~Malformed(reply) /\ ex = Extract(reply)
           /\ ai' = ex.metadata /\ Passed(ex, text, t, TRUE)
    BY <1>2 DEF Anew
  <2>2. Extracted(ex)
    BY <2>1, ExtractEffect
  <2> QED BY <2>1, <2>2 DEF Extracted
<1>3. CASE Again
  <2>1. ai' \in Metadata
    BY <1>3 DEF Again, IShape, TypeOK
  <2> QED BY <1>3, <2>1 DEF Again, Replay
<1> QED BY <1>1, <1>2, <1>3

LEMMA ShapeStep == IShape /\ [Next]_vars => IShape'
<1> SUFFICES ASSUME IShape, [Next]_vars PROVE IShape'
  OBVIOUS
<1>1. CASE Next
  <2>1. CASE First \/ Again \/ Anew
    <3>1. PICK ex, text, t, guarded : Passed(ex, text, t, guarded) /\ ai' \in Metadata
      BY <2>1, PassSteps
    <3> QED BY <3>1, PassedStep
  <2>2. CASE GivenUp
    BY <2>2, GivenUpStep
  <2>3. CASE Noted
    BY <2>3, NotedStep
  <2> QED BY <1>1, <2>1, <2>2, <2>3, NextCases
<1>2. CASE UNCHANGED vars
  BY <1>2 DEF vars, IShape, TypeOK
<1> QED BY <1>1, <1>2

\* Every stored value has its type, whatever the model replies, the reviewer sends and
\* the Sheet refuses: the metadata and the filed row are typed records with no text
\* that is no amount, and the exceptions are of the known kinds.
THEOREM ReviewTypeCorrect == Spec => []TypeOK
<1>1. Spec => []IShape
  BY InitShape, ShapeStep, PTL DEF Spec
<1>2. IShape => TypeOK
  BY DEF IShape
<1> QED BY <1>1, <1>2, PTL

-----------------------------------------------------------------------------
(* What each kind of step leaves of the trail *)

LEMMA FirstFacts ==
  ASSUME IShape, First
  PROVE  \E reply \in Reply : \E ex, text, t :
            /\ status = "received" /\ ex = Extract(reply) /\ ~Malformed(reply)
            /\ text = source.head \union source.body
            /\ ai' = ex.metadata /\ ai' \in Metadata
            /\ Passed(ex, text, t, TRUE)
            /\ RecordedSignals(t) = [confidence |-> ex.confidence, missing |-> ex.missing]
            /\ \A a : HasEvent(t, a) <=> a \in {"received", "parsed", "extracted"}
<1>1. PICK reply, ex, text, t :
         /\ reply \in Reply
         /\ status = "received" /\ ~Malformed(reply)
         /\ ex = Extract(reply) /\ t = Append(Received, ExtractedEvent(ex))
         /\ text = source.head \union source.body
         /\ ai' = ex.metadata
         /\ Passed(ex, text, t, TRUE)
  BY DEF First
<1>2. Extracted(ex)
  BY <1>1, ExtractEffect
<1>3. /\ RecordedSignals(t) = [confidence |-> ex.confidence, missing |-> ex.missing]
      /\ \A a : HasEvent(t, a) <=> a \in {"received", "parsed", "extracted"}
  BY <1>1, <1>2, FirstTrail
<1> QED BY <1>1, <1>2, <1>3 DEF Extracted

\* A later pass keeps what was extracted and corrected.
LEMMA LaterPass ==
  ASSUME IShape, NEW ex, NEW text, NEW t, NEW guarded, NEW e,
         Passed(ex, text, t, guarded), ai' \in Metadata,
         Extends(t, audit, e), e.action \in {"rerun", "recovered"}
  PROVE  /\ Kept(audit', audit) /\ Begins(audit', audit)
         /\ \A a : a \notin {"classified", "categorized", "rerun", "recovered", status'} =>
                      (HasEvent(audit', a) <=> HasEvent(audit, a))
         /\ HasEvent(audit', e.action)
<1>1. /\ status' \in {"posted", "held", "failed"} /\ Kept(audit', t) /\ Begins(audit', t)
      /\ \A a : a \notin {"classified", "categorized", status'} =>
                   (HasEvent(audit', a) <=> HasEvent(t, a))
  BY PassedStep
<1>2. Kept(t, audit)
  BY QuietEvent
<1>3. \A a : HasEvent(t, a) <=> HasEvent(audit, a) \/ e.action = a
  BY PositionsOfMore
<1>4. Kept(audit', audit)
  BY <1>1, <1>2, KeptTwice
<1>5. Begins(audit', audit)
  BY <1>1, BeginsOnce, BeginsTwice
<1> QED BY <1>1, <1>3, <1>4, <1>5

LEMMA AgainFacts ==
  ASSUME IShape, Again
  PROVE  /\ status \in {"held", "failed", "corrected", "escalated"}
         /\ OverlayValid(audit) /\ ai' = ai
         /\ \E ex, text, t, guarded, e :
               /\ ex = Reconstruct /\ text = source.head
               /\ Passed(ex, text, t, guarded) /\ ai' \in Metadata
               /\ Extends(t, audit, e) /\ e.action \in {"rerun", "recovered"}
               /\ e.action = "recovered" => guarded = TRUE /\ HasEvent(audit, "extracted")
<1>1. /\ status \in {"held", "failed", "corrected", "escalated"}
      /\ OverlayValid(audit) /\ ai' = ai /\ ai' \in Metadata
  BY DEF Again, CorrectFrom, IShape, TypeOK
<1>2. CASE Replay(Event("human", "rerun"), FALSE)
  <2>1. PICK e : e = Event("human", "rerun")
    OBVIOUS
  <2>2. e.action = "rerun"
    BY <2>1 DEF Event
  <2>3. PICK ex, text, t :
           /\ ex = Reconstruct /\ text = source.head
           /\ Extends(t, audit, e)
           /\ Passed(ex, text, t, FALSE)
    BY <1>2, <2>1 DEF Replay
  <2> QED BY <1>1, <2>2, <2>3
<1>3. CASE HasEvent(audit, "extracted") /\ Replay(Event("system", "recovered"), TRUE)
  <2>1. PICK e : e = Event("system", "recovered")
    OBVIOUS
  <2>2. e.action = "recovered"
    BY <2>1 DEF Event
  <2>3. PICK ex, text, t :
           /\ ex = Reconstruct /\ text = source.head
           /\ Extends(t, audit, e)
           /\ Passed(ex, text, t, TRUE)
    BY <1>3, <2>1 DEF Replay
  <2> QED BY <1>1, <1>3, <2>2, <2>3
<1> QED BY <1>1, <1>2, <1>3 DEF Again

LEMMA AnewFacts ==
  ASSUME IShape, Anew
  PROVE  /\ status = "failed" /\ ~HasEvent(audit, "extracted")
         /\ \E reply \in Reply : \E ex, text, t, e :
               /\ ex = Extract(reply) /\ ~Malformed(reply) /\ text = source.head
               /\ Passed(ex, text, t, TRUE) /\ ai' \in Metadata
               /\ Extends(t, audit, e) /\ e.action = "recovered"
<1>1. PICK reply, ex, text, t :
         /\ reply \in Reply
         /\ status = "failed" /\ ~Malformed(reply)
         /\ ~HasEvent(audit, "extracted")
         /\ ex = Extract(reply) /\ Extends(t, audit, Event("system", "recovered"))
         /\ text = source.head
         /\ ai' = ex.metadata
         /\ Passed(ex, text, t, TRUE)
  BY DEF Anew
<1>2. PICK e : e = Event("system", "recovered")
  OBVIOUS
<1>3. e.action = "recovered"
  BY <1>2 DEF Event
<1>4. Extracted(ex)
  BY <1>1, ExtractEffect
<1> QED BY <1>1, <1>2, <1>3, <1>4 DEF Extracted

LEMMA GivenUpFacts ==
  ASSUME IShape, GivenUp
  PROVE  /\ status' = "failed" /\ HasEvent(audit', "failed")
         /\ UNCHANGED <<source, meta, items, ai>>
         /\ \/ /\ status = "received"
               /\ \A a : HasEvent(audit', a) <=> a \in {"received", "parsed", "failed"}
            \/ /\ status = "failed" /\ Kept(audit', audit) /\ Begins(audit', audit)
               /\ \A a : a \notin {"recovered", "failed"} =>
                            (HasEvent(audit', a) <=> HasEvent(audit, a))
<1>1. PICK kind, t :
         /\ Extends(audit', t, FailedEvent(kind)) /\ Legible(t)
         /\ status' = "failed" /\ UNCHANGED <<source, meta, items, ai>>
         /\ \/ status = "received" /\ t = Received
            \/ status = "failed" /\ Extends(t, audit, Event("system", "recovered"))
  BY DEF GivenUp
<1>2. PICK e : e = FailedEvent(kind)
  OBVIOUS
<1>3. e.action = "failed" /\ Extends(audit', t, e)
  BY <1>1, <1>2 DEF FailedEvent
<1>4. \A a : HasEvent(audit', a) <=> HasEvent(t, a) \/ a = "failed"
  BY <1>3, PositionsOfMore
<1>5. CASE status = "received" /\ t = Received
  <2>1. Extracted([metadata |-> NoMetadata, items |-> <<>>, confidence |-> <<>>])
    BY DEF Extracted, NoMetadata, Metadata
  <2>2. \A a : HasEvent(Received, a) <=> a \in {"received", "parsed"}
    BY <2>1, FirstTrail
  <2>3. \A a : HasEvent(t, a) <=> a \in {"received", "parsed"}
    BY <1>5, <2>2, Zenon
  <2> QED BY <1>1, <1>4, <1>5, <2>3
<1>6. CASE status = "failed" /\ Extends(t, audit, Event("system", "recovered"))
  <2>1. PICK r : r = Event("system", "recovered")
    OBVIOUS
  <2>2. r.action = "recovered" /\ Extends(t, audit, r)
    BY <1>6, <2>1 DEF Event
  <2>3. \A a : HasEvent(t, a) <=> HasEvent(audit, a) \/ a = "recovered"
    BY <2>2, PositionsOfMore
  <2>4. Kept(t, audit) /\ Kept(audit', t)
    BY <1>3, <2>2, QuietEvent
  <2>5. Begins(t, audit) /\ Begins(audit', t)
    BY <1>3, <2>2, BeginsOnce
  <2>6. Kept(audit', audit) /\ Begins(audit', audit)
    BY <2>4, <2>5, KeptTwice, BeginsTwice
  <2> QED BY <1>1, <1>4, <1>6, <2>3, <2>6
<1> QED BY <1>1, <1>5, <1>6

LEMMA NotedFacts ==
  ASSUME IShape, Noted
  PROVE  \E e :
            /\ Extends(audit', audit, e) /\ Readable(e) /\ Begins(audit', audit)
            /\ UNCHANGED <<source, meta, decision, items, excs, row, ai>>
            /\ status # "received"
            /\ \A a : HasEvent(audit', a) <=> HasEvent(audit, a) \/ e.action = a
            /\ RecordedSignals(audit') = RecordedSignals(audit)
            /\ \/ /\ status' = status /\ e.action \in {"reviewed", "note"}
                  /\ Kept(audit', audit)
               \/ /\ status' = e.action /\ e.action \in {"corrected", "escalated", "rejected"}
                  /\ status \in {"held", "failed", "corrected", "escalated"}
                  /\ OverlayValid(audit) \/ MetadataOverlay(audit') = MetadataOverlay(audit)
<1>1. PICK e :
         /\ Extends(audit', audit, e) /\ Readable(e)
         /\ UNCHANGED <<source, meta, decision, items, excs, row, ai>>
         /\ status # "received"
         /\ \/ status' = status /\ e.action \in {"reviewed", "note"}
            \/ /\ status' = e.action /\ e.action \in {"corrected", "escalated", "rejected"}
               /\ status \in {"held", "failed", "corrected", "escalated"}
               /\ e.action = "corrected" /\ e.target = "metadata" => OverlayValid(audit)
  BY DEF Noted
<1>2. Begins(audit', audit)
  BY <1>1, BeginsOnce
<1>3. \A a : HasEvent(audit', a) <=> HasEvent(audit, a) \/ e.action = a
  BY <1>1, PositionsOfMore
<1>4. RecordedSignals(audit') = RecordedSignals(audit)
  <2>1. e.action # "extracted"
    BY <1>1
  <2> QED BY <1>1, <2>1, SignalsOfMore
<1>5. e.action \in {"reviewed", "note"} => Kept(audit', audit)
  BY <1>1, QuietEvent
<1>6. ~(e.action = "corrected" /\ e.target = "metadata") =>
         MetadataOverlay(audit') = MetadataOverlay(audit)
  BY <1>1, OverlaysOfMore
<1>7. status' = e.action /\ e.action \in {"corrected", "escalated", "rejected"} =>
         /\ status \in {"held", "failed", "corrected", "escalated"}
         /\ OverlayValid(audit) \/ MetadataOverlay(audit') = MetadataOverlay(audit)
  BY <1>1, <1>6
<1> QED BY <1>1, <1>2, <1>3, <1>4, <1>5, <1>7

-----------------------------------------------------------------------------
(* A correction that does not parse *)

\* What is passed over again, or has ended, has corrections that parse.
Stuck == ~OverlayValid(audit) => status \in {"corrected", "escalated", "rejected"}

LEMMA NothingTypedYet ==
  ASSUME NEW t, \A a : HasEvent(t, a) => a # "corrected"
  PROVE  OverlayValid(t)
BY NothingTyped

LEMMA StuckStep ==
  ASSUME IShape, Stuck, Next
  PROVE  /\ Stuck'
         /\ ~OverlayValid(audit) =>
               /\ MetadataOverlay(audit') = MetadataOverlay(audit)
               /\ UNCHANGED <<meta, items, decision, row>>
               /\ status' \in {"corrected", "escalated", "rejected"}
<1>1. status = "received" => OverlayValid(audit)
  BY DEF Stuck
<1>2. CASE First
  <2>1. PICK reply, ex, text, t :
           /\ reply \in Reply
           /\ status = "received" /\ ai' \in Metadata
           /\ Passed(ex, text, t, TRUE)
           /\ \A a : HasEvent(t, a) <=> a \in {"received", "parsed", "extracted"}
    BY <1>2, FirstFacts
  <2>2. Kept(audit', t)
    BY <2>1, PassedStep
  <2>3. OverlayValid(t)
    BY <2>1, NothingTypedYet
  <2>4. OverlayValid(audit')
    BY <2>2, <2>3, KeptOverlay
  <2> QED BY <1>1, <2>1, <2>4 DEF Stuck
<1>3. CASE Again
  <2>1. PICK ex, text, t, guarded, e :
           /\ Passed(ex, text, t, guarded) /\ ai' \in Metadata
           /\ Extends(t, audit, e) /\ e.action \in {"rerun", "recovered"}
    BY <1>3, AgainFacts
  <2>2. Kept(audit', audit)
    BY <2>1, LaterPass
  <2>3. OverlayValid(audit)
    BY <1>3, AgainFacts
  <2>4. OverlayValid(audit')
    BY <2>2, <2>3, KeptOverlay
  <2> QED BY <2>3, <2>4 DEF Stuck
<1>4. CASE Anew
  <2>1. PICK reply, ex, text, t, e :
           /\ reply \in Reply
           /\ Passed(ex, text, t, TRUE) /\ ai' \in Metadata
           /\ Extends(t, audit, e) /\ e.action = "recovered"
    BY <1>4, AnewFacts
  <2>2. Kept(audit', audit)
    BY <2>1, LaterPass
  <2>3. status = "failed"
    BY <1>4, AnewFacts
  <2>4. OverlayValid(audit)
    BY <2>3 DEF Stuck
  <2>5. OverlayValid(audit')
    BY <2>2, <2>4, KeptOverlay
  <2> QED BY <2>4, <2>5 DEF Stuck
<1>5. CASE GivenUp
  <2>1. CASE /\ status = "received"
             /\ \A a : HasEvent(audit', a) <=> a \in {"received", "parsed", "failed"}
    <3>1. OverlayValid(audit')
      BY <2>1, NothingTypedYet
    <3> QED BY <1>1, <2>1, <3>1 DEF Stuck
  <2>2. CASE status = "failed" /\ Kept(audit', audit)
    <3>1. OverlayValid(audit)
      BY <2>2 DEF Stuck
    <3>2. OverlayValid(audit')
      BY <2>2, <3>1, KeptOverlay
    <3> QED BY <3>1, <3>2 DEF Stuck
  <2> QED BY <1>5, <2>1, <2>2, GivenUpFacts
<1>6. CASE Noted
  <2>1. PICK e :
           /\ UNCHANGED <<meta, decision, items, row>>
           /\ \/ /\ status' = status
                 /\ Kept(audit', audit)
              \/ /\ status' \in {"corrected", "escalated", "rejected"}
                 /\ OverlayValid(audit) \/ MetadataOverlay(audit') = MetadataOverlay(audit)
    BY <1>6, NotedFacts
  <2>2. CASE status' = status /\ Kept(audit', audit)
    <3>1. /\ OverlayValid(audit') <=> OverlayValid(audit)
          /\ MetadataOverlay(audit') = MetadataOverlay(audit)
      BY <2>2, KeptOverlay DEF Kept
    <3> QED BY <2>1, <2>2, <3>1 DEF Stuck
  <2>3. CASE /\ status' \in {"corrected", "escalated", "rejected"}
             /\ OverlayValid(audit) \/ MetadataOverlay(audit') = MetadataOverlay(audit)
    BY <2>1, <2>3 DEF Stuck
  <2> QED BY <2>1, <2>2, <2>3
<1> QED BY <1>2, <1>3, <1>4, <1>5, <1>6, NextCases

\* Once a correction does not parse, no pass runs over the item again and no further
\* metadata correction is recorded, whatever reviewers ask for.
THEOREM UnreadableStaysTheorem == Spec => UnreadableStays
<1>1. Init => Stuck
  <2> SUFFICES ASSUME Init PROVE Stuck
    OBVIOUS
  <2>1. \A a : HasEvent(audit, a) => a # "corrected"
    BY DEF Init, HasEvent, Positions
  <2> QED BY <2>1, NothingTypedYet DEF Stuck
<1>2. IShape /\ Stuck /\ [Next]_vars => Stuck'
  <2> SUFFICES ASSUME IShape, Stuck, [Next]_vars PROVE Stuck'
    OBVIOUS
  <2>1. CASE Next
    BY <2>1, StuckStep
  <2>2. CASE UNCHANGED vars
    BY <2>2 DEF vars, Stuck
  <2> QED BY <2>1, <2>2
<1>3. IShape /\ Stuck /\ [Next]_vars =>
         [~OverlayValid(audit) =>
             /\ MetadataOverlay(audit') = MetadataOverlay(audit)
             /\ UNCHANGED <<meta, items, decision, row>>
             /\ status' \in {"corrected", "escalated", "rejected"}]_vars
  BY StuckStep
<1> QED BY <1>1, <1>2, <1>3, InitShape, ShapeStep, PTL DEF Spec, UnreadableStays

-----------------------------------------------------------------------------
(* What is never filed *)

LEMMA PassedAbove ==
  ASSUME NEW ex, NEW text, NEW t, NEW guarded, Passed(ex, text, t, guarded), status' = "posted"
  PROVE  /\ Extracted(ex) /\ meta' = ex.metadata /\ items' = ex.items /\ source' = source
         /\ excs' = {} /\ row'.meta = ex.metadata
         /\ ~LooksAdversarial(ex, text) /\ "total_amount" \notin ex.missing
         /\ \A s \in Scores(ex) : s >= 80
         /\ guarded => ~LooksPosted(ex.metadata)
BY DEF Passed, Settled

\* Only a note or a review leaves an item posted that was, and it changes nothing.
LEMMA StaysPosted ==
  ASSUME IShape, Next, status' = "posted", ~(First \/ Again \/ Anew)
  PROVE  /\ status = "posted" /\ Kept(audit', audit) /\ Begins(audit', audit)
         /\ UNCHANGED <<source, meta, decision, items, excs, row, ai>>
         /\ \E e : /\ Extends(audit', audit, e) /\ e.action \in {"reviewed", "note"}
                   /\ \A a : HasEvent(audit', a) <=> HasEvent(audit, a) \/ e.action = a
<1>1. Noted
  <2>1. GivenUp => status' = "failed"
    BY GivenUpFacts
  <2> QED BY <2>1, NextCases
<1>2. PICK e :
            /\ Extends(audit', audit, e) /\ Begins(audit', audit)
            /\ UNCHANGED <<source, meta, decision, items, excs, row, ai>>
            /\ \A a : HasEvent(audit', a) <=> HasEvent(audit, a) \/ e.action = a
            /\ \/ /\ status' = status /\ e.action \in {"reviewed", "note"}
                  /\ Kept(audit', audit)
               \/ /\ status' = e.action /\ e.action \in {"corrected", "escalated", "rejected"}
  BY <1>1, NotedFacts
<1> QED BY <1>2

LEMMA AdversarialWords ==
  ASSUME NEW ex, NEW text, ~LooksAdversarial(ex, text)
  PROVE  /\ text \intersect InjectionWords = {}
         /\ \A k \in DOMAIN ex.items : ex.items[k].words \intersect InjectionWords = {}
<1>1. DocText(ex, text) \intersect InjectionWords = {}
  BY DEF LooksAdversarial
<1>2. text \subseteq DocText(ex, text)
  BY DEF DocText
<1>3. \A k \in DOMAIN ex.items : ex.items[k].words \subseteq DocText(ex, text)
  BY DEF DocText
<1> QED BY <1>1, <1>2, <1>3

LEMMA SpoofedStep ==
  ASSUME IShape, SpoofedIsHeld, Next
  PROVE  SpoofedIsHeld'
<1> SUFFICES ASSUME status' = "posted"
             PROVE  /\ source'.head \intersect InjectionWords = {}
                    /\ \A k \in DOMAIN items' : items'[k].words \intersect InjectionWords = {}
                    /\ source'.body \intersect InjectionWords # {} =>
                          HasEvent(audit', "rerun") \/ HasEvent(audit', "recovered")
  BY DEF SpoofedIsHeld, Happened
<1>1. CASE First
  <2>1. PICK reply, ex, text, t :
           /\ reply \in Reply
           /\ text = source.head \union source.body /\ Passed(ex, text, t, TRUE)
    BY <1>1, FirstFacts
  <2>2. ~LooksAdversarial(ex, text) /\ items' = ex.items /\ source' = source
    BY <2>1, PassedAbove
  <2>3. /\ text \intersect InjectionWords = {}
        /\ \A k \in DOMAIN ex.items : ex.items[k].words \intersect InjectionWords = {}
    BY <2>2, AdversarialWords
  <2> QED BY <2>1, <2>2, <2>3
<1>2. ASSUME NEW ex, NEW text, NEW t, NEW guarded, NEW e,
             text = source.head, Passed(ex, text, t, guarded), ai' \in Metadata,
             Extends(t, audit, e), e.action \in {"rerun", "recovered"}
      PROVE  /\ source'.head \intersect InjectionWords = {}
             /\ \A k \in DOMAIN items' : items'[k].words \intersect InjectionWords = {}
             /\ HasEvent(audit', "rerun") \/ HasEvent(audit', "recovered")
  <2>1. ~LooksAdversarial(ex, text) /\ items' = ex.items /\ source' = source
    BY <1>2, PassedAbove
  <2>2. /\ text \intersect InjectionWords = {}
        /\ \A k \in DOMAIN ex.items : ex.items[k].words \intersect InjectionWords = {}
    BY <2>1, AdversarialWords
  <2>3. HasEvent(audit', e.action)
    BY <1>2, LaterPass
  <2> QED BY <1>2, <2>1, <2>2, <2>3
<1>3. CASE Again
  <2>1. PICK ex, text, t, guarded, e :
           /\ text = source.head
           /\ Passed(ex, text, t, guarded) /\ ai' \in Metadata
           /\ Extends(t, audit, e) /\ e.action \in {"rerun", "recovered"}
    BY <1>3, AgainFacts
  <2> QED BY <1>2, <2>1
<1>4. CASE Anew
  <2>1. PICK reply, ex, text, t, e :
           /\ reply \in Reply
           /\ text = source.head
           /\ Passed(ex, text, t, TRUE) /\ ai' \in Metadata
           /\ Extends(t, audit, e) /\ e.action = "recovered"
    BY <1>4, AnewFacts
  <2>2. e.action \in {"rerun", "recovered"}
    BY <2>1
  <2> QED BY <1>2, <2>1, <2>2
<1>5. CASE ~(First \/ Again \/ Anew)
  <2>1. /\ status = "posted" /\ UNCHANGED <<source, items>>
        /\ \A a : HasEvent(audit, a) => HasEvent(audit', a)
    BY <1>5, StaysPosted
  <2> QED BY <2>1 DEF SpoofedIsHeld, Happened
<1> QED BY <1>1, <1>3, <1>4, <1>5

\* No item whose subject, sender or line items carry instruction-like wording is ever
\* filed, and one that carries it in a body inside its source is filed only by a later
\* pass, for any documents, replies and corrections.  Of a mail body beside the source,
\* where the inbox puts it, nothing is claimed: no pass looks at it.
THEOREM SpoofedIsHeldTheorem == Spec => []SpoofedIsHeld
<1>1. Init => SpoofedIsHeld
  BY DEF Init, SpoofedIsHeld
<1>2. IShape /\ SpoofedIsHeld /\ [Next]_vars => SpoofedIsHeld'
  <2> SUFFICES ASSUME IShape, SpoofedIsHeld, [Next]_vars PROVE SpoofedIsHeld'
    OBVIOUS
  <2>1. CASE Next
    BY <2>1, SpoofedStep
  <2>2. CASE UNCHANGED vars
    BY <2>2 DEF vars, SpoofedIsHeld, Happened
  <2> QED BY <2>1, <2>2
<1> QED BY <1>1, <1>2, InitShape, ShapeStep, PTL DEF Spec

LEMMA NotPostedBefore ==
  ASSUME NEW m \in Metadata, ~LooksPosted(m), NEW posted \in Ledger,
         \A f \in {"vendor_name", "total_amount"} : m[f] = posted[f] /\ posted[f] # NoValue
  PROVE  LET day == m["invoice_date"]
             other == posted["invoice_date"] IN
         /\ NoValue \notin {day, other}
         /\ (day > other + 3 \/ other > day + 3)
<1>1. m["vendor_name"] # NoValue /\ m["total_amount"] # NoValue
  OBVIOUS
<1>2. ~DatesClose(m["invoice_date"], posted["invoice_date"])
  BY <1>1 DEF LooksPosted
<1>3. posted \in Metadata
  BY ReviewAssumption
<1>4. \A x \in Metadata : x["invoice_date"] \in Day \union {NoValue}
  BY DEF Metadata, Field, ValueOf
<1>5. PICK a, b : a = m["invoice_date"] /\ b = posted["invoice_date"]
  OBVIOUS
<1>6. a # NoValue /\ b # NoValue /\ ~(a <= b + 3 /\ b <= a + 3)
  BY <1>2, <1>5 DEF DatesClose
<1>7. a \in Nat /\ b \in Nat
  BY <1>3, <1>4, <1>5, <1>6, ExtractionAssumption
<1>8. a > b + 3 \/ b > a + 3
  BY <1>6, <1>7
<1> QED BY <1>5, <1>6, <1>8

LEMMA DuplicateStep ==
  ASSUME IShape, DuplicateIsReviewed, Next
  PROVE  DuplicateIsReviewed'
<1>1. ASSUME status' = "posted", row'.meta \in Metadata, ~LooksPosted(row'.meta)
      PROVE  DuplicateIsReviewed'
  <2>1. PICK m : m = row'.meta
    OBVIOUS
  <2>2. m \in Metadata /\ ~LooksPosted(m)
    BY <1>1, <2>1
  <2>3. \A posted \in Ledger :
            (\A f \in {"vendor_name", "total_amount"} : m[f] = posted[f] /\ posted[f] # NoValue) =>
                /\ NoValue \notin {m["invoice_date"], posted["invoice_date"]}
                /\ \/ m["invoice_date"] > posted["invoice_date"] + 3
                   \/ posted["invoice_date"] > m["invoice_date"] + 3
    BY <2>2, NotPostedBefore
  <2> QED BY <2>1, <2>3 DEF DuplicateIsReviewed
<1>2. CASE status' # "posted" \/ HasEvent(audit', "rerun")
  BY <1>2 DEF DuplicateIsReviewed, Happened
<1>3. ASSUME NEW ex, NEW text, NEW t, Passed(ex, text, t, TRUE), status' = "posted"
      PROVE  DuplicateIsReviewed'
  <2>1. row'.meta = ex.metadata /\ Extracted(ex) /\ ~LooksPosted(ex.metadata)
    BY <1>3, PassedAbove
  <2>2. row'.meta \in Metadata /\ ~LooksPosted(row'.meta)
    BY <2>1 DEF Extracted
  <2> QED BY <1>1, <1>3, <2>2
<1>4. CASE First /\ status' = "posted"
  <2>1. PICK reply, ex, text, t : reply \in Reply /\ Passed(ex, text, t, TRUE)
    BY <1>4, FirstFacts
  <2> QED BY <1>3, <1>4, <2>1
<1>5. CASE Anew /\ status' = "posted"
  <2>1. PICK reply, ex, text, t, e : reply \in Reply /\ Passed(ex, text, t, TRUE)
    BY <1>5, AnewFacts
  <2> QED BY <1>3, <1>5, <2>1
<1>6. CASE Again /\ status' = "posted" /\ ~HasEvent(audit', "rerun")
  <2>1. PICK ex, text, t, guarded, e :
           /\ Passed(ex, text, t, guarded) /\ ai' \in Metadata
           /\ Extends(t, audit, e) /\ e.action \in {"rerun", "recovered"}
           /\ e.action = "recovered" => guarded = TRUE
    BY <1>6, AgainFacts
  <2>2. HasEvent(audit', e.action)
    BY <2>1, LaterPass
  <2>3. e.action = "recovered"
    BY <1>6, <2>1, <2>2
  <2>4. Passed(ex, text, t, TRUE)
    BY <2>1, <2>3
  <2> QED BY <1>3, <1>6, <2>4
<1>7. CASE status' = "posted" /\ ~(First \/ Again \/ Anew) /\ ~HasEvent(audit', "rerun")
  <2>1. /\ status = "posted" /\ row' = row
        /\ \A a : HasEvent(audit, a) => HasEvent(audit', a)
    BY <1>7, StaysPosted
  <2> QED BY <1>7, <2>1 DEF DuplicateIsReviewed, Happened
<1> QED BY <1>2, <1>4, <1>5, <1>6, <1>7

\* What looks like a posted item is filed only after a reviewer's rerun, for any ledger
\* and any day numbers: each other path to the Sheet goes through the duplicate guard.
THEOREM DuplicateIsReviewedTheorem == Spec => []DuplicateIsReviewed
<1>1. Init => DuplicateIsReviewed
  BY DEF Init, DuplicateIsReviewed
<1>2. IShape /\ DuplicateIsReviewed /\ [Next]_vars => DuplicateIsReviewed'
  <2> SUFFICES ASSUME IShape, DuplicateIsReviewed, [Next]_vars PROVE DuplicateIsReviewed'
    OBVIOUS
  <2>1. CASE Next
    BY <2>1, DuplicateStep
  <2>2. CASE UNCHANGED vars
    BY <2>2 DEF vars, DuplicateIsReviewed, Happened
  <2> QED BY <2>1, <2>2
<1> QED BY <1>1, <1>2, InitShape, ShapeStep, PTL DEF Spec

-----------------------------------------------------------------------------
(* The values of an item, and of its row *)

\* While the signals of the extraction are known: what is not missing has a value, and
\* each value is the model's or one that the reviewer typed.
Valued ==
    Happened("extracted") =>
        \A f \in Field :
           /\ f \notin RecordedSignals(audit).missing => meta[f] # NoValue
           /\ meta[f] \in {ai[f]} \union Words(audit, f)

\* A filed row has the item's values, which are the reviewer's where there is a
\* correction, and the category that the hub shows.
FiledRow ==
    status = "posted" =>
        /\ HasEvent(audit, "categorized")
        /\ row.meta = meta
        /\ row.category = IF CategoryOverlay(audit) # NoValue THEN CategoryOverlay(audit)
                          ELSE Latest(audit, "categorized").category
        /\ Happened("extracted") =>
              \A f \in Overridden(audit) : meta[f] = MetadataOverlay(audit)[f]

LEMMA ValuedStep ==
  ASSUME IShape, Valued, Next
  PROVE  Valued'
<1> SUFFICES ASSUME HasEvent(audit', "extracted"), NEW f \in Field
             PROVE  /\ f \notin RecordedSignals(audit').missing => meta'[f] # NoValue
                    /\ meta'[f] \in {ai'[f]} \union Words(audit', f)
  BY DEF Valued, Happened
<1>1. CASE First
  <2>1. PICK reply, ex, text, t :
           /\ reply \in Reply
           /\ ex = Extract(reply) /\ ~Malformed(reply)
           /\ ai' = ex.metadata /\ ai' \in Metadata
           /\ Passed(ex, text, t, TRUE)
           /\ RecordedSignals(t) = [confidence |-> ex.confidence, missing |-> ex.missing]
    BY <1>1, FirstFacts
  <2>2. Kept(audit', t)
    BY <2>1, PassedStep
  <2>3. RecordedSignals(audit').missing = ex.missing
    BY <2>1, <2>2 DEF Kept
  <2>4. meta' = ex.metadata
    BY <2>1 DEF Passed
  <2>5. \A g \in Field \ ex.missing : ex.metadata[g] # NoValue
    BY <2>1, ExtractEffect
  <2> QED BY <2>1, <2>3, <2>4, <2>5
<1>2. CASE Again
  <2>1. PICK ex, text, t, guarded, e :
           /\ ex = Reconstruct
           /\ Passed(ex, text, t, guarded) /\ ai' \in Metadata
           /\ Extends(t, audit, e) /\ e.action \in {"rerun", "recovered"}
    BY <1>2, AgainFacts
  <2>2. /\ Kept(audit', audit)
        /\ HasEvent(audit', "extracted") <=> HasEvent(audit, "extracted")
    <3>1. status' \in {"posted", "held", "failed"}
      BY <2>1, PassedStep
    <3> QED BY <2>1, <3>1, LaterPass
  <2>3. ai' = ai /\ OverlayValid(audit)
    BY <1>2, AgainFacts
  <2>4. meta' = EffectiveMetadata(meta, audit)
    <3>1. ex.metadata = EffectiveMetadata(meta, audit)
      BY <2>1, <2>3, ReconstructEffect
    <3> QED BY <2>1, <3>1 DEF Passed
  <2>5. /\ f \notin RecordedSignals(audit).missing => meta[f] # NoValue
        /\ meta[f] \in {ai[f]} \union Words(audit, f)
    BY <2>2 DEF Valued, Happened
  <2>6. /\ RecordedSignals(audit') = RecordedSignals(audit)
        /\ Words(audit', f) = Words(audit, f)
    BY <2>2 DEF Kept
  <2>7. f \in Overridden(audit) =>
           MetadataOverlay(audit)[f] # NoValue /\ MetadataOverlay(audit)[f] \in Words(audit, f)
    BY OverlayType DEF Overridden, IShape
  <2>8. meta'[f] = IF f \in Overridden(audit) THEN MetadataOverlay(audit)[f] ELSE meta[f]
    BY <2>4 DEF EffectiveMetadata
  <2> QED BY <2>3, <2>5, <2>6, <2>7, <2>8
<1>3. CASE Anew
  <2>1. PICK reply, ex, text, t, e :
           /\ reply \in Reply
           /\ Passed(ex, text, t, TRUE) /\ ai' \in Metadata
           /\ Extends(t, audit, e) /\ e.action = "recovered"
    BY <1>3, AnewFacts
  <2>2. HasEvent(audit', "extracted") <=> HasEvent(audit, "extracted")
    <3>1. status' \in {"posted", "held", "failed"}
      BY <2>1, PassedStep
    <3> QED BY <2>1, <3>1, LaterPass
  <2>3. ~HasEvent(audit, "extracted")
    BY <1>3, AnewFacts
  <2> QED BY <2>2, <2>3
<1>4. CASE GivenUp
  <2>1. /\ UNCHANGED <<meta, ai>> /\ Kept(audit', audit)
        /\ HasEvent(audit', "extracted") <=> HasEvent(audit, "extracted")
    BY <1>4, GivenUpFacts
  <2> QED BY <2>1 DEF Valued, Happened, Kept
<1>5. CASE Noted
  <2>1. PICK e :
            /\ Begins(audit', audit)
            /\ UNCHANGED <<source, meta, decision, items, excs, row, ai>>
            /\ \A a : HasEvent(audit', a) <=> HasEvent(audit, a) \/ e.action = a
            /\ RecordedSignals(audit') = RecordedSignals(audit)
            /\ e.action \in {"reviewed", "note", "corrected", "escalated", "rejected"}
    BY <1>5, NotedFacts
  <2>2. HasEvent(audit, "extracted")
    BY <2>1
  <2>3. Words(audit, f) \subseteq Words(audit', f)
    BY <2>1, WordsOfLonger
  <2>4. /\ f \notin RecordedSignals(audit).missing => meta[f] # NoValue
        /\ meta[f] \in {ai[f]} \union Words(audit, f)
    BY <2>2 DEF Valued, Happened
  <2> QED BY <2>1, <2>3, <2>4
<1> QED BY <1>1, <1>2, <1>3, <1>4, <1>5, NextCases

LEMMA FiledRowStep ==
  ASSUME IShape, FiledRow, Next
  PROVE  FiledRow'
<1> SUFFICES ASSUME status' = "posted"
             PROVE  /\ HasEvent(audit', "categorized")
                    /\ row'.meta = meta'
                    /\ row'.category = IF CategoryOverlay(audit') # NoValue THEN CategoryOverlay(audit')
                                       ELSE Latest(audit', "categorized").category
                    /\ HasEvent(audit', "extracted") =>
                          \A f \in Overridden(audit') : meta'[f] = MetadataOverlay(audit')[f]
  BY DEF FiledRow, Happened
<1>1. ASSUME NEW ex, NEW text, NEW t, NEW guarded, Passed(ex, text, t, guarded), ai' \in Metadata
      PROVE  /\ HasEvent(audit', "categorized")
             /\ row'.meta = meta'
             /\ row'.category = IF CategoryOverlay(audit') # NoValue THEN CategoryOverlay(audit')
                                ELSE Latest(audit', "categorized").category
  <2>1. row'.meta = meta'
    BY <1>1, PassedAbove
  <2> QED BY <1>1, <2>1, PassedStep
<1>2. CASE First
  <2>1. PICK reply, ex, text, t :
           /\ reply \in Reply
           /\ ai' \in Metadata
           /\ Passed(ex, text, t, TRUE)
           /\ \A a : HasEvent(t, a) <=> a \in {"received", "parsed", "extracted"}
    BY <1>2, FirstFacts
  <2>2. Kept(audit', t)
    BY <2>1, PassedStep
  <2>3. Overridden(t) = {}
    BY <2>1, NothingTyped
  <2>4. Overridden(audit') = {}
    BY <2>2, <2>3, KeptOverlay
  <2> QED BY <1>1, <2>1, <2>4
<1>3. CASE Again
  <2>1. PICK ex, text, t, guarded, e :
           /\ ex = Reconstruct
           /\ Passed(ex, text, t, guarded) /\ ai' \in Metadata
           /\ Extends(t, audit, e) /\ e.action \in {"rerun", "recovered"}
    BY <1>3, AgainFacts
  <2>2. Kept(audit', audit)
    BY <2>1, LaterPass
  <2>3. meta' = EffectiveMetadata(meta, audit)
    <3>1. OverlayValid(audit)
      BY <1>3, AgainFacts
    <3>2. ex.metadata = EffectiveMetadata(meta, audit)
      BY <2>1, <3>1, ReconstructEffect
    <3> QED BY <2>1, <3>2 DEF Passed
  <2>4. Overridden(audit') = Overridden(audit) /\ MetadataOverlay(audit') = MetadataOverlay(audit)
    BY <2>2, KeptOverlay DEF Kept
  <2>5. Overridden(audit) \subseteq Field
    BY OverlayType DEF Overridden, IShape
  <2>6. \A f \in Overridden(audit) : meta'[f] = MetadataOverlay(audit)[f]
    BY <2>3, <2>5 DEF EffectiveMetadata
  <2> QED BY <1>1, <2>1, <2>4, <2>6
<1>4. CASE Anew
  <2>1. PICK reply, ex, text, t, e :
           /\ reply \in Reply
           /\ Passed(ex, text, t, TRUE) /\ ai' \in Metadata
           /\ Extends(t, audit, e) /\ e.action = "recovered"
    BY <1>4, AnewFacts
  <2>2. HasEvent(audit', "extracted") <=> HasEvent(audit, "extracted")
    BY <2>1, LaterPass
  <2>3. ~HasEvent(audit, "extracted")
    BY <1>4, AnewFacts
  <2> QED BY <1>1, <2>1, <2>2, <2>3
<1>5. CASE ~(First \/ Again \/ Anew)
  <2>1. PICK e :
           /\ status = "posted" /\ Kept(audit', audit)
           /\ UNCHANGED <<meta, row>>
           /\ Extends(audit', audit, e) /\ e.action \in {"reviewed", "note"}
           /\ \A a : HasEvent(audit', a) <=> HasEvent(audit, a) \/ e.action = a
    BY <1>5, StaysPosted
  <2>2. /\ HasEvent(audit, "categorized") /\ row.meta = meta
        /\ row.category = IF CategoryOverlay(audit) # NoValue THEN CategoryOverlay(audit)
                          ELSE Latest(audit, "categorized").category
        /\ HasEvent(audit, "extracted") =>
              \A f \in Overridden(audit) : meta[f] = MetadataOverlay(audit)[f]
    BY <2>1 DEF FiledRow, Happened
  <2>3. Latest(audit', "categorized") = Latest(audit, "categorized")
    <3>1. e.action # "categorized"
      BY <2>1
    <3> QED BY <2>1, <2>2, <3>1, LatestOfMore
  <2>4. /\ Overridden(audit') = Overridden(audit) /\ MetadataOverlay(audit') = MetadataOverlay(audit)
        /\ CategoryOverlay(audit') = CategoryOverlay(audit)
    BY <2>1, KeptOverlay DEF Kept
  <2>5. HasEvent(audit', "categorized") /\ (HasEvent(audit', "extracted") => HasEvent(audit, "extracted"))
    BY <2>1, <2>2
  <2> QED BY <2>1, <2>2, <2>3, <2>4, <2>5
<1> QED BY <1>2, <1>3, <1>4, <1>5

LEMMA ValuesStep == IShape /\ Valued /\ FiledRow /\ [Next]_vars => IShape' /\ Valued' /\ FiledRow'
<1> SUFFICES ASSUME IShape, Valued, FiledRow, [Next]_vars
             PROVE  IShape' /\ Valued' /\ FiledRow'
  OBVIOUS
<1>1. CASE Next
  BY <1>1, ShapeStep, ValuedStep, FiledRowStep
<1>2. CASE UNCHANGED vars
  <2>1. IShape'
    BY <1>2, ShapeStep
  <2>2. Valued'
    BY <1>2 DEF vars, Valued, Happened
  <2>3. FiledRow'
    BY <1>2 DEF vars, FiledRow, Happened
  <2> QED BY <2>1, <2>2, <2>3
<1> QED BY <1>1, <1>2

LEMMA ValuesInit == Init => IShape /\ Valued /\ FiledRow
<1> SUFFICES ASSUME Init PROVE IShape /\ Valued /\ FiledRow
  OBVIOUS
<1>1. IShape
  BY InitShape
<1>2. ~Happened("extracted")
  BY DEF Init, Happened, HasEvent, Positions
<1>3. status # "posted"
  BY DEF Init
<1> QED BY <1>1, <1>2, <1>3 DEF Valued, FiledRow

\* The last of the corrections that name a field is the one that the overlay takes.
LEMMA LastWordIsOverlay ==
  ASSUME IShape, NEW f \in Field
  PROVE  /\ Typed(f) = TypedIn(audit, f)
         /\ Words(audit, f) = {audit[n].after[f] : n \in Typed(f)}
         /\ Typed(f) # {} => f \in DOMAIN MetadataOverlay(audit) /\ LastWord(f) = {MetadataOverlay(audit)[f]}
         /\ Typed(f) = {} => LastWord(f) = {}
<1>1. Typed(f) = TypedIn(audit, f)
  BY DEF Typed, TypedIn
<1>2. Words(audit, f) = {audit[n].after[f] : n \in Typed(f)}
  BY <1>1 DEF Words
<1>3. Typed(f) \subseteq 1..Len(audit) /\ Len(audit) \in Nat
  BY <1>1, TrailDomain DEF IShape, Legible, TypedIn, Corrections, Positions
<1>4. ASSUME Typed(f) # {}
      PROVE  f \in DOMAIN MetadataOverlay(audit) /\ LastWord(f) = {MetadataOverlay(audit)[f]}
  <2>1. PICK T : T = Typed(f)
    OBVIOUS
  <2>2. PICK m \in T : m = Max(T) /\ \A j \in T : j <= m
    <3>1. T # {} /\ \A y \in T : y \in Nat /\ y <= Len(audit)
      BY <1>3, <1>4, <2>1
    <3>2. Max(T) \in T /\ \A y \in T : y <= Max(T)
      BY <1>3, <3>1, MaxIsGreatest
    <3> QED BY <3>2
  <2>3. {k \in T : \A j \in T : j <= k} = {m}
    <3>1. \A k \in T : (\A j \in T : j <= k) => k = m
      <4> SUFFICES ASSUME NEW k \in T, \A j \in T : j <= k PROVE k = m
        OBVIOUS
      <4>1. k <= m /\ m <= k /\ k \in Nat /\ m \in Nat
        BY <1>3, <2>1, <2>2
      <4> QED BY <4>1
    <3> QED BY <2>2, <3>1
  <2>4. LastWord(f) = {audit[m].after[f]}
    <3>1. LastWord(f) = {audit[n].after[f] : n \in {k \in T : \A j \in T : j <= k}}
      BY <2>1 DEF LastWord
    <3> QED BY <2>3, <3>1
  <2>5. Max(TypedIn(audit, f)) = m
    BY <1>1, <2>1, <2>2, Zenon
  <2>6. f \in DOMAIN MetadataOverlay(audit) /\ MetadataOverlay(audit)[f] = audit[m].after[f]
    BY <1>1, <1>4, <2>5, OverlayOfTyped
  <2> QED BY <2>4, <2>6
<1>5. Typed(f) = {} => LastWord(f) = {}
  BY DEF LastWord
<1> QED BY <1>1, <1>2, <1>4, <1>5

LEMMA FiledRowIsAuthored ==
  ASSUME IShape, Valued, FiledRow
  PROVE  FiledRowHasAuthor
<1> SUFFICES ASSUME status = "posted", Happened("extracted")
             PROVE  /\ \A f \in Field :
                          row.meta[f] \in IF LastWord(f) \subseteq {NoValue}
                              THEN {ai[f]} \union {audit[n].after[f] : n \in Typed(f)}
                              ELSE LastWord(f)
                    /\ row.category = IF CategoryOverlay(audit) # NoValue THEN CategoryOverlay(audit)
                          ELSE Latest(audit, "categorized").category
  BY DEF FiledRowHasAuthor
<1>1. /\ row.meta = meta
      /\ row.category = IF CategoryOverlay(audit) # NoValue THEN CategoryOverlay(audit)
                          ELSE Latest(audit, "categorized").category
      /\ \A f \in Overridden(audit) : meta[f] = MetadataOverlay(audit)[f]
  BY DEF FiledRow
<1>2. ASSUME NEW f \in Field
      PROVE  row.meta[f] \in IF LastWord(f) \subseteq {NoValue}
                             THEN {ai[f]} \union {audit[n].after[f] : n \in Typed(f)}
                             ELSE LastWord(f)
  <2>1. meta[f] \in {ai[f]} \union {audit[n].after[f] : n \in Typed(f)}
    <3>1. meta[f] \in {ai[f]} \union Words(audit, f)
      BY DEF Valued
    <3> QED BY <3>1, LastWordIsOverlay
  <2>2. ASSUME ~(LastWord(f) \subseteq {NoValue})
        PROVE  meta[f] \in LastWord(f)
    <3>1. f \in DOMAIN MetadataOverlay(audit) /\ LastWord(f) = {MetadataOverlay(audit)[f]}
      BY <2>2, LastWordIsOverlay
    <3>2. f \in Overridden(audit)
      BY <2>2, <3>1 DEF Overridden
    <3> QED BY <1>1, <3>1, <3>2
  <2> QED BY <1>1, <2>1, <2>2
<1> QED BY <1>1, <1>2

\* Each value of a filed row is the reviewer's latest word where it is not blank, and
\* otherwise the model's or an earlier word of the reviewer, and its category is the
\* reviewer's or the latest one that was recorded, after any number of corrections,
\* reruns and retries.
THEOREM FiledRowHasAuthorTheorem == Spec => []FiledRowHasAuthor
BY ValuesInit, ValuesStep, FiledRowIsAuthored, PTL DEF Spec

-----------------------------------------------------------------------------
(* Confidence *)

LEMMA SureStep ==
  ASSUME IShape, Valued, FiledIsSure, Next
  PROVE  FiledIsSure'
<1> SUFFICES ASSUME status' = "posted", HasEvent(audit', "extracted") \/ ~HasEvent(audit', "rerun")
             PROVE  /\ row'.meta["total_amount"] # NoValue
                    /\ \A k \in DOMAIN items' : items'[k].confidence >= 80
                    /\ \A f \in DOMAIN RecordedSignals(audit').confidence
                                  \ (RecordedSignals(audit').missing \union Overridden(audit')) :
                          RecordedSignals(audit').confidence[f] >= 80
  BY DEF FiledIsSure, FiledHasAmount, SignalsKnown, Happened
<1>1. ASSUME NEW ex, NEW text, NEW t, NEW guarded, Passed(ex, text, t, guarded)
      PROVE  /\ \A k \in DOMAIN items' : items'[k].confidence >= 80
             /\ \A f \in DOMAIN ex.confidence \ ex.missing : ex.confidence[f] >= 80
             /\ "total_amount" \notin ex.missing
             /\ row'.meta = ex.metadata /\ meta' = ex.metadata
  <2>1. /\ items' = ex.items /\ "total_amount" \notin ex.missing
        /\ \A s \in Scores(ex) : s >= 80
        /\ row'.meta = ex.metadata /\ meta' = ex.metadata
    BY <1>1, PassedAbove
  <2>2. \A k \in DOMAIN ex.items : ex.items[k].confidence \in Scores(ex)
    BY DEF Scores
  <2>3. \A f \in DOMAIN ex.confidence \ ex.missing : ex.confidence[f] \in Scores(ex)
    BY DEF Scores
  <2> QED BY <2>1, <2>2, <2>3
<1>2. "total_amount" \in Field
  BY DEF Field
<1>3. CASE First
  <2>1. PICK reply, ex, text, t :
           /\ reply \in Reply
           /\ ex = Extract(reply) /\ ~Malformed(reply)
           /\ ai' \in Metadata
           /\ Passed(ex, text, t, TRUE)
           /\ RecordedSignals(t) = [confidence |-> ex.confidence, missing |-> ex.missing]
    BY <1>3, FirstFacts
  <2>2. RecordedSignals(audit') = RecordedSignals(t)
    BY <2>1, PassedStep DEF Kept
  <2>3. /\ RecordedSignals(audit').confidence = ex.confidence
        /\ RecordedSignals(audit').missing = ex.missing
    BY <2>1, <2>2
  <2>4. \A f \in Field \ ex.missing : ex.metadata[f] # NoValue
    BY <2>1, ExtractEffect
  <2>5. /\ \A k \in DOMAIN items' : items'[k].confidence >= 80
        /\ \A f \in DOMAIN ex.confidence \ ex.missing : ex.confidence[f] >= 80
        /\ "total_amount" \notin ex.missing
        /\ row'.meta = ex.metadata
    BY <1>1, <2>1
  <2> QED BY <1>2, <2>3, <2>4, <2>5
<1>4. CASE Again
  <2>1. PICK ex, text, t, guarded, e :
           /\ ex = Reconstruct
           /\ Passed(ex, text, t, guarded) /\ ai' \in Metadata
           /\ Extends(t, audit, e) /\ e.action \in {"rerun", "recovered"}
           /\ e.action = "recovered" => HasEvent(audit, "extracted")
    BY <1>4, AgainFacts
  <2>2. /\ Kept(audit', audit)
        /\ HasEvent(audit', "extracted") <=> HasEvent(audit, "extracted")
        /\ HasEvent(audit', e.action)
    BY <2>1, LaterPass
  <2>3. HasEvent(audit, "extracted")
    BY <2>1, <2>2
  <2>4. OverlayValid(audit)
    BY <1>4, AgainFacts
  <2>5. /\ ex.metadata = EffectiveMetadata(meta, audit)
        /\ ex.missing = RecordedSignals(audit).missing \ Overridden(audit)
        /\ \A f \in DOMAIN RecordedSignals(audit).confidence \ Overridden(audit) :
              /\ f \in DOMAIN ex.confidence
              /\ ex.confidence[f] = RecordedSignals(audit).confidence[f]
    BY <2>1, <2>4, ReconstructEffect
  <2>6. /\ \A k \in DOMAIN items' : items'[k].confidence >= 80
        /\ \A f \in DOMAIN ex.confidence \ ex.missing : ex.confidence[f] >= 80
        /\ "total_amount" \notin ex.missing
        /\ row'.meta = ex.metadata
    BY <1>1, <2>1
  <2>7. RecordedSignals(audit') = RecordedSignals(audit) /\ Overridden(audit') = Overridden(audit)
    BY <2>2, KeptOverlay DEF Kept
  <2>8. \A f \in DOMAIN RecordedSignals(audit).confidence
                     \ (RecordedSignals(audit).missing \union Overridden(audit)) :
           RecordedSignals(audit).confidence[f] >= 80
    BY <2>5, <2>6
  <2>9. row'.meta["total_amount"] # NoValue
    <3>1. CASE "total_amount" \in Overridden(audit)
      <4>1. MetadataOverlay(audit)["total_amount"] # NoValue
        BY <3>1 DEF Overridden
      <4> QED BY <1>2, <2>5, <2>6, <3>1, <4>1 DEF EffectiveMetadata
    <3>2. CASE "total_amount" \notin Overridden(audit)
      <4>1. "total_amount" \notin RecordedSignals(audit).missing
        BY <2>5, <2>6, <3>2
      <4>2. meta["total_amount"] # NoValue
        BY <1>2, <2>3, <4>1 DEF Valued, Happened
      <4> QED BY <1>2, <2>5, <2>6, <3>2, <4>2 DEF EffectiveMetadata
    <3> QED BY <3>1, <3>2
  <2> QED BY <2>6, <2>7, <2>8, <2>9
<1>5. CASE Anew
  <2>1. PICK reply, ex, text, t, e :
           /\ reply \in Reply
           /\ ex = Extract(reply) /\ ~Malformed(reply)
           /\ Passed(ex, text, t, TRUE) /\ ai' \in Metadata
           /\ Extends(t, audit, e) /\ e.action = "recovered"
    BY <1>5, AnewFacts
  <2>2. HasEvent(audit', "extracted") <=> HasEvent(audit, "extracted")
    BY <2>1, LaterPass
  <2>3. ~HasEvent(audit', "extracted")
    BY <1>5, <2>2, AnewFacts
  <2>4. DOMAIN RecordedSignals(audit').confidence = {}
    BY <2>3 DEF RecordedSignals
  <2>5. \A f \in Field \ ex.missing : ex.metadata[f] # NoValue
    BY <2>1, ExtractEffect
  <2>6. /\ \A k \in DOMAIN items' : items'[k].confidence >= 80
        /\ "total_amount" \notin ex.missing
        /\ row'.meta = ex.metadata
    BY <1>1, <2>1
  <2> QED BY <1>2, <2>4, <2>5, <2>6
<1>6. CASE ~(First \/ Again \/ Anew)
  <2>1. PICK e :
           /\ status = "posted" /\ Kept(audit', audit)
           /\ UNCHANGED <<items, row>>
           /\ e.action \in {"reviewed", "note"}
           /\ \A a : HasEvent(audit', a) <=> HasEvent(audit, a) \/ e.action = a
    BY <1>6, StaysPosted
  <2>2. RecordedSignals(audit') = RecordedSignals(audit) /\ Overridden(audit') = Overridden(audit)
    BY <2>1, KeptOverlay DEF Kept
  <2>3. HasEvent(audit, "extracted") \/ ~HasEvent(audit, "rerun")
    BY <2>1
  <2>4. /\ row.meta["total_amount"] # NoValue
        /\ \A k \in DOMAIN items : items[k].confidence >= 80
        /\ \A f \in DOMAIN RecordedSignals(audit).confidence
                       \ (RecordedSignals(audit).missing \union Overridden(audit)) :
              RecordedSignals(audit).confidence[f] >= 80
    BY <2>1, <2>3 DEF FiledIsSure, FiledHasAmount, SignalsKnown, Happened
  <2> QED BY <2>1, <2>2, <2>4
<1> QED BY <1>3, <1>4, <1>5, <1>6

\* Nothing that the model was unsure of, and no row without an amount, is filed unseen,
\* for any reply and through any corrections, blankings, reruns and retries, as long as
\* the signals of the extraction are known.
THEOREM FiledIsSureTheorem == Spec => []FiledIsSure
<1>1. Init => FiledIsSure
  BY DEF Init, FiledIsSure
<1>2. IShape /\ Valued /\ FiledIsSure /\ [Next]_vars => FiledIsSure'
  <2> SUFFICES ASSUME IShape, Valued, FiledIsSure, [Next]_vars PROVE FiledIsSure'
    OBVIOUS
  <2>1. CASE Next
    BY <2>1, SureStep
  <2>2. CASE UNCHANGED vars
    BY <2>2 DEF vars, FiledIsSure, FiledHasAmount, SignalsKnown, Happened
  <2> QED BY <2>1, <2>2
<1> QED BY <1>1, <1>2, ValuesInit, ValuesStep, PTL DEF Spec

-----------------------------------------------------------------------------
(* What the metrics count *)

\* An item that is not new was decided or has failed.  Whatever was decided first to be
\* filed is filed for good, and a human can have acted on it only before: after a pass
\* that failed.
Counted ==
    /\ status # "received" => Decisions(audit) # {} \/ HasEvent(audit, "failed")
    /\ FirstDecision(audit) = "posted" => status = "posted"
    /\ status = "posted" => HasEvent(audit, "posted")
    /\ CountedFalseSubmit(audit) =>
          HasEvent(audit, "failed") /\ Min(Positions(audit, "failed")) < Min(Decisions(audit))

LEMMA FirstDecided ==
  ASSUME NEW t, IsTrail(t)
  PROVE  /\ Decisions(t) # {} =>
               /\ Min(Decisions(t)) \in Decisions(t)
               /\ FirstDecision(t) \in {"posted", "held"}
         /\ Decisions(t) = {} => FirstDecision(t) = "none"
         /\ FirstDecision(t) = "posted" => HasEvent(t, "posted")
<1>1. Decisions(t) \subseteq Nat
  BY TrailDomain DEF Decisions, Positions
<1>2. ASSUME Decisions(t) # {}
      PROVE  /\ Min(Decisions(t)) \in Decisions(t)
             /\ FirstDecision(t) \in {"posted", "held"}
             /\ FirstDecision(t) = "posted" => HasEvent(t, "posted")
  <2>1. PICK n \in Decisions(t) : n = Min(Decisions(t))
    BY <1>1, <1>2, MinIsLeast
  <2>2. FirstDecision(t) = t[n].action
    BY <1>2, <2>1 DEF FirstDecision
  <2>3. \/ n \in Positions(t, "posted") /\ t[n].action = "posted"
        \/ n \in Positions(t, "held") /\ t[n].action = "held"
    BY <2>1 DEF Decisions, Positions
  <2> QED BY <2>1, <2>2, <2>3 DEF HasEvent
<1>3. Decisions(t) = {} => FirstDecision(t) = "none"
  BY DEF FirstDecision
<1> QED BY <1>2, <1>3

LEMMA LongerDecides ==
  ASSUME NEW t, NEW u, Begins(u, t)
  PROVE  /\ Decisions(t) # {} =>
               /\ Decisions(u) # {} /\ Min(Decisions(u)) = Min(Decisions(t))
               /\ FirstDecision(u) = FirstDecision(t)
         /\ HasEvent(t, "failed") =>
               /\ HasEvent(u, "failed")
               /\ Min(Positions(u, "failed")) = Min(Positions(t, "failed"))
         /\ HasEvent(t, "failed") /\ Decisions(t) = {} /\ Decisions(u) # {} =>
               Min(Positions(u, "failed")) < Min(Decisions(u))
<1>1. /\ Decisions(t) # {} => Min(Decisions(u)) = Min(Decisions(t)) /\ Min(Decisions(t)) \in DOMAIN t
      /\ Decisions(t) = {} => \A n \in DOMAIN t, k \in Decisions(u) : n < k
  BY FirstOfLonger DEF Decisions
<1>2. \A a : HasEvent(t, a) => HasEvent(u, a)
  BY FirstOfLonger
<1>3. ASSUME Decisions(t) # {}
      PROVE  Decisions(u) # {} /\ FirstDecision(u) = FirstDecision(t)
  <2>1. Decisions(u) # {}
    BY <1>2, <1>3 DEF Decisions, HasEvent
  <2>2. \A n \in DOMAIN t : u[n] = t[n]
    BY DEF Begins
  <2> QED BY <1>1, <1>3, <2>1, <2>2 DEF FirstDecision
<1>4. ASSUME HasEvent(t, "failed")
      PROVE  /\ Min(Positions(u, "failed")) = Min(Positions(t, "failed"))
             /\ Min(Positions(t, "failed")) \in DOMAIN t
  <2>1. PICK P, Q : P = Positions(t, "failed") /\ Q = Positions(u, "failed")
    OBVIOUS
  <2>2. P # {} /\ P = P \union P /\ Q = Q \union Q
    BY <1>4, <2>1 DEF HasEvent
  <2>3. LET A == Positions(t, "failed") \union Positions(t, "failed")
            B == Positions(u, "failed") \union Positions(u, "failed") IN
        A # {} => Min(B) = Min(A) /\ Min(A) \in DOMAIN t
    BY FirstOfLonger
  <2>4. P \union P # {} => Min(Q \union Q) = Min(P \union P) /\ Min(P \union P) \in DOMAIN t
    BY <2>1, <2>3, Zenon
  <2>5. Min(P \union P) = Min(P) /\ Min(Q \union Q) = Min(Q)
    BY <2>2, Zenon
  <2>6. Min(Q) = Min(P) /\ Min(P) \in DOMAIN t
    BY <2>2, <2>4, <2>5
  <2> QED BY <2>1, <2>6, Zenon
<1>5. ASSUME HasEvent(t, "failed"), Decisions(t) = {}, Decisions(u) # {}
      PROVE  Min(Positions(u, "failed")) < Min(Decisions(u))
  <2>1. IsTrail(u)
    BY DEF Begins
  <2>2. Min(Decisions(u)) \in Decisions(u)
    BY <1>5, <2>1, FirstDecided
  <2> QED BY <1>1, <1>4, <1>5, <2>2
<1> QED BY <1>1, <1>2, <1>3, <1>4, <1>5

LEMMA NobodyActed ==
  ASSUME NEW t, ~HasEvent(t, "corrected"), ~HasEvent(t, "escalated")
  PROVE  ~CountedFalseSubmit(t)
<1>1. HumanActions(t) \intersect NeedsHuman = {}
  BY DEF HumanActions, NeedsHuman, HasEvent, Positions
<1> QED BY <1>1 DEF CountedFalseSubmit

LEMMA CountedFirst ==
  ASSUME IShape', status' \in {"posted", "held", "failed"}, HasEvent(audit', status'),
         \A a : HasEvent(audit', a) => a \in {"received", "parsed", "extracted", "classified", "categorized", status'}
  PROVE  Counted'
<1>1. IsTrail(audit')
  BY DEF IShape, Legible
<1>2. Decisions(audit') # {} \/ HasEvent(audit', "failed")
  BY DEF Decisions, HasEvent
<1>3. FirstDecision(audit') = "posted" => status' = "posted"
  <2>1. FirstDecision(audit') = "posted" => HasEvent(audit', "posted")
    BY <1>1, FirstDecided
  <2> QED BY <2>1
<1>4. ~CountedFalseSubmit(audit')
  <2>1. ~HasEvent(audit', "corrected") /\ ~HasEvent(audit', "escalated")
    OBVIOUS
  <2> QED BY <2>1, NobodyActed
<1> QED BY <1>2, <1>3, <1>4 DEF Counted

LEMMA CountedLater ==
  ASSUME IShape, IShape', Counted, status # "received", Begins(audit', audit),
         status = "posted" =>
            status' = "posted" /\ HumanActions(audit') \intersect NeedsHuman \subseteq HumanActions(audit),
         Decisions(audit) = {} /\ HasEvent(audit', "posted") => status' = "posted",
         status' = "posted" => HasEvent(audit', "posted")
  PROVE  Counted'
<1>1. IsTrail(audit') /\ IsTrail(audit)
  BY DEF Begins
<1>2. /\ Decisions(audit) # {} =>
            /\ Decisions(audit') # {} /\ Min(Decisions(audit')) = Min(Decisions(audit))
            /\ FirstDecision(audit') = FirstDecision(audit)
      /\ HasEvent(audit, "failed") =>
            /\ HasEvent(audit', "failed")
            /\ Min(Positions(audit', "failed")) = Min(Positions(audit, "failed"))
      /\ HasEvent(audit, "failed") /\ Decisions(audit) = {} /\ Decisions(audit') # {} =>
            Min(Positions(audit', "failed")) < Min(Decisions(audit'))
  BY LongerDecides
<1>3. Decisions(audit) # {} \/ HasEvent(audit, "failed")
  BY DEF Counted
<1>4. FirstDecision(audit') = "posted" => HasEvent(audit', "posted") /\ Decisions(audit') # {}
  BY <1>1, FirstDecided
<1>5. FirstDecision(audit') = "posted" => status' = "posted"
  BY <1>2, <1>4 DEF Counted
<1>6. ASSUME CountedFalseSubmit(audit')
      PROVE  HasEvent(audit', "failed") /\ Min(Positions(audit', "failed")) < Min(Decisions(audit'))
  <2>1. FirstDecision(audit') = "posted" /\ HumanActions(audit') \intersect NeedsHuman # {}
    BY <1>6 DEF CountedFalseSubmit
  <2>2. CASE Decisions(audit) # {}
    <3>1. FirstDecision(audit) = "posted" /\ status = "posted"
      BY <1>2, <2>1, <2>2 DEF Counted
    <3>2. HumanActions(audit) \intersect NeedsHuman # {}
      BY <2>1, <3>1
    <3>3. HasEvent(audit, "failed") /\ Min(Positions(audit, "failed")) < Min(Decisions(audit))
      BY <3>1, <3>2 DEF Counted, CountedFalseSubmit
    <3> QED BY <1>2, <2>2, <3>3
  <2>3. CASE Decisions(audit) = {}
    BY <1>2, <1>3, <1>4, <2>1, <2>3
  <2> QED BY <2>2, <2>3
<1> QED BY <1>2, <1>3, <1>5, <1>6 DEF Counted

LEMMA CountedStep ==
  ASSUME IShape, Counted, Next
  PROVE  Counted'
<1>1. IShape'
  BY ShapeStep
<1>2. CASE First
  <2>1. PICK reply, ex, text, t :
           /\ reply \in Reply
           /\ ai' \in Metadata
           /\ Passed(ex, text, t, TRUE)
           /\ \A a : HasEvent(t, a) <=> a \in {"received", "parsed", "extracted"}
    BY <1>2, FirstFacts
  <2>2. /\ status' \in {"posted", "held", "failed"} /\ HasEvent(audit', status')
        /\ \A a : a \notin {"classified", "categorized", status'} =>
                     (HasEvent(audit', a) <=> HasEvent(t, a))
    BY <2>1, PassedStep
  <2>3. \A a : HasEvent(audit', a) =>
                  a \in {"received", "parsed", "extracted", "classified", "categorized", status'}
    BY <2>1, <2>2
  <2> QED BY <1>1, <2>2, <2>3, CountedFirst
<1>3. ASSUME NEW ex, NEW text, NEW t, NEW guarded, NEW e,
             Passed(ex, text, t, guarded), ai' \in Metadata,
             Extends(t, audit, e), e.action \in {"rerun", "recovered"},
             status \in {"held", "failed", "corrected", "escalated"}
      PROVE  Counted'
  <2>1. status' \in {"posted", "held", "failed"} /\ HasEvent(audit', status')
    BY <1>3, PassedStep
  <2>2. /\ Begins(audit', audit)
        /\ \A a : a \notin {"classified", "categorized", "rerun", "recovered", status'} =>
                      (HasEvent(audit', a) <=> HasEvent(audit, a))
    BY <1>3, LaterPass
  <2>3. status # "received" /\ status # "posted"
    BY <1>3
  <2>4. Decisions(audit) = {} /\ HasEvent(audit', "posted") => status' = "posted"
    <3>1. Decisions(audit) = {} => ~HasEvent(audit, "posted")
      BY DEF Decisions, HasEvent
    <3> QED BY <2>2, <3>1
  <2>5. status' = "posted" => HasEvent(audit', "posted")
    BY <2>1
  <2> QED BY <1>1, <2>2, <2>3, <2>4, <2>5, CountedLater
<1>4. CASE Again
  <2>1. PICK ex, text, t, guarded, e :
           /\ Passed(ex, text, t, guarded) /\ ai' \in Metadata
           /\ Extends(t, audit, e) /\ e.action \in {"rerun", "recovered"}
    BY <1>4, AgainFacts
  <2>2. status \in {"held", "failed", "corrected", "escalated"}
    BY <1>4, AgainFacts
  <2> QED BY <1>3, <2>1, <2>2
<1>5. CASE Anew
  <2>1. PICK reply, ex, text, t, e :
           /\ reply \in Reply
           /\ Passed(ex, text, t, TRUE) /\ ai' \in Metadata
           /\ Extends(t, audit, e) /\ e.action = "recovered"
    BY <1>5, AnewFacts
  <2>2. status \in {"held", "failed", "corrected", "escalated"} /\ e.action \in {"rerun", "recovered"}
    BY <1>5, <2>1, AnewFacts
  <2> QED BY <1>3, <2>1, <2>2
<1>6. CASE GivenUp
  <2>1. status' = "failed" /\ HasEvent(audit', "failed")
    BY <1>6, GivenUpFacts
  <2>2. CASE /\ status = "received"
             /\ \A a : HasEvent(audit', a) <=> a \in {"received", "parsed", "failed"}
    <3>1. /\ status' \in {"posted", "held", "failed"} /\ HasEvent(audit', status')
          /\ \A a : HasEvent(audit', a) =>
                  a \in {"received", "parsed", "extracted", "classified", "categorized", status'}
      BY <2>1, <2>2
    <3> QED BY <1>1, <3>1, CountedFirst
  <2>3. CASE /\ status = "failed" /\ Begins(audit', audit)
             /\ \A a : a \notin {"recovered", "failed"} =>
                          (HasEvent(audit', a) <=> HasEvent(audit, a))
    <3>1. Decisions(audit) = {} /\ HasEvent(audit', "posted") => status' = "posted"
      <4>1. Decisions(audit) = {} => ~HasEvent(audit, "posted")
        BY DEF Decisions, HasEvent
      <4> QED BY <2>3, <4>1
    <3>2. status # "received" /\ status # "posted" /\ status' # "posted"
      BY <2>1, <2>3
    <3> QED BY <1>1, <2>3, <3>1, <3>2, CountedLater
  <2> QED BY <1>6, <2>2, <2>3, GivenUpFacts
<1>7. CASE Noted
  <2>1. PICK e :
            /\ Extends(audit', audit, e) /\ Begins(audit', audit)
            /\ status # "received"
            /\ \A a : HasEvent(audit', a) <=> HasEvent(audit, a) \/ e.action = a
            /\ \/ status' = status /\ e.action \in {"reviewed", "note"}
               \/ /\ status' \in {"corrected", "escalated", "rejected"}
                  /\ e.action \in {"corrected", "escalated", "rejected"}
                  /\ status \in {"held", "failed", "corrected", "escalated"}
    BY <1>7, NotedFacts
  <2>2. status = "posted" =>
            status' = "posted" /\ HumanActions(audit') \intersect NeedsHuman \subseteq HumanActions(audit)
    <3> SUFFICES ASSUME status = "posted"
                 PROVE  status' = "posted" /\ HumanActions(audit') \intersect NeedsHuman \subseteq HumanActions(audit)
      OBVIOUS
    <3>1. status' = "posted" /\ e.action \in {"reviewed", "note"}
      BY <2>1
    <3>2. /\ DOMAIN audit' = DOMAIN audit \union {Len(audit) + 1}
          /\ \A n \in DOMAIN audit : audit'[n] = audit[n]
          /\ audit'[Len(audit) + 1].action \in {"reviewed", "note"}
      BY <2>1, <3>1 DEF Extends
    <3>3. HumanActions(audit') \intersect NeedsHuman \subseteq HumanActions(audit)
      BY <3>2 DEF HumanActions, NeedsHuman
    <3> QED BY <3>1, <3>3
  <2>3. HasEvent(audit', "posted") <=> HasEvent(audit, "posted")
    BY <2>1
  <2>4. Decisions(audit) = {} /\ HasEvent(audit', "posted") => status' = "posted"
    <3>1. Decisions(audit) = {} => ~HasEvent(audit, "posted")
      BY DEF Decisions, HasEvent
    <3> QED BY <2>3, <3>1
  <2>5. status' = "posted" => HasEvent(audit', "posted")
    BY <2>1, <2>3 DEF Counted
  <2> QED BY <1>1, <2>1, <2>2, <2>4, <2>5, CountedLater
<1> QED BY <1>2, <1>4, <1>5, <1>6, <1>7, NextCases

LEMMA CountedCorrections ==
  ASSUME IShape, Counted
  PROVE  CorrectionsAreCounted
<1>1. IsTrail(audit) /\ \A n \in DOMAIN audit : Readable(audit[n])
  BY DEF IShape, Legible
<1>2. CountedFalseSubmit(audit) =>
          Positions(audit, "failed") # {} /\
          Min(Positions(audit, "failed")) < Min(Decisions(audit))
  BY DEF Counted, HasEvent
<1>3. ASSUME status = "posted", Happened("corrected")
      PROVE  CountedHoldConfirmed(audit) \/ CountedFalseSubmit(audit)
  <2>1. PICK n \in DOMAIN audit : audit[n].action = "corrected" /\ audit[n].actor = "human"
    BY <1>1, <1>3 DEF Happened, HasEvent, Positions, Readable
  <2>2. "corrected" \in HumanActions(audit) \intersect NeedsHuman
    BY <2>1 DEF HumanActions, NeedsHuman
  <2>3. Decisions(audit) # {}
    BY <1>3 DEF Counted, HasEvent, Decisions
  <2>4. FirstDecision(audit) \in {"posted", "held"}
    BY <1>1, <2>3, FirstDecided
  <2> QED BY <2>2, <2>4 DEF CountedHoldConfirmed, CountedFalseSubmit
<1> QED BY <1>2, <1>3 DEF CorrectionsAreCounted

\* No correction of a filed row escapes the metrics: each counts as a hold that needed a
\* human, or as a false submit, and then a pass had failed before the item was decided.
THEOREM CorrectionsAreCountedTheorem == Spec => []CorrectionsAreCounted
<1>1. Init => Counted
  <2> SUFFICES ASSUME Init PROVE Counted
    OBVIOUS
  <2>1. \A a : ~HasEvent(audit, a)
    BY DEF Init, HasEvent, Positions
  <2>2. status = "received"
    BY DEF Init
  <2>3. ~CountedFalseSubmit(audit)
    BY <2>1, NobodyActed
  <2>4. FirstDecision(audit) # "posted"
    <3>1. IsTrail(audit)
      BY InitShape DEF IShape, Legible
    <3> QED BY <2>1, <3>1, FirstDecided
  <2> QED BY <2>2, <2>3, <2>4 DEF Counted
<1>2. IShape /\ Counted /\ [Next]_vars => Counted'
  <2> SUFFICES ASSUME IShape, Counted, [Next]_vars PROVE Counted'
    OBVIOUS
  <2>1. CASE Next
    BY <2>1, CountedStep
  <2>2. CASE UNCHANGED vars
    BY <2>2 DEF vars, Counted
  <2> QED BY <2>1, <2>2
<1>3. IShape /\ Counted => CorrectionsAreCounted
  BY CountedCorrections
<1> QED BY <1>1, <1>2, <1>3, InitShape, ShapeStep, PTL DEF Spec

-----------------------------------------------------------------------------
(* What the hub shows *)

\* Why an item is held, and how it failed last.
Explained ==
    /\ status = "held" =>
          /\ excs # {}
          /\ decision.confidence < 70 => excs \intersect LowConfidenceFlags # {}
    /\ status = "failed" =>
          /\ HasEvent(audit, "failed")
          /\ excs = {Latest(audit, "failed").kind}
          /\ Retryable(Latest(audit, "failed").kind)

LEMMA ExplainedStep ==
  ASSUME IShape, Explained, Next
  PROVE  Explained'
<1>1. CASE First \/ Again \/ Anew
  <2>1. PICK ex, text, t, guarded : Passed(ex, text, t, guarded) /\ ai' \in Metadata
    BY <1>1, PassSteps
  <2>2. /\ HasEvent(audit', status')
        /\ status' = "failed" =>
               /\ excs' = {Latest(audit', "failed").kind}
               /\ Retryable(Latest(audit', "failed").kind)
    BY <2>1, PassedStep
  <2>3. status' = "held" =>
          /\ excs' # {}
          /\ decision'.confidence < 70 => excs' \intersect LowConfidenceFlags # {}
    BY <2>1 DEF Passed, Settled
  <2> QED BY <2>2, <2>3 DEF Explained
<1>2. CASE GivenUp
  <2>1. /\ status' = "failed"
        /\ excs' = {Latest(audit', "failed").kind}
        /\ Retryable(Latest(audit', "failed").kind)
    BY <1>2, GivenUpStep
  <2>2. HasEvent(audit', "failed")
    BY <1>2, GivenUpFacts
  <2> QED BY <2>1, <2>2 DEF Explained
<1>3. CASE Noted
  <2>1. PICK e :
            /\ Extends(audit', audit, e)
            /\ UNCHANGED <<decision, excs>>
            /\ \A a : HasEvent(audit', a) <=> HasEvent(audit, a) \/ e.action = a
            /\ e.action \in {"reviewed", "note", "corrected", "escalated", "rejected"}
            /\ status' = status \/ status' \in {"corrected", "escalated", "rejected"}
    BY <1>3, NotedFacts
  <2>2. HasEvent(audit, "failed") => HasEvent(audit', "failed") /\ Latest(audit', "failed") = Latest(audit, "failed")
    <3>1. e.action # "failed"
      BY <2>1
    <3> QED BY <2>1, <3>1, LatestOfMore
  <2>3. CASE status' = status
    BY <2>1, <2>2, <2>3 DEF Explained
  <2>4. CASE status' \in {"corrected", "escalated", "rejected"}
    BY <2>4 DEF Explained
  <2> QED BY <2>1, <2>3, <2>4
<1> QED BY <1>1, <1>2, <1>3, NextCases

\* The failures of a trace are the failed events of the trail.
LEMMA TraceFailures ==
  ASSUME IShape
  PROVE  {n \in DOMAIN Trace : Trace[n].kind # NoValue} = Positions(audit, "failed")
<1>1. DOMAIN Trace = DOMAIN audit
  BY DEF Trace
<1>2. \A n \in DOMAIN audit :
         Trace[n].kind = IF audit[n].action # "failed" THEN NoValue ELSE audit[n].kind
  BY DEF Trace
<1>3. \A n \in DOMAIN audit : audit[n].action = "failed" => Retryable(audit[n].kind)
  BY DEF IShape, Legible, Readable
<1>4. ~Retryable(NoValue)
  BY HubAssumption DEF ExceptionType, Retryable
<1>5. \A n \in DOMAIN audit : Trace[n].kind # NoValue <=> audit[n].action = "failed"
  BY <1>2, <1>3, <1>4, Zenon
<1> QED BY <1>1, <1>5 DEF Positions

LEMMA ViewsAgree ==
  ASSUME IShape, Stuck, FiledRow, Explained
  PROVE  HubAgrees
<1>1. ASSUME Queued
      PROVE  /\ Reason \in CountedUnder
             /\ "needs_review" \in SummaryRow.tags
             /\ decision.confidence < 70 => "low_confidence" \in SummaryRow.tags
  <2>1. status = "held" /\ excs # {}
    BY <1>1 DEF Queued, Explained
  <2>2. Reason \in CountedUnder
    BY <1>1, <2>1 DEF Reason, CountedUnder
  <2>3. SummaryRow.tags = FilterTags
    BY DEF SummaryRow
  <2>4. "needs_review" \in FilterTags
    BY <2>1 DEF FilterTags, When
  <2>5. decision.confidence < 70 => "low_confidence" \in FilterTags
    BY <2>1 DEF FilterTags, When, Explained
  <2> QED BY <2>2, <2>3, <2>4, <2>5
<1>2. ASSUME status = "failed"
      PROVE  LET failures == {n \in DOMAIN Trace : Trace[n].kind # NoValue} IN
             /\ Trace[Max(failures)].retryable
             /\ excs = {Trace[Max(failures)].kind}
             /\ "retry" \in Detail.allowed
  <2>1. PICK F : F = Positions(audit, "failed")
    OBVIOUS
  <2>2. {n \in DOMAIN Trace : Trace[n].kind # NoValue} = F
    BY <2>1, TraceFailures
  <2>3. /\ F # {} /\ excs = {Latest(audit, "failed").kind}
        /\ Retryable(Latest(audit, "failed").kind)
    BY <1>2, <2>1 DEF Explained, HasEvent
  <2>4. /\ Len(audit) \in Nat /\ F \subseteq 1..Len(audit)
    BY <2>1, TrailDomain DEF IShape, Legible, Positions
  <2>5. PICK m \in F : m = Max(F)
    <3>1. \A y \in F : y \in Nat /\ y <= Len(audit)
      BY <2>4
    <3> QED BY <2>3, <2>4, <3>1, MaxIsGreatest
  <2>6. m \in DOMAIN audit /\ audit[m].action = "failed"
    BY <2>1, <2>5 DEF Positions
  <2>7. Latest(audit, "failed") = audit[m]
    BY <2>1, <2>5, Zenon DEF Latest
  <2>8. Trace[m].kind = audit[m].kind
    BY <2>6 DEF Trace
  <2>9. Trace[m].retryable
    <3>1. Trace[m].retryable <=> Retryable(audit[m].kind)
      BY <2>6 DEF Trace
    <3> QED BY <2>3, <2>7, <3>1
  <2>10. excs = {Trace[m].kind}
    BY <2>3, <2>7, <2>8
  <2>11. "retry" \in Detail.allowed
    <3>1. IsAllowed("retry", status)
      BY <1>2 DEF IsAllowed, AllowedFrom, RetryFrom
    <3> QED BY <3>1 DEF Detail
  <2> QED BY <2>2, <2>5, <2>9, <2>10, <2>11
<1>3. ASSUME status = "posted", Happened("extracted")
      PROVE  /\ Listable
             /\ SummaryRow.metadata = row.meta
             /\ row.category = IF Detail.corrections.category # NoValue
                               THEN Detail.corrections.category ELSE Detail.category
  <2>1. /\ HasEvent(audit, "categorized")
        /\ row.meta = meta
        /\ row.category = IF CategoryOverlay(audit) # NoValue THEN CategoryOverlay(audit)
                          ELSE Latest(audit, "categorized").category
        /\ \A f \in Overridden(audit) : meta[f] = MetadataOverlay(audit)[f]
    BY <1>3 DEF FiledRow
  <2>2. Listable
    BY <1>3 DEF Stuck, Listable
  <2>3. EffectiveMetadata(meta, audit) = meta
    <3>1. meta = [f \in Field |-> meta[f]]
      BY DEF IShape, TypeOK, Metadata
    <3>2. \A f \in Field : EffectiveMetadata(meta, audit)[f] = meta[f]
      BY <2>1 DEF EffectiveMetadata
    <3>3. EffectiveMetadata(meta, audit) = [f \in Field |-> meta[f]]
      BY <3>2 DEF EffectiveMetadata
    <3> QED BY <3>1, <3>3
  <2>4. SummaryRow.metadata = row.meta
    BY <2>1, <2>3 DEF SummaryRow
  <2>5. /\ Detail.corrections.category = CategoryOverlay(audit)
        /\ Detail.category = Latest(audit, "categorized").category
    BY <2>1 DEF Detail
  <2> QED BY <2>1, <2>2, <2>4, <2>5
<1> QED BY <1>1, <1>2, <1>3 DEF HubAgrees

\* The hub's views agree with each other and with the ledger after any passes and
\* corrections: a held item has a reason that is counted, a failed one can be retried
\* and shows the failure that its trace ends with, and a filed one is listed with the
\* values and the category of its row.
THEOREM HubAgreesTheorem == Spec => []HubAgrees
<1>1. Init => Stuck /\ Explained
  <2> SUFFICES ASSUME Init PROVE Stuck /\ Explained
    OBVIOUS
  <2>1. \A a : HasEvent(audit, a) => a # "corrected"
    BY DEF Init, HasEvent, Positions
  <2>2. status = "received"
    BY DEF Init
  <2> QED BY <2>1, <2>2, NothingTypedYet DEF Stuck, Explained
<1>2. IShape /\ Stuck /\ Explained /\ [Next]_vars => Stuck' /\ Explained'
  <2> SUFFICES ASSUME IShape, Stuck, Explained, [Next]_vars PROVE Stuck' /\ Explained'
    OBVIOUS
  <2>1. CASE Next
    BY <2>1, StuckStep, ExplainedStep
  <2>2. CASE UNCHANGED vars
    BY <2>2 DEF vars, Stuck, Explained
  <2> QED BY <2>1, <2>2
<1>3. IShape /\ Stuck /\ FiledRow /\ Explained => HubAgrees
  BY ViewsAgree
<1> QED BY <1>1, <1>2, <1>3, ValuesInit, ValuesStep, PTL DEF Spec
=============================================================================
