--------------------------- MODULE MCOrchestrator ---------------------------
(***************************************************************************)
(* Small instances of Orchestrator for TLC.                                *)
(***************************************************************************)
EXTENDS Orchestrator, TLC

\* Two items are taken for one transaction exactly when their metadata agree.
SameMetadata == {<<m, m>> : m \in Meta}

\* Items and threads are interchangeable: no definition names one of them.
Symmetry == Permutations(Item) \union Permutations(Worker)
=============================================================================
