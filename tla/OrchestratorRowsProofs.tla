------------------------ MODULE OrchestratorRowsProofs ------------------------
(***************************************************************************)
(* How many rows one item can have in the Sheet, and that the pipeline     *)
(* implements the abstract specification of filing, for any number of      *)
(* threads, items, attempts and faults.                                    *)
(***************************************************************************)
EXTENDS OrchestratorProofs

\* The workers that have written a row of the item and not yet recorded it.
Recording(i) == {w \in Worker : job[w].item = i /\ At(w, "record")}

\* The workers about to write a row of the item.
Appending(i) == {w \in Worker : job[w].item = i /\ At(w, "append")}

\* Who accounts for each row.  Before the first row is recorded: a worker that
\* will record it, or a fault.  After: a fault, or a worker, and a worker about
\* to write has not had its turn; the ledger lets no other one begin.
Accounted(i) ==
    IF appends[i] = 0
    THEN Len(sheet[i]) <= faults + Cardinality(Recording(i))
    ELSE Len(sheet[i]) + Cardinality(Appending(i)) <= faults + Cardinality(Worker)

RowsAccounted == \A i \in Item : Accounted(i)

IRows == IRecorded /\ RowsAccounted

-----------------------------------------------------------------------------

LEMMA CardinalityFacts ==
  ASSUME NEW i
  PROVE  /\ Recording(i) \in SUBSET Worker /\ IsFiniteSet(Recording(i))
         /\ Appending(i) \in SUBSET Worker /\ IsFiniteSet(Appending(i))
         /\ Cardinality(Recording(i)) \in Nat
         /\ Cardinality(Appending(i)) \in Nat
         /\ Cardinality(Worker) \in Nat
         /\ Cardinality(Recording(i)) + Cardinality(Appending(i)) <= Cardinality(Worker)
<1>1. /\ Recording(i) \in SUBSET Worker
      /\ Appending(i) \in SUBSET Worker
      /\ Recording(i) \intersect Appending(i) = {}
  BY DEF Recording, Appending, At
<1>2. IsFiniteSet(Worker)
  BY ConstantsAssumption
<1>3. IsFiniteSet(Recording(i)) /\ IsFiniteSet(Appending(i))
  BY <1>1, <1>2, FS_Subset
<1>4. /\ IsFiniteSet(Recording(i) \union Appending(i))
      /\ Cardinality(Recording(i) \union Appending(i))
           = Cardinality(Recording(i)) + Cardinality(Appending(i))
             - Cardinality(Recording(i) \intersect Appending(i))
  BY <1>3, FS_Union
<1>5. Cardinality(Recording(i) \intersect Appending(i)) = 0
  BY <1>1, FS_EmptySet
<1>6. Cardinality(Recording(i) \union Appending(i)) <= Cardinality(Worker)
  <2>1. Recording(i) \union Appending(i) \in SUBSET Worker
    BY <1>1
  <2> QED BY <2>1, <1>2, FS_Subset
<1>7. /\ Cardinality(Recording(i)) \in Nat
      /\ Cardinality(Appending(i)) \in Nat
      /\ Cardinality(Worker) \in Nat
  BY <1>2, <1>3, FS_CardinalityType
<1> QED BY <1>1, <1>3, <1>4, <1>5, <1>6, <1>7

\* A worker in a set of workers leaves it, or one outside joins it.
LEMMA RemoveWorker ==
  ASSUME NEW S \in SUBSET Worker, NEW w
  PROVE  /\ Cardinality(S) \in Nat /\ Cardinality(S \ {w}) \in Nat
         /\ Cardinality(S \ {w}) = IF w \in S THEN Cardinality(S) - 1 ELSE Cardinality(S)
<1>1. IsFiniteSet(S)
  BY ConstantsAssumption, FS_Subset
<1> QED BY <1>1, FS_RemoveElement, FS_CardinalityType

LEMMA AddWorker ==
  ASSUME NEW S \in SUBSET Worker, NEW w
  PROVE  /\ Cardinality(S) \in Nat
         /\ Cardinality(S \union {w}) = IF w \in S THEN Cardinality(S) ELSE Cardinality(S) + 1
<1>1. IsFiniteSet(S)
  BY ConstantsAssumption, FS_Subset
<1> QED BY <1>1, FS_AddElement, FS_CardinalityType

-----------------------------------------------------------------------------

LEMMA RowsInit == Init => IRows
<1> SUFFICES ASSUME Init PROVE IRows
  OBVIOUS
<1>1. RowsAccounted
  <2> SUFFICES ASSUME NEW i \in Item
               PROVE  appends[i] = 0 /\ Len(sheet[i]) = 0 /\ faults = 0
    BY CardinalityFacts DEF RowsAccounted, Accounted
  <2> QED BY DEF Init
<1> QED BY <1>1, RecordedInit DEF IRows

LEMMA RowsStep ==
  ASSUME IRows, [Next]_vars
  PROVE  IRows'
<1> USE DEF At
<1>r. IRecorded /\ IRecorded'
  BY RecordedStep DEF IRows
<1>t. IType /\ IType'
  BY <1>r DEF IRecorded
<1>y. /\ \A v \in Worker : job[v] \in Job /\ (job[v].pc # "idle" => job[v].item \in Item)
      /\ appends \in [Item -> Nat] /\ sheet \in [Item -> Seq(AnyMeta)]
      /\ job \in [Worker -> Job] /\ faults \in Nat /\ faults' \in Nat
      /\ \A i \in Item : Len(sheet[i]) \in Nat /\ Len(sheet'[i]) \in Nat
      /\ \A i \in Item : appends[i] \in Nat /\ appends'[i] \in Nat
  BY <1>t, ConstantsAssumption DEF IType, TypeOK, WellFormed
<1> SUFFICES RowsAccounted'
  BY <1>r DEF IRows
<1>0. CASE UNCHANGED vars
  BY <1>0 DEF IRows, RowsAccounted, Accounted, Recording, Appending, vars
<1>1. ASSUME NEW w \in Worker, Quiet(w), NEW i \in Item
      PROVE  Accounted(i)'
  <2>1. Recording(i)' = Recording(i) \ {w} /\ Appending(i)' = Appending(i) \ {w}
    BY <1>1, <1>y DEF Quiet, Recording, Appending
  <2>2. /\ appends' = appends /\ sheet' = sheet
        /\ w \in Recording(i) => faults' = faults + 1
        /\ faults' >= faults
    BY <1>1, <1>y DEF Quiet, Recording
  <2>3. CASE appends[i] = 0
    <3>1. Len(sheet[i]) <= faults + Cardinality(Recording(i))
      BY <2>3 DEF IRows, RowsAccounted, Accounted
    <3>2. Cardinality(Recording(i)') =
             IF w \in Recording(i) THEN Cardinality(Recording(i)) - 1
                                   ELSE Cardinality(Recording(i))
      BY <2>1, RemoveWorker, CardinalityFacts
    <3>3. Len(sheet'[i]) <= faults' + Cardinality(Recording(i)')
      BY <3>1, <3>2, <2>2, <1>y, CardinalityFacts
    <3> QED BY <3>3, <2>2, <2>3 DEF Accounted
  <2>4. CASE appends[i] # 0
    <3>1. Len(sheet[i]) + Cardinality(Appending(i)) <= faults + Cardinality(Worker)
      BY <2>4 DEF IRows, RowsAccounted, Accounted
    <3>2. /\ Cardinality(Appending(i)') \in Nat
          /\ Cardinality(Appending(i)') <= Cardinality(Appending(i))
      BY <2>1, RemoveWorker, CardinalityFacts
    <3>3. Len(sheet'[i]) + Cardinality(Appending(i)') <= faults' + Cardinality(Worker)
      BY <3>1, <3>2, <2>2, <1>y, CardinalityFacts
    <3> QED BY <3>3, <2>2, <2>4 DEF Accounted
  <2> QED BY <2>3, <2>4
<1>2. ASSUME NEW w \in Worker, CheckLedger(w), NEW i \in Item
      PROVE  Accounted(i)'
  <2>1. /\ job' = [job EXCEPT ![w].pc = IF IsAppended(job[w].item) THEN "post" ELSE "append"]
        /\ UNCHANGED <<appends, sheet, faults>>
        /\ job[w].pc = "ledger"
    BY <1>2 DEF CheckLedger, Local, Goto, tables
  <2>2. Recording(i)' = Recording(i)
    BY <2>1, <1>y DEF Recording, Job
  <2>3. appends[i] # 0 => Appending(i)' = Appending(i)
    BY <2>1, <1>y DEF Appending, IsAppended, Job
  <2> QED BY <2>1, <2>2, <2>3 DEF IRows, RowsAccounted, Accounted
<1>3. ASSUME NEW w \in Worker, AppendRow(w), NEW i \in Item
      PROVE  Accounted(i)'
  <2> DEFINE k == job[w].item
  <2>1. /\ k \in Item /\ job[w].pc = "append"
        /\ sheet' = [sheet EXCEPT ![k] = Append(@, job[w].inv.meta)]
        /\ UNCHANGED appends
    BY <1>3, <1>y DEF AppendRow, NewRow, tables
  <2>2. /\ \A v \in Worker \ {w} : job'[v] = job[v]
        /\ \/ /\ job'[w].pc = "record" /\ job'[w].item = k
              /\ faults' = faults
           \/ /\ job'[w].pc \notin {"append", "record"}
              /\ faults' = faults + 1
    <3>1. AppendError(job[w]).pc \notin {"append", "record"}
      BY <1>y DEF AppendError, FailWith, Job
    <3>2. Raised(job[w]).pc \notin {"append", "record"}
      BY <1>y, RaisedQuiet
    <3>3. CASE /\ Goto(w, [job[w] EXCEPT !.pc = "record", !.ref = Len(sheet[k]) + 1])
               /\ UNCHANGED faults
      <4>1. job'[w] = [job[w] EXCEPT !.pc = "record", !.ref = Len(sheet[k]) + 1]
        BY <3>3, <1>y DEF Goto
      <4>2. job'[w].pc = "record" /\ job'[w].item = k
        BY <4>1, <1>y DEF Job
      <4> QED BY <3>3, <4>2, <1>y DEF Goto
    <3>4. CASE Goto(w, AppendError(job[w])) /\ Fault
      BY <3>1, <3>4, <1>y DEF Goto, Fault
    <3>5. CASE Goto(w, Raised(job[w])) /\ Fault
      BY <3>2, <3>5, <1>y DEF Goto, Fault
    <3> QED BY <1>3, <3>3, <3>4, <3>5 DEF AppendRow
  <2>3. CASE i # k
    <3>1. Recording(i)' = Recording(i) /\ Appending(i)' = Appending(i) /\ sheet'[i] = sheet[i]
      BY <2>1, <2>2, <2>3, <1>y DEF Recording, Appending
    <3> QED BY <3>1, <2>1, <2>2, <1>y, CardinalityFacts DEF IRows, RowsAccounted, Accounted
  <2>4. CASE i = k
    <3>1. Len(sheet'[i]) = Len(sheet[i]) + 1
      BY <2>1, <2>4, <1>y DEF Job
    <3>2. /\ Appending(i)' = Appending(i) \ {w} /\ w \in Appending(i)
          /\ w \notin Recording(i)
      BY <2>1, <2>2, <2>4, <1>y DEF Appending, Recording
    <3>3. \/ Recording(i)' = Recording(i) \union {w} /\ faults' = faults
          \/ Recording(i)' = Recording(i) /\ faults' = faults + 1
      BY <2>1, <2>2, <2>4, <1>y DEF Recording
    <3>4. CASE appends[i] = 0
      <4>1. Len(sheet[i]) <= faults + Cardinality(Recording(i))
        BY <3>4 DEF IRows, RowsAccounted, Accounted
      <4>2. \/ /\ Cardinality(Recording(i)') = Cardinality(Recording(i)) + 1
               /\ faults' = faults
            \/ /\ Cardinality(Recording(i)') = Cardinality(Recording(i))
               /\ faults' = faults + 1
        BY <3>2, <3>3, AddWorker, CardinalityFacts
      <4>3. Len(sheet'[i]) <= faults' + Cardinality(Recording(i)')
        BY <4>1, <4>2, <3>1, <1>y, CardinalityFacts
      <4> QED BY <4>3, <3>4, <2>1 DEF Accounted
    <3>5. CASE appends[i] # 0
      <4>1. Cardinality(Appending(i)') = Cardinality(Appending(i)) - 1
        BY <3>2, RemoveWorker, CardinalityFacts
      <4>2. Len(sheet[i]) + Cardinality(Appending(i)) <= faults + Cardinality(Worker)
        BY <3>5 DEF IRows, RowsAccounted, Accounted
      <4>3. faults' >= faults
        BY <3>3, <1>y
      <4>4. Len(sheet'[i]) + Cardinality(Appending(i)') <= faults' + Cardinality(Worker)
        BY <4>1, <4>2, <4>3, <3>1, <1>y, CardinalityFacts
      <4> QED BY <4>4, <3>5, <2>1 DEF Accounted
    <3> QED BY <3>4, <3>5
  <2> QED BY <2>3, <2>4
<1>4. ASSUME NEW w \in Worker, RecordAppend(w), NEW i \in Item
      PROVE  Accounted(i)'
  <2> DEFINE k == job[w].item
  <2>1. /\ k \in Item /\ job[w].pc = "record"
        /\ appends' = [appends EXCEPT ![k] = FirstRef(@, job[w].ref)]
        /\ UNCHANGED sheet
    BY <1>4, <1>y DEF RecordAppend
  <2>2. \A v \in Worker : job'[v].pc \in {"append", "record"} => job'[v] = job[v] /\ v # w
    <3>1. Raised(job[w]).pc \notin {"append", "record"}
      BY <1>y, RaisedQuiet
    <3>2. [job[w] EXCEPT !.pc = "post"].pc = "post"
      BY <1>y DEF Job
    <3> QED BY <1>4, <1>y, <3>1, <3>2 DEF RecordAppend, Commit, Goto
  <2>3. faults' >= faults /\ \A v \in Worker \ {w} : job'[v] = job[v]
    BY <1>4, <1>y DEF RecordAppend, Commit, Goto, Fault
  <2>4. Appending(i)' = Appending(i)
    BY <2>1, <2>2, <2>3 DEF Appending
  <2>5. CASE i # k
    <3>1. Recording(i)' = Recording(i) /\ appends'[i] = appends[i]
      BY <2>1, <2>2, <2>3, <2>5, <1>y DEF Recording
    <3>2. sheet'[i] = sheet[i] /\ Accounted(i)
      BY <2>1 DEF IRows, RowsAccounted
    <3>3. /\ Len(sheet[i]) \in Nat /\ faults \in Nat /\ faults' \in Nat
          /\ Cardinality(Recording(i)) \in Nat /\ Cardinality(Appending(i)) \in Nat
          /\ Cardinality(Worker) \in Nat
      BY <1>y, CardinalityFacts
    <3> QED BY <3>1, <3>2, <3>3, <2>3, <2>4 DEF Accounted
  <2>6. CASE i = k
    <3>1. job[w].ref \in 1..Len(sheet[k])
      BY <2>1, <1>r DEF IRecorded, ReferencesExist
    <3>2. appends'[i] # 0
      BY <3>1, <2>1, <2>6, <1>y DEF FirstRef
    <3>3. Len(sheet[i]) + Cardinality(Appending(i)) <= faults + Cardinality(Worker)
      BY <1>y, CardinalityFacts DEF IRows, RowsAccounted, Accounted
    <3>4. Len(sheet'[i]) + Cardinality(Appending(i)') <= faults' + Cardinality(Worker)
      BY <3>3, <2>1, <2>3, <2>4, <1>y, CardinalityFacts
    <3> QED BY <3>2, <3>4 DEF Accounted
  <2> QED BY <2>5, <2>6
<1>5. ASSUME NEW w \in Worker, Post(w), NEW i \in Item
      PROVE  Accounted(i)'
  <2>1. \A v \in Worker : job'[v].pc \in {"append", "record"} => job'[v] = job[v] /\ v # w
    <3>1. Raised(job[w]).pc \notin {"append", "record"}
      BY <1>y, RaisedQuiet
    <3> QED BY <1>5, <1>y, <3>1 DEF Post, Commit, Goto, NoJob
  <2>2. /\ faults' >= faults /\ \A v \in Worker \ {w} : job'[v] = job[v]
        /\ job[w].pc = "post" /\ UNCHANGED <<appends, sheet>>
    BY <1>5, <1>y DEF Post, Commit, Goto, Fault
  <2>3. Appending(i)' = Appending(i) /\ Recording(i)' = Recording(i)
    BY <2>1, <2>2 DEF Appending, Recording
  <2> QED BY <2>2, <2>3, <1>y, CardinalityFacts DEF IRows, RowsAccounted, Accounted
<1> QED
  <2>1. CASE Next
    <3>1. PICK w \in Worker :
             Quiet(w) \/ CheckLedger(w) \/ AppendRow(w) \/ RecordAppend(w) \/ Post(w)
      BY <1>t, <2>1, StepKinds
    <3> QED BY <3>1, <1>1, <1>2, <1>3, <1>4, <1>5 DEF RowsAccounted
  <2> QED BY <2>1, <1>0

\* However often an item is rerun, retried and failed, its rows in the Sheet are
\* at most one per thread and one per fault: a thread appends only while
\* sheet_appends does not know the item (append_filed_row), and one that has
\* appended records before it can begin again.
THEOREM RowsBoundedTheorem == Spec => []RowsBounded
<1>1. IRows => RowsBounded
  <2> SUFFICES ASSUME IRows, NEW i \in Item
               PROVE  Len(sheet[i]) <= Cardinality(Worker) + faults
    BY DEF RowsBounded
  <2>1. Len(sheet[i]) \in Nat /\ faults \in Nat
    BY ConstantsAssumption DEF IRows, IRecorded, IType, TypeOK
  <2> QED BY <2>1, CardinalityFacts DEF IRows, RowsAccounted, Accounted
<1> QED BY <1>1, RowsInit, RowsStep, PTL DEF Spec

-----------------------------------------------------------------------------
(* The pipeline implements module Filing: initial states map to initial states, *)
(* and every step maps to one of Filing or changes nothing that Filing sees.    *)

\* What Filing sees of a state.
Rows == [i \in Item |-> Len(sheet[i])]
Shown == [i \in Item |-> row[i].status = "posted"]

LEMMA FilingInit == Init => Filed!Init
<1> SUFFICES ASSUME Init PROVE Filed!Init
  OBVIOUS
<1>1. \A i \in Item : Len(sheet[i]) = 0 /\ (row[i].status = "posted") = FALSE
  BY DEF Init
<1>2. [i \in Item |-> Len(sheet[i])] = [i \in Item |-> 0]
  BY <1>1
<1>3. [i \in Item |-> row[i].status = "posted"] = [i \in Item |-> FALSE]
  BY <1>1
<1> QED BY <1>2, <1>3 DEF Init, Filed!Init

\* A step changes the stored row of one item at most.
LEMMA OneItem ==
  ASSUME IType, Next
  PROVE  \E i \in Item : \A k \in Item \ {i} : row'[k] = row[k]
<1>1. PICK w \in Worker :
        \/ Step(w)
        \/ \E i \in Item :
              \/ Receive(w, i)
              \/ \E op \in {"rerun", "retry"} : RequestPass(w, i, op)
              \/ \E op \in Edit : RequestEdit(w, i, op)
        \/ Crash(w)
        \/ DatabaseError(w)
  BY DEF Next
<1>2. CASE Step(w)
  <2>1. job[w].pc # "idle" => job[w].item \in Item
    BY DEF IType, WellFormed
  <2>2. job[w].pc # "idle" /\ (row' = row \/ \E s : row' = Save(job[w], s))
    <3>1. CASE Parse(w) \/ StoreExtraction(w) \/ Restart(w) \/ Classify(w) \/ Categorize(w)
               \/ Hold(w) \/ Fail(w) \/ Post(w) \/ Apply(w)
      BY <3>1 DEF Parse, StoreExtraction, Restart, Classify, Categorize, Hold, Fail, Post,
                  Apply, At
    <3>2. CASE Extract(w) \/ ExtractFails(w) \/ Load(w) \/ ReadAudit(w) \/ Reconstruct(w)
               \/ ReExtract(w) \/ Decide(w) \/ CheckDuplicates(w) \/ StageRaises(w)
      BY <3>2 DEF Extract, ExtractFails, Load, ReadAudit, Reconstruct, ReExtract, Decide,
                  CheckDuplicates, StageRaises, At, Local, tables
    <3>3. CASE CheckLedger(w) \/ AppendRow(w) \/ AppendRefused(w) \/ RecordAppend(w)
      BY <3>3 DEF CheckLedger, AppendRow, AppendRefused, RecordAppend, At, Local, tables
    <3> QED BY <1>2, <3>1, <3>2, <3>3 DEF Step
  <2>3. \A k \in Item \ {job[w].item} : row'[k] = row[k]
    BY <2>2 DEF Save, IType, TypeOK
  <2> QED BY <2>1, <2>2, <2>3
<1>3. ASSUME NEW i \in Item,
             \/ Receive(w, i)
             \/ \E op \in {"rerun", "retry"} : RequestPass(w, i, op)
             \/ \E op \in Edit : RequestEdit(w, i, op)
      PROVE  \A k \in Item \ {i} : row'[k] = row[k]
  BY <1>3 DEF Receive, RequestPass, RequestEdit, Local, tables, IType, TypeOK
<1>4. CASE Crash(w) \/ DatabaseError(w)
  <2>1. job[w].pc # "idle" /\ row' = row
    BY <1>4 DEF Crash, DatabaseError, tables, At
  <2> QED BY <2>1 DEF IType, WellFormed
<1> QED BY <1>1, <1>2, <1>3, <1>4

\* A step that leaves the Sheet and the ledger alone and posts nothing that is not in
\* the ledger is one that marks an item, takes a mark away, or is not seen.
LEMMA MarkStep ==
  ASSUME UNCHANGED <<appends, sheet>>,
         NEW i \in Item, \A k \in Item \ {i} : row'[k] = row[k],
         row'[i].status = "posted" => row[i].status = "posted" \/ appends[i] # 0
  PROVE  [Filed!Next]_(Filed!vars)
<1>1. Rows' = Rows /\ appends' = appends
  BY DEF Rows
<1>2. \A k \in Item : k # i => Shown'[k] = Shown[k]
  BY DEF Shown
<1>3. Shown' = [Shown EXCEPT ![i] = Shown'[i]]
  BY <1>2 DEF Shown
<1>4. Shown'[i] \in BOOLEAN /\ Shown[i] \in BOOLEAN
  BY DEF Shown
<1>5. Shown \in [Item -> BOOLEAN]
  BY DEF Shown
<1>6. CASE Shown'[i] = Shown[i]
  <2>1. Shown' = Shown
    BY <1>3, <1>5, <1>6
  <2> QED BY <1>1, <2>1 DEF Filed!vars, Rows, Shown
<1>7. CASE Shown'[i] = FALSE
  <2>1. Shown' = [Shown EXCEPT ![i] = FALSE]
    BY <1>3, <1>7
  <2>2. Filed!Unmark(i)
    BY <1>1, <2>1 DEF Filed!Unmark, Rows, Shown
  <2> QED BY <2>2 DEF Filed!Next
<1>8. CASE Shown'[i] = TRUE /\ Shown[i] = FALSE
  <2>1. appends[i] # 0
    BY <1>8 DEF Shown
  <2>2. Shown' = [Shown EXCEPT ![i] = TRUE]
    BY <1>3, <1>8
  <2>3. Filed!MarkPosted(i)
    BY <1>1, <2>1, <2>2 DEF Filed!MarkPosted, Rows, Shown
  <2> QED BY <2>3 DEF Filed!Next
<1> QED BY <1>4, <1>6, <1>7, <1>8

LEMMA FilingStep ==
  ASSUME IRecorded, [Next]_vars
  PROVE  [Filed!Next]_(Filed!vars)
<1> USE DEF At
<1>t. IType
  BY DEF IRecorded
<1>y. /\ \A v \in Worker : job[v] \in Job /\ (job[v].pc # "idle" => job[v].item \in Item)
      /\ appends \in [Item -> Nat] /\ sheet \in [Item -> Seq(AnyMeta)]
      /\ row \in [Item -> Invoice]
  BY <1>t DEF IType, TypeOK, WellFormed
<1>0. CASE UNCHANGED vars
  BY <1>0 DEF vars, Filed!vars
<1>1. ASSUME Next, NEW w \in Worker, Quiet(w) \/ CheckLedger(w)
      PROVE  [Filed!Next]_(Filed!vars)
  <2>1. PICK i \in Item : \A k \in Item \ {i} : row'[k] = row[k]
    BY <1>1, <1>t, OneItem
  <2>2. UNCHANGED <<appends, sheet>>
    BY <1>1 DEF Quiet, CheckLedger, Local, tables
  <2>3. row'[i].status = "posted" => row[i].status = "posted"
    BY <1>1 DEF Quiet, CheckLedger, Local, tables
  <2> QED BY <2>1, <2>2, <2>3, MarkStep
<1>2. ASSUME NEW w \in Worker, AppendRow(w)
      PROVE  [Filed!Next]_(Filed!vars)
  <2>k. PICK k \in Item : k = job[w].item
    BY <1>2, <1>y DEF AppendRow
  <2>1. /\ k \in Item
        /\ sheet' = [sheet EXCEPT ![k] = Append(@, job[w].inv.meta)]
        /\ UNCHANGED <<row, appends>>
    BY <1>2, <2>k DEF AppendRow, NewRow, tables
  <2>2. \A i \in Item : Len(sheet'[i]) = IF i = k THEN Len(sheet[i]) + 1 ELSE Len(sheet[i])
    BY <2>1, <1>y DEF Job
  <2>3. Rows' = [Rows EXCEPT ![k] = @ + 1]
    BY <2>1, <2>2 DEF Rows
  <2>4. Filed!WriteRow(k)
    BY <2>1, <2>3 DEF Filed!WriteRow, Rows
  <2> QED BY <2>4 DEF Filed!Next
<1>3. ASSUME NEW w \in Worker, RecordAppend(w)
      PROVE  [Filed!Next]_(Filed!vars)
  <2>k. PICK k \in Item, ref \in Nat : k = job[w].item /\ ref = job[w].ref
    BY <1>3, <1>y DEF RecordAppend, Job
  <2>1. /\ k \in Item
        /\ appends' = [appends EXCEPT ![k] = FirstRef(@, ref)]
        /\ UNCHANGED <<row, sheet>>
    BY <1>3, <2>k DEF RecordAppend
  <2>2. ref \in 1..Len(sheet[k])
    BY <1>3, <2>k DEF RecordAppend, IRecorded, ReferencesExist
  <2>3. CASE appends[k] # 0
    <3>1. appends' = appends
      BY <2>1, <2>3, <1>y DEF FirstRef
    <3> QED BY <2>1, <3>1 DEF Filed!vars
  <2>4. CASE appends[k] = 0
    <3>1. appends' = [appends EXCEPT ![k] = ref]
      BY <2>1, <2>4, <1>y DEF FirstRef
    <3>2. Rows[k] = Len(sheet[k]) /\ Rows' = Rows /\ Shown' = Shown
      BY <2>1 DEF Rows, Shown
    <3>3. Filed!RecordRow(k)
      BY <2>2, <2>4, <3>1, <3>2 DEF Filed!RecordRow, Rows, Shown
    <3> QED BY <3>3 DEF Filed!Next
  <2> QED BY <2>3, <2>4
<1>4. ASSUME NEW w \in Worker, Post(w)
      PROVE  [Filed!Next]_(Filed!vars)
  <2> DEFINE k == job[w].item
  <2>1. /\ k \in Item
        /\ row' = Save(job[w], "posted")
        /\ UNCHANGED <<appends, sheet>>
        /\ appends[k] # 0
    BY <1>4, <1>y DEF Post, IRecorded, ReferencesExist
  <2>2. \A i \in Item \ {k} : row'[i] = row[i]
    BY <2>1, <1>y DEF Save
  <2> QED BY <2>1, <2>2, MarkStep
<1> QED
  <2>1. CASE Next
    BY <1>t, <2>1, <1>1, <1>2, <1>3, <1>4, StepKinds
  <2> QED BY <2>1, <1>0

\* For any number of items, threads and faults: the pipeline implements Filing.  A row
\* is written before the ledger refers to it, the reference never changes, and an item
\* is posted only after that.
THEOREM FilingRefinement == Spec => FilingSpec
<1>1. Init => Filed!Init
  BY FilingInit
<1>2. IRecorded /\ [Next]_vars => [Filed!Next]_(Filed!vars)
  BY FilingStep
<1> QED BY <1>1, <1>2, RecordedInit, RecordedStep, PTL DEF Spec, FilingSpec, Filed!Spec
=============================================================================
