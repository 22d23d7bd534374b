-------------------------- MODULE OrchestratorProofs --------------------------
(***************************************************************************)
(* Theorems about Orchestrator for any items, threads, metadata, retry     *)
(* attempts and bound on the faults.                                       *)
(***************************************************************************)
EXTENDS Orchestrator, FiniteSetTheorems, TLAPS

-----------------------------------------------------------------------------
(* Types *)

\* A job that has an item whenever it is doing something, and applies an action
\* only when it has accepted one.
WellFormed(j) ==
    /\ j \in Job
    /\ j.pc # "idle" => j.item \in Item
    /\ j.pc = "edit" => j.op \in Edit

IType == TypeOK /\ \A w \in Worker : WellFormed(job[w])

LEMMA NoJobType == WellFormed(NoJob)
BY ConstantsAssumption
   DEF WellFormed, NoJob, Job, NewInvoice, NoTrail, DecisionValue, AnyMeta, Trail, Typed

LEMMA FailWithType ==
  ASSUME NEW j, WellFormed(j), j.pc # "idle", NEW kind \in FailKind
  PROVE  WellFormed(FailWith(j, kind))
BY DEF WellFormed, FailWith, Job, ExceptionType, Guarded

LEMMA RaisedType ==
  ASSUME NEW j, WellFormed(j)
  PROVE  WellFormed(Raised(j))
<1>1. "stage_failure" \in FailKind
  BY DEF FailKind
<1>2. j.pc \in Guarded => j.pc # "idle"
  BY DEF Guarded
<1> QED BY <1>1, <1>2, NoJobType, FailWithType DEF Raised

LEMMA AppendErrorType ==
  ASSUME NEW j, WellFormed(j), j.pc = "append"
  PROVE  WellFormed(AppendError(j))
<1>1. CASE j.tries + 1 < RetryAttempts
  <2>1. j.tries + 1 \in 0..(RetryAttempts - 1)
    BY <1>1, ConstantsAssumption DEF Job, WellFormed
  <2> QED BY <1>1, <2>1 DEF AppendError, Job, Guarded, WellFormed
<1>2. CASE ~(j.tries + 1 < RetryAttempts)
  <2>1. "sheet_write_failed" \in FailKind
    BY DEF FailKind
  <2> QED BY <1>2, <2>1, FailWithType DEF AppendError
<1> QED BY <1>1, <1>2

\* A stored row stays well-typed when a job's copy of it is saved.
LEMMA SaveType ==
  ASSUME IType, NEW w \in Worker, ~At(w, "idle"), NEW s \in InvoiceStatus
  PROVE  Save(job[w], s) \in [Item -> Invoice]
BY DEF IType, WellFormed, At, TypeOK, Save, Invoice, Job

\* Both outcomes of a commit leave the jobs and the fault count well-typed.
LEMMA CommitType ==
  ASSUME IType, NEW w \in Worker, NEW next, WellFormed(next), Commit(w, next)
  PROVE  /\ job' \in [Worker -> Job]
         /\ \A v \in Worker : WellFormed(job'[v])
         /\ faults' \in 0..MaxFaults
<1>1. WellFormed(Raised(job[w]))
  BY RaisedType DEF IType
<1>2. PICK j : WellFormed(j) /\ job' = [job EXCEPT ![w] = j]
  BY <1>1 DEF Commit, Goto
<1>3. job' \in [Worker -> Job] /\ \A v \in Worker : WellFormed(job'[v])
  BY <1>2 DEF IType, TypeOK, WellFormed
<1>4. faults' \in 0..MaxFaults
  BY ConstantsAssumption DEF Commit, Fault, IType, TypeOK
<1> QED BY <1>3, <1>4

\* A local step leaves everything well-typed when its new job is.
LEMMA LocalType ==
  ASSUME IType, NEW w \in Worker, NEW j, WellFormed(j), Local(w, j)
  PROVE  IType'
BY DEF Local, Goto, tables, IType, TypeOK, WellFormed
\* Each kind of step keeps the types, and gives an item to a worker that starts.
LEMMA TypeStep ==
  ASSUME IType, [Next]_vars
  PROVE  IType'
<1> USE DEF At
<1>j. \A w \in Worker : WellFormed(job[w]) /\ WellFormed(Raised(job[w]))
  BY RaisedType DEF IType
<1>0. CASE UNCHANGED vars
  BY <1>0 DEF vars, IType, TypeOK, WellFormed
<1>1. ASSUME NEW w \in Worker, NEW i \in Item, Receive(w, i)
      PROVE  IType'
  <2>1. WellFormed([NoJob EXCEPT !.op = "process", !.pc = "parse", !.item = i])
    BY NoJobType DEF WellFormed, NoJob, Job, Pass, Guarded
  <2>2. row' \in [Item -> Invoice]
    BY <1>1 DEF Receive, Invoice, InvoiceStatus, InFlight, DecisionValue, AnyMeta, IType, TypeOK
  <2> QED BY <1>1, <2>1, <2>2, CommitType DEF Receive, IType, TypeOK
<1>2. ASSUME NEW w \in Worker, NEW i \in Item, NEW op \in {"rerun", "retry"},
             RequestPass(w, i, op)
      PROVE  IType'
  <2>1. WellFormed([NoJob EXCEPT !.op = op, !.pc = "load", !.item = i])
    BY NoJobType DEF WellFormed, NoJob, Job, Pass, Unguarded
  <2> QED BY <1>2, <2>1, LocalType DEF RequestPass
<1>3. ASSUME NEW w \in Worker, NEW i \in Item, NEW op \in Edit, RequestEdit(w, i, op)
      PROVE  IType'
  <2>1. PICK t \in Typed :
           Local(w, [NoJob EXCEPT !.op = op, !.pc = "edit", !.item = i, !.typed = t,
                        !.inv = [decision |-> row[i].decision, meta |-> row[i].meta]])
    BY <1>3 DEF RequestEdit, Typed
  <2>2. row[i] \in Invoice
    BY DEF IType, TypeOK
  <2>3. WellFormed([NoJob EXCEPT !.op = op, !.pc = "edit", !.item = i, !.typed = t,
                       !.inv = [decision |-> row[i].decision, meta |-> row[i].meta]])
    BY <2>2, NoJobType DEF WellFormed, NoJob, Job, Unguarded, Invoice
  <2> QED BY <2>1, <2>3, LocalType
<1>4. ASSUME NEW w \in Worker, Crash(w)
      PROVE  IType'
  BY <1>4, NoJobType, ConstantsAssumption
     DEF Crash, Goto, Fault, tables, IType, TypeOK, WellFormed
<1>5. ASSUME NEW w \in Worker, DatabaseError(w)
      PROVE  IType'
  BY <1>5, <1>j, ConstantsAssumption
     DEF DatabaseError, Goto, Fault, tables, IType, TypeOK, WellFormed
<1>6. ASSUME NEW w \in Worker, Step(w)
      PROVE  IType'
  <2> USE <1>6
  <2>0. /\ job[w] \in Job
        /\ job[w].pc # "idle" => job[w].item \in Item
    BY <1>j DEF WellFormed
  <2>t. row \in [Item -> Invoice] /\ excs \in [Item -> SUBSET ExceptionType]
        /\ audit \in [Item -> Trail] /\ appends \in [Item -> Nat]
        /\ sheet \in [Item -> Seq(AnyMeta)]
    BY DEF IType, TypeOK
  <2>1. CASE Parse(w)
    <3>1. WellFormed([job[w] EXCEPT !.pc = "extract"])
      BY <2>0, <2>1 DEF Parse, WellFormed, Job, Guarded
    <3>2. row' \in [Item -> Invoice]
      BY <2>1, SaveType DEF Parse, InvoiceStatus, InFlight
    <3> QED BY <2>1, <3>1, <3>2, CommitType DEF Parse, IType, TypeOK
  <2>2. CASE Extract(w)
    <3>1. PICK m \in Meta :
             Local(w, [job[w] EXCEPT !.pc = "store", !.inv.meta = m, !.scored = TRUE])
      BY <2>2 DEF Extract
    <3>2. WellFormed([job[w] EXCEPT !.pc = "store", !.inv.meta = m, !.scored = TRUE])
      BY <2>0, <2>2 DEF Extract, WellFormed, Job, Guarded, AnyMeta
    <3> QED BY <3>1, <3>2, LocalType
  <2>3. CASE ExtractFails(w)
    BY <2>3, <1>j, FailWithType, LocalType DEF ExtractFails, FailKind
  <2>4. CASE StoreExtraction(w)
    <3>1. WellFormed([job[w] EXCEPT !.pc = "classify"])
      BY <2>0, <2>4 DEF StoreExtraction, WellFormed, Job, Guarded
    <3>2. row' \in [Item -> Invoice]
      BY <2>4, SaveType DEF StoreExtraction, InvoiceStatus, InFlight
    <3>3. audit' \in [Item -> Trail]
      BY <2>4, <2>t DEF StoreExtraction, Trail
    <3> QED BY <2>4, <3>1, <3>2, <3>3, CommitType DEF StoreExtraction, IType, TypeOK
  <2>5. CASE Load(w)
    <3>1. WellFormed([job[w] EXCEPT !.pc = "audit",
                         !.inv = [decision |-> row[job[w].item].decision,
                                  meta |-> row[job[w].item].meta]])
      BY <2>0, <2>t, <2>5 DEF Load, WellFormed, Job, Unguarded, Invoice
    <3> QED BY <2>5, <3>1, LocalType DEF Load
  <2>6. CASE ReadAudit(w)
    <3> DEFINE a == audit[job[w].item]
    <3>1. a \in Trail
      BY <2>0, <2>t, <2>6 DEF ReadAudit
    <3>2. WellFormed([job[w] EXCEPT !.pc = "restart", !.trail = a])
      BY <3>1, <2>0, <2>6 DEF ReadAudit, WellFormed, Job, Unguarded
    <3>3. WellFormed([job[w] EXCEPT !.pc = "restart",
                         !.inv.meta = Effective(job[w].inv.meta, a.overlay),
                         !.scored = a.extracted \/ a.items \/ a.overlay \in Meta])
      BY <3>1, <2>0, <2>6
         DEF ReadAudit, WellFormed, Job, Unguarded, Effective, AnyMeta, Trail
    <3> QED BY <2>6, <3>2, <3>3, NoJobType, LocalType DEF ReadAudit
  <2>7. CASE Restart(w)
    <3>1. WellFormed([job[w] EXCEPT
                         !.pc = IF job[w].op = "rerun" THEN "classify" ELSE "rebuild"])
      BY <2>0, <2>7 DEF Restart, WellFormed, Job, Guarded
    <3>2. row' \in [Item -> Invoice]
      BY <2>7, SaveType DEF Restart, InvoiceStatus, InFlight
    <3>3. excs' \in [Item -> SUBSET ExceptionType]
      BY <2>7, <2>t DEF Restart, Superseded
    <3> QED BY <2>7, <3>1, <3>2, <3>3, CommitType DEF Restart, IType, TypeOK
  <2>8. CASE Reconstruct(w)
    <3>1. WellFormed([job[w] EXCEPT !.pc = "classify",
                         !.inv.meta = Effective(job[w].inv.meta, job[w].trail.overlay),
                         !.scored = TRUE, !.trail = NoTrail])
      BY <2>0, <2>8
         DEF Reconstruct, WellFormed, Job, Guarded, Effective, AnyMeta, Trail, NoTrail, Typed
    <3> QED BY <2>8, <3>1, <1>j, LocalType DEF Reconstruct
  <2>9. CASE ReExtract(w)
    <3>1. PICK m \in Meta :
             Commit(w, [job[w] EXCEPT !.pc = "classify", !.inv.meta = m,
                                      !.scored = TRUE, !.trail = NoTrail])
      BY <2>9 DEF ReExtract
    <3>2. WellFormed([job[w] EXCEPT !.pc = "classify", !.inv.meta = m,
                                    !.scored = TRUE, !.trail = NoTrail])
      BY <2>0, <2>9 DEF ReExtract, WellFormed, Job, Guarded, AnyMeta, Trail, NoTrail, Typed
    <3>3. audit' \in [Item -> Trail]
      BY <2>9, <2>t DEF ReExtract, Trail
    <3> QED BY <2>9, <3>1, <3>2, <3>3, CommitType DEF ReExtract, IType, TypeOK
  <2>10. CASE Classify(w)
    <3>1. WellFormed([job[w] EXCEPT !.pc = "categorize"])
      BY <2>0, <2>10 DEF Classify, WellFormed, Job, Guarded
    <3>2. row' \in [Item -> Invoice]
      BY <2>10, SaveType DEF Classify, InvoiceStatus, InFlight
    <3> QED BY <2>10, <3>1, <3>2, CommitType DEF Classify, IType, TypeOK
  <2>11. CASE Categorize(w)
    <3>1. WellFormed([job[w] EXCEPT !.pc = "decide"])
      BY <2>0, <2>11 DEF Categorize, WellFormed, Job, Guarded
    <3>2. row' \in [Item -> Invoice]
      BY <2>11, SaveType DEF Categorize, InvoiceStatus, InFlight
    <3> QED BY <2>11, <3>1, <3>2, CommitType DEF Categorize, IType, TypeOK
  <2>12. CASE Decide(w)
    <3>1. \A flags \in SUBSET HoldReason :
             WellFormed([job[w] EXCEPT !.pc = "hold", !.why = flags,
                                       !.inv.decision = "hold"])
      BY <2>0, <2>12
         DEF Decide, WellFormed, Job, Guarded, ExceptionType, DecisionValue
    <3>2. WellFormed([job[w] EXCEPT
             !.pc = IF ChecksDuplicates(job[w].op) THEN "dupcheck" ELSE "ledger",
             !.inv.decision = "submit"])
      BY <2>0, <2>12 DEF Decide, WellFormed, Job, Guarded, DecisionValue
    <3> QED BY <2>12, <3>1, <3>2, LocalType DEF Decide, PossibleFlags
  <2>13. CASE CheckDuplicates(w)
    <3>1. WellFormed(HoldDuplicate(job[w]))
      BY <2>0, <2>13
         DEF CheckDuplicates, HoldDuplicate, WellFormed, Job, Guarded, ExceptionType,
             DecisionValue
    <3>2. WellFormed([job[w] EXCEPT !.pc = "ledger"])
      BY <2>0, <2>13 DEF CheckDuplicates, WellFormed, Job, Guarded
    <3> QED BY <2>13, <3>1, <3>2, LocalType DEF CheckDuplicates
  <2>14. CASE Hold(w) \/ Fail(w)
    <3>1. row' \in [Item -> Invoice]
      BY <2>14, SaveType DEF Hold, Fail, InvoiceStatus
    <3>2. excs' \in [Item -> SUBSET ExceptionType]
      <4>1. excs' = [excs EXCEPT ![job[w].item] = @ \union job[w].why]
        BY <2>14 DEF Hold, Fail
      <4>2. job[w].item \in Item /\ job[w].why \in SUBSET ExceptionType
        BY <2>14, <2>0 DEF Hold, Fail, Job
      <4> QED BY <4>1, <4>2, <2>t
    <3>3. Commit(w, NoJob) /\ UNCHANGED <<audit, appends, sheet>>
      BY <2>14 DEF Hold, Fail
    <3> QED BY <3>1, <3>2, <3>3, NoJobType, CommitType DEF IType, TypeOK
  <2>15. CASE StageRaises(w)
    BY <2>15, <1>j, LocalType DEF StageRaises
  <2>16. CASE CheckLedger(w)
    <3>1. WellFormed([job[w] EXCEPT
             !.pc = IF IsAppended(job[w].item) THEN "post" ELSE "append"])
      BY <2>0, <2>16 DEF CheckLedger, WellFormed, Job, Guarded
    <3> QED BY <2>16, <3>1, LocalType DEF CheckLedger
  <2>17. CASE AppendRow(w)
    <3>1. sheet' \in [Item -> Seq(AnyMeta)] /\ Len(sheet[job[w].item]) + 1 \in Nat
      BY <2>17, <2>0, <2>t DEF AppendRow, NewRow, Job
    <3>2. WellFormed([job[w] EXCEPT !.pc = "record", !.ref = Len(sheet[job[w].item]) + 1])
      BY <2>0, <2>17, <3>1 DEF AppendRow, WellFormed, Job, Guarded
    <3>3. WellFormed(AppendError(job[w]))
      BY <1>j, <2>17, AppendErrorType DEF AppendRow
    <3>4. PICK j : WellFormed(j) /\ job' = [job EXCEPT ![w] = j]
      BY <2>17, <3>2, <3>3, <1>j DEF AppendRow, Goto
    <3>5. job' \in [Worker -> Job] /\ \A v \in Worker : WellFormed(job'[v])
      BY <3>4 DEF IType, TypeOK, WellFormed
    <3>6. faults' \in 0..MaxFaults
      BY <2>17, ConstantsAssumption DEF AppendRow, Fault, IType, TypeOK
    <3> QED BY <2>17, <3>1, <3>5, <3>6 DEF AppendRow, tables, IType, TypeOK
  <2>18. CASE AppendRefused(w)
    BY <2>18, <1>j, AppendErrorType, LocalType DEF AppendRefused
  <2>19. CASE RecordAppend(w)
    <3>1. WellFormed([job[w] EXCEPT !.pc = "post"])
      BY <2>0, <2>19 DEF RecordAppend, WellFormed, Job, Guarded
    <3>2. appends' \in [Item -> Nat]
      BY <2>19, <2>0, <2>t DEF RecordAppend, FirstRef, Job
    <3> QED BY <2>19, <3>1, <3>2, CommitType DEF RecordAppend, IType, TypeOK
  <2>20. CASE Post(w)
    <3>1. row' \in [Item -> Invoice]
      BY <2>20, SaveType DEF Post, InvoiceStatus
    <3> QED BY <2>20, <3>1, NoJobType, CommitType DEF Post, IType, TypeOK
  <2>21. CASE Apply(w)
    <3>1. job[w].op \in AnyEdit
      BY <2>21, <1>j, ConstantsAssumption DEF Apply, WellFormed
    <3>2. PICK s \in InvoiceStatus : row' = Save(job[w], s)
      BY <2>21, <3>1 DEF Apply, ActionOf, AnyEdit, InvoiceStatus
    <3>3. row' \in [Item -> Invoice]
      BY <2>21, <3>2, SaveType DEF Apply
    <3>4. audit' \in [Item -> Trail]
      <4> DEFINE i == job[w].item
      <4>1. i \in Item /\ audit[i] \in Trail /\ job[w].typed \in Typed
        BY <2>21, <2>0, <2>t DEF Apply, Job
      <4>2. \/ audit' = audit
            \/ audit' = [audit EXCEPT ![i].overlay = job[w].typed]
            \/ audit' = [audit EXCEPT ![i].pinned = TRUE]
        BY <2>21, Zenon DEF Apply
      <4>3. /\ [audit[i] EXCEPT !.overlay = job[w].typed] \in Trail
            /\ [audit[i] EXCEPT !.pinned = TRUE] \in Trail
        BY <4>1 DEF Trail
      <4> QED BY <2>t, <4>1, <4>2, <4>3
    <3> QED BY <2>21, <3>3, <3>4, NoJobType, CommitType DEF Apply, IType, TypeOK
  <2> QED
    BY <2>1, <2>2, <2>3, <2>4, <2>5, <2>6, <2>7, <2>8, <2>9, <2>10, <2>11, <2>12,
       <2>13, <2>14, <2>15, <2>16, <2>17, <2>18, <2>19, <2>20, <2>21 DEF Step
<1> QED BY <1>0, <1>1, <1>2, <1>3, <1>4, <1>5, <1>6 DEF Next

LEMMA TypeInit == Init => IType
BY NoJobType, ConstantsAssumption
   DEF Init, IType, TypeOK, Invoice, InvoiceStatus, DecisionValue, AnyMeta, Trail, NoTrail,
       Typed, WellFormed

\* Every reachable state has the declared types: no step stores a status, a
\* decision or an exception outside its enumeration, and the attempts of one
\* append stay below _RETRY_ATTEMPTS.
THEOREM TypeCorrect == Spec => []TypeOK
<1>1. IType => TypeOK
  BY DEF IType
<1> QED BY <1>1, TypeInit, TypeStep, PTL DEF Spec

-----------------------------------------------------------------------------
(* The steps that matter for the ledger and the Sheet *)

\* Worker w takes a step that has nothing to do with the append: it does not get
\* to one of the last three steps of a filing, writes no row and records none,
\* marks no item posted, and gives up a written row only by a fault.
Quiet(w) ==
    /\ \E j : job' = [job EXCEPT ![w] = j] /\ j.pc \notin {"append", "record", "post"}
    /\ UNCHANGED <<appends, sheet>>
    /\ \A i \in Item : row'[i].status = "posted" => row[i].status = "posted"
    /\ faults' \in {faults, faults + 1}
    /\ At(w, "record") => faults' = faults + 1

LEMMA RaisedQuiet ==
  ASSUME NEW j \in Job
  PROVE  Raised(j).pc \notin {"append", "record", "post"}
BY DEF Raised, FailWith, NoJob, Job

LEMMA CommitQuiet ==
  ASSUME IType, NEW w \in Worker, NEW next \in Job,
         next.pc \notin {"append", "record", "post"}, Commit(w, next),
         ~At(w, "record"), UNCHANGED <<appends, sheet>>,
         \A i \in Item : row'[i].status = "posted" => row[i].status = "posted"
  PROVE  Quiet(w)
<1>1. Raised(job[w]).pc \notin {"append", "record", "post"}
  BY RaisedQuiet DEF IType, TypeOK
<1> QED BY <1>1 DEF Commit, Goto, Fault, Quiet

LEMMA LocalQuiet ==
  ASSUME NEW w \in Worker, NEW j, j.pc \notin {"append", "record", "post"},
         ~At(w, "record"), Local(w, j)
  PROVE  Quiet(w)
BY DEF Local, Goto, Quiet, tables

\* Saving a job's copy under another status than posted makes no item posted.
LEMMA SaveQuiet ==
  ASSUME IType, NEW w \in Worker, NEW s, s # "posted", row' = Save(job[w], s),
         NEW i \in Item, row'[i].status = "posted"
  PROVE  row[i].status = "posted"
BY DEF Save, IType, TypeOK

LEMMA StepKinds ==
  ASSUME IType, Next
  PROVE  \E w \in Worker :
            Quiet(w) \/ CheckLedger(w) \/ AppendRow(w) \/ RecordAppend(w) \/ Post(w)
<1> USE DEF At
<1>j. \A w \in Worker : job[w] \in Job
  BY DEF IType, TypeOK
<1>n. NoJob \in Job /\ NoJob.pc \notin {"append", "record", "post"}
  BY NoJobType DEF WellFormed, NoJob
<1>1. ASSUME NEW w \in Worker, NEW i \in Item, Receive(w, i)
      PROVE  Quiet(w)
  <2>1. [NoJob EXCEPT !.op = "process", !.pc = "parse", !.item = i] \in Job
    BY <1>n DEF Job, Pass, Guarded
  <2>2. \A k \in Item : row'[k].status = "posted" => row[k].status = "posted"
    BY <1>1 DEF Receive, IType, TypeOK
  <2> QED BY <1>1, <1>n, <2>1, <2>2, CommitQuiet DEF Receive, Job
<1>2. ASSUME NEW w \in Worker, NEW i \in Item, NEW op \in {"rerun", "retry"},
             RequestPass(w, i, op)
      PROVE  Quiet(w)
  BY <1>2, <1>n, LocalQuiet DEF RequestPass, Job
<1>3. ASSUME NEW w \in Worker, NEW i \in Item, NEW op \in Edit, RequestEdit(w, i, op)
      PROVE  Quiet(w)
  <2>1. PICK t \in Typed :
           Local(w, [NoJob EXCEPT !.op = op, !.pc = "edit", !.item = i, !.typed = t,
                        !.inv = [decision |-> row[i].decision, meta |-> row[i].meta]])
    BY <1>3 DEF RequestEdit, Typed
  <2> QED BY <1>3, <1>n, <2>1, LocalQuiet DEF RequestEdit, Job
<1>4. ASSUME NEW w \in Worker, Crash(w)
      PROVE  Quiet(w)
  BY <1>4, <1>n DEF Crash, Goto, Fault, tables, Quiet
<1>5. ASSUME NEW w \in Worker, DatabaseError(w)
      PROVE  Quiet(w)
  BY <1>5, <1>j, RaisedQuiet DEF DatabaseError, Goto, Fault, tables, Quiet
<1>6. ASSUME NEW w \in Worker, Step(w)
      PROVE  Quiet(w) \/ CheckLedger(w) \/ AppendRow(w) \/ RecordAppend(w) \/ Post(w)
  <2> USE <1>6, <1>j
  <2>1. CASE Parse(w)
    <3>1. [job[w] EXCEPT !.pc = "extract"] \in Job
      BY DEF Job, Guarded
    <3> QED BY <2>1, <3>1, SaveQuiet, CommitQuiet DEF Parse, Job
  <2>2. CASE Extract(w)
    <3>1. PICK m \in Meta :
             Local(w, [job[w] EXCEPT !.pc = "store", !.inv.meta = m, !.scored = TRUE])
      BY <2>2 DEF Extract
    <3> QED BY <2>2, <3>1, LocalQuiet DEF Extract, Job
  <2>3. CASE ExtractFails(w)
    BY <2>3, LocalQuiet DEF ExtractFails, FailWith, Job
  <2>4. CASE StoreExtraction(w)
    <3>1. [job[w] EXCEPT !.pc = "classify"] \in Job
      BY DEF Job, Guarded
    <3> QED BY <2>4, <3>1, SaveQuiet, CommitQuiet DEF StoreExtraction, Job
  <2>5. CASE Load(w)
    BY <2>5, LocalQuiet DEF Load, Job
  <2>6. CASE ReadAudit(w)
    BY <2>6, <1>n, LocalQuiet DEF ReadAudit, Job
  <2>7. CASE Restart(w)
    <3>1. /\ [job[w] EXCEPT !.pc = "classify"] \in Job
          /\ [job[w] EXCEPT !.pc = "rebuild"] \in Job
      BY DEF Job, Guarded
    <3>2. PICK pc \in {"classify", "rebuild"} : Commit(w, [job[w] EXCEPT !.pc = pc])
      BY <2>7 DEF Restart
    <3>3. [job[w] EXCEPT !.pc = pc].pc \in {"classify", "rebuild"}
      BY DEF Job
    <3>4. \A i \in Item : row'[i].status = "posted" => row[i].status = "posted"
      BY <2>7, SaveQuiet DEF Restart
    <3>5. ~At(w, "record") /\ UNCHANGED <<appends, sheet>>
      BY <2>7 DEF Restart
    <3> QED BY <3>1, <3>2, <3>3, <3>4, <3>5, CommitQuiet
  <2>8. CASE Reconstruct(w)
    <3>1. Raised(job[w]).pc \notin {"append", "record", "post"}
      BY RaisedQuiet
    <3>0. ~At(w, "record")
      BY <2>8 DEF Reconstruct
    <3>2. CASE Local(w, Raised(job[w]))
      BY <3>0, <3>1, <3>2, LocalQuiet
    <3>3. ASSUME NEW m, Local(w, [job[w] EXCEPT !.pc = "classify", !.inv.meta = m,
                                                !.scored = TRUE, !.trail = NoTrail])
          PROVE  Quiet(w)
      <4>1. [job[w] EXCEPT !.pc = "classify", !.inv.meta = m,
                           !.scored = TRUE, !.trail = NoTrail].pc = "classify"
        BY DEF Job
      <4> QED BY <3>0, <3>3, <4>1, LocalQuiet
    <3> QED BY <2>8, <3>2, <3>3 DEF Reconstruct
  <2>9. CASE ReExtract(w)
    <3>1. PICK m \in Meta :
             Commit(w, [job[w] EXCEPT !.pc = "classify", !.inv.meta = m,
                                      !.scored = TRUE, !.trail = NoTrail])
      BY <2>9 DEF ReExtract
    <3>2. [job[w] EXCEPT !.pc = "classify", !.inv.meta = m,
                         !.scored = TRUE, !.trail = NoTrail] \in Job
      <4>1. job[w] \in Job /\ m \in AnyMeta
        BY DEF AnyMeta
      <4>2. NoTrail \in Trail
        BY DEF Trail, NoTrail, Typed
      <4>3. [job[w].inv EXCEPT !.meta = m] \in [decision : DecisionValue, meta : AnyMeta]
        BY <4>1 DEF Job
      <4> QED BY <4>1, <4>2, <4>3 DEF Job, Guarded
    <3>3. [job[w] EXCEPT !.pc = "classify", !.inv.meta = m,
                         !.scored = TRUE, !.trail = NoTrail].pc = "classify"
      BY DEF Job
    <3>4. /\ job[w].pc = "rebuild"
          /\ UNCHANGED <<appends, sheet>> /\ row' = row
      BY <2>9 DEF ReExtract
    <3> QED BY <3>1, <3>2, <3>3, <3>4, CommitQuiet
  <2>10. CASE Classify(w)
    <3>1. [job[w] EXCEPT !.pc = "categorize"] \in Job
      BY DEF Job, Guarded
    <3> QED BY <2>10, <3>1, SaveQuiet, CommitQuiet DEF Classify, Job
  <2>11. CASE Categorize(w)
    <3>1. [job[w] EXCEPT !.pc = "decide"] \in Job
      BY DEF Job, Guarded
    <3> QED BY <2>11, <3>1, SaveQuiet, CommitQuiet DEF Categorize, Job
  <2>12. CASE Decide(w)
    BY <2>12, LocalQuiet DEF Decide, Job
  <2>13. CASE CheckDuplicates(w)
    BY <2>13, LocalQuiet DEF CheckDuplicates, HoldDuplicate, Job
  <2>14. CASE Hold(w)
    BY <2>14, <1>n, SaveQuiet, CommitQuiet DEF Hold
  <2>15. CASE Fail(w)
    BY <2>15, <1>n, SaveQuiet, CommitQuiet DEF Fail
  <2>16. CASE StageRaises(w)
    BY <2>16, RaisedQuiet, LocalQuiet DEF StageRaises
  <2>17. CASE AppendRefused(w)
    <3>1. AppendError(job[w]).pc \notin {"append", "record", "post"}
      BY DEF AppendError, FailWith, Job
    <3> QED BY <2>17, <3>1, RaisedQuiet, LocalQuiet DEF AppendRefused
  <2>18. CASE Apply(w)
    <3>1. job[w].op \in AnyEdit
      BY <2>18, ConstantsAssumption DEF Apply, IType, WellFormed
    <3>2. PICK s : s # "posted" /\ row' = Save(job[w], s)
      BY <2>18, <3>1 DEF Apply, ActionOf, AnyEdit
    <3> QED BY <2>18, <1>n, <3>2, SaveQuiet, CommitQuiet DEF Apply
  <2> QED
    BY <2>1, <2>2, <2>3, <2>4, <2>5, <2>6, <2>7, <2>8, <2>9, <2>10, <2>11, <2>12,
       <2>13, <2>14, <2>15, <2>16, <2>17, <2>18 DEF Step
<1> QED BY <1>1, <1>2, <1>3, <1>4, <1>5, <1>6 DEF Next

-----------------------------------------------------------------------------
(* Posted items are in the ledger *)

\* Why a posted item has a row: a reference that is recorded, or about to be,
\* names a row of the Sheet, and only a recorded item gets to the last step.
ReferencesExist ==
    /\ \A i \in Item : appends[i] <= Len(sheet[i])
    /\ \A w \in Worker :
          /\ At(w, "record") => job[w].ref \in 1..Len(sheet[job[w].item])
          /\ At(w, "post") => appends[job[w].item] # 0

IRecorded == IType /\ ReferencesExist /\ PostedIsRecorded

LEMMA RecordedInit == Init => IRecorded
<1> SUFFICES ASSUME Init PROVE IRecorded
  OBVIOUS
<1>1. \A w \in Worker : job[w].pc = "idle"
  BY DEF Init, NoJob
<1> QED BY <1>1, TypeInit DEF IRecorded, ReferencesExist, PostedIsRecorded, Init, At

LEMMA RecordedStep ==
  ASSUME IRecorded, [Next]_vars
  PROVE  IRecorded'
<1> USE DEF At
<1>t. IType /\ IType'
  BY TypeStep DEF IRecorded
<1>y. /\ \A v \in Worker : job[v] \in Job /\ (job[v].pc # "idle" => job[v].item \in Item)
      /\ appends \in [Item -> Nat] /\ sheet \in [Item -> Seq(AnyMeta)]
      /\ row \in [Item -> Invoice] /\ job \in [Worker -> Job]
  BY <1>t DEF IType, TypeOK, WellFormed
<1>0. CASE UNCHANGED vars
  BY <1>0, <1>t DEF IRecorded, ReferencesExist, PostedIsRecorded, vars
<1>1. ASSUME NEW w \in Worker, Quiet(w)
      PROVE  IRecorded'
  <2>1. \A v \in Worker : job'[v] = job[v] \/ job'[v].pc \notin {"append", "record", "post"}
    BY <1>1, <1>y DEF Quiet
  <2>2. ReferencesExist'
    BY <1>1, <2>1 DEF Quiet, IRecorded, ReferencesExist
  <2>3. PostedIsRecorded'
    BY <1>1 DEF Quiet, IRecorded, PostedIsRecorded
  <2> QED BY <1>t, <2>2, <2>3 DEF IRecorded
<1>2. ASSUME NEW w \in Worker, CheckLedger(w)
      PROVE  IRecorded'
  <2>1. /\ job' = [job EXCEPT ![w].pc = IF IsAppended(job[w].item) THEN "post" ELSE "append"]
        /\ UNCHANGED <<row, appends, sheet>>
    BY <1>2 DEF CheckLedger, Local, Goto, tables
  <2>2. ReferencesExist'
    BY <2>1, <1>y DEF IRecorded, ReferencesExist, IsAppended, Job
  <2>3. PostedIsRecorded'
    BY <2>1 DEF IRecorded, PostedIsRecorded
  <2> QED BY <1>t, <2>2, <2>3 DEF IRecorded
<1>3. ASSUME NEW w \in Worker, AppendRow(w)
      PROVE  IRecorded'
  <2> DEFINE k == job[w].item
  <2>1. /\ k \in Item
        /\ sheet' = [sheet EXCEPT ![k] = Append(@, job[w].inv.meta)]
        /\ UNCHANGED <<row, appends>>
    BY <1>3, <1>y DEF AppendRow, NewRow, tables
  <2>2. /\ \A i \in Item : Len(sheet[i]) \in Nat /\ Len(sheet'[i]) >= Len(sheet[i])
        /\ Len(sheet'[k]) = Len(sheet[k]) + 1
    BY <2>1, <1>y DEF Job
  <2>3. \A i \in Item : Len(sheet'[i]) \in Nat
    BY <1>t DEF IType, TypeOK
  <2>4. /\ \A v \in Worker \ {w} : job'[v] = job[v]
        /\ \/ job'[w].pc \notin {"append", "record", "post"}
           \/ job'[w] = [job[w] EXCEPT !.pc = "record", !.ref = Len(sheet[k]) + 1]
    <3>1. AppendError(job[w]).pc \notin {"append", "record", "post"}
      BY <1>y DEF AppendError, FailWith, Job
    <3>2. Raised(job[w]).pc \notin {"append", "record", "post"}
      BY <1>y, RaisedQuiet
    <3> QED BY <1>3, <1>y, <3>1, <3>2 DEF AppendRow, Goto
  <2>5. \A i \in Item : appends'[i] <= Len(sheet'[i])
    BY <2>1, <2>2, <2>3, <1>y DEF IRecorded, ReferencesExist
  <2>6. ASSUME NEW v \in Worker
        PROVE  /\ job'[v].pc = "record" => job'[v].ref \in 1..Len(sheet'[job'[v].item])
               /\ job'[v].pc = "post" => appends'[job'[v].item] # 0
    <3>1. CASE v = w
      <4>1. CASE job'[w] = [job[w] EXCEPT !.pc = "record", !.ref = Len(sheet[k]) + 1]
        <5>1. job[w] \in Job /\ Len(sheet[k]) \in Nat
          BY <1>y, <2>1, <2>2
        <5>2. job'[w].pc = "record" /\ job'[w].ref = Len(sheet[k]) + 1 /\ job'[w].item = k
          BY <4>1, <5>1 DEF Job
        <5> QED BY <3>1, <5>1, <5>2, <2>2
      <4> QED BY <3>1, <4>1, <2>4
    <3>2. CASE v # w
      <4>1. job'[v] = job[v] /\ (job[v].pc # "idle" => job[v].item \in Item)
        BY <3>2, <2>4, <1>y
      <4> QED BY <4>1, <2>1, <2>2, <2>3 DEF IRecorded, ReferencesExist
    <3> QED BY <3>1, <3>2
  <2>7. PostedIsRecorded'
    BY <2>1, <2>2, <2>3, <1>y DEF IRecorded, PostedIsRecorded
  <2> QED BY <1>t, <2>5, <2>6, <2>7 DEF IRecorded, ReferencesExist
<1>4. ASSUME NEW w \in Worker, RecordAppend(w)
      PROVE  IRecorded'
  <2> DEFINE k == job[w].item
  <2>1. /\ k \in Item
        /\ appends' = [appends EXCEPT ![k] = FirstRef(@, job[w].ref)]
        /\ UNCHANGED <<row, sheet>>
    BY <1>4, <1>y DEF RecordAppend
  <2>2. /\ \A i \in Item : appends[i] # 0 => appends'[i] = appends[i]
        /\ appends'[k] \in 1..Len(sheet[k])
        /\ \A i \in Item : appends'[i] <= Len(sheet[i])
    <3>1. job[w].ref \in 1..Len(sheet[k])
      BY <1>4 DEF RecordAppend, IRecorded, ReferencesExist
    <3>2. \A i \in Item : appends[i] <= Len(sheet[i])
      BY DEF IRecorded, ReferencesExist
    <3>3. \A i \in Item : appends[i] \in Nat /\ Len(sheet[i]) \in Nat
      BY <1>y
    <3>4. appends'[k] = FirstRef(appends[k], job[w].ref)
          /\ \A i \in Item \ {k} : appends'[i] = appends[i]
      BY <2>1, <1>y
    <3> QED BY <2>1, <3>1, <3>2, <3>3, <3>4 DEF FirstRef
  <2>3. /\ \A v \in Worker \ {w} : job'[v] = job[v]
        /\ \/ job'[w].pc \notin {"append", "record", "post"}
           \/ job'[w] = [job[w] EXCEPT !.pc = "post"]
    <3>1. Raised(job[w]).pc \notin {"append", "record", "post"}
      BY <1>y, RaisedQuiet
    <3> QED BY <1>4, <1>y, <3>1 DEF RecordAppend, Commit, Goto
  <2>4. ASSUME NEW v \in Worker
        PROVE  /\ job'[v].pc = "record" => job'[v].ref \in 1..Len(sheet'[job'[v].item])
               /\ job'[v].pc = "post" => appends'[job'[v].item] # 0
    <3>1. CASE v = w
      <4>1. CASE job'[w] = [job[w] EXCEPT !.pc = "post"]
        <5>1. job'[w].pc = "post" /\ job'[w].item = k
          BY <4>1, <1>y DEF Job
        <5> QED BY <3>1, <5>1, <2>2
      <4> QED BY <3>1, <4>1, <2>3
    <3>2. CASE v # w
      <4>1. job'[v] = job[v] /\ (job[v].pc # "idle" => job[v].item \in Item)
        BY <3>2, <2>3, <1>y
      <4> QED BY <4>1, <2>1, <2>2 DEF IRecorded, ReferencesExist
    <3> QED BY <3>1, <3>2
  <2>5. PostedIsRecorded'
    BY <2>1, <2>2, <1>y DEF IRecorded, PostedIsRecorded
  <2> QED BY <1>t, <2>1, <2>2, <2>4, <2>5 DEF IRecorded, ReferencesExist
<1>5. ASSUME NEW w \in Worker, Post(w)
      PROVE  IRecorded'
  <2>1. /\ row' = Save(job[w], "posted")
        /\ UNCHANGED <<appends, sheet>>
        /\ job[w].item \in Item
        /\ appends[job[w].item] \in 1..Len(sheet[job[w].item])
    BY <1>5, <1>y DEF Post, IRecorded, ReferencesExist
  <2>2. \A v \in Worker : job'[v] = job[v] \/ job'[v].pc \notin {"append", "record", "post"}
    <3>1. Raised(job[w]).pc \notin {"append", "record", "post"}
      BY <1>y, RaisedQuiet
    <3> QED BY <1>5, <1>y, <3>1 DEF Post, Commit, Goto, NoJob
  <2>3. ReferencesExist'
    BY <2>1, <2>2 DEF IRecorded, ReferencesExist
  <2>4. PostedIsRecorded'
    BY <2>1, <1>y DEF IRecorded, PostedIsRecorded, Save
  <2> QED BY <1>t, <2>3, <2>4 DEF IRecorded
<1> QED
  <2>1. CASE Next
    BY <1>t, <2>1, <1>1, <1>2, <1>3, <1>4, <1>5, StepKinds
  <2> QED BY <2>1, <1>0

\* Whatever the number of threads, crashes, lost answers and retries: an item
\* that the hub shows as posted is in sheet_appends, and the recorded reference
\* is a row of the Sheet (append_filed_row before the POSTED transaction).
THEOREM PostedIsRecordedTheorem == Spec => []PostedIsRecorded
<1>1. IRecorded => PostedIsRecorded
  BY DEF IRecorded
<1> QED BY <1>1, RecordedInit, RecordedStep, PTL DEF Spec
=============================================================================
