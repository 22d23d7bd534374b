----------------------- MODULE OrchestratorStatusProofs -----------------------
(***************************************************************************)
(* Theorems about what the stored status promises.  However requests       *)
(* overlap, the stored decision goes with it.  When no two requests about  *)
(* one item overlap: the exceptions explain it, the hub shows the row, a   *)
(* recorded item is never appended again, posting and rejection are final, *)
(* and a rerun files the correction.  When no two requests overlap at all: *)
(* no unreviewed duplicate is filed.                                       *)
(***************************************************************************)
EXTENDS OrchestratorProofs

-----------------------------------------------------------------------------
(* The decision is the one that settled the item *)

Filing == {"dupcheck", "ledger", "append", "record", "post"}

\* A pass that is filing has decided to submit, one about to hold to hold.
Decided(j) ==
    /\ j.pc \in Filing => j.inv.decision = "submit"
    /\ j.pc = "hold" => j.inv.decision = "hold"

IDecided == IType /\ DecisionMatchesStatus /\ \A w \in Worker : Decided(job[w])

\* A job that neither files nor holds carries no obligation.
LEMMA RaisedDecided ==
  ASSUME NEW j \in Job
  PROVE  Decided(Raised(j)) /\ Decided(NoJob)
BY DEF Raised, FailWith, NoJob, Job, Decided, Filing

LEMMA CommitDecided ==
  ASSUME IDecided, NEW w \in Worker, NEW next, Decided(next), Commit(w, next)
  PROVE  \A v \in Worker : Decided(job'[v])
<1>1. Decided(Raised(job[w]))
  BY RaisedDecided DEF IDecided, IType, TypeOK
<1> QED BY <1>1 DEF Commit, Goto, IDecided, IType, TypeOK

LEMMA LocalDecided ==
  ASSUME IDecided, NEW w \in Worker, NEW j, Decided(j), Local(w, j)
  PROVE  (\A v \in Worker : Decided(job'[v])) /\ DecisionMatchesStatus'
BY DEF Local, Goto, tables, IDecided, IType, TypeOK, DecisionMatchesStatus

\* Saving a job's copy keeps the match when the copy's decision fits the status.
LEMMA SaveDecided ==
  ASSUME IDecided, NEW w \in Worker, NEW s, row' = Save(job[w], s),
         s = "posted" => job[w].inv.decision = "submit",
         s = "held" => job[w].inv.decision = "hold"
  PROVE  DecisionMatchesStatus'
BY DEF Save, IDecided, IType, TypeOK, DecisionMatchesStatus

LEMMA DecidedInit == Init => IDecided
<1> SUFFICES ASSUME Init PROVE IDecided
  OBVIOUS
<1>1. \A w \in Worker : job[w].pc = "idle"
  BY DEF Init, NoJob
<1> QED BY <1>1, TypeInit DEF IDecided, Decided, Filing, DecisionMatchesStatus, Init

LEMMA DecidedStep ==
  ASSUME IDecided, [Next]_vars
  PROVE  IDecided'
<1> USE DEF At
<1>t. IType /\ IType'
  BY TypeStep DEF IDecided
<1>y. \A v \in Worker : job[v] \in Job /\ Decided(job[v])
  BY DEF IDecided, IType, TypeOK
<1>r. \A v \in Worker : Decided(Raised(job[v])) /\ Decided(NoJob)
  BY <1>y, RaisedDecided
<1> SUFFICES (\A v \in Worker : Decided(job'[v])) /\ DecisionMatchesStatus'
  BY <1>t DEF IDecided
<1>0. CASE UNCHANGED vars
  BY <1>0 DEF IDecided, vars, DecisionMatchesStatus
<1>1. ASSUME NEW w \in Worker, NEW i \in Item, Receive(w, i)
      PROVE  (\A v \in Worker : Decided(job'[v])) /\ DecisionMatchesStatus'
  <2>1. Decided([NoJob EXCEPT !.op = "process", !.pc = "parse", !.item = i])
    BY DEF NoJob, Decided, Filing
  <2>2. DecisionMatchesStatus'
    BY <1>1, <1>t DEF Receive, IDecided, IType, TypeOK, DecisionMatchesStatus
  <2> QED BY <1>1, <2>1, <2>2, CommitDecided DEF Receive
<1>2. ASSUME NEW w \in Worker, NEW i \in Item, NEW op \in {"rerun", "retry"},
             RequestPass(w, i, op)
      PROVE  (\A v \in Worker : Decided(job'[v])) /\ DecisionMatchesStatus'
  <2>1. Decided([NoJob EXCEPT !.op = op, !.pc = "load", !.item = i])
    BY DEF NoJob, Decided, Filing
  <2> QED BY <1>2, <2>1, LocalDecided DEF RequestPass
<1>3. ASSUME NEW w \in Worker, NEW i \in Item, NEW op \in Edit, RequestEdit(w, i, op)
      PROVE  (\A v \in Worker : Decided(job'[v])) /\ DecisionMatchesStatus'
  <2>1. PICK t \in Typed :
           Local(w, [NoJob EXCEPT !.op = op, !.pc = "edit", !.item = i, !.typed = t,
                        !.inv = [decision |-> row[i].decision, meta |-> row[i].meta]])
    BY <1>3 DEF RequestEdit, Typed
  <2>2. Decided([NoJob EXCEPT !.op = op, !.pc = "edit", !.item = i, !.typed = t,
                    !.inv = [decision |-> row[i].decision, meta |-> row[i].meta]])
    BY DEF NoJob, Decided, Filing
  <2> QED BY <2>1, <2>2, LocalDecided
<1>4. ASSUME NEW w \in Worker, Crash(w) \/ DatabaseError(w)
      PROVE  (\A v \in Worker : Decided(job'[v])) /\ DecisionMatchesStatus'
  BY <1>4, <1>y, <1>r
     DEF Crash, DatabaseError, Goto, tables, IDecided, IType, TypeOK, DecisionMatchesStatus
<1>5. ASSUME NEW w \in Worker, Step(w)
      PROVE  (\A v \in Worker : Decided(job'[v])) /\ DecisionMatchesStatus'
  <2> USE <1>5
  <2>0. job[w] \in Job /\ Decided(job[w]) /\ Decided(Raised(job[w])) /\ Decided(NoJob)
    BY <1>y, <1>r
  \* A job moved on to a step that neither files nor holds.
  <2>j. \A pc : pc \notin Filing \union {"hold"} => Decided([job[w] EXCEPT !.pc = pc])
    BY <2>0 DEF Decided, Filing, Job
  <2>1. CASE Parse(w)
    BY <2>1, <2>j, SaveDecided, CommitDecided DEF Parse, Filing
  <2>2. CASE Extract(w)
    <3>1. PICK m \in Meta :
             Local(w, [job[w] EXCEPT !.pc = "store", !.inv.meta = m, !.scored = TRUE])
      BY <2>2 DEF Extract
    <3>2. Decided([job[w] EXCEPT !.pc = "store", !.inv.meta = m, !.scored = TRUE])
      BY <2>0 DEF Decided, Filing, Job
    <3> QED BY <3>1, <3>2, LocalDecided
  <2>3. CASE ExtractFails(w)
    <3>1. Decided(FailWith(job[w], "extraction_failed"))
      BY <2>0 DEF FailWith, Decided, Filing, Job
    <3> QED BY <2>3, <3>1, LocalDecided DEF ExtractFails
  <2>4. CASE StoreExtraction(w)
    BY <2>4, <2>j, SaveDecided, CommitDecided DEF StoreExtraction, Filing
  <2>5. CASE Load(w)
    <3>1. Decided([job[w] EXCEPT !.pc = "audit",
                      !.inv = [decision |-> row[job[w].item].decision,
                               meta |-> row[job[w].item].meta]])
      BY <2>0 DEF Decided, Filing, Job
    <3> QED BY <2>5, <3>1, LocalDecided DEF Load
  <2>6. CASE ReadAudit(w)
    <3> DEFINE a == audit[job[w].item]
    <3>1. /\ Decided([job[w] EXCEPT !.pc = "restart", !.trail = a])
          /\ Decided([job[w] EXCEPT !.pc = "restart",
                         !.inv.meta = Effective(job[w].inv.meta, a.overlay),
                         !.scored = a.extracted \/ a.items \/ a.overlay \in Meta])
      BY <2>0 DEF Decided, Filing, Job
    <3> QED BY <2>6, <2>0, <3>1, LocalDecided DEF ReadAudit
  <2>7. CASE Restart(w)
    BY <2>7, <2>j, SaveDecided, CommitDecided DEF Restart, Filing
  <2>8. CASE Reconstruct(w)
    <3>1. Decided([job[w] EXCEPT !.pc = "classify",
                      !.inv.meta = Effective(job[w].inv.meta, job[w].trail.overlay),
                      !.scored = TRUE, !.trail = NoTrail])
      BY <2>0 DEF Decided, Filing, Job
    <3> QED BY <2>8, <2>0, <3>1, LocalDecided DEF Reconstruct
  <2>9. CASE ReExtract(w)
    <3>1. PICK m \in Meta :
             Commit(w, [job[w] EXCEPT !.pc = "classify", !.inv.meta = m,
                                      !.scored = TRUE, !.trail = NoTrail])
      BY <2>9 DEF ReExtract
    <3>2. Decided([job[w] EXCEPT !.pc = "classify", !.inv.meta = m,
                                 !.scored = TRUE, !.trail = NoTrail])
      BY <2>0 DEF Decided, Filing, Job
    <3> QED BY <2>9, <3>1, <3>2, CommitDecided DEF ReExtract, IDecided, DecisionMatchesStatus
  <2>10. CASE Classify(w)
    BY <2>10, <2>j, SaveDecided, CommitDecided DEF Classify, Filing
  <2>11. CASE Categorize(w)
    BY <2>11, <2>j, SaveDecided, CommitDecided DEF Categorize, Filing
  <2>12. CASE Decide(w)
    <3>1. \A flags : Decided([job[w] EXCEPT !.pc = "hold", !.why = flags,
                                            !.inv.decision = "hold"])
      BY <2>0 DEF Decided, Filing, Job
    <3>2. Decided([job[w] EXCEPT
             !.pc = IF ChecksDuplicates(job[w].op) THEN "dupcheck" ELSE "ledger",
             !.inv.decision = "submit"])
      BY <2>0 DEF Decided, Filing, Job
    <3> QED BY <2>12, <3>1, <3>2, LocalDecided DEF Decide
  <2>13. CASE CheckDuplicates(w)
    <3>1. Decided(HoldDuplicate(job[w]))
      BY <2>0 DEF HoldDuplicate, Decided, Filing, Job
    <3>2. Decided([job[w] EXCEPT !.pc = "ledger"])
      BY <2>0, <2>13 DEF CheckDuplicates, Decided, Filing, Job
    <3> QED BY <2>13, <3>1, <3>2, LocalDecided DEF CheckDuplicates
  <2>14. CASE Hold(w)
    BY <2>14, <2>0, SaveDecided, CommitDecided DEF Hold, Decided
  <2>15. CASE Fail(w)
    BY <2>15, <2>0, SaveDecided, CommitDecided DEF Fail
  <2>16. CASE StageRaises(w)
    BY <2>16, <2>0, LocalDecided DEF StageRaises
  <2>17. CASE CheckLedger(w)
    <3>1. Decided([job[w] EXCEPT !.pc = IF IsAppended(job[w].item) THEN "post" ELSE "append"])
      BY <2>0, <2>17 DEF CheckLedger, Decided, Filing, Job
    <3> QED BY <2>17, <3>1, LocalDecided DEF CheckLedger
  <2>e. job[w].pc = "append" => Decided(AppendError(job[w]))
    BY <2>0 DEF AppendError, FailWith, Decided, Filing, Job
  <2>18. CASE AppendRow(w)
    <3>1. Decided([job[w] EXCEPT !.pc = "record", !.ref = Len(sheet[job[w].item]) + 1])
      BY <2>0, <2>18 DEF AppendRow, Decided, Filing, Job
    <3>2. \A v \in Worker : Decided(job'[v])
      BY <2>18, <2>0, <2>e, <3>1, <1>y DEF AppendRow, Goto, IDecided, IType, TypeOK
    <3> QED BY <2>18, <3>2 DEF AppendRow, tables, IDecided, DecisionMatchesStatus
  <2>19. CASE AppendRefused(w)
    BY <2>19, <2>0, <2>e, LocalDecided DEF AppendRefused
  <2>20. CASE RecordAppend(w)
    <3>1. Decided([job[w] EXCEPT !.pc = "post"])
      BY <2>0, <2>20 DEF RecordAppend, Decided, Filing, Job
    <3> QED BY <2>20, <3>1, CommitDecided DEF RecordAppend, IDecided, DecisionMatchesStatus
  <2>21. CASE Post(w)
    BY <2>21, <2>0, SaveDecided, CommitDecided DEF Post, Decided, Filing
  <2>22. CASE Apply(w)
    <3>1. job[w].op \in AnyEdit
      BY <2>22, <1>t, ConstantsAssumption DEF Apply, IType, WellFormed
    <3>2. PICK s \in {"corrected", "rejected", "escalated"} : row' = Save(job[w], s)
      BY <2>22, <3>1 DEF Apply, ActionOf, AnyEdit
    <3> QED BY <2>22, <2>0, <3>2, SaveDecided, CommitDecided DEF Apply
  <2> QED
    BY <2>1, <2>2, <2>3, <2>4, <2>5, <2>6, <2>7, <2>8, <2>9, <2>10, <2>11, <2>12, <2>13,
       <2>14, <2>15, <2>16, <2>17, <2>18, <2>19, <2>20, <2>21, <2>22 DEF Step
<1> QED BY <1>0, <1>1, <1>2, <1>3, <1>4, <1>5 DEF Next

\* The decision stored with a posted item is to submit it and with a held item
\* to hold it, even for a duplicate that the decision stage would have filed
\* (_hold_duplicate) and with stale copies saved by overlapping requests.
THEOREM DecisionMatchesStatusTheorem == Spec => []DecisionMatchesStatus
<1>1. IDecided => DecisionMatchesStatus
  BY DEF IDecided
<1> QED BY <1>1, DecidedInit, DecidedStep, PTL DEF Spec

-----------------------------------------------------------------------------
(* Requests that do not overlap *)

Busy(w) == ~At(w, "idle")

\* No two requests about one item overlap; any number about different items may.
Apart == \A v, w \in Worker : v # w /\ Busy(v) /\ Busy(w) => job[v].item # job[w].item

\* No two requests overlap at all.
Alone == \A v, w \in Worker : Busy(v) /\ Busy(w) => v = w

\* What a job may take for granted of its item as long as no other request touches
\* it.  The item is in the pipeline: it is not rejected, and not posted unless the
\* acknowledgement of the posting was lost.  A pass that has restarted the item has
\* cleared its exceptions and holds the reasons it will store; one about to append
\* works on an unrecorded item; a rerun has the reviewer's values in hand.  Without
\* faults nothing is recorded before the pass records it, and what it records is
\* what it is going to save.
Sound(j) ==
    LET i == j.item IN
    /\ j.pc # "idle" => row[i].status \notin {"absent", "rejected"}
    /\ j.pc \notin {"idle", "fail"} => row[i].status # "posted"
    /\ j.pc \in Guarded \ {"fail"} => excs[i] = {}
    /\ j.pc = "hold" => /\ j.why # {}
                        /\ j.why \subseteq HoldReason \union {"suspected_duplicate"}
    /\ j.pc = "fail" => j.why \intersect FailKind # {}
    /\ j.pc \in {"append", "record"} => appends[i] = 0
    /\ j.op = "rerun" => j.pc \notin {"idle", "parse", "extract", "store", "rebuild"}
    /\ j.op = "rerun" /\ j.pc \notin {"load", "audit", "fail"} /\ audit[i].overlay \in Meta
          => j.inv.meta = audit[i].overlay
    /\ faults = 0 =>
          /\ j.pc \notin {"idle", "post"} => appends[i] = 0
          /\ j.pc = "record" => sheet[i][j.ref] = j.inv.meta
          /\ j.pc = "post" => sheet[i][appends[i]] = j.inv.meta

\* What a first pass or a recovery that is about to file has made sure of.
Fresh(j) ==
    j.op # "rerun" /\ j.pc \in {"ledger", "append", "record", "post"}
       => ~LooksPosted(j.item, j.inv.meta)

\* What holds of an item whoever works on it.
Explained(i) ==
    /\ row[i].status = "held" =>
          excs[i] # {} /\ excs[i] \subseteq HoldReason \union {"suspected_duplicate"}
    /\ row[i].status = "failed" => excs[i] \intersect FailKind # {}
    /\ row[i].status \in {"absent", "posted"} => excs[i] = {}
    /\ row[i].status = "posted" /\ faults = 0 => sheet[i][appends[i]] = row[i].meta

\* Without faults, a recorded item is posted or about to be.
Settled(i) ==
    faults = 0 /\ appends[i] # 0 =>
        row[i].status = "posted" \/ \E w \in Worker : At(w, "post") /\ job[w].item = i

ISound ==
    /\ IRecorded
    /\ \A w \in Worker : Sound(job[w])
    /\ \A i \in Item : Explained(i) /\ Settled(i)

\* One step of one worker: it goes on to job j, and touches one item, its own or a
\* new one.
Turn(w) ==
    \E j, i :
        /\ job' = [job EXCEPT ![w] = j]
        /\ i \in Item
        /\ j.pc # "idle" => j.item = i
        /\ IF Busy(w) THEN i = job[w].item
           ELSE \/ row[i].status = "absent" /\ row'[i].status = "received"
                \/ UNCHANGED <<tables, sheet>>
        /\ \A k \in Item \ {i} :
              /\ row'[k] = row[k] /\ excs'[k] = excs[k] /\ audit'[k] = audit[k]
              /\ appends'[k] = appends[k] /\ sheet'[k] = sheet[k]
        /\ faults' = 0 => faults = 0
        /\ Sound(j)'
        /\ Explained(i)'
        /\ faults' = 0 /\ appends'[i] # 0 => row'[i].status = "posted" \/ j.pc = "post"
        /\ Fresh(job[w]) => Fresh(j)'

\* A job that is over, or that failed by a fault, takes little for granted.
LEMMA RaisedSound ==
  ASSUME IType, NEW w \in Worker, NEW r, r = Raised(job[w]),
         faults' # 0,
         r.pc = "idle" \/ row'[job[w].item].status \notin {"absent", "rejected"}
  PROVE  /\ Sound(r)' /\ Fresh(r)'
         /\ r.pc # "idle" => r.item = job[w].item
<1>1. job[w] \in Job
  BY DEF IType, WellFormed
<1>2. \/ r.pc = "idle" /\ r.op = "none"
      \/ r.pc = "fail" /\ r.why = {"stage_failure"} /\ r.item = job[w].item
  BY <1>1 DEF Raised, FailWith, NoJob, Job
<1> QED BY <1>2 DEF Sound, Fresh, FailKind, Guarded

\* A step that only reads or computes.
LEMMA LocalTurn ==
  ASSUME ISound, NEW w \in Worker, Busy(w), ~At(w, "post"), NEW j, Local(w, j),
         j.pc # "idle" => j.item = job[w].item,
         Sound(j), Fresh(job[w]) => Fresh(j)
  PROVE  Turn(w)
<1>1. /\ UNCHANGED <<row, excs, audit, appends, sheet, faults>>
      /\ job' = [job EXCEPT ![w] = j]
  BY DEF Local, Goto, tables
<1>2. Sound(j)' /\ (Fresh(job[w]) => Fresh(j)')
  BY <1>1 DEF Sound, Fresh, LooksPosted, Duplicates
<1>3. PICK i \in Item : i = job[w].item
  BY DEF ISound, IRecorded, IType, WellFormed, Busy, At
<1>4. Explained(i)'
  BY <1>1 DEF ISound, Explained
<1>5. faults' = 0 => appends'[i] = 0
  BY <1>1, <1>3 DEF ISound, Sound, Busy, At
<1> QED BY <1>1, <1>2, <1>3, <1>4, <1>5 DEF Turn

\* A transaction about the worker's item, whether it is acknowledged or not.
LEMMA CommitTurn ==
  ASSUME ISound, NEW w \in Worker, Busy(w), NEW i \in Item, i = job[w].item,
         NEW next, Commit(w, next), next.pc # "idle" => next.item = i,
         \A k \in Item \ {i} :
            /\ row'[k] = row[k] /\ excs'[k] = excs[k] /\ audit'[k] = audit[k]
            /\ appends'[k] = appends[k] /\ sheet'[k] = sheet[k],
         Raised(job[w]).pc = "idle" \/ row'[i].status \notin {"absent", "rejected"},
         Sound(next)', Explained(i)', Fresh(job[w]) => Fresh(next)',
         faults' = 0 /\ appends'[i] # 0 => row'[i].status = "posted" \/ next.pc = "post"
  PROVE  Turn(w)
<1>1. IType /\ faults \in Nat
  BY ConstantsAssumption DEF ISound, IRecorded, IType, TypeOK
<1>2. CASE Goto(w, next) /\ UNCHANGED faults
  BY <1>2 DEF Goto, Turn
<1>3. CASE Goto(w, Raised(job[w])) /\ Fault
  <2>1. faults' # 0 /\ faults' = faults + 1
    BY <1>1, <1>3 DEF Fault
  <2>2. PICK r : r = Raised(job[w])
    OBVIOUS
  <2>3. /\ Sound(r)' /\ Fresh(r)'
        /\ r.pc # "idle" => r.item = job[w].item
    BY <1>1, <2>1, <2>2, RaisedSound
  <2> QED BY <1>3, <2>1, <2>2, <2>3 DEF Goto, Turn
<1> QED BY <1>2, <1>3 DEF Commit

\* A transaction that moves the item on to a status of a running pass.
LEMMA AdvanceTurn ==
  ASSUME ISound, NEW w \in Worker, NEW i \in Item, i = job[w].item,
         job[w].pc \in {"parse", "store", "restart", "classify", "categorize"},
         NEW s \in InFlight, row' = Save(job[w], s), UNCHANGED <<appends, sheet>>,
         \A k \in Item \ {i} : excs'[k] = excs[k] /\ audit'[k] = audit[k],
         excs'[i] = {}, audit'[i].overlay = audit[i].overlay,
         NEW p \in {"extract", "rebuild", "classify", "categorize", "decide"},
         job[w].op = "rerun" => p \notin {"extract", "rebuild"},
         Commit(w, [job[w] EXCEPT !.pc = p])
  PROVE  Turn(w)
<1>1. /\ job[w] \in Job /\ IType /\ Sound(job[w])
      /\ row \in [Item -> Invoice]
  BY DEF ISound, IRecorded, IType, TypeOK
<1>2. /\ row'[i].status = s
      /\ \A k \in Item \ {i} : row'[k] = row[k]
      /\ s \notin {"absent", "rejected", "held", "failed", "posted"}
  BY <1>1 DEF Save, InFlight, LegacyStatus
<1>3. PICK next : next = [job[w] EXCEPT !.pc = p]
  OBVIOUS
<1>4. /\ next.pc = p /\ next.item = i /\ next.op = job[w].op
      /\ next.inv = job[w].inv
  BY <1>1, <1>3 DEF Job
<1>5. faults' = 0 => faults = 0
  BY <1>1, ConstantsAssumption DEF Commit, Fault, IType, TypeOK
<1>6. faults' = 0 => appends'[i] = 0
  BY <1>1, <1>5 DEF Sound
<1>7. Sound(next)' /\ Fresh(next)'
  BY <1>1, <1>2, <1>4, <1>6 DEF Sound, Fresh
<1>8. Explained(i)'
  BY <1>2 DEF Explained
<1> QED BY <1>2, <1>3, <1>4, <1>6, <1>7, <1>8, CommitTurn DEF Busy, At

LEMMA TurnTaken ==
  ASSUME ISound, Apart', Next
  PROVE  \E w \in Worker : Turn(w)
<1> USE DEF At
<1>t. /\ IType /\ faults \in Nat
      /\ \A v \in Worker : /\ job[v] \in Job /\ Sound(job[v])
                           /\ job[v].pc # "idle" => job[v].item \in Item
      /\ row \in [Item -> Invoice] /\ excs \in [Item -> SUBSET ExceptionType]
      /\ audit \in [Item -> Trail] /\ appends \in [Item -> Nat]
      /\ sheet \in [Item -> Seq(AnyMeta)] /\ job \in [Worker -> Job]
  BY ConstantsAssumption DEF ISound, IRecorded, IType, TypeOK, WellFormed
<1>n. NoJob.pc = "idle" /\ NoJob.op = "none" /\ Sound(NoJob) /\ Fresh(NoJob)
  BY DEF NoJob, Sound, Fresh, Guarded
\* A request is taken up only for an item that is not posted, and that no other
\* request is about to post.
<1>u. ASSUME NEW w \in Worker, ~Busy(w), NEW i \in Item,
             row[i].status \notin {"absent", "rejected", "posted"},
             NEW j, Local(w, j), j.item = i,
             j.pc \in {"load", "edit"}, j.op # "rerun" \/ j.pc = "load"
      PROVE  Turn(w)
  <2>1. /\ UNCHANGED <<row, excs, audit, appends, sheet, faults>>
        /\ job' = [job EXCEPT ![w] = j]
    BY <1>u DEF Local, Goto, tables
  <2>2. faults = 0 => appends[i] = 0
    <3> SUFFICES ASSUME faults = 0, appends[i] # 0 PROVE FALSE
      OBVIOUS
    <3>1. PICK v \in Worker : job[v].pc = "post" /\ job[v].item = i
      BY <1>u DEF ISound, Settled
    <3>2. v # w /\ job'[v] = job[v] /\ job'[w] = j
      BY <1>t, <1>u, <2>1, <3>1 DEF Busy
    <3> QED BY <1>u, <3>1, <3>2 DEF Apart, Busy
  <2>3. Sound(j)' /\ Fresh(j)'
    BY <1>u, <2>1, <2>2 DEF Sound, Fresh, Guarded
  <2>4. Explained(i)'
    BY <2>1 DEF ISound, Explained
  <2> QED BY <1>u, <2>1, <2>2, <2>3, <2>4 DEF Turn, tables
<1>1. ASSUME NEW w \in Worker, NEW i \in Item, Receive(w, i)
      PROVE  Turn(w)
  <2>1. /\ \A k \in Item \ {i} : row'[k] = row[k]
        /\ row'[i].status = "received"
        /\ row[i].status = "absent"
    BY <1>1, <1>t DEF Receive
  <2>2. excs[i] = {} /\ UNCHANGED <<excs, audit, appends, sheet>>
    BY <1>1, <2>1 DEF Receive, ISound, Explained
  <2>3. Explained(i)'
    BY <2>1, <2>2 DEF Explained
  <2>4. faults = 0 => appends[i] = 0
    <3> SUFFICES ASSUME faults = 0, appends[i] # 0 PROVE FALSE
      OBVIOUS
    <3>1. PICK v \in Worker : job[v].pc = "post" /\ job[v].item = i
      BY <2>1 DEF ISound, Settled
    <3> QED BY <1>t, <2>1, <3>1 DEF Sound
  <2>5. CASE Goto(w, [NoJob EXCEPT !.op = "process", !.pc = "parse", !.item = i])
             /\ UNCHANGED faults
    <3>1. PICK j : j = [NoJob EXCEPT !.op = "process", !.pc = "parse", !.item = i]
      OBVIOUS
    <3>2. j.op = "process" /\ j.pc = "parse" /\ j.item = i
      BY <3>1 DEF NoJob
    <3>3. Sound(j)' /\ Fresh(j)'
      BY <2>1, <2>2, <2>4, <2>5, <3>2 DEF Sound, Fresh
    <3> QED BY <1>1, <2>1, <2>2, <2>3, <2>4, <2>5, <3>1, <3>2, <3>3 DEF Receive, Goto, Turn, Busy
  <2>6. CASE Goto(w, Raised(job[w])) /\ Fault
    <3>1. PICK j : j = NoJob
      OBVIOUS
    <3>2. Raised(job[w]) = NoJob
      BY <1>1 DEF Receive, Raised, Guarded
    <3>3. Sound(j)' /\ Fresh(j)' /\ j.pc = "idle"
      BY <1>n, <3>1 DEF Sound, Fresh, Guarded
    <3>4. faults' # 0
      BY <1>t, <2>6 DEF Fault
    <3> QED BY <1>1, <2>1, <2>2, <2>3, <2>6, <3>1, <3>2, <3>3, <3>4 DEF Receive, Goto, Turn, Busy
  <2> QED BY <1>1, <2>5, <2>6 DEF Receive, Commit
<1>2. ASSUME NEW w \in Worker, NEW i \in Item, NEW op \in {"rerun", "retry"},
             RequestPass(w, i, op)
      PROVE  Turn(w)
  <2>1. row[i].status \notin {"absent", "rejected", "posted"}
    BY <1>2
       DEF RequestPass, IsAllowed, AllowedFrom, RerunFrom, RetryFrom, InFlight, LegacyStatus
  <2>2. PICK j : j = [NoJob EXCEPT !.op = op, !.pc = "load", !.item = i]
    OBVIOUS
  <2>3. j.pc = "load" /\ j.item = i
    BY <2>2 DEF NoJob
  <2> QED BY <1>2, <1>u, <2>1, <2>2, <2>3 DEF RequestPass, Busy
<1>3. ASSUME NEW w \in Worker, NEW i \in Item, NEW op \in Edit, RequestEdit(w, i, op)
      PROVE  Turn(w)
  <2>1. PICK t \in Typed :
           Local(w, [NoJob EXCEPT !.op = op, !.pc = "edit", !.item = i, !.typed = t,
                        !.inv = [decision |-> row[i].decision, meta |-> row[i].meta]])
    BY <1>3 DEF RequestEdit, Typed
  <2>2. PICK j : j = [NoJob EXCEPT !.op = op, !.pc = "edit", !.item = i, !.typed = t,
                         !.inv = [decision |-> row[i].decision, meta |-> row[i].meta]]
    OBVIOUS
  <2>3. j.pc = "edit" /\ j.item = i /\ j.op = op /\ op # "rerun"
    BY <2>2, ConstantsAssumption DEF NoJob, AnyEdit
  <2>4. ActionOf(op) \in {"correct", "reject", "escalate"}
    BY ConstantsAssumption DEF ActionOf, AnyEdit
  <2>5. row[i].status \notin {"absent", "rejected", "posted"}
    BY <1>3, <2>4
       DEF RequestEdit, IsAllowed, AllowedFrom, CorrectFrom, RejectFrom, EscalateFrom, InFlight,
           LegacyStatus
  <2> QED BY <1>3, <1>u, <2>1, <2>2, <2>3, <2>5 DEF RequestEdit, Busy
<1>4. ASSUME NEW w \in Worker, Crash(w) \/ DatabaseError(w)
      PROVE  Turn(w)
  <2>1. PICK j \in {NoJob, Raised(job[w])} : job' = [job EXCEPT ![w] = j]
    BY <1>4 DEF Crash, DatabaseError, Goto
  <2>2. /\ UNCHANGED <<row, excs, audit, appends, sheet>> /\ faults' # 0
        /\ job[w].pc # "idle"
    BY <1>4, <1>t DEF Crash, DatabaseError, Fault, tables
  <2>3. PICK i \in Item : i = job[w].item
    BY <1>t, <2>2
  <2>4. row'[i].status \notin {"absent", "rejected"}
    BY <1>t, <2>2, <2>3 DEF Sound
  <2>5. Sound(j)' /\ Fresh(j)' /\ (j.pc # "idle" => j.item = i)
    <3>1. CASE j = NoJob
      BY <1>n, <3>1 DEF Sound, Fresh, Guarded
    <3>2. CASE j = Raised(job[w])
      BY <1>t, <2>2, <2>3, <2>4, <3>2, RaisedSound
    <3> QED BY <2>1, <3>1, <3>2
  <2>6. Explained(i)'
    BY <2>2 DEF ISound, Explained
  <2> QED BY <2>1, <2>2, <2>3, <2>5, <2>6 DEF Turn, Busy
<1>5. ASSUME NEW w \in Worker, Step(w)
      PROVE  Turn(w)
  <2> USE <1>5
  <2>0. /\ job[w] \in Job /\ Sound(job[w])
        /\ job[w].pc # "idle" => job[w].item \in Item
    BY <1>t
  <2>1. CASE Parse(w)
    BY <2>0, <2>1, AdvanceTurn DEF Parse, InFlight, Sound, Guarded
  <2>2. CASE Extract(w)
    <3>1. PICK m \in Meta :
             Local(w, [job[w] EXCEPT !.pc = "store", !.inv.meta = m, !.scored = TRUE])
      BY <2>2 DEF Extract
    <3>2. PICK j : j = [job[w] EXCEPT !.pc = "store", !.inv.meta = m, !.scored = TRUE]
      OBVIOUS
    <3>3. j.pc = "store" /\ j.item = job[w].item /\ j.op = job[w].op
      BY <2>0, <3>2 DEF Job
    <3>4. Sound(j) /\ Fresh(j)
      BY <2>0, <2>2, <3>3 DEF Extract, Sound, Fresh, Guarded
    <3> QED BY <2>2, <3>1, <3>2, <3>3, <3>4, LocalTurn DEF Extract, Busy
  <2>3. CASE ExtractFails(w)
    <3>1. PICK j : j = FailWith(job[w], "extraction_failed")
      OBVIOUS
    <3>2. j.pc = "fail" /\ j.item = job[w].item /\ j.op = job[w].op /\ j.why = {"extraction_failed"}
      BY <2>0, <3>1 DEF FailWith, Job
    <3>3. Sound(j) /\ Fresh(j)
      BY <2>0, <2>3, <3>2 DEF ExtractFails, Sound, Fresh, FailKind
    <3> QED BY <2>3, <3>1, <3>2, <3>3, LocalTurn DEF ExtractFails, Busy
  <2>4. CASE StoreExtraction(w)
    <3>1. /\ audit'[job[w].item].overlay = audit[job[w].item].overlay
          /\ \A k \in Item \ {job[w].item} : audit'[k] = audit[k]
      BY <1>t, <2>4 DEF StoreExtraction, Trail
    <3> QED BY <2>0, <2>4, <3>1, AdvanceTurn DEF StoreExtraction, InFlight, Sound, Guarded
  <2>5. CASE Load(w)
    <3>1. PICK j : j = [job[w] EXCEPT !.pc = "audit",
                           !.inv = [decision |-> row[job[w].item].decision,
                                    meta |-> row[job[w].item].meta]]
      OBVIOUS
    <3>2. j.pc = "audit" /\ j.item = job[w].item /\ j.op = job[w].op
      BY <2>0, <3>1 DEF Job
    <3>3. Sound(j) /\ Fresh(j)
      BY <2>0, <2>5, <3>2 DEF Load, Sound, Fresh, Guarded
    <3> QED BY <2>5, <3>1, <3>2, <3>3, LocalTurn DEF Load, Busy
  <2>6. CASE ReadAudit(w)
    <3> DEFINE a == audit[job[w].item]
    <3>1. CASE job[w].op = "rerun" /\ a.overlay = Bad
      BY <1>n, <2>6, <3>1, LocalTurn DEF ReadAudit, Busy
    <3>2. CASE job[w].op = "rerun" /\ a.overlay # Bad
      <4>1. PICK j : j = [job[w] EXCEPT
                             !.pc = "restart",
                             !.inv.meta = Effective(job[w].inv.meta, a.overlay),
                             !.scored = a.extracted \/ a.items \/ a.overlay \in Meta]
        OBVIOUS
      <4>2. /\ j.pc = "restart" /\ j.item = job[w].item /\ j.op = job[w].op
            /\ a.overlay \in Meta => j.inv.meta = a.overlay
        BY <2>0, <4>1 DEF Job, Effective
      <4>3. Sound(j) /\ Fresh(j)
        BY <2>0, <2>6, <4>2 DEF ReadAudit, Sound, Fresh, Guarded
      <4> QED BY <2>6, <3>2, <4>1, <4>2, <4>3, LocalTurn DEF ReadAudit, Busy
    <3>3. CASE job[w].op # "rerun"
      <4>1. PICK j : j = [job[w] EXCEPT !.pc = "restart", !.trail = a]
        OBVIOUS
      <4>2. j.pc = "restart" /\ j.item = job[w].item /\ j.op = job[w].op
        BY <2>0, <4>1 DEF Job
      <4>3. Sound(j) /\ Fresh(j)
        BY <2>0, <2>6, <3>3, <4>2 DEF ReadAudit, Sound, Fresh, Guarded
      <4> QED BY <2>6, <3>3, <4>1, <4>2, <4>3, LocalTurn DEF ReadAudit, Busy
    <3> QED BY <3>1, <3>2, <3>3
  <2>7. CASE Restart(w)
    <3>1. excs' = [excs EXCEPT ![job[w].item] = {}]
      BY <1>t, <2>7 DEF Restart, Superseded
    <3>2. PICK p \in {"classify", "rebuild"} :
             /\ p = IF job[w].op = "rerun" THEN "classify" ELSE "rebuild"
             /\ Commit(w, [job[w] EXCEPT !.pc = p])
      BY <2>7 DEF Restart
    <3>3. /\ excs'[job[w].item] = {}
          /\ \A k \in Item \ {job[w].item} : excs'[k] = excs[k]
      BY <1>t, <2>0, <2>7, <3>1 DEF Restart
    <3> QED BY <2>0, <2>7, <3>2, <3>3, AdvanceTurn DEF Restart, InFlight
  <2>r. ASSUME job[w].pc \in {"classify", "parse", "rebuild", "append"}
        PROVE  Sound(Raised(job[w])) /\ Fresh(Raised(job[w])) /\ Raised(job[w]).item = job[w].item
    <3>1. PICK j : j = Raised(job[w])
      OBVIOUS
    <3>2. j.pc = "fail" /\ j.item = job[w].item /\ j.op = job[w].op /\ j.why = {"stage_failure"}
      BY <2>0, <2>r, <3>1 DEF Raised, FailWith, Job, Guarded
    <3>3. Sound(j) /\ Fresh(j)
      BY <2>0, <2>r, <3>2 DEF Sound, Fresh, FailKind
    <3> QED BY <3>1, <3>2, <3>3
  <2>8. CASE Reconstruct(w)
    <3>1. PICK j : j = [job[w] EXCEPT
                           !.pc = "classify",
                           !.inv.meta = Effective(job[w].inv.meta, job[w].trail.overlay),
                           !.scored = TRUE, !.trail = NoTrail]
      OBVIOUS
    <3>2. j.pc = "classify" /\ j.item = job[w].item /\ j.op = job[w].op
      BY <2>0, <3>1 DEF Job
    <3>3. Sound(j) /\ Fresh(j)
      BY <2>0, <2>8, <3>2 DEF Reconstruct, Sound, Fresh, Guarded
    <3> QED BY <2>8, <2>r, <3>1, <3>2, <3>3, LocalTurn DEF Reconstruct, Busy
  <2>9. CASE ReExtract(w)
    <3>1. PICK m \in Meta :
             Commit(w, [job[w] EXCEPT !.pc = "classify", !.inv.meta = m,
                                      !.scored = TRUE, !.trail = NoTrail])
      BY <2>9 DEF ReExtract
    <3>2. PICK j : j = [job[w] EXCEPT !.pc = "classify", !.inv.meta = m,
                                      !.scored = TRUE, !.trail = NoTrail]
      OBVIOUS
    <3>3. j.pc = "classify" /\ j.item = job[w].item /\ j.op = job[w].op
      BY <2>0, <3>2 DEF Job
    <3>4. PICK i \in Item : i = job[w].item
      BY <2>0, <2>9 DEF ReExtract
    <3>5. UNCHANGED <<row, excs, appends, sheet>> /\ \A k \in Item \ {i} : audit'[k] = audit[k]
      BY <1>t, <2>9, <3>4 DEF ReExtract
    <3>6. faults' = 0 => faults = 0 /\ appends'[i] = 0
      BY <1>t, <2>0, <2>9, <3>1, <3>4, <3>5 DEF ReExtract, Commit, Fault, Sound
    <3>7. Sound(j)' /\ Fresh(j)'
      BY <2>0, <2>9, <3>3, <3>4, <3>5, <3>6 DEF ReExtract, Sound, Fresh, Guarded
    <3>8. Explained(i)'
      BY <3>5, <3>6 DEF ISound, Explained
    <3>9. row'[i].status \notin {"absent", "rejected"}
      BY <2>0, <2>9, <3>4, <3>5 DEF ReExtract, Sound
    <3> QED BY <2>9, <3>1, <3>2, <3>3, <3>4, <3>5, <3>6, <3>7, <3>8, <3>9, CommitTurn DEF ReExtract, Busy
  <2>10. CASE Classify(w)
    BY <2>0, <2>10, AdvanceTurn DEF Classify, InFlight, Sound, Guarded
  <2>11. CASE Categorize(w)
    BY <2>0, <2>11, AdvanceTurn DEF Categorize, InFlight, Sound, Guarded
  <2>12. CASE Decide(w)
    <3>1. PICK flags \in SUBSET HoldReason :
             Local(w, IF flags # {}
                      THEN [job[w] EXCEPT !.pc = "hold", !.why = flags, !.inv.decision = "hold"]
                      ELSE [job[w] EXCEPT
                               !.pc = IF ChecksDuplicates(job[w].op) THEN "dupcheck" ELSE "ledger",
                               !.inv.decision = "submit"])
      BY <2>12 DEF Decide, PossibleFlags
    <3>2. CASE flags # {}
      <4>1. PICK j : j = [job[w] EXCEPT !.pc = "hold", !.why = flags, !.inv.decision = "hold"]
        OBVIOUS
      <4>2. /\ j.pc = "hold" /\ j.item = job[w].item /\ j.op = job[w].op /\ j.why = flags
            /\ j.inv.meta = job[w].inv.meta
        BY <2>0, <4>1 DEF Job
      <4>3. Sound(j) /\ Fresh(j)
        BY <2>0, <2>12, <3>2, <4>2 DEF Decide, Sound, Fresh, Guarded
      <4> QED BY <2>12, <3>1, <3>2, <4>1, <4>2, <4>3, LocalTurn DEF Decide, Busy
    <3>3. CASE flags = {}
      <4>1. PICK j : j = [job[w] EXCEPT
                             !.pc = IF ChecksDuplicates(job[w].op) THEN "dupcheck" ELSE "ledger",
                             !.inv.decision = "submit"]
        OBVIOUS
      <4>2. /\ j.pc \in {"dupcheck", "ledger"} /\ j.item = job[w].item /\ j.op = job[w].op
            /\ j.inv.meta = job[w].inv.meta
            /\ j.op # "rerun" => j.pc = "dupcheck"
        BY <2>0, <4>1 DEF Job, ChecksDuplicates
      <4>3. Sound(j) /\ Fresh(j)
        BY <2>0, <2>12, <4>2 DEF Decide, Sound, Fresh, Guarded
      <4> QED BY <2>12, <3>1, <3>3, <4>1, <4>2, <4>3, LocalTurn DEF Decide, Busy
    <3> QED BY <3>2, <3>3
  <2>13. CASE CheckDuplicates(w)
    <3>1. CASE LooksPosted(job[w].item, job[w].inv.meta)
      <4>1. PICK j : j = HoldDuplicate(job[w])
        OBVIOUS
      <4>2. /\ j.pc = "hold" /\ j.item = job[w].item /\ j.op = job[w].op
            /\ j.why = {"suspected_duplicate"} /\ j.inv.meta = job[w].inv.meta
        BY <2>0, <4>1 DEF HoldDuplicate, Job
      <4>3. Sound(j) /\ Fresh(j)
        BY <2>0, <2>13, <4>2 DEF CheckDuplicates, Sound, Fresh, Guarded
      <4> QED BY <2>13, <3>1, <4>1, <4>2, <4>3, LocalTurn DEF CheckDuplicates, Busy
    <3>2. CASE ~LooksPosted(job[w].item, job[w].inv.meta)
      <4>1. PICK j : j = [job[w] EXCEPT !.pc = "ledger"]
        OBVIOUS
      <4>2. /\ j.pc = "ledger" /\ j.item = job[w].item /\ j.op = job[w].op
            /\ j.inv.meta = job[w].inv.meta
        BY <2>0, <4>1 DEF Job
      <4>3. Sound(j) /\ Fresh(j)
        BY <2>0, <2>13, <3>2, <4>2 DEF CheckDuplicates, Sound, Fresh, Guarded
      <4> QED BY <2>13, <3>2, <4>1, <4>2, <4>3, LocalTurn DEF CheckDuplicates, Busy
    <3> QED BY <3>1, <3>2
  <2>14. CASE Hold(w)
    <3>1. PICK i \in Item : i = job[w].item
      BY <2>0, <2>14 DEF Hold
    <3>2. /\ row'[i].status = "held" /\ \A k \in Item \ {i} : row'[k] = row[k]
          /\ excs' = [excs EXCEPT ![i] = @ \union job[w].why]
          /\ UNCHANGED <<audit, appends, sheet>>
      BY <1>t, <2>14, <3>1 DEF Hold, Save
    <3>3. excs[i] = {} /\ job[w].why # {}
          /\ job[w].why \subseteq HoldReason \union {"suspected_duplicate"}
      BY <2>0, <2>14, <3>1 DEF Hold, Sound, Guarded
    <3>4. excs'[i] = job[w].why /\ \A k \in Item \ {i} : excs'[k] = excs[k]
      BY <1>t, <3>2, <3>3
    <3>5. Explained(i)'
      BY <3>2, <3>3, <3>4 DEF Explained
    <3>6. PICK j : j = NoJob
      OBVIOUS
    <3>7. Sound(j)' /\ Fresh(j)' /\ j.pc = "idle"
      BY <1>n, <3>6 DEF Sound, Fresh, Guarded
    <3>8. faults' = 0 => appends'[i] = 0
      BY <1>t, <2>0, <2>14, <3>1, <3>2 DEF Hold, Commit, Fault, Sound
    <3> QED BY <2>14, <3>1, <3>2, <3>4, <3>5, <3>6, <3>7, <3>8, CommitTurn DEF Hold, Busy
  <2>15. CASE Fail(w)
    <3>1. PICK i \in Item : i = job[w].item
      BY <2>0, <2>15 DEF Fail
    <3>2. /\ row'[i].status = "failed" /\ \A k \in Item \ {i} : row'[k] = row[k]
          /\ excs' = [excs EXCEPT ![i] = @ \union job[w].why]
          /\ UNCHANGED <<audit, appends, sheet>>
      BY <1>t, <2>15, <3>1 DEF Fail, Save
    <3>3. excs'[i] \intersect FailKind # {} /\ \A k \in Item \ {i} : excs'[k] = excs[k]
      BY <1>t, <2>0, <2>15, <3>1, <3>2 DEF Fail, Sound
    <3>4. Explained(i)'
      BY <3>2, <3>3 DEF Explained
    <3>5. PICK j : j = NoJob
      OBVIOUS
    <3>6. Sound(j)' /\ Fresh(j)' /\ j.pc = "idle"
      BY <1>n, <3>5 DEF Sound, Fresh, Guarded
    <3>7. faults' = 0 => appends'[i] = 0
      BY <1>t, <2>0, <2>15, <3>1, <3>2 DEF Fail, Commit, Fault, Sound
    <3> QED BY <2>15, <3>1, <3>2, <3>3, <3>4, <3>5, <3>6, <3>7, CommitTurn DEF Fail, Busy
  <2>16. CASE StageRaises(w)
    BY <2>16, <2>r, LocalTurn DEF StageRaises, Busy
  <2>17. CASE CheckLedger(w)
    <3>1. PICK j : j = [job[w] EXCEPT !.pc = IF IsAppended(job[w].item) THEN "post" ELSE "append"]
      OBVIOUS
    <3>2. /\ j.pc = IF IsAppended(job[w].item) THEN "post" ELSE "append"
          /\ j.item = job[w].item /\ j.op = job[w].op /\ j.inv = job[w].inv
      BY <2>0, <3>1 DEF Job
    <3>3. Sound(j)
      BY <2>0, <2>17, <3>2 DEF CheckLedger, IsAppended, Sound, Guarded
    <3>4. Fresh(job[w]) => Fresh(j)
      BY <2>17, <3>2 DEF CheckLedger, Fresh
    <3> QED BY <2>17, <3>1, <3>2, <3>3, <3>4, LocalTurn DEF CheckLedger, Busy
  \* What a failed attempt to append goes on with.
  <2>e. ASSUME job[w].pc = "append"
        PROVE  /\ AppendError(job[w]).item = job[w].item
               /\ \/ /\ AppendError(job[w]).pc = "ledger"
                     /\ AppendError(job[w]).op = job[w].op
                     /\ AppendError(job[w]).inv = job[w].inv
                  \/ /\ AppendError(job[w]).pc = "fail"
                     /\ AppendError(job[w]).op = job[w].op
                     /\ AppendError(job[w]).why = {"sheet_write_failed"}
    <3>1. CASE job[w].tries + 1 < RetryAttempts
      BY <2>0, <2>e, <3>1 DEF AppendError, Job
    <3>2. CASE ~(job[w].tries + 1 < RetryAttempts)
      BY <2>0, <2>e, <3>2 DEF AppendError, FailWith, Job
    <3> QED BY <3>1, <3>2
  <2>18. CASE AppendRow(w)
    <3>1. PICK i \in Item : i = job[w].item
      BY <2>0, <2>18 DEF AppendRow
    <3>2. /\ UNCHANGED <<row, excs, audit, appends>>
          /\ \A k \in Item \ {i} : sheet'[k] = sheet[k]
          /\ sheet'[i] = Append(sheet[i], job[w].inv.meta)
          /\ appends[i] = 0
          /\ row[i].status \notin {"absent", "rejected", "posted"} /\ excs[i] = {}
      BY <1>t, <2>0, <2>18, <3>1 DEF AppendRow, NewRow, tables, Sound, Guarded
    <3>3. Explained(i)'
      BY <3>2 DEF ISound, Explained
    <3>4. Len(sheet[i]) \in Nat /\ sheet'[i][Len(sheet[i]) + 1] = job[w].inv.meta
      <4>1. sheet[i] \in Seq(AnyMeta) /\ job[w].inv.meta \in AnyMeta
        BY <1>t, <2>0 DEF Job
      <4> QED BY <3>2, <4>1
    <3>5. ASSUME NEW j, Goto(w, j), j.item = i, faults' = 0 => faults = 0,
                 Sound(j)', Fresh(job[w]) => Fresh(j)'
          PROVE  Turn(w)
      BY <2>18, <3>1, <3>2, <3>3, <3>5 DEF AppendRow, Goto, Turn, Busy
    <3>6. CASE /\ Goto(w, [job[w] EXCEPT !.pc = "record", !.ref = Len(sheet[job[w].item]) + 1])
               /\ UNCHANGED faults
      <4>1. PICK j : j = [job[w] EXCEPT !.pc = "record", !.ref = Len(sheet[job[w].item]) + 1]
        OBVIOUS
      <4>2. /\ j.pc = "record" /\ j.item = i /\ j.op = job[w].op /\ j.inv = job[w].inv
            /\ j.ref = Len(sheet[i]) + 1
        BY <2>0, <3>1, <4>1 DEF Job
      <4>3. Sound(j)'
        BY <2>0, <2>18, <3>1, <3>2, <3>4, <4>2 DEF AppendRow, Sound, Guarded
      <4>4. Fresh(job[w]) => Fresh(j)'
        BY <2>18, <3>1, <3>2, <4>2 DEF AppendRow, Fresh, LooksPosted, Duplicates
      <4> QED BY <3>5, <3>6, <4>1, <4>2, <4>3, <4>4
    <3>7. CASE Goto(w, AppendError(job[w])) /\ Fault
      <4>1. faults' # 0
        BY <1>t, <3>7 DEF Fault
      <4>2. PICK j : j = AppendError(job[w])
        OBVIOUS
      <4>3. Sound(j)'
        BY <2>0, <2>18, <2>e, <3>1, <3>2, <4>1, <4>2 DEF AppendRow, Sound, Guarded, FailKind
      <4>4. Fresh(job[w]) => Fresh(j)'
        BY <2>18, <2>e, <3>1, <3>2, <4>2 DEF AppendRow, Fresh, LooksPosted, Duplicates
      <4> QED BY <2>18, <2>e, <3>1, <3>5, <3>7, <4>1, <4>2, <4>3, <4>4 DEF AppendRow
    <3>8. CASE Goto(w, Raised(job[w])) /\ Fault
      <4>1. faults' # 0
        BY <1>t, <3>8 DEF Fault
      <4>2. PICK j : j = Raised(job[w])
        OBVIOUS
      <4>3. Sound(j)' /\ Fresh(j)' /\ j.item = i
        BY <1>t, <2>18, <2>r, <3>1, <3>2, <4>1, <4>2, RaisedSound DEF AppendRow
      <4> QED BY <3>5, <3>8, <4>1, <4>2, <4>3
    <3> QED BY <2>18, <3>6, <3>7, <3>8 DEF AppendRow
  <2>19. CASE AppendRefused(w)
    <3>1. job[w].pc = "append"
      BY <2>19 DEF AppendRefused
    <3>2. CASE Local(w, AppendError(job[w]))
      <4>1. PICK j : j = AppendError(job[w])
        OBVIOUS
      <4>2. Sound(j)
        BY <2>0, <2>e, <3>1, <4>1 DEF Sound, Guarded, FailKind
      <4>3. Fresh(job[w]) => Fresh(j)
        BY <2>e, <3>1, <4>1 DEF Fresh
      <4> QED BY <2>e, <3>1, <3>2, <4>1, <4>2, <4>3, LocalTurn DEF Busy
    <3>3. CASE Local(w, Raised(job[w]))
      BY <2>r, <3>1, <3>3, LocalTurn DEF Busy
    <3> QED BY <2>19, <3>2, <3>3 DEF AppendRefused
  <2>20. CASE RecordAppend(w)
    <3>1. PICK i \in Item : i = job[w].item
      BY <2>0, <2>20 DEF RecordAppend
    <3>2. PICK ref \in Nat : ref = job[w].ref
      BY <2>0 DEF Job
    <3>3. /\ UNCHANGED <<row, excs, audit, sheet>>
          /\ \A k \in Item \ {i} : appends'[k] = appends[k]
          /\ appends[i] = 0 /\ appends'[i] = ref
          /\ row[i].status \notin {"absent", "rejected", "posted"} /\ excs[i] = {}
      BY <1>t, <2>0, <2>20, <3>1, <3>2 DEF RecordAppend, FirstRef, Sound, Guarded
    <3>4. PICK j : j = [job[w] EXCEPT !.pc = "post"]
      OBVIOUS
    <3>5. j.pc = "post" /\ j.item = i /\ j.op = job[w].op /\ j.inv = job[w].inv
      BY <2>0, <3>1, <3>4 DEF Job
    <3>6. faults' = 0 => faults = 0
      BY <1>t, <2>20 DEF RecordAppend, Commit, Fault
    <3>7. Sound(j)'
      BY <2>0, <2>20, <3>1, <3>2, <3>3, <3>5, <3>6 DEF RecordAppend, Sound, Guarded
    <3>8. Fresh(job[w]) => Fresh(j)'
      BY <2>20, <3>1, <3>3, <3>5 DEF RecordAppend, Fresh, LooksPosted, Duplicates
    <3>9. Explained(i)'
      BY <3>3 DEF ISound, Explained
    <3> QED BY <2>20, <3>1, <3>3, <3>4, <3>5, <3>7, <3>8, <3>9, CommitTurn DEF RecordAppend, Busy
  <2>21. CASE Post(w)
    <3>1. PICK i \in Item : i = job[w].item
      BY <2>0, <2>21 DEF Post
    <3>2. /\ row'[i].status = "posted" /\ row'[i].meta = job[w].inv.meta
          /\ \A k \in Item \ {i} : row'[k] = row[k]
          /\ UNCHANGED <<excs, audit, appends, sheet>>
          /\ excs[i] = {}
      BY <1>t, <2>0, <2>21, <3>1 DEF Post, Save, Sound, Guarded
    <3>3. PICK j : j = NoJob
      OBVIOUS
    <3>4. Sound(j)' /\ Fresh(j)' /\ j.pc = "idle"
      BY <1>n, <3>3 DEF Sound, Fresh, Guarded
    <3>5. faults' = 0 => faults = 0
      BY <1>t, <2>21 DEF Post, Commit, Fault
    <3>6. Explained(i)'
      BY <2>0, <2>21, <3>1, <3>2, <3>5 DEF Post, Sound, Explained
    <3> QED BY <2>21, <3>1, <3>2, <3>3, <3>4, <3>6, CommitTurn DEF Post, Busy
  <2>22. CASE Apply(w)
    <3>1. job[w].op \in AnyEdit /\ job[w].op # "rerun"
      BY <2>22, <1>t, ConstantsAssumption DEF Apply, ISound, IRecorded, IType, WellFormed, AnyEdit
    <3>2. PICK s \in {"corrected", "rejected", "escalated"} : row' = Save(job[w], s)
      BY <2>22, <3>1 DEF Apply, ActionOf, AnyEdit
    <3>3. PICK i \in Item : i = job[w].item
      BY <2>0, <2>22 DEF Apply
    <3>4. /\ row'[i].status = s /\ \A k \in Item \ {i} : row'[k] = row[k]
          /\ UNCHANGED <<excs, appends, sheet>>
      <4>1. UNCHANGED <<excs, appends, sheet>>
        BY <2>22 DEF Apply
      <4> QED BY <1>t, <3>2, <3>3, <4>1 DEF Save
    <3>5. \A k \in Item \ {i} : audit'[k] = audit[k]
      BY <1>t, <2>22, <3>3 DEF Apply
    <3>6. PICK j : j = NoJob
      OBVIOUS
    <3>7. Sound(j)' /\ Fresh(j)' /\ j.pc = "idle"
      BY <1>n, <3>6 DEF Sound, Fresh, Guarded
    <3>8. faults' = 0 => appends'[i] = 0
      BY <1>t, <2>0, <2>22, <3>3, <3>4 DEF Apply, Commit, Fault, Sound
    <3>9. Explained(i)'
      BY <3>4 DEF Explained
    <3>10. Raised(job[w]).pc = "idle"
      BY <1>n, <2>22 DEF Apply, Raised, Guarded
    <3> QED
      BY <2>22, <3>3, <3>4, <3>5, <3>6, <3>7, <3>8, <3>9, <3>10, CommitTurn DEF Apply, Busy
  <2> QED
    BY <2>1, <2>2, <2>3, <2>4, <2>5, <2>6, <2>7, <2>8, <2>9, <2>10, <2>11, <2>12, <2>13,
       <2>14, <2>15, <2>16, <2>17, <2>18, <2>19, <2>20, <2>21, <2>22 DEF Step
<1> QED BY <1>1, <1>2, <1>3, <1>4, <1>5 DEF Next

\* What a job takes for granted depends on its own item only.
LEMMA SoundElsewhere ==
  ASSUME NEW j, NEW i, i = j.item, Sound(j), faults' = 0 => faults = 0,
         row'[i] = row[i], excs'[i] = excs[i], audit'[i] = audit[i],
         appends'[i] = appends[i], sheet'[i] = sheet[i]
  PROVE  Sound(j)'
BY DEF Sound

\* One worker's turn leaves alone what the others take for granted of their items.
LEMMA SoundStep ==
  ASSUME ISound, Apart, Apart', [Next]_vars
  PROVE  ISound'
<1> USE DEF At
<1>t. /\ IRecorded /\ IType /\ IRecorded'
      /\ \A v \in Worker : /\ job[v] \in Job /\ Sound(job[v])
                           /\ job[v].pc # "idle" => job[v].item \in Item
      /\ job \in [Worker -> Job]
  BY RecordedStep DEF ISound, IRecorded, IType, TypeOK, WellFormed
<1>0. CASE UNCHANGED vars
  BY <1>0, <1>t DEF vars, ISound, Sound, Explained, Settled
<1>1. CASE Next
  <2>1. PICK w \in Worker : Turn(w)
    BY <1>1, TurnTaken
  <2>2. PICK j, i :
        /\ job' = [job EXCEPT ![w] = j]
        /\ i \in Item
        /\ j.pc # "idle" => j.item = i
        /\ IF Busy(w) THEN i = job[w].item
           ELSE \/ row[i].status = "absent" /\ row'[i].status = "received"
                \/ UNCHANGED <<tables, sheet>>
        /\ \A k \in Item \ {i} :
              /\ row'[k] = row[k] /\ excs'[k] = excs[k] /\ audit'[k] = audit[k]
              /\ appends'[k] = appends[k] /\ sheet'[k] = sheet[k]
        /\ faults' = 0 => faults = 0
        /\ Sound(j)'
        /\ Explained(i)'
        /\ faults' = 0 /\ appends'[i] # 0 => row'[i].status = "posted" \/ j.pc = "post"
    BY <2>1 DEF Turn
  <2>3. job'[w] = j /\ \A v \in Worker \ {w} : job'[v] = job[v]
    BY <1>t, <2>2
  <2>4. ASSUME NEW v \in Worker PROVE Sound(job[v])'
    <3>u. PICK u : u = job[v]
      OBVIOUS
    <3>1. CASE v = w
      BY <2>2, <2>3, <3>1 DEF Sound
    <3>2. CASE v # w /\ ~Busy(v)
      BY <1>t, <2>3, <3>2 DEF Sound, Busy, Guarded
    <3>3. CASE v # w /\ Busy(v) /\ Busy(w)
      <4>1. job[v].item \in Item \ {i} /\ job'[v] = job[v]
        BY <1>t, <2>2, <2>3, <3>3 DEF Apart, Busy
      <4>2. Sound(u)'
        BY <1>t, <2>2, <3>u, <4>1, SoundElsewhere
      <4> QED BY <3>u, <4>1, <4>2 DEF Sound
    <3>4. CASE v # w /\ Busy(v) /\ ~Busy(w)
      <4>1. job'[v] = job[v] /\ job[v].item \in Item /\ row[job[v].item].status # "absent"
        BY <1>t, <2>3, <3>4 DEF Sound, Busy
      <4>2. \/ job[v].item # i
            \/ UNCHANGED <<row, excs, audit, appends, sheet>>
        BY <2>2, <3>4, <4>1 DEF tables
      <4>3. Sound(u)'
        BY <1>t, <2>2, <3>u, <4>1, <4>2, SoundElsewhere
      <4> QED BY <3>u, <4>1, <4>3 DEF Sound
    <3> QED BY <3>1, <3>2, <3>3, <3>4
  <2>5. ASSUME NEW k \in Item PROVE Explained(k)' /\ Settled(k)'
    <3>1. CASE k = i
      <4>1. Explained(k)'
        BY <2>2, <3>1
      <4>2. j.pc = "post" => j.item = i
        BY <2>2
      <4> QED BY <2>2, <2>3, <3>1, <4>1, <4>2 DEF Settled
    <3>2. CASE k # i
      <4>1. Explained(k) /\ Settled(k)
        BY DEF ISound
      <4>2. Explained(k)'
        BY <2>2, <3>2, <4>1 DEF Explained
      <4>3. ASSUME NEW v \in Worker, job[v].pc = "post", job[v].item = k
            PROVE  job'[v] = job[v]
        <5>1. v # w \/ k = i
          BY <2>2, <4>3 DEF Busy
        <5> QED BY <2>3, <3>2, <5>1
      <4> QED BY <2>2, <3>2, <4>1, <4>2, <4>3 DEF Settled
    <3> QED BY <3>1, <3>2
  <2> QED BY <1>t, <2>4, <2>5 DEF ISound
<1> QED BY <1>0, <1>1

LEMMA SoundInit == Init => ISound
<1> SUFFICES ASSUME Init PROVE ISound
  OBVIOUS
<1>1. \A w \in Worker : Sound(job[w])
  BY DEF Init, NoJob, Sound, Guarded
<1>2. \A i \in Item : Explained(i) /\ Settled(i)
  BY DEF Init, Explained, Settled
<1> QED BY <1>1, <1>2, RecordedInit DEF ISound

LEMMA SoundInvariant == Spec /\ []Apart => []ISound
<1>1. ISound /\ Apart /\ Apart' /\ [Next]_vars => ISound'
  BY SoundStep
<1> QED BY <1>1, SoundInit, PTL DEF Spec

\* While no two requests about one item overlap: the exceptions stored with an item
\* that is held, failed or posted are those of the pass that left it there; nothing
\* stale is left over by reruns, retries, crashes and lost acknowledgements
\* (_supersede_exceptions).
THEOREM ExceptionsExplainStatusTheorem == Spec /\ []Apart => []ExceptionsExplainStatus
<1>1. ISound => ExceptionsExplainStatus
  BY DEF ISound, Explained, ExceptionsExplainStatus
<1> QED BY <1>1, SoundInvariant, PTL

\* While no two requests about one item overlap, and without faults, the row that
\* sheet_appends refers to has the metadata that the hub shows of a posted item.
THEOREM HubShowsTheRowTheorem == Spec /\ []Apart => []HubShowsTheRow
<1>1. ISound => HubShowsTheRow
  BY DEF ISound, Explained, HubShowsTheRow
<1> QED BY <1>1, SoundInvariant, PTL

\* While no two requests about one item overlap, an item in sheet_appends gets no
\* further row, through crashes, lost answers, reruns and retries alike
\* (append_filed_row).
THEOREM RecordedStopsAppendsTheorem == Spec /\ []Apart => RecordedStopsAppends
<1>1. ISound /\ [Next]_vars
        => [\A i \in Item : appends[i] # 0 => sheet'[i] = sheet[i]]_vars
  <2> SUFFICES ASSUME ISound, Next, NEW i \in Item, appends[i] # 0
               PROVE  sheet'[i] = sheet[i]
    OBVIOUS
  <2>0. IType
    BY DEF ISound, IRecorded
  <2>1. PICK w \in Worker :
           Quiet(w) \/ CheckLedger(w) \/ AppendRow(w) \/ RecordAppend(w) \/ Post(w)
    BY <2>0, StepKinds
  <2>2. CASE AppendRow(w)
    <3>1. /\ job[w].pc = "append"
          /\ sheet' = [sheet EXCEPT ![job[w].item] = Append(@, job[w].inv.meta)]
      BY <2>2 DEF AppendRow, NewRow, At
    <3>2. job[w].item # i
      BY <3>1 DEF ISound, Sound
    <3> QED BY <2>0, <3>1, <3>2 DEF IType, TypeOK
  <2> QED BY <2>1, <2>2 DEF Quiet, CheckLedger, RecordAppend, Post, Local
<1> QED BY <1>1, SoundInvariant, PTL DEF Spec, RecordedStopsAppends

\* A step changes the stored row of an item that is somewhere in the pipeline only
\* in the turn of the worker that is busy with it.
LEMMA OwnersTurn ==
  ASSUME ISound, Apart', Next, NEW i \in Item, row[i].status # "absent",
         row'[i] # row[i] \/ sheet'[i] # sheet[i]
  PROVE  \E w \in Worker : Busy(w) /\ job[w].item = i
<1>1. PICK w \in Worker : Turn(w)
  BY TurnTaken
<1> QED BY <1>1 DEF Turn, tables

\* While no two requests about one item overlap, a rejected item keeps its status,
\* decision and metadata, and no row is written for it (reject_invoice, and the table
\* of allowed actions, in which nothing leads out of rejected).
THEOREM RejectedIsFinalTheorem == Spec /\ []Apart => RejectedIsFinal
<1>1. ISound /\ Apart' /\ [Next]_vars
        => [\A i \in Item :
               row[i].status = "rejected" => row'[i] = row[i] /\ sheet'[i] = sheet[i]]_vars
  <2> SUFFICES ASSUME ISound, Apart', Next, NEW i \in Item, row[i].status = "rejected"
               PROVE  row'[i] = row[i] /\ sheet'[i] = sheet[i]
    OBVIOUS
  <2> QED BY OwnersTurn DEF ISound, Sound, Busy, At
<1> QED BY <1>1, SoundInvariant, PTL DEF Spec, RejectedIsFinal

\* While no two requests about one item overlap, a posted item is changed only by the
\* failure handling of the pass that posted it, whose commit was not acknowledged.
THEOREM PostedIsFinalTheorem == Spec /\ []Apart => PostedIsFinal
<1>1. ISound /\ Apart' /\ [Next]_vars
        => [\A i \in Item :
               row[i].status = "posted" /\ row'[i] # row[i]
                  => \E w \in Worker : At(w, "fail") /\ job[w].item = i]_vars
  <2> SUFFICES ASSUME ISound, Apart', Next, NEW i \in Item,
                      row[i].status = "posted", row'[i] # row[i]
               PROVE  \E w \in Worker : At(w, "fail") /\ job[w].item = i
    OBVIOUS
  <2> QED BY OwnersTurn DEF ISound, Sound, Busy, At
<1> QED BY <1>1, SoundInvariant, PTL DEF Spec, PostedIsFinal

\* While no two requests about one item overlap, the row that a rerun writes has the
\* metadata of the reviewer's latest correction (orchestrator.rerun), however often the
\* item was corrected, rerun and retried before and whatever failed meanwhile.
THEOREM RerunFilesCorrectionTheorem == Spec /\ []Apart => RerunFilesCorrection
<1>1. ISound /\ Apart /\ [Next]_vars
        => [\A w \in Worker :
               LET i == job[w].item IN
               /\ job[w].op = "rerun"
               /\ sheet'[i] # sheet[i]
               /\ audit[i].overlay \in Meta
               => sheet'[i][Len(sheet'[i])] = audit[i].overlay]_vars
  <2> SUFFICES ASSUME ISound, Apart, Next, NEW v \in Worker, NEW i, i = job[v].item,
                      job[v].op = "rerun", sheet'[i] # sheet[i], audit[i].overlay \in Meta
               PROVE  sheet'[i][Len(sheet'[i])] = audit[i].overlay
    BY Zenon
  <2>0. /\ IType /\ Sound(job[v]) /\ job[v] \in Job
        /\ job[v].pc # "idle" => job[v].item \in Item
        /\ sheet \in [Item -> Seq(AnyMeta)]
    BY DEF ISound, IRecorded, IType, TypeOK, WellFormed
  <2>1. i \in Item /\ job[v].pc # "idle"
    BY <2>0 DEF Sound
  <2>2. PICK w \in Worker :
           Quiet(w) \/ CheckLedger(w) \/ AppendRow(w) \/ RecordAppend(w) \/ Post(w)
    BY <2>0, StepKinds
  <2>3. AppendRow(w)
    BY <2>2 DEF Quiet, CheckLedger, RecordAppend, Post, Local
  <2>4. /\ job[w].pc = "append"
        /\ sheet' = [sheet EXCEPT ![job[w].item] = Append(@, job[w].inv.meta)]
    BY <2>3 DEF AppendRow, NewRow, At
  <2>5. job[w].item = i
    BY <2>0, <2>1, <2>4
  <2>6. w = v
    BY <2>1, <2>4, <2>5 DEF Apart, Busy, At
  <2>7. sheet'[i] = Append(sheet[i], job[v].inv.meta) /\ job[v].inv.meta = audit[i].overlay
    BY <2>0, <2>1, <2>4, <2>6 DEF Sound
  <2>8. sheet[i] \in Seq(AnyMeta) /\ job[v].inv.meta \in AnyMeta
    BY <2>0, <2>1 DEF Job
  <2> QED BY <2>7, <2>8
<1> QED BY <1>1, SoundInvariant, PTL DEF Spec, RerunFilesCorrection

IFresh == ISound /\ \A w \in Worker : Fresh(job[w])

LEMMA FreshStep ==
  ASSUME IFresh, Alone, Alone', [Next]_vars
  PROVE  IFresh'
<1>a. ISound /\ Apart /\ Apart'
  BY DEF IFresh, Alone, Apart
<1>t. /\ ISound'
      /\ \A v \in Worker : job[v] \in Job /\ Fresh(job[v])
      /\ job \in [Worker -> Job]
  BY <1>a, SoundStep DEF IFresh, ISound, IRecorded, IType, TypeOK
<1>0. CASE UNCHANGED vars
  BY <1>0, <1>t DEF vars, IFresh, Fresh, LooksPosted, Duplicates
<1>1. CASE Next
  <2>1. PICK w \in Worker : Turn(w)
    BY <1>1, <1>a, TurnTaken
  <2>2. PICK j, i :
        /\ job' = [job EXCEPT ![w] = j]
        /\ IF Busy(w) THEN i = job[w].item
           ELSE \/ row[i].status = "absent" /\ row'[i].status = "received"
                \/ UNCHANGED <<tables, sheet>>
        /\ \A k \in Item \ {i} : row'[k] = row[k]
        /\ Fresh(j)'
    BY <1>t, <2>1 DEF Turn
  <2>3. job'[w] = j /\ \A v \in Worker \ {w} : job'[v] = job[v]
    BY <1>t, <2>2
  <2>4. ASSUME NEW v \in Worker PROVE Fresh(job[v])'
    <3>1. CASE v = w
      BY <2>2, <2>3, <3>1 DEF Fresh, LooksPosted, Duplicates
    <3>2. CASE v # w /\ ~Busy(v)
      BY <1>t, <2>3, <3>2 DEF Fresh, Busy, At
    <3>3. CASE v # w /\ Busy(v)
      <4>1. ~Busy(w)
        BY <3>3 DEF Alone
      <4>2. \A k \in Item : row'[k].status = "posted" => row[k].status = "posted" /\ row'[k] = row[k]
        BY <2>2, <4>1 DEF tables
      <4>3. PICK u : u = job[v]
        OBVIOUS
      <4>4. Fresh(u)'
        BY <1>t, <4>2, <4>3 DEF Fresh, LooksPosted, Duplicates
      <4> QED BY <2>3, <3>3, <4>3, <4>4 DEF Fresh, LooksPosted, Duplicates
    <3> QED BY <3>1, <3>2, <3>3
  <2> QED BY <1>t, <2>4 DEF IFresh
<1> QED BY <1>0, <1>1

\* While no two requests overlap at all, a first pass or a recovery posts nothing that
\* looks like another posted item (find_duplicate).  Here it is not enough that
\* requests about the same item are kept apart: two items may be checked together and
\* then be posted together.
THEOREM NoUnreviewedDuplicateTheorem == Spec /\ []Alone => NoUnreviewedDuplicate
<1>1. Init => IFresh
  BY SoundInit DEF Init, NoJob, IFresh, Fresh
<1>2. IFresh /\ Alone /\ Alone' /\ [Next]_vars => IFresh'
  BY FreshStep
<1>3. IFresh
        => [\A w \in Worker :
              /\ At(w, "post")
              /\ job[w].op # "rerun"
              /\ row'[job[w].item].status = "posted"
              => ~LooksPosted(job[w].item, job[w].inv.meta)]_vars
  BY DEF IFresh, Fresh, At
<1> QED BY <1>1, <1>2, <1>3, PTL DEF Spec, NoUnreviewedDuplicate
=============================================================================
