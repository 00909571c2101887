------------------------- MODULE JobLifecycleProofs -------------------------
(***************************************************************************)
(* Proofs about JobLifecycle, for every number of rows, of requests and    *)
(* retries in progress and of faults.                                      *)
(***************************************************************************)
EXTENDS JobLifecycle, FiniteSetTheorems, TLAPS

-----------------------------------------------------------------------------
(* The inductive invariant. *)

Outcome == {"ok", "cancelled", "error"}
Totals == [processed : Nat, failed : Nat, unresolved : Nat, total : Nat]
JobRow == [status : Active \cup Terminal \cup {"none"}, error : BOOLEAN,
           export : {"none", "pending", "succeeded", "failed"}, totals : Totals]
MainType ==
    [next : 1..(MaxRows + 1), batch : BOOLEAN, paused : BOOLEAN, cancel : BOOLEAN]
WorkflowRow == [state : {"none", "running"} \cup Closed, pc : Step, outcome : Outcome,
                snap : [Row -> RowState]]

\* Steps of the clean-up that follow the update of the job.
Exporting == {"startExport", "read", "upload", "record", "recordFailure"}

\* Before the bridge has started the workflow there is none, and all that can
\* have happened to the job is that it was created and cancelled.
StartInv ==
    /\ start = "init" <=> job.status = "none"
    /\ start \in {"init", "sending", "orphan", "refused"} =>
          /\ wf["main"].state = "none"
          /\ job.status \in {"none", "pending", "cancelled"}
          /\ job.status # "cancelled" =>
                rows = NoRows /\ job.totals = CountRows(NoRows)

\* A running workflow and the status of its job: until it has updated the job
\* nobody but a cancel ends it, and from then on the job has ended.
OwnerInv ==
    /\ Running("main") =>
          \/ /\ wf["main"].pc \in {"work", "finalize", "update"}
             /\ job.status \in Active \cup {"cancelled"}
          \/ wf["main"].pc \in Exporting /\ job.status \in Terminal
    /\ wf["main"].state = "completed" => job.status \in Terminal
    /\ Running("retry") =>
          /\ wf["retry"].pc \in {"work", "finalize", "update"} \cup Exporting
          /\ wf["retry"].outcome = "ok"
          /\ job.status \in Terminal
    /\ Running("export") => wf["export"].pc \in Exporting

\* Requests in progress have a kind.
RequestInv == \A q \in Request : req[q].pc # "idle" => req[q].kind # "none"

\* What the reconciler has described stays true: once the start is over
\* nothing opens the job's workflow again.
ReconcilerInv ==
    rec.pc # "idle" =>
        /\ start = "over"
        /\ rec.seen # "completed"
        /\ rec.seen # "running" => ~Running("main")
        /\ rec.pc = "counted" => rec.seen # "running"

\* Rows the workflow has passed are there, rows past the source never get
\* data, and a job that ended without an error has all its rows.
RowsInv ==
    /\ \A r \in Row : r < main.next => rows[r] # "absent"
    /\ \A r \in Row : r > size => rows[r] \in {"absent", "phantom"}
    /\ Running("main") /\ wf["main"].pc \in {"finalize", "update"} /\ wf["main"].outcome = "ok"
          => main.next > size
    /\ job.status \in {"succeeded", "failed"} /\ ~job.error =>
          \A r \in Row : r <= size => rows[r] # "absent"

\* Counts taken for an update that can take effect are still right.
CountInv ==
    /\ At("main", "update") /\ job.status # "cancelled" => wf["main"].snap = rows
    /\ At("retry", "update") /\ job.status # "cancelled" => wf["retry"].snap = rows
    /\ rec.pc = "counted" /\ job.status \in Active => rec.snap = rows

IInv ==
    /\ TypeOK
    /\ StartInv
    /\ OwnerInv
    /\ RequestInv
    /\ ReconcilerInv
    /\ RowsInv
    /\ CountInv
    /\ OutcomeFromRows

-----------------------------------------------------------------------------
(* The counts. *)

\* countRows: a count is zero exactly if no row has the status it counts.
LEMMA CountFacts ==
    ASSUME NEW rs \in [Row -> RowState]
    PROVE  /\ CountRows(rs) \in [processed : Nat, failed : Nat, unresolved : Nat, total : Nat]
           /\ CountRows(rs).failed = 0 <=> \A r \in Row : rs[r] \notin {"failed", "phantom"}
           /\ CountRows(rs).unresolved = 0 <=> \A r \in Row : rs[r] # "unresolved"
           /\ CountRows(rs).total = 0 <=> \A r \in Row : rs[r] = "absent"
  <1> DEFINE with(S) == {r \in Row : rs[r] \in S}
  <1>1. IsFiniteSet(Row)
    BY FS_Interval, LifecycleAssumption DEF Row
  <1>2. ASSUME NEW S
        PROVE  /\ Cardinality(with(S)) \in Nat
               /\ Cardinality(with(S)) = 0 <=> with(S) = {}
    <2>1. IsFiniteSet(with(S))
      BY <1>1, FS_Subset
    <2> QED
      BY <2>1, FS_CardinalityType, FS_EmptySet
  <1>3. CountRows(rs) = [processed  |-> Cardinality(with({"succeeded"})),
                         failed     |-> Cardinality(with({"failed", "phantom"})),
                         unresolved |-> Cardinality(with({"unresolved"})),
                         total      |-> Cardinality(with(RowState \ {"absent"}))]
    BY DEF CountRows
  <1> DEFINE p == Cardinality(with({"succeeded"}))
             f == Cardinality(with({"failed", "phantom"}))
             u == Cardinality(with({"unresolved"}))
             t == Cardinality(with(RowState \ {"absent"}))
  <1>4. /\ p \in Nat /\ f \in Nat /\ u \in Nat /\ t \in Nat
        /\ f = 0 <=> with({"failed", "phantom"}) = {}
        /\ u = 0 <=> with({"unresolved"}) = {}
        /\ t = 0 <=> with(RowState \ {"absent"}) = {}
    BY <1>2
  <1> HIDE DEF p, f, u, t
  <1>5. CountRows(rs) = [processed |-> p, failed |-> f, unresolved |-> u, total |-> t]
    BY <1>3 DEF p, f, u, t
  <1>6. CountRows(rs) \in [processed : Nat, failed : Nat, unresolved : Nat, total : Nat]
    BY <1>4, <1>5
  <1>7. CountRows(rs).failed = 0 <=> \A r \in Row : rs[r] \notin {"failed", "phantom"}
    BY <1>4, <1>5
  <1>8. CountRows(rs).unresolved = 0 <=> \A r \in Row : rs[r] # "unresolved"
    BY <1>4, <1>5
  <1>9. CountRows(rs).total = 0 <=> \A r \in Row : rs[r] = "absent"
    <2>1. CountRows(rs).total = 0 <=> with(RowState \ {"absent"}) = {}
      BY <1>4, <1>5
    <2>2. \A r \in Row : rs[r] \in RowState
      OBVIOUS
    <2> QED
      BY <2>1, <2>2
  <1> QED
    BY <1>6, <1>7, <1>8, <1>9

\* A job without rows.
LEMMA NoRowsType == NoRows \in [Row -> RowState]
  BY DEF NoRows, RowState

\* What finalize makes of a job.
LEMMA FinalizedType ==
    ASSUME NEW rs \in [Row -> RowState], NEW o \in {"ok", "cancelled", "error"}, TypeOK
    PROVE  /\ Finalized(CountRows(rs), o) \in
                [status : Terminal, error : BOOLEAN,
                 export : {"none", "pending", "succeeded", "failed"},
                 totals : [processed : Nat, failed : Nat, unresolved : Nat, total : Nat]]
           /\ Finalized(CountRows(rs), o).status = "cancelled" <=>
                 job.status = "cancelled" \/ o = "cancelled"
           /\ Finalized(CountRows(rs), o).error = (job.error \/ o = "error")
           /\ Finalized(CountRows(rs), o).error => Finalized(CountRows(rs), o).status # "succeeded"
           /\ Finalized(CountRows(rs), o).totals = CountRows(rs)
           /\ Finalized(CountRows(rs), o).export = job.export
  <1> DEFINE t == CountRows(rs)
             J == [status : Active \cup Terminal \cup {"none"}, error : BOOLEAN,
                   export : {"none", "pending", "succeeded", "failed"},
                   totals : [processed : Nat, failed : Nat, unresolved : Nat, total : Nat]]
  <1>1. t \in [processed : Nat, failed : Nat, unresolved : Nat, total : Nat]
    BY CountFacts
  <1>2. job \in J
    BY DEF TypeOK
  <1>3. TerminalStatus(t, o) \in {"succeeded", "failed"} \/ o = "cancelled"
    BY <1>1 DEF TerminalStatus
  <1> DEFINE s == IF job.status = "cancelled" \/ o = "cancelled" THEN "cancelled"
                  ELSE IF o = "error" \/ job.error THEN "failed"
                  ELSE TerminalStatus(t, o)
             e == job.error \/ o = "error"
  <1>4. s \in Terminal
    BY <1>3 DEF Terminal
  <1>5. e \in BOOLEAN
    OBVIOUS
  <1>6. Finalized(t, o) = [status |-> s, error |-> e, export |-> job.export, totals |-> t]
    <2>1. Finalized(t, o) = [job EXCEPT !.status = s, !.error = e, !.totals = t]
      BY Zenon DEF Finalized
    <2> HIDE DEF s, e, t
    <2> QED
      BY <1>2, <2>1
  <1>7. /\ s = "cancelled" <=> job.status = "cancelled" \/ o = "cancelled"
        /\ e => s # "succeeded"
    BY <1>3
  <1> HIDE DEF s, e, t
  <1> QED
    BY <1>1, <1>2, <1>4, <1>5, <1>6, <1>7 DEF t, e

-----------------------------------------------------------------------------
(* Types. *)

\* TypeOK, with the types of a job and of a workflow named.
LEMMA Types ==
    TypeOK <=>
        /\ size \in 0..MaxRows
        /\ job \in JobRow
        /\ rows \in [Row -> RowState]
        /\ start \in {"init", "sending", "orphan", "arrived", "refused", "over"}
        /\ wf \in [Workflow -> WorkflowRow]
        /\ main \in MainType
        /\ todo \subseteq Row
        /\ file \in [Row -> RowState]
        /\ req \in [Request -> [kind : {"none", "pause", "resume", "cancel"},
                                pc : {"idle", "checked", "signalled"}, found : BOOLEAN]]
        /\ rec \in [pc : {"idle", "described", "counted"},
                    seen : {"none", "running"} \cup Closed,
                    was : Active \cup {"none"}, snap : [Row -> RowState]]
        /\ used \in [requests : Nat, retries : Nat, faults : Nat]
        /\ dirty \in BOOLEAN
        /\ direct \in BOOLEAN
  BY Zenon DEF TypeOK, JobRow, WorkflowRow, MainType, Totals, Outcome

\* One workflow moves and the others stand still.
Becomes(w, state, pc, outcome, snap) ==
    wf' = [wf EXCEPT ![w] = [state |-> state, pc |-> pc, outcome |-> outcome, snap |-> snap]]

\* Changing two fields of a workflow replaces its record.
LEMMA TwoFields ==
    ASSUME TypeOK, NEW w \in Workflow, NEW p \in Step
    PROVE  /\ \A s \in [Row -> RowState] :
                     [wf EXCEPT ![w].pc = p, ![w].snap = s]
                        = [wf EXCEPT ![w] = [state |-> wf[w].state, pc |-> p,
                                             outcome |-> wf[w].outcome, snap |-> s]]
           /\ \A o \in Outcome :
                     [wf EXCEPT ![w].pc = p, ![w].outcome = o]
                        = [wf EXCEPT ![w] = [state |-> wf[w].state, pc |-> p,
                                             outcome |-> o, snap |-> wf[w].snap]]
  <1> DEFINE g == [wf EXCEPT ![w].pc = p]
  <1>1. wf \in [Workflow -> WorkflowRow]
    BY Types
  <1>2. g = [wf EXCEPT ![w] = [wf[w] EXCEPT !.pc = p]]
    OBVIOUS
  <1>3. [wf[w] EXCEPT !.pc = p]
           = [state |-> wf[w].state, pc |-> p, outcome |-> wf[w].outcome, snap |-> wf[w].snap]
    BY <1>1 DEF WorkflowRow
  <1>4. g[w] = [state |-> wf[w].state, pc |-> p, outcome |-> wf[w].outcome, snap |-> wf[w].snap]
    BY <1>1, <1>2, <1>3
  <1>5. ASSUME NEW v PROVE [g EXCEPT ![w] = v] = [wf EXCEPT ![w] = v]
    BY <1>1, <1>2
  <1>6. ASSUME NEW s \in [Row -> RowState]
        PROVE  [wf EXCEPT ![w].pc = p, ![w].snap = s]
                  = [wf EXCEPT ![w] = [state |-> wf[w].state, pc |-> p,
                                       outcome |-> wf[w].outcome, snap |-> s]]
    <2>1. [wf EXCEPT ![w].pc = p, ![w].snap = s] = [g EXCEPT ![w] = [g[w] EXCEPT !.snap = s]]
      OBVIOUS
    <2> HIDE DEF g
    <2>2. [g[w] EXCEPT !.snap = s]
             = [state |-> wf[w].state, pc |-> p, outcome |-> wf[w].outcome, snap |-> s]
      BY <1>4
    <2> QED
      BY <1>5, <2>1, <2>2
  <1>7. ASSUME NEW o \in Outcome
        PROVE  [wf EXCEPT ![w].pc = p, ![w].outcome = o]
                  = [wf EXCEPT ![w] = [state |-> wf[w].state, pc |-> p,
                                       outcome |-> o, snap |-> wf[w].snap]]
    <2>1. [wf EXCEPT ![w].pc = p, ![w].outcome = o]
             = [g EXCEPT ![w] = [g[w] EXCEPT !.outcome = o]]
      OBVIOUS
    <2> HIDE DEF g
    <2>2. [g[w] EXCEPT !.outcome = o]
             = [state |-> wf[w].state, pc |-> p, outcome |-> o, snap |-> wf[w].snap]
      BY <1>4
    <2> QED
      BY <1>5, <2>1, <2>2
  <1> QED
    BY <1>6, <1>7

\* Opening, moving and closing a workflow replace its record alone.
LEMMA Moves ==
    ASSUME TypeOK, NEW w \in Workflow, NEW pc \in Step
    PROVE  /\ Open(w, pc) => Becomes(w, "running", pc, "ok", NoRows)
           /\ GoTo(w, pc) => Becomes(w, wf[w].state, pc, wf[w].outcome, NoRows)
           /\ Take(w, pc) => Becomes(w, wf[w].state, pc, wf[w].outcome, rows)
           /\ \A state \in Closed : Close(w, state) => Becomes(w, state, "closed", "ok", NoRows)
  <1>1. Open(w, pc) => Becomes(w, "running", pc, "ok", NoRows)
    BY DEF Open, Becomes
  <1>2. GoTo(w, pc) => Becomes(w, wf[w].state, pc, wf[w].outcome, NoRows)
    BY TwoFields, NoRowsType DEF GoTo, Becomes
  <1>3. rows \in [Row -> RowState]
    BY Types
  <1>4. Take(w, pc) => Becomes(w, wf[w].state, pc, wf[w].outcome, rows)
    BY <1>3, TwoFields DEF Take, Becomes
  <1>5. ASSUME NEW state \in Closed
        PROVE  Close(w, state) => Becomes(w, state, "closed", "ok", NoRows)
    BY DEF Close, NoWorkflow, Becomes
  <1> QED
    BY <1>1, <1>2, <1>4, <1>5

\* So does the end of the row loop.
LEMMA EndMoves ==
    ASSUME TypeOK, NEW o \in Outcome, EndWork(o)
    PROVE  Becomes("main", wf["main"].state, "finalize", o, wf["main"].snap)
  BY TwoFields DEF EndWork, Becomes, Workflow, Step

\* What a workflow is after it moved, and that the others are as before.
LEMMA BecomesType ==
    ASSUME TypeOK, NEW w \in Workflow, NEW pc \in Step,
           NEW state \in {"none", "running"} \cup Closed, NEW outcome \in Outcome,
           NEW snap \in [Row -> RowState], Becomes(w, state, pc, outcome, snap)
    PROVE  /\ wf' \in [Workflow -> WorkflowRow]
           /\ wf'[w] = [state |-> state, pc |-> pc, outcome |-> outcome, snap |-> snap]
           /\ \A x \in Workflow : x # w => wf'[x] = wf[x]
  <1> DEFINE v == [state |-> state, pc |-> pc, outcome |-> outcome, snap |-> snap]
  <1>1. v \in WorkflowRow
    BY DEF WorkflowRow
  <1>2. wf \in [Workflow -> WorkflowRow]
    BY Types
  <1>3. wf' = [wf EXCEPT ![w] = v]
    BY DEF Becomes
  <1> HIDE DEF v
  <1>4. /\ wf' \in [Workflow -> WorkflowRow]
        /\ wf'[w] = v
        /\ \A x \in Workflow : x # w => wf'[x] = wf[x]
    BY <1>1, <1>2, <1>3
  <1> QED
    BY <1>4 DEF v

\* A workflow closes in a closed state; one whose clean-up failed is never
\* completed.
LEMMA StatesClosed ==
    ASSUME TypeOK, NEW w \in Workflow
    PROVE  /\ CloseStates(wf[w].outcome) \subseteq Closed
           /\ FailStates(wf[w].outcome) \subseteq Closed \ {"completed"}
  <1>1. wf[w].outcome \in Outcome
    BY Types DEF WorkflowRow
  <1> QED
    BY <1>1 DEF CloseStates, FailStates, Closed, Outcome

\* Workflows keep their type.
LEMMA WorkflowType ==
    ASSUME TypeOK, NEW w \in Workflow, NEW pc \in Step, NEW state \in Closed,
           Open(w, pc) \/ GoTo(w, pc) \/ Take(w, pc) \/ Close(w, state)
    PROVE  wf' \in [Workflow -> WorkflowRow]
  <1>1. wf[w].state \in {"none", "running"} \cup Closed /\ wf[w].outcome \in Outcome
    BY Types DEF WorkflowRow
  <1>2. rows \in [Row -> RowState]
    BY Types
  <1>3. "closed" \in Step /\ "ok" \in Outcome /\ "running" \in {"none", "running"} \cup Closed
    BY DEF Step, Outcome
  <1> QED
    BY <1>1, <1>2, <1>3, Moves, BecomesType, NoRowsType

\* A job that is not created yet is well typed.
LEMMA TypeInit == Init => TypeOK
  <1> SUFFICES ASSUME Init PROVE TypeOK
    OBVIOUS
  <1>1. CountRows(NoRows) \in Totals
    BY CountFacts, NoRowsType DEF Totals
  <1>2. 1 \in 1 .. MaxRows + 1
    BY LifecycleAssumption
  <1>3. NoWorkflow \in WorkflowRow
    BY NoRowsType DEF NoWorkflow, WorkflowRow, Step, Outcome
  <1>4. job \in JobRow
    BY <1>1 DEF Init, JobRow
  <1> QED
    BY <1>2, <1>3, <1>4, NoRowsType, Types DEF Init, Idle, MainType

\* Every step keeps the types; what a recorded request writes depends on its
\* kind.
LEMMA TypeNext == TypeOK /\ RequestInv /\ [Next]_vars => TypeOK'
  <1> SUFFICES ASSUME TypeOK, RequestInv, [Next]_vars PROVE TypeOK'
    OBVIOUS
  <1> SUFFICES (/\ size \in 0..MaxRows
                /\ job \in JobRow
                /\ rows \in [Row -> RowState]
                /\ start \in {"init", "sending", "orphan", "arrived", "refused", "over"}
                /\ wf \in [Workflow -> WorkflowRow]
                /\ main \in MainType
                /\ todo \subseteq Row
                /\ file \in [Row -> RowState]
                /\ req \in [Request -> [kind : {"none", "pause", "resume", "cancel"},
                                        pc : {"idle", "checked", "signalled"}, found : BOOLEAN]]
                /\ rec \in [pc : {"idle", "described", "counted"},
                            seen : {"none", "running"} \cup Closed,
                            was : Active \cup {"none"}, snap : [Row -> RowState]]
                /\ used \in [requests : Nat, retries : Nat, faults : Nat]
                /\ dirty \in BOOLEAN
                /\ direct \in BOOLEAN)'
    BY Zenon DEF TypeOK, JobRow, WorkflowRow, MainType, Totals, Outcome
  <1>0. /\ size \in 0..MaxRows
        /\ job \in JobRow
        /\ rows \in [Row -> RowState]
        /\ start \in {"init", "sending", "orphan", "arrived", "refused", "over"}
        /\ wf \in [Workflow -> WorkflowRow]
        /\ main \in MainType
        /\ todo \subseteq Row
        /\ file \in [Row -> RowState]
        /\ req \in [Request -> [kind : {"none", "pause", "resume", "cancel"},
                                pc : {"idle", "checked", "signalled"}, found : BOOLEAN]]
        /\ rec \in [pc : {"idle", "described", "counted"},
                    seen : {"none", "running"} \cup Closed,
                    was : Active \cup {"none"}, snap : [Row -> RowState]]
        /\ used \in [requests : Nat, retries : Nat, faults : Nat]
        /\ dirty \in BOOLEAN
        /\ direct \in BOOLEAN
    BY Types, Zenon
  <1> USE LifecycleAssumption
  <1>1. CASE create_job
    BY <1>0, <1>1 DEF create_job, JobRow, Active
  <1>2. CASE StartArrives
    BY <1>0, <1>2, WorkflowType DEF StartArrives, Workflow, Step, Closed
  <1>3. CASE StartUnknown
    BY <1>0, <1>3 DEF StartUnknown
  <1>4. CASE StartLost
    BY <1>0, <1>4 DEF StartLost
  <1>5. CASE StartRefused
    BY <1>0, <1>5 DEF StartRefused
  <1>6. CASE RecordRefused
    BY <1>0, <1>6 DEF RecordRefused, JobRow, Terminal
  <1>7. CASE RecordStart
    BY <1>0, <1>7 DEF RecordStart, JobRow, Active
  <1>8. CASE \E q \in Request : RequestStep(q)
    <2>1. PICK q \in Request : RequestStep(q)
      BY <1>8
    <2>2. CASE \E kind \in {"pause", "resume", "cancel"} : action_target(q, kind)
      BY <1>0, <2>2 DEF action_target
    <2>3. CASE Signal(q)
      <3>1. main' \in MainType
        BY <1>0, <2>3 DEF Signal, MainType
      <3>2. req' \in [Request -> [kind : {"none", "pause", "resume", "cancel"},
                                  pc : {"idle", "checked", "signalled"}, found : BOOLEAN]]
        <4>1. CASE Running("main")
          BY <1>0, <2>3, <4>1 DEF Signal
        <4>2. CASE ~Running("main")
          <5> DEFINE v == IF req[q].kind = "cancel"
                          THEN [kind |-> "cancel", pc |-> "signalled", found |-> FALSE]
                          ELSE Idle
          <5>1. v \in [kind : {"none", "pause", "resume", "cancel"},
                       pc : {"idle", "checked", "signalled"}, found : BOOLEAN]
            BY DEF Idle
          <5>2. req' = [req EXCEPT ![q] = v]
            BY <2>3, <4>2 DEF Signal
          <5> HIDE DEF v
          <5> QED
            BY <1>0, <5>1, <5>2
        <4> QED
          BY <4>1, <4>2
      <3> QED
        BY <1>0, <2>3, <3>1, <3>2 DEF Signal
    <2>4. CASE RecordRequest(q)
      <3>1. CountRows(rows) \in Totals
        BY <1>0, CountFacts DEF Totals
      <3>2. job' \in JobRow
        <4>1. req[q].kind \in {"pause", "resume", "cancel"}
          BY <1>0, <2>4 DEF RecordRequest, RequestInv
        <4>2. To(req[q].kind) \in Active \cup Terminal
          BY <4>1 DEF To, Active, Terminal
        <4> QED
          BY <1>0, <2>4, <3>1, <4>2 DEF RecordRequest, JobRow, Terminal
      <3> QED
        BY <1>0, <2>4, <3>2 DEF RecordRequest, Idle
    <2>5. CASE DropRequest(q)
      BY <1>0, <2>5 DEF DropRequest, Idle
    <2> QED
      BY <2>1, <2>2, <2>3, <2>4, <2>5 DEF RequestStep
  <1>9. CASE \E s \in {"succeeded", "failed", "unresolved"}, more, published \in BOOLEAN :
                ProcessRow(s, more, published)
    <2>1. PICK s \in {"succeeded", "failed", "unresolved"}, more, published \in BOOLEAN :
             ProcessRow(s, more, published)
      BY <1>9
    <2>2. rows' \in [Row -> RowState]
      BY <1>0, <2>1 DEF ProcessRow, RowState
    <2>3. CountRows(rows') \in Totals
      BY <2>2, CountFacts DEF Totals
    <2>4. job' \in JobRow
      BY <1>0, <2>1, <2>3 DEF ProcessRow, Publish, JobRow
    <2>5. main' \in MainType
      <3>1. /\ main' = [main EXCEPT !.next = @ + 1, !.batch = more]
            /\ main.next <= size
        BY <2>1, Zenon DEF ProcessRow
      <3>2. more \in BOOLEAN
        BY <2>1
      <3>3. main.next + 1 \in 1..(MaxRows + 1)
        BY <1>0, <3>1 DEF MainType
      <3> QED
        BY <1>0, <3>1, <3>2, <3>3 DEF MainType
    <2> QED
      BY <1>0, <2>1, <2>2, <2>4, <2>5 DEF ProcessRow
  <1>a. CASE Ingest
    <2>1. main' \in MainType
      BY <1>0, <1>a DEF Ingest, MainType
    <2> QED
      BY <1>0, <1>a, <2>1 DEF Ingest
  <1>10. CASE (\E b \in BOOLEAN : SourceExhausted(b)) \/ NoticeCancel \/ RunFails
    <2>1. PICK o \in Outcome : EndWork(o)
      BY <1>10 DEF SourceExhausted, NoticeCancel, RunFails, Outcome
    <2>a. CountRows(rows) \in Totals
      BY <1>0, CountFacts DEF Totals
    <2>b. job' \in JobRow
      BY <1>0, <1>10, <2>a DEF SourceExhausted, NoticeCancel, RunFails, Publish, JobRow
    <2>2. wf["main"].snap \in [Row -> RowState] /\ wf["main"].state \in {"none", "running"} \cup Closed
      BY <1>0 DEF Workflow, WorkflowRow
    <2>3. Becomes("main", wf["main"].state, "finalize", o, wf["main"].snap)
      BY <2>1, EndMoves
    <2>4. wf' \in [Workflow -> WorkflowRow]
      BY <2>2, <2>3, BecomesType DEF Workflow, Step
    <2> QED
      BY <1>0, <2>1, <2>4, <2>b DEF EndWork
  <1>11. CASE \E w \in Workflow : Terminate(w)
    BY <1>0, <1>11, WorkflowType DEF Terminate, Fault, Closed, Step
  <1>12. CASE \E w \in Workflow : FinalizeCount(w)
    BY <1>0, <1>12, WorkflowType DEF FinalizeCount, Closed, Step
  <1>13. CASE \E w \in Workflow : FinalizeUpdate(w)
    <2>1. PICK w \in Workflow : FinalizeUpdate(w)
      BY <1>13
    <2>2. wf[w].snap \in [Row -> RowState] /\ wf[w].outcome \in {"ok", "cancelled", "error"}
      BY <1>0 DEF WorkflowRow, Outcome
    <2>3. job' \in JobRow
      BY <2>1, <2>2, FinalizedType DEF FinalizeUpdate, JobRow, Totals
    <2> QED
      BY <1>0, <2>1, <2>3, WorkflowType DEF FinalizeUpdate, Step, Closed
  <1>14. CASE \E w \in Workflow : FinalizeFails(w)
    <2>1. PICK w \in Workflow : FinalizeFails(w)
      BY <1>14
    <2>2. wf[w].snap \in [Row -> RowState] /\ wf[w].outcome \in {"ok", "cancelled", "error"}
      BY <1>0 DEF WorkflowRow, Outcome
    <2>3. Finalized(CountRows(wf[w].snap), wf[w].outcome) \in JobRow
      BY <2>2, FinalizedType DEF JobRow, Totals
    <2>4. job' \in JobRow /\ dirty' \in BOOLEAN
      BY <1>0, <2>1, <2>3 DEF FinalizeFails
    <2> QED
      BY <1>0, <2>1, <2>4, WorkflowType, StatesClosed DEF FinalizeFails, Fault, Step
  <1>15. CASE \E w \in Workflow : RecordExportStarted(w)
    BY <1>0, <1>15, WorkflowType DEF RecordExportStarted, Closed, JobRow, Step
  <1>16. CASE \E w \in Workflow : ExportRead(w)
    BY <1>0, <1>16, WorkflowType DEF ExportRead, Closed, Step
  <1>17. CASE \E w \in Workflow : ExportUpload(w)
    BY <1>0, <1>17, WorkflowType DEF ExportUpload, Closed, WorkflowRow, Step
  <1>18. CASE \E w \in Workflow : ExportRecord(w)
    BY <1>0, <1>18, WorkflowType, StatesClosed DEF ExportRecord, JobRow, Step
  <1>19. CASE \E w \in Workflow : ExportFails(w)
    BY <1>0, <1>19, WorkflowType DEF ExportFails, Closed, Fault, Step
  <1>20. CASE \E w \in Workflow : RecordExportFailure(w)
    BY <1>0, <1>20, WorkflowType, StatesClosed DEF RecordExportFailure, JobRow, Step
  <1>21. CASE \E w \in Workflow : RecordExportFails(w)
    BY <1>0, <1>21, WorkflowType, StatesClosed DEF RecordExportFails, Fault, Step
  <1>22. CASE retry_row
    BY <1>0, <1>22, WorkflowType DEF retry_row, StartRetry, Workflow, Step, Closed
  <1>23. CASE retry_all_failed
    BY <1>0, <1>23, WorkflowType DEF retry_all_failed, StartRetry, Workflow, Step, Closed
  <1>24. CASE retry_export
    BY <1>0, <1>24, WorkflowType DEF retry_export, Workflow, Step, Closed
  <1>25. CASE \E r \in Row, s \in RowState \ {"absent"} : RetryRow(r, s)
    BY <1>0, <1>25 DEF RetryRow
  <1>26. CASE RetryDone
    BY <1>0, <1>26, WorkflowType DEF RetryDone, Workflow, Step, Closed
  <1>27. CASE RetryFails
    BY <1>0, <1>27, WorkflowType DEF RetryFails, Workflow, Step, Closed
  <1>28. CASE Describe
    BY <1>0, <1>28, NoRowsType DEF Describe, Stale, Active, Workflow, WorkflowRow
  <1>29. CASE LeaveRunning
    BY <1>0, <1>29, NoRowsType DEF LeaveRunning, Rest, JobRow, Active
  <1>30. CASE RepairCount
    BY <1>0, <1>30 DEF RepairCount
  <1>31. CASE RepairUpdate
    <2>1. RepairFor(rec.seen) \in {"ok", "cancelled", "error"}
      BY DEF RepairFor
    <2>2. Finalized(CountRows(rec.snap), RepairFor(rec.seen)) \in JobRow
      BY <1>0, <2>1, FinalizedType DEF JobRow, Totals
    <2> QED
      BY <1>0, <1>31, <2>2, NoRowsType DEF RepairUpdate, Rest
  <1>32. CASE PassFails
    BY <1>0, <1>32, NoRowsType DEF PassFails, Rest, Fault
  <1>33. CASE UNCHANGED vars
    BY <1>0, <1>33 DEF vars
  <1> QED
    BY <1>1, <1>2, <1>3, <1>4, <1>5, <1>6, <1>7, <1>8, <1>9, <1>a, <1>10, <1>11, <1>12, <1>13, <1>14, <1>15, <1>16, <1>17, <1>18, <1>19, <1>20, <1>21, <1>22, <1>23, <1>24, <1>25, <1>26, <1>27, <1>28, <1>29, <1>30, <1>31, <1>32, <1>33
    DEF Next, StartStep, MainStep, FinishStep, FaultStep, RetryStep, ReconcileStep

-----------------------------------------------------------------------------
(* Requests. *)

\* A request in progress keeps its kind until it is recorded or dropped.
LEMMA RequestInvNext == TypeOK /\ RequestInv /\ [Next]_vars => RequestInv'
  <1> SUFFICES ASSUME TypeOK, RequestInv, [Next]_vars PROVE RequestInv'
    OBVIOUS
  <1>1. CASE UNCHANGED req
    BY <1>1 DEF RequestInv
  <1>2. ASSUME NEW q \in Request, RequestStep(q) PROVE RequestInv'
    <2> DEFINE R == [kind : {"none", "pause", "resume", "cancel"},
                     pc : {"idle", "checked", "signalled"}, found : BOOLEAN]
    <2>1. req \in [Request -> R]
      BY Types
    <2>2. /\ \A p \in Request : p # q => req'[p] = req[p]
          /\ req'[q].pc # "idle" => req'[q].kind # "none"
      <3>1. ASSUME NEW kind \in {"pause", "resume", "cancel"}, action_target(q, kind)
            PROVE  <2>2!:
        BY <2>1, <3>1 DEF action_target
      <3>2. CASE Signal(q)
        BY <2>1, <3>2 DEF Signal, Idle, RequestInv
      <3>3. CASE RecordRequest(q)
        BY <2>1, <3>3 DEF RecordRequest, Idle
      <3>4. CASE DropRequest(q)
        BY <2>1, <3>4 DEF DropRequest, Idle
      <3> QED
        BY <1>2, <3>1, <3>2, <3>3, <3>4 DEF RequestStep
    <2> QED
      BY <2>2 DEF RequestInv
  <1> QED
    BY <1>1, <1>2
    DEF Next, vars, create_job, StartStep, StartArrives, StartUnknown, StartLost, StartRefused,
        RecordRefused, RecordStart, MainStep, Ingest, ProcessRow, SourceExhausted, NoticeCancel, EndWork,
        FinishStep, FinalizeCount, FinalizeUpdate, RecordExportStarted, ExportRead, ExportUpload,
        ExportRecord, RecordExportFailure, FaultStep, RunFails, Terminate, FinalizeFails,
        ExportFails, RecordExportFails, RetryFails, PassFails, RetryStep, retry_row,
        retry_all_failed, StartRetry, retry_export, RetryRow, RetryDone, ReconcileStep,
        Describe, LeaveRunning, RepairCount, RepairUpdate

-----------------------------------------------------------------------------
(* The other parts of the invariant, kind of step by kind of step. *)

Core == StartInv /\ OwnerInv /\ ReconcilerInv /\ RowsInv /\ CountInv /\ OutcomeFromRows

\* Where a workflow may move to without changing the outcome of the job.
MayReach(w, pc, outcome, snap) ==
    \/ /\ w = "main"
       /\ \/ pc \in Exporting /\ job.status \in Terminal
          \/ /\ pc \in {"finalize", "update"}
             /\ job.status \in Active \cup {"cancelled"}
             /\ outcome = "ok" => main.next > size
             /\ pc = "update" => snap = rows
    \/ /\ w = "retry"
       /\ pc \in {"work", "finalize", "update"} \cup Exporting
       /\ outcome = "ok"
       /\ job.status \in Terminal
       /\ pc = "update" => snap = rows
    \/ w = "export" /\ pc \in Exporting

\* A workflow step that leaves the outcome and the rows alone keeps the
\* invariant, wherever MayReach allows it to go.
LEMMA WorkflowMoves ==
    ASSUME TypeOK, Core,
           NEW w \in Workflow, NEW state \in {"running"} \cup Closed, NEW pc \in Step,
           NEW outcome \in Outcome, NEW snap \in [Row -> RowState],
           Becomes(w, state, pc, outcome, snap),
           UNCHANGED <<size, rows, start, main, rec, dirty>>,
           job'.status = job.status, job'.error = job.error,
           job'.totals = job.totals \/ job.status = "running",
           w = "main" => Running("main"),
           state = "running" => MayReach(w, pc, outcome, snap),
           w = "main" /\ state = "completed" => job.status \in Terminal
    PROVE  Core'
  <1>1. /\ wf'[w] = [state |-> state, pc |-> pc, outcome |-> outcome, snap |-> snap]
        /\ \A x \in Workflow : x # w => wf'[x] = wf[x]
    BY BecomesType
  <1>2. /\ wf'[w].state = state /\ wf'[w].pc = pc
        /\ wf'[w].outcome = outcome /\ wf'[w].snap = snap
    BY <1>1
  <1>3. "main" \in Workflow /\ "retry" \in Workflow /\ "export" \in Workflow
    BY DEF Workflow
  <1>4. "running" \notin Closed /\ "none" \notin Closed
    BY DEF Closed
  <1>5. StartInv'
    BY <1>1, <1>3 DEF Core, StartInv, Running
  <1>6. OwnerInv'
    BY <1>1, <1>2, <1>3, <1>4 DEF Core, OwnerInv, Running, MayReach
  <1>7. ReconcilerInv'
    BY <1>1, <1>2, <1>3, <1>4 DEF Core, ReconcilerInv, Running
  <1>8. RowsInv'
    BY <1>1, <1>2, <1>3, <1>4 DEF Core, RowsInv, Running, MayReach, Exporting
  <1>9. CountInv'
    BY <1>1, <1>2, <1>3, <1>4 DEF Core, CountInv, At, Running, MayReach, Exporting
  <1>10. OutcomeFromRows'
    BY DEF Core, OutcomeFromRows
  <1> QED
    BY <1>5, <1>6, <1>7, <1>8, <1>9, <1>10 DEF Core

\* finalize, applied to up-to-date counts, reports the outcome of the rows.
LEMMA FinalizedRight ==
    ASSUME TypeOK, NEW o \in Outcome, job.status # "cancelled", o # "cancelled",
           o = "ok" /\ ~job.error => \A r \in Row : r <= size => rows[r] # "absent",
           \A r \in Row : r > size => rows[r] \in {"absent", "phantom"}
    PROVE  LET f == Finalized(CountRows(rows), o) IN
           f.status = "succeeded" <=>
              /\ ~f.error
              /\ size > 0
              /\ \A r \in Row : rows[r] = IF r <= size THEN "succeeded" ELSE "absent"
  <1> DEFINE t == CountRows(rows)
             f == Finalized(t, o)
  <1>1. rows \in [Row -> RowState] /\ size \in 0..MaxRows
    BY Types
  <1>2. /\ f.error = (job.error \/ o = "error")
        /\ f.error => f.status # "succeeded"
    BY <1>1, FinalizedType DEF Outcome
  <1>3. CASE job.error \/ o = "error"
    BY <1>2, <1>3
  <1>4. CASE ~job.error /\ o = "ok"
    <2>1. ~f.error
      BY <1>2, <1>4
    <2>2. f.status = TerminalStatus(t, "ok")
      BY <1>4 DEF Finalized, TypeOK
    <2>3. /\ t \in Totals
          /\ t.failed = 0 <=> \A r \in Row : rows[r] \notin {"failed", "phantom"}
          /\ t.unresolved = 0 <=> \A r \in Row : rows[r] # "unresolved"
          /\ t.total = 0 <=> \A r \in Row : rows[r] = "absent"
      BY <1>1, CountFacts DEF Totals
    <2> HIDE DEF t, f
    <2>4. TerminalStatus(t, "ok") = "succeeded" <=> t.failed = 0 /\ t.unresolved = 0 /\ t.total # 0
      BY <2>3 DEF TerminalStatus, Totals
    <2>5. (t.failed = 0 /\ t.unresolved = 0 /\ t.total # 0) <=>
             /\ size > 0
             /\ \A r \in Row : rows[r] = IF r <= size THEN "succeeded" ELSE "absent"
      <3>1. \A r \in Row : r \in Nat /\ r >= 1
        BY LifecycleAssumption DEF Row
      <3>2. ASSUME t.failed = 0, t.unresolved = 0, t.total # 0
            PROVE  /\ size > 0
                   /\ \A r \in Row : rows[r] = IF r <= size THEN "succeeded" ELSE "absent"
        BY <1>1, <1>4, <2>3, <3>1, <3>2 DEF RowState
      <3>3. ASSUME size > 0,
                   \A r \in Row : rows[r] = IF r <= size THEN "succeeded" ELSE "absent"
            PROVE  t.failed = 0 /\ t.unresolved = 0 /\ t.total # 0
        <4>1. 1 \in Row /\ 1 <= size
          BY <1>1, <3>3, LifecycleAssumption DEF Row
        <4> QED
          BY <2>3, <3>3, <4>1
      <3> QED
        BY <3>2, <3>3
    <2> QED
      BY <2>1, <2>2, <2>4, <2>5 DEF t, f
  <1> QED
    BY <1>3, <1>4 DEF Outcome

\* A workflow updates the job it has counted, and goes on or gives up.
LEMMA WorkflowFinalizes ==
    ASSUME TypeOK, Core,
           NEW w \in Workflow, NEW state \in {"running"} \cup (Closed \ {"completed"}),
           NEW pc \in Step, NEW outcome \in Outcome, NEW snap \in [Row -> RowState],
           At(w, "update"),
           Becomes(w, state, pc, outcome, snap),
           job' = Finalized(CountRows(wf[w].snap), wf[w].outcome),
           dirty' = FALSE,
           UNCHANGED <<size, rows, start, main, rec>>,
           outcome = wf[w].outcome \/ state # "running",
           state = "running" => pc = "startExport"
    PROVE  Core'
  <1>1. /\ wf'[w] = [state |-> state, pc |-> pc, outcome |-> outcome, snap |-> snap]
        /\ \A x \in Workflow : x # w => wf'[x] = wf[x]
    BY BecomesType
  <1>2. /\ wf'[w].state = state /\ wf'[w].pc = pc
        /\ wf'[w].outcome = outcome /\ wf'[w].snap = snap
    BY <1>1
  <1>3. "main" \in Workflow /\ "retry" \in Workflow /\ "export" \in Workflow
    BY DEF Workflow
  <1>4. "running" \notin Closed /\ "none" \notin Closed
    BY DEF Closed
  <1>5. w \in {"main", "retry"}
    BY DEF Core, OwnerInv, At, Exporting, Workflow
  <1>6. /\ wf[w].snap \in [Row -> RowState] /\ wf[w].outcome \in Outcome
        /\ rows \in [Row -> RowState] /\ job.error \in BOOLEAN
        /\ main.next \in Nat /\ size \in Nat
    BY Types, LifecycleAssumption DEF WorkflowRow, JobRow, MainType
  <1>7. /\ job'.status \in Terminal
        /\ job'.status = "cancelled" <=> job.status = "cancelled" \/ wf[w].outcome = "cancelled"
        /\ job'.error = (job.error \/ wf[w].outcome = "error")
        /\ job'.totals = CountRows(wf[w].snap)
    BY <1>6, FinalizedType DEF Outcome
  <1>8. job.status # "cancelled" => wf[w].snap = rows
    BY <1>5 DEF Core, CountInv
  <1>9. /\ job.status # "none"
        /\ start \in {"init", "sending", "orphan", "refused"} =>
              w = "retry" /\ job.status = "cancelled"
    BY <1>5 DEF Core, OwnerInv, StartInv, At, Running, Active, Terminal
  <1>10. \A r \in Row : r > size => rows[r] \in {"absent", "phantom"}
    BY DEF Core, RowsInv
  <1>11. job.status # "cancelled" /\ wf[w].outcome = "ok" /\ ~job.error =>
            \A r \in Row : r <= size => rows[r] # "absent"
    <2>1. CASE w = "main"
      <3>1. wf[w].outcome = "ok" => main.next > size
        BY <2>1 DEF Core, RowsInv, At
      <3>2. \A r \in Row : r \in Nat
        BY LifecycleAssumption DEF Row
      <3> QED
        BY <1>6, <3>1, <3>2 DEF Core, RowsInv
    <2>2. CASE w = "retry"
      BY <2>2 DEF Core, RowsInv, OwnerInv, At, Terminal
    <2> QED
      BY <1>5, <2>1, <2>2
  <1>12. StartInv'
    BY <1>1, <1>3, <1>7, <1>9 DEF Core, StartInv, Terminal
  <1>13. OwnerInv'
    <2>1. CASE w = "main"
      BY <1>1, <1>2, <1>3, <1>4, <1>7, <2>1 DEF Core, OwnerInv, At, Running, Exporting
    <2>2. CASE w = "retry"
      <3>1. job.status \in Terminal /\ wf["retry"].outcome = "ok"
        BY <2>2 DEF Core, OwnerInv, At
      <3>2. job.status = "cancelled" <=> job'.status = "cancelled"
        BY <1>7, <2>2, <3>1
      <3>3. wf'["main"] = wf["main"] /\ wf'["export"] = wf["export"]
        BY <1>1, <1>3, <2>2
      <3> QED
        BY <1>2, <1>3, <1>4, <1>7, <2>2, <3>1, <3>2, <3>3
        DEF Core, OwnerInv, At, Running, Exporting, Active, Terminal
    <2> QED
      BY <1>5, <2>1, <2>2
  <1>14. ReconcilerInv'
    BY <1>1, <1>2, <1>3, <1>4 DEF Core, ReconcilerInv, Running, At
  <1>15. RowsInv'
    <2>1. job'.status \in {"succeeded", "failed"} /\ ~job'.error =>
             \A r \in Row : r <= size => rows[r] # "absent"
      BY <1>6, <1>7, <1>11 DEF Outcome
    <2>2. wf'["main"].state = "running" /\ wf'["main"].pc \in {"finalize", "update"} =>
             wf'["main"] = wf["main"]
      BY <1>1, <1>2, <1>3, <1>4
    <2> QED
      BY <2>1, <2>2 DEF Core, RowsInv, Running
  <1>16. CountInv'
    <2>1. job'.status \notin Active
      BY <1>7 DEF Active, Terminal
    <2>2. job.status = "cancelled" => job'.status = "cancelled"
      BY <1>7
    <2> QED
      BY <1>1, <1>2, <1>3, <1>4, <2>1, <2>2 DEF Core, CountInv, At, Running
  <1>17. OutcomeFromRows'
    <2> SUFFICES ASSUME job'.status \in {"succeeded", "failed"}
                 PROVE  /\ job'.totals = CountRows(rows)
                        /\ job'.status = "succeeded" <=>
                              /\ ~job'.error
                              /\ size > 0
                              /\ \A r \in Row : rows[r] = IF r <= size THEN "succeeded" ELSE "absent"
      BY DEF OutcomeFromRows
    <2>1. job.status # "cancelled" /\ wf[w].outcome # "cancelled"
      BY <1>7
    <2>2. job' = Finalized(CountRows(rows), wf[w].outcome)
      BY <1>8, <2>1
    <2>3. job'.totals = CountRows(rows)
      BY <1>7, <1>8, <2>1
    <2> QED
      BY <1>6, <1>10, <1>11, <2>1, <2>2, <2>3, FinalizedRight
  <1> QED
    BY <1>12, <1>13, <1>14, <1>15, <1>16, <1>17 DEF Core

\* Steps of the start.
LEMMA CoreStart ==
    ASSUME TypeOK, Core, create_job \/ StartStep
    PROVE  Core'
  <1>0. /\ job \in JobRow /\ rows \in [Row -> RowState]
        /\ start \in {"init", "sending", "orphan", "arrived", "refused", "over"}
        /\ wf \in [Workflow -> WorkflowRow]
    BY Types
  <1>1. CASE create_job
    <2>1. job'.status = "pending" /\ job'.error = job.error /\ job'.totals = job.totals
      BY <1>0, <1>1 DEF create_job, JobRow
    <2>2. job.status = "none" /\ wf["main"].state = "none" /\ job.status # "cancelled"
      BY <1>1 DEF create_job, Core, StartInv
    <2>3. StartInv'
      BY <1>1, <2>1, <2>2 DEF create_job, Core, StartInv
    <2>4. OwnerInv'
      BY <1>1, <2>1, <2>2 DEF create_job, Core, OwnerInv, Running, Terminal
    <2>5. ReconcilerInv' /\ RowsInv' /\ OutcomeFromRows'
      BY <1>1, <2>1 DEF create_job, Core, ReconcilerInv, RowsInv, OutcomeFromRows, Running
    <2>6. CountInv'
      BY <1>1, <2>1, <2>2 DEF create_job, Core, CountInv, At, Running, ReconcilerInv
    <2> QED
      BY <2>3, <2>4, <2>5, <2>6 DEF Core
  <1>2. CASE StartArrives
    <2>1. Becomes("main", "running", "work", "ok", NoRows)
      BY <1>2, Moves DEF StartArrives, Workflow, Step
    <2>2. /\ wf'["main"] = [state |-> "running", pc |-> "work", outcome |-> "ok", snap |-> NoRows]
          /\ \A x \in Workflow : x # "main" => wf'[x] = wf[x]
      <3>1. /\ "main" \in Workflow /\ "work" \in Step /\ "ok" \in Outcome
            /\ "running" \in {"none", "running"} \cup Closed
        BY DEF Workflow, Step, Outcome
      <3> QED
        BY <2>1, <3>1, BecomesType, NoRowsType
    <2>3. wf'["retry"] = wf["retry"] /\ wf'["export"] = wf["export"]
      BY <2>2 DEF Workflow
    <2>4. StartInv'
      BY <1>2, <2>2 DEF StartArrives, Core, StartInv
    <2>5. OwnerInv'
      BY <1>2, <2>2, <2>3 DEF StartArrives, Core, OwnerInv, StartInv, Running, Active
    <2>6. ReconcilerInv' /\ OutcomeFromRows' /\ RowsInv'
      BY <1>2, <2>2 DEF StartArrives, Core, ReconcilerInv, RowsInv, OutcomeFromRows, Running
    <2>7. CountInv'
      BY <1>2, <2>2, <2>3 DEF StartArrives, Core, CountInv, At, Running
    <2> QED
      BY <2>4, <2>5, <2>6, <2>7 DEF Core
  <1>3. CASE StartUnknown \/ StartLost \/ StartRefused
    <2>1. /\ UNCHANGED <<size, job, rows, wf, main, rec, dirty>>
          /\ start # "init" /\ start' # "init" /\ start # "over"
          /\ start' \in {"init", "sending", "orphan", "refused"} =>
                start \in {"init", "sending", "orphan", "refused"}
      BY <1>3 DEF StartUnknown, StartLost, StartRefused
    <2>2. StartInv' /\ OwnerInv'
      BY <2>1 DEF Core, StartInv, OwnerInv, Running
    <2>3. ReconcilerInv' /\ RowsInv' /\ OutcomeFromRows' /\ CountInv'
      BY <2>1 DEF Core, ReconcilerInv, RowsInv, OutcomeFromRows, CountInv, At, Running
    <2> QED
      BY <2>2, <2>3 DEF Core
  <1>4. CASE RecordRefused
    <2>1. /\ job'.totals = job.totals
          /\ \/ job.status = "pending" /\ job'.status = "failed" /\ job'.error = TRUE
             \/ job.status = "cancelled" /\ job' = job
      BY <1>0, <1>4 DEF RecordRefused, JobRow, Core, StartInv
    <2>2. wf["main"].state = "none" /\ start' = "over" /\ start = "refused"
      BY <1>4 DEF RecordRefused, Core, StartInv
    <2>3. StartInv' /\ ReconcilerInv'
      BY <1>4, <2>1, <2>2 DEF RecordRefused, Core, StartInv, ReconcilerInv, Running
    <2>4. OwnerInv' /\ RowsInv' /\ CountInv'
      BY <1>4, <2>1, <2>2
      DEF RecordRefused, Core, OwnerInv, RowsInv, CountInv, At, Running, Active, Terminal
    <2>5. OutcomeFromRows'
      BY <1>4, <2>1, <2>2 DEF RecordRefused, Core, OutcomeFromRows, StartInv
    <2> QED
      BY <2>3, <2>4, <2>5 DEF Core
  <1>5. CASE RecordStart
    <2>1. /\ job'.totals = job.totals /\ job'.error = job.error
          /\ job'.status = IF job.status = "pending" THEN "running" ELSE job.status
      BY <1>0, <1>5 DEF RecordStart, JobRow
    <2>2. start' = "over" /\ start = "arrived"
      BY <1>5 DEF RecordStart
    <2>3. StartInv' /\ ReconcilerInv'
      BY <1>5, <2>1, <2>2 DEF RecordStart, Core, StartInv, ReconcilerInv, Running
    <2>4. OwnerInv' /\ RowsInv' /\ CountInv'
      BY <1>5, <2>1, <2>2
      DEF RecordStart, Core, OwnerInv, RowsInv, CountInv, At, Running, Active, Terminal
    <2>5. OutcomeFromRows'
      BY <1>5, <2>1 DEF RecordStart, Core, OutcomeFromRows
    <2> QED
      BY <2>3, <2>4, <2>5 DEF Core
  <1> QED
    BY <1>1, <1>2, <1>3, <1>4, <1>5 DEF StartStep

\* Steps of a pause, resume or cancel request.
LEMMA CoreRequest ==
    ASSUME TypeOK, RequestInv, Core, NEW q \in Request, RequestStep(q)
    PROVE  Core'
  <1>1. CASE UNCHANGED <<size, job, rows, start, wf, rec, dirty>> /\ main'.next = main.next
    BY <1>1 DEF Core, StartInv, OwnerInv, ReconcilerInv, RowsInv, CountInv, OutcomeFromRows,
                At, Running
  <1>2. CASE Signal(q)
    <2>1. main'.next = main.next
      BY <1>2, Types DEF Signal, MainType
    <2> QED
      BY <1>1, <1>2, <2>1 DEF Signal
  <1>3. CASE RecordRequest(q)
    <2>1. job \in JobRow /\ req[q].kind \in {"none", "pause", "resume", "cancel"}
      BY Types
    <2>2. req[q].kind \in {"pause", "resume", "cancel"}
      BY <1>3, <2>1 DEF RecordRequest, RequestInv
    <2>3. \/ job' = job
          \/ /\ job.status \in Active
             /\ job'.status = "cancelled"
          \/ /\ job.status \in {"running", "paused"}
             /\ job'.status \in {"running", "paused"}
             /\ job'.error = job.error /\ job'.totals = job.totals
      BY <1>3, <2>1, <2>2 DEF RecordRequest, JobRow, From, To, Active
    <2>4. UNCHANGED <<size, rows, start, wf, main, rec, dirty>>
      BY <1>3 DEF RecordRequest
    <2>5. StartInv' /\ ReconcilerInv'
      BY <2>3, <2>4 DEF Core, StartInv, ReconcilerInv, Running, Active
    <2>6. OwnerInv' /\ RowsInv' /\ CountInv'
      BY <2>3, <2>4 DEF Core, OwnerInv, RowsInv, CountInv, At, Running, Active, Terminal
    <2>7. OutcomeFromRows'
      BY <2>3, <2>4 DEF Core, OutcomeFromRows
    <2> QED
      BY <2>5, <2>6, <2>7 DEF Core
  <1> QED
    BY <1>1, <1>2, <1>3 DEF RequestStep, action_target, DropRequest

\* A row is processed, by the job's workflow or by a retry.
LEMMA CoreRow ==
    ASSUME TypeOK, Core,
           \/ Ingest
           \/ \E s \in {"succeeded", "failed", "unresolved"}, more, published \in BOOLEAN :
                 ProcessRow(s, more, published)
           \/ \E r \in Row, s \in RowState \ {"absent"} : RetryRow(r, s)
    PROVE  Core'
  <1>0. /\ job \in JobRow /\ rows \in [Row -> RowState] /\ size \in 0..MaxRows
        /\ main \in MainType
    BY Types
  <1>a. \A r \in Row : r \in Nat /\ r >= 1
    BY LifecycleAssumption DEF Row
  <1>b. CASE Ingest
    <2>1. main'.next = main.next
      BY <1>0, <1>b DEF Ingest, MainType
    <2> QED
      BY <1>b, <2>1 DEF Ingest, Core, StartInv, OwnerInv, ReconcilerInv, RowsInv, CountInv,
                        OutcomeFromRows, At, Running
  <1>1. ASSUME NEW s \in {"succeeded", "failed", "unresolved"}, NEW more \in BOOLEAN,
               NEW published \in BOOLEAN, ProcessRow(s, more, published)
        PROVE  Core'
    <2>1. /\ job'.status = job.status /\ job'.error = job.error
          /\ job'.totals = job.totals \/ job.status = "running"
      BY <1>0, <1>1 DEF ProcessRow, Publish, JobRow
    <2>2. /\ main.next \in Row /\ main.next <= size
          /\ main'.next = main.next + 1
          /\ rows' = [rows EXCEPT ![main.next] = s]
      <3>1. /\ main' = [main EXCEPT !.next = @ + 1, !.batch = more]
            /\ main.next <= size /\ rows' = [rows EXCEPT ![main.next] = s]
        BY <1>1, Zenon DEF ProcessRow
      <3> QED
        BY <1>0, <3>1, LifecycleAssumption DEF MainType, Row
    <2>3. UNCHANGED <<size, start, wf, rec, dirty>>
      BY <1>1 DEF ProcessRow
    <2>4. /\ Running("main") /\ wf["main"].pc = "work"
          /\ job.status \in Active \cup {"cancelled"}
      BY <1>1 DEF ProcessRow, At, Core, OwnerInv, Exporting
    <2>5. start \notin {"init", "sending", "orphan", "refused"}
      BY <2>4 DEF Core, StartInv, Running
    <2>6. StartInv' /\ OwnerInv'
      BY <2>1, <2>3, <2>5 DEF Core, StartInv, OwnerInv, Running
    <2>7. ReconcilerInv'
      BY <2>3 DEF Core, ReconcilerInv, Running
    <2>8. RowsInv'
      <3>1. \A r \in Row : r < main'.next => rows'[r] # "absent"
        BY <1>0, <1>a, <2>2 DEF Core, RowsInv
      <3>2. \A r \in Row : r > size => rows'[r] = rows[r]
        BY <1>0, <1>a, <2>2
      <3>3. job.status \notin {"succeeded", "failed"}
        BY <2>4 DEF Active
      <3> QED
        BY <2>1, <2>3, <2>4, <3>1, <3>2, <3>3 DEF Core, RowsInv, Running
    <2>9. CountInv'
      <3>1. job.status # "cancelled" => ~Running("retry") /\ rec.pc # "counted"
        BY <2>4 DEF Core, OwnerInv, ReconcilerInv, Active, Terminal
      <3> QED
        BY <2>1, <2>3, <2>4, <3>1 DEF Core, CountInv, At, Running, ReconcilerInv, Active
    <2>10. OutcomeFromRows'
      BY <2>1, <2>4 DEF OutcomeFromRows, Active
    <2> QED
      BY <2>6, <2>7, <2>8, <2>9, <2>10 DEF Core
  <1>2. ASSUME NEW r \in Row, NEW s \in RowState \ {"absent"}, RetryRow(r, s)
        PROVE  Core'
    <2>1. /\ rows' = [rows EXCEPT ![r] = s]
          /\ s = "phantom" <=> rows[r] \in {"absent", "phantom"}
          /\ dirty' = TRUE
          /\ UNCHANGED <<size, job, start, wf, main, rec>>
          /\ Running("retry") /\ wf["retry"].pc = "work" /\ job.status \in Terminal
      BY <1>2 DEF RetryRow, At, Core, OwnerInv
    <2>2. StartInv'
      BY <2>1 DEF Core, StartInv, Terminal
    <2>3. OwnerInv' /\ ReconcilerInv'
      BY <2>1 DEF Core, OwnerInv, ReconcilerInv, Running
    <2>4. RowsInv'
      <3>1. \A x \in Row : rows'[x] # "absent" \/ rows'[x] = rows[x]
        BY <1>0, <2>1
      <3>2. \A x \in Row : rows'[x] = rows[x] \/ (rows'[x] = "phantom" <=>
                                                    rows[x] \in {"absent", "phantom"})
        BY <1>0, <2>1
      <3> QED
        BY <2>1, <3>1, <3>2 DEF Core, RowsInv, Running
    <2>5. CountInv'
      BY <2>1 DEF Core, CountInv, OwnerInv, At, Running, Active, Terminal, Exporting
    <2>6. OutcomeFromRows'
      BY <2>1 DEF OutcomeFromRows
    <2> QED
      BY <2>2, <2>3, <2>4, <2>5, <2>6 DEF Core
  <1> QED
    BY <1>1, <1>2, <1>b

\* Steps of the reconciler.
LEMMA CoreReconciler ==
    ASSUME TypeOK, Core, ReconcileStep \/ PassFails
    PROVE  Core'
  <1>0. job \in JobRow /\ rows \in [Row -> RowState] /\ wf \in [Workflow -> WorkflowRow]
    BY Types
  <1>1. CASE UNCHANGED <<size, job, rows, start, wf, main, dirty>> /\
             (rec'.pc # "idle" =>
                /\ start = "over"
                /\ rec'.seen # "completed"
                /\ rec'.seen # "running" => ~Running("main")
                /\ rec'.pc = "counted" => rec'.seen # "running" /\ rec'.snap = rows)
    <2>1. StartInv' /\ OwnerInv' /\ RowsInv' /\ OutcomeFromRows'
      BY <1>1 DEF Core, StartInv, OwnerInv, RowsInv, OutcomeFromRows, Running
    <2>2. ReconcilerInv' /\ CountInv'
      BY <1>1 DEF Core, ReconcilerInv, CountInv, At, Running
    <2> QED
      BY <2>1, <2>2 DEF Core
  <1>2. CASE Describe
    <2>1. wf["main"].state # "completed"
      BY <1>2 DEF Describe, Stale, Core, OwnerInv, Active, Terminal
    <2> QED
      BY <1>1, <1>2, <2>1 DEF Describe, Stale, Running
  <1>3. CASE RepairCount
    <2>1. /\ rec'.pc = "counted" /\ rec'.seen = rec.seen /\ rec'.snap = rows
      BY <1>3, Types DEF RepairCount
    <2> QED
      BY <1>1, <1>3, <2>1 DEF RepairCount, Core, ReconcilerInv
  <1>4. CASE PassFails
    BY <1>1, <1>4 DEF PassFails, Rest
  <1>5. CASE LeaveRunning
    <2>1. /\ job'.totals = job.totals /\ job'.error = job.error
          /\ \/ job'.status = job.status
             \/ job.status = "pending" /\ job'.status = "running"
      BY <1>0, <1>5 DEF LeaveRunning, JobRow
    <2>2. rec'.pc = "idle" /\ start = "over" /\ UNCHANGED <<size, rows, start, wf, main, dirty>>
      BY <1>5 DEF LeaveRunning, Rest, Core, ReconcilerInv
    <2>3. StartInv' /\ ReconcilerInv'
      BY <2>1, <2>2 DEF Core, StartInv, ReconcilerInv
    <2>4. OwnerInv' /\ RowsInv' /\ CountInv'
      BY <2>1, <2>2 DEF Core, OwnerInv, RowsInv, CountInv, At, Running, Active, Terminal
    <2>5. OutcomeFromRows'
      BY <2>1, <2>2 DEF Core, OutcomeFromRows
    <2> QED
      BY <2>3, <2>4, <2>5 DEF Core
  <1>6. CASE RepairUpdate
    <2>1. rec'.pc = "idle" /\ start = "over" /\ UNCHANGED <<size, rows, start, wf, main, dirty>>
      BY <1>6 DEF RepairUpdate, Rest, Core, ReconcilerInv
    <2>2. ~Running("main") /\ RepairFor(rec.seen) \in {"cancelled", "error"}
      BY <1>6 DEF RepairUpdate, Core, ReconcilerInv, RepairFor
    <2>3. CASE job.status \in Active
      <3> DEFINE o == RepairFor(rec.seen)
      <3>1. job' = Finalized(CountRows(rows), o)
        BY <1>6, <2>3 DEF RepairUpdate, Core, CountInv
      <3>2. job.status # "cancelled" /\ job.status # "none"
        BY <2>3 DEF Active
      <3>3. /\ job'.status \in Terminal
            /\ job'.status = "cancelled" <=> o = "cancelled"
            /\ job'.error = (job.error \/ o = "error")
            /\ job'.totals = CountRows(rows)
        BY <1>0, <2>2, <3>1, <3>2, FinalizedType
      <3>4. ~Running("retry")
        BY <2>3 DEF Core, OwnerInv, Active, Terminal
      <3> HIDE DEF o
      <3>5. StartInv' /\ ReconcilerInv'
        BY <2>1, <3>2, <3>3 DEF Core, StartInv, ReconcilerInv, Terminal
      <3>6. OwnerInv' /\ CountInv'
        BY <2>1, <2>2, <3>3, <3>4 DEF Core, OwnerInv, CountInv, At, Running
      <3>7. RowsInv'
        BY <2>1, <2>2, <3>3 DEF Core, RowsInv, Running, o
      <3>8. OutcomeFromRows'
        <4>1. \A r \in Row : r > size => rows[r] \in {"absent", "phantom"}
          BY DEF Core, RowsInv
        <4>2. o \in Outcome /\ o # "ok"
          BY <2>2 DEF o, Outcome
        <4>3. o # "cancelled" =>
                (job'.status = "succeeded" <=>
                   /\ ~job'.error
                   /\ size > 0
                   /\ \A r \in Row : rows[r] = IF r <= size THEN "succeeded" ELSE "absent")
          BY <3>1, <3>2, <4>1, <4>2, FinalizedRight
        <4> QED
          BY <2>1, <3>3, <4>3 DEF OutcomeFromRows
      <3> QED
        BY <3>5, <3>6, <3>7, <3>8 DEF Core
    <2>4. CASE job.status \notin Active
      BY <1>1, <1>6, <2>1, <2>4 DEF RepairUpdate
    <2> QED
      BY <2>3, <2>4
  <1> QED
    BY <1>2, <1>3, <1>4, <1>5, <1>6 DEF ReconcileStep

\* Steps of the workflows, between the last row and the end.
LEMMA CoreWorkflow ==
    ASSUME TypeOK, Core,
           \/ \E b \in BOOLEAN : SourceExhausted(b)
           \/ NoticeCancel \/ RunFails
           \/ \E w \in Workflow : FinishStep(w) \/ Terminate(w) \/ FinalizeFails(w)
                                  \/ ExportFails(w) \/ RecordExportFails(w)
           \/ retry_row \/ retry_all_failed \/ retry_export \/ RetryDone \/ RetryFails
    PROVE  Core'
  <1>0. /\ job \in JobRow /\ rows \in [Row -> RowState] /\ wf \in [Workflow -> WorkflowRow]
        /\ NoRows \in [Row -> RowState]
    BY Types, NoRowsType
  <1>a. "main" \in Workflow /\ "retry" \in Workflow /\ "export" \in Workflow
    BY DEF Workflow
  <1>b. /\ "running" \in {"running"} \cup Closed /\ "ok" \in Outcome
        /\ "terminated" \in Closed /\ "failed" \in Closed
        /\ "closed" \in Step /\ "running" \notin Closed
        /\ "completed" # "terminated" /\ "completed" # "failed"
    BY DEF Closed, Step, Outcome
  <1>c. \A w \in Workflow : /\ wf[w].outcome \in Outcome /\ wf[w].snap \in [Row -> RowState]
                            /\ Running(w) => wf[w].state \in {"running"} \cup Closed
    BY <1>0 DEF WorkflowRow, Running
  <1>1. CASE (\E b \in BOOLEAN : SourceExhausted(b)) \/ NoticeCancel \/ RunFails
    <2>1. PICK o \in Outcome : EndWork(o) /\ (o = "ok" => main.next > size)
      BY <1>1 DEF SourceExhausted, NoticeCancel, RunFails, Outcome
    <2>2. Running("main") /\ wf["main"].pc = "work"
      BY <1>1 DEF SourceExhausted, NoticeCancel, RunFails, At
    <2>3. Becomes("main", "running", "finalize", o, wf["main"].snap)
      BY <2>1, <2>2, EndMoves DEF Running
    <2>4. MayReach("main", "finalize", o, wf["main"].snap)
      BY <2>1, <2>2 DEF MayReach, Core, OwnerInv, Exporting
    <2>5. "finalize" \in Step /\ UNCHANGED <<size, rows, start, main, rec, dirty>>
      BY <2>1 DEF EndWork, Step
    <2>6. /\ job'.status = job.status /\ job'.error = job.error
          /\ job'.totals = job.totals \/ job.status = "running"
      BY <1>0, <1>1 DEF SourceExhausted, NoticeCancel, RunFails, Publish, JobRow
    <2> QED
      BY <1>a, <1>b, <1>c, <2>2, <2>3, <2>4, <2>5, <2>6, WorkflowMoves
  <1>2. ASSUME NEW w \in Workflow, Terminate(w) PROVE Core'
    <2>1. Becomes(w, "terminated", "closed", "ok", NoRows)
      BY <1>2, <1>b, Moves DEF Terminate
    <2>2. Running(w) /\ UNCHANGED <<size, job, rows, start, main, rec, dirty>>
      BY <1>2 DEF Terminate
    <2> QED
      BY <1>0, <1>b, <2>1, <2>2, WorkflowMoves
  <1>3. ASSUME NEW w \in Workflow, FinalizeCount(w) PROVE Core'
    <2>1. "update" \in Step
      BY DEF Step
    <2>2. Running(w) /\ wf[w].pc = "finalize"
      BY <1>3 DEF FinalizeCount, At
    <2>3. Becomes(w, "running", "update", wf[w].outcome, rows)
      BY <1>3, <2>1, <2>2, Moves DEF FinalizeCount, Running
    <2>4. MayReach(w, "update", wf[w].outcome, rows)
      BY <2>2 DEF MayReach, Core, OwnerInv, RowsInv, Exporting, Workflow
    <2>5. UNCHANGED <<size, job, rows, start, main, rec, dirty>>
      BY <1>3 DEF FinalizeCount
    <2> QED
      BY <1>0, <1>b, <1>c, <2>1, <2>2, <2>3, <2>4, <2>5, WorkflowMoves
  <1>4. ASSUME NEW w \in Workflow, FinalizeUpdate(w) PROVE Core'
    <2>1. "startExport" \in Step
      BY DEF Step
    <2>2. At(w, "update")
      BY <1>4 DEF FinalizeUpdate
    <2>3. Becomes(w, "running", "startExport", wf[w].outcome, NoRows)
      BY <1>4, <2>1, <2>2, Moves DEF FinalizeUpdate, At, Running
    <2>4. /\ job' = Finalized(CountRows(wf[w].snap), wf[w].outcome) /\ dirty' = FALSE
          /\ UNCHANGED <<size, rows, start, main, rec>>
      BY <1>4 DEF FinalizeUpdate
    <2> QED
      BY <1>0, <1>c, <2>1, <2>2, <2>3, <2>4, WorkflowFinalizes
  <1>5. ASSUME NEW w \in Workflow, FinalizeFails(w) PROVE Core'
    <2>a. PICK state \in FailStates(wf[w].outcome) : Close(w, state)
      BY <1>5 DEF FinalizeFails
    <2>1. /\ UNCHANGED <<size, rows, start, main, rec>> /\ Running(w)
          /\ Becomes(w, state, "closed", "ok", NoRows)
          /\ state \in Closed \ {"completed"}
      BY <1>5, <1>b, <2>a, Moves, StatesClosed DEF FinalizeFails, At
    <2>2. CASE UNCHANGED <<job, dirty>>
      BY <1>0, <1>b, <2>1, <2>2, WorkflowMoves
    <2>3. CASE At(w, "update") /\ dirty' = FALSE
               /\ job' = Finalized(CountRows(wf[w].snap), wf[w].outcome)
      BY <1>0, <1>b, <2>1, <2>3, WorkflowFinalizes
    <2> QED
      BY <1>5, <2>2, <2>3 DEF FinalizeFails
  <1>6. ASSUME NEW w \in Workflow, NEW pc \in {"read", "upload", "record", "recordFailure"},
               RecordExportStarted(w) \/ ExportRead(w) \/ ExportUpload(w) \/ ExportFails(w),
               GoTo(w, pc) \/ Take(w, pc)
        PROVE  Core'
    <2>1. pc \in Step /\ pc \in Exporting
      BY DEF Step, Exporting
    <2>2. Running(w) /\ wf[w].pc \in Exporting
      BY <1>6 DEF RecordExportStarted, ExportRead, ExportUpload, ExportFails, At, Exporting
    <2>3. PICK snap \in {rows, NoRows} : Becomes(w, "running", pc, wf[w].outcome, snap)
      BY <1>6, <2>1, <2>2, Moves DEF Running
    <2>4. MayReach(w, pc, wf[w].outcome, snap)
      BY <2>1, <2>2 DEF MayReach, Core, OwnerInv, Exporting, Workflow
    <2>5. /\ job'.status = job.status /\ job'.error = job.error /\ job'.totals = job.totals
          /\ UNCHANGED <<size, rows, start, main, rec, dirty>>
      BY <1>0, <1>6
      DEF RecordExportStarted, ExportRead, ExportUpload, ExportFails, JobRow
    <2> QED
      BY <1>0, <1>b, <1>c, <2>1, <2>2, <2>3, <2>4, <2>5, WorkflowMoves
  <1>7. ASSUME NEW w \in Workflow,
               ExportRecord(w) \/ RecordExportFailure(w) \/ RecordExportFails(w)
        PROVE  Core'
    <2>1. Running(w) /\ wf[w].pc \in Exporting
      BY <1>7 DEF ExportRecord, RecordExportFailure, RecordExportFails, At, Exporting
    <2>2. PICK state \in Closed : Becomes(w, state, "closed", "ok", NoRows)
      BY <1>7, <1>b, Moves, StatesClosed DEF ExportRecord, RecordExportFailure, RecordExportFails
    <2>3. w = "main" => job.status \in Terminal
      BY <2>1 DEF Core, OwnerInv, Exporting
    <2>4. /\ job'.status = job.status /\ job'.error = job.error /\ job'.totals = job.totals
          /\ UNCHANGED <<size, rows, start, main, rec, dirty>>
      BY <1>0, <1>7 DEF ExportRecord, RecordExportFailure, RecordExportFails, JobRow
    <2> QED
      BY <1>0, <1>b, <2>1, <2>2, <2>3, <2>4, WorkflowMoves
  <1>8. CASE retry_row \/ retry_all_failed
    <2>1. "work" \in Step
      BY DEF Step
    <2>2. /\ Becomes("retry", "running", "work", "ok", NoRows) /\ job.status \in Terminal
          /\ UNCHANGED <<size, job, rows, start, main, rec, dirty>>
      BY <1>8, <1>a, <2>1, Moves DEF retry_row, retry_all_failed, StartRetry
    <2>3. MayReach("retry", "work", "ok", NoRows)
      BY <2>2 DEF MayReach
    <2> QED
      BY <1>0, <1>a, <1>b, <2>1, <2>2, <2>3, WorkflowMoves
  <1>9. CASE retry_export
    <2>1. "startExport" \in Step /\ MayReach("export", "startExport", "ok", NoRows)
      BY DEF Step, MayReach, Exporting
    <2>2. /\ Becomes("export", "running", "startExport", "ok", NoRows)
          /\ UNCHANGED <<size, job, rows, start, main, rec, dirty>>
      BY <1>9, <1>a, <2>1, Moves DEF retry_export
    <2> QED
      BY <1>0, <1>a, <1>b, <2>1, <2>2, WorkflowMoves
  <1>10. CASE RetryDone
    <2>1. "finalize" \in Step
      BY DEF Step
    <2>2. Running("retry") /\ UNCHANGED <<size, job, rows, start, main, rec, dirty>>
      BY <1>10 DEF RetryDone, At
    <2>3. Becomes("retry", "running", "finalize", wf["retry"].outcome, NoRows)
      BY <1>10, <1>a, <2>1, <2>2, Moves DEF RetryDone, Running
    <2>4. MayReach("retry", "finalize", wf["retry"].outcome, NoRows)
      BY <2>2 DEF MayReach, Core, OwnerInv
    <2> QED
      BY <1>0, <1>a, <1>b, <1>c, <2>1, <2>2, <2>3, <2>4, WorkflowMoves
  <1>11. CASE RetryFails
    <2>1. /\ Becomes("retry", "failed", "closed", "ok", NoRows)
          /\ UNCHANGED <<size, job, rows, start, main, rec, dirty>>
      BY <1>11, <1>a, <1>b, Moves DEF RetryFails
    <2> QED
      BY <1>0, <1>a, <1>b, <2>1, WorkflowMoves
  <1> QED
    BY <1>1, <1>2, <1>3, <1>4, <1>5, <1>6, <1>7, <1>8, <1>9, <1>10, <1>11
    DEF FinishStep, RecordExportStarted, ExportRead, ExportUpload, ExportFails

-----------------------------------------------------------------------------
(* The theorems. *)

\* The inductive invariant holds before the job is created.
LEMMA IInvInit == Init => IInv
  <1> SUFFICES ASSUME Init PROVE IInv
    OBVIOUS
  <1>1. TypeOK
    BY TypeInit
  <1>2. \A w \in Workflow : wf[w].state = "none"
    BY DEF Init, NoWorkflow
  <1>3. wf["main"].state = "none" /\ wf["retry"].state = "none" /\ wf["export"].state = "none"
    BY <1>2 DEF Workflow
  <1>4. StartInv /\ OwnerInv /\ RequestInv /\ ReconcilerInv
    BY <1>3 DEF Init, StartInv, OwnerInv, RequestInv, ReconcilerInv, Running, Idle
  <1>5. RowsInv
    <2>1. \A r \in Row : ~(r < 1) /\ rows[r] = "absent"
      BY LifecycleAssumption DEF Init, NoRows, Row
    <2> QED
      BY <1>3, <2>1 DEF Init, RowsInv, Running
  <1>6. CountInv /\ OutcomeFromRows
    BY <1>3 DEF Init, CountInv, OutcomeFromRows, At, Running
  <1> QED
    BY <1>1, <1>4, <1>5, <1>6 DEF IInv

\* Every step keeps the inductive invariant.
LEMMA IInvNext == IInv /\ [Next]_vars => IInv'
  <1> SUFFICES ASSUME IInv, [Next]_vars PROVE IInv'
    OBVIOUS
  <1>1. TypeOK /\ RequestInv /\ Core
    BY DEF IInv, Core
  <1>2. TypeOK' /\ RequestInv'
    BY <1>1, TypeNext, RequestInvNext
  <1>3. Core'
    <2>1. CASE UNCHANGED vars
      BY <1>1, <2>1 DEF vars, Core, StartInv, OwnerInv, ReconcilerInv, RowsInv, CountInv,
                        OutcomeFromRows, At, Running
    <2>2. CASE Next
      <3>1. CASE create_job \/ StartStep
        BY <1>1, <3>1, CoreStart
      <3>2. CASE \E q \in Request : RequestStep(q)
        BY <1>1, <3>2, CoreRequest
      <3>3. CASE MainStep
        BY <1>1, <3>3, CoreRow, CoreWorkflow DEF MainStep
      <3>4. CASE \E w \in Workflow : FinishStep(w)
        BY <1>1, <3>4, CoreWorkflow
      <3>5. CASE FaultStep
        BY <1>1, <3>5, CoreWorkflow, CoreReconciler DEF FaultStep
      <3>6. CASE RetryStep
        BY <1>1, <3>6, CoreWorkflow, CoreRow DEF RetryStep
      <3>7. CASE ReconcileStep
        BY <1>1, <3>7, CoreReconciler
      <3> QED
        BY <2>2, <3>1, <3>2, <3>3, <3>4, <3>5, <3>6, <3>7 DEF Next
    <2> QED
      BY <2>1, <2>2
  <1> QED
    BY <1>2, <1>3 DEF IInv, Core

\* The inductive invariant holds in every reachable state: who may still
\* update the job (workflow, retry, request, reconciler), and that whatever any
\* of them has counted or described is still right when it can take effect.
THEOREM Invariance == Spec => []IInv
  BY IInvInit, IInvNext, PTL DEF Spec

\* The job row, its rows, workflows and requests keep their types; in
\* particular the status is always one of ADR 0004's.
THEOREM TypeCorrect == Spec => []TypeOK
  <1>1. IInv => TypeOK
    BY DEF IInv
  <1> QED
    BY <1>1, Invariance, PTL

\* A job that reports an outcome reports that of its rows, however the counts
\* and updates of FinalizeJob, of retries and of the reconciler interleave.
THEOREM OutcomeFromRowsHolds == Spec => []OutcomeFromRows
  <1>1. IInv => OutcomeFromRows
    BY DEF IInv
  <1> QED
    BY <1>1, Invariance, PTL

\* The reconciler updates a job only when its workflow no longer runs.
THEOREM RepairOnlyOrphansHolds == Spec => []RepairOnlyOrphans
  <1>1. IInv => RepairOnlyOrphans
    BY DEF IInv, ReconcilerInv, RepairOnlyOrphans
  <1> QED
    BY <1>1, Invariance, PTL

-----------------------------------------------------------------------------
(* How a step changes what a client sees of a job. *)

Same     == job'.status = job.status /\ job'.error = job.error
SameOpen == Running("retry")' = Running("retry")

\* Nothing happens to the status, and a retry opens only of a job that ended.
Stays ==
    /\ Same
    /\ \/ SameOpen
       \/ Running("retry") /\ ~Running("retry")'
       \/ ~Running("retry") /\ Running("retry")' /\ job.status \in Terminal

Proceeds ==
    /\ job'.error = job.error /\ SameOpen
    /\ \/ job.status = "none"    /\ job'.status = "pending"
       \/ job.status = "pending" /\ job'.status = "running"
       \/ job.status = "running" /\ job'.status = "paused"
       \/ job.status = "paused"  /\ job'.status = "running"

Ends ==
    /\ job.status \in Active
    /\ job'.status \in Terminal
    /\ job'.error \in {job.error, TRUE}
    /\ job'.error => job'.status # "succeeded"
    /\ SameOpen

Notes == job.status = "cancelled" /\ job'.status = "cancelled" /\ job'.error = TRUE /\ SameOpen

Restates ==
    /\ At("retry", "update")
    /\ job.status \in {"succeeded", "failed"}
    /\ job'.status \in {"succeeded", "failed"}
    /\ job'.error = job.error
    /\ job'.error => job'.status = "failed"

StatusStep == Stays \/ Proceeds \/ Ends \/ Notes \/ Restates

\* A retry opens or closes only when its own workflow moves.
LEMMA OpenRetries ==
    ASSUME TypeOK, NEW w \in Workflow, NEW pc \in Step,
           NEW state \in {"none", "running"} \cup Closed, NEW outcome \in Outcome,
           NEW snap \in [Row -> RowState], Becomes(w, state, pc, outcome, snap)
    PROVE  /\ w # "retry" => SameOpen
           /\ w = "retry" => Running("retry")' = (state = "running")
  <1>1. "retry" \in Workflow
    BY DEF Workflow
  <1>2. /\ wf'[w] = [state |-> state, pc |-> pc, outcome |-> outcome, snap |-> snap]
        /\ \A x \in Workflow : x # w => wf'[x] = wf[x]
    BY BecomesType
  <1> QED
    BY <1>1, <1>2 DEF SameOpen, Running

\* A workflow that updates the job ends it, restates it or notes its error.
LEMMA FinalizesStatus ==
    ASSUME IInv, NEW w \in Workflow, NEW state \in {"running"} \cup Closed, NEW pc \in Step,
           NEW outcome \in Outcome, NEW snap \in [Row -> RowState],
           At(w, "update"), Becomes(w, state, pc, outcome, snap),
           job' = Finalized(CountRows(wf[w].snap), wf[w].outcome)
    PROVE  StatusStep
  <1>0. TypeOK /\ OwnerInv /\ job \in JobRow
    BY Types DEF IInv
  <1>1. wf[w].snap \in [Row -> RowState] /\ wf[w].outcome \in Outcome
    BY <1>0, Types DEF WorkflowRow
  <1>2. /\ job'.status \in Terminal
        /\ job'.status = "cancelled" <=> job.status = "cancelled" \/ wf[w].outcome = "cancelled"
        /\ job'.error = (job.error \/ wf[w].outcome = "error")
        /\ job'.error => job'.status # "succeeded"
    BY <1>0, <1>1, FinalizedType DEF Outcome
  <1>3. job.error \in BOOLEAN
    BY <1>0 DEF JobRow
  <1>4. state \in {"none", "running"} \cup Closed
    OBVIOUS
  <1>5. CASE w = "main"
    <2>1. SameOpen
      BY <1>0, <1>4, <1>5, OpenRetries
    <2>2. job.status \in Active \cup {"cancelled"}
      BY <1>0, <1>5 DEF OwnerInv, At, Exporting
    <2>3. job'.error \in {job.error, TRUE}
      BY <1>2, <1>3
    <2> QED
      BY <1>2, <1>3, <2>1, <2>2, <2>3 DEF StatusStep, Stays, Ends, Notes, Same
  <1>6. CASE w = "retry"
    <2>1. job.status \in Terminal /\ wf[w].outcome = "ok"
      BY <1>0, <1>6 DEF OwnerInv, At
    <2>2. job'.error = job.error /\ (job.status = "cancelled" <=> job'.status = "cancelled")
      BY <1>2, <1>3, <2>1
    <2>3. CASE job.status = "cancelled"
      BY <2>2, <2>3, <1>6 DEF StatusStep, Stays, Same, SameOpen, At, Running, Terminal
    <2>4. CASE job.status # "cancelled"
      BY <1>2, <1>6, <2>1, <2>2, <2>4 DEF StatusStep, Restates, Terminal
    <2> QED
      BY <2>3, <2>4
  <1>7. w # "export"
    BY <1>0 DEF OwnerInv, At, Exporting
  <1> QED
    BY <1>5, <1>6, <1>7 DEF Workflow

\* Every step changes the status in one of the five ways.
LEMMA StatusSteps == IInv /\ [Next]_vars => StatusStep
  <1> SUFFICES ASSUME IInv, [Next]_vars PROVE StatusStep
    OBVIOUS
  <1>0. /\ TypeOK /\ StartInv /\ OwnerInv /\ RequestInv /\ ReconcilerInv
        /\ job \in JobRow /\ rows \in [Row -> RowState] /\ NoRows \in [Row -> RowState]
    BY Types, NoRowsType DEF IInv
  <1>a. /\ "main" \in Workflow /\ "retry" \in Workflow /\ "export" \in Workflow
        /\ "ok" \in Outcome /\ "closed" \in Step /\ "work" \in Step /\ "startExport" \in Step
        /\ "terminated" \in Closed /\ "failed" \in Closed
    BY DEF Workflow, Outcome, Step, Closed
  <1>b. \A w \in Workflow : /\ wf[w].outcome \in Outcome /\ wf[w].snap \in [Row -> RowState]
                            /\ wf[w].state \in {"none", "running"} \cup Closed
    BY <1>0, Types DEF WorkflowRow
  <1>1. CASE UNCHANGED <<job, wf>>
    BY <1>1 DEF StatusStep, Stays, Same, SameOpen, Running
  <1>2. ASSUME Same, SameOpen PROVE StatusStep
    BY <1>2 DEF StatusStep, Stays
  <1>3. CASE create_job \/ RecordStart \/ RecordRefused \/ LeaveRunning
    <2>1. SameOpen
      BY <1>3 DEF create_job, RecordStart, RecordRefused, LeaveRunning, SameOpen, Running
    <2>2. CASE create_job
      <3>1. job.status = "none" /\ job'.status = "pending" /\ job'.error = job.error
        BY <1>0, <2>2 DEF create_job, JobRow, StartInv
      <3> QED
        BY <2>1, <3>1 DEF StatusStep, Proceeds
    <2>3. CASE RecordStart \/ LeaveRunning
      <3>1. /\ job'.error = job.error
            /\ \/ job'.status = job.status
               \/ job.status = "pending" /\ job'.status = "running"
        BY <1>0, <2>3 DEF RecordStart, LeaveRunning, JobRow
      <3> QED
        BY <2>1, <3>1 DEF StatusStep, Proceeds, Stays, Same
    <2>4. CASE RecordRefused
      <3>1. \/ job' = job
            \/ job.status = "pending" /\ job'.status = "failed" /\ job'.error = TRUE
        BY <1>0, <2>4 DEF RecordRefused, JobRow
      <3> QED
        BY <2>1, <3>1 DEF StatusStep, Ends, Stays, Same, Active, Terminal
    <2> QED
      BY <1>3, <2>2, <2>3, <2>4
  <1>4. CASE StartArrives
    BY <1>0, <1>2, <1>4, <1>a, Moves, OpenRetries DEF StartArrives, Same
  <1>5. ASSUME NEW q \in Request, RecordRequest(q) PROVE StatusStep
    <2>1. req[q].kind \in {"pause", "resume", "cancel"}
      BY <1>0, <1>5, Types DEF RecordRequest, RequestInv
    <2>2. /\ SameOpen /\ job'.error = job.error
          /\ \/ job' = job
             \/ job.status \in Active /\ job'.status = "cancelled"
             \/ job.status = "running" /\ job'.status = "paused"
             \/ job.status = "paused" /\ job'.status = "running"
      BY <1>0, <1>5, <2>1 DEF RecordRequest, JobRow, From, To, SameOpen, Running
    <2> QED
      BY <2>2 DEF StatusStep, Stays, Same, Proceeds, Ends, Terminal
  <1>6. ASSUME NEW s, NEW more, NEW published, ProcessRow(s, more, published)
        PROVE  StatusStep
    <2>1. Same /\ SameOpen
      BY <1>0, <1>6 DEF ProcessRow, Publish, JobRow, Same, SameOpen, Running
    <2> QED
      BY <1>2, <2>1
  <1>7. CASE (\E b \in BOOLEAN : SourceExhausted(b)) \/ NoticeCancel \/ RunFails
    <2>1. PICK o \in Outcome : EndWork(o)
      BY <1>7 DEF SourceExhausted, NoticeCancel, RunFails, Outcome
    <2>2. Becomes("main", wf["main"].state, "finalize", o, wf["main"].snap)
      BY <1>0, <2>1, EndMoves
    <2>3. "finalize" \in Step /\ "main" # "retry"
      BY DEF Step
    <2>4. SameOpen
      BY <1>0, <1>a, <1>b, <2>2, <2>3, OpenRetries
    <2> QED
      BY <1>0, <1>2, <1>7, <2>4
      DEF SourceExhausted, NoticeCancel, RunFails, Publish, JobRow, Same
  <1>8. ASSUME NEW w \in Workflow, NEW state \in {"running"} \cup Closed, NEW pc \in Step,
               NEW outcome \in Outcome, NEW snap \in [Row -> RowState],
               Becomes(w, state, pc, outcome, snap), Same,
               Running(w) \/ job.status \in Terminal
        PROVE  StatusStep
    <2>1. CASE w # "retry"
      BY <1>0, <1>2, <1>8, <2>1, OpenRetries
    <2>2. CASE w = "retry"
      <3>1. state \in {"none", "running"} \cup Closed
        BY <1>8
      <3>2. Running("retry")' = (state = "running")
        BY <1>0, <1>8, <2>2, <3>1, OpenRetries
      <3>3. Running("retry") \in BOOLEAN
        BY DEF Running
      <3> QED
        BY <1>8, <2>2, <3>2, <3>3 DEF StatusStep, Stays, SameOpen
    <2> QED
      BY <2>1, <2>2
  <1>9. ASSUME NEW w \in Workflow,
               \/ FinalizeCount(w) \/ RecordExportStarted(w) \/ ExportRead(w)
               \/ ExportUpload(w) \/ ExportFails(w)
        PROVE  StatusStep
    <2>1. Running(w)
      BY <1>9 DEF FinalizeCount, RecordExportStarted, ExportRead, ExportUpload, ExportFails, At
    <2>2. PICK pc \in {"update", "read", "upload", "record", "recordFailure"} :
             GoTo(w, pc) \/ Take(w, pc)
      BY <1>9 DEF FinalizeCount, RecordExportStarted, ExportRead, ExportUpload, ExportFails
    <2>3. pc \in Step
      BY DEF Step
    <2>4. PICK snap \in {rows, NoRows} : Becomes(w, "running", pc, wf[w].outcome, snap)
      BY <1>0, <2>1, <2>2, <2>3, Moves DEF Running
    <2>5. Same
      BY <1>0, <1>9
      DEF FinalizeCount, RecordExportStarted, ExportRead, ExportUpload, ExportFails, JobRow, Same
    <2> QED
      BY <1>0, <1>8, <1>b, <2>1, <2>3, <2>4, <2>5
  <1>10. ASSUME NEW w \in Workflow,
                \/ Terminate(w) \/ ExportRecord(w) \/ RecordExportFailure(w)
                \/ RecordExportFails(w)
         PROVE  StatusStep
    <2>1. Running(w)
      BY <1>10 DEF Terminate, ExportRecord, RecordExportFailure, RecordExportFails, At
    <2>2. PICK state \in Closed : Close(w, state)
      BY <1>0, <1>10, <1>a, StatesClosed
      DEF Terminate, ExportRecord, RecordExportFailure, RecordExportFails
    <2>3. Same
      BY <1>0, <1>10
      DEF Terminate, ExportRecord, RecordExportFailure, RecordExportFails, JobRow, Same
    <2>4. Becomes(w, state, "closed", "ok", NoRows)
      BY <1>0, <1>a, <2>2, Moves
    <2> QED
      BY <1>0, <1>8, <1>a, <2>1, <2>3, <2>4
  <1>11. ASSUME NEW w \in Workflow, FinalizeUpdate(w) PROVE StatusStep
    <2>1. Becomes(w, "running", "startExport", wf[w].outcome, NoRows)
      BY <1>0, <1>11, <1>a, Moves DEF FinalizeUpdate, At, Running
    <2> QED
      BY <1>0, <1>11, <1>a, <1>b, <2>1, FinalizesStatus DEF FinalizeUpdate
  <1>12. ASSUME NEW w \in Workflow, FinalizeFails(w) PROVE StatusStep
    <2>1. PICK state \in Closed : Becomes(w, state, "closed", "ok", NoRows)
      BY <1>0, <1>12, <1>a, Moves, StatesClosed DEF FinalizeFails
    <2>2. Running(w)
      BY <1>12 DEF FinalizeFails, At
    <2>3. CASE UNCHANGED job
      BY <1>0, <1>8, <1>a, <2>1, <2>2, <2>3 DEF Same
    <2>4. CASE At(w, "update") /\ job' = Finalized(CountRows(wf[w].snap), wf[w].outcome)
      BY <1>0, <1>a, <2>1, <2>4, FinalizesStatus
    <2> QED
      BY <1>12, <2>3, <2>4 DEF FinalizeFails
  <1>13. CASE retry_row \/ retry_all_failed \/ retry_export
    <2>1. PICK w \in {"retry", "export"}, pc \in {"work", "startExport"} : Open(w, pc)
      BY <1>13 DEF retry_row, retry_all_failed, StartRetry, retry_export
    <2>2. Same /\ job.status \in Terminal
      BY <1>13 DEF retry_row, retry_all_failed, StartRetry, retry_export, Same
    <2>3. Becomes(w, "running", pc, "ok", NoRows)
      BY <1>0, <1>a, <2>1, Moves
    <2> QED
      BY <1>0, <1>8, <1>a, <2>2, <2>3
  <1>14. CASE RetryDone \/ RetryFails
    <2>1. Running("retry") /\ Same
      BY <1>14 DEF RetryDone, RetryFails, At, Same
    <2>2. "finalize" \in Step
      BY DEF Step
    <2>3. CASE RetryDone
      <3>1. Becomes("retry", "running", "finalize", wf["retry"].outcome, NoRows)
        BY <1>0, <1>a, <2>1, <2>2, <2>3, Moves DEF RetryDone, Running
      <3> QED
        BY <1>0, <1>8, <1>a, <1>b, <2>1, <2>2, <3>1
    <2>4. CASE RetryFails
      <3>1. Becomes("retry", "failed", "closed", "ok", NoRows)
        BY <1>0, <1>a, <2>1, <2>4, Moves DEF RetryFails
      <3> QED
        BY <1>0, <1>8, <1>a, <2>1, <3>1
    <2> QED
      BY <1>14, <2>3, <2>4
  <1>15. CASE RepairUpdate
    <2>1. RepairFor(rec.seen) \in {"ok", "cancelled", "error"} /\ rec.snap \in [Row -> RowState]
      BY <1>0, Types DEF RepairFor
    <2>2. SameOpen
      BY <1>15 DEF RepairUpdate, SameOpen, Running
    <2>3. CASE job.status \in Active
      <3>1. /\ job'.status \in Terminal
            /\ job'.error = (job.error \/ RepairFor(rec.seen) = "error")
            /\ job'.error => job'.status # "succeeded"
        BY <1>0, <1>15, <2>1, <2>3, FinalizedType DEF RepairUpdate
      <3>2. job'.error \in {job.error, TRUE}
        BY <1>0, <3>1 DEF JobRow
      <3> QED
        BY <2>2, <2>3, <3>1, <3>2 DEF StatusStep, Ends
    <2>4. CASE job.status \notin Active
      BY <1>1, <1>15, <2>4 DEF RepairUpdate
    <2> QED
      BY <2>3, <2>4
  <1>16. CASE UNCHANGED vars
    BY <1>1, <1>16 DEF vars
  <1>17. CASE Next
    <2>1. CASE create_job \/ StartStep
      BY <1>1, <1>3, <1>4, <2>1 DEF StartStep, StartUnknown, StartLost, StartRefused
    <2>2. CASE \E q \in Request : RequestStep(q)
      BY <1>1, <1>5, <2>2 DEF RequestStep, action_target, Signal, DropRequest
    <2>3. CASE MainStep
      BY <1>1, <1>6, <1>7, <2>3 DEF MainStep, Ingest
    <2>4. CASE \E w \in Workflow : FinishStep(w)
      BY <1>9, <1>10, <1>11, <2>4 DEF FinishStep
    <2>5. CASE FaultStep
      BY <1>1, <1>7, <1>9, <1>10, <1>12, <1>14, <2>5 DEF FaultStep, PassFails
    <2>6. CASE RetryStep
      BY <1>1, <1>13, <1>14, <2>6 DEF RetryStep, RetryRow
    <2>7. CASE ReconcileStep
      BY <1>1, <1>3, <1>15, <2>7 DEF ReconcileStep, Describe, RepairCount
    <2> QED
      BY <1>17, <2>1, <2>2, <2>3, <2>4, <2>5, <2>6, <2>7 DEF Next
  <1> QED
    BY <1>16, <1>17

\* An outcome is kept: cancelled for ever, the others until a row retry
\* finalizes the job again.
THEOREM OutcomeKeptHolds == Spec => OutcomeKept
  <1> DEFINE A == job.status \in Terminal /\ job'.status # job.status =>
                     /\ job.status # "cancelled"
                     /\ job'.status \in {"succeeded", "failed"}
                     /\ At("retry", "update")
  <1>1. IInv /\ [Next]_vars => [A]_vars
    BY StatusSteps
    DEF StatusStep, Stays, Same, Proceeds, Ends, Notes, Restates, Active, Terminal
  <1> QED
    BY <1>1, Invariance, PTL DEF Spec, OutcomeKept

\* A job that is not created yet is one for the client, too.
LEMMA PromiseInit == Init => Promise!Init
  <1> SUFFICES ASSUME Init PROVE Promise!Init
    OBVIOUS
  <1>1. ~Running("retry")
    BY DEF Init, NoWorkflow, Running, Workflow
  <1> QED
    BY <1>1 DEF Init, Promise!Init

\* Every step of the writers is a step of JobStatus or none.
LEMMA PromiseNext == IInv /\ [Next]_vars => [Promise!Next]_(Promise!vars)
  <1> SUFFICES ASSUME IInv, [Next]_vars PROVE [Promise!Next]_(Promise!vars)
    OBVIOUS
  <1>0. StatusStep
    BY StatusSteps
  <1>1. CASE Stays
    BY <1>1 DEF Stays, Same, SameOpen, Promise!vars, Promise!Next, Promise!OpenRetry,
                Promise!CloseRetry, Terminal, Promise!Terminal, Running
  <1>2. CASE Proceeds
    BY <1>2 DEF Proceeds, SameOpen, Promise!Next, Promise!Create, Promise!Start,
                Promise!Pause, Promise!Resume
  <1>3. CASE Ends
    BY <1>3 DEF Ends, SameOpen, Active, Terminal, Promise!Next, Promise!End, Promise!Active,
                Promise!Terminal
  <1>4. CASE Notes
    BY <1>4 DEF Notes, SameOpen, Promise!Next, Promise!NoteError
  <1>5. CASE Restates
    <2>1. Running("retry") /\ Running("retry")' \in BOOLEAN
      BY <1>5 DEF Restates, At, Running
    <2> QED
      BY <1>5, <2>1 DEF Restates, Promise!Next, Promise!Restate
  <1> QED
    BY <1>0, <1>1, <1>2, <1>3, <1>4, <1>5 DEF StatusStep

\* Refinement: the start task, the requests, the workflows and the reconciler
\* together implement the life of a job that JobStatus describes.
THEOREM KeepsPromiseHolds == Spec => KeepsPromise
  BY PromiseInit, PromiseNext, Invariance, PTL DEF Spec, KeepsPromise, Promise!Spec
=============================================================================
