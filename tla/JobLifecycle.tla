---------------------------- MODULE JobLifecycle ----------------------------
(***************************************************************************)
(* The life of one job: the row of table jobs, written by the API, by the  *)
(* workflows that run the job, retry its rows and export its results, and  *)
(* by the reconciler.  Each writer reads, calls Temporal and writes in     *)
(* separate steps, so they interleave; a workflow can be terminated, its   *)
(* FinalizeJob can fail, a start can be lost or arrive late, and an API    *)
(* request can be dropped at any point.                                    *)
(*                                                                         *)
(* The rows of the job are processed one by one; how a row is delivered is *)
(* the subject of OperationLedger.                                         *)
(***************************************************************************)
EXTENDS Integers, FiniteSets

CONSTANTS
    MaxRows,      \* bound: records in the source
    Request,      \* slots for pause, resume and cancel requests in progress
    MaxRequests,  \* bound: such requests in all
    MaxRetries,   \* bound: row and export retries started
    MaxFaults     \* bound: database outages that make an activity give up

ASSUME LifecycleAssumption ==
    /\ MaxRows \in Nat
    /\ MaxRequests \in Nat
    /\ MaxRetries \in Nat
    /\ MaxFaults \in Nat

VARIABLES
    size,     \* records in the job's source
    job,      \* the row of table jobs
    rows,     \* job_rows.status of each row index
    start,    \* create_job's call to start the workflow
    wf,       \* the workflows {id}, {id}-retry and {id}-export
    main,     \* the job's workflow: next row, whether it is in a batch, pause
              \* flag, cancel request
    todo,     \* rows the retry workflow still has to process
    file,     \* contents of the exported results
    req,      \* pause, resume and cancel requests in progress
    rec,      \* the reconciler, between describing a workflow and its repair
    used,     \* how much of each bound is used
    dirty,    \* history: a retry changed rows that no finalization has seen
    direct    \* history: the job was cancelled without finding its workflow

vars == <<size, job, rows, start, wf, main, todo, file, req, rec, used, dirty, direct>>

Row      == 1..MaxRows
Workflow == {"main", "retry", "export"}
Active   == {"pending", "running", "paused"}
Terminal == {"succeeded", "failed", "cancelled"}
Closed   == {"completed", "failed", "canceled", "terminated"}

\* A row that was retried without ever having been ingested is failed in the
\* database and has no row_json: "phantom".
RowState == {"absent", "succeeded", "failed", "unresolved", "phantom"}
NoRows   == [r \in Row |-> "absent"]

Step == {"work", "finalize", "update", "startExport", "read", "upload", "record",
         "recordFailure", "closed"}

Idle == [kind |-> "none", pc |-> "idle", found |-> TRUE]

\* Types of the job row, its rows, workflows, requests and the reconciler; in
\* particular a job only ever has one of the statuses of ADR 0004.
TypeOK ==
    /\ size \in 0..MaxRows
    /\ job \in [status : Active \cup Terminal \cup {"none"}, error : BOOLEAN,
                export : {"none", "pending", "succeeded", "failed"},
                totals : [processed : Nat, failed : Nat, unresolved : Nat, total : Nat]]
    /\ rows \in [Row -> RowState]
    /\ start \in {"init", "sending", "orphan", "arrived", "refused", "over"}
    /\ wf \in [Workflow -> [state : {"none", "running"} \cup Closed, pc : Step,
                            outcome : {"ok", "cancelled", "error"},
                            snap : [Row -> RowState]]]
    /\ main \in [next : 1..(MaxRows + 1), batch : BOOLEAN, paused : BOOLEAN,
                 cancel : BOOLEAN]
    /\ todo \subseteq Row
    /\ file \in [Row -> RowState]
    /\ req \in [Request -> [kind : {"none", "pause", "resume", "cancel"},
                            pc : {"idle", "checked", "signalled"}, found : BOOLEAN]]
    /\ rec \in [pc : {"idle", "described", "counted"},
                seen : {"none", "running"} \cup Closed,
                was : Active \cup {"none"}, snap : [Row -> RowState]]
    /\ used \in [requests : Nat, retries : Nat, faults : Nat]
    /\ dirty \in BOOLEAN
    /\ direct \in BOOLEAN

-----------------------------------------------------------------------------
(* lifecycle.go: counting the rows and the terminal transition. *)

CountRows(rs) ==
    LET with(S) == Cardinality({r \in Row : rs[r] \in S}) IN
    [processed  |-> with({"succeeded"}),
     failed     |-> with({"failed", "phantom"}),
     unresolved |-> with({"unresolved"}),
     total      |-> with(RowState \ {"absent"})]

TerminalStatus(t, o) ==
    CASE o = "cancelled" -> "cancelled"
      [] o = "error" -> "failed"
      [] o = "ok" /\ (t.failed > 0 \/ t.unresolved > 0 \/ t.total = 0) -> "failed"
      [] OTHER -> "succeeded"

\* Mutant: last_error is overwritten instead of kept.
FinalizedForgetting(t, o) ==
    [job EXCEPT
        !.status = IF @ = "cancelled" \/ o = "cancelled" THEN "cancelled"
                   ELSE TerminalStatus(t, o),
        !.error  = o = "error",
        !.totals = t]

\* The UPDATE of finalize: cancelled is kept, and so is an earlier error.
Finalized(t, o) ==
    [job EXCEPT
        !.status = IF @ = "cancelled" \/ o = "cancelled" THEN "cancelled"
                   ELSE IF o = "error" \/ job.error THEN "failed"
                   ELSE TerminalStatus(t, o),
        !.error  = @ \/ o = "error",
        !.totals = t]

\* RepairFor: what the reconciler concludes from the state of the workflow.
RepairFor(state) ==
    CASE state = "completed" -> "ok"
      [] state = "canceled"  -> "cancelled"
      [] OTHER -> "error"

-----------------------------------------------------------------------------
NoWorkflow == [state |-> "none", pc |-> "closed", outcome |-> "ok", snap |-> NoRows]

Init ==
    /\ size \in 0..MaxRows
    /\ job = [status |-> "none", error |-> FALSE, export |-> "none",
              totals |-> CountRows(NoRows)]
    /\ rows = NoRows
    /\ start = "init"
    /\ wf = [w \in Workflow |-> NoWorkflow]
    /\ main = [next |-> 1, batch |-> FALSE, paused |-> FALSE, cancel |-> FALSE]
    /\ todo = {}
    /\ file = NoRows
    /\ req = [q \in Request |-> Idle]
    /\ rec = [pc |-> "idle", seen |-> "none", was |-> "none", snap |-> NoRows]
    /\ used = [requests |-> 0, retries |-> 0, faults |-> 0]
    /\ dirty = FALSE
    /\ direct = FALSE

Running(w) == wf[w].state = "running"
At(w, pc) == Running(w) /\ wf[w].pc = pc
Open(w, pc) ==
    wf' = [wf EXCEPT ![w] = [state |-> "running", pc |-> pc, outcome |-> "ok",
                             snap |-> NoRows]]
GoTo(w, pc) == wf' = [wf EXCEPT ![w].pc = pc, ![w].snap = NoRows]
Take(w, pc) == wf' = [wf EXCEPT ![w].pc = pc, ![w].snap = rows]
Close(w, state) == wf' = [wf EXCEPT ![w] = [NoWorkflow EXCEPT !.state = state]]

Fault ==
    /\ used.faults < MaxFaults
    /\ used' = [used EXCEPT !.faults = @ + 1]

-----------------------------------------------------------------------------
(* create_job and start_job. *)

\* The job is inserted as pending; a detached task calls the bridge.
create_job ==
    /\ start = "init"
    /\ start' = "sending"
    /\ job' = [job EXCEPT !.status = "pending"]
    /\ UNCHANGED <<size, rows, wf, main, todo, file, req, rec, used, dirty, direct>>

\* The bridge starts the workflow, possibly after the API stopped waiting.
StartArrives ==
    /\ start \in {"sending", "orphan"}
    /\ start' = IF start = "sending" THEN "arrived" ELSE "over"
    /\ Open("main", "work")
    /\ UNCHANGED <<size, job, rows, main, todo, file, req, rec, used, dirty, direct>>

\* The start's outcome is unknown to the API: the job stays pending.
StartUnknown ==
    /\ start \in {"sending", "arrived"}
    /\ start' = IF start = "sending" THEN "orphan" ELSE "over"
    /\ UNCHANGED <<size, job, rows, wf, main, todo, file, req, rec, used, dirty, direct>>

StartLost ==
    /\ start = "orphan"
    /\ start' = "over"
    /\ UNCHANGED <<size, job, rows, wf, main, todo, file, req, rec, used, dirty, direct>>

\* start_never_reached_bridge: the connection was refused.
StartRefused ==
    /\ start = "sending"
    /\ start' = "refused"
    /\ UNCHANGED <<size, job, rows, wf, main, todo, file, req, rec, used, dirty, direct>>

RecordRefused ==
    /\ start = "refused"
    /\ start' = "over"
    /\ job' = IF job.status = "pending"
                THEN [job EXCEPT !.status = "failed", !.error = TRUE] ELSE job
    /\ UNCHANGED <<size, rows, wf, main, todo, file, req, rec, used, dirty, direct>>

\* Mutant: the start is recorded without looking at the status.
RecordStartUnconditional ==
    /\ start = "arrived"
    /\ start' = "over"
    /\ job' = [job EXCEPT !.status = "running"]
    /\ UNCHANGED <<size, rows, wf, main, todo, file, req, rec, used, dirty, direct>>

\* Only a pending job becomes running: the workflow may have finished it.
RecordStart ==
    /\ start = "arrived"
    /\ start' = "over"
    /\ job' = [job EXCEPT !.status = IF @ = "pending" THEN "running" ELSE @]
    /\ UNCHANGED <<size, rows, wf, main, todo, file, req, rec, used, dirty, direct>>

-----------------------------------------------------------------------------
(* signal_and_record and cancel_job: check, call Temporal, write. *)

From(kind) ==
    CASE kind = "pause"  -> {"running"}
      [] kind = "resume" -> {"paused"}
      [] kind = "cancel" -> Active

To(kind) ==
    CASE kind = "pause"  -> "paused"
      [] kind = "resume" -> "running"
      [] kind = "cancel" -> "cancelled"

action_target(q, kind) ==
    /\ req[q].pc = "idle"
    /\ used.requests < MaxRequests
    /\ job.status \in From(kind)
    /\ req' = [req EXCEPT ![q] = [kind |-> kind, pc |-> "checked", found |-> TRUE]]
    /\ used' = [used EXCEPT !.requests = @ + 1]
    /\ UNCHANGED <<size, job, rows, start, wf, main, todo, file, rec, dirty, direct>>

\* The workflow is not there: a cancel goes on, a signal ends in a conflict.
Signal(q) ==
    LET kind == req[q].kind IN
    /\ req[q].pc = "checked"
    /\ IF Running("main")
         THEN /\ main' = [main EXCEPT !.paused = IF kind = "cancel" THEN @ ELSE kind = "pause",
                                      !.cancel = @ \/ kind = "cancel"]
              /\ req' = [req EXCEPT ![q].pc = "signalled"]
         ELSE /\ req' = [req EXCEPT ![q] = IF kind = "cancel"
                           THEN [kind |-> kind, pc |-> "signalled", found |-> FALSE]
                           ELSE Idle]
              /\ UNCHANGED main
    /\ UNCHANGED <<size, job, rows, start, wf, todo, file, rec, used, dirty, direct>>

\* The conditional UPDATE; otherwise transition_lost.
RecordRequest(q) ==
    LET kind == req[q].kind
        wins == job.status \in From(kind)
    IN
    /\ req[q].pc = "signalled"
    /\ req' = [req EXCEPT ![q] = Idle]
    /\ job' = IF ~wins THEN job
              ELSE IF kind = "cancel"
              THEN [job EXCEPT !.status = "cancelled", !.totals = CountRows(rows)]
              ELSE [job EXCEPT !.status = To(kind)]
    /\ direct' = (direct \/ (wins /\ ~req[q].found))
    /\ UNCHANGED <<size, rows, start, wf, main, todo, file, rec, used, dirty>>

\* The client disconnects, the API restarts, or the bridge call fails.
DropRequest(q) ==
    /\ req[q].pc # "idle"
    /\ req' = [req EXCEPT ![q] = Idle]
    /\ UNCHANGED <<size, job, rows, start, wf, main, todo, file, rec, used, dirty, direct>>

-----------------------------------------------------------------------------
(* MigrationWorkflow. *)

\* The head of the loop, the only place where a pause holds the workflow: it
\* asks for the next batch.
Ingest ==
    /\ At("main", "work")
    /\ ~main.batch /\ ~main.paused /\ ~main.cancel
    /\ main' = [main EXCEPT !.batch = TRUE]
    /\ UNCHANGED <<size, job, rows, start, wf, todo, file, req, rec, used, dirty, direct>>

\* PublishProgress at the end of a batch, an error being ignored: totals
\* change only while running.
Publish(published, rs) ==
    job' = [job EXCEPT !.totals = IF published /\ job.status = "running"
                                    THEN CountRows(rs) ELSE @]

\* processOneRow, ending with PersistOutcome; there may be more rows in the
\* batch.
ProcessRow(status, more, published) ==
    /\ At("main", "work")
    /\ main.batch /\ ~main.cancel
    /\ main.next <= size
    /\ published => ~more
    /\ rows' = [rows EXCEPT ![main.next] = status]
    /\ main' = [main EXCEPT !.next = @ + 1, !.batch = more]
    /\ Publish(published, rows')
    /\ UNCHANGED <<size, start, wf, todo, file, req, rec, used, dirty, direct>>

EndWork(outcome) ==
    /\ wf' = [wf EXCEPT !["main"].pc = "finalize", !["main"].outcome = outcome]
    /\ UNCHANGED <<size, rows, start, main, todo, file, req, rec, used, dirty, direct>>

\* The batch was the source's last: neither a pause nor a cancellation that
\* came after its last row is looked at any more.
SourceExhausted(published) ==
    /\ At("main", "work")
    /\ main.batch
    /\ main.next > size
    /\ Publish(published, rows)
    /\ EndWork("ok")

\* License, template, ingest, preprocess, checkpoint or persistence error.
\* jobOutcome calls it a cancellation when the workflow was also cancelled.
RunFails ==
    /\ At("main", "work")
    /\ EndWork(IF main.cancel THEN "cancelled" ELSE "error")
    /\ UNCHANGED job

NoticeCancel ==
    /\ At("main", "work")
    /\ main.cancel
    /\ EndWork("cancelled")
    /\ UNCHANGED job

\* Terminated by an operator, or timed out: no cleanup runs.
Terminate(w) ==
    /\ Running(w)
    /\ Fault
    /\ Close(w, "terminated")
    /\ todo' = IF w = "retry" THEN {} ELSE todo
    /\ UNCHANGED <<size, job, rows, start, main, file, req, rec, dirty, direct>>

-----------------------------------------------------------------------------
(* finishJob and exportResults, on a disconnected context. *)

\* The workflow returns the error it ended with, which for a cancelled job
\* need not be the cancellation.
CloseStates(outcome) ==
    CASE outcome = "ok" -> {"completed"}
      [] outcome = "cancelled" -> {"canceled", "failed"}
      [] outcome = "error" -> {"failed"}

\* A failure of the clean-up itself fails a workflow that had no error yet.
FailStates(outcome) == IF outcome = "ok" THEN {"failed"} ELSE CloseStates(outcome)

FinalizeCount(w) ==
    /\ At(w, "finalize")
    /\ Take(w, "update")
    /\ UNCHANGED <<size, job, rows, start, main, todo, file, req, rec, used, dirty, direct>>

FinalizeUpdate(w) ==
    /\ At(w, "update")
    /\ job' = Finalized(CountRows(wf[w].snap), wf[w].outcome)
    /\ dirty' = FALSE
    /\ GoTo(w, "startExport")
    /\ UNCHANGED <<size, rows, start, main, todo, file, req, rec, used, direct>>

\* FinalizeJob gives up after its retries, before or after its last commit.
FinalizeFails(w) ==
    /\ \/ /\ At(w, "finalize")
          /\ UNCHANGED <<job, dirty>>
       \/ /\ At(w, "update")
          /\ job' = Finalized(CountRows(wf[w].snap), wf[w].outcome)
          /\ dirty' = FALSE
    /\ Fault
    /\ \E state \in FailStates(wf[w].outcome) : Close(w, state)
    /\ UNCHANGED <<size, rows, start, main, todo, file, req, rec, direct>>

RecordExportStarted(w) ==
    /\ At(w, "startExport")
    /\ job' = [job EXCEPT !.export = "pending"]
    /\ GoTo(w, "read")
    /\ UNCHANGED <<size, rows, start, main, todo, file, req, rec, used, dirty, direct>>

\* ExportJobResults: read job_rows, upload the files, record the success.
ExportRead(w) ==
    /\ At(w, "read")
    /\ Take(w, "upload")
    /\ UNCHANGED <<size, job, rows, start, main, todo, file, req, rec, used, dirty, direct>>

ExportUpload(w) ==
    /\ At(w, "upload")
    /\ file' = wf[w].snap
    /\ GoTo(w, "record")
    /\ UNCHANGED <<size, job, rows, start, main, todo, req, rec, used, dirty, direct>>

ExportRecord(w) ==
    /\ At(w, "record")
    /\ job' = [job EXCEPT !.export = "succeeded"]
    /\ \E state \in CloseStates(wf[w].outcome) : Close(w, state)
    /\ UNCHANGED <<size, rows, start, main, todo, file, req, rec, used, dirty, direct>>

ExportFails(w) ==
    /\ \E pc \in {"read", "upload", "record"} : At(w, pc)
    /\ Fault
    /\ GoTo(w, "recordFailure")
    /\ UNCHANGED <<size, job, rows, start, main, todo, file, req, rec, dirty, direct>>

RecordExportFailure(w) ==
    /\ At(w, "recordFailure")
    /\ job' = [job EXCEPT !.export = "failed"]
    /\ \E state \in CloseStates(wf[w].outcome) : Close(w, state)
    /\ UNCHANGED <<size, rows, start, main, todo, file, req, rec, used, dirty, direct>>

\* RecordExportStarted or RecordExportFailure gives up.
RecordExportFails(w) ==
    /\ At(w, "startExport") \/ At(w, "recordFailure")
    /\ Fault
    /\ \E state \in FailStates(wf[w].outcome) : Close(w, state)
    /\ UNCHANGED <<size, job, rows, start, main, todo, file, req, rec, dirty, direct>>

-----------------------------------------------------------------------------
(* Row retries and export retries of a finished job. *)

\* retry_row and retry_all_failed: one retry workflow at a time.
StartRetry(rs) ==
    /\ used.retries < MaxRetries
    /\ job.status \in Terminal
    /\ ~Running("retry")
    /\ used' = [used EXCEPT !.retries = @ + 1]
    /\ todo' = rs
    /\ Open("retry", "work")
    /\ UNCHANGED <<size, job, rows, start, main, file, req, rec, dirty, direct>>

retry_row == \E r \in Row : StartRetry({r})

retry_all_failed ==
    LET failed == {r \in Row : rows[r] \in {"failed", "phantom"}} IN
    /\ failed # {}
    /\ StartRetry(failed)

\* retryPersistedRow: a row without persisted data can only fail.
RetryRow(r, status) ==
    /\ At("retry", "work")
    /\ r \in todo
    /\ status = "phantom" <=> rows[r] \in {"absent", "phantom"}
    /\ rows' = [rows EXCEPT ![r] = status]
    /\ todo' = todo \ {r}
    /\ dirty' = TRUE
    /\ UNCHANGED <<size, job, start, wf, main, file, req, rec, used, direct>>

RetryDone ==
    /\ At("retry", "work")
    /\ todo = {}
    /\ GoTo("retry", "finalize")
    /\ UNCHANGED <<size, job, rows, start, main, todo, file, req, rec, used, dirty, direct>>

\* License, template, list, load or persistence error: returned as it is.
RetryFails ==
    /\ At("retry", "work")
    /\ todo' = {}
    /\ Close("retry", "failed")
    /\ UNCHANGED <<size, job, rows, start, main, file, req, rec, used, dirty, direct>>

retry_export ==
    /\ used.retries < MaxRetries
    /\ job.status \in Terminal
    /\ ~Running("export")
    /\ used' = [used EXCEPT !.retries = @ + 1]
    /\ Open("export", "startExport")
    /\ UNCHANGED <<size, job, rows, start, main, todo, file, req, rec, dirty, direct>>

-----------------------------------------------------------------------------
(* The reconciler. *)

\* Mutant: a job counts as stale while its start is still under way.
StaleTooEarly == job.status \in Active

\* Mutant: pending jobs are not looked at.
StaleStartedOnly == job.status \in {"running", "paused"} /\ start = "over"

\* staleJobs and DescribeWorkflowExecution.  A job is stale only after
\* StaleAfter, which is longer than the start call and its bridge timeout.
Stale == job.status \in Active /\ start = "over"

Describe ==
    /\ rec.pc = "idle"
    /\ Stale
    /\ rec' = [pc |-> "described", seen |-> wf["main"].state, was |-> job.status,
               snap |-> NoRows]
    /\ UNCHANGED <<size, job, rows, start, wf, main, todo, file, req, used, dirty, direct>>

Rest == rec' = [pc |-> "idle", seen |-> "none", was |-> "none", snap |-> NoRows]

\* A running workflow owns its job, but its start may not be recorded yet.
LeaveRunning ==
    /\ rec.pc = "described" /\ rec.seen = "running"
    /\ job' = IF rec.was = "pending" /\ job.status = "pending"
                THEN [job EXCEPT !.status = "running"] ELSE job
    /\ Rest
    /\ UNCHANGED <<size, rows, start, wf, main, todo, file, req, used, dirty, direct>>

RepairCount ==
    /\ rec.pc = "described" /\ rec.seen # "running"
    /\ rec' = [rec EXCEPT !.pc = "counted", !.snap = rows]
    /\ UNCHANGED <<size, job, rows, start, wf, main, todo, file, req, used, dirty, direct>>

\* finalize with activeOnly.
RepairUpdate ==
    /\ rec.pc = "counted"
    /\ job' = IF job.status \in Active
                THEN Finalized(CountRows(rec.snap), RepairFor(rec.seen)) ELSE job
    /\ Rest
    /\ UNCHANGED <<size, rows, start, wf, main, todo, file, req, used, dirty, direct>>

\* The pass ends with an error, or its process does.
PassFails ==
    /\ rec.pc # "idle"
    /\ Fault
    /\ Rest
    /\ UNCHANGED <<size, job, rows, start, wf, main, todo, file, req, dirty, direct>>

-----------------------------------------------------------------------------

StartStep ==
    StartArrives \/ StartUnknown \/ StartLost \/ StartRefused \/ RecordRefused \/ RecordStart

RequestStep(q) ==
    \/ \E kind \in {"pause", "resume", "cancel"} : action_target(q, kind)
    \/ Signal(q) \/ RecordRequest(q) \/ DropRequest(q)

MainStep ==
    \/ Ingest
    \/ \E s \in {"succeeded", "failed", "unresolved"}, more, published \in BOOLEAN :
          ProcessRow(s, more, published)
    \/ \E published \in BOOLEAN : SourceExhausted(published)
    \/ NoticeCancel

FinishStep(w) ==
    \/ FinalizeCount(w) \/ FinalizeUpdate(w)
    \/ RecordExportStarted(w) \/ ExportRead(w) \/ ExportUpload(w) \/ ExportRecord(w)
    \/ RecordExportFailure(w)

FaultStep ==
    \/ RunFails
    \/ \E w \in Workflow : \/ Terminate(w) \/ FinalizeFails(w) \/ ExportFails(w)
                           \/ RecordExportFails(w)
    \/ RetryFails
    \/ PassFails

RetryStep ==
    \/ retry_row \/ retry_all_failed \/ retry_export
    \/ \E r \in Row, s \in RowState \ {"absent"} : RetryRow(r, s)
    \/ RetryDone

ReconcileStep == Describe \/ LeaveRunning \/ RepairCount \/ RepairUpdate

Next ==
    \/ create_job \/ StartStep
    \/ \E q \in Request : RequestStep(q)
    \/ MainStep \/ (\E w \in Workflow : FinishStep(w)) \/ FaultStep
    \/ RetryStep \/ ReconcileStep

Spec == Init /\ [][Next]_vars

\* The API's start task, the workers and the reconciler keep running; nobody
\* has to send a request, and no fault has to happen.
Fairness ==
    /\ WF_vars(StartStep)
    /\ WF_vars(MainStep)
    /\ \A w \in Workflow : WF_vars(FinishStep(w))
    /\ WF_vars(RetryDone \/ \E r \in Row, s \in RowState \ {"absent"} : RetryRow(r, s))
    /\ WF_vars(ReconcileStep)

FairSpec == Spec /\ Fairness

-----------------------------------------------------------------------------
(* Properties. *)

\* A job that reports an outcome reports that of its rows: totals are those of
\* job_rows, and it is succeeded exactly if it did not stop early and every
\* source record has a row that succeeded, unless a row retry has changed rows
\* since and not finalized the job (USER_HANDBOOK: "Every source record has a
\* row and every row succeeded").  FinalizeJob counts before it updates, the
\* reconciler may do the same at that time, and retries finalize again.
OutcomeFromRows ==
    job.status \in {"succeeded", "failed"} /\ ~dirty =>
        /\ job.totals = CountRows(rows)
        /\ job.status = "succeeded" <=>
              /\ ~job.error
              /\ size > 0
              /\ \A r \in Row : rows[r] = IF r <= size THEN "succeeded" ELSE "absent"

\* An outcome is kept: cancelled for ever, and the others until a row retry
\* finalizes the job again.  No start, pause, resume, cancel or repair that
\* was decided before the job ended takes effect after it.
OutcomeKept ==
    [][job.status \in Terminal /\ job'.status # job.status =>
          /\ job.status # "cancelled"
          /\ job'.status \in {"succeeded", "failed"}
          /\ At("retry", "update")]_vars

(***************************************************************************)
(* The many writers of the job row together implement the life of a job    *)
(* that ADR 0004 promises: a client that only sees the status, the error   *)
(* and whether a row retry runs sees a behaviour of JobStatus.             *)
(***************************************************************************)
Promise == INSTANCE JobStatus WITH
               status   <- job.status,
               stopped  <- job.error,
               retrying <- Running("retry")

KeepsPromise == Promise!Spec

\* The reconciler decides an outcome only for a job whose workflow can no
\* longer record one, even though it describes the workflow, counts the rows
\* and updates the job in separate steps.
RepairOnlyOrphans == rec.pc = "counted" => ~Running("main")

\* No job is left behind: unless its workflow waits in a pause, a job reaches
\* an outcome, whatever single step of the start, the workflow's clean-up or
\* the reconciler fails.
Settles ==
    []<>(job.status \in Terminal \cup {"none"} \/ (Running("main") /\ main.paused))

\* ADR 0004: when cancel does not find the workflow "nothing is running".
DirectCancelIsQuiet == direct => ~Running("main")

\* ADR 0004: after a FinalizeJob failure "the reconciler repairs the job".
\* Rows changed by a retry are, sooner or later, in the job's outcome.
RetryIsFinalized == dirty ~> ~dirty

\* download_results: "Exported files are current only while the latest export
\* succeeded"; it serves them for export_status succeeded.
ExportedFilesCurrent ==
    job.export = "succeeded" /\ ~dirty /\ (\A w \in Workflow : ~Running(w)) => file = rows
=============================================================================
