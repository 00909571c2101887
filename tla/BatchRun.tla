------------------------------ MODULE BatchRun ------------------------------
(***************************************************************************)
(* One archive package: the row of the table batches, the handler or watch *)
(* workflow that inserts it and starts its BatchWorkflow, and the workflow *)
(* itself, which unpacks the archive and runs one child MigrationWorkflow  *)
(* per stage of the manifest: in order, or, when some stage has dependsOn, *)
(* in waves of the stages whose dependencies have succeeded.               *)
(*                                                                         *)
(* The manifest is fixed by the archive and any; the stages are numbered   *)
(* in its order.  A child is known by its outcome: "ok", "flawed" for a    *)
(* workflow that completed with failed or unresolved rows, or "bad" for    *)
(* one that failed, was cancelled, terminated or timed out.                *)
(***************************************************************************)
EXTENDS Integers, FiniteSetsExt

CONSTANTS
    N,       \* number of stages
    MaxRuns, \* bound: executions of the workflow under the batch's id
    MaxFaults \* bound: activities that fail for good, starts with no answer

ASSUME BatchAssumption == N \in Nat \ {0} /\ MaxRuns \in Nat /\ MaxFaults \in Nat

Stage == 1 .. N

VARIABLES
    manifest, \* dependsOn and the effective onStageFailure of each stage
    batch,    \* batches.status
    stage,    \* batch_stages.status
    child,    \* the children's executions in Temporal
    starter,  \* who inserted the row, and how far it has got
    wf,       \* local state of BatchWorkflow
    faults

vars == <<manifest, batch, stage, child, starter, wf, faults>>

Ended == {"succeeded", "partial", "failed", "quarantined"}

\* Types of the manifest, of both tables and of the workflow's locals.
TypeOK ==
    /\ manifest \in [depends : [Stage -> SUBSET Stage], stop : SUBSET Stage]
    /\ batch \in {"none", "pending", "running"} \cup Ended
    /\ stage \in [Stage -> {"none", "pending", "running", "succeeded", "failed"}]
    /\ child \in [Stage -> {"none", "running", "ok", "flawed", "bad"}]
    /\ starter \in [who : {"nobody", "api", "watch"}, pc : {"idle", "start", "mark", "fail", "done"}]
    /\ wf \in [pc : {"none", "begin", "unpack", "materialize", "quarantine", "skip", "launch",
                     "finalize", "done", "failed"},
               at : 1 .. N + 1, status : [Stage -> {"pending", "succeeded", "failed", "skipped"}],
               stop : BOOLEAN, todo : SUBSET Stage, wave : SUBSET Stage,
               dup : SUBSET Stage, runs : 0 .. MaxRuns]
    /\ faults \in 0 .. MaxFaults

Fresh == [pc |-> "none", at |-> 1, status |-> [s \in Stage |-> "pending"], stop |-> FALSE,
          todo |-> {}, wave |-> {}, dup |-> {}, runs |-> 0]

Init ==
    /\ manifest \in [depends : [Stage -> SUBSET Stage], stop : SUBSET Stage]
    /\ batch = "none"
    /\ stage = [s \in Stage |-> "none"]
    /\ child = [s \in Stage |-> "none"]
    /\ starter = [who |-> "nobody", pc |-> "idle"]
    /\ wf = Fresh
    /\ faults = 0

Fault == faults < MaxFaults /\ faults' = faults + 1
-----------------------------------------------------------------------------
(* Starting the workflow *)

\* create_batch, POST /batches, inserts a pending row; so does StartBatch for
\* a watched archive.
create_batch(who) ==
    /\ starter.who = "nobody"
    /\ batch' = "pending"
    /\ starter' = [who |-> who, pc |-> "start"]
    /\ UNCHANGED <<manifest, stage, child, wf, faults>>

Started(w) == [Fresh EXCEPT !.pc = "begin", !.runs = w.runs + 1]

\* start_workflow, or the watch workflow's child start, succeeds.
start_workflow ==
    /\ starter.pc = "start" /\ wf.runs < MaxRuns
    /\ wf' = Started(wf)
    /\ starter' = [starter EXCEPT !.pc = "mark"]
    /\ UNCHANGED <<manifest, batch, stage, child, faults>>

\* It is refused, or the bridge's answer is lost and the workflow runs.  The
\* handler records a failure; the watch workflow leaves the row for its next
\* fire.
start_workflow_error ==
    /\ starter.pc = "start" /\ wf.runs < MaxRuns
    /\ Fault
    /\ wf' \in {wf, Started(wf)}
    /\ starter' = [starter EXCEPT !.pc = IF starter.who = "api" THEN "fail" ELSE "done"]
    /\ UNCHANGED <<manifest, batch, stage, child>>

\* The handler's UPDATE, or the watch workflow's MarkBatchRunning, looks at
\* no status.
mark_started ==
    /\ starter.pc \in {"mark", "fail"}
    /\ batch' = IF starter.pc = "mark" THEN "running" ELSE "failed"
    /\ starter' = [starter EXCEPT !.pc = "done"]
    /\ UNCHANGED <<manifest, stage, child, wf, faults>>

\* A later fire of the schedule finds the archive again (its cursor entry was
\* not written, was evicted or was cleared): the same row, and the same
\* workflow id, which Temporal accepts once the last execution has failed.
StartBatch ==
    /\ starter.who = "watch" /\ starter.pc = "done"
    /\ wf.pc \in {"none", "failed"}
    /\ starter' = [starter EXCEPT !.pc = "start"]
    /\ UNCHANGED <<manifest, batch, stage, child, wf, faults>>
-----------------------------------------------------------------------------
(* BatchWorkflow *)

\* Validate accepts a dependsOn relation whose topological sort leaves no
\* stage over: every set of stages has one that depends on none of the set.
Validate ==
    \A S \in SUBSET Stage : S # {} => \E s \in S : manifest.depends[s] \cap S = {}

UsesDependsOn == \E s \in Stage : manifest.depends[s] # {}

Step(from, to) == wf.pc = from /\ wf' = [wf EXCEPT !.pc = to]

MarkBatchRunning ==
    /\ Step("begin", "unpack")
    /\ batch' = "running"
    /\ UNCHANGED <<manifest, stage, child, starter, faults>>

\* The archive may be unusable for other reasons than its dependsOn.
UnpackAndStageArchive ==
    /\ \/ Step("unpack", "materialize") /\ Validate
       \/ Step("unpack", "quarantine")
    /\ UNCHANGED <<manifest, batch, stage, child, starter, faults>>

\* One row per stage; rows of an earlier execution keep their status.  A
\* templateKey with no published template is an error.
MaterializeBatchStages ==
    /\ \/ /\ Step("materialize", "skip")
          /\ stage' = [s \in Stage |-> IF stage[s] = "none" THEN "pending" ELSE stage[s]]
       \/ Step("materialize", "quarantine") /\ UNCHANGED stage
    /\ UNCHANGED <<manifest, batch, child, starter, faults>>

QuarantineArchive ==
    /\ Step("quarantine", "done")
    /\ batch' = "quarantined"
    /\ UNCHANGED <<manifest, stage, child, starter, faults>>

Pending == {s \in Stage : wf.status[s] = "pending"}

DepsBlocking(s) ==
    UsesDependsOn /\ \E d \in manifest.depends[s] : wf.status[d] \in {"failed", "skipped"}

ReadyUnlessFailed ==
    IF UsesDependsOn
    THEN {s \in Pending : \A d \in manifest.depends[s] : wf.status[d] # "failed"}
    ELSE {Min(Pending)}

\* ReadyStageIDs; without dependsOn, runStagesSequential's next stage.
ReadyStageIDs ==
    IF UsesDependsOn
    THEN {s \in Pending : \A d \in manifest.depends[s] : wf.status[d] = "succeeded"}
    ELSE {Min(Pending)}

\* One stage of the pass that skips what a stop or a failed dependency rules
\* out, in manifest order.  A skipped stage's row says failed.
skipStage ==
    /\ wf.pc = "skip" /\ wf.at <= N
    /\ LET s == wf.at
           skip == s \in Pending /\ (wf.stop \/ DepsBlocking(s))
       IN /\ wf' = [wf EXCEPT !.at = @ + 1, !.status[s] = IF skip THEN "skipped" ELSE @]
          /\ stage' = IF skip THEN [stage EXCEPT ![s] = "failed"] ELSE stage
    /\ UNCHANGED <<manifest, batch, child, starter, faults>>

\* The end of the pass: the ready stages are the next wave.  With none ready,
\* what is pending is skipped ("dependencies never satisfied").
NextWave ==
    /\ wf.pc = "skip" /\ wf.at = N + 1
    /\ LET ready == IF Pending = {} THEN {} ELSE ReadyStageIDs
       IN IF ready # {}
          THEN /\ wf' = [wf EXCEPT !.pc = "launch", !.todo = ready, !.at = 1]
               /\ UNCHANGED stage
          ELSE /\ wf' = [wf EXCEPT !.pc = "finalize",
                                   !.status = [s \in Stage |-> IF s \in Pending THEN "skipped" ELSE @[s]]]
               /\ stage' = [s \in Stage |-> IF s \in Pending THEN "failed" ELSE stage[s]]
    /\ UNCHANGED <<manifest, batch, child, starter, faults>>

Stops(s) == wf.stop \/ s \in manifest.stop

\* A stage ends badly: its row and its status say so, and later stages are
\* not started unless its onStageFailure is continue.
FailStageForgetful(s) ==
    /\ stage' = [stage EXCEPT ![s] = "failed"]
    /\ wf' = [wf EXCEPT !.stop = Stops(s), !.todo = @ \ {s}, !.wave = @ \ {s}]

FailStageRunningOn(s) ==
    /\ stage' = [stage EXCEPT ![s] = "failed"]
    /\ wf' = [wf EXCEPT !.status[s] = "failed", !.todo = @ \ {s}, !.wave = @ \ {s}]

FailStage(s) ==
    /\ stage' = [stage EXCEPT ![s] = "failed"]
    /\ wf' = [wf EXCEPT !.status[s] = "failed", !.stop = Stops(s),
                        !.todo = @ \ {s}, !.wave = @ \ {s}]

\* The next ready stage: skipped after a stop; else StartBatchStageJob and the
\* child's start.  Its workflow id is the stage's, so a child that an earlier
\* execution started and whose workflow completed, with or without failed
\* rows, cannot be started again: the wave then waits for a child it does not
\* have.  A job that an earlier attempt
\* inserted is used again, and the stage's row then keeps its status.
StartBatchStageJob ==
    /\ wf.pc = "launch" /\ wf.todo # {}
    /\ LET s == Min(wf.todo) IN
       \/ /\ wf.stop
          /\ stage' = [stage EXCEPT ![s] = "failed"]
          /\ wf' = [wf EXCEPT !.status[s] = "skipped", !.todo = @ \ {s}]
          /\ UNCHANGED <<child, faults>>
       \/ /\ ~wf.stop /\ child[s] \in {"none", "bad"}
          /\ child' = [child EXCEPT ![s] = "running"]
          /\ stage' \in (IF stage[s] = "pending" THEN {} ELSE {stage})
                       \cup (IF child[s] = "none" THEN {[stage EXCEPT ![s] = "running"]} ELSE {})
          /\ wf' = [wf EXCEPT !.todo = @ \ {s}, !.wave = @ \cup {s}]
          /\ UNCHANGED faults
       \/ /\ ~wf.stop /\ child[s] \in {"ok", "flawed"}
          /\ wf' = [wf EXCEPT !.todo = @ \ {s}, !.wave = @ \cup {s}, !.dup = @ \cup {s}]
          /\ UNCHANGED <<stage, child, faults>>
       \/ /\ ~wf.stop /\ Fault
          /\ FailStage(s)
          /\ UNCHANGED child
    /\ UNCHANGED <<manifest, batch, starter>>

\* The stage's MigrationWorkflow ends (module JobLifecycle), at the latest when
\* it times out.
ChildEnds(s) ==
    /\ child[s] = "running"
    /\ \E end \in {"ok", "flawed", "bad"} : child' = [child EXCEPT ![s] = end]
    /\ UNCHANGED <<manifest, batch, stage, starter, wf, faults>>

\* The wave is awaited in order; each stage's row is finalized.
FinalizeBatchStage ==
    /\ wf.pc = "launch" /\ wf.todo = {} /\ wf.wave # {}
    /\ LET s == Min(wf.wave) IN
       \/ /\ s \in wf.dup \/ child[s] \in {"flawed", "bad"}
          /\ FailStage(s)
       \/ /\ s \notin wf.dup /\ child[s] = "ok"
          /\ stage' = [stage EXCEPT ![s] = "succeeded"]
          /\ wf' = [wf EXCEPT !.status[s] = "succeeded", !.wave = @ \ {s}]
    /\ UNCHANGED <<manifest, batch, child, starter, faults>>

\* The wave is over.
WaveDone ==
    /\ wf.pc = "launch" /\ wf.todo = {} /\ wf.wave = {}
    /\ wf' = [wf EXCEPT !.pc = IF Pending = {} THEN "finalize" ELSE "skip", !.at = 1]
    /\ UNCHANGED <<manifest, batch, stage, child, starter, faults>>

AllOkNoneFailed(w) == IF \E s \in Stage : w.status[s] = "failed" THEN "failed" ELSE "succeeded"

\* The batch's outcome from the numbers of stages that succeeded and failed;
\* skipped stages count as failed.
Outcome(w) ==
    LET ok == {s \in Stage : w.status[s] = "succeeded"} IN
    IF ok = Stage THEN "succeeded" ELSE IF ok # {} THEN "partial" ELSE "failed"

FinalizeBatch ==
    /\ Step("finalize", "done")
    /\ batch' = Outcome(wf)
    /\ UNCHANGED <<manifest, stage, child, starter, faults>>

\* An activity fails for good, or the license has lapsed at the start: the
\* workflow returns an error, no row changes and Temporal terminates the
\* running children.
WorkflowFails ==
    /\ wf.pc \notin {"none", "done", "failed"}
    /\ Fault
    /\ wf' = [wf EXCEPT !.pc = "failed"]
    /\ child' = [s \in Stage |-> IF child[s] = "running" THEN "bad" ELSE child[s]]
    /\ UNCHANGED <<manifest, batch, stage, starter>>

Workflow ==
    \/ MarkBatchRunning \/ UnpackAndStageArchive \/ MaterializeBatchStages \/ QuarantineArchive
    \/ skipStage \/ NextWave \/ StartBatchStageJob \/ FinalizeBatchStage \/ WaveDone
    \/ FinalizeBatch

Next ==
    \/ \E who \in {"api", "watch"} : create_batch(who)
    \/ start_workflow \/ start_workflow_error \/ mark_started \/ StartBatch
    \/ Workflow \/ WorkflowFails
    \/ \E s \in Stage : ChildEnds(s)

\* Temporal drives a started workflow on, and every child ends by its
\* execution timeout.
Fairness == WF_vars(Workflow) /\ \A s \in Stage : WF_vars(ChildEnds(s))

Spec == Init /\ [][Next]_vars /\ Fairness
-----------------------------------------------------------------------------
(* Properties *)

\* A stage's job runs only after its turn: with dependsOn, once every stage
\* it depends on has migrated without a bad row; without, once every earlier
\* stage has ended.
StagesInOrder ==
    \A s \in Stage : child[s] = "running" =>
        IF UsesDependsOn
        THEN \A d \in manifest.depends[s] : child[d] = "ok"
        ELSE \A d \in 1 .. s - 1 : stage[d] \in {"succeeded", "failed"}

\* Once the workflow knows that a stage with onStageFailure stop went wrong,
\* it starts no other stage.
NoStartAfterStop ==
    [][(\E s \in manifest.stop : wf.status[s] = "failed") /\ wf'.runs = wf.runs =>
          \A s \in Stage : child'[s] = "running" => child[s] = "running"]_vars

\* When FinalizeBatch runs no stage is open and the outcome it writes is what
\* the stages' rows say.  A row says succeeded only for a child that migrated
\* every row, and so does the batch.  In the other direction less holds: a
\* batch all of whose children migrated everything is recorded partial, failed
\* or quarantined only if a second execution took over what the first had
\* migrated, or the answer to POST /batches's start was lost.
OutcomeFromStages ==
    /\ wf.pc = "finalize" =>
          /\ \A s \in Stage : stage[s] \in {"succeeded", "failed"}
          /\ Outcome(wf) = "succeeded" <=> \A s \in Stage : stage[s] = "succeeded"
          /\ Outcome(wf) = "failed" <=> \A s \in Stage : stage[s] = "failed"
    /\ \A s \in Stage : stage[s] = "succeeded" => child[s] = "ok"
    /\ batch = "succeeded" => \A s \in Stage : child[s] = "ok"
    /\ batch \in Ended \ {"succeeded"} /\ (\A s \in Stage : child[s] = "ok") =>
          wf.runs > 1 \/ (starter.who = "api" /\ faults > 0)

\* Every execution of the workflow comes to an end: no wave waits for a stage
\* that will not run, whatever the manifest.
WorkflowEnds == (wf.pc = "begin") ~> (wf.pc \in {"done", "failed"})

\* docs/PRODUCT_ROADMAP.md: "A fast terminal workflow cannot be overwritten as
\* running."  A batch that has ended reads running or failed again only when
\* its workflow runs again.
EndedStands ==
    [][wf.pc = "done" /\ batch \in Ended => batch' = batch]_vars
=============================================================================
