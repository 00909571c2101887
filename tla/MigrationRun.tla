------------------------------ MODULE MigrationRun ------------------------------
(***************************************************************************)
(* One migration job as MigrationWorkflow executes it: batches of rows are *)
(* ingested from a source that may change or may not be ready, every row   *)
(* is dispatched and its outcome persisted, and the run hands a checkpoint *)
(* to a continue-as-new successor (workflows.go, checkpoint.go,            *)
(* activities.go, source_authz.go, connectors).                            *)
(*                                                                         *)
(* Activities run at least once: an ingest attempt may be lost after its   *)
(* side effects, and a row upsert may be redelivered.  A snapshot is what  *)
(* rows are read from: a version of the stored object (its ETag) or a      *)
(* Salesforce Bulk query job.  The kinds of row outcome are one count      *)
(* here; JobLifecycle tells them apart.                                    *)
(***************************************************************************)
EXTENDS Integers, Sequences

CONSTANTS
    Kinds,          \* the source kinds explored: "object", "salesforce"
    Sizes,          \* how many records a snapshot may hold
    BatchSize,      \* rows per Ingest (500 in the code)
    PageSize,       \* records per Bulk results page (2000 in the code)
    MaxSnapshots,   \* bound: object versions, or query jobs created
    MaxTemplates,   \* bound: versions of the rule template
    MaxRuns,        \* bound: runs of the continue-as-new chain
    MaxFaults       \* bound: lost activity attempts

ASSUME MigrationRunAssumption ==
    /\ Kinds \subseteq {"object", "salesforce"}
    /\ Sizes \subseteq Nat
    /\ BatchSize \in Nat \ {0}
    /\ PageSize \in Nat \ {0}
    /\ MaxTemplates \in Nat \ {0}
    /\ MaxRuns \in Nat \ {0}
    /\ MaxFaults \in Nat
    /\ MaxSnapshots \in Nat
    /\ MaxFaults < MaxSnapshots     \* a retried Open can still create its job

VARIABLES
    kind,       \* the job's source kind
    size,       \* records in each snapshot
    object,     \* version now stored under the object's key
    registered, \* version the sources registry names
    created,    \* query jobs created so far
    complete,   \* query jobs the Bulk API has finished
    latest,     \* newest version of the rule template
    pc,         \* where the run is
    end,        \* how the job's workflow ended
    run,        \* number of this run in the chain (its RunID)
    input,      \* MigrationWorkflowInput: checkpoint and template version
    cp,         \* the run's Checkpoint
    result,     \* rows counted by this run's MigrationWorkflowResult
    template,   \* template version this run loaded
    paused,     \* the workflow's local pause flag
    iter,       \* the connector's iterator inside Ingest
    batch,      \* IngestOutput
    cursor,     \* rows of the batch already persisted
    log,        \* history: rows dispatched to the destination, in order
    jobRows,    \* job_rows: attempts and last_attempt_id per row index
    faults      \* lost activity attempts so far

source == <<kind, size, object, registered, created, complete>>
local  == <<run, input, cp, result, template, paused>>
ingest == <<iter, batch>>
vars   == <<source, latest, pc, end, local, ingest, cursor, log, jobRows, faults>>

Snapshot == 1..MaxSnapshots

\* connectors.Offset: rows delivered; for Salesforce also the query job (0 is
\* none), the page being consumed (0 is the first) and rows taken from it.
NoOffset == [items |-> 0, job |-> 0, page |-> 0, skip |-> 0]

\* workflows.Checkpoint; version 0 is the empty SourceVersion.
NoCheckpoint == [version |-> 0, offset |-> NoOffset, next |-> 0, counted |-> 0]

NoIter  == [snap |-> 0, version |-> 0, page |-> 0, skip |-> 0, cursor |-> 0,
            loaded |-> FALSE, ready |-> FALSE, idx |-> 0]
NoBatch == [rows |-> <<>>, offset |-> NoOffset, pending |-> FALSE, done |-> FALSE,
            version |-> 0]

\* Checkpoint.validate.
Valid(c) == /\ c.next >= 0 /\ c.counted >= 0
            /\ c.offset.items = c.next
            /\ c.counted <= c.next

Init ==
    /\ kind \in Kinds
    /\ size \in [Snapshot -> Sizes]
    /\ object = 1 /\ registered = 1
    /\ created = 0 /\ complete = {}
    /\ latest = 1
    /\ pc = "start" /\ end = "none"
    /\ run = 1
    /\ input = [checkpoint |-> NoCheckpoint, template |-> 0]
    /\ cp = NoCheckpoint /\ result = 0 /\ template = 0 /\ paused = FALSE
    /\ iter = NoIter /\ batch = NoBatch /\ cursor = 0
    /\ log = <<>>
    /\ jobRows = <<>>
    /\ faults = 0

-----------------------------------------------------------------------------
(* The environment.                                                         *)

\* A producer overwrites the object of a watched prefix.
ReplaceObject ==
    /\ kind = "object" /\ pc # "ended"
    /\ object < MaxSnapshots
    /\ object' = object + 1
    /\ UNCHANGED <<kind, size, registered, created, complete, latest, pc, end,
                   local, ingest, cursor, log, jobRows, faults>>

\* The watcher registers the object it found (registerSource).
RegisterObject ==
    /\ pc # "ended"
    /\ registered # object
    /\ registered' = object
    /\ UNCHANGED <<kind, size, object, created, complete, latest, pc, end,
                   local, ingest, cursor, log, jobRows, faults>>

\* The Bulk API finishes a query job; its result no longer changes.
CompleteQuery ==
    \E j \in 1..created :
        /\ pc # "ended"
        /\ j \notin complete
        /\ complete' = complete \cup {j}
        /\ UNCHANGED <<kind, size, object, registered, created, latest, pc, end,
                       local, ingest, cursor, log, jobRows, faults>>

\* An editor saves a new version of the rule template.
PublishTemplate ==
    /\ pc # "ended"
    /\ latest < MaxTemplates
    /\ latest' = latest + 1
    /\ UNCHANGED <<source, pc, end, local, ingest, cursor, log, jobRows, faults>>

\* A pause or resume signal reaches the open run and its goroutine takes it.
Signal ==
    /\ pc # "ended"
    /\ paused' = ~paused
    /\ UNCHANGED <<source, latest, pc, end, run, input, cp, result, template,
                   ingest, cursor, log, jobRows, faults>>

-----------------------------------------------------------------------------
(* Ends and hand-overs.                                                     *)

\* runMigration returns; MigrationWorkflow goes to finishJob.
Stop(why) ==
    /\ pc' = "ended" /\ end' = why
    /\ UNCHANGED <<local, ingest, cursor>>

\* Mutant: the template version is not pinned at a hand-over.
ContinueAsNewUnpinned(c) ==
    /\ run < MaxRuns
    /\ run' = run + 1
    /\ input' = [checkpoint |-> c, template |-> input.template]
    /\ cp' = NoCheckpoint /\ result' = 0 /\ template' = 0 /\ paused' = FALSE
    /\ pc' = "start"

\* Mutant: the run hands on the position it was given, not its own.
ContinueAsNewOfInput(c) ==
    /\ run < MaxRuns
    /\ run' = run + 1
    /\ input' = [checkpoint |-> input.checkpoint,
                 template |-> IF input.template = 0 THEN template ELSE input.template]
    /\ cp' = NoCheckpoint /\ result' = 0 /\ template' = 0 /\ paused' = FALSE
    /\ pc' = "start"

\* The checkpoint c is the input of a fresh run.  Local variables of the run,
\* the pause flag among them, are gone; the template version is pinned.
ContinueAsNew(c) ==
    /\ run < MaxRuns
    /\ run' = run + 1
    /\ input' = [checkpoint |-> c,
                 template |-> IF input.template = 0 THEN template ELSE input.template]
    /\ cp' = NoCheckpoint /\ result' = 0 /\ template' = 0 /\ paused' = FALSE
    /\ pc' = "start"

\* Whether history is near its budget depends on event and byte counts:
\* shouldContinueAsNew may say either after any batch.
NextIteration(c) ==
    \/ /\ pc' = "loop" /\ cp' = c
       /\ UNCHANGED <<run, input, result, template, paused>>
    \/ ContinueAsNew(c)

\* Cancellation reaches the run at whichever activity or timer it waits on.
Cancel ==
    /\ pc # "ended"
    /\ Stop("cancelled")
    /\ UNCHANGED <<source, latest, log, jobRows, faults>>

-----------------------------------------------------------------------------
(* The start of a run: licence, template, checkpoint.                       *)

Start ==
    /\ pc = "start"
    /\ UNCHANGED <<source, latest, end, run, input, paused, ingest, cursor,
                   log, jobRows, faults>>
    /\ Valid(input.checkpoint)
    /\ template' = IF input.template = 0 THEN latest ELSE input.template
    /\ cp' = input.checkpoint
    /\ result' = input.checkpoint.counted
    /\ pc' = "loop"

\* The licence has lapsed, or the template cannot be loaded.
StartRefused ==
    /\ pc = "start"
    /\ Stop("refused")
    /\ UNCHANGED <<source, latest, log, jobRows, faults>>

\* The loop head: a paused run sleeps, otherwise Ingest is scheduled.
BeginIngest ==
    /\ pc = "loop"
    /\ ~paused
    /\ pc' = "ingest"
    /\ UNCHANGED <<source, latest, end, local, ingest, cursor, log, jobRows, faults>>

-----------------------------------------------------------------------------
(* One attempt of the Ingest activity.                                      *)

\* Mutant: only the registry is compared, not the version already read.
VersionAllowedUnpinned == kind = "object" => object = registered

\* authorize: the registry row and the stored object's ETag must agree, and
\* the ETag must be the one the job has been reading.
VersionAllowed ==
    kind = "object" => /\ object = registered
                       /\ cp.version \in {0, object}

Authorize ==
    /\ pc = "ingest"
    /\ VersionAllowed
    /\ iter' = [NoIter EXCEPT !.version = IF kind = "object" THEN object ELSE 0]
    /\ pc' = "open"
    /\ UNCHANGED <<source, latest, end, local, batch, cursor, log, jobRows, faults>>

SourceChanged ==
    /\ pc = "ingest"
    /\ ~VersionAllowed
    /\ Stop("changed")
    /\ UNCHANGED <<source, latest, log, jobRows, faults>>

Progressed(off) == off.items > 0 \/ off.page # 0 \/ off.skip > 0

\* Open on an object: a fresh GET, then skip the delivered rows; a shorter
\* object ends the skip early.
OpenObject ==
    /\ pc = "open" /\ kind = "object"
    /\ iter' = [iter EXCEPT !.snap = object, !.ready = TRUE, !.loaded = TRUE,
                            !.idx = IF cp.offset.items <= size[object]
                                    THEN cp.offset.items ELSE size[object]]
    /\ UNCHANGED created

\* Open on Salesforce: the first one creates the query job, later ones resume
\* the job, page and position of the offset.
OpenSalesforce ==
    /\ pc = "open" /\ kind = "salesforce"
    /\ cp.offset.job = 0 => ~Progressed(cp.offset)
    /\ created' = IF cp.offset.job = 0 THEN created + 1 ELSE created
    /\ iter' = [iter EXCEPT
                  !.snap   = IF cp.offset.job = 0 THEN created + 1 ELSE cp.offset.job,
                  !.ready  = cp.offset.job # 0 /\ Progressed(cp.offset),
                  !.page   = cp.offset.page,
                  !.skip   = cp.offset.skip,
                  !.idx    = cp.offset.items]

Open ==
    /\ OpenObject \/ OpenSalesforce
    /\ batch' = [NoBatch EXCEPT !.offset = cp.offset, !.version = iter.version]
    /\ pc' = "read"
    /\ UNCHANGED <<kind, size, object, registered, complete, latest, end, local,
                   cursor, log, jobRows, faults>>

\* Records of a results page, and whether another page follows it.
PageLen(s, p) ==
    LET left == size[s] - p * PageSize
    IN  IF left <= 0 THEN 0 ELSE IF left < PageSize THEN left ELSE PageSize
HasNext(s, p) == (p + 1) * PageSize < size[s]

\* Mutant: the offset names the page but not the rows taken from it.
OffsetOfPageOnly(it) ==
    IF kind = "object" THEN [NoOffset EXCEPT !.items = it.idx]
    ELSE [items |-> it.idx, job |-> it.snap, page |-> it.page, skip |-> 0]

\* sfIter.offset; an object's offset is its row count alone.
OffsetOf(it) ==
    IF kind = "object" THEN [NoOffset EXCEPT !.items = it.idx]
    ELSE LET turn == it.loaded /\ it.cursor >= PageLen(it.snap, it.page)
                     /\ HasNext(it.snap, it.page)
         IN  [items |-> it.idx, job |-> it.snap,
              page |-> IF turn THEN it.page + 1 ELSE it.page,
              skip |-> IF turn THEN 0 ELSE IF it.loaded THEN it.cursor ELSE it.skip]

\* The batch is not full and the loop of Ingest asks for another row.
WantsRow == pc = "read" /\ Len(batch.rows) < BatchSize

InsidePage(it) == it.loaded /\ it.cursor < PageLen(it.snap, it.page)

\* sfJobState says the query has finished.
QueryReady ==
    /\ WantsRow /\ ~iter.ready
    /\ iter.snap \in complete
    /\ iter' = [iter EXCEPT !.ready = TRUE]
    /\ UNCHANGED <<source, latest, pc, end, local, batch, cursor, log, jobRows, faults>>

\* The query is still running: Ingest returns Pending with the offset.
QueryPending ==
    /\ WantsRow /\ ~iter.ready
    /\ iter.snap \notin complete
    /\ batch' = [batch EXCEPT !.pending = TRUE, !.offset = OffsetOf(iter)]
    /\ pc' = "got"
    /\ UNCHANGED <<source, latest, end, local, iter, cursor, log, jobRows, faults>>

\* Next fetches the page of the offset, or the page after an exhausted one.
FetchPage ==
    /\ WantsRow /\ kind = "salesforce" /\ iter.ready
    /\ ~InsidePage(iter)
    /\ iter.loaded => HasNext(iter.snap, iter.page)
    /\ LET page == IF iter.loaded THEN iter.page + 1 ELSE iter.page
           skip == IF iter.loaded THEN 0 ELSE iter.skip
       IN  /\ skip <= PageLen(iter.snap, page)
           /\ iter' = [iter EXCEPT !.page = page, !.skip = skip, !.cursor = skip,
                                   !.loaded = TRUE]
    /\ UNCHANGED <<source, latest, pc, end, local, batch, cursor, log, jobRows, faults>>

HasRow == IF kind = "object" THEN iter.idx < size[iter.snap] ELSE InsidePage(iter)

\* Next returns a row: its absolute index, and which record of which snapshot
\* its data is.
NextRow ==
    /\ WantsRow /\ iter.ready /\ HasRow
    /\ LET it  == [iter EXCEPT !.idx = @ + 1, !.cursor = @ + 1]
           row == [index |-> iter.idx, snap |-> iter.snap,
                   pos |-> IF kind = "object" THEN iter.idx
                           ELSE iter.page * PageSize + iter.cursor]
       IN  /\ iter' = it
           /\ batch' = [batch EXCEPT !.rows = Append(@, row), !.offset = OffsetOf(it)]
    /\ UNCHANGED <<source, latest, pc, end, local, cursor, log, jobRows, faults>>

\* Next reports the end of the source.
SourceDone ==
    /\ WantsRow /\ iter.ready /\ ~HasRow
    /\ kind = "salesforce" => iter.loaded /\ ~HasNext(iter.snap, iter.page)
    /\ batch' = [batch EXCEPT !.done = TRUE, !.offset = OffsetOf(iter)]
    /\ pc' = "got"
    /\ UNCHANGED <<source, latest, end, local, iter, cursor, log, jobRows, faults>>

BatchFull ==
    /\ pc = "read" /\ Len(batch.rows) = BatchSize
    /\ pc' = "got"
    /\ UNCHANGED <<source, latest, end, local, ingest, cursor, log, jobRows, faults>>

\* The attempt is lost, with whatever it created; the activity is retried.
IngestRetry ==
    /\ pc \in {"open", "read"}
    /\ faults < MaxFaults
    /\ faults' = faults + 1
    /\ pc' = "ingest"
    /\ iter' = NoIter /\ batch' = NoBatch
    /\ UNCHANGED <<source, latest, end, local, cursor, log, jobRows>>

\* The last attempt the retry policy allows fails.
IngestFail ==
    /\ pc \in {"open", "read"}
    /\ faults < MaxFaults
    /\ faults' = faults + 1
    /\ Stop("error")
    /\ UNCHANGED <<source, latest, log, jobRows>>

-----------------------------------------------------------------------------
(* The batch in the workflow.                                               *)

\* A pending source: remember its offset, wait on a timer, poll again.
WaitPending ==
    /\ pc = "got" /\ batch.pending
    /\ NextIteration([cp EXCEPT !.offset = batch.offset])
    /\ iter' = NoIter /\ batch' = NoBatch
    /\ UNCHANGED <<source, latest, end, cursor, log, jobRows, faults>>

\* checkRowContinuity.
Continuous ==
    /\ batch.rows # <<>> \/ batch.done
    /\ \A i \in 1..Len(batch.rows) : batch.rows[i].index = cp.next + i - 1
    /\ batch.offset.items = cp.next + Len(batch.rows)

AcceptBatch ==
    /\ pc = "got" /\ ~batch.pending
    /\ Continuous
    /\ pc' = "rows" /\ cursor' = 0
    /\ UNCHANGED <<source, latest, end, local, ingest, log, jobRows, faults>>

\* The four places that answer with the non-retryable InvalidCheckpoint: the
\* run's input, Open on an offset without its query job, a skip past the end
\* of a page, and a batch that does not continue the checkpoint.
BadPosition ==
    \/ pc = "start" /\ ~Valid(input.checkpoint)
    \/ pc = "open" /\ kind = "salesforce" /\ cp.offset.job = 0 /\ Progressed(cp.offset)
    \/ WantsRow /\ kind = "salesforce" /\ iter.ready /\ ~iter.loaded
       /\ iter.skip > PageLen(iter.snap, iter.page)
    \/ pc = "got" /\ ~batch.pending /\ ~Continuous

InvalidCheckpoint ==
    /\ BadPosition
    /\ Stop("invalid")
    /\ UNCHANGED <<source, latest, log, jobRows, faults>>

\* preprocess_batch fails, or does not return a row for every row.
PreprocessFail ==
    /\ pc = "rows" /\ cursor = 0 /\ batch.rows # <<>>
    /\ faults < MaxFaults
    /\ faults' = faults + 1
    /\ Stop("error")
    /\ UNCHANGED <<source, latest, log, jobRows>>

Row == batch.rows[cursor + 1]

\* processOneRow: the step chain runs against the destination and is counted.
DispatchRow ==
    /\ pc = "rows" /\ cursor < Len(batch.rows)
    /\ log' = Append(log, [index |-> Row.index, snap |-> Row.snap, pos |-> Row.pos,
                           template |-> template])
    /\ result' = result + 1
    /\ pc' = "persist"
    /\ UNCHANGED <<source, latest, end, run, input, cp, template, paused, ingest,
                   cursor, jobRows, faults>>

\* Mutant: every delivery of PersistOutcome counts as an attempt.
UpsertedCounting ==
    [i \in DOMAIN jobRows \cup {Row.index} |->
        IF i # Row.index THEN jobRows[i]
        ELSE [attempts |-> IF i \in DOMAIN jobRows THEN jobRows[i].attempts + 1 ELSE 1,
              attempt  |-> <<run, i>>]]

\* PersistOutcome's upsert: attempts grows only when the attempt ID is new.
Upserted ==
    LET id  == <<run, Row.index>>
        old == IF Row.index \in DOMAIN jobRows THEN jobRows[Row.index]
               ELSE [attempts |-> 0, attempt |-> <<>>]
    IN  [i \in DOMAIN jobRows \cup {Row.index} |->
            IF i # Row.index THEN jobRows[i]
            ELSE [attempts |-> old.attempts + (IF old.attempt = id THEN 0 ELSE 1),
                  attempt  |-> id]]

PersistRow ==
    /\ pc = "persist"
    /\ jobRows' = Upserted
    /\ cursor' = cursor + 1
    /\ pc' = "rows"
    /\ UNCHANGED <<source, latest, end, local, ingest, log, faults>>

\* The upsert commits but its result is lost; the activity is delivered again.
PersistRetry ==
    /\ pc = "persist"
    /\ faults < MaxFaults
    /\ faults' = faults + 1
    /\ jobRows' = Upserted
    /\ UNCHANGED <<source, latest, pc, end, local, ingest, cursor, log>>

\* The outcome cannot be recorded: processOneRow's error stops the job.
PersistFail ==
    /\ pc = "persist"
    /\ faults < MaxFaults
    /\ faults' = faults + 1
    /\ Stop("error")
    /\ UNCHANGED <<source, latest, log, jobRows>>

\* Mutant: NextRowIndex is left where the batch started.
AdvancedStale == [version |-> IF cp.version = 0 THEN batch.version ELSE cp.version,
                  offset  |-> batch.offset,
                  next    |-> cp.next,
                  counted |-> result]

\* The checkpoint after a batch.
Advanced == [version |-> IF cp.version = 0 THEN batch.version ELSE cp.version,
             offset  |-> batch.offset,
             next    |-> batch.offset.items,
             counted |-> result]

\* Mutant: an empty last batch is not taken for the end of the source.
EndBatchNeedingRows ==
    /\ pc = "rows" /\ cursor = Len(batch.rows)
    /\ IF batch.done /\ batch.rows # <<>>
       THEN /\ pc' = "ended" /\ end' = "ok"
            /\ cp' = Advanced
            /\ UNCHANGED <<run, input, result, template, paused>>
       ELSE /\ NextIteration(Advanced)
            /\ UNCHANGED end
    /\ iter' = NoIter /\ batch' = NoBatch /\ cursor' = 0
    /\ UNCHANGED <<source, latest, log, jobRows, faults>>

\* The batch is processed: advance the checkpoint, publish progress, and end,
\* hand over or go on.
EndBatch ==
    /\ pc = "rows" /\ cursor = Len(batch.rows)
    /\ IF batch.done
       THEN /\ pc' = "ended" /\ end' = "ok"
            /\ cp' = Advanced
            /\ UNCHANGED <<run, input, result, template, paused>>
       ELSE /\ NextIteration(Advanced)
            /\ UNCHANGED end
    /\ iter' = NoIter /\ batch' = NoBatch /\ cursor' = 0
    /\ UNCHANGED <<source, latest, log, jobRows, faults>>

-----------------------------------------------------------------------------

WorkflowStep ==
    \/ Start \/ BeginIngest
    \/ Authorize \/ SourceChanged \/ Open
    \/ QueryReady \/ QueryPending \/ FetchPage
    \/ NextRow \/ SourceDone \/ BatchFull
    \/ WaitPending \/ AcceptBatch \/ InvalidCheckpoint
    \/ DispatchRow \/ PersistRow \/ EndBatch

Fault == IngestRetry \/ IngestFail \/ PreprocessFail \/ PersistRetry \/ PersistFail

Ended == pc = "ended" /\ UNCHANGED vars

Next ==
    \/ WorkflowStep
    \/ Fault \/ StartRefused \/ Cancel
    \/ ReplaceObject \/ RegisterObject \/ CompleteQuery
    \/ PublishTemplate \/ Signal
    \/ Ended

Spec == Init /\ [][Next]_vars

FairSpec == Spec /\ WF_vars(WorkflowStep) /\ WF_vars(CompleteQuery)
-----------------------------------------------------------------------------
(* Properties.                                                              *)

Offset == [items : Nat, job : Nat, page : Nat, skip : Nat]
Checkpoint == [version : Nat, offset : Offset, next : Nat, counted : Nat]

\* Every variable stays in its type; the position a run carries is a Checkpoint.
TypeOK ==
    /\ kind \in Kinds /\ size \in [Snapshot -> Sizes]
    /\ object \in Snapshot /\ registered \in Snapshot
    /\ created \in 0..MaxSnapshots /\ complete \subseteq 1..created
    /\ latest \in 1..MaxTemplates
    /\ pc \in {"start", "loop", "ingest", "open", "read", "got", "rows", "persist", "ended"}
    /\ end \in {"none", "ok", "refused", "changed", "invalid", "error", "cancelled"}
    /\ run \in 1..MaxRuns
    /\ input \in [checkpoint : Checkpoint, template : 0..MaxTemplates]
    /\ cp \in Checkpoint /\ result \in Nat
    /\ template \in 0..MaxTemplates /\ paused \in BOOLEAN
    /\ cursor \in 0..Len(batch.rows) /\ Len(batch.rows) <= BatchSize
    /\ faults \in 0..MaxFaults

\* Across runs, lost attempts, pages and pending polls, the i-th row sent to
\* the destination is the i-th record of what was read: no row is skipped,
\* repeated or sent under another row's index (ADR 0002, MP-02 and MP-03).
RowsOnceInOrder ==
    \A i \in 1..Len(log) : log[i].index = i - 1 /\ log[i].pos = i - 1

\* A Salesforce job reads a single query job and every job a single template
\* version, although a lost Ingest attempt may have created other query jobs
\* and the template may have moved on between runs.
OneSnapshotOneTemplate ==
    \A i, j \in 1..Len(log) :
        /\ kind = "salesforce" => log[i].snap = log[j].snap
        /\ log[i].template = log[j].template

\* A job that ends without error has a job_rows entry for every record of the
\* snapshot it read (a replaced object is SourceVersionHeld's subject), each
\* counted as one attempt whatever was redelivered.
CompleteWhenOk ==
    end = "ok" /\ (kind = "salesforce" \/ object = 1) =>
        LET snap == IF kind = "salesforce" THEN cp.offset.job ELSE 1
        IN  /\ DOMAIN jobRows = 0..(size[snap] - 1)
            /\ Len(log) = size[snap] /\ result = size[snap]
            /\ \A i \in DOMAIN jobRows : jobRows[i].attempts = 1

\* Once a batch has been authorized, every row of the earlier batches was read
\* from the version the checkpoint pins, even though authorize and the read
\* are separate calls and the object may have been replaced in between.
EarlierBatchesPinned ==
    kind = "object" /\ pc \in {"open", "read", "got", "rows", "persist"} =>
        \A i \in 1..cp.next : log[i].snap = cp.version

\* A position this code wrote is never refused: InvalidCheckpoint stops a job
\* only when its object was replaced.
InvalidOnlyIfReplaced == end = "invalid" => kind = "object" /\ object > 1

\* The position a run goes on from: the one it was handed, then its own.
Carried == IF pc = "start" THEN input.checkpoint ELSE cp

\* Through batches, polls, lost attempts and hand-overs the position a job goes
\* on from never moves back, never passes a row that PersistOutcome has not
\* recorded, and never changes the object version or the query job it names:
\* a run that starts from it repeats nothing and skips nothing.
PositionAdvances ==
    [][end' \in {"none", "ok"} =>
          /\ Carried.next <= Carried'.next
          /\ 0..(Carried'.next - 1) \subseteq DOMAIN jobRows'
          /\ Carried.version \in {0, Carried'.version}
          /\ Carried.offset.job \in {0, Carried'.offset.job}]_vars

\* A job that is not left paused comes to an end, whatever is lost and however
\* often a run hands over.
Finishes == <>[](~paused) => <>(pc = "ended")

\* ADR 0002: Ingest "returns the version it read" and a re-upload to the same
\* key is caught, so a job that ends well read one version of its object.
SourceVersionHeld ==
    end = "ok" /\ kind = "object" => \A i \in 1..Len(log) : log[i].snap = cp.version
=============================================================================
