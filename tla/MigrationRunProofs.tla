------------------------- MODULE MigrationRunProofs -------------------------
(***************************************************************************)
(* Proofs about MigrationRun, for every size of the snapshots, batches and *)
(* pages, every number of hand-overs and every number of lost attempts.    *)
(***************************************************************************)
EXTENDS MigrationRun, TLAPS

-----------------------------------------------------------------------------
(* The inductive invariant. *)

Source   == [index : Nat, snap : Nat, pos : Nat]
Sent     == [index : Nat, snap : Nat, pos : Nat, template : Nat]
Iterator == [snap : Nat, version : Nat, page : Nat, skip : Nat, cursor : Nat,
             loaded : BOOLEAN, ready : BOOLEAN, idx : Nat]
Batch    == [rows : Seq(Source), offset : Offset, pending : BOOLEAN, done : BOOLEAN,
             version : Nat]

TypeInv ==
    /\ TypeOK
    /\ iter \in Iterator
    /\ batch \in Batch
    /\ log \in Seq(Sent)

\* The run is under way, or it ended well: its position is still meaningful.
Live == pc # "ended" \/ end = "ok"

Reading    == pc \in {"read", "got", "rows", "persist"}
Delivering == pc \in {"rows", "persist"}

\* k records of page p of query job s make n records in all.
OnPage(s, p, k, n) ==
    /\ k <= PageLen(s, p)
    /\ n = p * PageSize + k
    /\ n <= size[s]

\* Every row before the position was sent, counted and recorded, and a
\* Salesforce position names its query job and fits the job's pages.
GoodPosition(c) ==
    /\ c.offset.items = c.next
    /\ c.counted = c.next
    /\ kind = "object" =>
          /\ c.offset = [NoOffset EXCEPT !.items = c.next]
          /\ c.version <= object
          /\ c.version = 0 => c.next = 0
          /\ object = 1 => c.next <= size[1]
    /\ kind = "salesforce" =>
          /\ c.offset.job = 0 => c.offset = NoOffset
          /\ c.offset.job # 0 =>
                /\ c.offset.job \in 1..created
                /\ OnPage(c.offset.job, c.offset.page, c.offset.skip, c.next)

PositionInv ==
    /\ end = "none" <=> pc # "ended"
    /\ ~Delivering /\ pc # "ended" => cursor = 0
    /\ pc = "persist" => cursor < Len(batch.rows)
    /\ Live => GoodPosition(Carried)

\* Where the iterator stands.
GoodIter(it) ==
    /\ kind = "object" =>
          /\ it.ready /\ it.loaded
          /\ it.snap \in it.version..object
          /\ it.version >= 1
          /\ cp.version \in {0, it.version}
          /\ it.idx <= size[it.snap]
    /\ kind = "salesforce" =>
          /\ it.snap \in 1..created
          /\ cp.offset.job \in {0, it.snap}
          /\ it.loaded => it.ready
          /\ OnPage(it.snap, it.page, IF it.loaded THEN it.cursor ELSE it.skip, it.idx)

\* The row an Ingest attempt starts at: after the skip, a shorter object ends.
Base == IF kind = "object" /\ size[iter.snap] < cp.next THEN size[iter.snap] ELSE cp.next

\* An offset that resumes after n rows of snapshot s.
Resumes(off, s, n) ==
    /\ off.items = n
    /\ kind = "object" => off = [NoOffset EXCEPT !.items = n]
    /\ kind = "salesforce" => off.job = s /\ OnPage(s, off.page, off.skip, n)

BatchInv ==
    /\ pc = "open" => ~iter.loaded
    /\ pc = "open" /\ kind = "object" =>
          /\ iter.version \in 1..object
          /\ cp.version \in {0, iter.version}
    /\ Reading =>
          /\ GoodIter(iter)
          /\ batch.version = iter.version
          /\ iter.idx = Base + Len(batch.rows)
          /\ \A i \in 1..Len(batch.rows) :
                batch.rows[i] = [index |-> Base + i - 1, snap |-> iter.snap, pos |-> Base + i - 1]
          /\ ~iter.ready => batch.rows = <<>>
          /\ pc = "read" => ~batch.pending /\ ~batch.done
          /\ pc # "read" \/ batch.rows # <<>> => Resumes(batch.offset, iter.snap, iter.idx)
          /\ batch.pending => kind = "salesforce" /\ batch.rows = <<>>
          /\ pc = "got" => batch.pending \/ batch.done \/ batch.rows # <<>>
          /\ batch.done => iter.idx = size[iter.snap]
    /\ Delivering => Continuous /\ ~batch.pending

\* What was sent: the records before the position, in order, and those of the
\* batch under way; from one query job, or from versions not older than the
\* one the checkpoint names.
LogInv ==
    /\ RowsOnceInOrder
    /\ Live => Len(log) = Carried.next + cursor + (IF pc = "persist" THEN 1 ELSE 0)
    /\ Live /\ pc # "start" => result = Len(log)
    /\ Live /\ kind = "object" => \A i \in 1..Len(log) : log[i].snap \in Carried.version..object
    /\ Delivering => \A i \in 1..Len(log) : i > cp.next => log[i].snap = iter.snap
    /\ Live /\ kind = "salesforce" =>
          \A i \in 1..Len(log) :
              log[i].snap = IF Delivering THEN iter.snap ELSE Carried.offset.job

\* Every row was sent under the template the chain of runs started with.
TemplateInv ==
    /\ pc = "start" =>
          /\ input.template = 0 => log = <<>>
          /\ \A i \in 1..Len(log) : log[i].template = input.template
    /\ pc \notin {"start", "ended"} =>
          /\ template # 0
          /\ input.template \in {0, template}
          /\ \A i \in 1..Len(log) : log[i].template = template

\* An object needs no query job; one is created at most once more than attempts
\* were lost, and not again once the position names it.
CreatedInv ==
    /\ kind = "object" => created = 0
    /\ IF pc \in {"start", "loop", "ingest", "open"} /\ Carried.offset.job = 0
       THEN created <= faults ELSE created <= faults + 1

\* job_rows has the rows before the position and, between two deliveries of
\* the same outcome, the next one; all with a single attempt.
JobRowsInv ==
    LET n == Carried.next + cursor IN
    Live =>
        /\ \/ DOMAIN jobRows = 0..(n - 1)
           \/ /\ pc = "persist"
              /\ DOMAIN jobRows = 0..n
              /\ jobRows[n].attempt = <<run, n>>
        /\ \A i \in DOMAIN jobRows : jobRows[i].attempts = 1

IInv ==
    /\ TypeInv
    /\ PositionInv
    /\ BatchInv
    /\ LogInv
    /\ TemplateInv
    /\ CreatedInv
    /\ JobRowsInv
    /\ OneSnapshotOneTemplate
    /\ EarlierBatchesPinned
    /\ InvalidOnlyIfReplaced
    /\ CompleteWhenOk

-----------------------------------------------------------------------------
(* Pages. *)

\* What MigrationRunAssumption gives, one fact per constant.
LEMMA Constants ==
    /\ BatchSize \in Nat /\ BatchSize > 0
    /\ PageSize \in Nat /\ PageSize > 0
    /\ MaxTemplates \in Nat /\ MaxTemplates > 0
    /\ MaxRuns \in Nat /\ MaxRuns > 0
    /\ MaxFaults \in Nat /\ MaxSnapshots \in Nat /\ MaxFaults < MaxSnapshots
    /\ 1 \in Snapshot /\ Snapshot \subseteq Nat
    /\ "object" # "salesforce"
  BY MigrationRunAssumption DEF Snapshot

\* Every snapshot has a number of records.
LEMMA Sized ==
    ASSUME TypeOK, NEW s \in Snapshot
    PROVE  size[s] \in Nat
  BY MigrationRunAssumption DEF TypeOK

\* Arithmetic of the results pages: their lengths, and when another follows.
LEMMA Pages ==
    ASSUME TypeOK, NEW s \in Snapshot, NEW p \in Nat
    PROVE  /\ p * PageSize \in Nat
           /\ (p + 1) * PageSize = p * PageSize + PageSize
           /\ PageLen(s, p) \in 0..PageSize
           /\ HasNext(s, p) <=> p * PageSize + PageSize < size[s]
           /\ p * PageSize <= size[s] => p * PageSize + PageLen(s, p) <= size[s]
           /\ HasNext(s, p) => PageLen(s, p) = PageSize
           /\ ~HasNext(s, p) /\ p * PageSize <= size[s]
                 => p * PageSize + PageLen(s, p) = size[s]
  <1>1. PageSize \in Nat /\ PageSize > 0 /\ size[s] \in Nat
    BY Constants, Sized
  <1>2. p * PageSize \in Nat /\ (p + 1) * PageSize = p * PageSize + PageSize
    BY <1>1
  <1> DEFINE m == p * PageSize
  <1>3. m \in Nat /\ (HasNext(s, p) <=> m + PageSize < size[s])
    BY <1>2 DEF HasNext
  <1>4. PageLen(s, p) = IF size[s] - m <= 0 THEN 0
                        ELSE IF size[s] - m < PageSize THEN size[s] - m ELSE PageSize
    BY DEF PageLen
  <1> HIDE DEF m
  <1>5. /\ PageLen(s, p) \in 0..PageSize
        /\ m <= size[s] => m + PageLen(s, p) <= size[s]
        /\ HasNext(s, p) => PageLen(s, p) = PageSize
        /\ ~HasNext(s, p) /\ m <= size[s] => m + PageLen(s, p) = size[s]
    BY <1>1, <1>3, <1>4
  <1> QED
    BY <1>2, <1>3, <1>5 DEF m

\* An exhausted page with a successor is the start of that one.
LEMMA PageTurn ==
    ASSUME TypeOK, NEW s \in Snapshot, NEW p \in Nat, NEW k \in Nat, NEW n \in Nat,
           OnPage(s, p, k, n), ~(k < PageLen(s, p)), HasNext(s, p)
    PROVE  OnPage(s, p + 1, 0, n)
  <1>1. /\ size[s] \in Nat /\ PageSize \in Nat /\ p + 1 \in Nat
        /\ PageLen(s, p + 1) \in 0..PageSize
    BY Constants, Sized, Pages
  <1>2. /\ p * PageSize \in Nat
        /\ (p + 1) * PageSize = p * PageSize + PageSize
        /\ PageLen(s, p) = PageSize
    BY Pages
  <1>3. k = PageSize /\ n = p * PageSize + k /\ n <= size[s]
    BY <1>1, <1>2 DEF OnPage
  <1>4. n = (p + 1) * PageSize + 0
    BY <1>1, <1>2, <1>3
  <1> QED
    BY <1>1, <1>3, <1>4 DEF OnPage

\* A record taken from a page moves the position by one.
LEMMA PageNext ==
    ASSUME TypeOK, NEW s \in Snapshot, NEW p \in Nat, NEW k \in Nat, NEW n \in Nat,
           OnPage(s, p, k, n), k < PageLen(s, p)
    PROVE  OnPage(s, p, k + 1, n + 1)
  <1> DEFINE m == p * PageSize
  <1>1. size[s] \in Nat /\ m \in Nat /\ PageLen(s, p) \in Nat
    BY Constants, Sized, Pages
  <1>2. n = m + k /\ n <= size[s]
    BY DEF OnPage
  <1>3. m <= size[s] => m + PageLen(s, p) <= size[s]
    BY Pages
  <1>4. OnPage(s, p, k + 1, n + 1) <=>
           k + 1 <= PageLen(s, p) /\ n + 1 = m + (k + 1) /\ n + 1 <= size[s]
    BY DEF OnPage
  <1> HIDE DEF m
  <1> QED
    BY <1>1, <1>2, <1>3, <1>4

\* An exhausted page without a successor is the end of the snapshot.
LEMMA PageEnd ==
    ASSUME TypeOK, NEW s \in Snapshot, NEW p \in Nat, NEW k \in Nat, NEW n \in Nat,
           OnPage(s, p, k, n), ~(k < PageLen(s, p)), ~HasNext(s, p)
    PROVE  n = size[s]
  <1> DEFINE m == p * PageSize
  <1>1. size[s] \in Nat /\ m \in Nat /\ PageLen(s, p) \in Nat
    BY Constants, Sized, Pages
  <1>2. n = m + k /\ n <= size[s] /\ k <= PageLen(s, p)
    BY DEF OnPage
  <1>3. m <= size[s] => m + PageLen(s, p) = size[s]
    BY Pages
  <1> HIDE DEF m
  <1> QED
    BY <1>1, <1>2, <1>3

\* What an Ingest attempt returns resumes where its iterator stands.
LEMMA OffsetResumes ==
    ASSUME TypeOK, NEW it \in Iterator, GoodIter(it)
    PROVE  OffsetOf(it) \in Offset /\ Resumes(OffsetOf(it), it.snap, it.idx)
  <1>0. kind \in {"object", "salesforce"}
    BY MigrationRunAssumption DEF TypeOK
  <1>a. it.page \in Nat /\ it.skip \in Nat /\ it.cursor \in Nat /\ it.idx \in Nat
        /\ it.snap \in Nat /\ it.loaded \in BOOLEAN
    BY DEF Iterator
  <1>1. CASE kind = "object"
    BY <1>1, <1>a DEF OffsetOf, Resumes, NoOffset, Offset
  <1>2. CASE kind = "salesforce"
    <2>1. it.snap \in Snapshot
      BY <1>2, <1>a, Constants DEF GoodIter, TypeOK, Snapshot
    <2> DEFINE turn == it.loaded /\ it.cursor >= PageLen(it.snap, it.page)
                       /\ HasNext(it.snap, it.page)
               page == IF turn THEN it.page + 1 ELSE it.page
               skip == IF turn THEN 0 ELSE IF it.loaded THEN it.cursor ELSE it.skip
    <2>2. OnPage(it.snap, page, skip, it.idx)
      <3>1. CASE turn
        <4>1. PageLen(it.snap, it.page) \in Nat
          BY <1>a, <2>1, Pages, Constants
        <4>2. ~(it.cursor < PageLen(it.snap, it.page)) /\ OnPage(it.snap, it.page, it.cursor, it.idx)
          BY <1>2, <1>a, <3>1, <4>1 DEF GoodIter
        <4> QED
          BY <1>a, <2>1, <3>1, <4>2, PageTurn
      <3>2. CASE ~turn
        BY <1>2, <3>2 DEF GoodIter
      <3> QED
        BY <3>1, <3>2
    <2>3. page \in Nat /\ skip \in Nat
      BY <1>a
    <2>4. OffsetOf(it) = [items |-> it.idx, job |-> it.snap, page |-> page, skip |-> skip]
      BY <1>2 DEF OffsetOf
    <2> HIDE DEF page, skip
    <2> QED
      BY <1>2, <1>a, <2>2, <2>3, <2>4 DEF Resumes, Offset
  <1> QED
    BY <1>0, <1>1, <1>2

-----------------------------------------------------------------------------
(* Types. *)

\* sfIter.offset and the row count of an object are offsets.
LEMMA OffsetType ==
    ASSUME NEW it \in Iterator
    PROVE  OffsetOf(it) \in Offset
  <1>1. it.page \in Nat /\ it.skip \in Nat /\ it.cursor \in Nat /\ it.idx \in Nat
        /\ it.snap \in Nat /\ it.page + 1 \in Nat
    BY DEF Iterator
  <1> DEFINE turn == it.loaded /\ it.cursor >= PageLen(it.snap, it.page)
                     /\ HasNext(it.snap, it.page)
  <1>2. OffsetOf(it) = IF kind = "object" THEN [NoOffset EXCEPT !.items = it.idx]
                       ELSE [items |-> it.idx, job |-> it.snap,
                             page |-> IF turn THEN it.page + 1 ELSE it.page,
                             skip |-> IF turn THEN 0 ELSE IF it.loaded THEN it.cursor ELSE it.skip]
    BY DEF OffsetOf
  <1> HIDE DEF turn
  <1> QED
    BY <1>1, <1>2 DEF NoOffset, Offset

\* The empty values have the types of the full ones.
LEMMA NoneTypes ==
    /\ NoOffset \in Offset /\ NoCheckpoint \in Checkpoint /\ NoIter \in Iterator
    /\ NoBatch \in Batch /\ NoBatch.rows = <<>> /\ Len(NoBatch.rows) = 0
  BY DEF NoOffset, NoCheckpoint, NoIter, NoBatch, Offset, Checkpoint, Iterator, Batch

\* TypeInv, one conjunct for each group of variables.
SourceType  == /\ kind \in Kinds /\ size \in [Snapshot -> Sizes]
               /\ object \in Snapshot /\ registered \in Snapshot
               /\ created \in 0..MaxSnapshots /\ complete \subseteq 1..created
LocalType   == /\ run \in 1..MaxRuns
               /\ input \in [checkpoint : Checkpoint, template : 0..MaxTemplates]
               /\ cp \in Checkpoint /\ result \in Nat
               /\ template \in 0..MaxTemplates /\ paused \in BOOLEAN
ControlType == /\ latest \in 1..MaxTemplates
               /\ pc \in {"start", "loop", "ingest", "open", "read", "got", "rows",
                          "persist", "ended"}
               /\ end \in {"none", "ok", "refused", "changed", "invalid", "error", "cancelled"}
               /\ faults \in 0..MaxFaults
IngestType  == /\ iter \in Iterator /\ batch \in Batch
               /\ cursor \in 0..Len(batch.rows) /\ Len(batch.rows) <= BatchSize

\* TypeInv, by group of variables.
LEMMA Types ==
    TypeInv <=> SourceType /\ LocalType /\ ControlType /\ IngestType /\ log \in Seq(Sent)
  BY Zenon DEF TypeInv, TypeOK, SourceType, LocalType, ControlType, IngestType

\* The types hold initially.
LEMMA TypeInit == Init => TypeInv
  <1> SUFFICES ASSUME Init PROVE TypeInv
    OBVIOUS
  <1>1. SourceType
    BY Constants DEF Init, SourceType, Snapshot
  <1>2. LocalType
    <2>1. 1 \in 1..MaxRuns /\ 0 \in 0..MaxTemplates /\ 0 \in Nat /\ FALSE \in BOOLEAN
      BY Constants
    <2> QED
      BY <2>1, NoneTypes DEF Init, LocalType
  <1>3. ControlType
    BY Constants DEF Init, ControlType
  <1>4. IngestType
    BY Constants, NoneTypes DEF Init, IngestType
  <1>5. log \in Seq(Sent)
    BY DEF Init
  <1> QED
    BY <1>1, <1>2, <1>3, <1>4, <1>5, Types

\* The source changes only by a producer, the watcher, the Bulk API and the
\* query jobs that Open creates.
LEMMA SourceTypeNext ==
    ASSUME TypeInv, CreatedInv, [Next]_vars
    PROVE  SourceType'
  <1>0. SourceType
    BY Types
  <1>1. CASE UNCHANGED source
    BY <1>0, <1>1 DEF source, SourceType
  <1>2. CASE ReplaceObject
    BY <1>0, <1>2, Constants DEF ReplaceObject, SourceType, Snapshot
  <1>3. CASE RegisterObject
    BY <1>0, <1>3 DEF RegisterObject, SourceType
  <1>4. CASE CompleteQuery
    BY <1>0, <1>4 DEF CompleteQuery, SourceType
  <1>5. CASE Open
    <2>1. created' \in 0..MaxSnapshots /\ created' >= created
      <3>1. created \in 0..MaxSnapshots /\ faults \in 0..MaxFaults
        BY <1>0, Types DEF SourceType, ControlType
      <3>2. CASE created' = created
        BY <3>1, <3>2, Constants
      <3>3. CASE created' # created
        <4>1. created' = created + 1 /\ cp.offset.job = 0 /\ pc = "open"
          BY <1>5, <3>3 DEF Open, OpenObject, OpenSalesforce
        <4>2. created <= faults
          BY <4>1 DEF CreatedInv, Carried
        <4> QED
          BY <3>1, <4>1, <4>2, Constants
      <3> QED
        BY <3>2, <3>3
    <2>2. complete \subseteq 1..created'
      BY <1>0, <2>1, Constants DEF SourceType
    <2> QED
      BY <1>0, <1>5, <2>1, <2>2 DEF Open, SourceType
  <1> QED
    BY <1>1, <1>2, <1>3, <1>4, <1>5
    DEF Next, vars, WorkflowStep, Start, BeginIngest, Authorize, SourceChanged, QueryReady,
        QueryPending, FetchPage, NextRow, SourceDone, BatchFull, WaitPending, AcceptBatch,
        InvalidCheckpoint, DispatchRow, PersistRow, EndBatch, Fault, IngestRetry, IngestFail,
        PreprocessFail, PersistRetry, PersistFail, StartRefused, Cancel, PublishTemplate,
        Signal, Ended

\* The checkpoint that a batch leaves is one, and so is one handed over.
LEMMA IterationType ==
    ASSUME TypeInv, NEW c \in Checkpoint, NextIteration(c)
    PROVE  LocalType'
  <1>0. LocalType /\ MaxRuns \in Nat
    BY Types, Constants
  <1>1. CASE pc' = "loop" /\ cp' = c /\ UNCHANGED <<run, input, result, template, paused>>
    BY <1>0, <1>1 DEF LocalType
  <1>2. CASE ContinueAsNew(c)
    <2>1. run' \in 1..MaxRuns
      BY <1>0, <1>2 DEF ContinueAsNew, LocalType
    <2>2. input' \in [checkpoint : Checkpoint, template : 0..MaxTemplates]
      BY <1>0, <1>2 DEF ContinueAsNew, LocalType
    <2>3. 0 \in 0..MaxTemplates /\ 0 \in Nat
      BY Constants
    <2> QED
      BY <1>2, <2>1, <2>2, <2>3, NoneTypes DEF ContinueAsNew, LocalType
  <1> QED
    BY <1>1, <1>2 DEF NextIteration

\* The checkpoints after a batch and after a pending poll have their type.
LEMMA AdvancedType ==
    ASSUME TypeInv
    PROVE  /\ Advanced \in Checkpoint
           /\ [cp EXCEPT !.offset = batch.offset] \in Checkpoint
  <1>1. cp \in Checkpoint /\ batch \in Batch /\ result \in Nat
    BY Types DEF LocalType, IngestType
  <1>2. batch.offset \in Offset /\ batch.version \in Nat /\ batch.offset.items \in Nat
    BY <1>1 DEF Batch, Offset
  <1> QED
    BY <1>1, <1>2 DEF Advanced, Checkpoint

\* The run's locals keep their types.
LEMMA LocalTypeNext ==
    ASSUME TypeInv, [Next]_vars
    PROVE  LocalType'
  <1>0. LocalType /\ latest \in 1..MaxTemplates
    BY Types DEF ControlType
  <1>1. CASE UNCHANGED local
    BY <1>0, <1>1 DEF local, LocalType
  <1>2. CASE Signal
    BY <1>0, <1>2 DEF Signal, LocalType
  <1>3. CASE Start
    <2>1. input.checkpoint \in Checkpoint /\ input.template \in 0..MaxTemplates
      BY <1>0 DEF LocalType
    <2>2. input.checkpoint.counted \in Nat
      BY <2>1 DEF Checkpoint
    <2>3. template' \in 0..MaxTemplates
      BY <1>0, <1>3, <2>1, Constants DEF Start
    <2> QED
      BY <1>0, <1>3, <2>1, <2>2, <2>3 DEF Start, LocalType
  <1>4. CASE DispatchRow
    BY <1>0, <1>4 DEF DispatchRow, LocalType
  <1>5. CASE WaitPending
    BY <1>5, AdvancedType, IterationType DEF WaitPending
  <1>6. CASE EndBatch
    <2>1. CASE batch.done
      BY <1>0, <1>6, <2>1, AdvancedType DEF EndBatch, LocalType
    <2>2. CASE ~batch.done
      BY <1>6, <2>2, AdvancedType, IterationType DEF EndBatch
    <2> QED
      BY <2>1, <2>2
  <1> QED
    BY <1>1, <1>2, <1>3, <1>4, <1>5, <1>6
    DEF Next, vars, WorkflowStep, BeginIngest, Authorize, SourceChanged, Open, QueryReady,
        QueryPending, FetchPage, NextRow, SourceDone, BatchFull, AcceptBatch, Stop,
        InvalidCheckpoint, PersistRow, Fault, IngestRetry, IngestFail, PreprocessFail,
        PersistRetry, PersistFail, StartRefused, Cancel, ReplaceObject, RegisterObject,
        CompleteQuery, PublishTemplate, Ended

\* Control, template versions and the count of faults keep their types.
LEMMA ControlTypeNext ==
    ASSUME TypeInv, [Next]_vars
    PROVE  ControlType'
  <1>0. ControlType
    BY Types
  <1>1. latest' \in 1..MaxTemplates
    <2>1. CASE UNCHANGED latest
      BY <1>0, <2>1 DEF ControlType
    <2>2. CASE PublishTemplate
      BY <1>0, <2>2, Constants DEF PublishTemplate, ControlType
    <2> QED
      BY <2>1, <2>2
      DEF Next, vars, WorkflowStep, Start, BeginIngest, Authorize, SourceChanged, Open,
          QueryReady, QueryPending, FetchPage, NextRow, SourceDone, BatchFull, WaitPending,
          AcceptBatch, InvalidCheckpoint, DispatchRow, PersistRow, EndBatch, Fault,
          IngestRetry, IngestFail, PreprocessFail, PersistRetry, PersistFail, StartRefused,
          Cancel, ReplaceObject, RegisterObject, CompleteQuery, Signal, Ended
  <1>2. faults' \in 0..MaxFaults
    <2>1. CASE UNCHANGED faults
      BY <1>0, <2>1 DEF ControlType
    <2>2. CASE faults < MaxFaults /\ faults' = faults + 1
      BY <1>0, <2>2, Constants DEF ControlType
    <2> QED
      BY <2>1, <2>2
      DEF Next, vars, WorkflowStep, Start, BeginIngest, Authorize, SourceChanged, Open,
          QueryReady, QueryPending, FetchPage, NextRow, SourceDone, BatchFull, WaitPending,
          AcceptBatch, InvalidCheckpoint, DispatchRow, PersistRow, EndBatch, Fault,
          IngestRetry, IngestFail, PreprocessFail, PersistRetry, PersistFail, StartRefused,
          Cancel, ReplaceObject, RegisterObject, CompleteQuery, PublishTemplate, Signal, Ended
  <1>3. /\ pc' \in {"start", "loop", "ingest", "open", "read", "got", "rows", "persist",
                    "ended"}
        /\ end' \in {"none", "ok", "refused", "changed", "invalid", "error", "cancelled"}
    <2>1. CASE UNCHANGED <<pc, end>>
      BY <1>0, <2>1 DEF ControlType
    <2>2. CASE UNCHANGED end
               /\ pc' \in {"start", "loop", "ingest", "open", "read", "got", "rows", "persist"}
      BY <1>0, <2>2 DEF ControlType
    <2>3. CASE /\ pc' = "ended"
               /\ end' \in {"ok", "refused", "changed", "invalid", "error", "cancelled"}
      BY <2>3
    <2> QED
      BY <2>1, <2>2, <2>3
      DEF Next, vars, WorkflowStep, Start, BeginIngest, Authorize, SourceChanged, Open,
          QueryReady, QueryPending, FetchPage, NextRow, SourceDone, BatchFull, WaitPending,
          AcceptBatch, InvalidCheckpoint, DispatchRow, PersistRow, EndBatch, Fault,
          IngestRetry, IngestFail, PreprocessFail, PersistRetry, PersistFail, StartRefused,
          Cancel, ReplaceObject, RegisterObject, CompleteQuery, PublishTemplate, Signal,
          Ended, NextIteration, ContinueAsNew, Stop
  <1> QED
    BY <1>1, <1>2, <1>3 DEF ControlType

\* The record that NextRow appends.
NextSource == [index |-> iter.idx, snap |-> iter.snap,
               pos |-> IF kind = "object" THEN iter.idx
                       ELSE iter.page * PageSize + iter.cursor]
NextIter   == [iter EXCEPT !.idx = @ + 1, !.cursor = @ + 1]

\* What NextRow appends and the iterator it leaves have their types.
LEMMA NextTypes ==
    ASSUME TypeInv
    PROVE  NextSource \in Source /\ NextIter \in Iterator
  <1>1. iter \in Iterator /\ PageSize \in Nat
    BY Types, Constants DEF IngestType
  <1>2. iter.page * PageSize + iter.cursor \in Nat
    BY <1>1 DEF Iterator
  <1>3. NextSource \in Source
    BY <1>1, <1>2 DEF Iterator, NextSource, Source
  <1>4. NextIter \in Iterator
    <2> DEFINE n == iter.idx + 1
               k == iter.cursor + 1
    <2>1. n \in Nat /\ k \in Nat
      BY <1>1 DEF Iterator
    <2>2. NextIter = [iter EXCEPT !.idx = n, !.cursor = k]
      BY <1>1 DEF NextIter, Iterator
    <2> HIDE DEF n, k
    <2> QED
      BY <1>1, <2>1, <2>2 DEF Iterator
  <1> QED
    BY <1>3, <1>4

\* The iterator, Ingest's output and the cursor keep their types, and no batch
\* exceeds BatchSize.
LEMMA IngestTypeNext ==
    ASSUME TypeInv, PositionInv, [Next]_vars
    PROVE  IngestType'
  <1>0. /\ iter \in Iterator /\ batch \in Batch
        /\ cursor \in 0..Len(batch.rows) /\ Len(batch.rows) <= BatchSize
        /\ cp \in Checkpoint /\ object \in Snapshot /\ object \in Nat /\ created \in Nat
        /\ size[object] \in Nat /\ BatchSize \in Nat /\ batch.rows \in Seq(Source)
    <2>1. object \in Snapshot /\ TypeOK /\ created \in 0..MaxSnapshots
      BY Types DEF SourceType, TypeInv
    <2> QED
      BY <2>1, Types, Constants, Sized DEF IngestType, LocalType, Batch
  <1>a. cp.offset \in Offset /\ cp.offset.items \in Nat /\ cp.offset.job \in Nat
        /\ cp.offset.page \in Nat /\ cp.offset.skip \in Nat
    BY <1>0 DEF Checkpoint, Offset
  <1>b. cursor \in Nat /\ Len(batch.rows) \in Nat
    BY <1>0
  <1>1. CASE UNCHANGED <<iter, batch, cursor>>
    BY <1>0, <1>1 DEF IngestType
  <1>2. CASE UNCHANGED <<batch, cursor>> /\ iter' \in Iterator
    BY <1>0, <1>2 DEF IngestType
  <1>3. CASE UNCHANGED cursor /\ iter' \in Iterator /\ batch' \in Batch
             /\ batch'.rows = batch.rows
    BY <1>0, <1>3 DEF IngestType
  <1>4. CASE iter' \in Iterator /\ batch' \in Batch /\ batch'.rows = <<>> /\ cursor' = 0
    BY <1>0, <1>4 DEF IngestType
  <1>5. CASE Authorize
    <2>1. iter' \in Iterator
      BY <1>0, <1>5, NoneTypes DEF Authorize, Iterator
    <2> QED
      BY <1>2, <1>5, <2>1 DEF Authorize
  <1>6. CASE Open
    <2>1. iter' \in Iterator
      <3>1. CASE OpenObject
        BY <1>0, <1>a, <3>1 DEF OpenObject, Iterator
      <3>2. CASE OpenSalesforce
        <4> DEFINE snap  == IF cp.offset.job = 0 THEN created + 1 ELSE cp.offset.job
                   ready == cp.offset.job # 0 /\ Progressed(cp.offset)
        <4>1. snap \in Nat /\ ready \in BOOLEAN
          BY <1>0, <1>a DEF Progressed
        <4>2. iter' = [iter EXCEPT !.snap = snap, !.ready = ready, !.page = cp.offset.page,
                                   !.skip = cp.offset.skip, !.idx = cp.offset.items]
          BY <3>2 DEF OpenSalesforce
        <4> HIDE DEF snap, ready
        <4> QED
          BY <1>0, <1>a, <4>1, <4>2 DEF Iterator
      <3> QED
        BY <1>6, <3>1, <3>2 DEF Open
    <2>2. iter.version \in Nat
      BY <1>0 DEF Iterator
    <2>3. batch' \in Batch /\ batch'.rows = <<>>
      BY <1>6, <1>a, <2>2, NoneTypes DEF Open, Batch
    <2>4. pc = "open"
      BY <1>6 DEF Open, OpenObject, OpenSalesforce
    <2>5. cursor' = 0
      BY <1>6, <2>4 DEF Open, PositionInv, Delivering
    <2> QED
      BY <1>4, <2>1, <2>3, <2>5
  <1>7. CASE QueryReady
    <2>1. iter' \in Iterator
      BY <1>0, <1>7 DEF QueryReady, Iterator
    <2> QED
      BY <1>2, <1>7, <2>1 DEF QueryReady
  <1>8. CASE QueryPending \/ SourceDone
    <2>1. OffsetOf(iter) \in Offset
      BY <1>0, OffsetType
    <2>2. batch' \in Batch /\ batch'.rows = batch.rows
      BY <1>0, <1>8, <2>1 DEF QueryPending, SourceDone, Batch
    <2> QED
      BY <1>0, <1>3, <1>8, <2>2 DEF QueryPending, SourceDone
  <1>9. CASE FetchPage
    <2>1. iter' \in Iterator
      <3> DEFINE page == IF iter.loaded THEN iter.page + 1 ELSE iter.page
                 skip == IF iter.loaded THEN 0 ELSE iter.skip
      <3>1. page \in Nat /\ skip \in Nat
        BY <1>0 DEF Iterator
      <3>2. iter' = [iter EXCEPT !.page = page, !.skip = skip, !.cursor = skip, !.loaded = TRUE]
        BY <1>9 DEF FetchPage
      <3> HIDE DEF page, skip
      <3> QED
        BY <1>0, <3>1, <3>2 DEF Iterator
    <2> QED
      BY <1>2, <1>9, <2>1 DEF FetchPage
  <1>10. CASE NextRow
    <2>1. iter' = NextIter /\ iter' \in Iterator
      BY <1>10, NextTypes DEF NextRow, NextIter
    <2>2. batch' = [batch EXCEPT !.rows = Append(batch.rows, NextSource),
                                 !.offset = OffsetOf(NextIter)]
      BY <1>10 DEF NextRow, NextSource, NextIter
    <2>3. /\ Append(batch.rows, NextSource) \in Seq(Source)
          /\ Len(Append(batch.rows, NextSource)) = Len(batch.rows) + 1
      BY <1>0, NextTypes
    <2>4. OffsetOf(NextIter) \in Offset
      BY NextTypes, OffsetType
    <2>5. batch' \in Batch /\ Len(batch'.rows) = Len(batch.rows) + 1
      BY <1>0, <2>2, <2>3, <2>4 DEF Batch
    <2>6. Len(batch.rows) < BatchSize /\ cursor' = cursor
      BY <1>10 DEF NextRow, WantsRow
    <2> QED
      BY <1>0, <1>b, <2>1, <2>5, <2>6 DEF IngestType
  <1>11. CASE IngestRetry \/ WaitPending
    <2>1. cursor' = 0
      BY <1>11 DEF IngestRetry, WaitPending, PositionInv, Delivering
    <2> QED
      BY <1>4, <1>11, <2>1, NoneTypes DEF IngestRetry, WaitPending
  <1>12. CASE EndBatch
    BY <1>4, <1>12, NoneTypes DEF EndBatch
  <1>13. CASE AcceptBatch
    BY <1>0, <1>b, <1>13 DEF AcceptBatch, ingest, IngestType
  <1>14. CASE PersistRow
    <2>1. cursor < Len(batch.rows)
      BY <1>14 DEF PersistRow, PositionInv
    <2> QED
      BY <1>0, <1>b, <1>14, <2>1 DEF PersistRow, ingest, IngestType
  <1> QED
    BY <1>1, <1>5, <1>6, <1>7, <1>8, <1>9, <1>10, <1>11, <1>12, <1>13, <1>14
    DEF Next, vars, WorkflowStep, Start, BeginIngest, SourceChanged, BatchFull, Stop, ingest,
        InvalidCheckpoint, DispatchRow, Fault, IngestFail, PreprocessFail, PersistRetry,
        PersistFail, StartRefused, Cancel, ReplaceObject, RegisterObject, CompleteQuery,
        PublishTemplate, Signal, Ended

\* The row that DispatchRow sends.
NextSent == [index |-> Row.index, snap |-> Row.snap, pos |-> Row.pos, template |-> template]

\* The row the workflow is at is a row of the batch.
LEMMA RowType ==
    ASSUME TypeInv, cursor < Len(batch.rows)
    PROVE  /\ cursor + 1 \in 1..Len(batch.rows)
           /\ Row \in Source
           /\ NextSent \in Sent
  <1>1. /\ batch.rows \in Seq(Source) /\ cursor \in 0..Len(batch.rows)
        /\ template \in 0..MaxTemplates
    BY Types DEF IngestType, Batch, LocalType
  <1>2. cursor + 1 \in 1..Len(batch.rows)
    BY <1>1
  <1>3. Row \in Source
    BY <1>1, <1>2 DEF Row
  <1>4. template \in Nat
    BY <1>1, Constants
  <1> QED
    BY <1>2, <1>3, <1>4 DEF NextSent, Source, Sent

\* The rows sent keep their type.
LEMMA LogTypeNext ==
    ASSUME TypeInv, [Next]_vars
    PROVE  log' \in Seq(Sent)
  <1>1. CASE UNCHANGED log
    BY <1>1, Types
  <1>2. CASE DispatchRow
    <2>1. log' = Append(log, NextSent) /\ cursor < Len(batch.rows)
      BY <1>2 DEF DispatchRow, NextSent
    <2> QED
      BY <2>1, RowType, Types
  <1> QED
    BY <1>1, <1>2
    DEF Next, vars, WorkflowStep, Start, BeginIngest, Authorize, SourceChanged, Open,
        QueryReady, QueryPending, FetchPage, NextRow, SourceDone, BatchFull, WaitPending,
        AcceptBatch, InvalidCheckpoint, PersistRow, EndBatch, Fault, IngestRetry, IngestFail,
        PreprocessFail, PersistRetry, PersistFail, StartRefused, Cancel, ReplaceObject,
        RegisterObject, CompleteQuery, PublishTemplate, Signal, Ended

\* Type correctness is preserved; CreatedInv bounds the query jobs.
LEMMA TypeInvNext ==
    ASSUME TypeInv, PositionInv, CreatedInv, [Next]_vars
    PROVE  TypeInv'
  <1>1. /\ SourceType' /\ LocalType' /\ ControlType' /\ IngestType'
        /\ log' \in Seq(Sent)
    BY SourceTypeNext, LocalTypeNext, ControlTypeNext, IngestTypeNext, LogTypeNext
  <1> QED
    BY <1>1, Zenon
    DEF TypeInv, TypeOK, SourceType, LocalType, ControlType, IngestType

-----------------------------------------------------------------------------
(* The other parts of the invariant, kind of step by kind of step. *)

Core ==
    /\ PositionInv /\ BatchInv /\ LogInv /\ TemplateInv /\ CreatedInv /\ JobRowsInv
    /\ OneSnapshotOneTemplate /\ EarlierBatchesPinned /\ InvalidOnlyIfReplaced
    /\ CompleteWhenOk

\* Type facts by variable, for the arithmetic of the steps below.
LEMMA Numbers ==
    ASSUME TypeInv
    PROVE  /\ kind \in {"object", "salesforce"} /\ TypeOK
           /\ object \in Snapshot /\ object \in Nat /\ object >= 1
           /\ created \in Nat /\ created <= MaxSnapshots /\ \A j \in 1..created : j \in Snapshot
           /\ \A s \in Snapshot : size[s] \in Nat
           /\ run \in Nat /\ faults \in Nat /\ result \in Nat /\ cursor \in Nat
           /\ Len(batch.rows) \in Nat /\ cursor <= Len(batch.rows) /\ Len(log) \in Nat
           /\ cp \in Checkpoint /\ input.checkpoint \in Checkpoint
           /\ cp.next \in Nat /\ cp.version \in Nat /\ cp.offset \in Offset
           /\ input.checkpoint.next \in Nat /\ input.checkpoint.offset \in Offset
           /\ input.template \in 0..MaxTemplates /\ template \in 0..MaxTemplates
           /\ iter \in Iterator /\ iter.idx \in Nat /\ iter.snap \in Nat /\ batch \in Batch
           /\ batch.rows \in Seq(Source) /\ batch.offset \in Offset /\ log \in Seq(Sent)
  <1>1. SourceType /\ LocalType /\ ControlType /\ IngestType /\ log \in Seq(Sent)
    BY Types
  <1>2. /\ kind \in {"object", "salesforce"} /\ TypeOK
        /\ object \in Snapshot /\ object \in Nat /\ object >= 1
        /\ created \in Nat /\ created <= MaxSnapshots /\ \A j \in 1..created : j \in Snapshot
    BY <1>1, Constants, MigrationRunAssumption DEF SourceType, TypeInv, Snapshot
  <1>3. \A s \in Snapshot : size[s] \in Nat
    BY <1>2, Sized
  <1>4. /\ run \in Nat /\ faults \in Nat /\ result \in Nat /\ cursor \in Nat
        /\ Len(batch.rows) \in Nat /\ cursor <= Len(batch.rows) /\ Len(log) \in Nat
    BY <1>1, Constants DEF LocalType, ControlType, IngestType, Batch
  <1>5. /\ cp \in Checkpoint /\ input.checkpoint \in Checkpoint
        /\ input.template \in 0..MaxTemplates /\ template \in 0..MaxTemplates
        /\ iter \in Iterator /\ batch \in Batch
    BY <1>1 DEF LocalType, IngestType
  <1>6. /\ cp.next \in Nat /\ cp.version \in Nat /\ cp.offset \in Offset
        /\ input.checkpoint.next \in Nat /\ input.checkpoint.offset \in Offset
        /\ iter.idx \in Nat /\ iter.snap \in Nat
        /\ batch.rows \in Seq(Source) /\ batch.offset \in Offset
    BY <1>5 DEF Checkpoint, Iterator, Batch
  <1> QED
    BY <1>1, <1>2, <1>3, <1>4, <1>5, <1>6

\* The fields of a row that was sent are numbers.
LEMMA SentTypes ==
    ASSUME TypeInv
    PROVE  \A i \in 1..Len(log) :
              log[i].index \in Nat /\ log[i].snap \in Nat /\ log[i].pos \in Nat
  <1>1. log \in Seq(Sent)
    BY Types
  <1>2. \A i \in 1..Len(log) : log[i] \in Sent
    BY <1>1
  <1> QED
    BY <1>2 DEF Sent

\* The rest of the invariant holds initially.
LEMMA CoreInit == Init => Core
  <1> SUFFICES ASSUME Init PROVE Core
    OBVIOUS
  <1>1. TypeInv
    BY TypeInit
  <1>2. /\ pc = "start" /\ end = "none" /\ cursor = 0 /\ log = <<>> /\ jobRows = <<>>
        /\ object = 1 /\ created = 0 /\ input.checkpoint = NoCheckpoint /\ input.template = 0
        /\ size[1] \in Nat /\ Len(log) = 0 /\ DOMAIN jobRows = {} /\ faults = 0
    BY <1>1, Constants, Numbers DEF Init
  <1>3. Carried = NoCheckpoint /\ NoCheckpoint.next = 0
        /\ NoCheckpoint.offset = NoOffset /\ NoCheckpoint.counted = 0 /\ NoCheckpoint.version = 0
    BY <1>2 DEF Carried, NoCheckpoint
  <1>4. PositionInv
    BY <1>2, <1>3 DEF PositionInv, Live, Delivering, GoodPosition, NoOffset
  <1>5. BatchInv
    BY <1>2 DEF BatchInv, Reading, Delivering
  <1>6. LogInv
    BY <1>2, <1>3 DEF LogInv, RowsOnceInOrder, Delivering
  <1>7. TemplateInv /\ CreatedInv
    BY <1>2, <1>3 DEF TemplateInv, CreatedInv
  <1>8. JobRowsInv
    BY <1>2, <1>3 DEF JobRowsInv
  <1>9. OneSnapshotOneTemplate /\ EarlierBatchesPinned /\ InvalidOnlyIfReplaced /\ CompleteWhenOk
    BY <1>2 DEF OneSnapshotOneTemplate, EarlierBatchesPinned, InvalidOnlyIfReplaced,
                CompleteWhenOk
  <1> QED
    BY <1>4, <1>5, <1>6, <1>7, <1>8, <1>9 DEF Core

\* The run stops with anything but success.
LEMMA Stops ==
    ASSUME TypeInv, Core, pc # "ended",
           pc' = "ended", end' \notin {"none", "ok"},
           end' = "invalid" => kind = "object" /\ object > 1,
           UNCHANGED <<source, local, ingest, cursor, log, jobRows>>,
           faults' \in {faults, faults + 1}
    PROVE  Core'
  <1>1. ~Live'
    BY DEF Live
  <1>2. PositionInv' /\ BatchInv'
    BY <1>1 DEF PositionInv, BatchInv, Delivering, Reading
  <1>3. LogInv' /\ TemplateInv' /\ JobRowsInv'
    BY <1>1 DEF Core, LogInv, TemplateInv, JobRowsInv, RowsOnceInOrder, Delivering
  <1>4. CreatedInv'
    BY Numbers DEF Core, CreatedInv, source
  <1>5. /\ OneSnapshotOneTemplate' /\ EarlierBatchesPinned' /\ InvalidOnlyIfReplaced'
        /\ CompleteWhenOk'
    BY DEF Core, OneSnapshotOneTemplate, EarlierBatchesPinned, InvalidOnlyIfReplaced,
           CompleteWhenOk, source
  <1> QED
    BY <1>2, <1>3, <1>4, <1>5 DEF Core

\* The environment acts.
LEMMA CoreEnvironment ==
    ASSUME TypeInv, Core,
           \/ ReplaceObject \/ RegisterObject \/ CompleteQuery \/ PublishTemplate \/ Signal
           \/ UNCHANGED vars
    PROVE  Core'
  <1>0. /\ UNCHANGED <<kind, size, created, pc, end, run, input, cp, result, template, iter,
                       batch, cursor, log, jobRows, faults>>
        /\ \/ object' = object
           \/ object' = object + 1 /\ pc # "ended"
    BY DEF ReplaceObject, RegisterObject, CompleteQuery, PublishTemplate, Signal, vars,
           source, local, ingest
  <1>1. CASE object' = object
    <2>1. PositionInv' /\ BatchInv'
      BY <1>0, <1>1 DEF Core, PositionInv, BatchInv, Live, Carried, GoodPosition, OnPage,
         PageLen, Delivering, Reading, GoodIter, Base, Resumes, Continuous
    <2>2. LogInv' /\ TemplateInv' /\ CreatedInv' /\ JobRowsInv'
      BY <1>0, <1>1 DEF Core, LogInv, TemplateInv, CreatedInv, JobRowsInv, RowsOnceInOrder,
         Live, Carried, Delivering
    <2>3. /\ OneSnapshotOneTemplate' /\ EarlierBatchesPinned' /\ InvalidOnlyIfReplaced'
          /\ CompleteWhenOk'
      BY <1>0, <1>1 DEF Core, OneSnapshotOneTemplate, EarlierBatchesPinned,
         InvalidOnlyIfReplaced, CompleteWhenOk
    <2> QED
      BY <2>1, <2>2, <2>3 DEF Core
  <1>2. CASE object' = object + 1 /\ pc # "ended"
    <2>a. object \in Nat /\ object >= 1 /\ end = "none"
      BY <1>2, Numbers DEF Core, PositionInv
    <2>b. Carried.version \in Nat /\ iter.version \in Nat /\ iter.snap \in Nat
      BY Numbers DEF Carried, Checkpoint, Iterator
    <2>c. object' # 1 /\ object' > object /\ object' \in Nat
      BY <1>2, <2>a
    <2>1. PositionInv'
      <3>1. Carried' = Carried
        BY <1>0 DEF Carried
      <3>2. GoodPosition(Carried)'
        BY <1>0, <1>2, <2>a, <2>b, <2>c, <3>1
        DEF Core, PositionInv, Live, GoodPosition, OnPage, PageLen
      <3> QED
        BY <1>0, <1>2, <3>2 DEF Core, PositionInv, Live, Delivering
    <2>2. BatchInv'
      <3>1. Reading => GoodIter(iter)'
        BY <1>0, <1>2, <2>a, <2>b, <2>c
        DEF Core, BatchInv, GoodIter, OnPage, PageLen
      <3> QED
        BY <1>0, <1>2, <2>a, <2>b, <2>c, <3>1
        DEF Core, BatchInv, Reading, Delivering, Base, Resumes, Continuous, OnPage, PageLen
    <2>3. LogInv'
      <3>1. \A i \in 1..Len(log) : log[i].snap \in Nat
        BY SentTypes
      <3> QED
        BY <1>0, <1>2, <2>a, <2>b, <2>c, <3>1
        DEF Core, LogInv, RowsOnceInOrder, Live, Carried, Delivering
    <2>4. TemplateInv' /\ CreatedInv' /\ JobRowsInv'
      BY <1>0 DEF Core, TemplateInv, CreatedInv, JobRowsInv, Live, Carried
    <2>5. /\ OneSnapshotOneTemplate' /\ EarlierBatchesPinned' /\ InvalidOnlyIfReplaced'
          /\ CompleteWhenOk'
      BY <1>0, <2>a DEF Core, OneSnapshotOneTemplate, EarlierBatchesPinned,
         InvalidOnlyIfReplaced, CompleteWhenOk
    <2> QED
      BY <2>1, <2>2, <2>3, <2>4, <2>5 DEF Core
  <1> QED
    BY <1>0, <1>1, <1>2

\* Between two batches of rows, the run and its Ingest attempt move without
\* touching the checkpoint, the destination or job_rows.
Fetching == {"loop", "ingest", "open", "read", "got"}

\* Such a step keeps every part that is not about the attempt itself.
LEMMA Moving ==
    ASSUME TypeInv, Core, pc \in Fetching, pc' \in Fetching,
           UNCHANGED <<kind, size, object, end, local, cursor, log, jobRows>>,
           created' \in Nat, created' >= created
    PROVE  /\ PositionInv' /\ LogInv' /\ TemplateInv' /\ JobRowsInv'
           /\ OneSnapshotOneTemplate' /\ InvalidOnlyIfReplaced' /\ CompleteWhenOk'
  <1>0. /\ pc \notin {"start", "ended", "rows", "persist"}
        /\ pc' \notin {"start", "ended", "rows", "persist"}
        /\ ~Delivering /\ ~Delivering' /\ Live /\ Live'
        /\ Carried = cp /\ Carried' = cp /\ created \in Nat
        /\ UNCHANGED <<run, input, cp, result, template, paused>>
    BY Numbers DEF Fetching, Delivering, Live, Carried, local
  <1>1. PositionInv'
    <2>1. GoodPosition(cp)
      BY <1>0 DEF Core, PositionInv
    <2>2. GoodPosition(cp)'
      BY <1>0, <2>1 DEF GoodPosition, OnPage, PageLen
    <2> QED
      BY <1>0, <2>2 DEF Core, PositionInv
  <1>2. LogInv'
    BY <1>0 DEF Core, LogInv, RowsOnceInOrder
  <1>3. TemplateInv' /\ JobRowsInv'
    BY <1>0 DEF Core, TemplateInv, JobRowsInv
  <1>4. OneSnapshotOneTemplate' /\ InvalidOnlyIfReplaced' /\ CompleteWhenOk'
    BY <1>0 DEF Core, OneSnapshotOneTemplate, InvalidOnlyIfReplaced, CompleteWhenOk
  <1> QED
    BY <1>1, <1>2, <1>3, <1>4

\* From the loop head to an opened source.
LEMMA CoreBegin ==
    ASSUME TypeInv, Core, BeginIngest \/ Authorize \/ IngestRetry
    PROVE  Core'
  <1>0. /\ pc \in Fetching /\ pc' \in {"ingest", "open"} /\ pc' \in Fetching
        /\ pc \notin {"rows", "persist", "start", "ended"}
        /\ UNCHANGED <<kind, size, object, end, local, cursor, log, jobRows, created>>
        /\ UNCHANGED <<run, input, cp, result, template, paused>>
    BY DEF BeginIngest, Authorize, IngestRetry, Fetching, source, local
  <1>1. /\ PositionInv' /\ LogInv' /\ TemplateInv' /\ JobRowsInv'
        /\ OneSnapshotOneTemplate' /\ InvalidOnlyIfReplaced' /\ CompleteWhenOk'
    BY <1>0, Moving, Numbers
  <1>2. GoodPosition(cp)
    BY <1>0 DEF Core, PositionInv, Live, Carried
  <1>3. BatchInv'
    <2>1. ~Reading' /\ ~Delivering'
      BY <1>0 DEF Reading, Delivering
    <2>2. pc' = "open" /\ kind = "object" =>
             /\ iter'.version = object
             /\ cp.version \in {0, object}
      <3>1. pc' = "open" => Authorize
        BY <1>0 DEF BeginIngest, IngestRetry
      <3>2. Authorize /\ kind = "object" => iter' = [NoIter EXCEPT !.version = object]
        BY DEF Authorize
      <3> QED
        BY <3>1, <3>2 DEF Authorize, VersionAllowed, NoIter
    <2>3. pc' = "open" => ~iter'.loaded
      <3>1. pc' = "open" => Authorize
        BY <1>0 DEF BeginIngest, IngestRetry
      <3> QED
        BY <3>1 DEF Authorize, NoIter
    <2> QED
      BY <1>0, <2>1, <2>2, <2>3, Numbers DEF BatchInv
  <1>4. CreatedInv'
    <2>a. faults \in Nat /\ created \in Nat /\ Carried = cp /\ Carried' = cp
      BY <1>0, Numbers DEF Carried
    <2>b. /\ created <= faults + 1
          /\ pc \in {"loop", "ingest", "open"} /\ cp.offset.job = 0 => created <= faults
      BY <2>a DEF Core, CreatedInv
    <2>1. cp.offset.job = 0 => created' <= faults'
      <3>1. CASE IngestRetry
        BY <1>0, <2>a, <2>b, <3>1 DEF IngestRetry
      <3>2. CASE BeginIngest \/ Authorize
        BY <1>0, <2>a, <2>b, <3>2 DEF BeginIngest, Authorize
      <3> QED
        BY <3>1, <3>2
    <2>2. created' <= faults' + 1
      <3>1. faults' \in {faults, faults + 1}
        BY DEF BeginIngest, Authorize, IngestRetry
      <3> QED
        BY <1>0, <2>a, <2>b, <3>1
    <2>3. kind' = "object" => created' = 0
      BY <1>0 DEF Core, CreatedInv
    <2> QED
      BY <2>a, <2>1, <2>2, <2>3 DEF CreatedInv
  <1>5. EarlierBatchesPinned'
    <2> SUFFICES ASSUME kind = "object", pc' = "open"
                 PROVE  \A i \in 1..cp.next : log[i].snap = cp.version
      BY <1>0 DEF EarlierBatchesPinned
    <2>1. Authorize
      BY <1>0 DEF BeginIngest, IngestRetry
    <2>2. cp.version \in {0, object}
      BY <2>1 DEF Authorize, VersionAllowed
    <2>3. /\ Len(log) = cp.next
          /\ \A i \in 1..Len(log) : log[i].snap \in cp.version..object
      <3>1. cursor = 0 /\ cp.next \in Nat /\ Live /\ Carried = cp /\ pc # "persist"
        BY <1>0, Numbers DEF Core, PositionInv, Live, Carried, Delivering
      <3>2. Len(log) = cp.next + 0 + 0
        BY <3>1 DEF Core, LogInv
      <3>3. \A i \in 1..Len(log) : log[i].snap \in cp.version..object
        BY <3>1 DEF Core, LogInv
      <3> QED
        BY <3>1, <3>2, <3>3
    <2>4. cp.version = 0 => cp.next = 0
      BY <1>2 DEF GoodPosition
    <2> QED
      BY <2>2, <2>3, <2>4, Numbers
  <1> QED
    BY <1>1, <1>3, <1>4, <1>5 DEF Core

\* Open: the iterator stands at the position of the checkpoint.
LEMMA CoreOpen ==
    ASSUME TypeInv, TypeInv', Core, Open
    PROVE  Core'
  <1>0. /\ pc = "open" /\ pc' = "read" /\ pc \in Fetching /\ pc' \in Fetching
        /\ UNCHANGED <<kind, size, object, end, local, cursor, log, jobRows, faults>>
        /\ UNCHANGED <<run, input, cp, result, template, paused>>
        /\ Reading' /\ ~Delivering'
    BY DEF Open, OpenObject, OpenSalesforce, Fetching, local, Reading, Delivering
  <1>a. created' \in Nat /\ created' >= created
    BY Numbers DEF Open, OpenObject, OpenSalesforce
  <1>1. /\ PositionInv' /\ LogInv' /\ TemplateInv' /\ JobRowsInv'
        /\ OneSnapshotOneTemplate' /\ InvalidOnlyIfReplaced' /\ CompleteWhenOk'
    BY <1>0, <1>a, Moving
  <1>2. GoodPosition(cp) /\ cp.offset.items = cp.next
    BY <1>0 DEF Core, PositionInv, Live, Carried, GoodPosition
  <1>3. /\ batch'.rows = <<>> /\ Len(batch'.rows) = 0 /\ batch'.version = iter.version
        /\ ~batch'.pending /\ ~batch'.done
    BY DEF Open, NoBatch
  <1>4. /\ iter'.version = iter.version
        /\ GoodIter(iter)'
        /\ iter'.idx = IF kind = "object" /\ size[iter'.snap] < cp.next
                       THEN size[iter'.snap] ELSE cp.next
    <2>a. iter \in Iterator /\ iter.version \in Nat
      BY Numbers DEF Iterator
    <2>1. CASE kind = "object"
      <3>1. /\ iter'.snap = object /\ iter'.ready /\ iter'.loaded /\ iter'.version = iter.version
            /\ iter'.idx = IF cp.next <= size[object] THEN cp.next ELSE size[object]
        BY <1>2, <2>1, <2>a DEF Open, OpenObject, OpenSalesforce, Iterator
      <3>2. iter.version \in 1..object /\ cp.version \in {0, iter.version}
        BY <1>0, <2>1 DEF Core, BatchInv
      <3>3. object \in Nat /\ size[object] \in Nat /\ cp.next \in Nat
        BY Numbers
      <3>4. GoodIter(iter)'
        BY <1>0, <2>1, <3>1, <3>2, <3>3 DEF GoodIter
      <3>5. iter'.idx = IF size[iter'.snap] < cp.next THEN size[iter'.snap] ELSE cp.next
        BY <3>1, <3>3
      <3> QED
        BY <2>1, <3>1, <3>4, <3>5
    <2>2. CASE kind = "salesforce"
      <3>a. /\ OpenSalesforce /\ iter.loaded \in BOOLEAN
            /\ cp.offset \in Offset /\ created \in Nat /\ cp.next \in Nat
        BY <2>2, <2>a, Numbers DEF Open, OpenObject, Iterator
      <3>b. ~iter.loaded
        BY <1>0 DEF Core, BatchInv
      <3>1. /\ iter'.snap = IF cp.offset.job = 0 THEN created + 1 ELSE cp.offset.job
            /\ created' = IF cp.offset.job = 0 THEN created + 1 ELSE created
            /\ iter'.page = cp.offset.page /\ iter'.skip = cp.offset.skip
            /\ iter'.idx = cp.next /\ iter'.loaded = iter.loaded
            /\ iter'.version = iter.version
        BY <1>2, <2>a, <3>a DEF OpenSalesforce, Iterator
      <3>2. CASE cp.offset.job = 0
        <4>1. cp.offset = NoOffset /\ cp.next = 0
          BY <1>2, <2>2, <3>2 DEF GoodPosition, NoOffset
        <4>2. iter'.page = 0 /\ iter'.skip = 0 /\ iter'.idx = 0 /\ iter'.snap = created'
          BY <3>1, <3>2, <4>1 DEF NoOffset
        <4>3. created' \in Snapshot /\ created' \in 1..created'
          <5>1. created' \in 0..MaxSnapshots /\ created' = created + 1
            BY <3>1, <3>2, Types DEF TypeInv, TypeOK
          <5> QED
            BY <3>a, <5>1, Constants DEF Snapshot
        <4>4. PageLen(created', 0) \in 0..PageSize /\ size[created'] \in Nat /\ 0 * PageSize = 0
          <5>1. TypeOK /\ 0 \in Nat
            BY Numbers
          <5>2. PageLen(created', 0) \in 0..PageSize
            BY <4>3, <5>1, Pages
          <5>3. size[created'] \in Nat
            BY <4>3, <5>1, Sized
          <5>4. 0 * PageSize = 0
            BY Constants
          <5> QED
            BY <5>2, <5>3, <5>4
        <4>5. OnPage(created', 0, 0, 0)
          BY <4>4, Constants DEF OnPage
        <4>6. OnPage(iter.snap, iter.page, iter.skip, iter.idx)'
          BY <1>0, <4>2, <4>5 DEF OnPage, PageLen
        <4> QED
          BY <1>0, <2>2, <3>1, <3>2, <3>b, <4>2, <4>3, <4>6 DEF GoodIter
      <3>3. CASE cp.offset.job # 0
        <4>1. /\ cp.offset.job \in 1..created
              /\ OnPage(cp.offset.job, cp.offset.page, cp.offset.skip, cp.next)
          BY <1>2, <2>2, <3>3 DEF GoodPosition
        <4>2. OnPage(iter.snap, iter.page, iter.skip, iter.idx)'
          BY <1>0, <3>1, <3>3, <4>1 DEF OnPage, PageLen
        <4> QED
          BY <1>0, <2>2, <3>1, <3>3, <3>b, <4>1, <4>2 DEF GoodIter
      <3> QED
        BY <3>2, <3>3
    <2> QED
      BY <2>1, <2>2, Numbers
  <1>5. BatchInv'
    <2>1. iter'.idx = Base' + Len(batch'.rows)
      <3>1. Base' = iter'.idx
        BY <1>0, <1>4 DEF Base
      <3>2. iter' \in Iterator
        BY Types DEF TypeInv
      <3>3. iter'.idx \in Nat
        BY <3>2 DEF Iterator
      <3> QED
        BY <1>3, <3>1, <3>3
    <2> QED
      BY <1>0, <1>3, <1>4, <2>1 DEF BatchInv
  <1>6. CreatedInv'
    BY <1>0, Numbers DEF Core, CreatedInv, Carried, Open, OpenObject, OpenSalesforce
  <1>7. EarlierBatchesPinned'
    BY <1>0 DEF Core, EarlierBatchesPinned
  <1> QED
    BY <1>1, <1>5, <1>6, <1>7 DEF Core

\* One step of an Ingest attempt: the iterator becomes it, the output b.
LEMMA ReadStep ==
    ASSUME TypeInv, Core, pc = "read", pc' \in {"read", "got"},
           UNCHANGED <<source, end, local, cursor, log, jobRows, faults>>,
           NEW it, NEW b, iter' = it, batch' = b,
           GoodIter(it), it.snap = iter.snap, b.version = it.version,
           it.idx = Base + Len(b.rows),
           \A i \in 1..Len(b.rows) :
              b.rows[i] = [index |-> Base + i - 1, snap |-> it.snap, pos |-> Base + i - 1],
           ~it.ready => b.rows = <<>>,
           pc' = "read" => ~b.pending /\ ~b.done,
           pc' = "got" \/ b.rows # <<>> => Resumes(b.offset, it.snap, it.idx),
           b.pending => kind = "salesforce" /\ b.rows = <<>>,
           pc' = "got" => b.pending \/ b.done \/ b.rows # <<>>,
           b.done => it.idx = size[it.snap]
    PROVE  Core'
  <1>0. /\ pc \in Fetching /\ pc' \in Fetching
        /\ UNCHANGED <<kind, size, object, created>>
        /\ UNCHANGED <<run, input, cp, result, template, paused>>
        /\ Reading' /\ ~Delivering' /\ pc' # "open"
    BY DEF Fetching, source, local, Reading, Delivering
  <1>1. /\ PositionInv' /\ LogInv' /\ TemplateInv' /\ JobRowsInv'
        /\ OneSnapshotOneTemplate' /\ InvalidOnlyIfReplaced' /\ CompleteWhenOk'
    <2>1. created' \in Nat /\ created' >= created
      BY <1>0, Numbers
    <2> QED
      BY <1>0, <2>1, Moving
  <1>2. BatchInv'
    <2>1. Base' = Base
      BY <1>0 DEF Base
    <2>2. GoodIter(iter)'
      BY <1>0 DEF GoodIter, OnPage, PageLen
    <2>3. Resumes(b.offset, it.snap, it.idx) => Resumes(batch.offset, iter.snap, iter.idx)'
      BY <1>0 DEF Resumes, OnPage, PageLen
    <2>4. \A i \in 1..Len(batch'.rows) :
             batch'.rows[i] = [index |-> Base' + i - 1, snap |-> iter'.snap, pos |-> Base' + i - 1]
      BY <2>1
    <2> HIDE DEF Base, GoodIter, Resumes
    <2> QED
      BY <1>0, <2>1, <2>2, <2>3, <2>4 DEF BatchInv
  <1>3. CreatedInv' /\ EarlierBatchesPinned'
    BY <1>0 DEF Core, CreatedInv, EarlierBatchesPinned
  <1> QED
    BY <1>1, <1>2, <1>3 DEF Core

\* What the invariant says of an Ingest attempt that is reading.
LEMMA ReadFacts ==
    ASSUME TypeInv, Core, pc = "read"
    PROVE  /\ GoodIter(iter) /\ batch.version = iter.version
           /\ iter.idx = Base + Len(batch.rows) /\ Base \in Nat
           /\ \A i \in 1..Len(batch.rows) :
                 batch.rows[i] = [index |-> Base + i - 1, snap |-> iter.snap, pos |-> Base + i - 1]
           /\ ~iter.ready => batch.rows = <<>> /\ kind = "salesforce"
           /\ ~batch.pending /\ ~batch.done
           /\ batch.rows # <<>> => Resumes(batch.offset, iter.snap, iter.idx)
           /\ iter.snap \in Snapshot
           /\ OffsetOf(iter) \in Offset /\ Resumes(OffsetOf(iter), iter.snap, iter.idx)
           /\ kind \in {"object", "salesforce"}
  <1>1. Reading /\ ~Delivering
    BY DEF Reading, Delivering
  <1>2. /\ GoodIter(iter) /\ batch.version = iter.version
        /\ iter.idx = Base + Len(batch.rows)
        /\ \A i \in 1..Len(batch.rows) :
              batch.rows[i] = [index |-> Base + i - 1, snap |-> iter.snap, pos |-> Base + i - 1]
        /\ ~iter.ready => batch.rows = <<>>
        /\ ~batch.pending /\ ~batch.done
        /\ batch.rows # <<>> => Resumes(batch.offset, iter.snap, iter.idx)
    BY <1>1 DEF Core, BatchInv
  <1>3. kind \in {"object", "salesforce"} /\ (~iter.ready => kind = "salesforce")
    BY <1>2, Numbers DEF GoodIter
  <1>4. iter.snap \in Snapshot
    <2>1. iter.version \in Nat
      BY Numbers DEF Iterator
    <2>2. CASE kind = "object"
      <3>1. iter.snap \in iter.version..object /\ iter.version >= 1
        BY <1>2, <2>2 DEF GoodIter
      <3>2. object \in 1..MaxSnapshots /\ MaxSnapshots \in Nat
        BY Numbers, Constants DEF Snapshot
      <3> QED
        BY <2>1, <3>1, <3>2 DEF Snapshot
    <2>3. CASE kind = "salesforce"
      BY <1>2, <2>3, Numbers DEF GoodIter
    <2> QED
      BY <1>3, <2>2, <2>3
  <1>5. Base \in Nat
    BY <1>4, Numbers DEF Base
  <1>6. OffsetOf(iter) \in Offset /\ Resumes(OffsetOf(iter), iter.snap, iter.idx)
    BY <1>2, Numbers, OffsetResumes
  <1> QED
    BY <1>2, <1>3, <1>4, <1>5, <1>6

\* Polling the query job, and a full batch.
LEMMA CoreQuery ==
    ASSUME TypeInv, Core, QueryReady \/ QueryPending \/ BatchFull
    PROVE  Core'
  <1>0. pc = "read" /\ iter \in Iterator /\ batch \in Batch
    BY Numbers DEF QueryReady, QueryPending, BatchFull, WantsRow
  <1>1. CASE QueryReady
    <2>1. iter' = [iter EXCEPT !.ready = TRUE]
      BY <1>1 DEF QueryReady
    <2>2. /\ iter'.snap = iter.snap /\ iter'.version = iter.version /\ iter'.idx = iter.idx
          /\ iter'.page = iter.page /\ iter'.skip = iter.skip /\ iter'.cursor = iter.cursor
          /\ iter'.loaded = iter.loaded /\ iter'.ready
      BY <1>0, <2>1 DEF Iterator
    <2>3. kind = "salesforce"
      BY <1>0, <1>1, ReadFacts DEF QueryReady
    <2>4. GoodIter(iter')
      BY <1>0, <2>2, <2>3, ReadFacts DEF GoodIter
    <2>5. /\ batch' = batch /\ pc' = "read" /\ pc' \in {"read", "got"} /\ pc' # "got"
          /\ UNCHANGED <<source, end, local, cursor, log, jobRows, faults>>
      BY <1>0, <1>1 DEF QueryReady
    <2> DEFINE it == iter'
    <2>6. /\ GoodIter(it) /\ iter' = it /\ it.snap = iter.snap /\ it.idx = iter.idx
          /\ it.version = iter.version /\ it.ready
      BY <2>2, <2>4
    <2> HIDE DEF it
    <2> QED
      BY <1>0, <2>5, <2>6, ReadFacts, ReadStep
  <1>2. CASE QueryPending
    <2>1. batch' = [batch EXCEPT !.pending = TRUE, !.offset = OffsetOf(iter)]
      BY <1>2 DEF QueryPending
    <2>2. /\ batch'.rows = batch.rows /\ batch'.version = batch.version
          /\ batch'.done = batch.done /\ batch'.pending /\ batch'.offset = OffsetOf(iter)
      BY <1>0, <2>1 DEF Batch
    <2>3. iter' = iter /\ ~iter.ready /\ pc' = "got"
          /\ UNCHANGED <<source, end, local, cursor, log, jobRows, faults>>
      BY <1>2 DEF QueryPending
    <2> QED
      BY <1>0, <2>2, <2>3, ReadFacts, ReadStep
  <1>3. CASE BatchFull
    <2>1. /\ iter' = iter /\ batch' = batch /\ pc' = "got"
          /\ UNCHANGED <<source, end, local, cursor, log, jobRows, faults>>
      BY <1>3 DEF BatchFull, ingest
    <2>2. batch.rows # <<>>
      BY <1>3, Constants DEF BatchFull
    <2> QED
      BY <1>0, <2>1, <2>2, ReadFacts, ReadStep
  <1> QED
    BY <1>1, <1>2, <1>3

\* Next fetches a page: the iterator stands at the same row as before.
LEMMA CoreFetch ==
    ASSUME TypeInv, Core, FetchPage
    PROVE  Core'
  <1>0. pc = "read" /\ iter \in Iterator /\ kind = "salesforce" /\ iter.ready
    BY Numbers DEF FetchPage, WantsRow
  <1>a. /\ iter.page \in Nat /\ iter.skip \in Nat /\ iter.cursor \in Nat /\ iter.idx \in Nat
        /\ iter.loaded \in BOOLEAN
    BY <1>0 DEF Iterator
  <1> DEFINE page == IF iter.loaded THEN iter.page + 1 ELSE iter.page
             skip == IF iter.loaded THEN 0 ELSE iter.skip
             it   == iter'
  <1>1. OnPage(iter.snap, page, skip, iter.idx)
    <2>1. CASE iter.loaded
      <3>1. /\ ~(iter.cursor < PageLen(iter.snap, iter.page)) /\ HasNext(iter.snap, iter.page)
            /\ OnPage(iter.snap, iter.page, iter.cursor, iter.idx)
        BY <1>0, <2>1, ReadFacts DEF FetchPage, InsidePage, GoodIter
      <3>2. TypeOK /\ iter.snap \in Snapshot
        BY <1>0, ReadFacts, Numbers
      <3>3. OnPage(iter.snap, iter.page + 1, 0, iter.idx)
        BY <1>a, <3>1, <3>2, PageTurn
      <3> QED
        BY <2>1, <3>3
    <2>2. CASE ~iter.loaded
      BY <1>0, <2>2, ReadFacts DEF GoodIter
    <2> QED
      BY <2>1, <2>2
  <1>2. iter' = [iter EXCEPT !.page = page, !.skip = skip, !.cursor = skip, !.loaded = TRUE]
    BY DEF FetchPage
  <1> HIDE DEF page, skip
  <1>3. /\ iter'.snap = iter.snap /\ iter'.version = iter.version /\ iter'.idx = iter.idx
        /\ iter'.page = page /\ iter'.cursor = skip /\ iter'.loaded /\ iter'.ready
    BY <1>0, <1>2 DEF Iterator
  <1>4. GoodIter(iter')
    BY <1>0, <1>1, <1>3, ReadFacts DEF GoodIter
  <1>5. /\ batch' = batch /\ pc' = "read" /\ pc' \in {"read", "got"} /\ pc' # "got"
        /\ UNCHANGED <<source, end, local, cursor, log, jobRows, faults>>
    BY <1>0 DEF FetchPage
  <1>6. /\ GoodIter(it) /\ iter' = it /\ it.snap = iter.snap /\ it.idx = iter.idx
        /\ it.version = iter.version /\ it.ready
    BY <1>3, <1>4
  <1> HIDE DEF it
  <1> QED
    BY <1>0, <1>5, <1>6, ReadFacts, ReadStep

\* Next returns the record at the iterator's row, under that row's index.
LEMMA CoreNextRow ==
    ASSUME TypeInv, Core, NextRow
    PROVE  Core'
  <1>0. pc = "read" /\ iter \in Iterator /\ batch \in Batch /\ iter.ready /\ HasRow
    BY Numbers DEF NextRow, WantsRow
  <1>a. /\ iter.page \in Nat /\ iter.cursor \in Nat /\ iter.idx \in Nat /\ TypeOK
        /\ batch.rows \in Seq(Source)
    BY <1>0, Numbers DEF Iterator
  <1>1. /\ NextIter.snap = iter.snap /\ NextIter.version = iter.version
        /\ NextIter.page = iter.page /\ NextIter.skip = iter.skip
        /\ NextIter.loaded = iter.loaded /\ NextIter.ready = iter.ready
        /\ NextIter.idx = iter.idx + 1 /\ NextIter.cursor = iter.cursor + 1
    BY <1>0 DEF NextIter, Iterator
  <1>2. NextSource.pos = iter.idx /\ GoodIter(NextIter)
    <2>1. CASE kind = "object"
      <3>1. iter.idx < size[iter.snap] /\ size[iter.snap] \in Nat
        BY <1>0, <2>1, ReadFacts, Numbers DEF HasRow
      <3>2. iter.idx + 1 <= size[iter.snap]
        BY <1>a, <3>1
      <3> QED
        BY <1>0, <1>1, <2>1, <3>2, ReadFacts DEF GoodIter, NextSource
    <2>2. CASE kind = "salesforce"
      <3>1. /\ iter.loaded /\ iter.cursor < PageLen(iter.snap, iter.page)
            /\ OnPage(iter.snap, iter.page, iter.cursor, iter.idx)
        BY <1>0, <2>2, ReadFacts DEF HasRow, InsidePage, GoodIter
      <3>2. OnPage(iter.snap, iter.page, iter.cursor + 1, iter.idx + 1)
        BY <1>0, <1>a, <3>1, ReadFacts, PageNext
      <3>3. NextSource.pos = iter.idx
        BY <2>2, <3>1 DEF NextSource, OnPage
      <3> QED
        BY <1>0, <1>1, <2>2, <3>1, <3>2, <3>3, ReadFacts DEF GoodIter
    <2> QED
      BY <1>0, <2>1, <2>2, ReadFacts
  <1>3. Resumes(OffsetOf(NextIter), NextIter.snap, NextIter.idx)
    BY <1>2, <1>a, NextTypes, OffsetResumes
  <1>4. NextSource \in Source /\ NextSource.index = iter.idx /\ NextSource.snap = iter.snap
    BY NextTypes DEF NextSource
  <1>5. NextSource = [index |-> iter.idx, snap |-> iter.snap, pos |-> iter.idx]
    BY <1>2 DEF NextSource
  <1> DEFINE rows == Append(batch.rows, NextSource)
             b    == batch'
  <1>6. /\ Len(rows) = Len(batch.rows) + 1
        /\ \A i \in 1..Len(rows) : rows[i] = [index |-> Base + i - 1, snap |-> iter.snap,
                                              pos |-> Base + i - 1]
    <2>1. /\ Len(rows) = Len(batch.rows) + 1 /\ rows[Len(batch.rows) + 1] = NextSource
          /\ \A i \in 1..Len(batch.rows) : rows[i] = batch.rows[i]
      BY <1>a, <1>4
    <2>2. /\ iter.idx = Base + Len(batch.rows) /\ Base \in Nat /\ Len(batch.rows) \in Nat
          /\ \A i \in 1..Len(batch.rows) :
                batch.rows[i] = [index |-> Base + i - 1, snap |-> iter.snap, pos |-> Base + i - 1]
      BY <1>0, <1>a, ReadFacts
    <2> HIDE DEF rows
    <2>3. ASSUME NEW i \in 1..Len(rows)
          PROVE  rows[i] = [index |-> Base + i - 1, snap |-> iter.snap, pos |-> Base + i - 1]
      <3>1. CASE i \in 1..Len(batch.rows)
        BY <2>1, <2>2, <3>1
      <3>2. CASE i = Len(batch.rows) + 1
        <4>1. Base + i - 1 = iter.idx
          BY <2>2, <3>2
        <4> QED
          BY <1>5, <2>1, <3>2, <4>1
      <3> QED
        BY <2>1, <2>2, <3>1, <3>2
    <2> QED
      BY <2>1, <2>3
  <1>7. /\ iter' = NextIter /\ pc' = "read" /\ pc' \in {"read", "got"} /\ pc' # "got"
        /\ UNCHANGED <<source, end, local, cursor, log, jobRows, faults>>
        /\ batch' = [batch EXCEPT !.rows = rows, !.offset = OffsetOf(NextIter)]
    BY <1>0 DEF NextRow, NextIter, NextSource
  <1> HIDE DEF rows
  <1>8. /\ b.rows = rows /\ b.version = batch.version /\ b.pending = batch.pending
        /\ b.done = batch.done /\ b.offset = OffsetOf(NextIter)
    BY <1>0, <1>7 DEF Batch
  <1>9. /\ NextIter.idx = Base + Len(rows)
        /\ NextIter.snap = iter.snap /\ NextIter.ready
    BY <1>0, <1>1, <1>6, ReadFacts, Numbers
  <1>10. batch' = b
    OBVIOUS
  <1> HIDE DEF b
  <1> DEFINE it == NextIter
  <1>11. /\ iter' = it /\ GoodIter(it) /\ it.snap = iter.snap /\ b.version = it.version
         /\ it.idx = Base + Len(b.rows) /\ it.ready
         /\ ~b.pending /\ ~b.done /\ Resumes(b.offset, it.snap, it.idx)
         /\ \A i \in 1..Len(b.rows) :
               b.rows[i] = [index |-> Base + i - 1, snap |-> it.snap, pos |-> Base + i - 1]
    BY <1>0, <1>1, <1>2, <1>3, <1>6, <1>7, <1>8, <1>9, ReadFacts
  <1> HIDE DEF it
  <1> QED
    BY <1>0, <1>7, <1>10, <1>11, ReadStep

\* Next reports the end of the source only behind its last record.
LEMMA CoreSourceDone ==
    ASSUME TypeInv, Core, SourceDone
    PROVE  Core'
  <1>0. pc = "read" /\ iter \in Iterator /\ batch \in Batch /\ iter.ready /\ ~HasRow
    BY Numbers DEF SourceDone, WantsRow
  <1>a. iter.page \in Nat /\ iter.cursor \in Nat /\ iter.idx \in Nat /\ TypeOK
    BY <1>0, Numbers DEF Iterator
  <1>1. iter.idx = size[iter.snap]
    <2>1. CASE kind = "object"
      <3>1. iter.idx <= size[iter.snap]
        BY <1>0, <2>1, ReadFacts DEF GoodIter
      <3>2. ~(iter.idx < size[iter.snap])
        BY <1>0, <2>1 DEF HasRow
      <3>3. size[iter.snap] \in Nat
        BY <1>0, ReadFacts, Numbers
      <3> QED
        BY <1>a, <3>1, <3>2, <3>3
    <2>2. CASE kind = "salesforce"
      <3>1. /\ iter.loaded /\ ~(iter.cursor < PageLen(iter.snap, iter.page))
            /\ ~HasNext(iter.snap, iter.page)
            /\ OnPage(iter.snap, iter.page, iter.cursor, iter.idx)
        BY <1>0, <2>2, ReadFacts DEF SourceDone, HasRow, InsidePage, GoodIter
      <3> QED
        BY <1>0, <1>a, <3>1, ReadFacts, PageEnd
    <2> QED
      BY <1>0, <2>1, <2>2, ReadFacts
  <1> DEFINE b == batch'
  <1>2. batch' = [batch EXCEPT !.done = TRUE, !.offset = OffsetOf(iter)]
    BY DEF SourceDone
  <1>3. /\ b.rows = batch.rows /\ b.version = batch.version /\ b.pending = batch.pending
        /\ b.done /\ b.offset = OffsetOf(iter) /\ batch' = b
    BY <1>0, <1>2 DEF Batch
  <1>4. iter' = iter /\ pc' = "got" /\ pc' \in {"read", "got"} /\ pc' # "read"
        /\ UNCHANGED <<source, end, local, cursor, log, jobRows, faults>>
    BY DEF SourceDone
  <1> HIDE DEF b
  <1> QED
    BY <1>0, <1>1, <1>3, <1>4, ReadFacts, ReadStep

\* A run takes up the position it was handed.
LEMMA CoreStart ==
    ASSUME TypeInv, Core, Start
    PROVE  Core'
  <1>0. /\ pc = "start" /\ pc' = "loop" /\ cp' = input.checkpoint
        /\ result' = input.checkpoint.counted
        /\ template' = IF input.template = 0 THEN latest ELSE input.template
        /\ UNCHANGED <<kind, size, object, created, end, run, input, cursor, log, jobRows, faults>>
    BY DEF Start, source
  <1>a. /\ Live /\ Live' /\ ~Delivering /\ ~Delivering' /\ ~Reading'
        /\ Carried = input.checkpoint /\ Carried' = input.checkpoint
    BY <1>0 DEF Live, Delivering, Reading, Carried
  <1>b. end = "none" /\ cursor = 0 /\ GoodPosition(Carried)
    BY <1>0, <1>a DEF Core, PositionInv
  <1>1. PositionInv'
    <2>1. GoodPosition(Carried)'
      BY <1>0, <1>a, <1>b DEF GoodPosition, OnPage, PageLen
    <2> QED
      BY <1>0, <1>a, <1>b, <2>1 DEF PositionInv
  <1>2. BatchInv' /\ EarlierBatchesPinned'
    BY <1>0, <1>a DEF BatchInv, EarlierBatchesPinned
  <1>3. LogInv'
    <2>1. Len(log) = Carried.next + 0 + 0
      BY <1>0, <1>a, <1>b DEF Core, LogInv
    <2>2. result' = Len(log)
      BY <1>0, <1>a, <1>b, <2>1, Numbers DEF GoodPosition
    <2> QED
      BY <1>0, <1>a, <2>2 DEF Core, LogInv, RowsOnceInOrder
  <1>4. TemplateInv'
    <2>1. CASE input.template = 0
      <3>1. template' = latest /\ latest # 0 /\ log = <<>> /\ Len(log) = 0
        BY <1>0, <2>1, Types, Constants DEF Core, TemplateInv, ControlType
      <3> QED
        BY <1>0, <2>1, <3>1 DEF TemplateInv
    <2>2. CASE input.template # 0
      BY <1>0, <2>2 DEF Core, TemplateInv
    <2> QED
      BY <2>1, <2>2
  <1>5. CreatedInv'
    BY <1>0, <1>a DEF Core, CreatedInv
  <1>6. JobRowsInv'
    BY <1>0, <1>a DEF Core, JobRowsInv
  <1>7. OneSnapshotOneTemplate' /\ InvalidOnlyIfReplaced' /\ CompleteWhenOk'
    BY <1>0, <1>b DEF Core, OneSnapshotOneTemplate, InvalidOnlyIfReplaced, CompleteWhenOk
  <1> QED
    BY <1>1, <1>2, <1>3, <1>4, <1>5, <1>6, <1>7 DEF Core

\* What the invariant says of a batch that Ingest has returned.
LEMMA GotFacts ==
    ASSUME TypeInv, Core, pc \in {"got", "rows", "persist"}
    PROVE  /\ GoodIter(iter) /\ batch.version = iter.version
           /\ iter.idx = Base + Len(batch.rows)
           /\ \A i \in 1..Len(batch.rows) :
                 batch.rows[i] = [index |-> Base + i - 1, snap |-> iter.snap, pos |-> Base + i - 1]
           /\ Resumes(batch.offset, iter.snap, iter.idx)
           /\ batch.pending => kind = "salesforce" /\ batch.rows = <<>>
           /\ batch.done => iter.idx = size[iter.snap]
           /\ pc = "got" => batch.pending \/ batch.done \/ batch.rows # <<>>
           /\ Delivering => Continuous /\ ~batch.pending
           /\ GoodPosition(cp) /\ Carried = cp /\ Live
           /\ iter.snap \in Snapshot /\ size[iter.snap] \in Nat /\ Base \in Nat
           /\ kind \in {"object", "salesforce"} /\ iter.version \in Nat
           /\ end = "none"
  <1>1. Reading
    BY DEF Reading
  <1>2. /\ GoodIter(iter) /\ batch.version = iter.version
        /\ iter.idx = Base + Len(batch.rows)
        /\ \A i \in 1..Len(batch.rows) :
              batch.rows[i] = [index |-> Base + i - 1, snap |-> iter.snap, pos |-> Base + i - 1]
        /\ Resumes(batch.offset, iter.snap, iter.idx)
        /\ batch.pending => kind = "salesforce" /\ batch.rows = <<>>
        /\ batch.done => iter.idx = size[iter.snap]
        /\ pc = "got" => batch.pending \/ batch.done \/ batch.rows # <<>>
        /\ Delivering => Continuous /\ ~batch.pending
    BY <1>1 DEF Core, BatchInv
  <1>3. Carried = cp /\ Live
    BY DEF Carried, Live
  <1>4. GoodPosition(cp) /\ end = "none"
    BY <1>3 DEF Core, PositionInv
  <1>5. kind \in {"object", "salesforce"} /\ iter.version \in Nat
    BY Numbers DEF Iterator
  <1>6. iter.snap \in Snapshot
    <2>2. CASE kind = "object"
      <3>1. iter.snap \in iter.version..object /\ iter.version >= 1
        BY <1>2, <2>2 DEF GoodIter
      <3>2. object \in 1..MaxSnapshots /\ MaxSnapshots \in Nat
        BY Numbers, Constants DEF Snapshot
      <3> QED
        BY <1>5, <3>1, <3>2 DEF Snapshot
    <2>3. CASE kind = "salesforce"
      BY <1>2, <2>3, Numbers DEF GoodIter
    <2> QED
      BY <1>5, <2>2, <2>3
  <1>7. size[iter.snap] \in Nat /\ Base \in Nat
    BY <1>6, Numbers DEF Base
  <1> QED
    BY <1>2, <1>3, <1>4, <1>5, <1>6, <1>7

\* A batch that continues the checkpoint is accepted.
LEMMA CoreAccept ==
    ASSUME TypeInv, Core, AcceptBatch
    PROVE  Core'
  <1>0. /\ pc = "got" /\ pc' = "rows" /\ cursor' = 0 /\ ~batch.pending /\ Continuous
        /\ UNCHANGED <<kind, size, object, created, end, run, input, cp, result, template,
                       iter, batch, log, jobRows, faults>>
    BY DEF AcceptBatch, source, local, ingest
  <1>a. /\ Live /\ Live' /\ ~Delivering /\ Delivering' /\ Reading' /\ Reading
        /\ Carried = cp /\ Carried' = cp
    BY <1>0 DEF Live, Delivering, Reading, Carried
  <1>b. cursor = 0 /\ cursor' = cursor
    BY <1>0, <1>a DEF Core, PositionInv
  <1>c. cp.next \in Nat /\ Len(log) = cp.next
    <2>1. Len(log) = cp.next + 0 + 0
      BY <1>0, <1>a, <1>b DEF Core, LogInv
    <2> QED
      BY <2>1, Numbers
  <1>1. PositionInv'
    <2>1. GoodPosition(Carried)'
      BY <1>0, <1>a, GotFacts DEF GoodPosition, OnPage, PageLen
    <2> QED
      BY <1>0, <1>a, <2>1 DEF Core, PositionInv
  <1>2. BatchInv'
    <2>1. Base' = Base /\ Continuous'
      BY <1>0 DEF Base, Continuous
    <2>2. GoodIter(iter)'
      BY <1>0, GotFacts DEF GoodIter, OnPage, PageLen
    <2>3. Resumes(batch.offset, iter.snap, iter.idx)'
      BY <1>0, GotFacts DEF Resumes, OnPage, PageLen
    <2> HIDE DEF Base, GoodIter, Resumes, Continuous
    <2>4. Reading /\ pc # "read"
      BY <1>0, <1>a
    <2> QED
      BY <1>0, <1>a, <2>1, <2>2, <2>3, <2>4 DEF Core, BatchInv
  <1>3. LogInv'
    <2>1. kind = "salesforce" => \A i \in 1..Len(log) : log[i].snap = iter.snap
      <3> SUFFICES ASSUME kind = "salesforce", NEW i \in 1..Len(log)
                   PROVE  log[i].snap = iter.snap
        OBVIOUS
      <3>1. log[i].snap = cp.offset.job
        BY <1>a DEF Core, LogInv
      <3>2. cp.offset.job \in {0, iter.snap}
        BY <1>0, GotFacts DEF GoodIter
      <3>3. cp.offset.job = 0 => cp.next = 0
        BY <1>0, GotFacts DEF GoodPosition, NoOffset
      <3> QED
        BY <1>c, <3>1, <3>2, <3>3
    <2>2. \A i \in 1..Len(log) : ~(i > cp.next)
      BY <1>c
    <2> QED
      BY <1>0, <1>a, <1>b, <2>1, <2>2 DEF Core, LogInv, RowsOnceInOrder
  <1>4. TemplateInv' /\ JobRowsInv'
    BY <1>0, <1>a, <1>b DEF Core, TemplateInv, JobRowsInv
  <1>5. CreatedInv'
    BY <1>0, Numbers DEF Core, CreatedInv
  <1>6. /\ OneSnapshotOneTemplate' /\ EarlierBatchesPinned' /\ InvalidOnlyIfReplaced'
        /\ CompleteWhenOk'
    BY <1>0, GotFacts DEF Core, OneSnapshotOneTemplate, EarlierBatchesPinned,
       InvalidOnlyIfReplaced, CompleteWhenOk
  <1> QED
    BY <1>1, <1>2, <1>3, <1>4, <1>5, <1>6 DEF Core

\* The row in hand is the one after those already sent.
LEMMA RowInHand ==
    ASSUME TypeInv, Core, pc \in {"rows", "persist"}, cursor < Len(batch.rows)
    PROVE  Row = [index |-> cp.next + cursor, snap |-> iter.snap, pos |-> cp.next + cursor]
  <1>0. Delivering /\ cursor \in Nat /\ Len(batch.rows) \in Nat /\ cp.next \in Nat
    BY Numbers DEF Delivering
  <1>1. cursor + 1 \in 1..Len(batch.rows)
    BY <1>0
  <1>2. Base \in Nat /\ Row = [index |-> Base + (cursor + 1) - 1, snap |-> iter.snap,
                               pos |-> Base + (cursor + 1) - 1]
    BY <1>1, GotFacts DEF Row
  <1>3. Row.index = cp.next + (cursor + 1) - 1
    BY <1>0, <1>1, GotFacts DEF Row, Continuous
  <1>4. Base + (cursor + 1) - 1 = cp.next + cursor
    BY <1>0, <1>2, <1>3
  <1> QED
    BY <1>2, <1>4

\* The next row is sent: it is the record after those already sent.
LEMMA CoreDispatch ==
    ASSUME TypeInv, Core, DispatchRow
    PROVE  Core'
  <1>0. /\ pc = "rows" /\ pc' = "persist" /\ cursor < Len(batch.rows)
        /\ log' = Append(log, NextSent) /\ result' = result + 1
        /\ UNCHANGED <<kind, size, object, created, end, run, input, cp, template,
                       iter, batch, cursor, jobRows, faults>>
    BY DEF DispatchRow, source, ingest, NextSent
  <1>a. /\ Live /\ Live' /\ Delivering /\ Delivering' /\ Reading' /\ Reading
        /\ Carried = cp /\ Carried' = cp
    BY <1>0 DEF Live, Delivering, Reading, Carried
  <1>b. /\ cp.next \in Nat /\ cursor \in Nat /\ Len(log) \in Nat /\ Len(log) = cp.next + cursor
        /\ result = Len(log)
    <2>1. Len(log) = cp.next + cursor + 0
      BY <1>0, <1>a DEF Core, LogInv
    <2>2. result = Len(log)
      BY <1>0, <1>a DEF Core, LogInv
    <2> QED
      BY <2>1, <2>2, Numbers
  <1>c. /\ NextSent.index = Len(log) /\ NextSent.pos = Len(log)
        /\ NextSent.snap = iter.snap /\ NextSent.template = template
    BY <1>0, <1>b, RowInHand DEF NextSent
  <1>d. /\ Len(log') = Len(log) + 1 /\ log'[Len(log) + 1] = NextSent
        /\ \A i \in 1..Len(log) : log'[i] = log[i]
    BY <1>0, RowType, Numbers
  <1>e. \A i \in 1..Len(log') : i \in 1..Len(log) \/ i = Len(log) + 1
    BY <1>b, <1>d
  <1>1. PositionInv'
    <2>1. GoodPosition(Carried)'
      BY <1>0, <1>a, GotFacts DEF GoodPosition, OnPage, PageLen
    <2> QED
      BY <1>0, <1>a, <2>1 DEF Core, PositionInv
  <1>2. BatchInv'
    <2>1. Base' = Base /\ Continuous' /\ Continuous /\ ~batch.pending
      BY <1>0, <1>a, GotFacts DEF Base, Continuous
    <2>2. GoodIter(iter)'
      BY <1>0, GotFacts DEF GoodIter, OnPage, PageLen
    <2>3. Resumes(batch.offset, iter.snap, iter.idx)'
      BY <1>0, GotFacts DEF Resumes, OnPage, PageLen
    <2> HIDE DEF Base, GoodIter, Resumes, Continuous
    <2> QED
      BY <1>0, <1>a, <2>1, <2>2, <2>3 DEF Core, BatchInv
  <1>3. LogInv'
    <2>1. RowsOnceInOrder'
      <3>1. \A i \in 1..Len(log) : log[i].index = i - 1 /\ log[i].pos = i - 1
        BY DEF Core, LogInv, RowsOnceInOrder
      <3>2. (Len(log) + 1) - 1 = Len(log)
        BY <1>b
      <3> QED
        BY <1>c, <1>d, <1>e, <3>1, <3>2 DEF RowsOnceInOrder
    <2>2. Len(log') = Carried'.next + cursor' + 1
      BY <1>0, <1>a, <1>b, <1>d
    <2>3. result' = Len(log')
      BY <1>0, <1>b, <1>d
    <2>4. kind = "object" => \A i \in 1..Len(log') : log'[i].snap \in cp.version..object
      <3> SUFFICES ASSUME kind = "object" PROVE \A i \in 1..Len(log') : log'[i].snap \in cp.version..object
        OBVIOUS
      <3>1. iter.snap \in iter.version..object /\ cp.version \in {0, iter.version}
        BY <1>0, GotFacts DEF GoodIter
      <3>a. iter.version \in Nat /\ object \in Nat /\ iter.snap \in Nat
        BY <1>0, GotFacts, Numbers
      <3>2. iter.snap \in cp.version..object
        BY <3>1, <3>a
      <3>3. \A i \in 1..Len(log) : log[i].snap \in cp.version..object
        BY <1>a DEF Core, LogInv
      <3> QED
        BY <1>c, <1>d, <1>e, <3>2, <3>3
    <2>5. \A i \in 1..Len(log') : i > cp.next => log'[i].snap = iter.snap
      <3>1. \A i \in 1..Len(log) : i > cp.next => log[i].snap = iter.snap
        BY <1>a DEF Core, LogInv
      <3> QED
        BY <1>c, <1>d, <1>e, <3>1
    <2>6. kind = "salesforce" => \A i \in 1..Len(log') : log'[i].snap = iter.snap
      <3>1. kind = "salesforce" => \A i \in 1..Len(log) : log[i].snap = iter.snap
        BY <1>a DEF Core, LogInv
      <3> QED
        BY <1>c, <1>d, <1>e, <3>1
    <2> QED
      BY <1>0, <1>a, <2>1, <2>2, <2>3, <2>4, <2>5, <2>6 DEF LogInv
  <1>4. TemplateInv'
    <2>1. /\ template # 0 /\ input.template \in {0, template}
          /\ \A i \in 1..Len(log) : log[i].template = template
      BY <1>0 DEF Core, TemplateInv
    <2> QED
      BY <1>0, <1>c, <1>d, <1>e, <2>1 DEF TemplateInv
  <1>5. JobRowsInv'
    BY <1>0, <1>a DEF Core, JobRowsInv
  <1>6. CreatedInv'
    BY <1>0 DEF Core, CreatedInv
  <1>7. OneSnapshotOneTemplate'
    <2>1. \A i \in 1..Len(log') : log'[i].template = template'
      BY <1>0, <1>4 DEF TemplateInv
    <2>2. kind' = "salesforce" => \A i \in 1..Len(log') : log'[i].snap = iter'.snap
      BY <1>3, <1>a DEF LogInv
    <2> QED
      BY <2>1, <2>2 DEF OneSnapshotOneTemplate
  <1>8. EarlierBatchesPinned'
    <2>1. kind = "object" => \A i \in 1..cp.next : log[i].snap = cp.version
      BY <1>0 DEF Core, EarlierBatchesPinned
    <2>2. \A i \in 1..cp.next : log'[i] = log[i]
      BY <1>b, <1>d
    <2> QED
      BY <1>0, <2>1, <2>2 DEF EarlierBatchesPinned
  <1>9. InvalidOnlyIfReplaced' /\ CompleteWhenOk'
    BY <1>0, GotFacts DEF InvalidOnlyIfReplaced, CompleteWhenOk
  <1> QED
    BY <1>1, <1>2, <1>3, <1>4, <1>5, <1>6, <1>7, <1>8, <1>9 DEF Core

\* PersistOutcome: whether the upsert is the first for the row or repeats a
\* lost delivery, job_rows has the row afterwards, with a single attempt.
LEMMA UpsertOnce ==
    ASSUME TypeInv, Core, pc = "persist", jobRows' = Upserted
    PROVE  /\ DOMAIN jobRows' = 0..(cp.next + cursor)
           /\ jobRows'[cp.next + cursor].attempt = <<run, cp.next + cursor>>
           /\ \A i \in DOMAIN jobRows' : jobRows'[i].attempts = 1
  <1> DEFINE n == cp.next + cursor
  <1>0. n \in Nat /\ Row.index = n
    <2>1. cursor < Len(batch.rows)
      BY DEF Core, PositionInv
    <2>2. Row = [index |-> n, snap |-> iter.snap, pos |-> n]
      BY <2>1, RowInHand
    <2>3. n \in Nat
      BY Numbers
    <2> QED
      BY <2>2, <2>3
  <1>1. /\ \/ DOMAIN jobRows = 0..(n - 1)
           \/ DOMAIN jobRows = 0..n /\ jobRows[n].attempt = <<run, n>>
        /\ \A i \in DOMAIN jobRows : jobRows[i].attempts = 1
    <2>1. Live /\ Carried = cp
      BY DEF Live, Carried
    <2> QED
      BY <2>1 DEF Core, JobRowsInv
  <1> HIDE DEF n
  <1> DEFINE id  == <<run, n>>
             old == IF n \in DOMAIN jobRows THEN jobRows[n]
                    ELSE [attempts |-> 0, attempt |-> <<>>]
             new == [attempts |-> old.attempts + (IF old.attempt = id THEN 0 ELSE 1),
                     attempt  |-> id]
  <1>2. jobRows' = [i \in DOMAIN jobRows \cup {n} |-> IF i # n THEN jobRows[i] ELSE new]
    BY <1>0 DEF Upserted
  <1>3. new.attempts = 1 /\ new.attempt = id
    <2>1. CASE DOMAIN jobRows = 0..(n - 1)
      <3>1. n \notin DOMAIN jobRows
        BY <1>0, <2>1
      <3>2. old.attempts = 0 /\ old.attempt = <<>>
        BY <3>1
      <3>3. <<>> # id
        <4>1. Len(<<>>) = 0 /\ Len(id) = 2
          OBVIOUS
        <4> QED
          BY <4>1
      <3> QED
        BY <3>2, <3>3
    <2>2. CASE DOMAIN jobRows = 0..n /\ jobRows[n].attempt = <<run, n>>
      <3>1. n \in DOMAIN jobRows
        BY <1>0, <2>2
      <3>2. old.attempts = 1 /\ old.attempt = id
        BY <1>1, <2>2, <3>1
      <3> QED
        BY <3>2
    <2> QED
      BY <1>1, <2>1, <2>2
  <1> HIDE DEF new, old, id
  <1>4. DOMAIN jobRows' = 0..n
    <2>1. DOMAIN jobRows' = DOMAIN jobRows \cup {n}
      BY <1>2
    <2> QED
      BY <1>0, <1>1, <2>1
  <1>5. jobRows'[n] = new
    BY <1>2
  <1>6. \A i \in DOMAIN jobRows' : jobRows'[i].attempts = 1
    BY <1>1, <1>2, <1>3
  <1> QED
    BY <1>3, <1>4, <1>5, <1>6 DEF n, id

\* The outcome of a row is persisted, once or again.
LEMMA CorePersist ==
    ASSUME TypeInv, Core, PersistRow \/ PersistRetry
    PROVE  Core'
  <1>0. /\ pc = "persist" /\ jobRows' = Upserted
        /\ \/ pc' = "rows" /\ cursor' = cursor + 1 /\ faults' = faults
           \/ pc' = "persist" /\ cursor' = cursor /\ faults' = faults + 1
        /\ UNCHANGED <<kind, size, object, created, end, run, input, cp, result, template,
                       iter, batch, log>>
    BY DEF PersistRow, PersistRetry, source, local, ingest
  <1>a. /\ Live /\ Live' /\ Delivering /\ Delivering' /\ Reading' /\ Reading
        /\ Carried = cp /\ Carried' = cp /\ pc' \in {"rows", "persist"}
    BY <1>0 DEF Live, Delivering, Reading, Carried
  <1>b. /\ cp.next \in Nat /\ cursor \in Nat /\ Len(log) = cp.next + cursor + 1
        /\ cursor < Len(batch.rows) /\ Len(batch.rows) \in Nat
    BY <1>0, <1>a, Numbers DEF Core, LogInv, PositionInv
  <1>1. PositionInv'
    <2>1. GoodPosition(Carried)'
      BY <1>0, <1>a, GotFacts DEF GoodPosition, OnPage, PageLen
    <2> QED
      BY <1>0, <1>a, <1>b, <2>1 DEF Core, PositionInv
  <1>2. BatchInv'
    <2>1. Base' = Base /\ Continuous' /\ Continuous /\ ~batch.pending
      BY <1>0, <1>a, GotFacts DEF Base, Continuous
    <2>2. GoodIter(iter)'
      BY <1>0, GotFacts DEF GoodIter, OnPage, PageLen
    <2>3. Resumes(batch.offset, iter.snap, iter.idx)'
      BY <1>0, GotFacts DEF Resumes, OnPage, PageLen
    <2> HIDE DEF Base, GoodIter, Resumes, Continuous
    <2> QED
      BY <1>0, <1>a, <2>1, <2>2, <2>3 DEF Core, BatchInv
  <1>3. LogInv'
    <2>1. Len(log') = Carried'.next + cursor' + (IF pc' = "persist" THEN 1 ELSE 0)
      BY <1>0, <1>a, <1>b
    <2> QED
      BY <1>0, <1>a, <2>1 DEF Core, LogInv, RowsOnceInOrder
  <1>4. TemplateInv'
    BY <1>0, <1>a DEF Core, TemplateInv
  <1>5. CreatedInv'
    BY <1>0, <1>a, Numbers DEF Core, CreatedInv
  <1>6. JobRowsInv'
    <2>0. /\ DOMAIN jobRows' = 0..(cp.next + cursor)
          /\ jobRows'[cp.next + cursor].attempt = <<run, cp.next + cursor>>
          /\ \A i \in DOMAIN jobRows' : jobRows'[i].attempts = 1
      BY <1>0, UpsertOnce
    <2>1. CASE pc' = "rows" /\ cursor' = cursor + 1
      <3>1. (Carried.next + cursor)' = cp.next + (cursor + 1)
        BY <1>a, <2>1
      <3>a. (Carried.next + cursor)' - 1 = cp.next + cursor
        BY <1>b, <3>1
      <3>2. DOMAIN jobRows' = 0..((Carried.next + cursor)' - 1)
        BY <2>0, <3>a, Zenon
      <3> QED
        BY <2>0, <3>2 DEF JobRowsInv
    <2>2. CASE pc' = "persist" /\ cursor' = cursor
      BY <1>0, <1>a, <2>0, <2>2 DEF JobRowsInv
    <2> QED
      BY <1>0, <2>1, <2>2
  <1>7. /\ OneSnapshotOneTemplate' /\ EarlierBatchesPinned' /\ InvalidOnlyIfReplaced'
        /\ CompleteWhenOk'
    BY <1>0, GotFacts DEF Core, OneSnapshotOneTemplate, EarlierBatchesPinned,
       InvalidOnlyIfReplaced, CompleteWhenOk
  <1> QED
    BY <1>1, <1>2, <1>3, <1>4, <1>5, <1>6, <1>7 DEF Core

\* The run goes on from the position c, itself or through its successor.
LEMMA Iterates ==
    ASSUME TypeInv, Core, pc \notin {"start", "ended"}, end = "none",
           NEW c, NextIteration(c), GoodPosition(c), c.next \in Nat,
           cursor' = 0, UNCHANGED <<source, end, log, jobRows, faults>>,
           Len(log) = c.next, result = c.next,
           DOMAIN jobRows = 0..(c.next - 1),
           \A i \in DOMAIN jobRows : jobRows[i].attempts = 1,
           kind = "object" => \A i \in 1..Len(log) : log[i].snap \in c.version..object,
           kind = "salesforce" => \A i \in 1..Len(log) : log[i].snap = c.offset.job,
           kind = "salesforce" => c.offset.job # 0
    PROVE  Core'
  <1>0. /\ UNCHANGED <<kind, size, object, created>>
        /\ pc' \in {"loop", "start"} /\ pc' \notin {"open", "ended", "persist", "rows"}
        /\ ~Reading' /\ ~Delivering' /\ Live' /\ Carried' = c
    BY DEF NextIteration, ContinueAsNew, source, Reading, Delivering, Live, Carried
  <1>a. c.next + 0 = c.next /\ c.next + 0 + 0 = c.next
    OBVIOUS
  <1>1. PositionInv'
    <2>1. GoodPosition(Carried)'
      BY <1>0 DEF GoodPosition, OnPage, PageLen
    <2> QED
      BY <1>0, <2>1 DEF PositionInv
  <1>2. BatchInv' /\ EarlierBatchesPinned'
    BY <1>0 DEF BatchInv, EarlierBatchesPinned
  <1>3. LogInv'
    <2>1. pc' # "start" => result' = result
      BY DEF NextIteration, ContinueAsNew
    <2>2. Len(log') = Carried'.next + cursor' + (IF pc' = "persist" THEN 1 ELSE 0)
      BY <1>0, <1>a
    <2>3. RowsOnceInOrder'
      BY DEF Core, LogInv, RowsOnceInOrder
    <2> QED
      BY <1>0, <2>1, <2>2, <2>3 DEF LogInv
  <1>4. TemplateInv'
    <2>0. /\ template # 0 /\ input.template \in {0, template}
          /\ \A i \in 1..Len(log) : log[i].template = template
      BY DEF Core, TemplateInv
    <2>1. CASE pc' = "loop" /\ cp' = c /\ UNCHANGED <<run, input, result, template, paused>>
      BY <2>0, <2>1 DEF TemplateInv
    <2>2. CASE ContinueAsNew(c)
      <3>1. input'.template = template /\ pc' = "start"
        BY <2>0, <2>2 DEF ContinueAsNew
      <3> QED
        BY <2>0, <3>1 DEF TemplateInv
    <2> QED
      BY <2>1, <2>2 DEF NextIteration
  <1>5. CreatedInv'
    <2>1. created \in Nat /\ faults \in Nat /\ kind \in {"object", "salesforce"}
      BY Numbers
    <2>2. CASE kind = "object"
      <3>1. created' = 0 /\ 0 <= faults /\ 0 <= faults + 1
        BY <1>0, <2>1, <2>2 DEF Core, CreatedInv
      <3> QED
        BY <3>1 DEF CreatedInv
    <2>3. CASE kind = "salesforce"
      <3>1. created <= faults + 1
        BY <2>1 DEF Core, CreatedInv
      <3> QED
        BY <1>0, <2>3, <3>1 DEF CreatedInv
    <2> QED
      BY <2>1, <2>2, <2>3
  <1>6. JobRowsInv'
    BY <1>0, <1>a DEF JobRowsInv
  <1>7. OneSnapshotOneTemplate' /\ InvalidOnlyIfReplaced' /\ CompleteWhenOk'
    BY <1>0 DEF Core, OneSnapshotOneTemplate, InvalidOnlyIfReplaced, CompleteWhenOk
  <1> QED
    BY <1>1, <1>2, <1>3, <1>4, <1>5, <1>6, <1>7 DEF Core

\* A pending source: the position is kept, with the query job it waits for.
LEMMA CoreWaitPending ==
    ASSUME TypeInv, Core, WaitPending
    PROVE  Core'
  <1>0. /\ pc = "got" /\ batch.pending /\ cp \in Checkpoint /\ cp.next \in Nat
        /\ UNCHANGED <<source, end, log, jobRows, faults>> /\ cursor' = cursor
        /\ kind = "salesforce" /\ batch.rows = <<>> /\ Len(batch.rows) = 0
    BY GotFacts, Numbers DEF WaitPending
  <1> DEFINE c == [cp EXCEPT !.offset = batch.offset]
  <1>1. /\ c.next = cp.next /\ c.version = cp.version /\ c.counted = cp.counted
        /\ c.offset = batch.offset
    BY <1>0 DEF Checkpoint
  <1>2. NextIteration(c)
    BY DEF WaitPending
  <1> HIDE DEF c
  <1>3. cursor = 0 /\ Live /\ Carried = cp /\ pc # "persist" /\ ~Delivering
    BY <1>0, GotFacts DEF Core, PositionInv, Delivering
  <1>4. iter.idx = cp.next
    <2>1. Base = cp.next
      BY <1>0 DEF Base
    <2> QED
      BY <1>0, <2>1, GotFacts
  <1>5. /\ batch.offset.items = cp.next /\ batch.offset.job = iter.snap
        /\ OnPage(iter.snap, batch.offset.page, batch.offset.skip, cp.next)
    BY <1>0, <1>4, GotFacts DEF Resumes
  <1>6. /\ iter.snap \in 1..created /\ cp.offset.job \in {0, iter.snap} /\ iter.snap # 0
        /\ cp.counted = cp.next /\ (cp.offset.job = 0 => cp.next = 0)
    BY <1>0, GotFacts, Numbers DEF GoodIter, GoodPosition, NoOffset
  <1>7. GoodPosition(c)
    BY <1>0, <1>1, <1>5, <1>6 DEF GoodPosition
  <1>8. Len(log) = c.next /\ result = c.next
    <2>1. Len(log) = cp.next + 0 + 0 /\ result = Len(log)
      BY <1>0, <1>3 DEF Core, LogInv
    <2> QED
      BY <1>0, <1>1, <2>1
  <1>9. /\ DOMAIN jobRows = 0..(c.next - 1)
        /\ \A i \in DOMAIN jobRows : jobRows[i].attempts = 1
    <2>1. cp.next + 0 = cp.next
      BY <1>0
    <2> QED
      BY <1>1, <1>3, <2>1 DEF Core, JobRowsInv
  <1>10. \A i \in 1..Len(log) : log[i].snap = c.offset.job
    <2>1. \A i \in 1..Len(log) : log[i].snap = cp.offset.job
      BY <1>0, <1>3 DEF Core, LogInv
    <2>2. cp.offset.job = 0 => Len(log) = 0
      BY <1>1, <1>6, <1>8
    <2> QED
      BY <1>1, <1>5, <1>6, <2>1, <2>2
  <1>11. end = "none" /\ c.next \in Nat /\ cursor' = 0 /\ c.offset.job # 0
         /\ kind # "object" /\ pc \notin {"start", "ended"}
    BY <1>0, <1>1, <1>3, <1>5, <1>6, GotFacts
  <1> QED
    BY <1>0, <1>2, <1>7, <1>8, <1>9, <1>10, <1>11, Iterates

\* The position that a processed batch leaves is good.
LEMMA AdvancedGood ==
    ASSUME TypeInv, Core, pc = "rows", cursor = Len(batch.rows)
    PROVE  /\ GoodPosition(Advanced) /\ Advanced.next \in Nat
           /\ Advanced.next = iter.idx
           /\ Len(log) = Advanced.next /\ result = Advanced.next
           /\ DOMAIN jobRows = 0..(Advanced.next - 1)
           /\ \A i \in DOMAIN jobRows : jobRows[i].attempts = 1
           /\ kind = "object" => \A i \in 1..Len(log) : log[i].snap \in Advanced.version..object
           /\ kind = "salesforce" => /\ \A i \in 1..Len(log) : log[i].snap = Advanced.offset.job
                                     /\ Advanced.offset.job = iter.snap
                                     /\ Advanced.offset.job # 0
  <1>0. /\ Delivering /\ Live /\ Carried = cp /\ pc # "persist" /\ cp.next \in Nat
        /\ cursor \in Nat /\ result \in Nat /\ Len(log) \in Nat /\ iter.idx \in Nat
        /\ iter.version \in Nat /\ object \in Nat /\ iter.snap \in Nat /\ cp.version \in Nat
    BY GotFacts, Numbers DEF Delivering
  <1>1. /\ Advanced.next = batch.offset.items /\ Advanced.counted = result
        /\ Advanced.offset = batch.offset
        /\ Advanced.version = IF cp.version = 0 THEN iter.version ELSE cp.version
    BY GotFacts DEF Advanced
  <1>2. batch.offset.items = iter.idx /\ batch.offset.items = cp.next + cursor
    BY <1>0, GotFacts DEF Resumes, Continuous
  <1>3. Len(log) = cp.next + cursor /\ result = Len(log)
    <2>1. Len(log) = cp.next + cursor + 0 /\ result = Len(log)
      BY <1>0 DEF Core, LogInv
    <2> QED
      BY <1>0, <2>1
  <1>4. /\ Advanced.next = iter.idx /\ Advanced.next \in Nat
        /\ Len(log) = Advanced.next /\ result = Advanced.next
        /\ Advanced.next = cp.next + cursor
    BY <1>0, <1>1, <1>2, <1>3
  <1>5. /\ DOMAIN jobRows = 0..(Advanced.next - 1)
        /\ \A i \in DOMAIN jobRows : jobRows[i].attempts = 1
    BY <1>0, <1>4 DEF Core, JobRowsInv
  <1> HIDE DEF Advanced
  <1>6. CASE kind = "object"
    <2>1. /\ iter.snap \in iter.version..object /\ iter.version >= 1
          /\ cp.version \in {0, iter.version} /\ iter.idx <= size[iter.snap]
          /\ batch.offset = [NoOffset EXCEPT !.items = iter.idx]
      BY <1>6, GotFacts DEF GoodIter, Resumes
    <2>2. /\ Advanced.version <= object /\ Advanced.version # 0
          /\ Advanced.version = iter.version /\ Advanced.version \in Nat
      BY <1>0, <1>1, <2>1
    <2>3. object = 1 => Advanced.next <= size[1]
      <3>1. object = 1 => iter.snap = 1
        BY <1>0, <2>1
      <3> QED
        BY <1>4, <2>1, <3>1
    <2>4. GoodPosition(Advanced)
      BY <1>1, <1>4, <1>6, <2>1, <2>2, <2>3, Constants DEF GoodPosition
    <2>5. \A i \in 1..Len(log) : log[i].snap \in Advanced.version..object
      <3> SUFFICES ASSUME NEW i \in 1..Len(log)
                   PROVE  log[i].snap \in Advanced.version..object
        OBVIOUS
      <3>1. CASE cp.version = 0
        <4>1. cp.next = 0
          BY <1>6, <3>1, GotFacts DEF GoodPosition
        <4>2. i > cp.next
          BY <4>1
        <4>3. log[i].snap = iter.snap
          BY <1>0, <4>2 DEF Core, LogInv
        <4> QED
          BY <2>1, <2>2, <4>3
      <3>2. CASE cp.version # 0
        <4>1. log[i].snap \in cp.version..object
          BY <1>0, <1>6 DEF Core, LogInv
        <4> QED
          BY <2>1, <2>2, <3>2, <4>1
      <3> QED
        BY <3>1, <3>2
    <2> QED
      BY <1>4, <1>5, <1>6, <2>4, <2>5, Constants
  <1>7. CASE kind = "salesforce"
    <2>1. /\ batch.offset.job = iter.snap /\ iter.snap \in 1..created /\ iter.snap # 0
          /\ OnPage(iter.snap, batch.offset.page, batch.offset.skip, iter.idx)
      BY <1>7, GotFacts, Numbers DEF GoodIter, Resumes
    <2>2. GoodPosition(Advanced)
      BY <1>1, <1>4, <1>7, <2>1, Constants DEF GoodPosition
    <2>3. \A i \in 1..Len(log) : log[i].snap = iter.snap
      BY <1>0, <1>7 DEF Core, LogInv
    <2> QED
      BY <1>1, <1>4, <1>5, <1>7, <2>1, <2>2, <2>3, Constants
  <1> QED
    BY <1>6, <1>7, GotFacts

\* A processed batch: the run ends, hands over or goes on where it stands.
LEMMA CoreEndBatch ==
    ASSUME TypeInv, Core, EndBatch
    PROVE  Core'
  <1>0. /\ pc = "rows" /\ cursor = Len(batch.rows) /\ cursor' = 0
        /\ UNCHANGED <<source, log, jobRows, faults>>
        /\ UNCHANGED <<kind, size, object, created>> /\ end = "none"
    BY GotFacts DEF EndBatch, source
  <1>1. CASE ~batch.done
    <2>1. NextIteration(Advanced) /\ UNCHANGED end
      BY <1>1 DEF EndBatch
    <2>2. pc \notin {"start", "ended"}
      BY <1>0
    <2> HIDE DEF Advanced
    <2> QED
      BY <1>0, <2>1, <2>2, AdvancedGood, Iterates
  <1>2. CASE batch.done
    <2>0. /\ pc' = "ended" /\ end' = "ok" /\ cp' = Advanced
          /\ UNCHANGED <<run, input, result, template, paused>>
      BY <1>2 DEF EndBatch
    <2>a. Live' /\ ~Delivering' /\ ~Reading' /\ Carried' = Advanced
      BY <2>0 DEF Live, Delivering, Reading, Carried
    <2>b. Advanced.next + 0 = Advanced.next /\ Advanced.next + 0 + 0 = Advanced.next
      BY <1>0, AdvancedGood
    <2> HIDE DEF Advanced
    <2>1. PositionInv'
      <3>1. GoodPosition(Carried)'
        BY <1>0, <2>a, AdvancedGood DEF GoodPosition, OnPage, PageLen
      <3> QED
        BY <1>0, <2>0, <2>a, <3>1 DEF PositionInv
    <2>2. BatchInv' /\ EarlierBatchesPinned' /\ TemplateInv' /\ InvalidOnlyIfReplaced'
      BY <2>0, <2>a DEF BatchInv, EarlierBatchesPinned, TemplateInv, InvalidOnlyIfReplaced
    <2>3. LogInv'
      <3>1. Len(log') = Carried'.next + cursor' + (IF pc' = "persist" THEN 1 ELSE 0)
        BY <1>0, <2>0, <2>a, <2>b, AdvancedGood
      <3>2. RowsOnceInOrder'
        BY <1>0 DEF Core, LogInv, RowsOnceInOrder
      <3> QED
        BY <1>0, <2>0, <2>a, <3>1, <3>2, AdvancedGood DEF LogInv
    <2>4. CreatedInv'
      BY <1>0, <2>0 DEF Core, CreatedInv
    <2>5. JobRowsInv'
      <3>1. (Carried.next + cursor)' = Advanced.next
        BY <1>0, <2>a, <2>b
      <3> QED
        BY <1>0, <3>1, AdvancedGood DEF JobRowsInv
    <2>6. OneSnapshotOneTemplate'
      BY <1>0 DEF Core, OneSnapshotOneTemplate
    <2>7. CompleteWhenOk'
      <3>1. Advanced.next = size[iter.snap]
        BY <1>0, <1>2, AdvancedGood, GotFacts
      <3>2. CASE kind = "salesforce"
        <4>1. cp'.offset.job = iter.snap
          BY <1>0, <2>0, <3>2, AdvancedGood
        <4> QED
          BY <1>0, <2>0, <3>1, <3>2, <4>1, AdvancedGood DEF CompleteWhenOk
      <3>3. CASE kind = "object"
        <4>1. object = 1 => iter.snap = 1
          BY <1>0, <3>3, GotFacts, Numbers DEF GoodIter
        <4> QED
          BY <1>0, <2>0, <3>1, <3>3, <4>1, AdvancedGood, Constants DEF CompleteWhenOk
      <3> QED
        BY <1>0, <3>2, <3>3, GotFacts
    <2> QED
      BY <2>1, <2>2, <2>3, <2>4, <2>5, <2>6, <2>7 DEF Core
  <1> QED
    BY <1>1, <1>2

\* A position that this code wrote is refused only if the object was replaced.
LEMMA RefusedOnlyIfReplaced ==
    ASSUME TypeInv, Core, BadPosition
    PROVE  kind = "object" /\ object > 1
  <1>1. CASE pc = "start" /\ ~Valid(input.checkpoint)
    <2>1. GoodPosition(input.checkpoint)
      BY <1>1 DEF Core, PositionInv, Live, Carried
    <2>2. input.checkpoint.next \in Nat
      BY Numbers
    <2> QED
      BY <1>1, <2>1, <2>2 DEF GoodPosition, Valid
  <1>2. CASE pc = "open" /\ kind = "salesforce" /\ cp.offset.job = 0 /\ Progressed(cp.offset)
    <2>1. GoodPosition(cp)
      BY <1>2 DEF Core, PositionInv, Live, Carried
    <2>2. cp.offset = NoOffset
      BY <1>2, <2>1 DEF GoodPosition
    <2> QED
      BY <1>2, <2>2 DEF Progressed, NoOffset
  <1>3. CASE WantsRow /\ kind = "salesforce" /\ iter.ready /\ ~iter.loaded
             /\ iter.skip > PageLen(iter.snap, iter.page)
    <2>1. pc = "read" /\ iter.skip \in Nat /\ iter.page \in Nat
      BY <1>3, Numbers DEF WantsRow, Iterator
    <2>2. iter.skip <= PageLen(iter.snap, iter.page)
      BY <1>3, <2>1, ReadFacts DEF GoodIter, OnPage
    <2>3. PageLen(iter.snap, iter.page) \in 0..PageSize /\ PageSize \in Nat
      BY <2>1, ReadFacts, Numbers, Pages, Constants
    <2> QED
      BY <1>3, <2>1, <2>2, <2>3
  <1>4. CASE pc = "got" /\ ~batch.pending /\ ~Continuous
    <2> SUFFICES ASSUME ~(kind = "object" /\ object > 1)
                 PROVE  FALSE
      OBVIOUS
    <2>1. Base = cp.next
      <3>1. CASE kind = "object"
        <4>1. object = 1
          BY <3>1, Numbers
        <4>2. iter.snap = 1 /\ cp.next <= size[1] /\ size[1] \in Nat /\ cp.next \in Nat
          BY <1>4, <3>1, <4>1, GotFacts, Numbers DEF GoodIter, GoodPosition
        <4> QED
          BY <4>2 DEF Base
      <3>2. CASE kind # "object"
        BY <3>2 DEF Base
      <3> QED
        BY <3>1, <3>2
    <2>2. batch.rows # <<>> \/ batch.done
      BY <1>4, GotFacts
    <2>a. \A i \in 1..Len(batch.rows) :
             batch.rows[i] = [index |-> Base + i - 1, snap |-> iter.snap, pos |-> Base + i - 1]
      BY <1>4, GotFacts
    <2>3. ASSUME NEW i \in 1..Len(batch.rows)
          PROVE  batch.rows[i].index = cp.next + i - 1
      <3>1. batch.rows[i] = [index |-> cp.next + i - 1, snap |-> iter.snap,
                             pos |-> cp.next + i - 1]
        BY <2>1, <2>a
      <3> QED
        BY <3>1
    <2>4. batch.offset.items = cp.next + Len(batch.rows)
      BY <1>4, <2>1, GotFacts DEF Resumes
    <2> QED
      BY <1>4, <2>2, <2>3, <2>4 DEF Continuous
  <1> QED
    BY <1>1, <1>2, <1>3, <1>4 DEF BadPosition

\* The steps that stop the run with anything but success.
LEMMA CoreStop ==
    ASSUME TypeInv, Core,
           \/ StartRefused \/ SourceChanged \/ IngestFail \/ InvalidCheckpoint
           \/ PreprocessFail \/ PersistFail \/ Cancel
    PROVE  Core'
  <1>1. /\ pc' = "ended" /\ end' \notin {"none", "ok"}
        /\ UNCHANGED <<source, local, ingest, cursor, log, jobRows>>
        /\ faults' \in {faults, faults + 1}
    BY DEF StartRefused, SourceChanged, IngestFail, InvalidCheckpoint, PreprocessFail,
           PersistFail, Cancel, Stop
  <1>2. pc # "ended"
    BY DEF StartRefused, SourceChanged, IngestFail, InvalidCheckpoint, PreprocessFail,
           PersistFail, Cancel, BadPosition, WantsRow
  <1>3. end' = "invalid" => BadPosition
    BY DEF StartRefused, SourceChanged, IngestFail, InvalidCheckpoint, PreprocessFail,
           PersistFail, Cancel, Stop
  <1>4. end' = "invalid" => kind = "object" /\ object > 1
    BY <1>3, RefusedOnlyIfReplaced
  <1> QED
    BY <1>1, <1>2, <1>4, Stops

-----------------------------------------------------------------------------
(* The theorems. *)

\* The inductive invariant is its types and the rest.
LEMMA Parts == IInv <=> TypeInv /\ Core
  BY DEF IInv, Core, LogInv

\* The inductive invariant holds initially.
LEMMA IInvInit == Init => IInv
  BY TypeInit, CoreInit, Parts

\* Every step preserves the inductive invariant.
LEMMA IInvNext == IInv /\ [Next]_vars => IInv'
  <1> SUFFICES ASSUME IInv, [Next]_vars PROVE IInv'
    OBVIOUS
  <1>1. TypeInv /\ Core
    BY Parts
  <1>2. TypeInv'
    BY <1>1, TypeInvNext DEF Core
  <1>3. Core'
    BY <1>1, <1>2, CoreStart, CoreBegin, CoreOpen, CoreQuery, CoreFetch, CoreNextRow,
       CoreSourceDone, CoreWaitPending, CoreAccept, CoreDispatch, CorePersist, CoreEndBatch,
       CoreStop, CoreEnvironment
    DEF Next, WorkflowStep, Fault, Ended
  <1> QED
    BY <1>2, <1>3 DEF IInv, Core

\* The inductive invariant of a migration run, for every source, batch and page
\* size, chain of hand-overs and number of lost attempts.
THEOREM Invariance == Spec => []IInv
  BY IInvInit, IInvNext, PTL DEF Spec

\* Every variable keeps its type; no batch exceeds its size, and query jobs stay
\* within one more than the attempts that were lost.
THEOREM TypeCorrect == Spec => []TypeOK
  <1>1. IInv => TypeOK
    BY DEF IInv, TypeInv
  <1> QED
    BY <1>1, Invariance, PTL

\* MigrationWorkflow, the checkpoint and the connectors' offsets together neither
\* skip, repeat nor mislabel a row, whatever is lost, polled or handed over.
THEOREM RowsOnceInOrderHolds == Spec => []RowsOnceInOrder
  <1>1. IInv => RowsOnceInOrder
    BY DEF IInv, LogInv
  <1> QED
    BY <1>1, Invariance, PTL

\* A job reads one query job and one template version, although a lost Open may
\* create other query jobs and the template may move on between runs.
THEOREM OneSnapshotOneTemplateHolds == Spec => []OneSnapshotOneTemplate
  <1>1. IInv => OneSnapshotOneTemplate
    BY DEF IInv
  <1> QED
    BY <1>1, Invariance, PTL

\* A job that ends without error has one job_rows entry for every record of the
\* snapshot it read, each with one attempt.
THEOREM CompleteWhenOkHolds == Spec => []CompleteWhenOk
  <1>1. IInv => CompleteWhenOk
    BY DEF IInv
  <1> QED
    BY <1>1, Invariance, PTL

\* Once authorize has passed, all rows of earlier batches come from the version
\* the checkpoint pins, although authorize and the read are separate calls.
THEOREM EarlierBatchesPinnedHolds == Spec => []EarlierBatchesPinned
  <1>1. IInv => EarlierBatchesPinned
    BY DEF IInv
  <1> QED
    BY <1>1, Invariance, PTL

\* No checkpoint, offset or batch of this code's own making is refused as
\* InvalidCheckpoint, unless the object was replaced.
THEOREM InvalidOnlyIfReplacedHolds == Spec => []InvalidOnlyIfReplaced
  <1>1. IInv => InvalidOnlyIfReplaced
    BY DEF IInv
  <1> QED
    BY <1>1, Invariance, PTL

-----------------------------------------------------------------------------
(* The position over steps. *)

\* Position d goes on from position c.
Follows(c, d) ==
    /\ c.next <= d.next
    /\ c.version \in {0, d.version}
    /\ c.offset.job \in {0, d.offset.job}

\* The rows before the position of a run that did not fail are in job_rows.
Recorded == end \in {"none", "ok"} => 0..(Carried.next - 1) \subseteq DOMAIN jobRows

LEMMA RowsRecorded == IInv => Recorded
  <1> SUFFICES ASSUME IInv, end \in {"none", "ok"}
               PROVE  0..(Carried.next - 1) \subseteq DOMAIN jobRows
    BY DEF Recorded
  <1>0. TypeInv /\ Core
    BY Parts
  <1>1. Live
    BY <1>0 DEF Core, PositionInv, Live
  <1>2. Carried.next \in Nat /\ cursor \in Nat
    BY <1>0, Numbers DEF Carried
  <1>3. \/ DOMAIN jobRows = 0..(Carried.next + cursor - 1)
        \/ DOMAIN jobRows = 0..(Carried.next + cursor)
    BY <1>0, <1>1, <1>2 DEF Core, JobRowsInv
  <1> QED
    BY <1>2, <1>3

\* A batch goes on with the query job of the position it was read from.
LEMMA SameJob ==
    ASSUME TypeInv, Core, pc \in {"got", "rows", "persist"}
    PROVE  cp.offset.job \in {0, batch.offset.job}
  <1>1. CASE kind = "object"
    <2>1. cp.offset = [NoOffset EXCEPT !.items = cp.next]
      BY <1>1, GotFacts DEF GoodPosition
    <2> QED
      BY <2>1 DEF NoOffset
  <1>2. CASE kind = "salesforce"
    BY <1>2, GotFacts DEF GoodIter, Resumes
  <1> QED
    BY <1>1, <1>2, GotFacts

\* Each step keeps the position or goes on from it.
LEMMA PositionStep ==
    ASSUME TypeInv, Core, [Next]_vars, end' \in {"none", "ok"}
    PROVE  Follows(Carried, Carried')
  <1>0. cp.next \in Nat /\ input.checkpoint.next \in Nat /\ Carried.next \in Nat
    BY Numbers DEF Carried
  <1>1. CASE Carried' = Carried
    BY <1>0, <1>1 DEF Follows
  <1>2. CASE EndBatch
    <2>1. pc = "rows" /\ cursor = Len(batch.rows) /\ Carried = cp
      BY <1>2 DEF EndBatch, Carried
    <2>2. Carried' = Advanced
      BY <1>2 DEF EndBatch, NextIteration, ContinueAsNew, Carried
    <2>3. /\ Advanced.next = batch.offset.items /\ Advanced.offset = batch.offset
          /\ cp.version \in {0, Advanced.version}
      BY DEF Advanced
    <2>4. cp.next <= batch.offset.items
      <3>1. Delivering
        BY <2>1 DEF Delivering
      <3>2. batch.offset.items = cp.next + Len(batch.rows) /\ Len(batch.rows) \in Nat
        BY <2>1, <3>1, GotFacts, Numbers DEF Continuous
      <3> QED
        BY <1>0, <3>2
    <2>5. cp.offset.job \in {0, batch.offset.job}
      BY <2>1, SameJob
    <2> QED
      BY <2>1, <2>2, <2>3, <2>4, <2>5 DEF Follows
  <1>3. CASE WaitPending
    <2>1. pc = "got" /\ Carried = cp
      BY <1>3 DEF WaitPending, Carried
    <2>2. Carried' = [cp EXCEPT !.offset = batch.offset]
      BY <1>3 DEF WaitPending, NextIteration, ContinueAsNew, Carried
    <2>3. /\ Carried'.next = cp.next /\ Carried'.version = cp.version
          /\ Carried'.offset = batch.offset
      BY <2>2, Numbers DEF Checkpoint
    <2>4. cp.offset.job \in {0, batch.offset.job}
      BY <2>1, SameJob
    <2> QED
      BY <1>0, <2>1, <2>3, <2>4 DEF Follows
  <1>4. CASE ~EndBatch /\ ~WaitPending
    <2>1. CASE Start
      <3>1. Carried' = Carried
        BY <2>1 DEF Start, Carried
      <3> QED
        BY <1>1, <3>1
    <2>2. CASE ~Start
      <3>1. ~(\E why \in {"refused", "changed", "invalid", "error", "cancelled"} : Stop(why))
        BY DEF Stop
      <3>2. UNCHANGED <<input, cp>> /\ (pc' = "start" <=> pc = "start")
        <4>1. CASE Fault \/ StartRefused \/ Cancel \/ SourceChanged \/ InvalidCheckpoint
          BY <3>1, <4>1 DEF Fault, IngestRetry, IngestFail, PreprocessFail, PersistRetry,
             PersistFail, StartRefused, Cancel, SourceChanged, InvalidCheckpoint, local
        <4>2. CASE BeginIngest \/ Authorize \/ Open \/ AcceptBatch \/ DispatchRow \/ PersistRow
          BY <4>2 DEF BeginIngest, Authorize, Open, OpenObject, OpenSalesforce, AcceptBatch,
             DispatchRow, PersistRow, local
        <4>3. CASE QueryReady \/ QueryPending \/ FetchPage \/ NextRow \/ SourceDone \/ BatchFull
          BY <4>3 DEF QueryReady, QueryPending, FetchPage, NextRow, SourceDone, BatchFull,
             WantsRow, local
        <4>4. CASE \/ ReplaceObject \/ RegisterObject \/ CompleteQuery \/ PublishTemplate
                   \/ Signal \/ Ended \/ UNCHANGED vars
          BY <4>4 DEF ReplaceObject, RegisterObject, CompleteQuery, PublishTemplate, Signal,
             Ended, vars, local
        <4> QED
          BY <1>4, <2>2, <4>1, <4>2, <4>3, <4>4 DEF Next, WorkflowStep
      <3>3. Carried' = Carried
        BY <3>2 DEF Carried
      <3> QED
        BY <1>1, <3>3
    <2> QED
      BY <2>1, <2>2
  <1> QED
    BY <1>1, <1>2, <1>3, <1>4

\* The position that a chain of runs carries moves forward only, past recorded
\* rows only, and keeps the version and the query job it once named; this is
\* what lets continue-as-new and a redelivered Ingest start from it.
THEOREM PositionAdvancesHolds == Spec => PositionAdvances
  <1> DEFINE Moves == end' \in {"none", "ok"} =>
                         /\ Carried.next <= Carried'.next
                         /\ 0..(Carried'.next - 1) \subseteq DOMAIN jobRows'
                         /\ Carried.version \in {0, Carried'.version}
                         /\ Carried.offset.job \in {0, Carried'.offset.job}
  <1>1. IInv /\ Recorded' /\ [Next]_vars => [Moves]_vars
    <2> SUFFICES ASSUME IInv, Recorded', [Next]_vars, end' \in {"none", "ok"} PROVE Moves
      OBVIOUS
    <2>1. Follows(Carried, Carried')
      BY Parts, PositionStep
    <2> QED
      BY <2>1 DEF Follows, Recorded
  <1> QED
    BY <1>1, RowsRecorded, Invariance, PTL DEF Spec, PositionAdvances
=============================================================================
