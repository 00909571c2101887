--------------------------- MODULE BatchRunProofs ---------------------------
(***************************************************************************)
(* Proofs about module BatchRun: for any number of stages, any dependsOn   *)
(* relation, any number of executions of the workflow and any faults, the  *)
(* stages run in order, the outcome is the stages' and a stop stops.       *)
(***************************************************************************)
EXTENDS BatchRun, TLAPS, WellFoundedInduction

-----------------------------------------------------------------------------
(* The inductive invariant. *)

InFlight == wf.todo \cup wf.wave

\* A wave exists while it is launched and awaited; its stages are pending,
\* and a child that runs is one of them.
WaveInv ==
    /\ starter.who = "nobody" => wf.pc = "none" /\ starter.pc = "idle"
    /\ starter.pc = "start" => wf.pc \in {"none", "failed"}
    /\ wf.pc \notin {"launch", "failed"} => InFlight = {}
    /\ wf.todo \cap wf.wave = {}
    /\ wf.pc # "failed" => \A s \in InFlight : wf.status[s] = "pending"
    /\ \A s \in wf.dup : child[s] \in {"ok", "flawed"}
    /\ \A s \in Stage : child[s] = "running" => wf.pc = "launch" /\ s \in wf.wave

\* The workflow's notes, the rows and the children agree.
StatusInv ==
    /\ \A s \in Stage :
          /\ wf.status[s] = "succeeded" => stage[s] = "succeeded"
          /\ wf.status[s] \in {"failed", "skipped"} => stage[s] = "failed"
          /\ stage[s] = "succeeded" => child[s] = "ok"
    /\ wf.pc = "finalize" => Pending = {}
    /\ batch = "succeeded" => \A s \in Stage : child[s] = "ok"

\* A wave holds stages whose turn it is.
TurnInv ==
    wf.pc = "launch" =>
        \A s \in InFlight :
            IF UsesDependsOn
            THEN \A d \in manifest.depends[s] : wf.status[d] = "succeeded"
            ELSE \A d \in 1 .. s - 1 : wf.status[d] # "pending"

\* A failed stage that stops the batch is remembered.
StopInv == \A s \in manifest.stop : wf.status[s] = "failed" => wf.stop

\* What only a second execution, or a lost answer to the API's start, can
\* upset: a stage that has not succeeded has not migrated everything, and an
\* outcome other than succeeded is that of a stage.
FirstInv ==
    /\ wf.runs = 0 => wf.pc = "none" /\ \A s \in Stage : child[s] = "none"
    /\ starter.pc = "fail" => starter.who = "api" /\ faults > 0
    /\ wf.pc \in {"begin", "unpack", "materialize", "quarantine"} =>
          \A s \in Stage : wf.status[s] = "pending"
    /\ wf.runs <= 1 =>
          /\ wf.dup = {}
          /\ \A s \in Stage : wf.status[s] = "pending" /\ s \notin wf.wave => child[s] = "none"
          /\ \A s \in Stage : wf.status[s] \in {"failed", "skipped"} => child[s] # "ok"
    /\ batch \in {"partial", "failed", "quarantined"} =>
          \/ wf.runs > 1
          \/ starter.who = "api" /\ faults > 0
          \/ wf.pc = "done" /\ \E s \in Stage : child[s] # "ok"

IInv == TypeOK /\ WaveInv /\ StatusInv /\ TurnInv /\ StopInv /\ FirstInv

-----------------------------------------------------------------------------

\* Every non-empty set of naturals has a least element.
LEMMA LeastNat ==
    ASSUME NEW S \in SUBSET Nat, S # {}
    PROVE  \E x \in S : \A y \in S : x <= y
  <1>1. PICK x \in S : \A y \in S : ~ (<<y, x>> \in OpToRel(<, Nat))
    BY NatLessThanWellFounded, WFMin, Zenon
  <1>2. \A y \in S : ~ (y < x)
    BY <1>1, Zenon DEF OpToRel
  <1> QED
    BY <1>2

\* The next stage in manifest order exists.
LEMMA MinStage ==
    ASSUME NEW S \in SUBSET Stage, S # {}
    PROVE  Min(S) \in S /\ \A y \in S : Min(S) <= y
  <1>1. S \in SUBSET Nat
    BY BatchAssumption DEF Stage
  <1>2. \E x \in S : \A y \in S : x <= y
    BY <1>1, LeastNat
  <1> QED
    BY <1>2 DEF Min

Wf == [pc : {"none", "begin", "unpack", "materialize", "quarantine", "skip", "launch",
             "finalize", "done", "failed"},
       at : 1 .. N + 1, status : [Stage -> {"pending", "succeeded", "failed", "skipped"}],
       stop : BOOLEAN, todo : SUBSET Stage, wave : SUBSET Stage,
       dup : SUBSET Stage, runs : 0 .. MaxRuns]

\* A new execution of the workflow starts from nothing.
LEMMA StartedFresh ==
    ASSUME TypeOK, wf.runs < MaxRuns
    PROVE  /\ Started(wf) \in Wf
           /\ Started(wf).pc = "begin" /\ Started(wf).todo = {} /\ Started(wf).wave = {}
           /\ Started(wf).dup = {} /\ Started(wf).runs = wf.runs + 1
           /\ \A s \in Stage : Started(wf).status[s] = "pending"
  <1>1. Fresh \in [pc : {"none"}, at : {1}, status : [Stage -> {"pending"}], stop : {FALSE},
                   todo : {{}}, wave : {{}}, dup : {{}}, runs : {0}]
    BY DEF Fresh
  <1>2. PICK n \in 0 .. MaxRuns : n = wf.runs + 1
    BY BatchAssumption DEF TypeOK
  <1>3. Started(wf) \in [pc : {"begin"}, at : {1}, status : [Stage -> {"pending"}], stop : {FALSE},
                         todo : {{}}, wave : {{}}, dup : {{}}, runs : {n}]
    BY <1>1, <1>2 DEF Started
  <1>4. Started(wf) \in Wf
    <2>1. 1 \in 1 .. N + 1 /\ n \in 0 .. MaxRuns
      BY BatchAssumption
    <2> QED
      BY <1>3, <2>1 DEF Wf
  <1> QED
    BY <1>2, <1>3, <1>4

\* The invariant holds before the batch is created.
LEMMA IInvInit == Init => IInv
  <1> SUFFICES ASSUME Init PROVE IInv
    OBVIOUS
  <1>1. TypeOK
    BY BatchAssumption DEF Init, TypeOK, Fresh
  <1> QED
    BY <1>1 DEF Init, IInv, Fresh, WaveInv, StatusInv, TurnInv, StopInv, FirstInv, InFlight, Pending, TypeOK

\* create_batch, start_workflow and its failures, mark_started, StartBatch.
LEMMA StarterSteps ==
    ASSUME IInv
    PROVE  /\ \A who \in {"api", "watch"} : create_batch(who) => IInv'
           /\ start_workflow => IInv'
           /\ start_workflow_error => IInv'
           /\ mark_started => IInv'
           /\ StartBatch => IInv'
  <1>0. TypeOK /\ WaveInv /\ StatusInv /\ TurnInv /\ StopInv /\ FirstInv /\ wf \in Wf
    BY DEF IInv, TypeOK, Wf
  <1>1. ASSUME UNCHANGED <<manifest, stage, child, wf>>,
               batch' \in {batch, "pending", "running", "failed"},
               starter' \in [who : {"api", "watch"}, pc : {"start", "mark", "fail", "done"}],
               faults' \in 0 .. MaxFaults, faults' >= faults,
               starter.who = "api" => starter'.who = "api",
               starter'.pc = "start" => wf.pc \in {"none", "failed"},
               starter'.pc = "fail" => starter'.who = "api" /\ faults' > 0,
               batch' = "failed" => batch = "failed" \/ (starter'.who = "api" /\ faults' > 0)
        PROVE  IInv'
    <2>1. TypeOK'
      BY <1>0, <1>1 DEF TypeOK, Ended
    <2>2. WaveInv' /\ StatusInv'
      BY <1>0, <1>1 DEF WaveInv, StatusInv, InFlight, Pending
    <2>3. TurnInv' /\ StopInv'
      BY <1>0, <1>1 DEF TurnInv, StopInv, InFlight, UsesDependsOn
    <2>4. FirstInv'
      BY <1>0, <1>1, BatchAssumption DEF FirstInv, TypeOK
    <2> QED
      BY <2>1, <2>2, <2>3, <2>4 DEF IInv
  <1>2. ASSUME starter.pc = "start", wf.runs < MaxRuns, wf' = Started(wf),
               UNCHANGED <<manifest, batch, stage, child>>,
               starter' \in [who : {"api", "watch"}, pc : {"mark", "fail", "done"}],
               starter'.who = starter.who,
               starter'.pc = "fail" => starter'.who = "api" /\ faults' > 0,
               faults' \in 0 .. MaxFaults, faults' >= faults
        PROVE  IInv'
    <2>1. /\ wf' \in Wf /\ wf'.pc = "begin" /\ wf'.todo = {} /\ wf'.wave = {}
          /\ wf'.dup = {} /\ wf'.runs = wf.runs + 1 /\ \A s \in Stage : wf'.status[s] = "pending"
      BY <1>0, <1>2, StartedFresh
    <2>2. TypeOK'
      BY <1>0, <1>2, <2>1 DEF TypeOK, Wf
    <2>3. WaveInv'
      BY <1>0, <1>2, <2>1 DEF WaveInv, InFlight
    <2>4. StatusInv'
      BY <1>0, <1>2, <2>1 DEF StatusInv
    <2>5. TurnInv' /\ StopInv'
      BY <1>0, <1>2, <2>1 DEF TurnInv, StopInv, TypeOK
    <2>6. FirstInv'
      <3>1. wf.runs \in Nat /\ (wf.runs <= 0 => wf.runs = 0) /\ wf'.runs = wf.runs + 1
        BY <1>0, <2>1, BatchAssumption DEF TypeOK
      <3>2. wf'.runs <= 1 => wf.runs = 0 /\ \A s \in Stage : child[s] = "none"
        BY <1>0, <3>1 DEF FirstInv
      <3>3. batch \in {"partial", "failed", "quarantined"} =>
               wf'.runs > 1 \/ (starter.who = "api" /\ faults > 0)
        BY <1>0, <1>2, <3>1 DEF FirstInv, WaveInv
      <3>4. wf'.runs # 0 /\ (starter.who = "api" /\ faults > 0 => starter'.who = "api" /\ faults' > 0)
        BY <1>0, <1>2, <3>1, BatchAssumption DEF TypeOK
      <3> QED
        BY <1>0, <1>2, <2>1, <3>2, <3>3, <3>4 DEF FirstInv
    <2> QED
      BY <2>2, <2>3, <2>4, <2>5, <2>6 DEF IInv
  <1>3. ASSUME NEW who \in {"api", "watch"}, create_batch(who) PROVE IInv'
    BY <1>0, <1>1, <1>3, BatchAssumption DEF create_batch, WaveInv, TypeOK
  <1>4. starter.pc # "idle" => starter.who \in {"api", "watch"}
    BY <1>0 DEF TypeOK, WaveInv
  <1>5. ASSUME start_workflow PROVE IInv'
    BY <1>0, <1>2, <1>4, <1>5, BatchAssumption DEF start_workflow, TypeOK
  <1>6. ASSUME start_workflow_error PROVE IInv'
    <2>0. /\ starter' \in [who : {"api", "watch"}, pc : {"fail", "done"}]
          /\ faults' \in 0 .. MaxFaults /\ faults' >= faults /\ faults' > 0
          /\ starter'.who = starter.who /\ (starter'.pc = "fail" => starter'.who = "api")
      BY <1>0, <1>4, <1>6, BatchAssumption DEF start_workflow_error, TypeOK, Fault
    <2>1. CASE wf' = wf
      BY <1>0, <1>1, <1>6, <2>0, <2>1 DEF start_workflow_error, WaveInv
    <2>2. CASE wf' = Started(wf)
      BY <1>2, <1>6, <2>0, <2>2 DEF start_workflow_error
    <2> QED
      BY <1>6, <2>1, <2>2 DEF start_workflow_error
  <1>7. ASSUME mark_started PROVE IInv'
    BY <1>0, <1>1, <1>4, <1>7, BatchAssumption DEF mark_started, TypeOK, WaveInv, FirstInv
  <1>8. ASSUME StartBatch PROVE IInv'
    BY <1>0, <1>1, <1>4, <1>8, BatchAssumption DEF StartBatch, TypeOK, WaveInv
  <1> QED
    BY <1>3, <1>5, <1>6, <1>7, <1>8

\* MarkBatchRunning, UnpackAndStageArchive, MaterializeBatchStages,
\* QuarantineArchive, FinalizeBatch.
LEMMA OuterSteps ==
    ASSUME IInv
    PROVE  /\ MarkBatchRunning => IInv'
           /\ UnpackAndStageArchive => IInv'
           /\ MaterializeBatchStages => IInv'
           /\ QuarantineArchive => IInv'
           /\ FinalizeBatch => IInv'
  <1>0. TypeOK /\ WaveInv /\ StatusInv /\ TurnInv /\ StopInv /\ FirstInv /\ wf \in Wf
    BY DEF IInv, TypeOK, Wf
  <1>1. ASSUME NEW from \in {"begin", "unpack", "materialize", "quarantine", "finalize"},
               NEW to \in {"unpack", "materialize", "quarantine", "skip", "done"},
               Step(from, to), UNCHANGED <<manifest, child, starter, faults>>,
               stage' \in [Stage -> {"none", "pending", "running", "succeeded", "failed"}],
               \A s \in Stage : stage'[s] # stage[s] => stage[s] = "none" /\ stage'[s] = "pending",
               batch' \in {batch, "running", "quarantined", "partial", "failed", "succeeded"},
               batch' = "succeeded" => batch = "succeeded" \/ \A s \in Stage : wf.status[s] = "succeeded",
               batch' \in {"partial", "failed", "quarantined"} =>
                  \/ batch' = batch
                  \/ to = "done" /\ \E s \in Stage : wf.status[s] # "succeeded",
               to = "skip" \/ to = "done" \/ from \in {"begin", "unpack", "materialize"}
        PROVE  IInv'
    <2>1. /\ wf.pc = from /\ wf' \in Wf /\ wf'.pc = to
          /\ wf'.todo = wf.todo /\ wf'.wave = wf.wave /\ wf'.dup = wf.dup
          /\ wf'.status = wf.status /\ wf'.stop = wf.stop /\ wf'.runs = wf.runs
      BY <1>0, <1>1 DEF Step, Wf
    <2>2. TypeOK'
      BY <1>0, <1>1, <2>1 DEF TypeOK, Wf, Ended
    <2>3. WaveInv'
      BY <1>0, <1>1, <2>1 DEF WaveInv, InFlight
    <2>4. StatusInv'
      BY <1>0, <1>1, <2>1 DEF StatusInv, TypeOK
    <2>5. TurnInv'
      BY <1>1, <2>1 DEF TurnInv
    <2>6. StopInv'
      BY <1>0, <1>1, <2>1 DEF StopInv
    <2>7. FirstInv'
      <3>1. wf.wave = {} /\ wf.pc # "done" /\ wf.runs \in Nat
        BY <1>0, <1>1, <2>1, BatchAssumption DEF WaveInv, InFlight, TypeOK
      <3>2. wf.runs <= 1 => \A s \in Stage : wf.status[s] # "succeeded" => child[s] # "ok"
        BY <1>0, <3>1 DEF FirstInv, TypeOK
      <3>3. ~(wf.runs <= 1) => wf.runs > 1
        BY <3>1
      <3> QED
        BY <1>0, <1>1, <2>1, <3>1, <3>2, <3>3 DEF FirstInv
    <2> QED
      BY <2>2, <2>3, <2>4, <2>5, <2>6, <2>7 DEF IInv
  <1>2. ASSUME MarkBatchRunning PROVE IInv'
    BY <1>0, <1>1, <1>2 DEF MarkBatchRunning, TypeOK
  <1>3. ASSUME UnpackAndStageArchive PROVE IInv'
    BY <1>0, <1>1, <1>3 DEF UnpackAndStageArchive, TypeOK
  <1>4. ASSUME MaterializeBatchStages PROVE IInv'
    BY <1>0, <1>1, <1>4 DEF MaterializeBatchStages, TypeOK
  <1>5. ASSUME QuarantineArchive PROVE IInv'
    <2>1. 1 \in Stage /\ wf.pc = "quarantine"
      BY <1>5, BatchAssumption DEF Stage, QuarantineArchive, Step
    <2>2. \E s \in Stage : wf.status[s] # "succeeded"
      BY <1>0, <2>1 DEF FirstInv
    <2> QED
      BY <1>0, <1>1, <1>5, <2>2 DEF QuarantineArchive, TypeOK
  <1>6. ASSUME FinalizeBatch PROVE IInv'
    <2>1. Outcome(wf) \in {"succeeded", "partial", "failed"}
      BY DEF Outcome
    <2>2. Outcome(wf) = "succeeded" <=> \A s \in Stage : wf.status[s] = "succeeded"
      BY DEF Outcome
    <2> QED
      BY <1>0, <1>1, <1>6, <2>1, <2>2 DEF FinalizeBatch, TypeOK
  <1> QED
    BY <1>2, <1>3, <1>4, <1>5, <1>6

\* skipStage, NextWave, WaveDone.
LEMMA PassSteps ==
    ASSUME IInv
    PROVE  (skipStage => IInv') /\ (NextWave => IInv') /\ (WaveDone => IInv')
  <1>0. TypeOK /\ WaveInv /\ StatusInv /\ TurnInv /\ StopInv /\ FirstInv /\ wf \in Wf
    BY DEF IInv, TypeOK, Wf
  <1>1. ASSUME skipStage PROVE IInv'
    <2> DEFINE s == wf.at
               skip == s \in Pending /\ (wf.stop \/ DepsBlocking(s))
    <2>1. /\ wf.pc = "skip" /\ s \in Stage
          /\ wf' \in Wf /\ wf'.pc = "skip"
          /\ wf'.todo = wf.todo /\ wf'.wave = wf.wave /\ wf'.dup = wf.dup
          /\ wf'.stop = wf.stop /\ wf'.runs = wf.runs
          /\ \A t \in Stage : wf'.status[t] = IF t = s /\ skip THEN "skipped" ELSE wf.status[t]
          /\ stage' \in [Stage -> {"none", "pending", "running", "succeeded", "failed"}]
          /\ \A t \in Stage : stage'[t] = IF t = s /\ skip THEN "failed" ELSE stage[t]
          /\ UNCHANGED <<manifest, batch, child, starter, faults>>
      <3>1. /\ wf.pc = "skip" /\ wf.at <= N
            /\ wf' = [wf EXCEPT !.at = @ + 1, !.status = [wf.status EXCEPT ![s] = IF skip THEN "skipped" ELSE @]]
            /\ stage' = IF skip THEN [stage EXCEPT ![s] = "failed"] ELSE stage
            /\ UNCHANGED <<manifest, batch, child, starter, faults>>
        BY <1>1 DEF skipStage
      <3>2. s \in Stage /\ s + 1 \in 1 .. N + 1
        BY <1>0, <3>1, BatchAssumption DEF Wf, Stage
      <3> HIDE DEF skip
      <3>3. [wf.status EXCEPT ![s] = IF skip THEN "skipped" ELSE @]
               \in [Stage -> {"pending", "succeeded", "failed", "skipped"}]
        BY <1>0, <3>2 DEF Wf
      <3>4. wf' \in Wf
        BY <1>0, <3>1, <3>2, <3>3 DEF Wf
      <3> QED
        BY <1>0, <3>1, <3>2, <3>4 DEF Wf, TypeOK
    <2>2. skip => wf.status[s] = "pending"
      BY DEF Pending
    <2> HIDE DEF skip, s
    <2>3. TypeOK'
      BY <1>0, <2>1 DEF TypeOK, Wf
    <2>4. WaveInv'
      BY <1>0, <2>1 DEF WaveInv, InFlight
    <2>5. StatusInv'
      BY <1>0, <2>1, <2>2 DEF StatusInv
    <2>6. TurnInv'
      BY <2>1 DEF TurnInv
    <2>7. StopInv'
      BY <1>0, <2>1, <2>2 DEF StopInv, TypeOK
    <2>8. FirstInv'
      <3>1. wf.wave = {}
        BY <1>0, <2>1 DEF WaveInv, InFlight
      <3> QED
        BY <1>0, <2>1, <2>2, <3>1 DEF FirstInv, TypeOK
    <2> QED
      BY <2>3, <2>4, <2>5, <2>6, <2>7, <2>8 DEF IInv
  <1>2. ASSUME NextWave PROVE IInv'
    <2> DEFINE ready == IF Pending = {} THEN {} ELSE ReadyStageIDs
    <2>0. wf.pc = "skip" /\ UNCHANGED <<manifest, batch, child, starter, faults>>
      BY <1>2 DEF NextWave
    <2>1. InFlight = {}
      BY <1>0, <2>0 DEF WaveInv
    <2>2. CASE ready # {}
      <3>1. /\ wf' = [wf EXCEPT !.pc = "launch", !.todo = ready, !.at = 1]
            /\ UNCHANGED stage /\ Pending # {}
        BY <1>2, <2>2 DEF NextWave
      <3>2. /\ ready \subseteq Pending
            /\ UsesDependsOn => \A s \in ready : \A d \in manifest.depends[s] : wf.status[d] = "succeeded"
            /\ ~UsesDependsOn => \A s \in ready : \A d \in Pending : s <= d
        BY <3>1, MinStage DEF ReadyStageIDs, Pending
      <3> HIDE DEF ready
      <3>3. ready \subseteq Stage /\ Pending \subseteq Stage /\ 1 \in 1 .. N + 1
        BY <3>2, BatchAssumption DEF Pending
      <3>4. /\ wf' \in Wf /\ wf'.pc = "launch" /\ wf'.todo = ready /\ wf'.wave = {}
            /\ wf'.dup = wf.dup /\ wf'.status = wf.status /\ wf'.stop = wf.stop /\ wf'.runs = wf.runs
        BY <1>0, <2>1, <3>1, <3>3 DEF Wf, InFlight
      <3>5. TypeOK'
        BY <1>0, <2>0, <3>1, <3>4 DEF TypeOK, Wf
      <3>6. WaveInv'
        BY <1>0, <2>0, <3>1, <3>2, <3>4 DEF WaveInv, InFlight, Pending
      <3>7. StatusInv'
        BY <1>0, <2>0, <3>1, <3>4 DEF StatusInv
      <3>8. TurnInv'
        <4>1. UsesDependsOn' = UsesDependsOn
          BY <2>0 DEF UsesDependsOn
        <4>2. CASE UsesDependsOn
          BY <2>0, <3>2, <3>4, <4>1, <4>2 DEF TurnInv, InFlight
        <4>3. CASE ~UsesDependsOn
          <5>1. \A s \in ready : \A d \in 1 .. s - 1 : wf.status[d] # "pending"
            BY <3>2, <3>3, <4>3, BatchAssumption DEF Pending, Stage
          <5> QED
            BY <3>4, <4>1, <4>3, <5>1 DEF TurnInv, InFlight
        <4> QED
          BY <4>2, <4>3
      <3>9. StopInv'
        BY <1>0, <2>0, <3>4 DEF StopInv
      <3>10. FirstInv'
        BY <1>0, <2>0, <2>1, <3>4 DEF FirstInv, InFlight
      <3> QED
        BY <3>5, <3>6, <3>7, <3>8, <3>9, <3>10 DEF IInv
    <2>3. CASE ready = {}
      <3>1. /\ wf' = [wf EXCEPT !.pc = "finalize",
                          !.status = [s \in Stage |-> IF s \in Pending THEN "skipped" ELSE wf.status[s]]]
            /\ stage' = [s \in Stage |-> IF s \in Pending THEN "failed" ELSE stage[s]]
        BY <1>2, <2>3 DEF NextWave
      <3>2. /\ wf' \in Wf /\ wf'.pc = "finalize" /\ wf'.todo = {} /\ wf'.wave = {}
            /\ wf'.dup = wf.dup /\ wf'.stop = wf.stop /\ wf'.runs = wf.runs
            /\ \A s \in Stage : wf'.status[s] = IF s \in Pending THEN "skipped" ELSE wf.status[s]
        BY <1>0, <2>1, <3>1 DEF Wf, InFlight
      <3>3. TypeOK'
        BY <1>0, <2>0, <3>1, <3>2 DEF TypeOK, Wf
      <3>4. WaveInv'
        BY <1>0, <2>0, <3>2 DEF WaveInv, InFlight
      <3>5. StatusInv'
        BY <1>0, <2>0, <3>1, <3>2 DEF StatusInv, Pending
      <3>6. TurnInv'
        BY <3>2 DEF TurnInv
      <3>7. StopInv'
        BY <1>0, <2>0, <3>2 DEF StopInv, TypeOK
      <3>8. FirstInv'
        BY <1>0, <2>0, <2>1, <3>2 DEF FirstInv, InFlight, Pending
      <3> QED
        BY <3>3, <3>4, <3>5, <3>6, <3>7, <3>8 DEF IInv
    <2> QED
      BY <2>2, <2>3
  <1>3. ASSUME WaveDone PROVE IInv'
    <2>1. /\ wf.todo = {} /\ wf.wave = {}
          /\ wf' = [wf EXCEPT !.pc = IF Pending = {} THEN "finalize" ELSE "skip", !.at = 1]
          /\ UNCHANGED <<manifest, batch, stage, child, starter, faults>>
      BY <1>3 DEF WaveDone
    <2>2. 1 \in 1 .. N + 1
      BY BatchAssumption
    <2>3. /\ wf' \in Wf /\ wf'.pc = (IF Pending = {} THEN "finalize" ELSE "skip")
          /\ wf'.todo = {} /\ wf'.wave = {} /\ wf'.dup = wf.dup
          /\ wf'.status = wf.status /\ wf'.stop = wf.stop /\ wf'.runs = wf.runs
      BY <1>0, <2>1, <2>2 DEF Wf
    <2>4. TypeOK'
      BY <1>0, <2>1, <2>3 DEF TypeOK, Wf
    <2>5. WaveInv'
      BY <1>0, <1>3, <2>1, <2>3 DEF WaveDone, WaveInv, InFlight
    <2>6. StatusInv'
      BY <1>0, <2>1, <2>3 DEF StatusInv, Pending
    <2>7. TurnInv' /\ StopInv'
      BY <1>0, <2>1, <2>3 DEF TurnInv, StopInv
    <2>8. FirstInv'
      <3>1. wf.pc = "launch"
        BY <1>3 DEF WaveDone
      <3> QED
        BY <1>0, <2>1, <2>3, <3>1 DEF FirstInv
    <2> QED
      BY <2>4, <2>5, <2>6, <2>7, <2>8 DEF IInv
  <1> QED
    BY <1>1, <1>2, <1>3

\* Where a stage of the wave ends: only it changes, in the notes and in its
\* row, and it leaves the wave.
LEMMA StageEnds ==
    ASSUME IInv, wf.pc = "launch", NEW s \in InFlight, child[s] # "running",
           NEW status \in {"succeeded", "failed", "skipped"},
           status = "succeeded" => child[s] = "ok",
           status # "succeeded" /\ wf.runs <= 1 => child[s] # "ok",
           wf'.runs = wf.runs, wf' \in Wf, wf'.pc = "launch", wf'.todo = wf.todo \ {s}, wf'.wave = wf.wave \ {s},
           wf'.dup = wf.dup, wf.stop => wf'.stop,
           status = "failed" /\ s \in manifest.stop => wf'.stop,
           \A t \in Stage : wf'.status[t] = IF t = s THEN status ELSE wf.status[t],
           stage' = [stage EXCEPT ![s] = IF status = "succeeded" THEN "succeeded" ELSE "failed"],
           UNCHANGED <<manifest, batch, child, starter>>, faults' \in 0 .. MaxFaults, faults' >= faults
    PROVE  IInv'
  <1>0. TypeOK /\ WaveInv /\ StatusInv /\ TurnInv /\ StopInv /\ FirstInv /\ wf \in Wf
    BY DEF IInv, TypeOK, Wf
  <1>1. s \in Stage /\ wf.status[s] = "pending" /\ wf.todo \subseteq Stage /\ wf.wave \subseteq Stage
    BY <1>0 DEF Wf, InFlight, WaveInv
  <1>2. TypeOK'
    BY <1>0, <1>1 DEF TypeOK, Wf
  <1>3. WaveInv'
    BY <1>0, <1>1 DEF WaveInv, InFlight
  <1>4. StatusInv'
    BY <1>0, <1>1 DEF StatusInv, TypeOK
  <1>5. TurnInv'
    <2>1. UsesDependsOn' = UsesDependsOn
      BY DEF UsesDependsOn
    <2>2. InFlight' \subseteq InFlight /\ InFlight \subseteq Stage
      BY <1>1 DEF InFlight
    <2>3. CASE UsesDependsOn
      <3>1. \A t \in Stage : manifest.depends[t] \subseteq Stage
        BY <1>0 DEF TypeOK
      <3> QED
        BY <1>0, <1>1, <2>1, <2>2, <2>3, <3>1 DEF TurnInv
    <2>4. CASE ~UsesDependsOn
      <3>1. \A t \in Stage : 1 .. t - 1 \subseteq Stage
        BY BatchAssumption DEF Stage
      <3> QED
        BY <1>0, <1>1, <2>1, <2>2, <2>4, <3>1 DEF TurnInv
    <2> QED
      BY <2>3, <2>4
  <1>6. StopInv'
    BY <1>0, <1>1 DEF StopInv, TypeOK
  <1>7. FirstInv'
    <2>1. starter.who = "api" /\ faults > 0 => starter'.who = "api" /\ faults' > 0
      BY <1>0, BatchAssumption DEF TypeOK
    <2> QED
      BY <1>0, <1>1, <2>1 DEF FirstInv
  <1> QED
    BY <1>2, <1>3, <1>4, <1>5, <1>6, <1>7 DEF IInv

\* FailStage is such an end.
LEMMA FailStageEnds ==
    ASSUME IInv, wf.pc = "launch", NEW s \in InFlight, child[s] # "running", FailStage(s),
           wf.runs <= 1 => child[s] # "ok",
           UNCHANGED <<manifest, batch, child, starter>>, faults' \in 0 .. MaxFaults, faults' >= faults
    PROVE  IInv'
  <1>0. TypeOK /\ wf \in Wf
    BY DEF IInv, TypeOK, Wf
  <1>1. s \in Stage
    BY <1>0 DEF Wf, InFlight
  <1>2. /\ stage' = [stage EXCEPT ![s] = "failed"]
        /\ wf' = [wf EXCEPT !.status = [wf.status EXCEPT ![s] = "failed"], !.stop = Stops(s),
                            !.todo = @ \ {s}, !.wave = @ \ {s}]
    BY DEF FailStage
  <1>3. PICK b \in BOOLEAN : b = Stops(s) /\ (wf.stop => b) /\ (s \in manifest.stop => b)
    BY DEF Stops
  <1>4. /\ wf' \in Wf /\ wf'.pc = "launch" /\ wf'.todo = wf.todo \ {s} /\ wf'.wave = wf.wave \ {s}
        /\ wf'.dup = wf.dup /\ wf'.stop = b /\ wf'.runs = wf.runs
        /\ \A t \in Stage : wf'.status[t] = IF t = s THEN "failed" ELSE wf.status[t]
    BY <1>0, <1>1, <1>2, <1>3 DEF Wf
  <1> QED
    BY <1>1, <1>2, <1>3, <1>4, StageEnds

\* StartBatchStageJob, FinalizeBatchStage.
LEMMA WaveSteps ==
    ASSUME IInv
    PROVE  (StartBatchStageJob => IInv') /\ (FinalizeBatchStage => IInv')
  <1>0. TypeOK /\ WaveInv /\ StatusInv /\ TurnInv /\ StopInv /\ FirstInv /\ wf \in Wf
    BY DEF IInv, TypeOK, Wf
  <1>1. ASSUME StartBatchStageJob PROVE IInv'
    <2>1. /\ wf.pc = "launch" /\ wf.todo # {} /\ wf.todo \in SUBSET Stage
          /\ UNCHANGED <<manifest, batch, starter>>
      BY <1>0, <1>1 DEF StartBatchStageJob, Wf
    <2>2. PICK s \in Stage : s = Min(wf.todo) /\ s \in wf.todo
      BY <2>1, MinStage
    <2>3. s \notin wf.wave /\ s \in InFlight /\ child[s] # "running" /\ wf.status[s] = "pending"
      BY <1>0, <2>1, <2>2 DEF WaveInv, InFlight
    <2>a. wf.runs <= 1 => child[s] = "none"
      BY <1>0, <2>3 DEF FirstInv
    <2>4. CASE /\ wf.stop
               /\ stage' = [stage EXCEPT ![s] = "failed"]
               /\ wf' = [wf EXCEPT !.status[s] = "skipped", !.todo = @ \ {s}]
               /\ UNCHANGED <<child, faults>>
      <3>1. wf' = [wf EXCEPT !.status = [wf.status EXCEPT ![s] = "skipped"], !.todo = @ \ {s}]
        BY <2>4
      <3>2. /\ wf' \in Wf /\ wf'.pc = "launch" /\ wf'.todo = wf.todo \ {s}
            /\ wf'.wave = wf.wave /\ wf'.dup = wf.dup /\ wf'.stop = wf.stop /\ wf'.runs = wf.runs
            /\ \A t \in Stage : wf'.status[t] = IF t = s THEN "skipped" ELSE wf.status[t]
        BY <1>0, <2>1, <2>2, <3>1 DEF Wf
      <3>3. wf'.wave = wf.wave \ {s}
        BY <2>3, <3>2
      <3>4. faults' \in 0 .. MaxFaults /\ faults' >= faults
        BY <1>0, <2>4, BatchAssumption DEF TypeOK
      <3> QED
        BY <2>a, <2>1, <2>3, <2>4, <3>2, <3>3, <3>4, StageEnds
    <2>5. CASE /\ ~wf.stop /\ child[s] \in {"none", "bad"}
               /\ child' = [child EXCEPT ![s] = "running"]
               /\ stage' \in (IF stage[s] = "pending" THEN {} ELSE {stage})
                            \cup (IF child[s] = "none" THEN {[stage EXCEPT ![s] = "running"]} ELSE {})
               /\ wf' = [wf EXCEPT !.todo = @ \ {s}, !.wave = @ \cup {s}]
               /\ UNCHANGED faults
      <3>1. /\ wf' \in Wf /\ wf'.pc = "launch" /\ wf'.todo = wf.todo \ {s}
            /\ wf'.wave = wf.wave \cup {s} /\ wf'.dup = wf.dup /\ wf'.stop = wf.stop
            /\ wf'.status = wf.status /\ wf'.runs = wf.runs
        BY <1>0, <2>1, <2>2, <2>5 DEF Wf
      <3>2. /\ stage' \in [Stage -> {"none", "pending", "running", "succeeded", "failed"}]
            /\ \A t \in Stage : t # s => stage'[t] = stage[t]
            /\ stage'[s] \in {stage[s], "running"}
        BY <1>0, <2>5 DEF TypeOK
      <3>3. TypeOK'
        BY <1>0, <2>1, <2>5, <3>1, <3>2 DEF TypeOK, Wf
      <3>4. WaveInv'
        BY <1>0, <2>1, <2>2, <2>3, <2>5, <3>1 DEF WaveInv, InFlight, TypeOK
      <3>5. StatusInv'
        BY <1>0, <2>1, <2>3, <2>5, <3>1, <3>2 DEF StatusInv, TypeOK
      <3>6. TurnInv'
        BY <1>0, <2>1, <2>2, <3>1 DEF TurnInv, InFlight, UsesDependsOn
      <3>7. StopInv'
        BY <1>0, <2>1, <3>1 DEF StopInv
      <3>8. FirstInv'
        <4>1. wf.runs # 0
          BY <1>0, <2>1 DEF FirstInv
        <4>2. child'[s] = "running" /\ \A t \in Stage : t # s => child'[t] = child[t]
          BY <1>0, <2>5 DEF TypeOK
        <4> QED
          BY <1>0, <2>1, <2>3, <2>5, <3>1, <4>1, <4>2 DEF FirstInv
      <3> QED
        BY <3>3, <3>4, <3>5, <3>6, <3>7, <3>8 DEF IInv
    <2>6. CASE /\ ~wf.stop /\ child[s] \in {"ok", "flawed"}
               /\ wf' = [wf EXCEPT !.todo = @ \ {s}, !.wave = @ \cup {s}, !.dup = @ \cup {s}]
               /\ UNCHANGED <<stage, child, faults>>
      <3>1. /\ wf' \in Wf /\ wf'.pc = "launch" /\ wf'.todo = wf.todo \ {s}
            /\ wf'.wave = wf.wave \cup {s} /\ wf'.dup = wf.dup \cup {s} /\ wf'.stop = wf.stop
            /\ wf'.status = wf.status /\ wf'.runs = wf.runs
        BY <1>0, <2>1, <2>2, <2>6 DEF Wf
      <3>2. TypeOK'
        BY <1>0, <2>1, <2>6, <3>1 DEF TypeOK, Wf
      <3>3. WaveInv'
        BY <1>0, <2>1, <2>2, <2>3, <2>6, <3>1 DEF WaveInv, InFlight
      <3>4. StatusInv' /\ StopInv'
        BY <1>0, <2>1, <2>6, <3>1 DEF StatusInv, StopInv
      <3>5. TurnInv'
        BY <1>0, <2>1, <2>2, <3>1 DEF TurnInv, InFlight, UsesDependsOn
      <3>6. FirstInv'
        BY <1>0, <2>a, <2>1, <2>6, <3>1 DEF FirstInv
      <3> QED
        BY <3>2, <3>3, <3>4, <3>5, <3>6 DEF IInv
    <2>7. CASE ~wf.stop /\ Fault /\ FailStage(s) /\ UNCHANGED child
      <3>1. faults' \in 0 .. MaxFaults /\ faults' >= faults
        BY <1>0, <2>7, BatchAssumption DEF Fault, TypeOK
      <3> QED
        BY <2>a, <2>1, <2>3, <2>7, <3>1, FailStageEnds
    <2> QED
      BY <1>1, <2>2, <2>4, <2>5, <2>6, <2>7 DEF StartBatchStageJob
  <1>2. ASSUME FinalizeBatchStage PROVE IInv'
    <2>1. /\ wf.pc = "launch" /\ wf.wave # {} /\ wf.wave \in SUBSET Stage
          /\ UNCHANGED <<manifest, batch, child, starter, faults>>
      BY <1>0, <1>2 DEF FinalizeBatchStage, Wf
    <2>2. PICK s \in Stage : s = Min(wf.wave) /\ s \in wf.wave
      BY <2>1, MinStage
    <2>3. s \notin wf.todo /\ s \in InFlight /\ faults' \in 0 .. MaxFaults /\ faults' >= faults
      BY <1>0, <2>1, <2>2, BatchAssumption DEF WaveInv, InFlight, TypeOK
    <2>4. CASE (s \in wf.dup \/ child[s] \in {"flawed", "bad"}) /\ FailStage(s)
      <3>1. child[s] # "running" /\ (wf.runs <= 1 => child[s] # "ok")
        BY <1>0, <2>4 DEF WaveInv, FirstInv
      <3> QED
        BY <2>1, <2>3, <2>4, <3>1, FailStageEnds
    <2>5. CASE /\ s \notin wf.dup /\ child[s] = "ok"
               /\ stage' = [stage EXCEPT ![s] = "succeeded"]
               /\ wf' = [wf EXCEPT !.status[s] = "succeeded", !.wave = @ \ {s}]
      <3>1. wf' = [wf EXCEPT !.status = [wf.status EXCEPT ![s] = "succeeded"], !.wave = @ \ {s}]
        BY <2>5
      <3>2. /\ wf' \in Wf /\ wf'.pc = "launch" /\ wf'.todo = wf.todo
            /\ wf'.wave = wf.wave \ {s} /\ wf'.dup = wf.dup /\ wf'.stop = wf.stop /\ wf'.runs = wf.runs
            /\ \A t \in Stage : wf'.status[t] = IF t = s THEN "succeeded" ELSE wf.status[t]
        BY <1>0, <2>1, <2>2, <3>1 DEF Wf
      <3>3. wf'.todo = wf.todo \ {s}
        BY <2>3, <3>2
      <3> QED
        BY <2>1, <2>3, <2>5, <3>2, <3>3, StageEnds
    <2> QED
      BY <1>2, <2>2, <2>4, <2>5 DEF FinalizeBatchStage
  <1> QED
    BY <1>1, <1>2

\* Every step of the starter, the workflow and the children keeps the invariant.
LEMMA IInvNext == IInv /\ [Next]_vars => IInv'
  <1> SUFFICES ASSUME IInv, [Next]_vars PROVE IInv'
    OBVIOUS
  <1>0. TypeOK /\ WaveInv /\ StatusInv /\ TurnInv /\ StopInv /\ FirstInv /\ wf \in Wf
    BY DEF IInv, TypeOK, Wf
  <1>1. ASSUME NEW s \in Stage, ChildEnds(s) PROVE IInv'
    <2>1. PICK end \in {"ok", "flawed", "bad"} : child' = [child EXCEPT ![s] = end]
      BY <1>1 DEF ChildEnds
    <2>2. child[s] = "running" /\ UNCHANGED <<manifest, batch, stage, starter, wf, faults>>
      BY <1>1 DEF ChildEnds
    <2>3. TypeOK'
      BY <1>0, <2>1, <2>2 DEF TypeOK
    <2>4. WaveInv'
      BY <1>0, <2>1, <2>2 DEF WaveInv, InFlight, TypeOK
    <2>5. StatusInv'
      BY <1>0, <2>1, <2>2 DEF StatusInv, TypeOK, Pending
    <2>6. TurnInv' /\ StopInv'
      BY <1>0, <2>2 DEF TurnInv, StopInv, InFlight, UsesDependsOn
    <2>7. FirstInv'
      <3>1. wf.pc = "launch" /\ s \in wf.wave /\ wf.status[s] = "pending" /\ wf.runs # 0
        BY <1>0, <2>2 DEF WaveInv, InFlight, FirstInv
      <3>2. \A t \in Stage : t # s => child'[t] = child[t]
        BY <1>0, <2>1 DEF TypeOK
      <3> QED
        BY <1>0, <2>2, <3>1, <3>2 DEF FirstInv
    <2> QED
      BY <2>3, <2>4, <2>5, <2>6, <2>7 DEF IInv
  <1>2. ASSUME WorkflowFails PROVE IInv'
    <2>1. /\ wf' = [wf EXCEPT !.pc = "failed"]
          /\ child' = [s \in Stage |-> IF child[s] = "running" THEN "bad" ELSE child[s]]
          /\ UNCHANGED <<manifest, batch, stage, starter>>
          /\ wf.pc \notin {"none", "done"} /\ faults' \in 0 .. MaxFaults /\ faults' > 0
      BY <1>0, <1>2, BatchAssumption DEF WorkflowFails, Fault, TypeOK
    <2>2. /\ wf' \in Wf /\ wf'.pc = "failed" /\ wf'.todo = wf.todo /\ wf'.wave = wf.wave
          /\ wf'.dup = wf.dup /\ wf'.stop = wf.stop /\ wf'.status = wf.status /\ wf'.runs = wf.runs
      BY <1>0, <2>1 DEF Wf
    <2>3. TypeOK'
      BY <1>0, <2>1, <2>2 DEF TypeOK, Wf
    <2>4. WaveInv'
      BY <1>0, <2>1, <2>2 DEF WaveInv, InFlight, Wf
    <2>5. StatusInv'
      BY <1>0, <2>1, <2>2 DEF StatusInv
    <2>6. TurnInv' /\ StopInv'
      BY <1>0, <2>1, <2>2 DEF TurnInv, StopInv
    <2>7. FirstInv'
      <3>1. \A s \in Stage : (child'[s] = "ok" <=> child[s] = "ok") /\ (child[s] = "none" => child'[s] = "none")
        BY <2>1
      <3> QED
        BY <1>0, <2>1, <2>2, <3>1 DEF FirstInv
    <2> QED
      BY <2>3, <2>4, <2>5, <2>6, <2>7 DEF IInv
  <1>3. CASE UNCHANGED vars
    BY <1>0, <1>3 DEF vars, IInv, TypeOK, WaveInv, StatusInv, TurnInv, StopInv, FirstInv, InFlight,
                      Pending, UsesDependsOn
  <1> QED
    BY <1>1, <1>2, <1>3, StarterSteps, OuterSteps, PassSteps, WaveSteps DEF Next, Workflow

-----------------------------------------------------------------------------
(* The theorems. *)

\* The invariant holds in every reachable state.
THEOREM Invariance == Spec => []IInv
  BY IInvInit, IInvNext, PTL DEF Spec

\* No child of BatchWorkflow runs before its turn, whatever the manifest's
\* dependsOn, the faults and the number of executions under the batch's id.
THEOREM StagesInOrderHolds == Spec => []StagesInOrder
  <1>1. IInv => StagesInOrder
    <2> SUFFICES ASSUME IInv, NEW s \in Stage, child[s] = "running"
                 PROVE  IF UsesDependsOn
                        THEN \A d \in manifest.depends[s] : child[d] = "ok"
                        ELSE \A d \in 1 .. s - 1 : stage[d] \in {"succeeded", "failed"}
      BY DEF StagesInOrder
    <2>1. wf.pc = "launch" /\ s \in InFlight
      BY DEF IInv, WaveInv, InFlight
    <2>2. manifest.depends[s] \subseteq Stage /\ wf.status \in [Stage -> {"pending", "succeeded", "failed", "skipped"}]
      BY DEF IInv, TypeOK
    <2>3. 1 .. s - 1 \subseteq Stage
      BY BatchAssumption DEF Stage
    <2>4. CASE UsesDependsOn
      BY <2>1, <2>2, <2>4 DEF IInv, TurnInv, StatusInv
    <2>5. CASE ~UsesDependsOn
      BY <2>1, <2>2, <2>3, <2>5 DEF IInv, TurnInv, StatusInv
    <2> QED
      BY <2>4, <2>5
  <1> QED
    BY <1>1, Invariance, PTL

\* FinalizeBatch writes the outcome that the stages' rows justify; a row, and the
\* batch, says succeeded only where the child, or every child, migrated without
\* a bad row.  A batch whose children all migrated everything ends otherwise
\* only after a second execution, or after a lost answer to the API's start.
THEOREM OutcomeFromStagesHolds == Spec => []OutcomeFromStages
  <1>1. IInv => OutcomeFromStages
    <2> SUFFICES ASSUME IInv PROVE OutcomeFromStages
      OBVIOUS
    <2>1. ASSUME wf.pc = "finalize"
          PROVE  /\ \A s \in Stage : stage[s] \in {"succeeded", "failed"}
                 /\ Outcome(wf) = "succeeded" <=> \A s \in Stage : stage[s] = "succeeded"
                 /\ Outcome(wf) = "failed" <=> \A s \in Stage : stage[s] = "failed"
      <3>1. \A s \in Stage : /\ wf.status[s] \in {"succeeded", "failed", "skipped"}
                             /\ stage[s] = IF wf.status[s] = "succeeded" THEN "succeeded" ELSE "failed"
        BY <2>1 DEF IInv, TypeOK, StatusInv, Pending
      <3>2. 1 \in Stage
        BY BatchAssumption DEF Stage
      <3> QED
        BY <3>1, <3>2 DEF Outcome
    <2>2. batch \in Ended \ {"succeeded"} /\ (\A s \in Stage : child[s] = "ok") =>
             wf.runs > 1 \/ (starter.who = "api" /\ faults > 0)
      BY DEF IInv, FirstInv, Ended
    <2> QED
      BY <2>1, <2>2 DEF IInv, StatusInv, OutcomeFromStages
  <1> QED
    BY <1>1, Invariance, PTL

\* A failed stage with onStageFailure stop keeps the workflow from starting any
\* other child.
THEOREM NoStartAfterStopHolds == Spec => NoStartAfterStop
  <1> DEFINE A == (\E s \in manifest.stop : wf.status[s] = "failed") /\ wf'.runs = wf.runs =>
                     \A s \in Stage : child'[s] = "running" => child[s] = "running"
  <1>1. IInv /\ [Next]_vars => [A]_vars
    <2> SUFFICES ASSUME IInv, [Next]_vars, NEW f \in manifest.stop, wf.status[f] = "failed",
                        NEW s \in Stage, child'[s] = "running"
                 PROVE  child[s] = "running"
      OBVIOUS
    <2>0. wf.stop /\ child \in [Stage -> {"none", "running", "ok", "flawed", "bad"}]
      BY DEF IInv, StopInv, TypeOK
    <2>1. CASE UNCHANGED child
      BY <2>1
    <2>2. CASE StartBatchStageJob
      BY <2>0, <2>2 DEF StartBatchStageJob
    <2>3. ASSUME NEW t \in Stage, ChildEnds(t) PROVE child[s] = "running"
      BY <2>0, <2>3 DEF ChildEnds
    <2>4. CASE WorkflowFails
      BY <2>0, <2>4 DEF WorkflowFails
    <2> QED
      BY <2>1, <2>2, <2>3, <2>4
      DEF Next, Workflow, vars, create_batch, start_workflow, start_workflow_error, mark_started,
          StartBatch, MarkBatchRunning, UnpackAndStageArchive, MaterializeBatchStages,
          QuarantineArchive, skipStage, NextWave, FinalizeBatchStage, WaveDone, FinalizeBatch
  <1> QED
    BY <1>1, Invariance, PTL DEF Spec, NoStartAfterStop
=============================================================================
