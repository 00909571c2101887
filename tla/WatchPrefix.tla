---------------------------- MODULE WatchPrefix ----------------------------
(***************************************************************************)
(* A watched prefix: executions of WatchPrefixWorkflow fired by a schedule *)
(* (several at a time when its overlap policy allows), the connector's     *)
(* cursor in connectors.config_json, and the child workflows in Temporal.  *)
(* A fire reads the cursor, lists the prefix, starts one child per object  *)
(* version that the cursor does not have and then merges what it started   *)
(* into the cursor, which keeps a bounded number of keys.                  *)
(*                                                                         *)
(* Keys are numbers in their lexical order, versions (etags) numbers in    *)
(* the order written.  A plain file's child is a MigrationWorkflow, an     *)
(* archive's a BatchWorkflow: the two go the same way, and so do objects   *)
(* staged from SFTP.  Temporal's retention is days and a fire takes        *)
(* minutes: executions are forgotten only between fires.                   *)
(***************************************************************************)
EXTENDS Integers, FiniteSetsExt

CONSTANTS
    K,          \* number of keys
    Quarantine, \* the keys under failed/
    Fire,       \* fires that may overlap
    MaxCursor,  \* maxCursorEntries
    MaxPuts,    \* bound: objects written, new or over an older version
    MaxFaults   \* bound: activities and child starts that fail for good

Key     == 1 .. K
Version == 1 .. MaxPuts
Object  == Key \X Version

ASSUME WatchAssumption ==
    /\ K \in Nat /\ MaxPuts \in Nat /\ MaxFaults \in Nat /\ MaxCursor \in Nat
    /\ Quarantine \subseteq Key

VARIABLES
    bucket, \* the current version of each key, 0 for none
    seen,   \* the cursor: a version for each key, 0 for none
    fire,   \* local state of the workflow executions
    run,    \* executions of the objects' children that Temporal remembers
    hist,   \* history: objects ever started, ever migrated, and keys evicted
    faults

vars == <<bucket, seen, fire, run, hist, faults>>

Idle == [pc |-> "idle", cursor |-> [k \in Key |-> 0], todo |-> {}, advanced |-> {}]

\* Types of the bucket, the cursor and the workflows.
TypeOK ==
    /\ bucket \in [Key -> {0} \cup Version]
    /\ seen \in [Key -> {0} \cup Version]
    /\ Cardinality({k \in Key : seen[k] # 0}) <= MaxCursor
    /\ fire \in [Fire -> [pc : {"idle", "list", "start", "mark"}, cursor : [Key -> {0} \cup Version],
                          todo : SUBSET Object, advanced : SUBSET Object]]
    /\ run \in [Object -> {"none", "running", "ok", "bad"}]
    /\ hist \in [started : SUBSET Object, done : SUBSET Object, evicted : SUBSET Key]
    /\ faults \in 0 .. MaxFaults

Init ==
    /\ bucket = [k \in Key |-> 0]
    /\ seen = [k \in Key |-> 0]
    /\ fire = [f \in Fire |-> Idle]
    /\ run = [o \in Object |-> "none"]
    /\ hist = [started |-> {}, done |-> {}, evicted |-> {}]
    /\ faults = 0

Puts == MapThenSumSet(LAMBDA k : bucket[k], Key)

\* Someone uploads a new version of a key.
Put(k) ==
    /\ bucket[k] < MaxPuts /\ Puts < MaxPuts
    /\ bucket' = [bucket EXCEPT ![k] = @ + 1]
    /\ UNCHANGED <<seen, fire, run, hist, faults>>

Fault == faults < MaxFaults /\ faults' = faults + 1
-----------------------------------------------------------------------------
(* WatchPrefixWorkflow *)

LoadConnector(f) ==
    /\ fire[f].pc = "idle"
    /\ fire' = [fire EXCEPT ![f] = [Idle EXCEPT !.pc = "list", !.cursor = seen]]
    /\ UNCHANGED <<bucket, seen, run, hist, faults>>

NewKeys(cursor) == {k \in Key \ Quarantine : bucket[k] # 0 /\ cursor[k] = 0}

\* The listed objects the cursor has not seen in this version.
NewObjects(cursor) == {k \in Key \ Quarantine : bucket[k] # 0 /\ cursor[k] # bucket[k]}

ListPrefixObjects(f) ==
    /\ fire[f].pc = "list"
    /\ fire' = [fire EXCEPT ![f].pc = "start",
                            ![f].todo = {<<k, bucket[k]>> : k \in NewObjects(fire[f].cursor)}]
    /\ UNCHANGED <<bucket, seen, run, hist, faults>>

AnyId(o) == run[o] # "running"

\* WORKFLOW_ID_REUSE_POLICY_ALLOW_DUPLICATE_FAILED_ONLY.
CanStart(o) == run[o] \in {"none", "bad"}

\* StartWatchObjectJob or StartBatch (which find the job or batch of an
\* earlier fire by its workflow id) and the child's start.
StartObject(f, o) ==
    /\ fire[f].pc = "start" /\ o \in fire[f].todo
    /\ CanStart(o)
    /\ run' = [run EXCEPT ![o] = "running"]
    /\ hist' = [hist EXCEPT !.started = @ \cup {o}]
    /\ fire' = [fire EXCEPT ![f].pc = "mark", ![f].todo = @ \ {o}, ![f].advanced = @ \cup {o}]
    /\ UNCHANGED <<bucket, seen, faults>>

\* Temporal has a workflow of that id that runs or has succeeded.
AlreadyStarted(f, o) ==
    /\ fire[f].pc = "start" /\ o \in fire[f].todo
    /\ ~CanStart(o)
    /\ fire' = [fire EXCEPT ![f].todo = @ \ {o}, ![f].advanced = @ \cup {o}]
    /\ UNCHANGED <<bucket, seen, run, hist, faults>>

StartFailsSeen(f, o) ==
    /\ fire[f].pc = "start" /\ o \in fire[f].todo
    /\ Fault
    /\ fire' = [fire EXCEPT ![f].todo = @ \ {o}, ![f].advanced = @ \cup {o}]
    /\ UNCHANGED <<bucket, seen, run, hist>>

\* Staging, the job's row or the child's start fails: the object is left for
\* the next fire.
StartFails(f, o) ==
    /\ fire[f].pc = "start" /\ o \in fire[f].todo
    /\ Fault
    /\ fire' = [fire EXCEPT ![f].todo = @ \ {o}]
    /\ UNCHANGED <<bucket, seen, run, hist>>

\* MarkJobRunning or MarkBatchRunning; an error ends the fire, and what it
\* started does not reach the cursor.
MarkRunning(f) ==
    /\ fire[f].pc = "mark"
    /\ \/ fire' = [fire EXCEPT ![f].pc = "start"] /\ UNCHANGED faults
       \/ fire' = [fire EXCEPT ![f] = Idle] /\ Fault
    /\ UNCHANGED <<bucket, seen, run, hist>>

\* The keys that stay: the lexically largest MaxCursor of them.
KeepsAll(keys) == keys

Keeps(keys) == {k \in keys : Cardinality({j \in keys : j > k}) < MaxCursor}

\* AdvanceConnectorCursor merges under a row lock; it fails, or the fire is
\* cut off, with nothing written.
AdvanceConnectorCursor(f) ==
    /\ fire[f].pc = "start" /\ fire[f].todo = {}
    /\ fire' = [fire EXCEPT ![f] = Idle]
    /\ LET merged == [k \in Key |-> IF \E v \in Version : <<k, v>> \in fire[f].advanced
                                    THEN CHOOSE v \in Version : <<k, v>> \in fire[f].advanced
                                    ELSE seen[k]]
           keys   == {k \in Key : merged[k] # 0}
       IN \/ /\ seen' = [k \in Key |-> IF k \in Keeps(keys) THEN merged[k] ELSE 0]
             /\ hist' = [hist EXCEPT !.evicted = @ \cup (keys \ Keeps(keys))]
             /\ UNCHANGED faults
          \/ fire[f].advanced # {} /\ Fault /\ UNCHANGED <<seen, hist>>
    /\ UNCHANGED <<bucket, run>>
-----------------------------------------------------------------------------
(* Temporal *)

ChildEnds(o) ==
    /\ run[o] = "running"
    /\ \/ run' = [run EXCEPT ![o] = "ok"] /\ hist' = [hist EXCEPT !.done = @ \cup {o}]
       \/ run' = [run EXCEPT ![o] = "bad"] /\ UNCHANGED hist
    /\ UNCHANGED <<bucket, seen, fire, faults>>

\* Retention removes an ended execution; its id is free again.
Forget(o) ==
    /\ run[o] \in {"ok", "bad"}
    /\ \A f \in Fire : fire[f].pc = "idle"
    /\ run' = [run EXCEPT ![o] = "none"]
    /\ UNCHANGED <<bucket, seen, fire, hist, faults>>

Step(f) ==
    \/ LoadConnector(f) \/ ListPrefixObjects(f) \/ MarkRunning(f) \/ AdvanceConnectorCursor(f)
    \/ \E o \in Object : StartObject(f, o) \/ AlreadyStarted(f, o) \/ StartFails(f, o)

Next ==
    \/ \E k \in Key : Put(k)
    \/ \E f \in Fire : Step(f)
    \/ \E o \in Object : ChildEnds(o) \/ Forget(o)

\* The schedule goes on firing and Temporal drives every fire on.
Spec == Init /\ [][Next]_vars /\ \A f \in Fire : WF_vars(Step(f))
-----------------------------------------------------------------------------
(* Properties *)

\* The cursor never hides an object version that was not started, however
\* fires overlap and fail: no arrival is lost.
SeenWasStarted == \A k \in Key : seen[k] # 0 => <<k, seen[k]>> \in hist.started

\* A version that has been migrated is migrated a second time only when
\* Temporal has forgotten that it succeeded and the cursor has lost it: its
\* key was evicted, a fire failed before it wrote the cursor, or the key was
\* overwritten (an overlapping fire may then put the older version back).
MigratedAgainOnlyIf ==
    [][\A o \in hist.done : run[o] # "running" /\ run'[o] = "running" =>
          /\ run[o] # "ok"
          /\ o[1] \in hist.evicted \/ faults > 0 \/ bucket[o[1]] > 1]_vars

\* While the schedule goes on firing, the fires catch up with every key again
\* and again: no version that stays in the bucket is passed over for ever.
ArrivalStarts ==
    \A k \in Key \ Quarantine :
        []<>(bucket[k] = 0 \/ <<k, bucket[k]>> \in hist.started)
=============================================================================
