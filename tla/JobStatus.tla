----------------------------- MODULE JobStatus -----------------------------
(***************************************************************************)
(* What a client may rely on about the status of a job (ADR 0004): an      *)
(* abstract specification with the status, whether the job stopped early,  *)
(* and whether a retry of its rows is open. JobLifecycle implements it.    *)
(***************************************************************************)
VARIABLES status, stopped, retrying

vars == <<status, stopped, retrying>>

Active   == {"pending", "running", "paused"}
Terminal == {"succeeded", "failed", "cancelled"}

Init == status = "none" /\ stopped = FALSE /\ retrying = FALSE

Create == status = "none"    /\ status' = "pending" /\ UNCHANGED <<stopped, retrying>>
Start  == status = "pending" /\ status' = "running" /\ UNCHANGED <<stopped, retrying>>
Pause  == status = "running" /\ status' = "paused"  /\ UNCHANGED <<stopped, retrying>>
Resume == status = "paused"  /\ status' = "running" /\ UNCHANGED <<stopped, retrying>>

\* The job ends once, whoever records it. A job that stopped early failed or
\* was cancelled, and stays so marked.
End ==
    /\ status \in Active
    /\ status' \in Terminal
    /\ stopped' \in {stopped, TRUE}
    /\ stopped' => status' # "succeeded"
    /\ UNCHANGED retrying

\* A cancelled job may still learn why its workflow stopped.
NoteError ==
    status = "cancelled" /\ stopped' = TRUE /\ UNCHANGED <<status, retrying>>

\* Rows are retried only after the job ended.
OpenRetry  == ~retrying /\ status \in Terminal /\ retrying' = TRUE /\ UNCHANGED <<status, stopped>>
CloseRetry == retrying /\ retrying' = FALSE /\ UNCHANGED <<status, stopped>>

\* A retry restates the outcome of its rows: not of a cancelled job, and never
\* as a success of one that stopped early.
Restate ==
    /\ retrying
    /\ status \in {"succeeded", "failed"}
    /\ status' \in {"succeeded", "failed"}
    /\ stopped' \in {stopped, TRUE}
    /\ stopped' => status' = "failed"
    /\ retrying' \in BOOLEAN

Next == \/ Create \/ Start \/ Pause \/ Resume \/ End \/ NoteError
        \/ OpenRetry \/ CloseRetry \/ Restate

Spec == Init /\ [][Next]_vars
=============================================================================
