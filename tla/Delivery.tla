------------------------------ MODULE Delivery ------------------------------
(***************************************************************************)
(* What the owner of a row may rely on about one operation (ADR 0003): an  *)
(* abstract specification of who asked, what was reported, how often an    *)
(* operator decided that the operation may take effect again, and how many *)
(* effects the destination has.  OperationLedger implements it.            *)
(***************************************************************************)
EXTENDS Naturals

CONSTANT Tries   \* how often one question may be put to the destination

VARIABLES
    exact,      \* the policy bounds the effects: the destination does not
                \* deduplicate, and a lease outlives its attempt
    open,       \* somebody waits for the operation
    decisions,  \* questions that came with a decision of an operator
    row,        \* what was last reported of the operation
    effects     \* effects at the destination

vars == <<exact, open, decisions, row, effects>>

Init ==
    /\ exact \in BOOLEAN
    /\ open = FALSE
    /\ decisions = 0
    /\ row = "none"
    /\ effects = 0

\* The job asks first, and nothing is decided then; a retry asks once there is
\* a report, and about an unresolved row only with a decision.
Ask ==
    /\ ~open
    /\ open' = TRUE
    /\ decisions' \in {decisions, decisions + 1}
    /\ row = "none" => decisions' = decisions
    /\ row = "unresolved" => decisions' = decisions + 1
    /\ UNCHANGED <<exact, row, effects>>

\* Nobody waits any more, and nothing is reported.
Withdraw == open /\ open' = FALSE /\ UNCHANGED <<exact, decisions, row, effects>>

\* One report for one question; success only of what took effect.
Tell ==
    /\ open
    /\ open' = FALSE
    /\ row' \in {"succeeded", "failed", "unresolved"}
    /\ row' = "succeeded" => effects > 0
    /\ UNCHANGED <<exact, decisions, effects>>

\* The destination is affected, asked for or late: once, and again as often as
\* the questions that carried a decision were put to it.
Apply ==
    /\ exact => effects <= Tries * decisions
    /\ effects' = effects + 1
    /\ UNCHANGED <<exact, open, decisions, row>>

Next == Ask \/ Withdraw \/ Tell \/ Apply

Spec == Init /\ [][Next]_vars
=============================================================================
