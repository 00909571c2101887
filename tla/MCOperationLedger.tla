-------------------------- MODULE MCOperationLedger --------------------------
EXTENDS OperationLedger, TLC

Symmetry == Permutations(Attempt) \cup Permutations(Payload)
=============================================================================
