----------------------------- MODULE MCLicense -----------------------------
\* Instances of License for TLC; the replicas are interchangeable.
EXTENDS License, TLC

ReplicaSymmetry == Permutations(Replica)
=============================================================================
