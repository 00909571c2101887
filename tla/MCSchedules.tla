---------------------------- MODULE MCSchedules ----------------------------
\* Instances of Schedules for TLC; requests are interchangeable, and
\* so are the specs that Temporal accepts.
EXTENDS Schedules, TLC

Interchangeable == Permutations(Request) \cup Permutations(Timing \ Foreign)
=============================================================================
