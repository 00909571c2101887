----------------------------- MODULE MCBatchRun -----------------------------
\* Instances of BatchRun for TLC: every dependsOn relation over the stages.
EXTENDS BatchRun
=============================================================================
