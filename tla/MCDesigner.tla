----------------------------- MODULE MCDesigner -----------------------------
\* A designer session on files of up to three records and chains of up to
\* three steps.
EXTENDS Designer
=============================================================================
