--------------------------- MODULE MCJobLifecycle ---------------------------
(* The runs of JobLifecycle; the configurations give its bounds.           *)
EXTENDS JobLifecycle
=============================================================================
