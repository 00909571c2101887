--------------------------- MODULE MCWatchPrefix ---------------------------
\* Instances of WatchPrefix for TLC.
EXTENDS WatchPrefix
=============================================================================
