--------------------------- MODULE MCStreamThreads ---------------------------
(* The four workers of a stream and its callers; nothing is left to bound.  *)
EXTENDS StreamThreads
=============================================================================
