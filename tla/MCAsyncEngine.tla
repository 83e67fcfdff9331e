---------------------------- MODULE MCAsyncEngine ----------------------------
(* Two frames, as many as sfdec_max_frames, for the race of a seek; one, which  *)
(* must go round alone, for what has to happen in the end.                      *)
EXTENDS AsyncEngine

CONSTANTS f1, f2

MCFrames == <<f1, f2>>
MCFrame  == <<f1>>
=============================================================================
