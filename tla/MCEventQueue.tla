----------------------------- MODULE MCEventQueue -----------------------------
(* Two threads of the player raise two kinds of events.                      *)
EXTENDS EventQueue

CONSTANTS e1, e2, p1, p2

MCEvent  == {e1, e2}
MCPoster == {p1, p2}
=============================================================================
