------------------------ MODULE MCConnectionRegistry ------------------------
(***************************************************************************)
(* ConnectionRegistry for TLC: which of the two timers runs does not       *)
(* matter to the registry, so most configurations have one.                *)
(***************************************************************************)
EXTENDS ConnectionRegistry

OneTimer == {"recheck"}
BothTimers == {"recheck", "topology"}
=============================================================================
