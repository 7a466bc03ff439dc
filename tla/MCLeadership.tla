---------------------------- MODULE MCLeadership ----------------------------
(***************************************************************************)
(* Leadership for TLC: up to three replicas with priorities of their own.  *)
(***************************************************************************)
EXTENDS Leadership

Two == {1, 2}
Three == {1, 2, 3}
Ranked == [r \in Replicas |-> r]
=============================================================================
