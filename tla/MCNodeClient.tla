---------------------------- MODULE MCNodeClient ----------------------------
(***************************************************************************)
(* NodeClient for TLC.  One session more than there are tasks is always    *)
(* enough: a task and the node refer to one each.                          *)
(***************************************************************************)
EXTENDS NodeClient, FiniteSets

EnoughSessions == 1..(Cardinality(Tasks) + 1)
=============================================================================
