-------------------------- MODULE MCQueryScheduler --------------------------
(***************************************************************************)
(* Values of the constants of QueryScheduler for TLC.                      *)
(***************************************************************************)
EXTENDS QueryScheduler

DataSpec(n) == [max |-> n, kind |-> "data", valid |-> TRUE]
SystemSpec(n) == [max |-> n, kind |-> "system", valid |-> TRUE]
InvalidSpec == [max |-> 1, kind |-> "data", valid |-> FALSE]

OneSpec == {DataSpec(2)}
TightSpecs == {DataSpec(1)}
\* The query is misconfigured and put right while runs are alive.
EditSpecs == {SystemSpec(2), InvalidSpec}
SystemSpecs == {SystemSpec(1)}
=============================================================================
