---------------------------- MODULE MCExposition ----------------------------
(***************************************************************************)
(* Exposition for TLC: queries that share a metric name and differ in what *)
(* makes their series: static labels, columns, how often a row comes,      *)
(* their type, their prefix.                                               *)
(***************************************************************************)
EXTENDS Exposition

Plain == [base |-> "rows", lead |-> 0, policy |-> "fail", type |-> "data",
          labels |-> [env |-> "a"], columns |-> {}, copies |-> 1]
ByHost == [Plain EXCEPT !.labels = [l \in {} |-> Blank], !.columns = {"host"},
                         !.copies = 2]
ByNode == [Plain EXCEPT !.lead = 1, !.policy = "skip", !.type = "system",
                        !.labels = [team |-> "b"]]
Reserved == [Plain EXCEPT !.labels = [query_key |-> "a"]]
Refused == [ByNode EXCEPT !.columns = {NodeLabel}]      \* its rows are
TwicePrefixed == [Plain EXCEPT !.lead = 1]
ByEnv == [Plain EXCEPT !.labels = [l \in {} |-> Blank], !.columns = {"env"}]
NamedUp == [Plain EXCEPT !.base = "query_up"]
Repeated == [Plain EXCEPT !.copies = 2]

Mixed == {Plain, ByHost, ByNode, Reserved}
Merged == {Plain, ByHost, ByNode}
Unusable == {Plain, Reserved, Refused, TwicePrefixed}
Clashing == {Plain, ByEnv}
LikeSystem == {Plain, NamedUp}
SameRows == {Repeated}
=============================================================================
