----------------------- MODULE MCClickHouseConnection -----------------------
(***************************************************************************)
(* ClickHouseConnection for TLC: three hosts, and the memberships that     *)
(* their cluster goes through.                                             *)
(***************************************************************************)
EXTENDS ClickHouseConnection

CONSTANTS h1, h2, h3

OneHost == {h1}
OtherHost == {h2}
TwoHosts == {h1, h2}
ThreeHosts == {h1, h2, h3}

Static == {{h1, h2}}
Moving == {{h1, h2}, {h1, h2, h3}}  \* h3 joins and leaves
Growing == {{h1}, {h2}, {h1, h2}}   \* h2 joins and leaves, the seed h1 is in or out
Drifted == {{h2, h3}}               \* h1 is declared a seed but is no member
=============================================================================
