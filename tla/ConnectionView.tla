--------------------------- MODULE ConnectionView ---------------------------
(***************************************************************************)
(* What the queries of a connection resource see of it, and nothing of     *)
(* how: no connection, one that warms up, or one that is ready.  It may be *)
(* dropped at any time, is not ready as soon as it is built, and does not  *)
(* go back from ready to warming up; unless it is dropped it gets ready.   *)
(* These are the steps ConnBuilt, ConnReady and ConnDropped of             *)
(* QueryScheduler, whose runs wait, start and fail by them.                *)
(***************************************************************************)

VARIABLE conn

ViewInit == conn = "absent"

Built == conn = "absent" /\ conn' = "warming"
Ready == conn = "warming" /\ conn' = "ready"
Dropped == conn # "absent" /\ conn' = "absent"

ViewNext == Built \/ Ready \/ Dropped

ViewSpec == ViewInit /\ [][ViewNext]_conn /\ WF_conn(Ready)
=============================================================================
