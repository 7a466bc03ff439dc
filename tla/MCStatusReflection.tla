------------------------- MODULE MCStatusReflection -------------------------
(***************************************************************************)
(* StatusReflection for TLC: derive_status tells two classes of errors     *)
(* apart, and a run may always end with ConnectionNotReady.                *)
(***************************************************************************)
EXTENDS StatusReflection

OneError == {"QueryError"}
OfEachClass == {"QueryError", "NoLiveNodes"}
=============================================================================
