--------------------------- MODULE MCDemandOracle ---------------------------
(* DemandOracle with two helpers. *)
EXTENDS DemandOracle
=============================================================================
