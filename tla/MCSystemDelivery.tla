------------------------- MODULE MCSystemDelivery -------------------------
(***************************************************************************)
(* An instance of SystemDelivery: two publications, two attempts each.     *)
(***************************************************************************)
EXTENDS SystemDelivery

CONSTANTS c1, c2, nobody
=============================================================================
