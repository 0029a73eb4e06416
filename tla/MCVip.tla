-------------------------------- MODULE MCVip --------------------------------
(* Instances of VipGen and VipSession for TLC. *)
EXTENDS VipInvariant
=============================================================================
