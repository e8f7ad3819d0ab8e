--------------------------- MODULE MCVxlanNetwork ---------------------------
(* Instances of VxlanNetwork; its constants are numbers and switches.      *)
EXTENDS VxlanNetwork
=============================================================================
