--------------------------- MODULE MCProvisioning ---------------------------
(***************************************************************************)
(* Two replicas that start together, two seed jobs and two browsers that   *)
(* sign in as the same newcomer, with two crashes.                         *)
(***************************************************************************)
EXTENDS Provisioning
=============================================================================
