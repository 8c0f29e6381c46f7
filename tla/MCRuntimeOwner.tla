--------------------------- MODULE MCRuntimeOwner ---------------------------
(***************************************************************************)
(* RuntimeOwner with a few starts of the program and two process ids.      *)
(***************************************************************************)
EXTENDS RuntimeOwner

CONSTANTS r1, r2, r3, r4, n1, n2
=============================================================================
