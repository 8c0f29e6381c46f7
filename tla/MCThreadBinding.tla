--------------------------- MODULE MCThreadBinding ---------------------------
(***************************************************************************)
(* ThreadBinding with a Desktop session and two that "/new" may create. *)
(***************************************************************************)
EXTENDS ThreadBinding, TLC

CONSTANTS d1, n1, n2, t1, t2, t3, h1, h2, off

Perms == Permutations({n1, n2}) \cup Permutations({t1, t2, t3})
=============================================================================
