---------------------------- MODULE MCProjectRooms ----------------------------
(***************************************************************************)
(* ProjectRooms with a project p1 and a folder p2 inside it.               *)
(***************************************************************************)
EXTENDS ProjectRooms

CONSTANTS p1, p2, r1, f1, f2, c1, c2

Nested == [p \in Projects |-> {p, p1}]
=============================================================================
