------------------------------ MODULE MCRoomChat ------------------------------
(***************************************************************************)
(* RoomChat with a project p1, and p2 for a folder that only the messages  *)
(* know; one message for each way the rooms and the proposals change, and  *)
(* some that change nothing, although they look alike.                     *)
(***************************************************************************)
EXTENDS RoomChat

CONSTANTS p1, p2, r1, f1, f2, c1, c2

Alone == [p \in Projects |-> {p}]

Direct(root, words) == Message("text", "direct", root, words)
InRoom(root, words) == Message("text", "room", root, words)

MCSpoken ==
    {Direct("none", <<"/bind", p1>>), Direct("other", <<"/bind", p1>>), Direct("none", <<"word">>),
     InRoom("none", <<"@bot", "/bind", p1>>), InRoom("none", <<"/bind", p1>>),
     InRoom("none", <<"@bot", "/unbind">>), InRoom("none", <<"@bot", "/unbind", p1>>),
     InRoom("other", <<"@bot", "/unbind">>)}
=============================================================================
