------------------------------ MODULE MCToolCalls -----------------------------
(***************************************************************************)
(* Three messages, two of one author in different rooms, for TLC.          *)
(***************************************************************************)
EXTENDS ToolCalls

CONSTANTS p1, p2, p3, u1, u2, r1, r2

MCSentBy == p1 :> u1 @@ p2 :> u1 @@ p3 :> u2
MCSentIn == p1 :> r1 @@ p2 :> r2 @@ p3 :> r1
MCSentAt == p1 :> 1 @@ p2 :> 2 @@ p3 :> 2
MCLikeness == p1 :> 2 @@ p2 :> 1 @@ p3 :> 1
MCNames == {{"b"}, {"a", "b"}}
MCRoomNames == {{"y"}, {"x", "y"}}
MCSenderArgs == {NoArg, u1, {}, {"a"}, {"a", "b"}}
MCRoomArgs == {NoArg, {"x"}, {"x", "y"}}
MCTimeRanges == {<<NoArg, NoArg>>, <<2, NoArg>>, <<NoArg, 1>>}
=============================================================================
