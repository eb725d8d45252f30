----------------------------- MODULE MCRoomRoster -----------------------------
(***************************************************************************)
(* Names and members are interchangeable, for TLC.                         *)
(***************************************************************************)
EXTENDS RoomRoster, TLC

RosterSymmetry == Permutations(Titles) \cup Permutations(People)
=============================================================================
