---------------------------- MODULE MCMatrixIngest ----------------------------
(***************************************************************************)
(* Constants for checking MatrixIngest: which events of room r1 only the   *)
(* key backup can decrypt, and that two rooms are interchangeable when no  *)
(* event is encrypted and none is ignored.                                 *)
(***************************************************************************)
EXTENDS MatrixIngest, TLC

CONSTANTS r1, r2

FirstEventEncrypted == {<<r1, 1>>}

RoomSymmetry == Permutations(Rooms)
=============================================================================
