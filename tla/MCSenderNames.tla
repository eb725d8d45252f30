---------------------------- MODULE MCSenderNames ----------------------------
(***************************************************************************)
(* Constants for checking SenderNames: who wrote the two messages.         *)
(***************************************************************************)
EXTENDS SenderNames, TLC

CONSTANTS u1, u2, m1, m2

AllByFirst == [m \in {m1, m2} |-> u1]
OneEach == [m \in {m1, m2} |-> IF m = m1 THEN u1 ELSE u2]

\* With OneEach the members may be exchanged, each with the message it wrote.
Exchange ==
  {p \in Permutations({u1, u2, m1, m2}) :
     \A m \in {m1, m2} : p[m] \in {m1, m2} /\ p[OneEach[m]] = OneEach[p[m]]}
=============================================================================
