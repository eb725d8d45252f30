---------------------------- MODULE OrderedHandoff ----------------------------
(***************************************************************************)
(* What the batching side of the webhook dispatcher promises, whatever its *)
(* timers do: records are accepted one at a time and handed to LLM calls   *)
(* in arrival order, each exactly once, one to BatchMax per call, and none *)
(* after the dispatcher is closed.  Accepted and handed records are        *)
(* counted: what is handed is always a prefix of what was accepted.        *)
(***************************************************************************)
EXTENDS Naturals

CONSTANTS MaxRecords, BatchMax

VARIABLES accepting, accepted, handed

handoffVars == <<accepting, accepted, handed>>

HandoffInit == accepting = TRUE /\ accepted = 0 /\ handed = 0

AcceptRecord ==
  /\ accepting
  /\ accepted < MaxRecords
  /\ accepted' = accepted + 1
  /\ UNCHANGED <<accepting, handed>>

HandBatch ==
  /\ accepting
  /\ \E n \in 1..BatchMax :
       /\ handed + n <= accepted
       /\ handed' = handed + n
  /\ UNCHANGED <<accepting, accepted>>

StopAccepting == accepting /\ accepting' = FALSE /\ UNCHANGED <<accepted, handed>>

HandoffNext == AcceptRecord \/ HandBatch \/ StopAccepting

HandoffSpec == HandoffInit /\ [][HandoffNext]_handoffVars
=============================================================================
