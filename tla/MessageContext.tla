---------------------------- MODULE MessageContext ----------------------------
(***************************************************************************)
(* One call of get_message_context (matrix_client.py): the messages around *)
(* an event, from the homeserver's /context answer topped up with a page   *)
(* in each direction.                                                      *)
(*                                                                         *)
(* The homeserver is external.  The room's timeline is positions 1..newest *)
(* and grows during the call.  /context answers with some events on either *)
(* side, no more than its limit in all, split as it likes, and with tokens *)
(* where the pages before and after begin.  A page starts at its token and *)
(* may be shorter than asked.                                              *)
(*                                                                         *)
(* A definition named Faulty... is a variant with a bug, kept to show that *)
(* some property notices it; the specification uses none of them.          *)
(***************************************************************************)
EXTENDS Integers, Sequences

CONSTANTS
  MaxPosition,   \* bound: length of the timeline
  MaxSide,       \* bound: messages asked for on one side
  NoPosition     \* no token

ASSUME ContextAssumption ==
  /\ MaxPosition \in Nat \ {0}
  /\ MaxSide \in Nat
  /\ NoPosition \notin 0..(MaxPosition + 1)

VARIABLES
  newest,        \* the homeserver: last position of the room's timeline
  want,          \* the arguments: pivot event, messages before and after
  contextPc,     \* "idle", "asked", "back", "front", "answered" or "error"
  before,        \* events_before: positions, nearest first
  after,         \* events_after: positions, nearest first
  start,         \* token of the page before, or NoPosition
  end,           \* token of the page after, or NoPosition
  newestAsked,   \* history: newest when the call was made
  curtailed      \* history: the homeserver gave less than it could

contextVars == <<newest, want, contextPc, before, after, start, end, newestAsked, curtailed>>

Smaller(a, b) == IF a < b THEN a ELSE b

\* n positions below, or above, position p, nearest first.
Below(p, n) == [i \in 1..n |-> p - i]
Above(p, n) == [i \in 1..n |-> p + i]

ContextIdle ==
  /\ contextPc = "idle"
  /\ newest = 1 /\ newestAsked = 1
  /\ want = [pivot |-> 1, before |-> 0, after |-> 0]
  /\ before = <<>> /\ after = <<>>
  /\ start = NoPosition /\ end = NoPosition
  /\ curtailed = FALSE

\* get_message_context(pivot, before, after) in a room of some length.
ContextCall ==
  /\ contextPc = "idle"
  /\ contextPc' = "asked"
  /\ newest' \in 1..MaxPosition
  /\ newestAsked' = newest'
  /\ want' \in [pivot : 1..newest', before : 0..MaxSide, after : 0..MaxSide]
  /\ UNCHANGED <<before, after, start, end, curtailed>>

\* Somebody writes to the room.
Grow ==
  /\ contextPc \in {"asked", "back", "front"}
  /\ newest < MaxPosition
  /\ newest' = newest + 1
  /\ UNCHANGED <<want, contextPc, before, after, start, end, newestAsked, curtailed>>

\* events[:n]
First(events, n) == SubSeq(events, 1, Smaller(n, Len(events)))

FaultyTopUp(events, n, token) == Len(events) = 0 /\ n > 0 /\ token # NoPosition

\* A side is topped up when it is short and there is a token.
TopUp(events, n, token) == Len(events) < n /\ token # NoPosition

AfterBack(events, token) == IF TopUp(events, want.after, token) THEN "front" ELSE "answered"

\* /context with limit before + after, both sides cut to what was asked.
ContextReply ==
  /\ contextPc = "asked"
  /\ \E b \in 0..(want.pivot - 1), a \in 0..(newest - want.pivot) :
       /\ b + a <= want.before + want.after
       /\ before' = First(Below(want.pivot, b), want.before)
       /\ after' = First(Above(want.pivot, a), want.after)
       /\ start' \in {want.pivot - b, NoPosition}
       /\ end' \in {want.pivot + a, NoPosition}
       /\ curtailed' =
            \/ start' = NoPosition /\ Len(before') < Smaller(want.before, want.pivot - 1)
            \/ end' = NoPosition /\ Len(after') < Smaller(want.after, newest - want.pivot)
  /\ contextPc' = IF TopUp(before', want.before, start') THEN "back"
                  ELSE AfterBack(after', end')
  /\ UNCHANGED <<newest, want, newestAsked>>

\* An ErrorResponse to /context, or an exception: the tool answers with an error.
ContextFails ==
  /\ contextPc \in {"asked", "back", "front"}
  /\ contextPc' = "error"
  /\ UNCHANGED <<newest, want, before, after, start, end, newestAsked, curtailed>>

\* The page before the start token, at most as long as what is missing.
PaginateBack ==
  /\ contextPc = "back"
  /\ LET needed == want.before - Len(before)
         there == Smaller(needed, start - 1)
     IN \E n \in 0..there :
          /\ before' = before \o Below(start, n)
          /\ curtailed' = (curtailed \/ n < there)
  /\ contextPc' = AfterBack(after, end)
  /\ UNCHANGED <<newest, want, after, start, end, newestAsked>>

PaginateFront ==
  /\ contextPc = "front"
  /\ LET needed == want.after - Len(after)
         there == Smaller(needed, newest - end)
     IN \E n \in 0..there :
          /\ after' = after \o Above(end, n)
          /\ curtailed' = (curtailed \/ n < there)
  /\ contextPc' = "answered"
  /\ UNCHANGED <<newest, want, before, start, end, newestAsked>>

\* An ErrorResponse to a page counts as an empty one.
PageError ==
  /\ contextPc \in {"back", "front"}
  /\ contextPc' = IF contextPc = "back" THEN AfterBack(after, end) ELSE "answered"
  /\ curtailed' = TRUE
  /\ UNCHANGED <<newest, want, before, after, start, end, newestAsked>>

ContextEnded == contextPc \in {"answered", "error"}

\* Every request to the homeserver is answered or raises.
ContextStep == ContextReply \/ ContextFails \/ PaginateBack \/ PaginateFront \/ PageError

ContextNext == ContextCall \/ Grow \/ ContextStep

ContextSpec == ContextIdle /\ [][ContextNext]_contextVars /\ WF_contextVars(ContextStep)

-----------------------------------------------------------------------------
(* Properties *)

Tokens == 0..(MaxPosition + 1) \cup {NoPosition}

ContextTypeOK ==
  /\ newest \in 1..MaxPosition /\ newestAsked \in 1..newest
  /\ want \in [pivot : 1..MaxPosition, before : 0..MaxSide, after : 0..MaxSide]
  /\ contextPc \in {"idle", "asked", "back", "front", "answered", "error"}
  /\ before \in Seq(1..MaxPosition) /\ after \in Seq(1..MaxPosition)
  /\ start \in Tokens /\ end \in Tokens
  /\ curtailed \in BOOLEAN

\* What is shown around an event are its neighbours: a run without a gap or a
\* repetition on either side, pieced together from two requests, never longer
\* than asked for, and, however /context divides its limit between the sides, as
\* long as the room allowed when the call was made unless the homeserver held
\* something back (a short page, an error, no token).
ContextIsTheNeighbourhood ==
  contextPc = "answered" =>
    /\ before = Below(want.pivot, Len(before)) /\ Len(before) <= want.before
    /\ after = Above(want.pivot, Len(after)) /\ Len(after) <= want.after
    /\ curtailed \/ Len(before) = Smaller(want.before, want.pivot - 1)
    /\ curtailed \/ Len(after) >= Smaller(want.after, newestAsked - want.pivot)
=============================================================================
