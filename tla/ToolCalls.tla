------------------------------- MODULE ToolCalls -------------------------------
(***************************************************************************)
(* call_tool (server.py) for the two tools that do more than one request:  *)
(* search_messages and get_message_context.  Calls keep nothing for one    *)
(* another and share no state, so a behaviour has one of them.             *)
(***************************************************************************)
EXTENDS SearchMessages, MessageContext

vars == <<searchVars, embedVars, contextVars>>

Idle == searchPc = "idle" /\ contextPc = "idle"

Init == SearchIdle /\ EmbedIdle /\ ContextIdle

\* name == "search_messages"
Search == Idle /\ (\E a \in Arguments : SearchCall(a)) /\ UNCHANGED contextVars

\* name == "get_message_context"
Context == Idle /\ ContextCall /\ UNCHANGED <<searchVars, embedVars>>

\* One step of the call in progress.
Step ==
  \/ SearchStep /\ UNCHANGED contextVars
  \/ ContextStep /\ UNCHANGED <<searchVars, embedVars>>

\* What others do to the collection and to the room meanwhile, and a failing Qdrant.
Environment ==
  \/ (Meanwhile \/ RequestFails) /\ UNCHANGED contextVars
  \/ Grow /\ UNCHANGED <<searchVars, embedVars>>

Next == Search \/ Context \/ Step \/ Environment

Spec == Init /\ [][Next]_vars /\ WF_vars(Step)

-----------------------------------------------------------------------------
(* Properties *)

TypeOK == SearchTypeOK /\ EmbedTypeOK /\ ContextTypeOK

\* Every call ends: a search runs out of filters, the retries of a rate-limited
\* embedding run out, and a context is topped up at most once on either side.
CallEnds == ~Idle ~> (SearchEnded \/ ContextEnded)
=============================================================================
