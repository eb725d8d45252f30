------------------------------ MODULE LlmCallback ------------------------------
(***************************************************************************)
(* nio_mcp/llm_callback.py: one call of OpenWebUIChatClient.run, the       *)
(* sequence of requests behind each batch of the webhook dispatcher.       *)
(*                                                                         *)
(* A chat is created, a completion is asked for, and the assistant's       *)
(* message is read.  Without a session_id the completion's reply is a      *)
(* stream that ends when the agent does; with one it comes at once and the *)
(* client polls the chat's tasks until none is left or its deadline has    *)
(* passed.                                                                 *)
(*                                                                         *)
(* OpenWebUI is external: it acts on a request at some moment between its  *)
(* sending and its reply, and its agent runs beside the client, also after *)
(* the client has given up.  Time is in whole units.                       *)
(*                                                                         *)
(* A definition named Faulty... is a variant with a bug, kept to show that *)
(* some property notices it; the specification uses none of them.          *)
(***************************************************************************)
EXTENDS Integers

CONSTANTS
  Timeout,       \* timeout_seconds: the read timeout and the length of the wait
  PollInterval,  \* _POLL_INTERVAL_SECONDS
  Latency        \* the longest a request other than the completion takes

ASSUME TimeAssumption ==
  /\ Timeout \in Nat \ {0}
  /\ PollInterval \in Nat \ {0}
  /\ Latency \in 0..Timeout

VARIABLES
  pc,            \* the request being made, "sleep" between polls, or how run ended
  async,         \* request_options has a session_id
  open,          \* _http is not None
  request,       \* "sent", or "served" once OpenWebUI has acted on it
  answer,        \* what it answered then: the agent's state
  waited,        \* time since the request was sent or a part of the reply came
  elapsed,       \* time since _wait_for_tasks began
  left,          \* what is left of the sleep
  agent,         \* the agent working on the chat
  agentEnd,      \* history: elapsed when the agent ended, or Never
  error          \* what run raised

http == <<request, answer, waited>>
server == <<agent, agentEnd>>
vars == <<pc, async, open, http, elapsed, left, server, error>>

Never == -1
NoError == "none"

Requests == {"create", "complete", "poll", "read"}
Ended == {"returned", "raised"}
AgentStates == {"none", "running", "done", "failed"}

Lesser(a, b) == IF a < b THEN a ELSE b

\* The completion's reply, or its next part, may take as long as the read
\* timeout lets it.
Limit == IF pc = "complete" THEN Timeout ELSE Latency

Init ==
  /\ pc = "idle"
  /\ async = FALSE
  /\ open = TRUE
  /\ request = "sent" /\ answer = "none" /\ waited = 0
  /\ elapsed = 0 /\ left = 0
  /\ agent = "none" /\ agentEnd = Never
  /\ error = NoError

-----------------------------------------------------------------------------
(* The client *)

Raise(what) == pc' = "raised" /\ error' = what

\* _request sends, or fails its assertion when the client has been closed.
Ask(next) ==
  /\ IF open THEN pc' = next /\ UNCHANGED error ELSE Raise("closed")
  /\ request' = "sent" /\ answer' = "none" /\ waited' = 0

\* Options that override protocol fields are refused before any request; a
\* closed HTTP client is opened again.
Run(session, conflict) ==
  /\ pc = "idle" \/ pc \in Ended
  /\ async' = session
  /\ request' = "sent" /\ answer' = "none" /\ waited' = 0
  /\ elapsed' = 0 /\ left' = 0
  /\ agent' = "none" /\ agentEnd' = Never
  /\ IF conflict
     THEN Raise("conflict") /\ UNCHANGED open
     ELSE pc' = "create" /\ error' = NoError /\ open' = TRUE

CreateReply ==
  /\ pc = "create" /\ request = "served"
  /\ Ask("complete")
  /\ UNCHANGED <<async, open, elapsed, left, server>>

FaultyAfterCompletion == "read"

AfterCompletion == IF async THEN "poll" ELSE "read"

CompleteReply ==
  /\ pc = "complete" /\ request = "served"
  /\ ~async => agent # "running"
  /\ Ask(AfterCompletion)
  /\ UNCHANGED <<async, open, elapsed, left, server>>

FaultyGivesUp == elapsed + PollInterval >= Timeout

\* Nothing remains of the wait.
GivesUp == elapsed >= Timeout

FaultyPauseInterval == PollInterval
FaultyPauseRest == Timeout - elapsed

Pause == Lesser(PollInterval, Timeout - elapsed)

\* No task is left.
PollClear ==
  /\ pc = "poll" /\ request = "served"
  /\ answer # "running"
  /\ Ask("read")
  /\ UNCHANGED <<async, open, elapsed, left, server>>

PollBusy ==
  /\ pc = "poll" /\ request = "served"
  /\ answer = "running"
  /\ IF GivesUp
     THEN Raise("timeout") /\ UNCHANGED left
     ELSE pc' = "sleep" /\ left' = Pause /\ UNCHANGED error
  /\ UNCHANGED <<async, open, http, elapsed, server>>

FaultyPollAgain == Ask("poll") /\ elapsed' = 0
PollAgain == Ask("poll") /\ UNCHANGED elapsed

Wake ==
  /\ pc = "sleep" /\ left = 0
  /\ PollAgain
  /\ UNCHANGED <<async, open, left, server>>

\* _assistant_message: a message with an error raises, any other is returned.
ReadReply ==
  /\ pc = "read" /\ request = "served"
  /\ IF answer = "failed" THEN Raise("answer") ELSE pc' = "returned" /\ UNCHANGED error
  /\ UNCHANGED <<async, open, http, elapsed, left, server>>

\* An error status, an unusable body, a lost connection, or the read timeout.
RequestFails ==
  /\ pc \in Requests
  /\ Raise("request")
  /\ UNCHANGED <<async, open, http, elapsed, left, server>>

ReadTimeout == waited >= Limit /\ RequestFails

\* The dispatcher cancels the task the call runs in.
Cancelled ==
  /\ pc \in Requests \cup {"sleep"}
  /\ Raise("cancelled")
  /\ UNCHANGED <<async, open, http, elapsed, left, server>>

\* A request in flight fails or is answered all the same.
Close ==
  /\ open
  /\ open' = FALSE
  /\ UNCHANGED <<pc, async, http, elapsed, left, server, error>>

-----------------------------------------------------------------------------
(* OpenWebUI and time *)

\* The request is acted on: a completion starts the agent, a poll or a read
\* sees how far it is.
Serve ==
  /\ pc \in Requests /\ request = "sent"
  /\ request' = "served"
  /\ agent' = IF pc = "complete" THEN "running" ELSE agent
  /\ answer' = IF pc \in {"poll", "read"} THEN agent ELSE "none"
  /\ UNCHANGED <<pc, async, open, waited, elapsed, left, agentEnd, error>>

\* A part of a streamed completion: the read timeout starts anew.
Chunk ==
  /\ pc = "complete" /\ request = "served"
  /\ ~async /\ agent = "running"
  /\ waited' = 0
  /\ UNCHANGED <<pc, async, open, request, answer, elapsed, left, server, error>>

AgentEnds(outcome) ==
  /\ agent = "running"
  /\ agent' = outcome
  /\ agentEnd' = elapsed
  /\ UNCHANGED <<pc, async, open, http, elapsed, left, error>>

\* One unit of time, unless a sleep is over or a reply is overdue.
Tick ==
  /\ \/ pc \in Requests /\ waited < Limit /\ waited' = waited + 1 /\ UNCHANGED left
     \/ pc = "sleep" /\ left > 0 /\ left' = left - 1 /\ UNCHANGED waited
  /\ elapsed' = IF pc \in {"poll", "sleep"} THEN elapsed + 1 ELSE elapsed
  /\ UNCHANGED <<pc, async, open, request, answer, server, error>>

Reply == CreateReply \/ CompleteReply \/ PollClear \/ PollBusy \/ Wake \/ ReadReply

Next ==
  \/ \E session, conflict \in BOOLEAN : Run(session, conflict)
  \/ Reply
  \/ RequestFails
  \/ Cancelled
  \/ Close
  \/ Serve
  \/ Chunk
  \/ \E outcome \in {"done", "failed"} : AgentEnds(outcome)
  \/ Tick

\* Time passes, replies are handled and read timeouts strike; OpenWebUI and its
\* agent promise nothing.
Spec == Init /\ [][Next]_vars /\ WF_vars(Tick) /\ WF_vars(Reply) /\ WF_vars(ReadTimeout)

-----------------------------------------------------------------------------
(* Properties *)

TypeOK ==
  /\ pc \in Requests \cup Ended \cup {"idle", "sleep"}
  /\ async \in BOOLEAN /\ open \in BOOLEAN
  /\ request \in {"sent", "served"}
  /\ answer \in AgentStates
  /\ waited \in 0..Timeout
  /\ elapsed \in Nat
  /\ left \in 0..PollInterval
  /\ agent \in AgentStates
  /\ agentEnd \in Nat \cup {Never}
  /\ error \in {NoError, "conflict", "closed", "request", "timeout", "answer", "cancelled"}

\* run never returns the message of an agent that is still working or that
\* failed, whether it waited in the completion request or polled: the message
\* is read only after the agent was seen to have ended.
AnswerIsFinal == pc = "returned" => answer = "done"

\* However slow the polls, a wait ends at most one request after its deadline.
WaitIsBounded == pc \in {"poll", "sleep"} => elapsed <= Timeout + Latency

\* TimeoutError is raised only if the agent had not ended one poll's latency
\* before the deadline: the last sleep is cut so that a poll follows the
\* deadline, and its answer cannot be older than that.
TimeoutOnlyIfLate ==
  (pc = "raised" /\ error = "timeout") => agentEnd = Never \/ agentEnd >= Timeout - Latency

\* A call that polls always ends, also when the agent never does; one that
\* reads the stream ends once the agent has ended (the read timeout alone does
\* not end it: every part of the stream starts it anew).
RunEnds == (pc \in Requests /\ (async \/ agent \in {"done", "failed"})) ~> pc \in Ended
=============================================================================
