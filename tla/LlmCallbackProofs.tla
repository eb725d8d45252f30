--------------------------- MODULE LlmCallbackProofs ---------------------------
(***************************************************************************)
(* Proofs about LlmCallback for every timeout, poll interval and latency.  *)
(*                                                                         *)
(* The three properties rest on what is known while a request is under     *)
(* way: no poll is sent after the deadline, an answer that the agent has   *)
(* ended stays true, and an answer that it is running was true at some     *)
(* moment since the poll was sent.                                         *)
(***************************************************************************)
EXTENDS LlmCallback, TLAPS

USE TimeAssumption

\* How the clocks relate: a poll was sent no later than the deadline.
ClockInv ==
  /\ pc \in Requests => waited <= Limit
  /\ pc \in {"create", "complete"} => elapsed = 0
  /\ pc = "poll" => elapsed - waited <= Timeout
  /\ pc = "sleep" => elapsed + left <= Timeout
  /\ error = "timeout" => elapsed >= Timeout

\* What an answer says about the agent after it was given.
AgentInv ==
  /\ pc = "create" \/ (pc = "complete" /\ request = "sent") => agent = "none"
  /\ (pc = "complete" /\ request = "served") \/ pc \in {"poll", "sleep", "read"}
       => agent # "none"
  /\ pc \in {"poll", "read"} /\ request = "served" => answer # "none"
  /\ pc = "poll" /\ request = "served" /\ answer # "running" => agent = answer
  /\ pc = "read" => agent # "running"
  /\ pc = "read" /\ request = "served" => answer = agent

\* When the agent can have ended.
EndInv ==
  /\ agent \in {"none", "running"} => agentEnd = Never
  /\ pc = "poll" /\ request = "served" /\ answer = "running"
       => agentEnd = Never \/ agentEnd >= elapsed - waited

CallInv ==
  /\ TypeOK /\ ClockInv /\ AgentInv /\ EndInv
  /\ AnswerIsFinal /\ TimeoutOnlyIfLate

LEMMA InitCallInv == Init => CallInv
<1> SUFFICES ASSUME Init PROVE CallInv
  OBVIOUS
<1> USE DEF Init, Requests, Ended, AgentStates, Never, NoError
<1>1. TypeOK
  <2>1. async \in BOOLEAN /\ open \in BOOLEAN
    OBVIOUS
  <2>2. waited \in 0..Timeout /\ elapsed \in Nat /\ left \in 0..PollInterval
    OBVIOUS
  <2>3. agentEnd \in Nat \cup {Never}
    OBVIOUS
  <2>4. pc \in Requests \cup Ended \cup {"idle", "sleep"}
    OBVIOUS
  <2>5. error \in {NoError, "conflict", "closed", "request", "timeout", "answer", "cancelled"}
    OBVIOUS
  <2> QED BY <2>1, <2>2, <2>3, <2>4, <2>5 DEF TypeOK
<1>2. ClockInv /\ AgentInv /\ EndInv
  BY DEF ClockInv, AgentInv, EndInv
<1>3. AnswerIsFinal /\ TimeoutOnlyIfLate
  BY DEF AnswerIsFinal, TimeoutOnlyIfLate
<1> QED BY <1>1, <1>2, <1>3 DEF CallInv

\* Every step of the client, the agent or the clock preserves the invariant.
LEMMA StepCallInv == CallInv /\ [Next]_vars => CallInv'
<1> SUFFICES ASSUME CallInv, [Next]_vars PROVE CallInv'
  OBVIOUS
<1> USE DEF CallInv, TypeOK, ClockInv, AgentInv, EndInv, AnswerIsFinal, TimeoutOnlyIfLate,
            Requests, Ended, AgentStates, Never, NoError, Limit, http, server
<1>1. ASSUME NEW session \in BOOLEAN, NEW conflict \in BOOLEAN, Run(session, conflict)
      PROVE  CallInv'
  <2>1. TypeOK'
    <3>1. async' \in BOOLEAN /\ open' \in BOOLEAN
      BY <1>1 DEF Run, Raise
    <3>2. /\ waited' \in 0..Timeout /\ elapsed' \in Nat /\ left' \in 0..PollInterval
          /\ agentEnd' \in Nat \cup {Never}
      BY <1>1 DEF Run, Raise
    <3>3. pc' \in Requests \cup Ended /\ error' \in {NoError, "conflict"}
      BY <1>1 DEF Run, Raise
    <3>4. request' = "sent" /\ answer' = "none" /\ agent' = "none"
      BY <1>1 DEF Run, Raise
    <3> QED BY <3>1, <3>2, <3>3, <3>4
  <2>2. ClockInv'
    BY <1>1 DEF Run, Raise
  <2>3. AgentInv' /\ EndInv'
    BY <1>1 DEF Run, Raise
  <2>4. AnswerIsFinal' /\ TimeoutOnlyIfLate'
    BY <1>1 DEF Run, Raise
  <2> QED BY <2>1, <2>2, <2>3, <2>4
<1>2. CASE CreateReply
  BY <1>2 DEF CreateReply, Ask, Raise
<1>3. CASE CompleteReply
  <2>1. TypeOK'
    <3>1. UNCHANGED <<async, open, elapsed, left, server>>
      BY <1>3 DEF CompleteReply
    <3>2. request' = "sent" /\ answer' = "none" /\ waited' = 0
      BY <1>3 DEF CompleteReply, Ask
    <3>3. \/ pc' \in {"poll", "read"} /\ error' = error
          \/ pc' = "raised" /\ error' = "closed"
      BY <1>3 DEF CompleteReply, AfterCompletion, Ask, Raise
    <3> QED BY <3>1, <3>2, <3>3
  <2>2. ClockInv'
    BY <1>3 DEF CompleteReply, AfterCompletion, Ask, Raise
  <2>3. AgentInv' /\ EndInv'
    BY <1>3 DEF CompleteReply, AfterCompletion, Ask, Raise
  <2>4. AnswerIsFinal' /\ TimeoutOnlyIfLate'
    BY <1>3 DEF CompleteReply, AfterCompletion, Ask, Raise
  <2> QED BY <2>1, <2>2, <2>3, <2>4
<1>4. CASE PollClear
  BY <1>4 DEF PollClear, Ask, Raise
<1>5. CASE PollBusy
  BY <1>5 DEF PollBusy, GivesUp, Pause, Lesser, Raise
<1>6. CASE Wake
  BY <1>6 DEF Wake, PollAgain, Ask, Raise
<1>7. CASE ReadReply
  BY <1>7 DEF ReadReply, Raise
<1>8. CASE RequestFails \/ Cancelled
  BY <1>8 DEF RequestFails, Cancelled, Raise
<1>9. CASE Close \/ Chunk
  <2>1. TypeOK'
    <3>1. CASE Close
      BY <3>1 DEF Close
    <3>2. CASE Chunk
      BY <3>2 DEF Chunk
    <3> QED BY <1>9, <3>1, <3>2
  <2>2. ClockInv'
    BY <1>9 DEF Close, Chunk
  <2>3. AgentInv' /\ EndInv'
    BY <1>9 DEF Close, Chunk
  <2>4. AnswerIsFinal' /\ TimeoutOnlyIfLate'
    BY <1>9 DEF Close, Chunk
  <2> QED BY <2>1, <2>2, <2>3, <2>4
<1>10. CASE Serve
  <2>1. TypeOK'
    BY <1>10 DEF Serve
  <2>2. ClockInv'
    BY <1>10 DEF Serve
  <2>3. AgentInv' /\ EndInv'
    BY <1>10 DEF Serve
  <2>4. AnswerIsFinal' /\ TimeoutOnlyIfLate'
    BY <1>10 DEF Serve
  <2> QED BY <2>1, <2>2, <2>3, <2>4
<1>11. ASSUME NEW outcome \in {"done", "failed"}, AgentEnds(outcome) PROVE CallInv'
  BY <1>11 DEF AgentEnds
<1>12. CASE Tick
  BY <1>12 DEF Tick
<1>13. CASE UNCHANGED vars
  BY <1>13 DEF vars
<1> QED
  BY <1>1, <1>2, <1>3, <1>4, <1>5, <1>6, <1>7, <1>8, <1>9, <1>10, <1>11, <1>12, <1>13
     DEF Next, Reply

LEMMA CallInvHolds == Spec => []CallInv
<1> QED BY InitCallInv, StepCallInv, PTL DEF Spec

\* Every variable keeps its type: no sleep is longer than the poll interval
\* or negative, and no request outlasts the read timeout.
THEOREM CallTypeCorrect == Spec => []TypeOK
<1>1. CallInv => TypeOK
  BY DEF CallInv
<1> QED BY CallInvHolds, <1>1, PTL

\* run returns only the message of an agent that has ended well.
THEOREM AnswersAreFinal == Spec => []AnswerIsFinal
<1>1. CallInv => AnswerIsFinal
  BY DEF CallInv
<1> QED BY CallInvHolds, <1>1, PTL

\* A wait ends at most one request after its deadline.
THEOREM WaitsAreBounded == Spec => []WaitIsBounded
<1>1. CallInv => WaitIsBounded
  BY DEF CallInv, TypeOK, ClockInv, WaitIsBounded, Requests, Limit
<1> QED BY CallInvHolds, <1>1, PTL

\* An agent that ends a poll's latency before the deadline is never given up.
THEOREM TimeoutsAreHonest == Spec => []TimeoutOnlyIfLate
<1>1. CallInv => TimeoutOnlyIfLate
  BY DEF CallInv
<1> QED BY CallInvHolds, <1>1, PTL
=============================================================================
