------------------------ MODULE WebhookDispatcherProofs ------------------------
(***************************************************************************)
(* Proofs about WebhookDispatcher for every number of records, batch size, *)
(* cooldown, maximum age, queue size and set of subscribers.               *)
(*                                                                         *)
(* In this order: types; timers, their bound and cancellation; closing;    *)
(* that no record is lost or repeated; the SSE queues; that no flush is    *)
(* early; and that the dispatcher implements OrderedHandoff.               *)
(***************************************************************************)
EXTENDS WebhookDispatcher, TLAPS

USE BoundsAssumption, ConfigAssumption

\* Steps of a task leave the SSE side and the counters alone and only change
\* that task and, when it takes the buffer, the buffer.
LEMMA FanOutType ==
  ASSUME NEW qs, NEW r \in Records,
         \A s \in DOMAIN qs : qs[s] \in Seq(Records)
  PROVE  /\ DOMAIN FanOut(qs, r) = DOMAIN qs
         /\ \A s \in DOMAIN qs : FanOut(qs, r)[s] \in Seq(Records)
<1>1. ASSUME NEW s \in DOMAIN qs
      PROVE  FanOut(qs, r)[s] \in Seq(Records)
  <2>1. CASE Len(qs[s]) >= QueueMaxsize
    <3>1. qs[s] # <<>>
      BY <2>1
    <3>2. Tail(qs[s]) \in Seq(Records)
      BY <3>1
    <3> QED BY <2>1, <3>2 DEF FanOut
  <2>2. CASE ~(Len(qs[s]) >= QueueMaxsize)
    BY <2>2 DEF FanOut
  <2> QED BY <2>1, <2>2
<1> QED BY <1>1 DEF FanOut

\* Cancelling tasks keeps their type and touches nothing but the flag.
LEMMA CancelType ==
  ASSUME tasks \in [Records -> Task], NEW S
  PROVE  Cancel(S) \in [Records -> Task]
BY DEF Cancel, Task

\* A task as it is created has the type of a task.
LEMMA NewTaskType ==
  ASSUME NEW pc \in {"created", "ready"}, NEW left \in Int, NEW batch \in Seq(Records)
  PROVE  NewTask(pc, left, batch) \in Task
BY DEF NewTask, Task, Running, Ended

\* The updates the task steps make keep a task's type.
LEMMA TaskUpdateType ==
  ASSUME NEW u \in Task
  PROVE  /\ \A n \in Int : [u EXCEPT !.left = n] \in Task
         /\ \A pc \in Running \cup Ended, b \in Seq(Records) :
              [u EXCEPT !.pc = pc, !.batch = b] \in Task
BY DEF Task

\* The buffer a dispatch works on and the two parts it may be cut into.
LEMMA BufferType ==
  ASSUME TypeOK, sent < MaxRecords
  PROVE  /\ sent + 1 \in Records
         /\ Buffer \in Seq(Records)
         /\ FullBatch \in Seq(Records) \/ Len(Buffer) < BatchMax
         /\ Rest \in Seq(Records)
<1>1. sent + 1 \in Records
  BY DEF TypeOK, Records
<1>2. Buffer \in Seq(Records) /\ Len(Buffer) = Len(pending) + 1
  BY <1>1 DEF TypeOK, Buffer
<1>3. Rest \in Seq(Records)
  BY <1>2 DEF Rest
<1>4. Len(Buffer) >= BatchMax => FullBatch \in Seq(Records)
  BY <1>2 DEF FullBatch
<1> QED BY <1>1, <1>2, <1>3, <1>4

LEMMA InitType == Init => TypeOK
BY DEF Init, TypeOK, NewTask, Task, Records, Running, Ended, Unset, NoTask, AgeCap

\* Every step keeps every variable's type.
LEMMA StepType == TypeOK /\ [Next]_vars => TypeOK'
<1> SUFFICES ASSUME TypeOK, [Next]_vars PROVE TypeOK'
  OBVIOUS
<1> USE DEF TypeOK
<1>1. ASSUME NEW s \in Subscribers, Subscribe(s) PROVE TypeOK'
  BY <1>1 DEF Subscribe, llmVars
<1>2. ASSUME NEW s \in Subscribers, Stream(s) PROVE TypeOK'
  <2>1. Head(queues[s]) \in Records /\ Tail(queues[s]) \in Seq(Records)
    BY <1>2 DEF Stream
  <2>2. streamed' \in [Subscribers -> 0..MaxRecords]
    BY <1>2, <2>1 DEF Stream, Records
  <2>3. DOMAIN queues' = DOMAIN queues /\ \A c \in DOMAIN queues : queues'[c] \in Seq(Records)
    BY <1>2, <2>1 DEF Stream
  <2> QED BY <1>2, <2>2, <2>3 DEF Stream, llmVars
<1>3. ASSUME NEW s \in Subscribers, Unsubscribe(s) PROVE TypeOK'
  BY <1>3 DEF Unsubscribe, llmVars
<1>4. ASSUME Accept PROVE /\ hasLlm' \in BOOLEAN
                          /\ open' \in BOOLEAN /\ sent' \in 0..MaxRecords /\ quiet' \in 0..Cooldown
                          /\ DOMAIN queues' \subseteq Subscribers
                          /\ \A s \in DOMAIN queues' : queues'[s] \in Seq(Records)
                          /\ streamed' \in [Subscribers -> 0..MaxRecords]
  BY <1>4, BufferType, FanOutType DEF Accept
<1>5. ASSUME DispatchEventOnly PROVE TypeOK'
  BY <1>4, <1>5 DEF DispatchEventOnly, llmVars
<1>6. ASSUME DispatchRearm PROVE TypeOK'
  <2>1. Accept /\ sent < MaxRecords
    BY <1>6 DEF DispatchRearm, Accept
  <2>2. Wait \in Int /\ StartedAge \in 0..AgeCap
    BY DEF Wait, StartedAge, Lesser, Unset, AgeCap
  <2>3. NewTask("created", Wait, <<>>) \in Task
    <3>1. <<>> \in Seq(Records) /\ Wait \in Int
      BY <2>2
    <3> QED BY <3>1, NewTaskType
  <2>4. tasks' \in [Records -> Task]
    BY <1>6, <2>1, <2>3, CancelType, BufferType DEF DispatchRearm
  <2> QED BY <1>4, <1>6, <2>1, <2>2, <2>4, BufferType DEF DispatchRearm
<1>7. ASSUME DispatchFull PROVE TypeOK'
  <2>1. Accept /\ sent < MaxRecords /\ Len(Buffer) >= BatchMax
    BY <1>7 DEF DispatchFull, Accept, IsFull
  <2>2. FullBatch \in Seq(Records) /\ Rest \in Seq(Records)
    <3>1. Len(Buffer) \in Nat
      BY <2>1, BufferType
    <3> QED BY <2>1, <3>1, BufferType
  <2>3. NewTask("ready", 0, FullBatch) \in Task
    BY <2>2, NewTaskType
  <2>4. tasks' \in [Records -> Task]
    BY <1>7, <2>1, <2>3, CancelType, BufferType DEF DispatchFull
  <2>5. batchAge' \in {Unset} \cup 0..AgeCap
    BY <1>7 DEF DispatchFull, AgeCap
  <2> QED BY <1>4, <1>7, <2>1, <2>2, <2>4, <2>5 DEF DispatchFull
<1>8. ASSUME NEW t \in Records, Resume(t) PROVE TypeOK'
  <2> USE DEF Task, Running, Ended, sseVars
  <2>1. CASE CooldownSleep(t)
    BY <2>1 DEF CooldownSleep
  <2>2. CASE CooldownFire(t)
    <3>1. tasks' \in [Records -> Task]
      <4> DEFINE pc == IF pending = <<>> THEN "idle" ELSE "calling"
      <4>1. pc \in Running \cup Ended /\ tasks[t] \in Task
        OBVIOUS
      <4>2. tasks' = [tasks EXCEPT ![t] = [tasks[t] EXCEPT !.pc = pc, !.batch = pending]]
        BY <2>2 DEF CooldownFire
      <4>3. [tasks[t] EXCEPT !.pc = pc, !.batch = pending] \in Task
        BY <4>1, TaskUpdateType
      <4> QED BY <4>2, <4>3
    <3> QED BY <2>2, <3>1 DEF CooldownFire, TakeBuffer
  <2>3. CASE StartDelivery(t)
    BY <2>3 DEF StartDelivery
  <2>4. CASE Unwind(t)
    BY <2>4 DEF Unwind
  <2> QED BY <1>8, <2>1, <2>2, <2>3, <2>4 DEF Resume
<1>9. ASSUME NEW t \in Records, NEW result \in {"delivered", "failed"}, EndCall(t, result)
      PROVE  TypeOK'
  BY <1>9 DEF EndCall, Task, Ended, sseVars
<1>10. ASSUME Close PROVE TypeOK'
  BY <1>10, CancelType DEF Close, sseVars
<1>11. ASSUME Tick PROVE TypeOK'
  <2>1. tasks' \in [Records -> Task]
    <3>1. ASSUME NEW t \in Records PROVE [tasks[t] EXCEPT !.left = @ - 1] \in Task
      <4>1. tasks[t] \in Task /\ tasks[t].left - 1 \in Int
        BY DEF Task
      <4> QED BY <4>1, TaskUpdateType
    <3> QED BY <1>11, <3>1 DEF Tick
  <2>2. batchAge' \in {Unset} \cup 0..AgeCap /\ quiet' \in 0..Cooldown
    BY <1>11 DEF Tick, Lesser, AgeCap, Unset
  <2> QED BY <1>11, <2>1, <2>2 DEF Tick, sseVars
<1>12. CASE UNCHANGED vars
  BY <1>12 DEF vars
<1> QED
  BY <1>1, <1>2, <1>3, <1>5, <1>6, <1>7, <1>8, <1>9, <1>10, <1>11, <1>12 DEF Next

\* Every variable keeps its type: the invariant TypeOK of the specification.
THEOREM TypeCorrect == Spec => []TypeOK
BY InitType, StepType, PTL DEF Spec

-----------------------------------------------------------------------------
(***************************************************************************)
(* The maximum age.  MaxAgeBound is not inductive: that the age stays      *)
(* within bounds rests on the timer that will flush the batch, so the      *)
(* invariant says that while the dispatcher is open a non-empty buffer has *)
(* a current cooldown task that is not cancelled, has not fired, and will  *)
(* fire no later than the maximum age; and that every other cooldown task  *)
(* still waiting is cancelled.                                             *)
(***************************************************************************)
Waiting == {"created", "asleep"}

EmptyBufferHasNoTimer == pending = <<>> => batchAge = Unset /\ cooldownTask = NoTask

BufferHasTimer ==
  pending # <<>> =>
    /\ cooldownTask \in Records
    /\ tasks[cooldownTask].pc \in Waiting
    /\ ~tasks[cooldownTask].cancelled
    /\ batchAge \in 0..MaxQueue
    /\ batchAge + tasks[cooldownTask].left <= MaxQueue

OthersAreCancelled ==
  \A t \in Records : tasks[t].pc \in Waiting /\ t # cooldownTask => tasks[t].cancelled

TimerInv == open => EmptyBufferHasNoTimer /\ BufferHasTimer /\ OthersAreCancelled

\* Tasks hold a batch only from the moment they are given one.
BatchInv ==
  /\ Len(pending) < BatchMax
  /\ \A t \in Records :
       /\ tasks[t].pc \in Waiting \cup {"absent", "idle"} => tasks[t].batch = <<>>
       /\ t > sent => tasks[t].pc = "absent"
  /\ CancelNeverHitsABatch

IInv == TypeOK /\ TimerInv /\ BatchInv

\* What cancelling the current cooldown task does to each task.
LEMMA CancelCurrent ==
  ASSUME tasks \in [Records -> Task], NEW t \in Records
  PROVE  /\ Cancel({cooldownTask})[t].pc = tasks[t].pc
         /\ Cancel({cooldownTask})[t].batch = tasks[t].batch
         /\ t # cooldownTask => Cancel({cooldownTask})[t] = tasks[t]
         /\ t = cooldownTask /\ tasks[t].pc \in Running => Cancel({cooldownTask})[t].cancelled
BY DEF Cancel, Task

\* The buffer with the new record; at the cap the whole of it is the batch.
LEMMA BufferCut ==
  ASSUME TypeOK, sent < MaxRecords, Len(pending) < BatchMax
  PROVE  /\ Len(Buffer) = Len(pending) + 1
         /\ Buffer # <<>>
         /\ IsFull => Len(Buffer) = BatchMax /\ FullBatch = Buffer /\ Rest = <<>>
<1>1. pending \in Seq(Records) /\ sent + 1 \in Records
  BY DEF TypeOK, Records
<1>2. Buffer \in Seq(Records) /\ Len(Buffer) = Len(pending) + 1
  BY <1>1 DEF Buffer
<1>3. IsFull => Len(Buffer) = BatchMax
  BY <1>1, <1>2 DEF IsFull
<1>4. IsFull => FullBatch = Buffer
  BY <1>2, <1>3 DEF FullBatch
<1>5. IsFull => Rest = <<>>
  BY <1>2, <1>3 DEF Rest
<1> QED BY <1>1, <1>2, <1>3, <1>4, <1>5

LEMMA InitIInv == Init => IInv
<1> SUFFICES ASSUME Init PROVE IInv
  OBVIOUS
<1>1. TypeOK
  BY InitType
<1>2. \A t \in Records : tasks[t].pc = "absent" /\ tasks[t].batch = <<>>
  BY DEF Init, NewTask
<1>3. TimerInv
  BY <1>2 DEF Init, TimerInv, EmptyBufferHasNoTimer, BufferHasTimer, OthersAreCancelled, Waiting
<1>4. BatchInv
  BY <1>2 DEF Init, BatchInv, CancelNeverHitsABatch, Waiting
<1> QED BY <1>1, <1>3, <1>4 DEF IInv

\* A dispatch that only restarts the debounce keeps the invariant.
LEMMA RearmIInv == IInv /\ DispatchRearm => TimerInv' /\ BatchInv'
<1> SUFFICES ASSUME IInv, DispatchRearm PROVE TimerInv' /\ BatchInv'
  OBVIOUS
<1> USE DEF IInv
<1>1. TypeOK /\ open /\ sent < MaxRecords /\ sent' = sent + 1 /\ open' = open
  BY DEF DispatchRearm, Accept
<1>2. sent + 1 \in Records /\ tasks[sent + 1].pc = "absent"
  BY <1>1, BufferType DEF BatchInv, TypeOK
<1>3. pending' = Buffer /\ Buffer # <<>> /\ Len(pending') < BatchMax
  <2>1. Len(Buffer) \in Nat
    BY <1>1, BufferType
  <2> QED BY <1>1, <2>1, BufferCut DEF DispatchRearm, BatchInv, IsFull
<1>4. /\ cooldownTask' = sent + 1
      /\ tasks'[sent + 1].pc = "created" /\ tasks'[sent + 1].left = Wait
      /\ ~tasks'[sent + 1].cancelled /\ tasks'[sent + 1].batch = <<>>
  <2>1. tasks'[sent + 1] = NewTask("created", Wait, <<>>)
    BY <1>2, CancelType DEF DispatchRearm, TypeOK
  <2> QED BY <2>1 DEF DispatchRearm, NewTask
<1>5. ASSUME NEW t \in Records, t # sent + 1
      PROVE  /\ tasks'[t].pc = tasks[t].pc /\ tasks'[t].batch = tasks[t].batch
             /\ t # cooldownTask => tasks'[t] = tasks[t]
             /\ t = cooldownTask /\ tasks[t].pc \in Running => tasks'[t].cancelled
  <2>1. tasks \in [Records -> Task]
    BY DEF TypeOK
  <2>2. tasks'[t] = Cancel({cooldownTask})[t]
    BY <2>1, <1>5, CancelType DEF DispatchRearm
  <2> QED BY <2>1, <2>2, CancelCurrent
<1>6. batchAge' \in 0..MaxQueue /\ Wait \in Int /\ batchAge' + Wait <= MaxQueue
  <2>1. StartedAge \in 0..MaxQueue
    BY <1>1 DEF TimerInv, EmptyBufferHasNoTimer, BufferHasTimer, StartedAge
  <2> QED BY <2>1 DEF DispatchRearm, Wait, Lesser
<1>7. BufferHasTimer'
  BY <1>2, <1>4, <1>6 DEF BufferHasTimer, Waiting
<1>8. OthersAreCancelled'
  BY <1>1, <1>4, <1>5 DEF OthersAreCancelled, TimerInv, Waiting, Running
<1>9. \A t \in Records : tasks'[t].pc \in Waiting \cup {"absent", "idle"} => tasks'[t].batch = <<>>
  BY <1>4, <1>5 DEF BatchInv
<1>10. \A t \in Records : t > sent' => tasks'[t].pc = "absent"
  <2>1. sent \in Nat /\ Records \subseteq Nat
    BY DEF TypeOK, Records
  <2>2. ASSUME NEW t \in Records, t > sent' PROVE t > sent /\ t # sent + 1
    BY <1>1, <2>1, <2>2
  <2> QED BY <1>5, <2>2 DEF BatchInv
<1>11. CancelNeverHitsABatch'
  <2> SUFFICES ASSUME NEW t \in Records, tasks'[t].cancelled PROVE tasks'[t].batch = <<>>
    BY DEF CancelNeverHitsABatch
  <2>1. CASE t = sent + 1
    BY <2>1, <1>4
  <2>2. CASE t # sent + 1 /\ t = cooldownTask
    BY <2>2, <1>1, <1>5 DEF BatchInv, TimerInv, BufferHasTimer, EmptyBufferHasNoTimer, NoTask, Records
  <2>3. CASE t # sent + 1 /\ t # cooldownTask
    BY <2>3, <1>1, <1>5 DEF BatchInv, CancelNeverHitsABatch
  <2> QED BY <2>1, <2>2, <2>3
<1> QED
  BY <1>3, <1>7, <1>8, <1>9, <1>10, <1>11 DEF TimerInv, BatchInv, EmptyBufferHasNoTimer

\* A dispatch that reaches the cap empties the buffer and keeps the invariant.
LEMMA FullIInv == IInv /\ DispatchFull => TimerInv' /\ BatchInv'
<1> SUFFICES ASSUME IInv, DispatchFull PROVE TimerInv' /\ BatchInv'
  OBVIOUS
<1> USE DEF IInv
<1>1. TypeOK /\ open /\ sent < MaxRecords /\ sent' = sent + 1 /\ open' = open
  BY DEF DispatchFull, Accept
<1>2. sent + 1 \in Records /\ tasks[sent + 1].pc = "absent"
  BY <1>1, BufferType DEF BatchInv, TypeOK
<1>3. pending' = <<>> /\ batchAge' = Unset /\ cooldownTask' = NoTask
  BY <1>1, BufferCut DEF DispatchFull, BatchInv
<1>4. tasks'[sent + 1].pc = "ready" /\ ~tasks'[sent + 1].cancelled
  <2>1. tasks'[sent + 1] = NewTask("ready", 0, FullBatch)
    BY <1>2, CancelType DEF DispatchFull, TypeOK
  <2> QED BY <2>1 DEF NewTask
<1>5. ASSUME NEW t \in Records, t # sent + 1
      PROVE  /\ tasks'[t].pc = tasks[t].pc /\ tasks'[t].batch = tasks[t].batch
             /\ t # cooldownTask => tasks'[t] = tasks[t]
             /\ t = cooldownTask /\ tasks[t].pc \in Running => tasks'[t].cancelled
  <2>1. tasks \in [Records -> Task]
    BY DEF TypeOK
  <2>2. tasks'[t] = Cancel({cooldownTask})[t]
    BY <2>1, <1>5, CancelType DEF DispatchFull
  <2> QED BY <2>1, <2>2, CancelCurrent
<1>6. OthersAreCancelled'
  BY <1>1, <1>4, <1>5 DEF OthersAreCancelled, TimerInv, Waiting, Running
<1>7. \A t \in Records : tasks'[t].pc \in Waiting \cup {"absent", "idle"} => tasks'[t].batch = <<>>
  BY <1>4, <1>5 DEF BatchInv, Waiting
<1>8. \A t \in Records : t > sent' => tasks'[t].pc = "absent"
  <2>1. sent \in Nat /\ Records \subseteq Nat
    BY DEF TypeOK, Records
  <2>2. ASSUME NEW t \in Records, t > sent' PROVE t > sent /\ t # sent + 1
    BY <1>1, <2>1, <2>2
  <2> QED BY <1>5, <2>2 DEF BatchInv
<1>9. CancelNeverHitsABatch'
  <2> SUFFICES ASSUME NEW t \in Records, tasks'[t].cancelled PROVE tasks'[t].batch = <<>>
    BY DEF CancelNeverHitsABatch
  <2>1. CASE t = sent + 1
    BY <2>1, <1>4
  <2>2. CASE t # sent + 1 /\ t = cooldownTask
    BY <2>2, <1>1, <1>5 DEF BatchInv, TimerInv, BufferHasTimer, EmptyBufferHasNoTimer, NoTask, Records
  <2>3. CASE t # sent + 1 /\ t # cooldownTask
    BY <2>3, <1>1, <1>5 DEF BatchInv, CancelNeverHitsABatch
  <2> QED BY <2>1, <2>2, <2>3
<1>10. Len(pending') < BatchMax
  BY <1>3
<1> QED
  BY <1>3, <1>6, <1>7, <1>8, <1>9, <1>10
     DEF TimerInv, BatchInv, EmptyBufferHasNoTimer, BufferHasTimer

\* The invariant is inductive.
LEMMA StepIInv == IInv /\ [Next]_vars => IInv'
<1> SUFFICES ASSUME IInv, [Next]_vars PROVE TimerInv' /\ BatchInv'
  BY StepType DEF IInv
<1> USE DEF IInv
<1>1. Records \subseteq Nat /\ tasks \in [Records -> Task] /\ NoTask \notin Records
  BY DEF TypeOK, Records, NoTask
\* A step that changes at most the task t, keeping its flag and its timer.
<1>2. ASSUME NEW t \in Records, UNCHANGED <<open, sent, pending, batchAge, cooldownTask>>,
             \A u \in Records \ {t} : tasks'[u] = tasks[u],
             tasks'[t].cancelled = tasks[t].cancelled, tasks'[t].left = tasks[t].left,
             tasks'[t].batch = tasks[t].batch,
             tasks[t].pc # "absent",
             \/ tasks[t].pc \in Waiting /\ tasks'[t].pc \in Waiting
             \/ tasks[t].pc \notin Waiting /\ tasks'[t].pc \notin Waiting \cup {"absent", "idle"}
             \/ /\ tasks[t].cancelled
                /\ tasks'[t].pc \notin Waiting \cup {"absent"}
                /\ tasks'[t].pc = "idle" => tasks[t].batch = <<>>
      PROVE  TimerInv' /\ BatchInv'
  <2>1. TimerInv'
    <3> SUFFICES ASSUME open PROVE EmptyBufferHasNoTimer' /\ BufferHasTimer' /\ OthersAreCancelled'
      BY <1>2 DEF TimerInv
    <3>1. EmptyBufferHasNoTimer /\ BufferHasTimer /\ OthersAreCancelled
      BY DEF TimerInv
    <3>2. BufferHasTimer'
      BY <1>2, <3>1 DEF BufferHasTimer
    <3>3. OthersAreCancelled'
      BY <1>2, <3>1 DEF OthersAreCancelled
    <3> QED BY <1>2, <3>1, <3>2, <3>3 DEF EmptyBufferHasNoTimer
  <2>2. \A u \in Records : tasks'[u].batch = tasks[u].batch /\ tasks'[u].cancelled = tasks[u].cancelled
    BY <1>2
  <2>3. CancelNeverHitsABatch'
    BY <1>2, <2>2 DEF BatchInv, CancelNeverHitsABatch
  <2>4. \A u \in Records : u > sent' => tasks'[u].pc = "absent"
    BY <1>2 DEF BatchInv
  <2>5. \A u \in Records : tasks'[u].pc \in Waiting \cup {"absent", "idle"} => tasks'[u].batch = <<>>
    BY <1>2 DEF BatchInv
  <2> QED BY <1>2, <2>1, <2>3, <2>4, <2>5 DEF BatchInv
<1>3. ASSUME UNCHANGED <<open, sent, llmVars>> PROVE TimerInv' /\ BatchInv'
  BY <1>3 DEF llmVars, TimerInv, EmptyBufferHasNoTimer, BufferHasTimer, OthersAreCancelled,
              BatchInv, CancelNeverHitsABatch
<1>4. ASSUME NEW s \in Subscribers, Subscribe(s) \/ Stream(s) \/ Unsubscribe(s)
      PROVE  TimerInv' /\ BatchInv'
  BY <1>3, <1>4 DEF Subscribe, Stream, Unsubscribe
<1>5. ASSUME DispatchEventOnly PROVE TimerInv' /\ BatchInv'
  <2>1. UNCHANGED <<open, llmVars>> /\ sent' = sent + 1 /\ sent \in Nat
    BY <1>5 DEF DispatchEventOnly, Accept, TypeOK
  <2>2. TimerInv'
    BY <2>1 DEF llmVars, TimerInv, EmptyBufferHasNoTimer, BufferHasTimer, OthersAreCancelled
  <2>3. \A t \in Records : t > sent' => t > sent
    BY <1>1, <2>1
  <2> QED BY <2>1, <2>2, <2>3 DEF llmVars, BatchInv, CancelNeverHitsABatch
<1>6. ASSUME NEW t \in Records, CooldownSleep(t) PROVE TimerInv' /\ BatchInv'
  <2>1. tasks' = [tasks EXCEPT ![t].pc = "asleep"] /\ tasks[t].pc = "created"
    BY <1>6 DEF CooldownSleep
  <2> QED BY <1>1, <1>2, <1>6, <2>1 DEF CooldownSleep, Task, Waiting
<1>7. ASSUME NEW t \in Records, CooldownFire(t) PROVE TimerInv' /\ BatchInv'
  <2>1. /\ pending' = <<>> /\ cooldownTask' = NoTask /\ batchAge' = Unset
        /\ UNCHANGED <<open, sent>>
        /\ tasks[t].pc \in Waiting /\ ~tasks[t].cancelled
    BY <1>7 DEF CooldownFire, TakeBuffer, IsDue, Waiting
  <2>2. /\ \A u \in Records \ {t} : tasks'[u] = tasks[u]
        /\ tasks'[t].pc = IF pending = <<>> THEN "idle" ELSE "calling"
        /\ tasks'[t].batch = pending
        /\ tasks'[t].cancelled = tasks[t].cancelled
    BY <1>1, <1>7 DEF CooldownFire, Task
  <2>3. ASSUME open PROVE OthersAreCancelled'
    <3>1. t = cooldownTask
      BY <2>1, <2>3 DEF TimerInv, OthersAreCancelled
    <3> QED BY <2>1, <2>2, <2>3, <3>1 DEF TimerInv, OthersAreCancelled, Waiting
  <2>4. TimerInv'
    BY <2>1, <2>3 DEF TimerInv, EmptyBufferHasNoTimer, BufferHasTimer
  <2>5. CancelNeverHitsABatch'
    BY <2>1, <2>2 DEF BatchInv, CancelNeverHitsABatch
  <2>6. \A u \in Records : u > sent' => tasks'[u].pc = "absent"
    BY <2>1, <2>2 DEF BatchInv, Waiting
  <2>7. \A u \in Records : tasks'[u].pc \in Waiting \cup {"absent", "idle"} => tasks'[u].batch = <<>>
    BY <2>1, <2>2 DEF BatchInv, Waiting
  <2> QED BY <2>1, <2>4, <2>5, <2>6, <2>7 DEF BatchInv
<1>8. ASSUME NEW t \in Records, StartDelivery(t) PROVE TimerInv' /\ BatchInv'
  <2>1. tasks' = [tasks EXCEPT ![t].pc = "calling"] /\ tasks[t].pc = "ready"
    BY <1>8 DEF StartDelivery
  <2> QED BY <1>1, <1>2, <1>8, <2>1 DEF StartDelivery, Task, Waiting
<1>9. ASSUME NEW t \in Records, Unwind(t) PROVE TimerInv' /\ BatchInv'
  <2>1. /\ tasks' = [tasks EXCEPT ![t].pc = tasks'[t].pc]
        /\ tasks'[t].pc \in {"idle", "aborted", "dropped"}
        /\ tasks'[t].pc = "idle" => tasks[t].batch = <<>>
        /\ tasks[t].pc \in Running /\ tasks[t].cancelled
        /\ UNCHANGED <<open, sent, pending, batchAge, cooldownTask>>
    BY <1>1, <1>9 DEF Unwind, Task
  <2> QED BY <1>1, <1>2, <2>1 DEF Task, Waiting, Running
<1>10. ASSUME NEW t \in Records, NEW result \in {"delivered", "failed"}, EndCall(t, result)
       PROVE  TimerInv' /\ BatchInv'
  <2>1. tasks' = [tasks EXCEPT ![t].pc = result] /\ tasks[t].pc = "calling"
    BY <1>10 DEF EndCall
  <2> QED BY <1>1, <1>2, <1>10, <2>1 DEF EndCall, Task, Waiting
<1>11. ASSUME Close PROVE TimerInv' /\ BatchInv'
  <2>1. /\ ~open' /\ UNCHANGED <<sent, pending>>
        /\ \A t \in Records : tasks'[t].pc = tasks[t].pc /\ tasks'[t].batch = tasks[t].batch
    BY <1>1, <1>11 DEF Close, Cancel, Task
  <2> QED BY <2>1 DEF TimerInv, BatchInv, CancelNeverHitsABatch
<1>12. ASSUME Tick PROVE TimerInv' /\ BatchInv'
  <2>1. /\ UNCHANGED <<open, sent, pending, cooldownTask>>
        /\ \A t \in Records : /\ tasks'[t].pc = tasks[t].pc /\ tasks'[t].batch = tasks[t].batch
                              /\ tasks'[t].cancelled = tasks[t].cancelled
                              /\ tasks[t].pc = "asleep" => tasks'[t].left = tasks[t].left - 1
    BY <1>1, <1>12 DEF Tick, Task
  <2>2. BatchInv'
    BY <2>1 DEF BatchInv, CancelNeverHitsABatch
  <2>3. ASSUME open, pending # <<>> PROVE BufferHasTimer'
    <3>1. BufferHasTimer
      BY <2>3 DEF TimerInv
    <3>2. tasks[cooldownTask].pc = "asleep" /\ tasks[cooldownTask].left > 0
      <4>1. ~IsReady(cooldownTask) /\ tasks[cooldownTask].left \in Int
        BY <1>1, <1>12, <2>3, <3>1 DEF Tick, BufferHasTimer, Task
      <4> QED BY <2>3, <3>1, <4>1 DEF IsReady, BufferHasTimer, Waiting, Unstarted
    <3>3. batchAge' = batchAge + 1 /\ batchAge' \in 0..MaxQueue
      <4>1. batchAge + 1 <= MaxQueue /\ batchAge \in 0..MaxQueue /\ tasks[cooldownTask].left \in Int
        <5>1. cooldownTask \in Records /\ batchAge + tasks[cooldownTask].left <= MaxQueue
              /\ batchAge \in 0..MaxQueue
          BY <2>3, <3>1 DEF BufferHasTimer
        <5>2. tasks[cooldownTask].left \in Int
          BY <1>1, <5>1 DEF Task
        <5> QED BY <3>2, <5>1, <5>2
      <4> QED BY <1>12, <4>1 DEF Tick, Lesser, Unset, AgeCap
    <3>4. cooldownTask \in Records /\ tasks[cooldownTask].left \in Int
      BY <1>1, <2>3, <3>1 DEF BufferHasTimer, Task
    <3>5. tasks'[cooldownTask].left = tasks[cooldownTask].left - 1
          /\ tasks'[cooldownTask].pc = "asleep" /\ ~tasks'[cooldownTask].cancelled
      BY <2>1, <2>3, <3>1, <3>2, <3>4 DEF BufferHasTimer
    <3>6. batchAge' + tasks'[cooldownTask].left <= MaxQueue
      BY <2>3, <3>1, <3>3, <3>4, <3>5 DEF BufferHasTimer
    <3> QED BY <2>1, <3>3, <3>4, <3>5, <3>6 DEF BufferHasTimer, Waiting
  <2>4. TimerInv'
    <3> SUFFICES ASSUME open PROVE EmptyBufferHasNoTimer' /\ BufferHasTimer' /\ OthersAreCancelled'
      BY <2>1 DEF TimerInv
    <3>1. EmptyBufferHasNoTimer' /\ OthersAreCancelled'
      BY <1>12, <2>1 DEF TimerInv, EmptyBufferHasNoTimer, OthersAreCancelled, Tick
    <3>2. pending = <<>> => BufferHasTimer'
      BY <2>1 DEF BufferHasTimer
    <3> QED BY <2>3, <3>1, <3>2
  <2> QED BY <2>2, <2>4
<1>13. CASE UNCHANGED vars
  BY <1>3, <1>13 DEF vars, llmVars
<1> QED
  BY <1>4, <1>5, <1>6, <1>7, <1>8, <1>9, <1>10, <1>11, <1>12, <1>13, RearmIInv, FullIInv
     DEF Next, Resume

\* The oldest buffered record of an open dispatcher is never older than
\* WEBHOOK_MAX_QUEUE_SECONDS, for every cooldown, maximum age and batch size.
THEOREM MaxAge == Spec => []MaxAgeBound
<1>1. IInv => MaxAgeBound
  BY DEF IInv, TimerInv, EmptyBufferHasNoTimer, BufferHasTimer, MaxAgeBound, Unset
<1> QED BY InitIInv, StepIInv, <1>1, PTL DEF Spec

\* The only tasks dispatch() cancels hold no records: no interleaving of timers
\* and dispatches makes it cancel an LLM call.
THEOREM CancelIsHarmless == Spec => []CancelNeverHitsABatch
<1>1. IInv => CancelNeverHitsABatch
  BY DEF IInv, BatchInv
<1> QED BY InitIInv, StepIInv, <1>1, PTL DEF Spec

-----------------------------------------------------------------------------
(***************************************************************************)
(* What close() leaves running.  When it runs, every timer but the current *)
(* one is already cancelled (OthersAreCancelled) and every delivery that   *)
(* has not started is tracked, so the only task it misses is a cooldown    *)
(* task in its call.                                                       *)
(***************************************************************************)
ReadyIsTracked == \A t \in Records : tasks[t].pc = "ready" => tasks[t].tracked

CloseInv == ReadyIsTracked /\ OnlyBegunCallsOutliveClose

LEMMA StepCloseInv == IInv /\ CloseInv /\ [Next]_vars => CloseInv'
<1> SUFFICES ASSUME IInv, CloseInv, [Next]_vars PROVE CloseInv'
  OBVIOUS
<1> USE DEF CloseInv, ReadyIsTracked, OnlyBegunCallsOutliveClose
<1>1. tasks \in [Records -> Task] /\ TypeOK
  BY DEF IInv, TypeOK
\* A step that starts nothing and cancels or ends tasks keeps the invariant.
<1>2. ASSUME open' = open,
             \A t \in Records :
               /\ tasks'[t].tracked = tasks[t].tracked
               /\ tasks'[t].pc \in {tasks[t].pc} \cup Ended
               /\ tasks'[t].cancelled = tasks[t].cancelled
      PROVE  CloseInv'
  BY <1>2 DEF Running, Ended
<1>3. ASSUME NEW s \in Subscribers, Subscribe(s) \/ Stream(s) \/ Unsubscribe(s) PROVE CloseInv'
  BY <1>2, <1>3 DEF Subscribe, Stream, Unsubscribe, llmVars
<1>4. CASE DispatchEventOnly
  BY <1>2, <1>4 DEF DispatchEventOnly, Accept, llmVars
<1>5. CASE DispatchRearm \/ DispatchFull
  <2>1. open /\ open' = open /\ sent < MaxRecords
    BY <1>5 DEF DispatchRearm, DispatchFull, Accept
  <2>2. sent + 1 \in Records
    BY <1>1, <2>1, BufferType
  <2>3. PICK k \in Records : k = sent + 1
    BY <2>2
  <2>4. tasks'[k] = NewTask("created", Wait, <<>>) \/ tasks'[k] = NewTask("ready", 0, FullBatch)
    BY <1>1, <1>5, <2>3, CancelType DEF DispatchRearm, DispatchFull
  <2>5. \A t \in Records \ {k} :
          tasks'[t].pc = tasks[t].pc /\ tasks'[t].tracked = tasks[t].tracked
    <3> SUFFICES ASSUME NEW t \in Records \ {k}
                 PROVE  tasks'[t].pc = tasks[t].pc /\ tasks'[t].tracked = tasks[t].tracked
      OBVIOUS
    <3>1. tasks'[t] = Cancel({cooldownTask})[t]
      BY <1>1, <1>5, <2>3, CancelType DEF DispatchRearm, DispatchFull
    <3>2. Cancel({cooldownTask})[t] \in {tasks[t], [tasks[t] EXCEPT !.cancelled = TRUE]}
      BY DEF Cancel
    <3> QED BY <1>1, <3>1, <3>2 DEF Task
  <2>6. tasks'[k].pc = "ready" => tasks'[k].tracked
    <3>1. CASE tasks'[k] = NewTask("created", Wait, <<>>)
      BY <3>1 DEF NewTask
    <3>2. CASE tasks'[k] = NewTask("ready", 0, FullBatch)
      <4>1. NewTask("ready", 0, FullBatch).tracked
        BY DEF NewTask
      <4> QED BY <3>2, <4>1
    <3> QED BY <2>4, <3>1, <3>2
  <2> QED BY <2>1, <2>5, <2>6
<1>6. ASSUME NEW t \in Records, Resume(t) PROVE CloseInv'
  <2>1. CASE Unwind(t)
    <3>1. \A u \in Records \ {t} : tasks'[u] = tasks[u]
      BY <1>1, <2>1 DEF Unwind
    <3>2. tasks'[t].pc \in Ended /\ tasks'[t].tracked = tasks[t].tracked
          /\ tasks'[t].cancelled = tasks[t].cancelled /\ open' = open
      BY <1>1, <2>1 DEF Unwind, Task, Ended
    <3> QED BY <1>2, <3>1, <3>2
  <2>2. CASE CooldownSleep(t) \/ CooldownFire(t) \/ StartDelivery(t)
    <3>1. /\ open' = open /\ ~tasks[t].cancelled
          /\ tasks[t].pc \in {"created", "asleep", "ready"}
      BY <2>2 DEF CooldownSleep, CooldownFire, StartDelivery, IsDue
    <3>2. open
      BY <3>1 DEF Running
    <3>3. \A u \in Records \ {t} : tasks'[u] = tasks[u]
      BY <1>1, <2>2 DEF CooldownSleep, CooldownFire, StartDelivery
    <3>4. tasks'[t].pc # "ready"
      BY <1>1, <2>2 DEF CooldownSleep, CooldownFire, StartDelivery, Task
    <3> QED BY <3>1, <3>2, <3>3, <3>4
  <2> QED BY <1>6, <2>1, <2>2 DEF Resume
<1>7. ASSUME NEW t \in Records, NEW result \in {"delivered", "failed"}, EndCall(t, result)
      PROVE  CloseInv'
  BY <1>1, <1>2, <1>7 DEF EndCall, Task, Ended
<1>8. CASE Close
  <2>1. open /\ ~open' /\ tasks' = Cancel(CancelledByClose)
    BY <1>8 DEF Close
  <2>2. \A t \in Records : tasks'[t].pc = tasks[t].pc /\ tasks'[t].tracked = tasks[t].tracked
    BY <1>1, <2>1 DEF Cancel, Task
  <2>3. ASSUME NEW t \in Records, tasks[t].pc \in Running, ~tasks'[t].cancelled
        PROVE  tasks[t].pc = "calling" /\ ~tasks[t].tracked
    <3>1. t # cooldownTask /\ ~tasks[t].tracked /\ ~tasks[t].cancelled
      BY <1>1, <2>1, <2>3 DEF Cancel, CancelledByClose, Deliveries, Task
    <3>2. tasks[t].pc # "ready"
      BY <3>1
    <3>3. tasks[t].pc \notin Waiting
      BY <2>1, <3>1 DEF IInv, TimerInv, OthersAreCancelled
    <3> QED BY <2>3, <3>1, <3>2, <3>3 DEF Running, Waiting
  <2> QED BY <2>1, <2>2, <2>3
<1>9. CASE Tick
  <2>1. \A t \in Records : tasks'[t].pc = tasks[t].pc /\ tasks'[t].tracked = tasks[t].tracked
                           /\ tasks'[t].cancelled = tasks[t].cancelled
    BY <1>1, <1>9 DEF Tick, Task
  <2> QED BY <1>2, <1>9, <2>1 DEF Tick
<1>10. CASE UNCHANGED vars
  BY <1>2, <1>10 DEF vars
<1> QED
  BY <1>3, <1>4, <1>5, <1>6, <1>7, <1>8, <1>9, <1>10 DEF Next

\* After close() only calls that had already begun go on, for every number of
\* records and every batch size.
THEOREM CloseIsThorough == Spec => []OnlyBegunCallsOutliveClose
<1>1. Init => CloseInv
  BY DEF Init, CloseInv, ReadyIsTracked, OnlyBegunCallsOutliveClose, NewTask
<1>2. CloseInv => OnlyBegunCallsOutliveClose
  BY DEF CloseInv
<1> QED BY InitIInv, StepIInv, StepCloseInv, <1>1, <1>2, PTL DEF Spec

-----------------------------------------------------------------------------
(***************************************************************************)
(* No record is lost or repeated.  Only three steps move records: a        *)
(* dispatch adds one to the buffer, and a dispatch at the cap or a firing  *)
(* cooldown task gives the whole buffer to a task that had none.           *)
(***************************************************************************)
InBuffer == Elements(pending)
InTask(t) == Elements(tasks[t].batch)

Conserved ==
  /\ InBuffer \subseteq 1..sent
  /\ \A t \in Records : InTask(t) \subseteq 1..sent
  /\ hasLlm => \A r \in 1..sent : r \in InBuffer \/ \E t \in Records : r \in InTask(t)
  /\ \A t \in Records : InTask(t) \cap InBuffer = {}
  /\ \A t, u \in Records : t # u => InTask(t) \cap InTask(u) = {}

LEMMA ElementsEmpty == Elements(<<>>) = {}
BY DEF Elements

\* The buffer with the new record holds the old records and the new one.
LEMMA BufferElements ==
  ASSUME TypeOK, sent < MaxRecords
  PROVE  Elements(Buffer) = InBuffer \cup {sent + 1}
<1>1. pending \in Seq(Records) /\ sent + 1 \in Records
  BY DEF TypeOK, Records
<1>2. /\ DOMAIN Buffer = 1..(Len(pending) + 1) /\ DOMAIN pending = 1..Len(pending)
      /\ Buffer[Len(pending) + 1] = sent + 1
      /\ \A i \in 1..Len(pending) : Buffer[i] = pending[i]
      /\ Len(pending) \in Nat
  BY <1>1 DEF Buffer
<1>3. ASSUME NEW x \in Elements(Buffer) PROVE x \in InBuffer \cup {sent + 1}
  <2>1. PICK i \in 1..(Len(pending) + 1) : x = Buffer[i]
    BY <1>2, <1>3 DEF Elements
  <2>2. i = Len(pending) + 1 \/ i \in 1..Len(pending)
    BY <1>2
  <2> QED BY <1>2, <2>1, <2>2 DEF Elements, InBuffer
<1>4. ASSUME NEW x \in InBuffer \cup {sent + 1} PROVE x \in Elements(Buffer)
  <2>1. CASE x = sent + 1
    <3>1. Len(pending) + 1 \in DOMAIN Buffer
      BY <1>2
    <3> QED BY <1>2, <2>1, <3>1 DEF Elements
  <2>2. CASE x \in InBuffer
    <3>1. PICK i \in 1..Len(pending) : x = pending[i]
      BY <1>2, <2>2 DEF Elements, InBuffer
    <3>2. i \in DOMAIN Buffer /\ Buffer[i] = x
      BY <1>2, <3>1
    <3> QED BY <3>2 DEF Elements
  <2> QED BY <1>4, <2>1, <2>2
<1> QED BY <1>3, <1>4

\* A task given the whole buffer, or nothing moved at all: both conserve.
LEMMA MoveConserves ==
  ASSUME IInv, Conserved, hasLlm' = hasLlm, sent' \in {sent, sent + 1}, sent' \in Nat,
         NEW new, new = (sent + 1)..sent',
         NEW t \in Records, InTask(t) = {},
         \A u \in Records \ {t} : InTask(u)' = InTask(u),
         \/ InTask(t)' = {} /\ (hasLlm => InBuffer' = InBuffer \cup new)
                            /\ InBuffer' \subseteq InBuffer \cup new
         \/ InTask(t)' = InBuffer \cup new /\ InBuffer' = {}
  PROVE  Conserved'
<1>1. sent \in Nat /\ 1..sent' = (1..sent) \cup new /\ new \cap (1..sent) = {}
  BY DEF IInv, TypeOK
<1>2. InBuffer \cup new \subseteq 1..sent'
  BY <1>1 DEF Conserved
<1>3. InBuffer' \subseteq 1..sent' /\ \A u \in Records : InTask(u)' \subseteq 1..sent'
  <2>1. ASSUME NEW u \in Records PROVE InTask(u)' \subseteq 1..sent'
    <3>1. CASE u = t
      BY <1>2, <3>1
    <3>2. CASE u # t
      BY <1>1, <3>2 DEF Conserved
    <3> QED BY <3>1, <3>2
  <2> QED BY <1>2, <2>1
<1>4. hasLlm => \A r \in 1..sent' : r \in InBuffer' \/ \E u \in Records : r \in InTask(u)'
  <2> SUFFICES ASSUME hasLlm, NEW r \in 1..sent'
               PROVE  r \in InBuffer' \/ \E u \in Records : r \in InTask(u)'
    OBVIOUS
  <2>1. r \in InBuffer \/ r \in new \/ \E u \in Records \ {t} : r \in InTask(u)
    BY <1>1 DEF Conserved
  <2> QED BY <2>1
<1>5. \A u \in Records : InTask(u) \cap (InBuffer \cup new) = {}
  BY <1>1 DEF Conserved
<1>6. \A u \in Records : InTask(u)' \cap InBuffer' = {}
  BY <1>5
<1>7. \A u, v \in Records : u # v => InTask(u)' \cap InTask(v)' = {}
  BY <1>5 DEF Conserved
<1> QED BY <1>3, <1>4, <1>6, <1>7 DEF Conserved

LEMMA StepConserved == IInv /\ Conserved /\ [Next]_vars => Conserved'
<1> SUFFICES ASSUME IInv, Conserved, [Next]_vars PROVE Conserved'
  OBVIOUS
<1>1. /\ TypeOK /\ tasks \in [Records -> Task] /\ sent \in Nat /\ Records \subseteq Nat
      /\ \A t \in Records : tasks[t].batch \in Seq(Records)
  BY DEF IInv, TypeOK, Task, Records
<1>0. hasLlm' = hasLlm
  BY DEF Next, vars, Resume, Subscribe, Stream, Unsubscribe, Accept, DispatchEventOnly,
         DispatchRearm, DispatchFull, CooldownSleep, CooldownFire, StartDelivery, EndCall,
         Unwind, Close, Tick
<1>2. ASSUME UNCHANGED <<sent, pending>>,
             \A t \in Records : tasks'[t].batch = tasks[t].batch
      PROVE  Conserved'
  <2>1. InBuffer' = InBuffer /\ \A t \in Records : InTask(t)' = InTask(t)
    BY <1>2 DEF InBuffer, InTask, Elements
  <2> QED BY <1>0, <1>2, <2>1 DEF Conserved
<1>3. ASSUME NEW s \in Subscribers, Subscribe(s) \/ Stream(s) \/ Unsubscribe(s)
      PROVE  Conserved'
  BY <1>2, <1>3 DEF Subscribe, Stream, Unsubscribe, llmVars
\* A dispatch gives a batch only to the task it creates, which had none.
<1>4. ASSUME Accept PROVE /\ sent' = sent + 1 /\ sent' \in Nat /\ sent < MaxRecords
                          /\ sent + 1 \in Records /\ tasks[sent + 1].batch = <<>>
                          /\ InTask(sent + 1) = {} /\ {sent + 1} = (sent + 1)..sent'
  <2>1. sent' = sent + 1 /\ sent < MaxRecords
    BY <1>4 DEF Accept
  <2>2. sent + 1 \in Records
    BY <1>1, <2>1, BufferType
  <2>3. tasks[sent + 1].batch = <<>>
    BY <1>1, <2>2 DEF IInv, BatchInv
  <2> QED BY <1>1, <2>1, <2>2, <2>3, ElementsEmpty DEF InTask
<1>5. ASSUME DispatchEventOnly PROVE Conserved'
  <2>1. InBuffer' = InBuffer /\ \A t \in Records : InTask(t)' = InTask(t)
    BY <1>5 DEF DispatchEventOnly, llmVars, InBuffer, InTask, Elements
  <2>2. ~hasLlm /\ sent' = sent + 1
    BY <1>4, <1>5 DEF DispatchEventOnly
  <2>3. 1..sent \subseteq 1..sent'
    BY <1>1, <2>2
  <2> QED BY <1>0, <2>1, <2>2, <2>3 DEF Conserved
<1>6. ASSUME DispatchRearm PROVE Conserved'
  <2>0. PICK k \in Records : k = sent + 1
    BY <1>4, <1>6 DEF DispatchRearm
  <2>1. Accept /\ pending' = Buffer
    BY <1>6 DEF DispatchRearm
  <2>2. tasks'[k] = NewTask("created", Wait, <<>>)
    BY <1>1, <1>4, <1>6, <2>0, <2>1, CancelType DEF DispatchRearm
  <2>3. \A u \in Records \ {k} : tasks'[u].batch = tasks[u].batch
    BY <1>1, <1>4, <1>6, <2>0, <2>1, CancelType, CancelCurrent DEF DispatchRearm
  <2>4. InTask(k)' = {}
    <3>1. tasks'[k].batch = <<>>
      BY <2>2 DEF NewTask
    <3>2. InTask(k)' = Elements(tasks'[k].batch)
      BY DEF InTask, Elements
    <3> QED BY <3>1, <3>2, ElementsEmpty
  <2>5. InBuffer' = InBuffer \cup {sent + 1}
    <3>1. InBuffer' = Elements(Buffer)
      BY <2>1 DEF InBuffer, Elements
    <3> QED BY <1>1, <1>4, <2>1, <3>1, BufferElements
  <2>6. \A u \in Records \ {k} : InTask(u)' = InTask(u)
    BY <2>3 DEF InTask, Elements
  <2> QED BY <1>4, <2>0, <2>1, <2>4, <2>5, <2>6, <1>0, MoveConserves
<1>7. ASSUME DispatchFull PROVE Conserved'
  <2>0. PICK k \in Records : k = sent + 1
    BY <1>4, <1>7 DEF DispatchFull
  <2>1. Accept /\ IsFull /\ pending' = Rest
    BY <1>7 DEF DispatchFull
  <2>2. tasks'[k] = NewTask("ready", 0, FullBatch)
    BY <1>1, <1>4, <1>7, <2>0, <2>1, CancelType DEF DispatchFull
  <2>3. \A u \in Records \ {k} : tasks'[u].batch = tasks[u].batch
    BY <1>1, <1>4, <1>7, <2>0, <2>1, CancelType, CancelCurrent DEF DispatchFull
  <2>4. FullBatch = Buffer /\ Rest = <<>>
    BY <1>1, <1>4, <2>1, BufferCut DEF IInv, BatchInv
  <2>5. InTask(k)' = InBuffer \cup {sent + 1}
    <3>1. tasks'[k].batch = Buffer
      BY <2>2, <2>4 DEF NewTask
    <3>2. InTask(k)' = Elements(tasks'[k].batch)
      BY DEF InTask, Elements
    <3> QED BY <1>1, <1>4, <2>1, <3>1, <3>2, BufferElements
  <2>6. InBuffer' = {}
    BY <2>1, <2>4, ElementsEmpty DEF InBuffer, Elements
  <2>7. \A u \in Records \ {k} : InTask(u)' = InTask(u)
    BY <2>3 DEF InTask, Elements
  <2> QED BY <1>4, <2>0, <2>1, <2>5, <2>6, <2>7, <1>0, MoveConserves
<1>8. ASSUME NEW t \in Records, CooldownFire(t) PROVE Conserved'
  <2>1. pending' = <<>> /\ sent' = sent /\ tasks[t].batch = <<>>
    <3>1. tasks[t].pc \in Waiting
      BY <1>8 DEF CooldownFire, IsDue, Waiting
    <3> QED BY <1>8, <3>1 DEF CooldownFire, TakeBuffer, IInv, BatchInv
  <2>2. tasks'[t].batch = pending /\ \A u \in Records \ {t} : tasks'[u] = tasks[u]
    BY <1>1, <1>8 DEF CooldownFire, Task
  <2>3. InTask(t) = {} /\ InBuffer' = {} /\ InTask(t)' = InBuffer
    BY <2>1, <2>2, ElementsEmpty DEF InTask, InBuffer, Elements
  <2>4. \A u \in Records \ {t} : InTask(u)' = InTask(u)
    BY <2>2 DEF InTask, Elements
  <2>5. (sent + 1)..sent' = {} /\ sent' \in Nat
    BY <1>1, <2>1
  <2>6. InTask(t)' = InBuffer \cup {}
    BY <2>3
  <2> QED BY <2>1, <2>3, <2>4, <2>5, <2>6, <1>0, MoveConserves
<1>9. ASSUME NEW t \in Records, CooldownSleep(t) \/ StartDelivery(t) \/ Unwind(t) PROVE Conserved'
  <2>1. UNCHANGED <<sent, pending>>
    BY <1>9 DEF CooldownSleep, StartDelivery, Unwind
  <2>2. \A u \in Records : tasks'[u].batch = tasks[u].batch
    <3>1. \E pc : tasks' = [tasks EXCEPT ![t].pc = pc]
      BY <1>9 DEF CooldownSleep, StartDelivery, Unwind
    <3> QED BY <1>1, <3>1 DEF Task
  <2> QED BY <1>2, <2>1, <2>2
<1>10. ASSUME NEW t \in Records, NEW result \in {"delivered", "failed"}, EndCall(t, result)
       PROVE  Conserved'
  <2>1. UNCHANGED <<sent, pending>> /\ \A u \in Records : tasks'[u].batch = tasks[u].batch
    BY <1>1, <1>10 DEF EndCall, Task
  <2> QED BY <1>2, <2>1
<1>11. ASSUME Close \/ Tick PROVE Conserved'
  <2>1. UNCHANGED <<sent, pending>> /\ \A u \in Records : tasks'[u].batch = tasks[u].batch
    BY <1>1, <1>11 DEF Close, Cancel, Tick, Task
  <2> QED BY <1>2, <2>1
<1>12. CASE UNCHANGED vars
  BY <1>2, <1>12 DEF vars
<1> QED
  BY <1>3, <1>5, <1>6, <1>7, <1>8, <1>9, <1>10, <1>11, <1>12 DEF Next, Resume

\* Every dispatched record is in the buffer or in the batch of exactly one
\* task, for every number of records and every batch size.
THEOREM RecordsConserved == Spec => []NoRecordLostOrRepeated
<1>1. Init => Conserved
  <2> SUFFICES ASSUME Init PROVE Conserved
    OBVIOUS
  <2>1. sent = 0 /\ InBuffer = {} /\ \A t \in Records : InTask(t) = {}
    BY ElementsEmpty DEF Init, InBuffer, InTask, NewTask
  <2> QED BY <2>1 DEF Conserved
<1>2. Conserved => NoRecordLostOrRepeated
  BY DEF Conserved, NoRecordLostOrRepeated, Holds, InBuffer, InTask
<1> QED BY InitIInv, StepIInv, StepConserved, <1>1, <1>2, PTL DEF Spec

-----------------------------------------------------------------------------
(* SSE queues and the debounce *)

\* s holds the newest of n records, in order and without a gap.
IsNewest(s, n) == \A i \in 1..Len(s) : s[i] = n - Len(s) + i

\* It does without its oldest.
LEMMA TailNewest ==
  ASSUME NEW s \in Seq(Records), NEW n \in Nat, s # <<>>, IsNewest(s, n)
  PROVE  /\ Tail(s) \in Seq(Records) /\ Len(Tail(s)) = Len(s) - 1
         /\ Head(s) = n - Len(s) + 1
         /\ IsNewest(Tail(s), n)
<1>1. Len(s) \in Nat \ {0} /\ Head(s) = s[1]
  OBVIOUS
<1>2. Tail(s) \in Seq(Records) /\ Len(Tail(s)) = Len(s) - 1
  OBVIOUS
<1>3. ASSUME NEW i \in 1..(Len(s) - 1) PROVE Tail(s)[i] = n - (Len(s) - 1) + i
  <2>1. Tail(s)[i] = s[i + 1] /\ i + 1 \in 1..Len(s)
    BY <1>1
  <2>2. s[i + 1] = n - Len(s) + (i + 1)
    BY <2>1 DEF IsNewest
  <2>3. n - Len(s) + (i + 1) = n - (Len(s) - 1) + i
    BY <1>1
  <2> QED BY <2>1, <2>2, <2>3
<1>4. Head(s) = n - Len(s) + 1
  BY <1>1 DEF IsNewest
<1> QED BY <1>2, <1>3, <1>4 DEF IsNewest

\* It does with the next one at its end.
LEMMA AppendNewest ==
  ASSUME NEW s \in Seq(Records), NEW n \in Nat, n + 1 \in Records, IsNewest(s, n)
  PROVE  /\ Append(s, n + 1) \in Seq(Records) /\ Len(Append(s, n + 1)) = Len(s) + 1
         /\ IsNewest(Append(s, n + 1), n + 1)
<1>1. Append(s, n + 1) \in Seq(Records) /\ Len(Append(s, n + 1)) = Len(s) + 1 /\ Len(s) \in Nat
  OBVIOUS
<1>2. ASSUME NEW i \in 1..(Len(s) + 1)
      PROVE  Append(s, n + 1)[i] = (n + 1) - (Len(s) + 1) + i
  <2>1. CASE i = Len(s) + 1
    <3>1. Append(s, n + 1)[i] = n + 1
      BY <2>1
    <3>2. (n + 1) - (Len(s) + 1) + i = n + 1
      BY <1>1, <2>1
    <3> QED BY <3>1, <3>2
  <2>2. CASE i \in 1..Len(s)
    <3>1. Append(s, n + 1)[i] = s[i]
      BY <2>2
    <3>2. s[i] = n - Len(s) + i
      BY <2>2 DEF IsNewest
    <3>3. n - Len(s) + i = (n + 1) - (Len(s) + 1) + i
      BY <1>1
    <3> QED BY <3>1, <3>2, <3>3
  <2> QED BY <1>1, <2>1, <2>2
<1> QED BY <1>1, <1>2 DEF IsNewest

QueueIsNewest(s) ==
  /\ Len(queues[s]) <= QueueMaxsize
  /\ IsNewest(queues[s], sent)
  /\ Len(queues[s]) < QueueMaxsize => Len(queues[s]) = sent - streamed[s]

\* A new record pushes out the oldest of a full queue.
LEMMA AcceptQueues ==
  ASSUME TypeOK, \A s \in DOMAIN queues : QueueIsNewest(s), Accept
  PROVE  \A s \in DOMAIN queues' : QueueIsNewest(s)'
<1>1. sent' = sent + 1 /\ queues' = FanOut(queues, sent + 1) /\ streamed' = streamed
  BY DEF Accept
<1>2. DOMAIN queues' = DOMAIN queues /\ sent \in Nat /\ sent + 1 \in Records
  BY <1>1, BufferType DEF Accept, FanOut, TypeOK
<1> SUFFICES ASSUME NEW s \in DOMAIN queues PROVE QueueIsNewest(s)'
  BY <1>2
<1> DEFINE q == queues[s]
           kept == IF Len(q) >= QueueMaxsize THEN Tail(q) ELSE q
<1>3. queues'[s] = Append(kept, sent + 1)
  BY <1>1 DEF FanOut
<1>4. /\ q \in Seq(Records) /\ Len(q) <= QueueMaxsize /\ IsNewest(q, sent) /\ Len(q) \in Nat
      /\ Len(q) < QueueMaxsize => Len(q) = sent - streamed[s]
      /\ streamed[s] \in Nat
  BY DEF QueueIsNewest, TypeOK
<1>5. /\ kept \in Seq(Records) /\ IsNewest(kept, sent)
      /\ Len(kept) = IF Len(q) = QueueMaxsize THEN QueueMaxsize - 1 ELSE Len(q)
  <2>1. CASE Len(q) >= QueueMaxsize
    <3>1. Len(q) = QueueMaxsize /\ q # <<>>
      BY <1>4, <2>1
    <3> QED BY <1>2, <1>4, <2>1, <3>1, TailNewest
  <2>2. CASE ~(Len(q) >= QueueMaxsize)
    BY <1>4, <2>2
  <2> QED BY <2>1, <2>2
<1> HIDE DEF q, kept, Records
<1>6. Len(Append(kept, sent + 1)) = Len(kept) + 1 /\ IsNewest(Append(kept, sent + 1), sent + 1)
  BY <1>2, <1>5, AppendNewest
<1>7. Len(queues'[s]) = Len(kept) + 1 /\ IsNewest(queues'[s], sent')
  BY <1>1, <1>3, <1>6
<1>8. IsNewest(queues[s], sent)' <=> IsNewest(queues'[s], sent')
  BY DEF IsNewest
<1> QED BY <1>1, <1>2, <1>4, <1>5, <1>7, <1>8 DEF QueueIsNewest

\* Opening a stream, delivering from it and adding to it keep its newest records.
LEMMA QueuesStep ==
  TypeOK /\ (\A s \in DOMAIN queues : QueueIsNewest(s)) /\ [Next]_vars
    => \A s \in DOMAIN queues' : QueueIsNewest(s)'
<1> SUFFICES ASSUME TypeOK, \A s \in DOMAIN queues : QueueIsNewest(s), [Next]_vars
             PROVE  \A s \in DOMAIN queues' : QueueIsNewest(s)'
  OBVIOUS
<1>0. /\ sent \in Nat /\ streamed \in [Subscribers -> 0..MaxRecords]
      /\ DOMAIN queues \subseteq Subscribers
      /\ \A s \in DOMAIN queues : queues[s] \in Seq(Records)
  BY DEF TypeOK
<1>1. ASSUME NEW s \in Subscribers, Subscribe(s) PROVE \A c \in DOMAIN queues' : QueueIsNewest(c)'
  <2>1. /\ DOMAIN queues' = DOMAIN queues \cup {s} /\ s \notin DOMAIN queues
        /\ queues'[s] = <<>> /\ streamed'[s] = sent /\ sent' = sent
        /\ \A c \in DOMAIN queues : queues'[c] = queues[c] /\ streamed'[c] = streamed[c]
    BY <1>0, <1>1 DEF Subscribe
  <2>2. QueueIsNewest(s)'
    BY <1>0, <2>1 DEF QueueIsNewest, IsNewest
  <2>3. \A c \in DOMAIN queues : QueueIsNewest(c)'
    BY <2>1 DEF QueueIsNewest, IsNewest
  <2> QED BY <2>1, <2>2, <2>3
<1>2. ASSUME NEW s \in Subscribers, Unsubscribe(s) PROVE \A c \in DOMAIN queues' : QueueIsNewest(c)'
  BY <1>2 DEF Unsubscribe, QueueIsNewest, IsNewest
<1>3. ASSUME NEW s \in Subscribers, Stream(s) PROVE \A c \in DOMAIN queues' : QueueIsNewest(c)'
  <2>1. /\ s \in DOMAIN queues /\ queues[s] # <<>> /\ sent' = sent
        /\ DOMAIN queues' = DOMAIN queues
        /\ streamed'[s] = Head(queues[s]) /\ queues'[s] = Tail(queues[s])
        /\ \A c \in DOMAIN queues \ {s} : queues'[c] = queues[c] /\ streamed'[c] = streamed[c]
    BY <1>0, <1>3 DEF Stream
  <2>2. /\ queues[s] \in Seq(Records) /\ Len(queues[s]) <= QueueMaxsize
        /\ IsNewest(queues[s], sent) /\ Len(queues[s]) \in Nat
    BY <1>0, <2>1 DEF QueueIsNewest
  <2>3. /\ Len(Tail(queues[s])) = Len(queues[s]) - 1
        /\ Head(queues[s]) = sent - Len(queues[s]) + 1
        /\ IsNewest(Tail(queues[s]), sent)
    BY <1>0, <2>1, <2>2, TailNewest
  <2>4. IsNewest(queues[s], sent)' <=> IsNewest(queues'[s], sent')
    BY DEF IsNewest
  <2>5. QueueIsNewest(s)'
    BY <1>0, <2>1, <2>2, <2>3, <2>4 DEF QueueIsNewest
  <2>6. \A c \in DOMAIN queues \ {s} : QueueIsNewest(c)'
    BY <2>1 DEF QueueIsNewest, IsNewest
  <2> QED BY <2>1, <2>5, <2>6
<1>4. ASSUME UNCHANGED <<sent, queues, streamed>> PROVE \A c \in DOMAIN queues' : QueueIsNewest(c)'
  BY <1>4 DEF QueueIsNewest, IsNewest
<1>5. ASSUME NEW t \in Records,
             Resume(t) \/ \E result \in {"delivered", "failed"} : EndCall(t, result)
      PROVE  UNCHANGED <<sent, queues, streamed>>
  BY <1>5 DEF Resume, CooldownSleep, CooldownFire, StartDelivery, Unwind, EndCall, sseVars
<1>6. ASSUME Close \/ Tick \/ UNCHANGED vars PROVE UNCHANGED <<sent, queues, streamed>>
  BY <1>6 DEF Close, Tick, sseVars, vars
<1> QED
  BY <1>1, <1>2, <1>3, <1>4, <1>5, <1>6, AcceptQueues
     DEF Next, DispatchEventOnly, DispatchRearm, DispatchFull

\* However streams open, close, lag and overflow, an SSE queue never exceeds its size and
\* holds the newest records without a gap, for every queue size and any number of clients.
THEOREM QueuesAreNewest == Spec => []QueuesKeepNewest
<1> DEFINE Inv == \A s \in DOMAIN queues : QueueIsNewest(s)
<1>1. Init => Inv
  BY DEF Init
<1>2. Inv => QueuesKeepNewest
  BY DEF QueuesKeepNewest, QueueIsNewest, IsNewest
<1>3. TypeOK /\ Inv /\ [Next]_vars => Inv'
  BY QueuesStep
<1> QED BY <1>1, <1>2, <1>3, InitType, StepType, PTL DEF Spec

\* Without an LLM client nothing is buffered and no task is created.
IdleWithoutLlm == ~hasLlm => pending = <<>> /\ \A t \in Records : tasks[t].pc = "absent"

\* Tasks and the buffer begin with a dispatch to the LLM side.
LEMMA IdleStep == TypeOK /\ IdleWithoutLlm /\ [Next]_vars => IdleWithoutLlm'
<1> SUFFICES ASSUME TypeOK, IdleWithoutLlm, [Next]_vars, ~hasLlm
             PROVE  hasLlm' = hasLlm /\ UNCHANGED pending /\ \A t \in Records : tasks'[t].pc = tasks[t].pc
  <2>1. [Next]_vars => hasLlm' = hasLlm
    BY DEF Next, vars, Resume, Subscribe, Stream, Unsubscribe, Accept, DispatchEventOnly,
           DispatchRearm, DispatchFull, CooldownSleep, CooldownFire, StartDelivery, EndCall,
           Unwind, Close, Tick
  <2> QED BY <2>1 DEF IdleWithoutLlm
<1>1. /\ tasks \in [Records -> Task]
      /\ \A t \in Records : tasks[t].pc = "absent"
  BY DEF TypeOK, IdleWithoutLlm
<1>2. ASSUME NEW t \in Records,
             Resume(t) \/ \E result \in {"delivered", "failed"} : EndCall(t, result)
      PROVE  FALSE
  BY <1>1, <1>2 DEF Resume, CooldownSleep, CooldownFire, StartDelivery, Unwind, EndCall, IsDue, Running
<1>3. CASE Close \/ Tick
  BY <1>1, <1>3 DEF Close, Tick, Cancel, Task
<1>4. CASE \/ \E s \in Subscribers : Subscribe(s) \/ Stream(s) \/ Unsubscribe(s)
           \/ DispatchEventOnly \/ UNCHANGED vars
  BY <1>4 DEF Subscribe, Stream, Unsubscribe, DispatchEventOnly, Accept, llmVars, vars
<1> QED BY <1>2, <1>3, <1>4 DEF Next, DispatchRearm, DispatchFull

\* The current timer has at least the rest of the silence to sleep, or at least the rest
\* of the maximum age.
TimerIsDueLate ==
  open /\ pending # <<>> =>
    LET left == tasks[cooldownTask].left
    IN  left >= Cooldown - quiet \/ left >= MaxQueue - batchAge

\* Silence, age and timer advance together.
LEMMA DueLateStep == IInv /\ IdleWithoutLlm /\ TimerIsDueLate /\ [Next]_vars => TimerIsDueLate'
<1> SUFFICES ASSUME IInv, IdleWithoutLlm, TimerIsDueLate, [Next]_vars PROVE TimerIsDueLate'
  OBVIOUS
<1>0. /\ TypeOK /\ tasks \in [Records -> Task] /\ quiet \in 0..Cooldown /\ sent \in Nat
      /\ batchAge \in {Unset} \cup 0..AgeCap
      /\ open /\ pending # <<>> => cooldownTask \in Records
  BY DEF IInv, TypeOK, TimerInv, BufferHasTimer
<1>1. ASSUME UNCHANGED <<pending, cooldownTask, batchAge, quiet>>, open' => open,
             \A u \in Records : tasks'[u].left = tasks[u].left
      PROVE  TimerIsDueLate'
  BY <1>0, <1>1 DEF TimerIsDueLate
<1>2. ASSUME NEW s \in Subscribers, Subscribe(s) \/ Stream(s) \/ Unsubscribe(s)
      PROVE  TimerIsDueLate'
  BY <1>1, <1>2 DEF Subscribe, Stream, Unsubscribe, llmVars
<1>3. CASE DispatchEventOnly
  BY <1>3 DEF DispatchEventOnly, IdleWithoutLlm, TimerIsDueLate, llmVars
<1>4. CASE DispatchRearm
  <2>1. sent < MaxRecords /\ quiet' = 0
    BY <1>4 DEF DispatchRearm, Accept
  <2>2. tasks'[sent + 1] = NewTask("created", Wait, <<>>)
    BY <1>0, <1>4, <2>1, CancelType, BufferType DEF DispatchRearm
  <2>3. cooldownTask' = sent + 1 /\ batchAge' = StartedAge
    BY <1>4 DEF DispatchRearm
  <2>4. tasks'[cooldownTask'].left = Wait
    BY <2>2, <2>3 DEF NewTask
  <2>5. StartedAge \in Int
    BY <1>0 DEF StartedAge, Unset
  <2> QED BY <2>1, <2>3, <2>4, <2>5 DEF TimerIsDueLate, Wait, Lesser
<1>5. CASE DispatchFull
  <2>1. pending' = <<>>
    BY <1>5, BufferCut DEF DispatchFull, Accept, IInv, BatchInv
  <2> QED BY <2>1 DEF TimerIsDueLate
<1>6. ASSUME NEW t \in Records, CooldownFire(t) PROVE TimerIsDueLate'
  BY <1>6 DEF CooldownFire, TakeBuffer, TimerIsDueLate
<1>7. ASSUME NEW t \in Records,
             \/ CooldownSleep(t) \/ StartDelivery(t) \/ Unwind(t)
             \/ \E result \in {"delivered", "failed"} : EndCall(t, result)
      PROVE  TimerIsDueLate'
  <2>1. UNCHANGED <<open, pending, cooldownTask, batchAge, quiet>>
    BY <1>7 DEF CooldownSleep, StartDelivery, Unwind, EndCall
  <2>2. \E pc : tasks' = [tasks EXCEPT ![t].pc = pc]
    BY <1>7 DEF CooldownSleep, StartDelivery, Unwind, EndCall
  <2>3. \A u \in Records : tasks'[u].left = tasks[u].left
    BY <1>0, <2>2 DEF Task
  <2> QED BY <1>1, <2>1, <2>3
<1>8. CASE Close
  BY <1>8 DEF Close, TimerIsDueLate
<1>9. CASE Tick
  <2> SUFFICES ASSUME open, pending # <<>>
               PROVE  LET left == tasks'[cooldownTask'].left
                      IN  left >= Cooldown - quiet' \/ left >= MaxQueue - batchAge'
    BY <1>9 DEF Tick, TimerIsDueLate
  <2>1. /\ cooldownTask \in Records /\ batchAge \in 0..MaxQueue
        /\ tasks[cooldownTask].pc \in Waiting
    BY DEF IInv, TimerInv, BufferHasTimer
  <2>2. tasks[cooldownTask].left \in Int
    BY <1>0, <2>1 DEF Task
  <2>3. tasks[cooldownTask].pc = "asleep" /\ tasks[cooldownTask].left > 0
    BY <1>9, <2>1, <2>2 DEF Tick, IsReady, Waiting, Unstarted
  <2>4. cooldownTask' = cooldownTask /\ tasks'[cooldownTask].left = tasks[cooldownTask].left - 1
    BY <1>0, <1>9, <2>1, <2>3 DEF Tick, Task
  <2>5. /\ quiet' \in {quiet + 1, Cooldown}
        /\ batchAge' = batchAge + 1
    BY <1>0, <1>9, <2>1 DEF Tick, Lesser, AgeCap, Unset
  <2>6. tasks[cooldownTask].left >= Cooldown - quiet \/ tasks[cooldownTask].left >= MaxQueue - batchAge
    BY DEF TimerIsDueLate
  <2> QED BY <1>0, <2>1, <2>2, <2>3, <2>4, <2>5, <2>6
<1>10. CASE UNCHANGED vars
  BY <1>10 DEF vars, TimerIsDueLate
<1> QED
  BY <1>2, <1>3, <1>4, <1>5, <1>6, <1>7, <1>8, <1>9, <1>10 DEF Next, Resume

\* The buffer is swapped out only by the current timer of an open dispatcher.
LEMMA FlushIsDue ==
  IInv /\ CloseInv /\ TimerIsDueLate /\ [Next]_vars
    => ((pending # <<>> /\ pending' = <<>> /\ sent' = sent)
          => quiet >= Cooldown \/ batchAge >= MaxQueue)
<1> SUFFICES ASSUME IInv, CloseInv, TimerIsDueLate, [Next]_vars,
                    pending # <<>>, pending' = <<>>, sent' = sent
             PROVE  quiet >= Cooldown \/ batchAge >= MaxQueue
  OBVIOUS
<1>0. /\ TypeOK /\ tasks \in [Records -> Task] /\ quiet \in 0..Cooldown /\ sent \in Nat
      /\ batchAge \in {Unset} \cup 0..AgeCap
  BY DEF IInv, TypeOK
<1>1. \E t \in Records : CooldownFire(t)
  <2>1. sent + 1 # sent
    BY <1>0
  <2> QED
    BY <2>1 DEF Next, vars, Resume, Subscribe, Stream, Unsubscribe, llmVars, DispatchEventOnly,
                DispatchRearm, DispatchFull, Accept, CooldownSleep, StartDelivery, EndCall,
                Unwind, Close, Tick
<1>2. PICK t \in Records : CooldownFire(t)
  BY <1>1
<1>3. tasks[t].pc \in Waiting /\ ~tasks[t].cancelled /\ tasks[t].left <= 0
  BY <1>2 DEF CooldownFire, IsDue, Waiting
<1>4. open
  BY <1>3 DEF CloseInv, OnlyBegunCallsOutliveClose, Waiting, Running
<1>5. t = cooldownTask
  BY <1>3, <1>4 DEF IInv, TimerInv, OthersAreCancelled
<1>6. tasks[t].left \in Int /\ batchAge \in Int
  BY <1>0 DEF Task, Unset, AgeCap
<1> QED BY <1>0, <1>3, <1>4, <1>5, <1>6 DEF TimerIsDueLate

\* Superseded timers never flush early: the buffer is taken by a timer only after a full
\* cooldown of silence or at the maximum age, for every cooldown and maximum age.
THEOREM FlushIsNeverEarly == Spec => FlushOnlyWhenDue
<1>1. Init => TimerIsDueLate /\ IdleWithoutLlm
  BY DEF Init, TimerIsDueLate, IdleWithoutLlm, NewTask
<1>2. Init => CloseInv
  BY DEF Init, CloseInv, ReadyIsTracked, OnlyBegunCallsOutliveClose, NewTask
<1>3. IInv /\ CloseInv /\ TimerIsDueLate /\ [Next]_vars
        => [(pending # <<>> /\ pending' = <<>> /\ sent' = sent)
              => quiet >= Cooldown \/ batchAge >= MaxQueue]_vars
  BY FlushIsDue
<1>4. IInv => TypeOK
  BY DEF IInv
<1> QED
  BY <1>1, <1>2, <1>3, <1>4, InitIInv, StepIInv, StepCloseInv, IdleStep, DueLateStep, PTL
     DEF Spec, FlushOnlyWhenDue

-----------------------------------------------------------------------------
(***************************************************************************)
(* The refinement of OrderedHandoff.  The batches of the calls begun, the  *)
(* batches of the deliveries ready to start and the buffer are consecutive *)
(* runs of 1..sent: deliveries start in the order they were created, and   *)
(* no timer is asleep while a delivery is ready, so what is handed over    *)
(* next always begins where the calls begun so far end.                    *)
(***************************************************************************)
IsRun(b) == \A i \in DOMAIN b : b[i] = b[1] + i - 1

BatchesAreRuns == \A t \in Records : Len(tasks[t].batch) <= BatchMax /\ IsRun(tasks[t].batch)

IsWaitingBatch(t) == tasks[t].pc = "ready"

NothingDropped ==
  open => \A t \in Records : tasks[t].batch # <<>> => t \in Begun \/ IsWaitingBatch(t)

DeliveriesInOrder ==
  open => \A t, u \in Records :
    t < u /\ IsWaitingBatch(t) /\ IsWaitingBatch(u)
      => \A r \in InTask(t), q \in InTask(u) : r < q

TimerIsLast ==
  open /\ cooldownTask \in Records =>
    \A t \in Records :
      IsWaitingBatch(t) => t < cooldownTask /\ tasks[cooldownTask].pc # "asleep"

OrderInv ==
  /\ IsNewest(pending, sent)
  /\ BatchesAreRuns
  /\ NothingDropped /\ DeliveriesInOrder /\ TimerIsLast

\* The records of a run are an interval.
LEMMA RunElements ==
  ASSUME NEW b \in Seq(Records), b # <<>>, IsRun(b)
  PROVE  Elements(b) = b[1]..(b[1] + Len(b) - 1) /\ b[1] \in Records
<1>1. Len(b) \in Nat \ {0} /\ DOMAIN b = 1..Len(b) /\ b[1] \in Records /\ Records \subseteq Nat
  BY DEF Records
<1>2. \A i \in 1..Len(b) : b[i] = b[1] + i - 1
  BY <1>1 DEF IsRun
<1>3. ASSUME NEW x \in b[1]..(b[1] + Len(b) - 1) PROVE x \in Elements(b)
  <2> DEFINE i == x - b[1] + 1
  <2>0. b[1] \in Nat
    BY <1>1
  <2>1. x \in Int /\ b[1] \in Nat
    BY <1>1, <2>0
  <2>2. i \in 1..Len(b) /\ b[1] + i - 1 = x
    BY <1>1, <2>1
  <2> HIDE DEF i
  <2>3. b[i] = x
    BY <1>2, <2>2
  <2> QED BY <1>1, <2>2, <2>3 DEF Elements
<1>4. ASSUME NEW x \in Elements(b) PROVE x \in b[1]..(b[1] + Len(b) - 1)
  <2>1. PICK i \in 1..Len(b) : x = b[i]
    BY <1>1, <1>4 DEF Elements
  <2>2. x = b[1] + i - 1
    BY <1>2, <2>1
  <2>3. b[1] \in Nat
    BY <1>1
  <2> QED BY <1>1, <2>2, <2>3
<1> QED BY <1>1, <1>3, <1>4

\* The newest records are a run that ends with the last.
LEMMA NewestIsRun ==
  ASSUME NEW s \in Seq(Records), NEW n \in Nat, IsNewest(s, n)
  PROVE  IsRun(s) /\ Elements(s) = (n - Len(s) + 1)..n
<1>1. Len(s) \in Nat /\ DOMAIN s = 1..Len(s)
  OBVIOUS
<1>2. CASE s = <<>>
  <2>1. Len(s) = 0 /\ (n - Len(s) + 1)..n = {} /\ DOMAIN s = {}
    BY <1>1, <1>2
  <2> QED BY <1>2, <2>1, ElementsEmpty DEF IsRun
<1>3. CASE s # <<>>
  <2>1. Len(s) \in Nat \ {0}
    BY <1>1, <1>3
  <2>2. s[1] = n - Len(s) + 1
    BY <2>1 DEF IsNewest
  <2>3. ASSUME NEW i \in 1..Len(s) PROVE s[i] = s[1] + i - 1
    <3>1. s[i] = n - Len(s) + i
      BY DEF IsNewest
    <3> QED BY <2>1, <2>2, <3>1
  <2>4. IsRun(s)
    BY <1>1, <2>3 DEF IsRun
  <2>5. s[1] + Len(s) - 1 = n
    BY <2>1, <2>2
  <2> QED BY <1>3, <2>2, <2>4, <2>5, RunElements
<1> QED BY <1>2, <1>3

\* What tasks hold comes before what is buffered.
LEMMA TasksBeforeBuffer ==
  ASSUME IInv, Conserved, OrderInv
  PROVE  /\ InBuffer = (sent - Len(pending) + 1)..sent
         /\ \A t \in Records : InTask(t) \subseteq 1..(sent - Len(pending))
<1>1. pending \in Seq(Records) /\ sent \in Nat /\ Len(pending) \in Nat
  BY DEF IInv, TypeOK
<1>2. InBuffer = (sent - Len(pending) + 1)..sent
  BY <1>1, NewestIsRun DEF OrderInv, InBuffer
<1>3. ASSUME NEW t \in Records, NEW r \in InTask(t) PROVE r \in 1..(sent - Len(pending))
  <2>1. r \in 1..sent /\ r \notin InBuffer
    BY DEF Conserved
  <2> QED BY <1>1, <1>2, <2>1
<1> QED BY <1>2, <1>3

\* What a dispatch does to the tasks: the new one apart, it may only set a flag.
LEMMA DispatchTasks ==
  ASSUME TypeOK, BatchInv, DispatchRearm \/ DispatchFull
  PROVE  /\ open /\ open' = open /\ sent \in Nat /\ sent < MaxRecords /\ sent' = sent + 1
         /\ sent + 1 \in Records /\ tasks[sent + 1].pc = "absent"
         /\ \A t \in Records : t > sent => tasks[t].pc = "absent"
         /\ \A t \in Records \ {sent + 1} :
              tasks'[t].pc = tasks[t].pc /\ tasks'[t].batch = tasks[t].batch
         /\ DispatchRearm => tasks'[sent + 1].pc = "created" /\ tasks'[sent + 1].batch = <<>>
         /\ DispatchFull => tasks'[sent + 1].pc = "ready" /\ tasks'[sent + 1].batch = Buffer
                              /\ pending' = <<>> /\ Len(Buffer) = BatchMax
         /\ DispatchRearm => pending' = Buffer
<1>1. open /\ open' = open /\ sent \in Nat /\ sent < MaxRecords /\ sent' = sent + 1
  BY DEF DispatchRearm, DispatchFull, Accept, TypeOK
<1>2. sent + 1 \in Records /\ tasks \in [Records -> Task]
  BY <1>1, BufferType DEF TypeOK
<1>3. sent + 1 > sent
  BY <1>1
<1>4. ASSUME NEW t \in Records \ {sent + 1}
      PROVE  tasks'[t].pc = tasks[t].pc /\ tasks'[t].batch = tasks[t].batch
  <2>1. tasks'[t] = Cancel({cooldownTask})[t]
    BY <1>2, CancelType DEF DispatchRearm, DispatchFull
  <2> QED BY <1>2, <2>1, CancelCurrent
<1>5. ASSUME DispatchRearm
      PROVE  tasks'[sent + 1].pc = "created" /\ tasks'[sent + 1].batch = <<>> /\ pending' = Buffer
  <2>1. tasks'[sent + 1] = NewTask("created", Wait, <<>>)
    BY <1>2, <1>5, CancelType DEF DispatchRearm
  <2> QED BY <1>5, <2>1 DEF DispatchRearm, NewTask
<1>6. ASSUME DispatchFull
      PROVE  tasks'[sent + 1].pc = "ready" /\ tasks'[sent + 1].batch = Buffer
               /\ pending' = <<>> /\ Len(Buffer) = BatchMax
  <2>1. tasks'[sent + 1] = NewTask("ready", 0, FullBatch)
    BY <1>2, <1>6, CancelType DEF DispatchFull
  <2>2. IsFull
    BY <1>6 DEF DispatchFull
  <2>3. FullBatch = Buffer /\ Rest = <<>> /\ Len(Buffer) = BatchMax
    BY <1>1, <2>2, BufferCut DEF BatchInv
  <2> QED BY <1>6, <2>1, <2>3 DEF DispatchFull, NewTask
<1> QED BY <1>1, <1>2, <1>3, <1>4, <1>5, <1>6 DEF BatchInv

\* A dispatch puts the new record last, in the buffer or in the last delivery.
LEMMA DispatchOrder ==
  ASSUME IInv, Conserved, OrderInv, DispatchRearm \/ DispatchFull
  PROVE  OrderInv'
<1> DEFINE k == sent + 1
<1>1. TypeOK /\ BatchInv /\ pending \in Seq(Records) /\ Len(pending) \in Nat
  BY DEF IInv, TypeOK
<1>2. /\ open /\ open' = open /\ sent \in Nat /\ sent < MaxRecords /\ sent' = sent + 1
      /\ k \in Records /\ tasks[k].pc = "absent"
      /\ \A t \in Records : t > sent => tasks[t].pc = "absent"
      /\ \A t \in Records \ {k} : tasks'[t].pc = tasks[t].pc /\ tasks'[t].batch = tasks[t].batch
  BY <1>1, DispatchTasks
<1>3. /\ Buffer \in Seq(Records) /\ Len(Buffer) = Len(pending) + 1
      /\ IsNewest(Buffer, sent + 1)
  BY <1>1, <1>2, AppendNewest DEF Buffer, OrderInv
<1>4. IsRun(Buffer) /\ Elements(Buffer) = (sent - Len(pending) + 1)..(sent + 1)
  <2>1. IsRun(Buffer) /\ Elements(Buffer) = ((sent + 1) - Len(Buffer) + 1)..(sent + 1)
    BY <1>2, <1>3, NewestIsRun
  <2>2. (sent + 1) - Len(Buffer) + 1 = sent - Len(pending) + 1
    BY <1>1, <1>2, <1>3
  <2> QED BY <2>1, <2>2
<1>5. IsNewest(pending, sent)'
  <2>1. DispatchRearm => IsNewest(pending', sent')
    BY <1>1, <1>2, <1>3, DispatchTasks
  <2>2. DispatchFull => IsNewest(pending', sent')
    <3>1. DispatchFull => pending' = <<>>
      BY <1>1, DispatchTasks
    <3> QED BY <3>1 DEF IsNewest
  <2> QED BY <2>1, <2>2 DEF IsNewest
<1>6. Len(tasks'[k].batch) <= BatchMax /\ IsRun(tasks'[k].batch)
  <2>1. DispatchRearm => tasks'[k].batch = <<>>
    BY <1>1, DispatchTasks
  <2>2. DispatchFull => tasks'[k].batch = Buffer /\ Len(Buffer) = BatchMax
    BY <1>1, DispatchTasks
  <2>3. Len(<<>>) <= BatchMax /\ IsRun(<<>>)
    BY DEF IsRun
  <2> QED BY <1>4, <2>1, <2>2, <2>3
<1>7. BatchesAreRuns'
  <2>1. \A t \in Records \ {k} : Len(tasks'[t].batch) <= BatchMax /\ IsRun(tasks'[t].batch)
    BY <1>2 DEF OrderInv, BatchesAreRuns
  <2> QED BY <1>6, <2>1 DEF BatchesAreRuns, IsRun
<1>8. NothingDropped'
  <2>1. tasks'[k].batch = <<>> \/ tasks'[k].pc = "ready"
    BY <1>1, DispatchTasks
  <2> QED BY <1>2, <2>1 DEF OrderInv, NothingDropped, Begun, Called, IsWaitingBatch
<1>9. \A t \in Records \ {k} : IsWaitingBatch(t)' => IsWaitingBatch(t) /\ t < k
  BY <1>2 DEF IsWaitingBatch, Records
<1>10. DeliveriesInOrder'
  <2> SUFFICES ASSUME NEW t \in Records, NEW u \in Records, t < u,
                      IsWaitingBatch(t)', IsWaitingBatch(u)',
                      NEW r \in InTask(t)', NEW q \in InTask(u)'
               PROVE  r < q
    BY DEF DeliveriesInOrder
  <2>1. t # k
    BY <1>2, <1>9 DEF Records
  <2>2. r \in InTask(t) /\ IsWaitingBatch(t)
    BY <1>2, <1>9, <2>1 DEF InTask, Elements
  <2>3. CASE u # k
    <3>1. q \in InTask(u) /\ IsWaitingBatch(u)
      BY <1>2, <1>9, <2>3 DEF InTask, Elements
    <3> QED BY <1>2, <2>2, <3>1 DEF OrderInv, DeliveriesInOrder
  <2>4. CASE u = k
    <3>1. DispatchFull
      BY <1>1, <2>4, DispatchTasks DEF IsWaitingBatch
    <3>2. q \in (sent - Len(pending) + 1)..(sent + 1)
      BY <1>1, <1>4, <2>4, <3>1, DispatchTasks DEF InTask, Elements
    <3>3. r \in 1..(sent - Len(pending))
      BY <2>2, TasksBeforeBuffer
    <3> QED BY <1>1, <1>2, <3>2, <3>3
  <2> QED BY <2>3, <2>4
<1>11. TimerIsLast'
  <2>1. CASE DispatchRearm
    <3>1. cooldownTask' = k /\ tasks'[k].pc = "created"
      BY <1>1, <2>1, DispatchTasks DEF DispatchRearm
    <3> QED BY <1>9, <3>1 DEF TimerIsLast, IsWaitingBatch
  <2>2. CASE DispatchFull
    BY <2>2 DEF DispatchFull, TimerIsLast, NoTask, Records
  <2> QED BY <2>1, <2>2
<1> QED BY <1>5, <1>7, <1>8, <1>10, <1>11 DEF OrderInv

\* A cooldown task takes the whole buffer; no delivery is ready when it does.
LEMMA FireOrder ==
  ASSUME IInv, CloseInv, Conserved, OrderInv, NEW t \in Records, CooldownFire(t)
  PROVE  /\ OrderInv'
         /\ open /\ \A u \in Records : ~IsWaitingBatch(u)
<1>1. /\ tasks \in [Records -> Task] /\ pending \in Seq(Records) /\ sent \in Nat
      /\ Len(pending) < BatchMax
  BY DEF IInv, TypeOK, BatchInv
<1>2. /\ tasks[t].pc \in Waiting /\ ~tasks[t].cancelled /\ tasks[t].left <= 0 /\ IsTurn(t)
      /\ pending' = <<>> /\ cooldownTask' = NoTask /\ UNCHANGED <<open, sent>>
  BY DEF CooldownFire, TakeBuffer, IsDue, Waiting
<1>3. /\ \A u \in Records \ {t} : tasks'[u] = tasks[u]
      /\ tasks'[t].pc = IF pending = <<>> THEN "idle" ELSE "calling"
      /\ tasks'[t].batch = pending
  BY <1>1 DEF CooldownFire, Task
<1>4. open
  BY <1>2 DEF CloseInv, OnlyBegunCallsOutliveClose, Waiting, Running
<1>5. t = cooldownTask
  BY <1>2, <1>4 DEF IInv, TimerInv, OthersAreCancelled
<1>6. ASSUME NEW u \in Records, IsWaitingBatch(u) PROVE FALSE
  <2>1. u < t /\ tasks[t].pc = "created"
    BY <1>2, <1>4, <1>5, <1>6 DEF OrderInv, TimerIsLast, Waiting
  <2>2. u \in 1..(t - 1)
    BY <2>1 DEF Records
  <2> QED BY <1>2, <1>6, <2>1, <2>2 DEF IsTurn, Unstarted, IsWaitingBatch
<1>7. \A u \in Records : ~IsWaitingBatch(u)'
  BY <1>3, <1>6 DEF IsWaitingBatch
<1>8. IsNewest(pending, sent)'
  BY <1>2 DEF IsNewest
<1>9. IsRun(pending) /\ Len(pending) <= BatchMax
  BY <1>1, NewestIsRun DEF OrderInv
<1>10. BatchesAreRuns'
  <2>1. \A u \in Records : Len(tasks'[u].batch) <= BatchMax /\ IsRun(tasks'[u].batch)
    BY <1>3, <1>9 DEF OrderInv, BatchesAreRuns
  <2> QED BY <2>1 DEF BatchesAreRuns, IsRun
<1>11. NothingDropped'
  BY <1>2, <1>3, <1>4, <1>6, <1>7 DEF OrderInv, NothingDropped, Begun, Called, IsWaitingBatch
<1>12. DeliveriesInOrder' /\ TimerIsLast'
  BY <1>2, <1>7 DEF DeliveriesInOrder, TimerIsLast
<1> QED BY <1>4, <1>6, <1>8, <1>10, <1>11, <1>12 DEF OrderInv

\* Steps that move no records keep their order, as long as they start nothing ahead of
\* its turn and, while the dispatcher is open, drop nothing.
LEMMA OthersOrder ==
  ASSUME TypeOK, OrderInv, IsNewest(pending, sent)', open' => open, cooldownTask' = cooldownTask,
         \A t \in Records :
           /\ tasks'[t].batch = tasks[t].batch
           /\ tasks'[t].pc = "ready" => tasks[t].pc = "ready"
           /\ open' /\ tasks[t].batch # <<>> /\ (t \in Begun \/ tasks[t].pc = "ready")
                => Called(t)' \/ tasks'[t].pc = "ready"
           /\ t = cooldownTask /\ tasks'[t].pc = "asleep" /\ open'
                => tasks[t].pc = "asleep" \/ \A u \in 1..(t - 1) : tasks[u].pc # "ready"
  PROVE  OrderInv'
<1>1. BatchesAreRuns'
  <2>1. \A t \in Records : Len(tasks'[t].batch) <= BatchMax /\ IsRun(tasks'[t].batch)
    BY DEF OrderInv, BatchesAreRuns
  <2> QED BY <2>1 DEF BatchesAreRuns, IsRun
<1>2. NothingDropped'
  BY DEF OrderInv, NothingDropped, Begun, IsWaitingBatch
<1>3. DeliveriesInOrder'
  <2>1. \A t \in Records : InTask(t)' = InTask(t)
    BY DEF InTask, Elements
  <2> QED BY <2>1 DEF OrderInv, DeliveriesInOrder, IsWaitingBatch
<1>4. TimerIsLast'
  <2> SUFFICES ASSUME open', cooldownTask \in Records, NEW t \in Records, tasks'[t].pc = "ready"
               PROVE  t < cooldownTask /\ tasks'[cooldownTask].pc # "asleep"
    BY DEF TimerIsLast, IsWaitingBatch
  <2>1. tasks[t].pc = "ready" /\ t < cooldownTask /\ tasks[cooldownTask].pc # "asleep"
    BY DEF OrderInv, TimerIsLast, IsWaitingBatch
  <2>2. t \in 1..(cooldownTask - 1)
    BY <2>1 DEF Records
  <2> QED BY <2>1, <2>2
<1> QED BY <1>1, <1>2, <1>3, <1>4 DEF OrderInv

\* Every step keeps the records in order.
LEMMA OrderStep ==
  IInv /\ CloseInv /\ Conserved /\ IdleWithoutLlm /\ OrderInv /\ [Next]_vars => OrderInv'
<1> SUFFICES ASSUME IInv, CloseInv, Conserved, IdleWithoutLlm, OrderInv, [Next]_vars
             PROVE  OrderInv'
  OBVIOUS
<1>0. TypeOK /\ tasks \in [Records -> Task] /\ IsNewest(pending, sent)
  BY DEF IInv, TypeOK, OrderInv
<1>1. ASSUME UNCHANGED <<open, pending, cooldownTask, tasks>>, pending = <<>> \/ sent' = sent
      PROVE  OrderInv'
  <2>1. IsNewest(pending, sent)'
    BY <1>0, <1>1 DEF IsNewest
  <2> QED BY <1>0, <1>1, <2>1, OthersOrder DEF Begun, Called
<1>2. ASSUME NEW s \in Subscribers, Subscribe(s) \/ Stream(s) \/ Unsubscribe(s)
      PROVE  OrderInv'
  BY <1>1, <1>2 DEF Subscribe, Stream, Unsubscribe, llmVars
<1>3. CASE DispatchEventOnly
  BY <1>1, <1>3 DEF DispatchEventOnly, Accept, llmVars, IdleWithoutLlm
<1>4. ASSUME NEW t \in Records,
             \/ CooldownSleep(t) \/ StartDelivery(t) \/ Unwind(t)
             \/ \E result \in {"delivered", "failed"} : EndCall(t, result)
      PROVE  OrderInv'
  <2>1. UNCHANGED <<open, sent, pending, cooldownTask>>
    BY <1>4 DEF CooldownSleep, StartDelivery, Unwind, EndCall
  <2>2. IsNewest(pending, sent)'
    BY <1>0, <2>1 DEF IsNewest
  <2>3. \A u \in Records \ {t} : tasks'[u] = tasks[u]
    BY <1>0, <1>4 DEF CooldownSleep, StartDelivery, Unwind, EndCall
  <2>4. tasks'[t].batch = tasks[t].batch /\ tasks'[t].pc # "ready"
    BY <1>0, <1>4 DEF CooldownSleep, StartDelivery, Unwind, EndCall, Task
  <2>5. open /\ tasks[t].batch # <<>> => Called(t)'
    <3>1. CASE CooldownSleep(t)
      BY <3>1 DEF CooldownSleep, IInv, BatchInv, Waiting
    <3>2. CASE Unwind(t)
      BY <3>2 DEF Unwind, IInv, BatchInv, CancelNeverHitsABatch
    <3>3. CASE StartDelivery(t) \/ \E result \in {"delivered", "failed"} : EndCall(t, result)
      BY <1>0, <3>3 DEF StartDelivery, EndCall, Called, Task
    <3> QED BY <1>4, <3>1, <3>2, <3>3
  <2>6. tasks'[t].pc = "asleep" => \A u \in 1..(t - 1) : tasks[u].pc # "ready"
    <3>1. CASE CooldownSleep(t)
      BY <3>1 DEF CooldownSleep, IsTurn, Unstarted
    <3>2. CASE StartDelivery(t) \/ Unwind(t)
                 \/ \E result \in {"delivered", "failed"} : EndCall(t, result)
      BY <1>0, <3>2 DEF StartDelivery, EndCall, Unwind, Task
    <3> QED BY <1>4, <3>1, <3>2
  <2> QED BY <1>0, <2>1, <2>2, <2>3, <2>4, <2>5, <2>6, OthersOrder DEF Begun, Called
<1>5. CASE Close \/ Tick
  <2>1. UNCHANGED <<sent, pending, cooldownTask>> /\ (open' => open)
    BY <1>5 DEF Close, Tick
  <2>2. \A t \in Records : tasks'[t].pc = tasks[t].pc /\ tasks'[t].batch = tasks[t].batch
    BY <1>0, <1>5 DEF Close, Cancel, Tick, Task
  <2>3. IsNewest(pending, sent)'
    BY <1>0, <2>1 DEF IsNewest
  <2> QED BY <1>0, <2>1, <2>2, <2>3, OthersOrder DEF Begun, Called
<1>6. CASE UNCHANGED vars
  BY <1>1, <1>6 DEF vars
<1> QED
  BY <1>2, <1>3, <1>4, <1>5, <1>6, DispatchOrder, FireOrder DEF Next, Resume

-----------------------------------------------------------------------------
\* What the calls begun so far hold is a prefix of what was accepted.
Held == UNION {InTask(t) : t \in Begun}

HeldIsPrefix == \E h \in 0..sent : Held = 1..h

HandoffInv == IInv /\ CloseInv /\ Conserved /\ IdleWithoutLlm /\ OrderInv /\ HeldIsPrefix

\* Intervals from one are told apart by their end.
LEMMA IntervalEnd ==
  ASSUME NEW m \in Nat, NEW n \in Nat, 1..m = 1..n
  PROVE  m = n
<1>1. CASE m < n
  <2>1. n \in 1..n /\ n \notin 1..m
    BY <1>1
  <2> QED BY <2>1
<1>2. CASE n < m
  <2>1. m \in 1..m /\ m \notin 1..n
    BY <1>2
  <2> QED BY <2>1
<1> QED BY <1>1, <1>2

\* Handed is the length of that prefix.
LEMMA HandedIsPrefix ==
  HandoffInv => Handed \in 0..sent /\ sent \in Nat /\ Held = 1..Handed
<1> SUFFICES ASSUME HandoffInv PROVE Handed \in 0..sent /\ sent \in Nat /\ Held = 1..Handed
  OBVIOUS
<1>1. sent \in 0..MaxRecords
  BY DEF HandoffInv, IInv, TypeOK
<1>2. PICK h \in 0..sent : Held = 1..h
  BY DEF HandoffInv, HeldIsPrefix
<1>3. InRuns
  <2>1. \A t \in Begun : IsRun(tasks[t].batch)
    BY DEF HandoffInv, OrderInv, BatchesAreRuns, Begun
  <2>2. \A t \in Begun : \A u \in Begun \ {t} :
          Elements(tasks[t].batch) \cap Elements(tasks[u].batch) = {}
    BY DEF HandoffInv, Conserved, InTask, Begun
  <2> QED BY <2>1, <2>2 DEF InRuns, IsRun
<1>4. {n \in 0..MaxRecords : Held = 1..n} = {h}
  <2>1. h \in 0..MaxRecords
    BY <1>1
  <2>2. \A n \in 0..MaxRecords : 1..h = 1..n => h = n
    BY <1>1, IntervalEnd
  <2> QED BY <1>2, <2>1, <2>2
<1>5. UNION {Elements(tasks[t].batch) : t \in Begun} = Held
  BY DEF Held, InTask
<1>6. Handed = CHOOSE n \in {h} : TRUE
  BY <1>3, <1>4, <1>5 DEF Handed
<1> QED BY <1>1, <1>2, <1>6

\* Held depends only on the batches of the calls begun.
LEMMA HeldStays ==
  ASSUME \A t \in Records : /\ Called(t) /\ InTask(t) # {} => Called(t)' /\ InTask(t)' = InTask(t)
                            /\ Called(t)' /\ InTask(t)' # {} => Called(t) /\ InTask(t)' = InTask(t)
  PROVE  Held' = Held
<1>1. \A x : x \in Held <=> \E t \in Records : Called(t) /\ x \in InTask(t)
  BY DEF Held, Begun
<1>2. \A x : x \in Held' <=> \E t \in Records : Called(t)' /\ x \in InTask(t)'
  BY DEF Held, Begun
<1>3. \A x : x \in Held <=> x \in Held'
  BY <1>1, <1>2
<1> QED BY <1>3

\* Records no call has, with every record before them in a call, begin where Held ends.
LEMMA NextRun ==
  ASSUME NEW h \in Nat, NEW s \in Nat, NEW a \in Nat \ {0}, a <= s, a \notin 1..h,
         \A r \in 1..s : r < a => r \in 1..h
  PROVE  a = h + 1
<1>1. a > h
  OBVIOUS
<1>2. CASE a > h + 1
  <2>1. h + 1 \in 1..s /\ h + 1 < a /\ h + 1 \notin 1..h
    BY <1>2
  <2> QED BY <2>1
<1> QED BY <1>1, <1>2

\* A task that begins its call holds the records that follow those of the calls begun.
LEMMA StartHands ==
  ASSUME HandoffInv, NEW t \in Records, StartDelivery(t)
  PROVE  /\ open /\ UNCHANGED <<open, sent>>
         /\ \/ Held' = Held
            \/ \E n \in 1..BatchMax : Handed + n <= sent /\ Held' = 1..(Handed + n)
<1>1. /\ TypeOK /\ tasks \in [Records -> Task] /\ sent \in Nat /\ Records \subseteq Nat
      /\ IInv /\ CloseInv /\ Conserved /\ IdleWithoutLlm /\ OrderInv
  BY DEF HandoffInv, IInv, TypeOK, Records
<1>2. tasks[t].pc = "ready" /\ IsTurn(t) /\ ~tasks[t].cancelled /\ UNCHANGED <<open, sent>>
  BY DEF StartDelivery
<1>3. open /\ hasLlm
  BY <1>1, <1>2 DEF CloseInv, OnlyBegunCallsOutliveClose, Running, IdleWithoutLlm
<1>4. /\ \A u \in Records \ {t} : tasks'[u] = tasks[u]
      /\ tasks'[t].pc = "calling" /\ tasks'[t].batch = tasks[t].batch
  BY <1>1 DEF StartDelivery, Task
<1>5. \A u \in Records : InTask(u)' = InTask(u)
  BY <1>4 DEF InTask, Elements
<1>6. Handed \in 0..sent /\ Held = 1..Handed
  BY HandedIsPrefix
<1>7. CASE InTask(t) = {}
  BY <1>2, <1>3, <1>4, <1>5, <1>7, HeldStays DEF Called
<1>8. CASE InTask(t) # {}
  <2> DEFINE b == tasks[t].batch
             a == b[1]
             n == Len(b)
  <2>1. b \in Seq(Records) /\ b # <<>> /\ IsRun(b) /\ n \in 1..BatchMax
    <3>1. b \in Seq(Records) /\ IsRun(b) /\ Len(b) <= BatchMax
      BY <1>1 DEF Task, OrderInv, BatchesAreRuns
    <3>2. b # <<>>
      BY <1>8, ElementsEmpty DEF InTask
    <3> QED BY <3>1, <3>2
  <2>2. InTask(t) = a..(a + n - 1) /\ a \in Nat \ {0}
    BY <2>1, RunElements DEF InTask, Records
  <2>3. a + n - 1 \in InTask(t) /\ a \in InTask(t)
    BY <2>1, <2>2
  <2>4. a + n - 1 <= sent /\ a <= sent - Len(pending) /\ Len(pending) \in Nat
    <3>1. InTask(t) \subseteq 1..sent /\ InTask(t) \subseteq 1..(sent - Len(pending))
      BY <1>1, TasksBeforeBuffer DEF Conserved
    <3>2. Len(pending) \in Nat
      BY <1>1 DEF TypeOK
    <3> HIDE DEF a, n
    <3> QED BY <1>1, <2>2, <2>3, <3>1, <3>2
  <2>5. InTask(t) \cap Held = {}
    BY <1>1, <1>2 DEF Held, Begun, Called, Conserved
  <2>6. ASSUME NEW r \in 1..sent, r < a PROVE r \in Held
    <3>1. r \notin InBuffer
      BY <1>1, <2>2, <2>4, <2>6, TasksBeforeBuffer
    <3>2. PICK u \in Records : r \in InTask(u)
      BY <1>1, <1>3, <3>1 DEF Conserved
    <3>3. tasks[u].batch # <<>>
      BY <3>2, ElementsEmpty DEF InTask
    <3>4. u # t
      BY <2>2, <2>6, <3>2
    <3>5. tasks[u].pc # "ready"
      <4>1. CASE u < t
        <5>1. u \in 1..(t - 1)
          BY <1>1, <4>1 DEF Records
        <5> QED BY <1>2, <5>1 DEF IsTurn, Unstarted
      <4>2. CASE t < u
        <5>1. tasks[u].pc = "ready" => a < r
          BY <1>1, <1>2, <1>3, <2>3, <3>2, <4>2 DEF OrderInv, DeliveriesInOrder, IsWaitingBatch
        <5> QED BY <1>1, <2>2, <2>6, <5>1
      <4> QED BY <1>1, <3>4, <4>1, <4>2
    <3>6. u \in Begun
      BY <1>1, <1>3, <3>3, <3>5 DEF OrderInv, NothingDropped, IsWaitingBatch
    <3> QED BY <3>2, <3>6 DEF Held
  <2>7. Held' = Held \cup InTask(t)
    <3>1. \A x : x \in Held <=> \E u \in Records : Called(u) /\ x \in InTask(u)
      BY DEF Held, Begun
    <3>2. \A x : x \in Held' <=> \E u \in Records : Called(u)' /\ x \in InTask(u)
      BY <1>5 DEF Held, Begun
    <3>3. \A u \in Records : Called(u)' <=> Called(u) \/ u = t
      BY <1>2, <1>4 DEF Called
    <3> QED BY <3>1, <3>2, <3>3
  <2> HIDE DEF a, n, b
  <2>8. a = Handed + 1
    <3>1. Handed \in Nat /\ a <= sent /\ a \notin 1..Handed /\ \A r \in 1..sent : r < a => r \in 1..Handed
      BY <1>1, <1>6, <2>2, <2>3, <2>4, <2>5, <2>6
    <3> QED BY <1>1, <2>2, <3>1, NextRun
  <2>9. Handed + n <= sent /\ (1..Handed) \cup InTask(t) = 1..(Handed + n)
    BY <1>1, <1>6, <2>1, <2>2, <2>4, <2>8
  <2> QED BY <1>2, <1>3, <1>6, <2>1, <2>7, <2>9
<1> QED BY <1>7, <1>8

\* So does a cooldown task that takes the buffer.
LEMMA FireHands ==
  ASSUME HandoffInv, NEW t \in Records, CooldownFire(t)
  PROVE  /\ open /\ UNCHANGED <<open, sent>>
         /\ \/ Held' = Held
            \/ \E n \in 1..BatchMax : Handed + n <= sent /\ Held' = 1..(Handed + n)
<1>1. /\ TypeOK /\ tasks \in [Records -> Task] /\ sent \in Nat /\ pending \in Seq(Records)
      /\ IInv /\ CloseInv /\ Conserved /\ IdleWithoutLlm /\ OrderInv
      /\ Len(pending) < BatchMax
  BY DEF HandoffInv, IInv, TypeOK, BatchInv
<1>2. tasks[t].pc \in Waiting /\ tasks[t].batch = <<>> /\ UNCHANGED <<open, sent>>
  BY <1>1 DEF CooldownFire, IsDue, Waiting, IInv, BatchInv
<1>3. open /\ hasLlm /\ \A u \in Records : ~IsWaitingBatch(u)
  BY <1>1, <1>2, FireOrder DEF IdleWithoutLlm, Waiting
<1>4. /\ \A u \in Records \ {t} : tasks'[u] = tasks[u]
      /\ tasks'[t].pc = IF pending = <<>> THEN "idle" ELSE "calling"
      /\ tasks'[t].batch = pending
  BY <1>1 DEF CooldownFire, Task
<1>5. /\ \A u \in Records \ {t} : InTask(u)' = InTask(u) /\ (Called(u)' <=> Called(u))
      /\ InTask(t)' = InBuffer /\ InTask(t) = {}
      /\ Called(t)' <=> pending # <<>>
  BY <1>2, <1>4, ElementsEmpty DEF InTask, InBuffer, Elements, Called
<1>6. Handed \in 0..sent /\ Held = 1..Handed
  BY HandedIsPrefix
<1>7. InBuffer = (sent - Len(pending) + 1)..sent
  BY <1>1, TasksBeforeBuffer
<1>8. CASE pending = <<>>
  BY <1>2, <1>3, <1>5, <1>8, HeldStays
<1>9. CASE pending # <<>>
  <2> DEFINE n == Len(pending)
             a == sent - n + 1
  <2>1. n \in 1..BatchMax /\ n \in Nat \ {0}
    BY <1>1, <1>9
  <2>2. n <= sent
    <3>1. a \in InBuffer
      BY <1>1, <1>7, <2>1
    <3>2. a \in 1..sent
      BY <1>1, <3>1 DEF Conserved
    <3> QED BY <1>1, <2>1, <3>2
  <2>3. a \in Nat \ {0} /\ a + n - 1 = sent /\ InBuffer = a..(a + n - 1)
    BY <1>1, <1>7, <2>1, <2>2
  <2>4. InBuffer \cap Held = {}
    BY <1>1 DEF Held, Begun, Conserved
  <2>5. ASSUME NEW r \in 1..sent, r < a PROVE r \in Held
    <3>1. r \notin InBuffer
      BY <1>1, <1>7, <2>1, <2>5
    <3>2. PICK u \in Records : r \in InTask(u)
      BY <1>1, <1>3, <3>1 DEF Conserved
    <3>3. tasks[u].batch # <<>>
      BY <3>2, ElementsEmpty DEF InTask
    <3>4. u \in Begun
      BY <1>1, <1>3, <3>3 DEF OrderInv, NothingDropped
    <3> QED BY <3>2, <3>4 DEF Held
  <2>6. Held' = Held \cup InBuffer
    <3>1. \A x : x \in Held <=> \E u \in Records : Called(u) /\ x \in InTask(u)
      BY DEF Held, Begun
    <3>2. \A x : x \in Held' <=> \E u \in Records : Called(u)' /\ x \in InTask(u)'
      BY DEF Held, Begun
    <3> QED BY <1>5, <1>9, <3>1, <3>2
  <2> HIDE DEF a, n
  <2>7. a = Handed + 1
    <3>1. Handed \in Nat /\ a <= sent /\ a \in InBuffer
      BY <1>1, <1>6, <2>1, <2>3
    <3>2. a \notin 1..Handed /\ \A r \in 1..sent : r < a => r \in 1..Handed
      BY <1>6, <2>4, <2>5, <3>1
    <3> QED BY <1>1, <2>3, <3>1, <3>2, NextRun
  <2>8. Handed + n <= sent /\ (1..Handed) \cup InBuffer = 1..(Handed + n)
    BY <1>1, <1>6, <2>1, <2>3, <2>7
  <2> QED BY <1>2, <1>3, <1>6, <2>1, <2>6, <2>8
<1> QED BY <1>8, <1>9

\* Every other step leaves what the calls begun hold alone.
LEMMA OtherStepsHold ==
  ASSUME HandoffInv, [Next]_vars
  PROVE  \/ \E t \in Records : StartDelivery(t) \/ CooldownFire(t)
         \/ /\ Held' = Held
            /\ \/ UNCHANGED <<open, sent>>
               \/ open /\ open' = open /\ sent < MaxRecords /\ sent' = sent + 1
               \/ open /\ open' = FALSE /\ sent' = sent
<1>1. TypeOK /\ tasks \in [Records -> Task] /\ BatchInv
  BY DEF HandoffInv, IInv, TypeOK
<1>2. ASSUME UNCHANGED tasks PROVE Held' = Held
  BY <1>2 DEF Held, Begun, Called, InTask, Elements
<1>3. ASSUME NEW s \in Subscribers, Subscribe(s) \/ Stream(s) \/ Unsubscribe(s)
      PROVE  Held' = Held /\ UNCHANGED <<open, sent>>
  BY <1>2, <1>3 DEF Subscribe, Stream, Unsubscribe, llmVars
<1>4. ASSUME DispatchEventOnly
      PROVE  Held' = Held /\ open /\ open' = open /\ sent < MaxRecords /\ sent' = sent + 1
  BY <1>2, <1>4 DEF DispatchEventOnly, Accept, llmVars
<1>5. ASSUME DispatchRearm \/ DispatchFull
      PROVE  Held' = Held /\ open /\ open' = open /\ sent < MaxRecords /\ sent' = sent + 1
  <2>1. /\ open /\ open' = open /\ sent < MaxRecords /\ sent' = sent + 1
        /\ sent + 1 \in Records /\ tasks[sent + 1].pc = "absent"
        /\ \A t \in Records \ {sent + 1} :
             tasks'[t].pc = tasks[t].pc /\ tasks'[t].batch = tasks[t].batch
        /\ tasks'[sent + 1].pc \in {"created", "ready"}
    BY <1>1, <1>5, DispatchTasks
  <2>2. \A t \in Records \ {sent + 1} : InTask(t)' = InTask(t) /\ (Called(t)' <=> Called(t))
    BY <2>1 DEF InTask, Elements, Called
  <2>3. ~Called(sent + 1) /\ \A t \in Records : t = sent + 1 => ~Called(t)'
    BY <2>1 DEF Called
  <2> QED BY <2>1, <2>2, <2>3, HeldStays
<1>6. ASSUME NEW t \in Records,
             \/ CooldownSleep(t) \/ Unwind(t)
             \/ \E result \in {"delivered", "failed"} : EndCall(t, result)
      PROVE  Held' = Held /\ UNCHANGED <<open, sent>>
  <2>1. UNCHANGED <<open, sent>> /\ \A u \in Records \ {t} : tasks'[u] = tasks[u]
    BY <1>1, <1>6 DEF CooldownSleep, Unwind, EndCall
  <2>2. tasks'[t].batch = tasks[t].batch
    BY <1>1, <1>6 DEF CooldownSleep, Unwind, EndCall, Task
  <2>3. tasks[t].batch = <<>> \/ (Called(t)' <=> Called(t))
    BY <1>1, <1>6 DEF CooldownSleep, Unwind, EndCall, Task, Called, Running
  <2>4. \A u \in Records : InTask(u)' = InTask(u)
    BY <2>1, <2>2 DEF InTask, Elements
  <2>5. \A u \in Records : InTask(u) # {} => (Called(u)' <=> Called(u))
    BY <2>1, <2>3, ElementsEmpty DEF InTask, Called
  <2> QED BY <2>1, <2>4, <2>5, HeldStays
<1>7. ASSUME Close \/ Tick
      PROVE  Held' = Held /\ sent' = sent /\ (open' = open \/ (open /\ open' = FALSE))
  <2>1. \A t \in Records : tasks'[t].pc = tasks[t].pc /\ tasks'[t].batch = tasks[t].batch
    BY <1>1, <1>7 DEF Close, Cancel, Tick, Task
  <2>2. \A t \in Records : InTask(t)' = InTask(t) /\ (Called(t)' <=> Called(t))
    BY <2>1 DEF InTask, Elements, Called
  <2>3. Held' = Held
    BY <2>2, HeldStays
  <2> QED BY <1>7, <2>3 DEF Close, Tick
<1>8. UNCHANGED vars => Held' = Held /\ UNCHANGED <<open, sent>>
  BY <1>2 DEF vars
<1> QED BY <1>3, <1>4, <1>5, <1>6, <1>7, <1>8 DEF Next, Resume

\* The invariant of the refinement is inductive.
LEMMA HandoffInvStep == HandoffInv /\ [Next]_vars => HandoffInv'
<1> SUFFICES ASSUME HandoffInv, [Next]_vars PROVE HeldIsPrefix'
  <2>1. HandoffInv => TypeOK
    BY DEF HandoffInv, IInv
  <2> QED BY <2>1, StepIInv, StepCloseInv, StepConserved, IdleStep, OrderStep DEF HandoffInv
<1>1. Handed \in 0..sent /\ sent \in Nat /\ Held = 1..Handed
  BY HandedIsPrefix
<1>2. \E h \in 0..sent' : Held' = 1..h
  <2>1. CASE \E t \in Records : StartDelivery(t) \/ CooldownFire(t)
    <3>1. sent' = sent
      BY <2>1, StartHands, FireHands
    <3>2. Held' = Held \/ \E n \in 1..BatchMax : Handed + n <= sent /\ Held' = 1..(Handed + n)
      BY <2>1, StartHands, FireHands
    <3> QED BY <1>1, <3>1, <3>2
  <2>2. CASE Held' = Held /\ sent' \in {sent, sent + 1}
    BY <1>1, <2>2
  <2> QED BY <2>1, <2>2, OtherStepsHold
<1> QED BY <1>2 DEF HeldIsPrefix

\* Every step of the dispatcher is a step of OrderedHandoff or leaves it alone.
LEMMA HandoffStep ==
  HandoffInv /\ HandoffInv' /\ [Next]_vars => [Handoff!HandoffNext]_(Handoff!handoffVars)
<1> SUFFICES ASSUME HandoffInv, HandoffInv', [Next]_vars
             PROVE  [Handoff!HandoffNext]_(Handoff!handoffVars)
  OBVIOUS
<1>1. Handed \in 0..sent /\ sent \in Nat /\ Held = 1..Handed
  BY HandedIsPrefix
<1>2. (Handed \in 0..sent /\ sent \in Nat /\ Held = 1..Handed)'
  BY HandedIsPrefix, PTL
<1>3. Held' = Held => Handed' = Handed
  <2>1. Handed' \in Nat /\ Handed \in Nat
    BY <1>1, <1>2
  <2>2. Held' = Held => 1..Handed' = 1..Handed
    BY <1>1, <1>2
  <2> QED BY <2>1, <2>2, IntervalEnd
<1> USE DEF Handoff!HandoffNext, Handoff!handoffVars, Handoff!AcceptRecord, Handoff!HandBatch,
            Handoff!StopAccepting
<1>4. CASE \E t \in Records : StartDelivery(t) \/ CooldownFire(t)
  <2>1. open /\ UNCHANGED <<open, sent>>
    BY <1>4, StartHands, FireHands
  <2>2. Held' = Held \/ \E n \in 1..BatchMax : Handed + n <= sent /\ Held' = 1..(Handed + n)
    BY <1>4, StartHands, FireHands
  <2>3. ASSUME NEW n \in 1..BatchMax, Handed + n <= sent, Held' = 1..(Handed + n)
        PROVE  Handed' = Handed + n
    <3>1. Handed' \in Nat /\ Handed + n \in Nat /\ 1..Handed' = 1..(Handed + n)
      BY <1>1, <1>2, <2>3
    <3> QED BY <3>1, IntervalEnd
  <2> QED BY <1>3, <2>1, <2>2, <2>3
<1>5. CASE /\ Held' = Held
           /\ \/ UNCHANGED <<open, sent>>
              \/ open /\ open' = open /\ sent < MaxRecords /\ sent' = sent + 1
              \/ open /\ open' = FALSE /\ sent' = sent
  BY <1>3, <1>5
<1> QED BY <1>4, <1>5, OtherStepsHold

\* The dispatcher implements OrderedHandoff for every number of records, batch size,
\* cooldown and maximum age: whichever timers and deliveries carry them, accepted records
\* reach the LLM calls in arrival order, each once, up to the cap per call, and none once
\* the dispatcher is closed.
THEOREM DispatcherImplementsHandoff == Spec => ImplementsHandoff
<1>1. Init => HandoffInv
  <2> SUFFICES ASSUME Init PROVE HandoffInv
    OBVIOUS
  <2>1. CloseInv
    BY DEF Init, CloseInv, ReadyIsTracked, OnlyBegunCallsOutliveClose, NewTask
  <2>2. sent = 0 /\ pending = <<>> /\ InBuffer = {} /\ cooldownTask = NoTask
        /\ \A t \in Records : tasks[t].pc = "absent" /\ tasks[t].batch = <<>> /\ InTask(t) = {}
    BY ElementsEmpty DEF Init, InBuffer, InTask, NewTask
  <2>3. Conserved /\ IdleWithoutLlm
    BY <2>2 DEF Conserved, IdleWithoutLlm
  <2>4. OrderInv
    <3>1. Len(<<>>) <= BatchMax /\ IsRun(<<>>) /\ IsNewest(<<>>, 0)
      BY DEF IsRun, IsNewest
    <3> QED BY <2>2, <3>1 DEF OrderInv, BatchesAreRuns, NothingDropped, DeliveriesInOrder,
                              TimerIsLast, IsWaitingBatch, NoTask, Records
  <2>5. HeldIsPrefix
    <3>1. Held = {} /\ 1..0 = {} /\ 0 \in 0..sent
      BY <2>2 DEF Held, Begun, Called
    <3> QED BY <3>1 DEF HeldIsPrefix
  <2> QED BY <2>1, <2>3, <2>4, <2>5, InitIInv DEF HandoffInv
<1>2. Init => Handoff!HandoffInit
  <2>1. Init => sent = 0 /\ open = TRUE
    BY DEF Init
  <2>2. Init => Handed = 0
    BY <1>1, <2>1, HandedIsPrefix
  <2> QED BY <2>1, <2>2 DEF Handoff!HandoffInit
<1> QED
  BY <1>1, <1>2, HandoffInvStep, HandoffStep, PTL DEF Spec, ImplementsHandoff, Handoff!HandoffSpec
=============================================================================
