-------------------------- MODULE WebhookDispatcher --------------------------
(***************************************************************************)
(* nio_mcp/webhook.py: the dispatcher that hands every live message to the *)
(* SSE subscribers and, in debounced batches, to the LLM callback.         *)
(*                                                                         *)
(* Everything runs on one asyncio loop, so an action is the code between   *)
(* two awaits.  What interleaves is the order in which the loop resumes    *)
(* tasks, and task.cancel(), which only takes effect when the cancelled    *)
(* task is next resumed.                                                   *)
(*                                                                         *)
(* Records are numbered by arrival.  One dispatch creates at most one task *)
(* (a cooldown task or a delivery task), so a task has the number of the   *)
(* record whose dispatch created it.  The loop's clock is only used in     *)
(* differences; the state keeps the age of the batch and the rest of each  *)
(* sleep in whole units.                                                   *)
(*                                                                         *)
(* A definition named Faulty... is a variant with a bug, kept to show that *)
(* some property notices it; the specification uses none of them.          *)
(***************************************************************************)
EXTENDS Integers, Sequences

CONSTANTS
  MaxRecords,    \* bound: records dispatched in a behaviour
  BatchMax,      \* _MAX_BATCH_SIZE
  Cooldown,      \* WEBHOOK_COOLDOWN_SECONDS, in clock units
  MaxQueue,      \* WEBHOOK_MAX_QUEUE_SECONDS, in clock units
  Subscribers,   \* SSE connections that may open
  QueueMaxsize   \* SSE_QUEUE_MAXSIZE

ASSUME BoundsAssumption == MaxRecords \in Nat

\* config.py rejects a cooldown, a maximum age or a queue size that is not positive.
ASSUME ConfigAssumption ==
  /\ BatchMax \in Nat \ {0}
  /\ Cooldown \in Nat \ {0}
  /\ MaxQueue \in Nat \ {0}
  /\ QueueMaxsize \in Nat \ {0}

VARIABLES
  hasLlm,         \* _llm_client is set: create_llm_callback_client returned one
  open,           \* close() has not run
  sent,           \* number of records dispatched so far
  pending,        \* _pending_records
  batchAge,       \* loop.time() - _batch_started_at, or Unset
  cooldownTask,   \* _cooldown_task, or NoTask
  tasks,          \* the asyncio tasks, by number
  queues,         \* _subscribers: the queue of every open connection
  streamed,       \* per connection, the last record its client was given
  quiet           \* time since the last dispatch, up to Cooldown

llmVars == <<pending, batchAge, cooldownTask, tasks>>
sseVars == <<queues, streamed>>
vars == <<hasLlm, open, sent, pending, batchAge, cooldownTask, tasks, queues, streamed, quiet>>

Records == 1..MaxRecords
Unset == -1
NoTask == 0
AgeCap == MaxQueue + 1     \* ages above MaxQueue are not told apart

Lesser(a, b) == IF a < b THEN a ELSE b
Elements(s) == {s[i] : i \in DOMAIN s}

(***************************************************************************)
(* The life of a task.  A cooldown task is "created", sleeps ("asleep")    *)
(* and, unless cancelled, takes the buffer and is "calling" the LLM; a     *)
(* delivery task is "ready" with its batch and then "calling".  "idle" is  *)
(* a task that ended without a batch; the other ends say what became of    *)
(* the batch: "aborted" was cancelled during its call, "dropped" before.   *)
(***************************************************************************)
Unstarted == {"created", "ready"}
Running   == {"created", "ready", "asleep", "calling"}
Ended     == {"idle", "delivered", "failed", "aborted", "dropped"}

Task == [pc : Running \cup Ended \cup {"absent"}, left : Int,
         cancelled : BOOLEAN, tracked : BOOLEAN, batch : Seq(Records)]

NewTask(pc, left, batch) ==
  [pc |-> pc, left |-> left, cancelled |-> FALSE,
   tracked |-> pc = "ready", batch |-> batch]

\* The loop starts new tasks in the order they were created.
IsTurn(t) ==
  tasks[t].pc \in Unstarted => \A u \in 1..(t - 1) : tasks[u].pc \notin Unstarted

\* A sleeping cooldown task whose timer has fired, or one created with nothing to wait for.
IsDue(t) == tasks[t].pc \in {"created", "asleep"} /\ tasks[t].left <= 0

\* A task the loop would resume in its current iteration.
IsReady(t) ==
  \/ tasks[t].pc \in Unstarted
  \/ tasks[t].pc = "asleep" /\ tasks[t].left <= 0
  \/ tasks[t].pc \in Running /\ tasks[t].cancelled

FaultyCancelNothing(S) == tasks

\* task.cancel() on every task of S that is not done().
Cancel(S) ==
  [t \in Records |->
     IF t \in S /\ tasks[t].pc \in Running THEN [tasks[t] EXCEPT !.cancelled = TRUE]
     ELSE tasks[t]]

Init ==
  /\ hasLlm \in BOOLEAN     \* fixed by the configuration
  /\ open = TRUE
  /\ sent = 0
  /\ pending = <<>>
  /\ batchAge = Unset
  /\ cooldownTask = NoTask
  /\ tasks = [t \in Records |-> NewTask("absent", 0, <<>>)]
  /\ queues = [s \in {} |-> <<>>]
  /\ streamed = [s \in Subscribers |-> 0]
  /\ quiet = Cooldown

-----------------------------------------------------------------------------
(* SSE: subscribe, the generator's q.get(), unsubscribe *)

FaultyFanOutDropsNewest(qs, r) ==
  [s \in DOMAIN qs |-> IF Len(qs[s]) >= QueueMaxsize THEN qs[s] ELSE Append(qs[s], r)]

\* Every queue gets the record; a full one first gives up its oldest.
FanOut(qs, r) ==
  [s \in DOMAIN qs |->
     Append(IF Len(qs[s]) >= QueueMaxsize THEN Tail(qs[s]) ELSE qs[s], r)]

Subscribe(s) ==
  /\ s \notin DOMAIN queues
  /\ queues' = [c \in DOMAIN queues \cup {s} |-> IF c = s THEN <<>> ELSE queues[c]]
  /\ streamed' = [streamed EXCEPT ![s] = sent]
  /\ UNCHANGED <<hasLlm, open, sent, quiet, llmVars>>

Stream(s) ==
  /\ s \in DOMAIN queues
  /\ queues[s] # <<>>
  /\ streamed' = [streamed EXCEPT ![s] = Head(queues[s])]
  /\ queues' = [queues EXCEPT ![s] = Tail(queues[s])]
  /\ UNCHANGED <<hasLlm, open, sent, quiet, llmVars>>

Unsubscribe(s) ==
  /\ s \in DOMAIN queues
  /\ queues' = [c \in DOMAIN queues \ {s} |-> queues[c]]
  /\ UNCHANGED <<hasLlm, open, sent, streamed, quiet, llmVars>>

-----------------------------------------------------------------------------
(* dispatch *)

FaultyBufferPrevious == Append(pending, sent)
Buffer == Append(pending, sent + 1)
StartedAge == IF batchAge = Unset THEN 0 ELSE batchAge

FaultyWaitWithoutCap == Cooldown

\* The sleep of the cooldown task a dispatch creates.
Wait == Lesser(Cooldown, MaxQueue - StartedAge)

FaultyFullLate == Len(Buffer) > BatchMax

IsFull == Len(Buffer) >= BatchMax
FullBatch == SubSeq(Buffer, 1, BatchMax)

FaultyRestOverlaps == SubSeq(Buffer, BatchMax, Len(Buffer))

Rest == SubSeq(Buffer, BatchMax + 1, Len(Buffer))

Accept ==
  /\ open
  /\ sent < MaxRecords
  /\ sent' = sent + 1
  /\ quiet' = 0
  /\ queues' = FanOut(queues, sent + 1)
  /\ UNCHANGED <<hasLlm, open, streamed>>

\* No LLM client: only the SSE side.
DispatchEventOnly ==
  /\ ~hasLlm
  /\ Accept
  /\ UNCHANGED llmVars

\* The buffer stays below the cap: the debounce is restarted.
DispatchRearm ==
  /\ hasLlm
  /\ ~IsFull
  /\ Accept
  /\ pending' = Buffer
  /\ batchAge' = StartedAge
  /\ tasks' = [Cancel({cooldownTask}) EXCEPT ![sent + 1] = NewTask("created", Wait, <<>>)]
  /\ cooldownTask' = sent + 1

\* The cap is reached: the batch goes out in a delivery task of its own.
DispatchFull ==
  /\ hasLlm
  /\ IsFull
  /\ Accept
  /\ pending' = Rest
  /\ batchAge' = IF Rest = <<>> THEN Unset ELSE 0
  /\ tasks' = [Cancel({cooldownTask}) EXCEPT ![sent + 1] = NewTask("ready", 0, FullBatch)]
  /\ cooldownTask' = NoTask

-----------------------------------------------------------------------------
(* The tasks *)

\* _cooldown_fire up to its sleep.
CooldownSleep(t) ==
  /\ tasks[t].pc = "created" /\ IsTurn(t)
  /\ ~tasks[t].cancelled /\ tasks[t].left > 0
  /\ tasks' = [tasks EXCEPT ![t].pc = "asleep"]
  /\ UNCHANGED <<hasLlm, open, sent, pending, batchAge, cooldownTask, quiet, sseVars>>

FaultyTakeKeepsBuffer == cooldownTask' = NoTask /\ batchAge' = Unset /\ UNCHANGED pending
FaultyTakeStaysCurrent == pending' = <<>> /\ batchAge' = Unset /\ UNCHANGED cooldownTask

\* The swap: the buffer is emptied, and no task and no batch is current any more.
TakeBuffer == pending' = <<>> /\ cooldownTask' = NoTask /\ batchAge' = Unset

\* _cooldown_fire after its sleep: the buffer is swapped out and, if it held
\* anything, _deliver starts in the same step.
CooldownFire(t) ==
  /\ IsDue(t) /\ IsTurn(t)
  /\ ~tasks[t].cancelled
  /\ tasks' = [tasks EXCEPT ![t].pc = IF pending = <<>> THEN "idle" ELSE "calling",
                            ![t].batch = pending]
  /\ TakeBuffer
  /\ UNCHANGED <<hasLlm, open, sent, quiet, sseVars>>

\* A delivery task enters _deliver.
StartDelivery(t) ==
  /\ tasks[t].pc = "ready" /\ IsTurn(t)
  /\ ~tasks[t].cancelled
  /\ tasks' = [tasks EXCEPT ![t].pc = "calling"]
  /\ UNCHANGED <<hasLlm, open, sent, pending, batchAge, cooldownTask, quiet, sseVars>>

\* The LLM call returns or raises; _deliver swallows the exception.
EndCall(t, result) ==
  /\ tasks[t].pc = "calling"
  /\ ~tasks[t].cancelled
  /\ tasks' = [tasks EXCEPT ![t].pc = result]
  /\ UNCHANGED <<hasLlm, open, sent, pending, batchAge, cooldownTask, quiet, sseVars>>

\* A cancelled task is resumed with CancelledError, wherever it was waiting.
Unwind(t) ==
  /\ tasks[t].pc \in Running /\ IsTurn(t)
  /\ tasks[t].cancelled
  /\ tasks' = [tasks EXCEPT ![t].pc = CASE tasks[t].batch = <<>> -> "idle"
                                        [] tasks[t].pc = "calling" -> "aborted"
                                        [] OTHER -> "dropped"]
  /\ UNCHANGED <<hasLlm, open, sent, pending, batchAge, cooldownTask, quiet, sseVars>>

Deliveries == {t \in Records : tasks[t].tracked}

FaultyCancelledByClose == Deliveries

CancelledByClose == {cooldownTask} \cup Deliveries

\* close: the current cooldown task and the tracked deliveries are cancelled.
Close ==
  /\ open
  /\ open' = FALSE
  /\ tasks' = Cancel(CancelledByClose)
  /\ UNCHANGED <<hasLlm, sent, pending, batchAge, cooldownTask, quiet, sseVars>>

\* One unit of time.  The loop is prompt: it never sits out a whole unit
\* with a task it could resume.
Tick ==
  /\ \A t \in Records : ~IsReady(t)
  /\ tasks' = [t \in Records |->
                 IF tasks[t].pc = "asleep" THEN [tasks[t] EXCEPT !.left = @ - 1]
                 ELSE tasks[t]]
  /\ batchAge' = IF batchAge = Unset THEN Unset ELSE Lesser(batchAge + 1, AgeCap)
  /\ quiet' = Lesser(quiet + 1, Cooldown)
  /\ UNCHANGED <<hasLlm, open, sent, pending, cooldownTask, sseVars>>

Resume(t) ==
  \/ CooldownSleep(t)
  \/ CooldownFire(t)
  \/ StartDelivery(t)
  \/ Unwind(t)

Next ==
  \/ \E s \in Subscribers : Subscribe(s) \/ Stream(s) \/ Unsubscribe(s)
  \/ DispatchEventOnly
  \/ DispatchRearm
  \/ DispatchFull
  \/ \E t \in Records : Resume(t)
  \/ \E t \in Records, result \in {"delivered", "failed"} : EndCall(t, result)
  \/ Close
  \/ Tick

\* The loop keeps resuming ready tasks and time passes; nothing is assumed of
\* the LLM, of the clients or of the arrival of messages.
Fairness == WF_vars(Tick) /\ \A t \in Records : WF_vars(Resume(t))

Spec == Init /\ [][Next]_vars /\ Fairness

-----------------------------------------------------------------------------
(* Properties *)

TypeOK ==
  /\ hasLlm \in BOOLEAN
  /\ open \in BOOLEAN
  /\ sent \in 0..MaxRecords
  /\ pending \in Seq(Records)
  /\ batchAge \in {Unset} \cup 0..AgeCap
  /\ cooldownTask \in {NoTask} \cup Records
  /\ tasks \in [Records -> Task]
  /\ DOMAIN queues \subseteq Subscribers
  /\ \A s \in DOMAIN queues : queues[s] \in Seq(Records)
  /\ streamed \in [Subscribers -> 0..MaxRecords]
  /\ quiet \in 0..Cooldown

Holds(t, r) == r \in Elements(tasks[t].batch)

\* Records leave the buffer exactly once.  However dispatches, timers and
\* cancellations interleave (a timer that has fired but whose task is
\* cancelled before it runs included), every dispatched record is either still
\* buffered or in the batch of exactly one task, never in both and never twice.
NoRecordLostOrRepeated ==
  hasLlm =>
    \A r \in 1..sent :
      /\ r \in Elements(pending) \/ \E t \in Records : Holds(t, r)
      /\ \A t \in Records : Holds(t, r) => r \notin Elements(pending)
      /\ \A t, u \in Records : Holds(t, r) /\ Holds(u, r) => t = u

\* While the dispatcher is open the oldest buffered record never gets older
\* than WEBHOOK_MAX_QUEUE_SECONDS, whatever the traffic (README, Webhooks).
MaxAgeBound == open => batchAge <= MaxQueue

\* dispatch() only ever cancels a task that holds no records: the task in
\* _cooldown_task has not yet taken the buffer, because taking it and clearing
\* _cooldown_task happen in one step.
CancelNeverHitsABatch ==
  open => \A t \in Records : tasks[t].cancelled => tasks[t].batch = <<>>

\* close() reaches everything except a call it does not know of: a task left
\* running uncancelled is a cooldown task whose LLM call had already begun (that
\* one may outlive the dispatcher).  No timer, superseded or not, survives to
\* start a call after the shutdown.
OnlyBegunCallsOutliveClose ==
  ~open => \A t \in Records :
    tasks[t].pc \in Running /\ ~tasks[t].cancelled
      => tasks[t].pc = "calling" /\ ~tasks[t].tracked

Called(t) == tasks[t].pc \in {"calling", "delivered", "failed", "aborted"}

\* A cooldown task takes the buffer only after a full cooldown of silence, or
\* because the oldest record has reached the maximum age: superseded timers
\* never flush early.
FlushOnlyWhenDue ==
  [][ (pending # <<>> /\ pending' = <<>> /\ sent' = sent)
        => quiet >= Cooldown \/ batchAge >= MaxQueue ]_vars

\* Every record is eventually part of an LLM call unless the dispatcher closes.
EventuallyCalled ==
  \A r \in Records :
    (hasLlm /\ r <= sent) ~> (~open \/ \E t \in Records : Called(t) /\ Holds(t, r))

\* An SSE queue never exceeds its size and always holds the newest records
\* without a gap: when it overflows it is the oldest that go.
QueuesKeepNewest ==
  \A s \in DOMAIN queues :
    LET q == queues[s] IN
      /\ Len(q) <= QueueMaxsize
      /\ \A i \in 1..Len(q) : q[i] = sent - Len(q) + i
      /\ Len(q) < QueueMaxsize => Len(q) = sent - streamed[s]

-----------------------------------------------------------------------------
(* The dispatcher implements OrderedHandoff: what has been handed over is what *)
(* the calls begun so far hold.                                                *)

Begun == {t \in Records : Called(t)}

\* Each call has a run of records, in arrival order and without a gap, of its own.
InRuns ==
  \A t \in Begun :
    LET b == tasks[t].batch IN
      /\ \A i \in DOMAIN b : b[i] = b[1] + i - 1
      /\ \A u \in Begun \ {t} : Elements(b) \cap Elements(tasks[u].batch) = {}

\* The number of records handed over; none if they are not the first so many.
Handed ==
  LET held == UNION {Elements(tasks[t].batch) : t \in Begun}
      prefixes == {n \in 0..MaxRecords : held = 1..n}
  IN IF InRuns /\ prefixes # {} THEN CHOOSE n \in prefixes : TRUE ELSE Unset

Handoff == INSTANCE OrderedHandoff
             WITH accepting <- open, accepted <- sent, handed <- Handed

\* Seen through Handed, every step of the timers, deliveries and dispatches is
\* a step of OrderedHandoff or changes nothing: the calls begun so far hold a
\* prefix of what was accepted, whichever tasks began them, and every call holds
\* the next records of it, in order and no more than the cap.
ImplementsHandoff == Handoff!HandoffSpec
=============================================================================
