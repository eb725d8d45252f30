---------------------------- MODULE ServerLifecycle ----------------------------
(***************************************************************************)
(* The lifespan of the server (server.py) and what it starts and ends:     *)
(* the Qdrant collection, the task that starts the Matrix client, the sync *)
(* task that one leaves behind, tool calls in flight, and the resources    *)
(* they all use.  stop() of the Matrix client is part of it; what the      *)
(* tasks do is in the other modules.                                       *)
(*                                                                         *)
(* Time is counted in ticks.  nio (a poll ends by its timeout, and         *)
(* sync_forever ends after the iteration in which it was asked to), uvicorn *)
(* and the MCP session manager (it cancels the calls it still serves) are  *)
(* external.                                                               *)
(*                                                                         *)
(* A definition named Faulty... is a variant with a bug, kept to show that *)
(* some property notices it; the specification uses none of them.          *)
(***************************************************************************)
EXTENDS Integers, Sequences

CONSTANTS
  Window,    \* how long stop() waits for the sync task: 35 s
  PollMax,   \* MATRIX_SYNC_TIMEOUT_MS
  NotCut     \* no handler has been cut

ASSUME LifecycleAssumption == Window \in Nat /\ PollMax \in Nat /\ NotCut \notin Nat

VARIABLES
  phase,      \* "down", "init", "serving", "closing" or "stopped"
  agenda,     \* what is left to do of init_collection, or of the finally block
  collection, \* what there is in Qdrant: the collection and its payload indexes
  opened,     \* resources that are open
  startTask,  \* "none", "created", "running", "done", "failed" or "cancelled"
  syncTask,   \* "none", "polling", "handling", "ended" or "dead"
  asked,      \* stop_sync_forever has been called
  calling,    \* a tool call waits for an answer of the homeserver
  polled,     \* ticks since the current poll began
  handled,    \* ticks since the callbacks of the current response began
  waited,     \* ticks stop() has waited
  cut,        \* history: handled of the callbacks stop() has cut, or NotCut
  raised      \* history: an exception has ended the shutdown

tasks == <<startTask, syncTask, asked, calling>>
clocks == <<polled, handled, waited>>
vars == <<phase, agenda, collection, opened, tasks, clocks, cut, raised>>

Resources == {"qdrant", "store", "client", "dispatcher"}
\* init_collection creates the collection and its three indexes.
SetUp == <<"collection", "timestamp", "sender_search", "room_search">>
Indexes == Tail(SetUp)

Elements(s) == {s[i] : i \in DOMAIN s}

FaultyInitSteps(existing) == IF "collection" \in existing THEN <<>> ELSE SetUp

\* The indexes are created on every start.
InitSteps(existing) == IF "collection" \in existing THEN Indexes ELSE SetUp

FaultyShutdownSteps ==
  <<"start task", "qdrant", "ask", "wait", "store", "client", "dispatcher">>

\* The finally block of lifespan(), with stop() in the middle of it.
ShutdownSteps ==
  <<"start task", "ask", "wait", "store", "client", "qdrant", "dispatcher">>

Steps == Elements(SetUp) \cup Elements(ShutdownSteps)

NoProcess ==
  /\ opened = {}
  /\ startTask = "none" /\ syncTask = "none" /\ asked = FALSE /\ calling = FALSE
  /\ polled = 0 /\ handled = 0 /\ waited = 0
  /\ cut = NotCut /\ raised = FALSE

Init == phase = "down" /\ agenda = <<>> /\ collection = {} /\ NoProcess

-----------------------------------------------------------------------------
(* Starting *)

\* What a process keeps in memory ends with it.
Forget ==
  /\ startTask' = "none" /\ syncTask' = "none" /\ asked' = FALSE /\ calling' = FALSE
  /\ polled' = 0 /\ handled' = 0 /\ waited' = 0
  /\ cut' = NotCut /\ raised' = FALSE

Boot ==
  /\ phase \in {"down", "stopped"}
  /\ phase' = "init"
  /\ agenda' = InitSteps(collection)
  /\ opened' = {"qdrant"}
  /\ Forget
  /\ UNCHANGED collection

InitStep ==
  /\ phase = "init" /\ agenda # <<>>
  /\ collection' = collection \cup {Head(agenda)}
  /\ agenda' = Tail(agenda)
  /\ UNCHANGED <<phase, opened, tasks, clocks, cut, raised>>

\* A request to Qdrant raises, whether it had its effect or not.
InitFails ==
  /\ phase = "init" /\ agenda # <<>>
  /\ collection' \in {collection, collection \cup {Head(agenda)}}
  /\ phase' = "closing" /\ agenda' = ShutdownSteps
  /\ UNCHANGED <<opened, tasks, clocks, cut, raised>>

Serve ==
  /\ phase = "init" /\ agenda = <<>>
  /\ phase' = "serving"
  /\ opened' = opened \cup {"dispatcher"}
  /\ startTask' = "created"
  /\ UNCHANGED <<agenda, collection, syncTask, asked, calling, clocks, cut, raised>>

\* start() opens its resources before its first await.
OpenStore ==
  /\ startTask = "created"
  /\ startTask' = "running"
  /\ opened' = opened \cup {"store", "client"}
  /\ UNCHANGED <<phase, agenda, collection, syncTask, asked, calling, clocks, cut, raised>>

\* Opening raises.  The server keeps serving, and /health answers 503.
OpenFails ==
  /\ startTask = "created"
  /\ startTask' = "failed"
  /\ opened' \in {opened, opened \cup {"store"}, opened \cup {"store", "client"}}
  /\ UNCHANGED <<phase, agenda, collection, syncTask, asked, calling, clocks, cut, raised>>

\* start() is through, or raises after some time.
StartEnds ==
  /\ startTask = "running"
  /\ \/ startTask' = "done" /\ syncTask' = "polling" /\ polled' = 0
     \/ startTask' = "failed" /\ UNCHANGED <<syncTask, polled>>
  /\ UNCHANGED <<phase, agenda, collection, opened, asked, calling, handled, waited, cut, raised>>

-----------------------------------------------------------------------------
(* Serving *)

\* send_message or get_message_context; without a client they raise at once.
CallTool ==
  /\ phase = "serving" /\ ~calling
  /\ "client" \in opened
  /\ calling' = TRUE
  /\ UNCHANGED <<phase, agenda, collection, opened, startTask, syncTask, asked, clocks, cut, raised>>

ToolAnswers ==
  /\ calling /\ calling' = FALSE
  /\ UNCHANGED <<phase, agenda, collection, opened, startTask, syncTask, asked, clocks, cut, raised>>

\* A sync response arrives, or the poll times out.
PollReturns ==
  /\ syncTask = "polling"
  /\ syncTask' = "handling" /\ handled' = 0
  /\ UNCHANGED <<phase, agenda, collection, opened, startTask, asked, calling, polled, waited,
                 cut, raised>>

CallbacksEnd ==
  /\ syncTask = "handling"
  /\ syncTask' = IF asked THEN "ended" ELSE "polling"
  /\ polled' = 0
  /\ UNCHANGED <<phase, agenda, collection, opened, startTask, asked, calling, handled, waited,
                 cut, raised>>

\* A room or member callback raises: nothing restarts sync_forever or looks at it.
CallbackRaises ==
  /\ syncTask = "handling"
  /\ syncTask' = "dead"
  /\ UNCHANGED <<phase, agenda, collection, opened, startTask, asked, calling, clocks, cut, raised>>

-----------------------------------------------------------------------------
(* Shutting down *)

\* The server is told to stop; the session manager ends the calls in flight.
Shutdown ==
  /\ phase = "serving"
  /\ phase' = "closing" /\ agenda' = ShutdownSteps
  /\ calling' = FALSE
  /\ UNCHANGED <<collection, opened, startTask, syncTask, asked, clocks, cut, raised>>

Doing(step) == phase = "closing" /\ agenda # <<>> /\ Head(agenda) = step

\* An unfinished start task is cancelled and awaited.
CancelStart ==
  /\ Doing("start task") /\ agenda' = Tail(agenda)
  /\ startTask' = IF startTask \in {"created", "running"} THEN "cancelled" ELSE startTask
  /\ UNCHANGED <<phase, collection, opened, syncTask, asked, calling, clocks, cut, raised>>

\* stop(): if there is a client, its sync_forever is asked to end.
AskSync ==
  /\ Doing("ask") /\ agenda' = Tail(agenda)
  /\ asked' = ("client" \in opened)
  /\ waited' = 0
  /\ UNCHANGED <<phase, collection, opened, startTask, syncTask, calling, polled, handled,
                 cut, raised>>

SyncEnded ==
  /\ Doing("wait") /\ agenda' = Tail(agenda)
  /\ syncTask \in {"none", "ended"}
  /\ UNCHANGED <<phase, collection, opened, tasks, clocks, cut, raised>>

FaultyGraceOver == FALSE
FaultyGraceOverAtOnce == TRUE

\* wait_for(shield(sync_task), timeout=35)
GraceOver == waited = Window

CutSync ==
  /\ Doing("wait") /\ agenda' = Tail(agenda)
  /\ syncTask \in {"polling", "handling"} /\ GraceOver
  /\ syncTask' = "ended"
  /\ cut' = IF syncTask = "handling" THEN handled ELSE NotCut
  /\ UNCHANGED <<phase, collection, opened, startTask, asked, calling, clocks, raised>>

\* An exception leaves the finally block where it is.
Abandon ==
  /\ phase' = "stopped" /\ agenda' = <<>> /\ raised' = TRUE
  /\ UNCHANGED <<collection, opened, tasks, clocks, cut>>

\* Awaiting a dead sync task raises what it died of.
SyncDied == Doing("wait") /\ syncTask = "dead" /\ Abandon

Close(r) ==
  /\ Doing(r) /\ agenda' = Tail(agenda)
  /\ opened' = opened \ {r}
  /\ UNCHANGED <<phase, collection, tasks, clocks, cut, raised>>

CloseRaises(r) == Doing(r) /\ r \in opened /\ Abandon

Stopped ==
  /\ phase = "closing" /\ agenda = <<>>
  /\ phase' = "stopped"
  /\ UNCHANGED <<agenda, collection, opened, tasks, clocks, cut, raised>>

Crash ==
  /\ phase \in {"init", "serving", "closing"}
  /\ phase' = "down" /\ agenda' = <<>>
  /\ opened' = {}
  /\ Forget
  /\ UNCHANGED collection

\* A tick passes where something takes time, and no timer that is due is late.
Tick ==
  /\ syncTask = "polling" => polled < PollMax
  /\ (Doing("wait") /\ syncTask \in {"polling", "handling"}) => waited < Window
  /\ polled' = IF syncTask = "polling" THEN polled + 1 ELSE polled
  /\ handled' = IF syncTask = "handling" /\ handled < Window THEN handled + 1 ELSE handled
  /\ waited' = IF Doing("wait") /\ waited < Window THEN waited + 1 ELSE waited
  /\ UNCHANGED <<phase, agenda, collection, opened, tasks, cut, raised>>

ShutdownStep ==
  \/ CancelStart \/ AskSync \/ SyncEnded \/ CutSync \/ SyncDied \/ Stopped
  \/ \E r \in Resources : Close(r)

Next ==
  \/ Boot \/ InitStep \/ InitFails \/ Serve
  \/ OpenStore \/ OpenFails \/ StartEnds
  \/ CallTool \/ ToolAnswers \/ PollReturns \/ CallbacksEnd \/ CallbackRaises
  \/ Shutdown \/ ShutdownStep \/ (\E r \in Resources : CloseRaises(r))
  \/ Crash \/ Tick

\* The event loop runs the lifespan task, and nio's polls time out.  A callback may
\* hang: it awaits OpenAI and Qdrant.
Spec == Init /\ [][Next]_vars /\ WF_vars(ShutdownStep) /\ WF_vars(PollReturns) /\ WF_vars(Tick)

-----------------------------------------------------------------------------
(* Properties *)

TypeOK ==
  /\ phase \in {"down", "init", "serving", "closing", "stopped"}
  /\ agenda \in Seq(Steps)
  /\ collection \subseteq Elements(SetUp)
  /\ opened \subseteq Resources
  /\ startTask \in {"none", "created", "running", "done", "failed", "cancelled"}
  /\ syncTask \in {"none", "polling", "handling", "ended", "dead"}
  /\ {asked, calling, raised} \subseteq BOOLEAN
  /\ polled \in 0..PollMax /\ handled \in 0..Window /\ waited \in 0..Window
  /\ cut \in (0..Window) \cup {NotCut}

\* Nothing is closed under a task that still uses it: a start task, a sync task in
\* the middle of its callbacks and a tool call have all ended, or been ended, before
\* the shutdown closes what they use, whatever moment of theirs it comes at.
NothingUsedAfterClose ==
  /\ startTask = "running" => {"store", "client", "qdrant"} \subseteq opened
  /\ syncTask \in {"polling", "handling"} => opened = Resources
  /\ calling => "client" \in opened

\* A shutdown comes to its end, even if a callback hangs, and has then closed
\* everything, unless the sync task had died unnoticed or a close itself raised.
ShutdownCompletes ==
  phase = "closing" ~> (phase = "stopped" /\ (opened = {} \/ raised)) \/ phase = "down"

\* stop() does not cut callbacks ("_handle_sync (token advance + callbacks) runs to
\* completion") unless they have taken longer than the grace time leaves after the
\* longest poll.
OnlySlowCallbacksAreCut == cut # NotCut => cut >= Window - PollMax

\* A server that serves has its collection with all three indexes, after any number
\* of crashes and failures during the set-up: the scroll of a search by time needs
\* the first, filters on sender and room the others.
IndexedWhenServing == phase = "serving" => collection = Elements(SetUp)
=============================================================================
