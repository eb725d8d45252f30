------------------------- MODULE ServerLifecycleProofs -------------------------
(***************************************************************************)
(* The lifespan for every grace time and every poll timeout: types, that   *)
(* nothing is closed under a task that uses it, that a server that serves  *)
(* has its indexes, and which callbacks stop() cuts.                       *)
(*                                                                         *)
(* What makes it safe is how far the agenda has come: what is left of      *)
(* init_collection tells what is in Qdrant, what is left of the finally    *)
(* block which tasks have ended.  Counted from its end, an agenda of n     *)
(* steps has the same last n steps every time.                             *)
(***************************************************************************)
EXTENDS ServerLifecycle, TLAPS

\* What can be left of the set-up.
InitAgendas ==
  {<<"collection", "timestamp", "sender_search", "room_search">>,
   <<"timestamp", "sender_search", "room_search">>,
   <<"sender_search", "room_search">>, <<"room_search">>, <<>>}

\* What can be left of the shutdown, while tasks may still run and after.
Left6 == <<"ask", "wait", "store", "client", "qdrant", "dispatcher">>
Left5 == <<"wait", "store", "client", "qdrant", "dispatcher">>
Left4 == <<"store", "client", "qdrant", "dispatcher">>
Left3 == <<"client", "qdrant", "dispatcher">>
Left2 == <<"qdrant", "dispatcher">>
Left1 == <<"dispatcher">>
Left0 == <<>>

TasksMayRun == {ShutdownSteps, Left6, Left5}
TasksEnded == {Left4, Left3, Left2, Left1, Left0}

Created == {"collection", "timestamp", "sender_search", "room_search"}

\* What the set-up has not done yet is on its agenda.
SetUpInv ==
  /\ phase = "init" => agenda \in InitAgendas /\ Created \subseteq collection \cup Elements(agenda)
  /\ phase = "serving" => agenda = <<>> /\ Created \subseteq collection

\* Tasks exist only while the server serves or closes; the resources they use are
\* open until the agenda has passed them.
TaskInv ==
  /\ phase \in {"down", "init"} => startTask = "none"
  /\ phase \in {"down", "init"} => syncTask = "none"
  /\ phase = "init" => "qdrant" \in opened /\ ~calling
  /\ phase = "serving" => {"qdrant", "dispatcher"} \subseteq opened
  /\ phase = "closing" => agenda \in TasksMayRun \cup TasksEnded
  /\ phase \in {"down", "stopped"} => agenda = <<>>
  /\ startTask = "created" => {"qdrant", "dispatcher"} \subseteq opened
  /\ startTask = "running" => opened = Resources
  /\ startTask \in {"created", "running"} =>
       phase = "serving" \/ (phase = "closing" /\ agenda = ShutdownSteps)
  /\ syncTask \in {"polling", "handling"} =>
       /\ opened = Resources
       /\ phase = "serving" \/ (phase = "closing" /\ agenda \in TasksMayRun)
  /\ calling => phase = "serving" /\ "client" \in opened

LifecycleInv == TypeOK /\ SetUpInv /\ TaskInv

-----------------------------------------------------------------------------
(* Agendas *)

\* One step off the agenda of the set-up.
LEMMA InitAgenda ==
  ASSUME NEW a \in InitAgendas, a # <<>>
  PROVE  /\ Tail(a) \in InitAgendas
         /\ Head(a) \in Created
         /\ Elements(a) = {Head(a)} \cup Elements(Tail(a))
<1>1. CASE a = <<"collection", "timestamp", "sender_search", "room_search">>
  BY <1>1, SMT DEF InitAgendas, Created, Elements
<1>2. CASE a = <<"timestamp", "sender_search", "room_search">>
  BY <1>2, SMT DEF InitAgendas, Created, Elements
<1>3. CASE a = <<"sender_search", "room_search">>
  BY <1>3, SMT DEF InitAgendas, Created, Elements
<1>4. CASE a = <<"room_search">>
  BY <1>4, SMT DEF InitAgendas, Created, Elements
<1> QED
  BY <1>1, <1>2, <1>3, <1>4 DEF InitAgendas

\* What is left after each step of the shutdown.
LEMMA Tails ==
  /\ Tail(ShutdownSteps) = Left6 /\ Tail(Left6) = Left5 /\ Tail(Left5) = Left4
  /\ Tail(Left4) = Left3 /\ Tail(Left3) = Left2 /\ Tail(Left2) = Left1 /\ Tail(Left1) = Left0
<1>1. Tail(ShutdownSteps) = Left6
  BY SMT DEF ShutdownSteps, Left6
<1>2. Tail(Left6) = Left5
  BY SMT DEF Left6, Left5
<1>3. Tail(Left5) = Left4
  BY SMT DEF Left5, Left4
<1>4. Tail(Left4) = Left3
  BY SMT DEF Left4, Left3
<1>5. Tail(Left3) = Left2
  BY SMT DEF Left3, Left2
<1>6. Tail(Left2) = Left1
  BY SMT DEF Left2, Left1
<1>7. Tail(Left1) = Left0
  BY SMT DEF Left1, Left0
<1> QED
  BY <1>1, <1>2, <1>3, <1>4, <1>5, <1>6, <1>7

\* The step each of them begins with.
LEMMA Heads ==
  /\ Head(ShutdownSteps) = "start task" /\ Head(Left6) = "ask" /\ Head(Left5) = "wait"
  /\ Head(Left4) = "store" /\ Head(Left3) = "client" /\ Head(Left2) = "qdrant"
  /\ Head(Left1) = "dispatcher"
<1>1. Head(ShutdownSteps) = "start task" /\ Head(Left6) = "ask"
  BY SMT DEF ShutdownSteps, Left6
<1>2. Head(Left5) = "wait" /\ Head(Left4) = "store"
  BY SMT DEF Left5, Left4
<1>3. Head(Left3) = "client" /\ Head(Left2) = "qdrant"
  BY SMT DEF Left3, Left2
<1>4. Head(Left1) = "dispatcher"
  BY SMT DEF Left1
<1> QED
  BY <1>1, <1>2, <1>3, <1>4

\* No two of them are the same: they differ in length.
LEMMA Lengths ==
  /\ Len(ShutdownSteps) = 7 /\ Len(Left6) = 6 /\ Len(Left5) = 5 /\ Len(Left4) = 4
  /\ Len(Left3) = 3 /\ Len(Left2) = 2 /\ Len(Left1) = 1 /\ Len(Left0) = 0
<1>1. Len(ShutdownSteps) = 7 /\ Len(Left6) = 6
  BY SMT DEF ShutdownSteps, Left6
<1>2. Len(Left5) = 5 /\ Len(Left4) = 4
  BY SMT DEF Left5, Left4
<1>3. Len(Left3) = 3 /\ Len(Left2) = 2
  BY SMT DEF Left3, Left2
<1>4. Len(Left1) = 1 /\ Len(Left0) = 0
  BY SMT DEF Left1, Left0
<1> QED
  BY <1>1, <1>2, <1>3, <1>4

\* Tasks may run as long as five steps are left.
LEMMA Apart == \A a \in TasksEnded : a \notin TasksMayRun
<1>1. \A a \in TasksEnded : Len(a) \in {0, 1, 2, 3, 4}
  BY Lengths, Zenon DEF TasksEnded
<1>2. \A a \in TasksMayRun : Len(a) \in {5, 6, 7}
  BY Lengths, Zenon DEF TasksMayRun
<1>3. \A n \in {0, 1, 2, 3, 4} : n \notin {5, 6, 7}
  BY SMT
<1> QED
  BY <1>1, <1>2, <1>3, Zenon

\* One step off the agenda of the shutdown.
LEMMA ShutdownAgenda ==
  ASSUME NEW a \in TasksMayRun \cup TasksEnded, a # Left0
  PROVE  /\ Tail(a) \in TasksMayRun \cup TasksEnded
         /\ Tail(a) # ShutdownSteps
         /\ Head(a) \in Resources \cup {"wait"} => Tail(a) \in TasksEnded
         /\ Head(a) \in Resources => a \notin TasksMayRun
         /\ Head(a) \in {"ask", "wait"} => a # ShutdownSteps
         /\ Head(a) \in {"start task", "ask"} => Tail(a) \in TasksMayRun
<1>1. CASE a = ShutdownSteps
  BY <1>1, Tails, Heads, Lengths DEF TasksMayRun, TasksEnded, Resources
<1>2. CASE a = Left6
  BY <1>2, Tails, Heads, Lengths DEF TasksMayRun, TasksEnded, Resources
<1>3. CASE a = Left5
  BY <1>3, Tails, Heads, Lengths DEF TasksMayRun, TasksEnded, Resources
<1>4. CASE a \in TasksEnded
  <2>1. a \notin TasksMayRun
    BY <1>4, Apart
  <2>2. Tail(a) \in TasksEnded
    BY <1>4, Tails DEF TasksEnded
  <2>3. Head(a) \in Resources
    BY <1>4, Heads DEF TasksEnded, Resources
  <2>4. Tail(a) # ShutdownSteps
    BY <2>2, Apart DEF TasksMayRun
  <2> QED
    BY <2>1, <2>2, <2>3, <2>4 DEF Resources, TasksMayRun
<1> QED
  BY <1>1, <1>2, <1>3, <1>4 DEF TasksMayRun

\* Where the agendas begin and end.
LEMMA Agendas ==
  /\ Left0 = <<>>
  /\ Left0 \in TasksEnded /\ Left0 \notin TasksMayRun
  /\ ShutdownSteps \in TasksMayRun /\ ShutdownSteps # Left0
<1>1. Left0 = <<>>
  BY DEF Left0
<1> QED
  BY <1>1, Lengths, SMT DEF TasksMayRun, TasksEnded

\* The set-up begins with one of its agendas, and what it leaves out is there.
LEMMA SetUpBegins ==
  ASSUME NEW existing
  PROVE  /\ InitSteps(existing) \in InitAgendas
         /\ Created \subseteq existing \cup Elements(InitSteps(existing))
         /\ Elements(InitSteps(existing)) \subseteq Created
         /\ InitSteps(existing) \in Seq(Created)
<1>1. Indexes = <<"timestamp", "sender_search", "room_search">>
  BY SMT DEF Indexes, SetUp
<1>2. Elements(Indexes) = {"timestamp", "sender_search", "room_search"}
  BY <1>1, SMT DEF Elements
<1>3. Elements(SetUp) = Created
  BY SMT DEF Elements, SetUp, Created
<1>4. Indexes \in Seq(Created) /\ SetUp \in Seq(Created)
  BY <1>1, SMT DEF SetUp, Created
<1>5. Indexes \in InitAgendas /\ SetUp \in InitAgendas
  BY <1>1 DEF InitAgendas, SetUp
<1> QED
  BY <1>2, <1>3, <1>4, <1>5 DEF InitSteps, Created

\* Agendas are sequences of steps.
LEMMA AgendaTypes ==
  /\ <<>> \in Seq(Steps)
  /\ ShutdownSteps \in Seq(Steps)
  /\ \A existing : InitSteps(existing) \in Seq(Steps)
  /\ Elements(SetUp) = Created
<1>1. Elements(SetUp) = Created
  BY SMT DEF Elements, SetUp, Created
<1> DEFINE Words == {"start task", "ask", "wait", "store", "client", "qdrant", "dispatcher"}
<1>2. Words \subseteq Steps
  <2>1. DOMAIN ShutdownSteps = 1..7
    BY SMT DEF ShutdownSteps
  <2>2. \A i \in 1..7 : ShutdownSteps[i] \in Steps
    BY <2>1 DEF Steps, Elements
  <2>3. /\ ShutdownSteps[1] = "start task" /\ ShutdownSteps[2] = "ask"
        /\ ShutdownSteps[3] = "wait" /\ ShutdownSteps[4] = "store"
        /\ ShutdownSteps[5] = "client" /\ ShutdownSteps[6] = "qdrant"
        /\ ShutdownSteps[7] = "dispatcher"
    BY SMT DEF ShutdownSteps
  <2>4. \A n \in {1, 2, 3, 4, 5, 6, 7} : n \in 1..7
    BY SMT
  <2>5. \A n \in {1, 2, 3, 4, 5, 6, 7} : ShutdownSteps[n] \in Steps
    BY <2>2, <2>4
  <2> QED
    BY <2>3, <2>5, Zenon
<1>3. <<>> \in Seq(Steps) /\ ShutdownSteps \in Seq(Steps)
  <2>1. ShutdownSteps \in Seq(Words)
    BY SMT DEF ShutdownSteps
  <2> HIDE DEF Words
  <2> QED
    BY <1>2, <2>1, SMT
<1>4. \A existing : InitSteps(existing) \in Seq(Steps)
  <2> SUFFICES ASSUME NEW existing PROVE InitSteps(existing) \in Seq(Steps)
    OBVIOUS
  <2>1. InitSteps(existing) \in Seq(Created) /\ Created \subseteq Steps
    BY <1>1, SetUpBegins DEF Steps
  <2> QED
    BY <2>1, SMT
<1> QED
  BY <1>1, <1>3, <1>4

-----------------------------------------------------------------------------
(* The invariant *)

LEMMA LifecycleInit == Init => LifecycleInv
<1> SUFFICES ASSUME Init PROVE LifecycleInv
  OBVIOUS
<1> USE DEF Init, NoProcess
<1>1. polled \in 0..PollMax /\ handled \in 0..Window /\ waited \in 0..Window
  BY LifecycleAssumption, SMT
<1>2. TypeOK
  BY <1>1, AgendaTypes DEF TypeOK
<1>3. SetUpInv /\ TaskInv
  BY DEF SetUpInv, TaskInv
<1> QED
  BY <1>2, <1>3 DEF LifecycleInv

\* Starting: the set-up goes down its agenda.
LEMMA StartingStep ==
  ASSUME LifecycleInv, Boot \/ InitStep \/ InitFails \/ Serve \/ OpenStore \/ OpenFails \/ StartEnds
  PROVE  LifecycleInv'
<1> USE LifecycleAssumption DEF LifecycleInv
<1>1. CASE Boot
  <2>1. agenda' \in InitAgendas /\ Created \subseteq collection' \cup Elements(agenda')
    BY <1>1, SetUpBegins DEF Boot
  <2>2. agenda' \in Seq(Steps)
    BY <1>1, AgendaTypes DEF Boot
  <2>3. 0 \in 0..PollMax /\ 0 \in 0..Window
    BY SMT
  <2>4. TypeOK'
    BY <1>1, <2>2, <2>3 DEF Boot, Forget, TypeOK, Resources
  <2> QED
    BY <1>1, <2>1, <2>4 DEF Boot, Forget, SetUpInv, TaskInv
<1>2. CASE InitStep
  <2>1. /\ agenda' \in InitAgendas /\ Head(agenda) \in Created
        /\ Elements(agenda) = {Head(agenda)} \cup Elements(agenda')
    BY <1>2, InitAgenda DEF InitStep, SetUpInv
  <2>2. agenda' \in Seq(Steps)
    BY <1>2, SMT DEF InitStep, TypeOK
  <2>3. collection' \subseteq Elements(SetUp)
    BY <1>2, <2>1, AgendaTypes DEF InitStep, TypeOK
  <2>4. TypeOK'
    BY <1>2, <2>2, <2>3 DEF InitStep, TypeOK, tasks, clocks
  <2> QED
    BY <1>2, <2>1, <2>4 DEF InitStep, SetUpInv, TaskInv, tasks, clocks
<1>3. CASE InitFails
  <2>1. Head(agenda) \in Created
    BY <1>3, InitAgenda DEF InitFails, SetUpInv
  <2>2. TypeOK'
    BY <1>3, <2>1, AgendaTypes DEF InitFails, TypeOK, tasks, clocks
  <2> QED
    BY <1>3, <2>2, Agendas DEF InitFails, SetUpInv, TaskInv, tasks, clocks
<1>4. CASE Serve
  <2>1. Created \subseteq collection
    BY <1>4, SMT DEF Serve, SetUpInv, Elements
  <2>2. TypeOK'
    BY <1>4 DEF Serve, TypeOK, clocks, Resources
  <2> QED
    BY <1>4, <2>1, <2>2 DEF Serve, SetUpInv, TaskInv, clocks
<1>5. CASE OpenStore
  <2>1. TypeOK'
    BY <1>5 DEF OpenStore, TypeOK, clocks, Resources
  <2>2. opened' = Resources
    BY <1>5 DEF OpenStore, TaskInv, TypeOK, Resources
  <2> QED
    BY <1>5, <2>1, <2>2 DEF OpenStore, SetUpInv, TaskInv, clocks, Resources
<1>6. CASE OpenFails
  <2>1. TypeOK'
    BY <1>6 DEF OpenFails, TypeOK, clocks, Resources
  <2>2. opened \subseteq opened'
    BY <1>6 DEF OpenFails
  <2>3. opened = Resources => opened' = Resources
    BY <1>6, <2>1, <2>2 DEF TypeOK
  <2> QED
    BY <1>6, <2>1, <2>2, <2>3 DEF OpenFails, SetUpInv, TaskInv, clocks
<1>7. CASE StartEnds
  <2>1. 0 \in 0..PollMax
    BY SMT
  <2>2. TypeOK'
    BY <1>7, <2>1 DEF StartEnds, TypeOK
  <2> QED
    BY <1>7, <2>2, Agendas DEF StartEnds, SetUpInv, TaskInv
<1> QED
  BY <1>1, <1>2, <1>3, <1>4, <1>5, <1>6, <1>7

\* Serving: tool calls and the sync task.
LEMMA ServingStep ==
  ASSUME LifecycleInv,
         CallTool \/ ToolAnswers \/ PollReturns \/ CallbacksEnd \/ CallbackRaises \/ Shutdown
  PROVE  LifecycleInv'
<1> USE LifecycleAssumption DEF LifecycleInv
<1>1. 0 \in 0..PollMax /\ 0 \in 0..Window
  BY SMT
<1>2. CASE CallTool
  BY <1>2 DEF CallTool, TypeOK, SetUpInv, TaskInv, clocks
<1>3. CASE ToolAnswers
  BY <1>3 DEF ToolAnswers, TypeOK, SetUpInv, TaskInv, clocks
<1>4. CASE PollReturns
  BY <1>1, <1>4 DEF PollReturns, TypeOK, SetUpInv, TaskInv
<1>5. CASE CallbacksEnd
  BY <1>1, <1>5 DEF CallbacksEnd, TypeOK, SetUpInv, TaskInv
<1>6. CASE CallbackRaises
  BY <1>6 DEF CallbackRaises, TypeOK, SetUpInv, TaskInv, clocks
<1>7. CASE Shutdown
  BY <1>7, Agendas, AgendaTypes DEF Shutdown, TypeOK, SetUpInv, TaskInv, clocks
<1> QED
  BY <1>2, <1>3, <1>4, <1>5, <1>6, <1>7

\* Closing: what is left of the agenda, after a step of it.
LEMMA ClosingAgenda ==
  ASSUME LifecycleInv, phase = "closing", agenda # <<>>
  PROVE  /\ agenda \in TasksMayRun \cup TasksEnded
         /\ agenda # Left0
         /\ Tail(agenda) \in Seq(Steps)
<1>1. agenda \in TasksMayRun \cup TasksEnded /\ agenda # Left0
  BY Agendas DEF LifecycleInv, TaskInv
<1>2. agenda \in Seq(Steps)
  BY DEF LifecycleInv, TypeOK
<1>3. Tail(agenda) \in Seq(Steps)
  BY <1>2, SMT
<1> QED
  BY <1>1, <1>3

\* Closing: tasks end before what they use is closed.
LEMMA ShuttingDownStep ==
  ASSUME LifecycleInv, ShutdownStep \/ (\E r \in Resources : CloseRaises(r))
  PROVE  LifecycleInv'
<1> USE LifecycleAssumption DEF LifecycleInv
<1>0. 0 \in 0..Window
  BY SMT
<1>1. CASE CancelStart
  BY <1>1, ClosingAgenda, ShutdownAgenda DEF CancelStart, Doing, TypeOK, SetUpInv, TaskInv, clocks
<1>2. CASE AskSync
  <2>1. TypeOK'
    <3>1. asked' \in BOOLEAN
      BY <1>2 DEF AskSync
    <3> QED
      BY <1>0, <1>2, <3>1, ClosingAgenda DEF AskSync, Doing, TypeOK
  <2> QED
    BY <1>2, <2>1, ClosingAgenda, ShutdownAgenda DEF AskSync, Doing, SetUpInv, TaskInv
<1>3. CASE SyncEnded
  BY <1>3, ClosingAgenda, ShutdownAgenda DEF SyncEnded, Doing, TypeOK, SetUpInv, TaskInv, tasks, clocks
<1>4. CASE CutSync
  BY <1>4, ClosingAgenda, ShutdownAgenda DEF CutSync, Doing, TypeOK, SetUpInv, TaskInv, clocks
<1>5. CASE SyncDied
  BY <1>5, ClosingAgenda, ShutdownAgenda, AgendaTypes
     DEF SyncDied, Abandon, Doing, TypeOK, SetUpInv, TaskInv, tasks, clocks
<1>6. CASE Stopped
  BY <1>6, Agendas DEF Stopped, TypeOK, SetUpInv, TaskInv, tasks, clocks
<1>7. CASE \E r \in Resources : Close(r)
  <2>1. PICK r \in Resources : Close(r)
    BY <1>7
  <2>2. agenda \in TasksMayRun \cup TasksEnded /\ agenda # Left0 /\ Head(agenda) \in Resources
    BY <2>1, ClosingAgenda DEF Close, Doing
  <2>3. Tail(agenda) \in TasksEnded /\ agenda \notin TasksMayRun /\ agenda # ShutdownSteps
    BY <2>2, ShutdownAgenda, Agendas
  <2>4. TypeOK'
    BY <2>1, ClosingAgenda DEF Close, Doing, TypeOK, tasks, clocks
  <2> QED
    BY <2>1, <2>3, <2>4 DEF Close, Doing, SetUpInv, TaskInv, tasks, clocks
<1>8. CASE \E r \in Resources : CloseRaises(r)
  <2>1. PICK r \in Resources : CloseRaises(r)
    BY <1>8
  <2>2. agenda \in TasksMayRun \cup TasksEnded /\ agenda # Left0 /\ Head(agenda) \in Resources
    BY <2>1, ClosingAgenda DEF CloseRaises, Doing
  <2>3. agenda \notin TasksMayRun /\ agenda # ShutdownSteps
    BY <2>2, ShutdownAgenda, Agendas
  <2>4. TypeOK'
    BY <2>1, AgendaTypes DEF CloseRaises, Abandon, Doing, TypeOK, tasks, clocks
  <2> QED
    BY <2>1, <2>3, <2>4 DEF CloseRaises, Abandon, Doing, SetUpInv, TaskInv, tasks, clocks
<1> QED
  BY <1>1, <1>2, <1>3, <1>4, <1>5, <1>6, <1>7, <1>8 DEF ShutdownStep

\* A crash, and time.
LEMMA CrashOrTick ==
  ASSUME LifecycleInv, Crash \/ Tick
  PROVE  LifecycleInv'
<1> USE LifecycleAssumption DEF LifecycleInv
<1>1. CASE Crash
  <2>1. 0 \in 0..PollMax /\ 0 \in 0..Window
    BY SMT
  <2> QED
    BY <1>1, <2>1, AgendaTypes DEF Crash, Forget, TypeOK, SetUpInv, TaskInv, Resources
<1>2. CASE Tick
  <2>1. polled' \in 0..PollMax /\ handled' \in 0..Window /\ waited' \in 0..Window
    BY <1>2, SMT DEF Tick, TypeOK
  <2>2. TypeOK'
    BY <1>2, <2>1 DEF Tick, TypeOK, tasks
  <2> QED
    BY <1>2, <2>2 DEF Tick, SetUpInv, TaskInv, tasks
<1> QED
  BY <1>1, <1>2

LEMMA LifecycleStep == LifecycleInv /\ [Next]_vars => LifecycleInv'
<1> SUFFICES ASSUME LifecycleInv, [Next]_vars PROVE LifecycleInv'
  OBVIOUS
<1>1. CASE Next
  BY <1>1, StartingStep, ServingStep, ShuttingDownStep, CrashOrTick DEF Next
<1>2. CASE UNCHANGED vars
  BY <1>2 DEF vars, tasks, clocks, LifecycleInv, TypeOK, SetUpInv, TaskInv
<1> QED
  BY <1>1, <1>2

-----------------------------------------------------------------------------
(* The theorems *)

\* Every variable of the lifespan keeps its type, for every grace time and poll timeout.
THEOREM LifecycleTypeCorrect == Spec => []TypeOK
<1>1. LifecycleInv => TypeOK
  BY DEF LifecycleInv
<1> QED
  BY <1>1, LifecycleInit, LifecycleStep, PTL DEF Spec

\* The shutdown closes nothing under the start task, the sync task or a tool call.
THEOREM ClosedOnlyAfterUse == Spec => []NothingUsedAfterClose
<1>1. LifecycleInv => NothingUsedAfterClose
  BY DEF LifecycleInv, TaskInv, NothingUsedAfterClose, Resources
<1> QED
  BY <1>1, LifecycleInit, LifecycleStep, PTL DEF Spec

\* A server that serves has its collection and all its indexes.
THEOREM ServesWithIndexes == Spec => []IndexedWhenServing
<1>1. LifecycleInv => IndexedWhenServing
  BY AgendaTypes DEF LifecycleInv, SetUpInv, TypeOK, IndexedWhenServing
<1> QED
  BY <1>1, LifecycleInit, LifecycleStep, PTL DEF Spec

-----------------------------------------------------------------------------
(* How long stop() has waited                                              *)

Waiting == phase = "closing" /\ agenda = Left5

\* stop() begins to wait after the poll it waits for has begun, so it cannot have
\* waited longer than that poll and, once its response is there, the callbacks.
WaitInv ==
  /\ Waiting /\ syncTask = "polling" => waited <= polled
  /\ Waiting /\ syncTask = "handling" => waited <= PollMax + handled
  /\ Waiting /\ syncTask \in {"polling", "handling"} => asked
  /\ OnlySlowCallbacksAreCut

LEMMA OnlyOneWait ==
  /\ Left5 # ShutdownSteps /\ Left5 # Left6 /\ Left5 # Left4 /\ Left5 # Left3
  /\ Left5 # Left2 /\ Left5 # Left1 /\ Left5 # Left0
<1>1. \A n \in {0, 1, 2, 3, 4, 6, 7} : n # 5
  BY SMT
<1> QED BY <1>1, Lengths, Zenon

\* The agenda is at its "wait" in one place only.
LEMMA WhereItWaits ==
  ASSUME LifecycleInv
  PROVE  /\ Doing("wait") <=> Waiting
         /\ Doing("ask") => agenda = Left6
         /\ Doing("start task") => agenda = ShutdownSteps
<1>1. Doing("wait") \/ Doing("ask") \/ Doing("start task") \/ Waiting =>
        agenda \in {ShutdownSteps, Left6, Left5, Left4, Left3, Left2, Left1}
  BY Agendas, Heads, Lengths DEF Doing, Waiting, LifecycleInv, TaskInv, TasksMayRun, TasksEnded
<1>2. Left5 # <<>>
  BY Lengths, Agendas
<1> QED
  BY <1>1, <1>2, Heads DEF Doing, Waiting

\* No other step of the shutdown leads to it.
LEMMA OnlyAskWaits ==
  ASSUME LifecycleInv, phase = "closing", agenda # <<>>, Tail(agenda) = Left5
  PROVE  Doing("ask")
<1>1. agenda \in {ShutdownSteps, Left6, Left5, Left4, Left3, Left2, Left1}
  BY Agendas DEF LifecycleInv, TaskInv, TasksMayRun, TasksEnded
<1>2. agenda = Left6
  BY <1>1, Tails, OnlyOneWait, Zenon
<1> QED BY <1>2, Heads DEF Doing

LEMMA ClockTypes ==
  ASSUME LifecycleInv
  PROVE  /\ Window \in Nat /\ PollMax \in Nat /\ NotCut \notin Nat
         /\ polled \in 0..PollMax /\ handled \in 0..Window /\ waited \in 0..Window
         /\ cut \in (0..Window) \cup {NotCut}
BY LifecycleAssumption DEF LifecycleInv, TypeOK

LEMMA WaitInit == Init => WaitInv
BY DEF Init, NoProcess, WaitInv, Waiting, OnlySlowCallbacksAreCut

LEMMA WaitStep == LifecycleInv /\ WaitInv /\ [Next]_vars => WaitInv'
<1> SUFFICES ASSUME LifecycleInv, WaitInv, [Next]_vars PROVE WaitInv'
  OBVIOUS
<1> USE DEF tasks, clocks
<1>1. CASE Boot \/ InitStep \/ Serve \/ Crash
  BY <1>1 DEF Boot, InitStep, Serve, Crash, Forget, WaitInv, Waiting, OnlySlowCallbacksAreCut
<1>2. CASE InitFails \/ Shutdown
  <2>1. ~Waiting'
    BY <1>2, OnlyOneWait DEF InitFails, Shutdown, Waiting
  <2>2. UNCHANGED cut
    BY <1>2 DEF InitFails, Shutdown
  <2> QED BY <2>1, <2>2 DEF WaitInv, OnlySlowCallbacksAreCut
<1>3. CASE OpenStore \/ OpenFails \/ StartEnds
  <2>1. ~Waiting
    BY <1>3, OnlyOneWait DEF OpenStore, OpenFails, StartEnds, LifecycleInv, TaskInv, Waiting
  <2>2. ~Waiting' /\ UNCHANGED cut
    BY <1>3, <2>1 DEF OpenStore, OpenFails, StartEnds, Waiting
  <2> QED BY <2>2 DEF WaitInv, OnlySlowCallbacksAreCut
<1>4. CASE CallTool \/ ToolAnswers
  BY <1>4 DEF CallTool, ToolAnswers, WaitInv, Waiting, OnlySlowCallbacksAreCut
<1>5. CASE PollReturns
  <2>1. /\ UNCHANGED <<phase, agenda, asked, waited, cut>> /\ handled' = 0
        /\ syncTask = "polling" /\ syncTask' = "handling"
    BY <1>5 DEF PollReturns
  <2>2. Waiting => waited <= PollMax + 0
    BY <2>1, ClockTypes DEF WaitInv
  <2> QED BY <2>1, <2>2 DEF WaitInv, Waiting, OnlySlowCallbacksAreCut
<1>6. CASE CallbacksEnd \/ CallbackRaises
  BY <1>6 DEF CallbacksEnd, CallbackRaises, WaitInv, Waiting, OnlySlowCallbacksAreCut
<1>7. CASE AskSync
  <2>1. /\ waited' = 0 /\ asked' = ("client" \in opened)
        /\ UNCHANGED <<syncTask, polled, handled, cut, opened>>
    BY <1>7 DEF AskSync
  <2>2. syncTask \in {"polling", "handling"} => asked'
    BY <2>1 DEF LifecycleInv, TaskInv, Resources
  <2>3. 0 <= polled /\ 0 <= PollMax + handled
    BY ClockTypes
  <2> QED BY <2>1, <2>2, <2>3 DEF WaitInv, OnlySlowCallbacksAreCut
<1>8. CASE CancelStart \/ SyncEnded \/ (\E r \in Resources : Close(r))
  <2>1. UNCHANGED cut /\ phase = "closing" /\ agenda # <<>> /\ agenda' = Tail(agenda)
    BY <1>8 DEF CancelStart, SyncEnded, Close, Doing
  <2>2. ~Doing("ask")
    BY <1>8 DEF CancelStart, SyncEnded, Close, Doing, Resources
  <2>3. ~Waiting'
    BY <2>1, <2>2, OnlyAskWaits DEF Waiting
  <2> QED BY <2>1, <2>3 DEF WaitInv, OnlySlowCallbacksAreCut
<1>9. CASE CutSync
  <2>1. Doing("wait") /\ Waiting /\ waited = Window /\ syncTask' = "ended"
    BY <1>9, WhereItWaits DEF CutSync, GraceOver
  <2>2. cut' = handled \/ cut' = NotCut
    BY <1>9 DEF CutSync
  <2>3. syncTask = "handling" => handled >= Window - PollMax
    BY <2>1, ClockTypes DEF WaitInv
  <2>4. OnlySlowCallbacksAreCut'
    BY <1>9, <2>3 DEF CutSync, OnlySlowCallbacksAreCut
  <2> QED BY <2>1, <2>4 DEF WaitInv
<1>10. CASE SyncDied \/ Stopped \/ (\E r \in Resources : CloseRaises(r))
  BY <1>10 DEF SyncDied, Stopped, CloseRaises, Abandon, WaitInv, Waiting, OnlySlowCallbacksAreCut
<1>11. CASE Tick
  <2>1. UNCHANGED <<phase, agenda, syncTask, asked, cut>>
    BY <1>11 DEF Tick
  <2>2. Waiting <=> Doing("wait")
    BY WhereItWaits
  <2>3. Waiting /\ syncTask = "polling" => waited' <= polled'
    <3>1. Waiting /\ syncTask = "polling" =>
            polled' = polled + 1 /\ waited' = waited + 1 /\ waited <= polled
      BY <1>11, <2>2 DEF Tick, WaitInv
    <3> QED BY <3>1, ClockTypes
  <2>4. Waiting /\ syncTask = "handling" => waited' <= PollMax + handled'
    <3>1. Waiting /\ syncTask = "handling" =>
            /\ handled' = (IF handled < Window THEN handled + 1 ELSE handled)
            /\ waited' = waited + 1 /\ waited < Window /\ waited <= PollMax + handled
      BY <1>11, <2>2 DEF Tick, WaitInv
    <3> QED BY <3>1, ClockTypes
  <2> QED BY <2>1, <2>3, <2>4 DEF WaitInv, Waiting, OnlySlowCallbacksAreCut
<1>12. CASE UNCHANGED vars
  BY <1>12 DEF vars, WaitInv, Waiting, OnlySlowCallbacksAreCut
<1> QED
  BY <1>1, <1>2, <1>3, <1>4, <1>5, <1>6, <1>7, <1>8, <1>9, <1>10, <1>11, <1>12
     DEF Next, ShutdownStep

\* stop() cuts only callbacks that have taken longer than the grace time leaves
\* after the longest poll, for every grace time and every poll timeout.
THEOREM CutsOnlySlowCallbacks == Spec => []OnlySlowCallbacksAreCut
<1>1. WaitInv => OnlySlowCallbacksAreCut
  BY DEF WaitInv
<1> QED
  BY <1>1, LifecycleInit, LifecycleStep, WaitInit, WaitStep, PTL DEF Spec
=============================================================================
