-------------------------- MODULE MatrixIngestProofs --------------------------
(***************************************************************************)
(* Proofs about MatrixIngest for every set of rooms, page size, page cap,  *)
(* sync limit and every number of events, stops, crashes and failures.     *)
(*                                                                         *)
(* First the two stores, then the history and the live events against the  *)
(* homeserver's timeline, then the keys.                                   *)
(***************************************************************************)
EXTENDS MatrixIngest, TLAPS

USE IngestAssumption

LEMMA SpanType ==
  ASSUME NEW r \in Rooms, NEW i, NEW j
  PROVE  Span(r, i, j) \subseteq Events
BY DEF Span, Events

\* The position a room's backfill starts below is a position.
LEMMA FirstShownType ==
  ASSUME head \in Tokens, NEW r \in Rooms
  PROVE  FirstShown(r, 0) - 1 \in 0..MaxEvents
BY DEF FirstShown, Tokens

LEMMA InitTypeOK == Init => TypeOK
<1> SUFFICES ASSUME Init PROVE TypeOK
  OBVIOUS
<1>1. DOMAIN cursor = {}
  BY DEF Init
<1>2. dispatches \in [Events -> Nat] /\ anchor = NoToken /\ head \in Tokens
  BY DEF Init, Tokens
<1>3. {keys, keyMeta, complete, backup, justImported} \subseteq BOOLEAN
  BY DEF Init
<1>4. {stops, kills, faults, fetchErrors} \subseteq Nat
  BY DEF Init
<1> QED BY <1>1, <1>2, <1>3, <1>4 DEF Init, TypeOK

\* Every step keeps every variable's type, given that an event past its insert
\* is at hand (a part of the inductive invariant below).
LEMMA StepTypeOK == TypeOK /\ (stage # "insert" => work # NoEvent) /\ [Next]_vars => TypeOK'
<1> SUFFICES ASSUME TypeOK, stage # "insert" => work # NoEvent, [Next]_vars PROVE TypeOK'
  OBVIOUS
<1> USE DEF TypeOK, disk, flow, indexing, history, budget
<1>1. ASSUME NEW r \in Rooms, NewEvent(r) PROVE TypeOK'
  BY <1>1 DEF NewEvent, Tokens
<1>2. ASSUME ConfigureBackup \/ SkipImport \/ ImportKeys \/ ClearSentinel \/ StartAfresh
      PROVE  TypeOK'
  BY <1>2 DEF ConfigureBackup, SkipImport, ImportKeys, ClearSentinel, StartAfresh, Starting
<1>3. ASSUME RecordImport \/ StartRaises \/ BatchFails \/ SyncDies PROVE TypeOK'
  <2>1. CASE RecordImport
    <3>1. {keys, keyMeta, complete, backup, justImported}' \subseteq BOOLEAN
      BY <2>1 DEF RecordImport
    <3>2. {stops, kills, faults, fetchErrors}' \subseteq Nat
      BY <2>1 DEF RecordImport, Fault
    <3>3. UNCHANGED <<head, savedToken, rows, indexed, points, flow, indexing, history>>
      BY <2>1 DEF RecordImport
    <3>4. pc' = "decide"
      BY <2>1 DEF RecordImport
    <3> QED BY <3>1, <3>2, <3>3, <3>4 DEF Starting
  <2>2. CASE StartRaises \/ BatchFails
    BY <2>2 DEF StartRaises, BatchFails, Fault, Starting
  <2>3. CASE SyncDies
    BY <2>3 DEF SyncDies, Fault
  <2> QED BY <1>3, <2>1, <2>2, <2>3
<1>4. ASSUME Start PROVE TypeOK'
  BY <1>4 DEF Start, Starting
<1>5. ASSUME ResumeFromToken \/ MarkBackfillComplete PROVE TypeOK'
  BY <1>5 DEF ResumeFromToken, MarkBackfillComplete, Pending, Starting
<1>6. ASSUME InitialSync PROVE TypeOK'
  <2>1. timeline' \subseteq Events
    BY <1>6, SpanType DEF InitialSync
  <2>2. DOMAIN cursor' \subseteq Rooms /\ \A r \in DOMAIN cursor' : cursor'[r] \in Positions
    BY <1>6, FirstShownType DEF InitialSync, Positions
  <2> QED BY <1>6, <2>1, <2>2 DEF InitialSync, Starting
<1>7. ASSUME InitialSyncError \/ JoinedRoomsError PROVE TypeOK'
  BY <1>7 DEF InitialSyncError, JoinedRoomsError, Starting
<1>8. ASSUME NEW r \in Rooms, FetchPage(r) PROVE TypeOK'
  <2>1. rows' \subseteq Events /\ batch' \subseteq Events /\ upserted' \subseteq batch'
    BY <1>8, SpanType DEF FetchPage, InsertBatch
  <2>2. cursor[r].at \in 0..MaxEvents /\ cursor[r].pages \in Nat
    BY <1>8 DEF FetchPage, MayFetch, Positions
  <2>3. DOMAIN cursor' \subseteq Rooms /\ \A q \in DOMAIN cursor' : cursor'[q] \in Positions
    <3>1. CASE LastPage(cursor[r].at, cursor[r].pages + 1)
      BY <1>8, <3>1 DEF FetchPage, Leave
    <3>2. CASE ~LastPage(cursor[r].at, cursor[r].pages + 1)
      <4>1. [at |-> cursor[r].at - PageLimit, pages |-> cursor[r].pages + 1] \in Positions
        BY <2>2, <3>2 DEF LastPage, Positions
      <4> QED BY <1>8, <3>2, <4>1 DEF FetchPage
    <3> QED BY <3>1, <3>2
  <2> QED BY <1>8, <2>1, <2>3 DEF FetchPage
<1>9. ASSUME NEW r \in Rooms, FetchPageError(r) PROVE TypeOK'
  BY <1>9 DEF FetchPageError, Leave
<1>10. ASSUME IndexTimeline PROVE TypeOK'
  BY <1>10 DEF IndexTimeline, InsertBatch, Starting
<1>11. ASSUME BatchUpsert \/ BatchMark PROVE TypeOK'
  BY <1>11 DEF BatchUpsert, BatchMark, Uploaded
<1>12. ASSUME NEW e \in Events, RetryUpsert(e) PROVE TypeOK'
  BY <1>12 DEF RetryUpsert
<1>13. ASSUME RetryMark \/ RetryFails \/ GoLive PROVE TypeOK'
  BY <1>13 DEF RetryMark, RetryFails, GoLive, Fault, Live
<1>14. ASSUME SyncLive PROVE TypeOK'
  <2>1. todo' \subseteq Events /\ skipped' \subseteq Events
    BY <1>14, SpanType DEF SyncLive
  <2> QED BY <1>14, <2>1 DEF SyncLive, Live
<1>15. ASSUME NEW e \in Events, InsertMessage(e) \/ InsertFails(e) PROVE TypeOK'
  BY <1>15 DEF InsertMessage, InsertFails, Fault
<1>16. ASSUME LiveUpsert \/ LiveDispatch \/ LiveMark \/ LiveFails \/ CallbacksDone
       PROVE  TypeOK'
  BY <1>16 DEF LiveUpsert, LiveDispatch, LiveMark, LiveFails, CallbacksDone, Fault, Live
<1>17. ASSUME Stop \/ Kill PROVE TypeOK'
  <2>1. DOMAIN cursor' = {}
    BY <1>17 DEF Stop, Kill, ProcessEnds
  <2>2. {stops, kills, faults, fetchErrors}' \subseteq Nat
    BY <1>17 DEF Stop, Kill
  <2>3. orphaned' \subseteq Events
    BY <1>17 DEF Stop, Kill
  <2> QED BY <1>17, <2>1, <2>2, <2>3 DEF Stop, Kill, ProcessEnds
<1>18. CASE UNCHANGED vars
  BY <1>18 DEF vars
<1> QED
  BY <1>1, <1>2, <1>3, <1>4, <1>5, <1>6, <1>7, <1>8, <1>9, <1>10, <1>11, <1>12, <1>13,
     <1>14, <1>15, <1>16, <1>17, <1>18 DEF Next, StartStep, LiveStep, Failure

\* Where an event is while it is being indexed, and what is already true of it.
WorkInv ==
  /\ work \in Events \cup {NoEvent}
  /\ dispatches \in [Events -> Nat]
  /\ pc \notin {"retry", "events"} => work = NoEvent
  /\ pc # "events" => stage = "insert"
  /\ stage # "insert" => work # NoEvent
  /\ work # NoEvent => work \in rows
  /\ (pc = "retry" \/ stage \in {"dispatch", "mark"}) /\ work # NoEvent => work \in points

\* The rows that are waiting for their turn are rows.
QueueInv ==
  /\ batch \subseteq rows
  /\ upserted \subseteq points
  /\ pc = "retry" => todo \subseteq rows

\* During the retry an unindexed row is still to be tried, being tried, or
\* has failed in this process.
RetryInv == pc = "retry" => rows \ indexed \subseteq failedNow \cup todo \cup {work}

\* Until it is dispatched the event at hand has never been dispatched.
DispatchInv == stage \in {"index", "dispatch"} => dispatches[work] = 0

IndInv ==
  /\ WorkInv /\ QueueInv /\ RetryInv /\ DispatchInv
  /\ StoresAgree /\ NothingLeftUnretried /\ DispatchedOnceAndSearchable

LEMMA InitInd == Init => IndInv
BY DEF Init, IndInv, WorkInv, QueueInv, RetryInv, DispatchInv, StoresAgree,
       NothingLeftUnretried, DispatchedOnceAndSearchable, Live

\* The steps that touch neither the stores nor the indexing of an event.
QuietStep ==
  /\ UNCHANGED <<rows, indexed, points, dispatches, batch, upserted>>
  /\ UNCHANGED <<work, stage, todo, failedNow>>
  /\ pc' \in (Starting \ {"retry"}) \cup {"failed"} \/ pc' = pc
  /\ pc \in {"retry", "events"} => pc' = pc

LEMMA QuietInd == IndInv /\ QuietStep => IndInv'
<1> SUFFICES ASSUME IndInv, QuietStep PROVE IndInv'
  OBVIOUS
<1>1. pc' = pc \/ (pc \notin {"retry", "events"} /\ pc' \notin {"retry", "events", "live"})
  BY DEF QuietStep, Starting
<1>2. WorkInv' /\ QueueInv' /\ RetryInv' /\ DispatchInv'
  BY <1>1 DEF QuietStep, IndInv, WorkInv, QueueInv, RetryInv, DispatchInv
<1>3. StoresAgree' /\ NothingLeftUnretried' /\ DispatchedOnceAndSearchable'
  BY <1>1 DEF QuietStep, IndInv, StoresAgree, NothingLeftUnretried, DispatchedOnceAndSearchable, Live
<1> QED BY <1>2, <1>3 DEF IndInv

\* The invariant is inductive.
LEMMA StepInd == TypeOK /\ IndInv /\ [Next]_vars => IndInv'
<1> SUFFICES ASSUME TypeOK, IndInv, [Next]_vars PROVE IndInv'
  OBVIOUS
<1>0. rows \subseteq Events
  BY DEF TypeOK
<1> USE DEF disk, flow, indexing, history, budget
<1>1. ASSUME \/ \E r \in Rooms : NewEvent(r) \/ FetchPageError(r)
             \/ ConfigureBackup \/ SkipImport \/ ImportKeys \/ RecordImport \/ ClearSentinel
             \/ StartAfresh \/ InitialSync \/ InitialSyncError
             \/ JoinedRoomsError \/ StartRaises
      PROVE  IndInv'
  <2>1. QuietStep
    BY <1>1 DEF NewEvent, FetchPageError, ConfigureBackup, SkipImport, ImportKeys, RecordImport,
                ClearSentinel, StartAfresh, InitialSync, InitialSyncError, JoinedRoomsError,
                StartRaises, MayFetch, QuietStep, Starting
  <2> QED BY <2>1, QuietInd
<1>2. ASSUME Start \/ Stop \/ Kill PROVE IndInv'
  BY <1>2 DEF Start, Stop, Kill, ProcessEnds, IndInv, WorkInv, QueueInv, RetryInv, DispatchInv,
              StoresAgree, NothingLeftUnretried, DispatchedOnceAndSearchable, Live
<1>3. ASSUME ResumeFromToken \/ MarkBackfillComplete PROVE IndInv'
  BY <1>3 DEF ResumeFromToken, MarkBackfillComplete, Pending, IndInv, WorkInv, QueueInv, RetryInv,
              DispatchInv, StoresAgree, NothingLeftUnretried, DispatchedOnceAndSearchable, Live
<1>4. ASSUME NEW r \in Rooms, FetchPage(r) PROVE IndInv'
  BY <1>4 DEF FetchPage, MayFetch, InsertBatch, IndInv, WorkInv, QueueInv, RetryInv, DispatchInv,
              StoresAgree, NothingLeftUnretried, DispatchedOnceAndSearchable, Live
<1>5. ASSUME IndexTimeline PROVE IndInv'
  BY <1>5 DEF IndexTimeline, InsertBatch, IndInv, WorkInv, QueueInv, RetryInv, DispatchInv,
              StoresAgree, NothingLeftUnretried, DispatchedOnceAndSearchable, Live
<1>6. ASSUME BatchUpsert \/ BatchMark \/ BatchFails PROVE IndInv'
  BY <1>6 DEF BatchUpsert, BatchMark, BatchFails, Uploaded, IndInv, WorkInv, QueueInv, RetryInv,
              DispatchInv, StoresAgree, NothingLeftUnretried, DispatchedOnceAndSearchable, Live
<1>7. ASSUME NEW e \in Events, RetryUpsert(e) PROVE IndInv'
  <2>1. WorkInv' /\ QueueInv'
    BY <1>7 DEF RetryUpsert, IndInv, WorkInv, QueueInv
  <2>2. RetryInv' /\ DispatchInv'
    BY <1>0, <1>7 DEF RetryUpsert, IndInv, WorkInv, RetryInv, DispatchInv
  <2>3. StoresAgree' /\ NothingLeftUnretried' /\ DispatchedOnceAndSearchable'
    BY <1>7 DEF RetryUpsert, IndInv, QueueInv, StoresAgree, NothingLeftUnretried,
                DispatchedOnceAndSearchable, Live
  <2> QED BY <2>1, <2>2, <2>3 DEF IndInv
<1>8. ASSUME RetryMark \/ RetryFails \/ GoLive PROVE IndInv'
  BY <1>8 DEF RetryMark, RetryFails, GoLive, IndInv, WorkInv, QueueInv, RetryInv, DispatchInv,
              StoresAgree, NothingLeftUnretried, DispatchedOnceAndSearchable, Live
<1>9. ASSUME SyncLive \/ CallbacksDone \/ SyncDies PROVE IndInv'
  BY <1>9 DEF SyncLive, CallbacksDone, SyncDies, IndInv, WorkInv, QueueInv, RetryInv, DispatchInv,
              StoresAgree, NothingLeftUnretried, DispatchedOnceAndSearchable, Live
<1>10. ASSUME NEW e \in Events, InsertMessage(e) \/ InsertFails(e) PROVE IndInv'
  <2>1. CASE InsertMessage(e)
    <3>1. WorkInv' /\ QueueInv' /\ RetryInv'
      BY <2>1 DEF InsertMessage, IsNext, IndInv, WorkInv, QueueInv, RetryInv
    \* A new event has no row yet, so no point, so it was never dispatched.
    <3>2. e \notin rows => dispatches[e] = 0
      BY <1>10 DEF IndInv, WorkInv, StoresAgree, DispatchedOnceAndSearchable
    <3>3. DispatchInv'
      BY <2>1, <3>2 DEF InsertMessage, DispatchInv
    <3>4. StoresAgree' /\ NothingLeftUnretried' /\ DispatchedOnceAndSearchable'
      BY <1>0, <2>1 DEF InsertMessage, IsNext, IndInv, StoresAgree, NothingLeftUnretried,
                  DispatchedOnceAndSearchable, Live
    <3> QED BY <3>1, <3>3, <3>4 DEF IndInv
  <2>2. CASE InsertFails(e)
    BY <2>2 DEF InsertFails, IsNext, IndInv, WorkInv, QueueInv, RetryInv, DispatchInv,
                StoresAgree, NothingLeftUnretried, DispatchedOnceAndSearchable, Live
  <2> QED BY <1>10, <2>1, <2>2
<1>11. ASSUME LiveUpsert \/ LiveMark \/ LiveFails PROVE IndInv'
  BY <1>11 DEF LiveUpsert, LiveMark, LiveFails, IndInv, WorkInv, QueueInv, RetryInv, DispatchInv,
               StoresAgree, NothingLeftUnretried, DispatchedOnceAndSearchable, Live
<1>12. ASSUME LiveDispatch PROVE IndInv'
  BY <1>12 DEF LiveDispatch, IndInv, WorkInv, QueueInv, RetryInv, DispatchInv,
               StoresAgree, NothingLeftUnretried, DispatchedOnceAndSearchable, Live
<1>13. CASE UNCHANGED vars
  <2>1. QuietStep
    BY <1>13 DEF vars, QuietStep
  <2> QED BY <2>1, QuietInd
<1> QED
  BY <1>1, <1>2, <1>3, <1>4, <1>5, <1>6, <1>7, <1>8, <1>9, <1>10, <1>11, <1>12, <1>13
     DEF Next, StartStep, LiveStep, Failure

\* The whole inductive invariant: every leaf below reads it off.
Inv == TypeOK /\ IndInv

LEMMA InvHolds == Spec => []Inv
<1>1. Init => Inv
  BY InitTypeOK, InitInd DEF Inv
<1>2. Inv /\ [Next]_vars => Inv'
  BY StepTypeOK, StepInd DEF Inv, IndInv, WorkInv
<1> QED BY <1>1, <1>2, PTL DEF Spec

\* Every variable keeps its type, whatever fails, stops or is restarted.
THEOREM IngestTypeCorrect == Spec => []TypeOK
<1>1. Inv => TypeOK
  BY DEF Inv
<1> QED BY InvHolds, <1>1, PTL

\* indexed = 1 implies a point in Qdrant and a point implies a row in SQLite,
\* across every crash, failed batch and retry.
THEOREM StoresAlwaysAgree == Spec => []StoresAgree
<1>1. Inv => StoresAgree
  BY DEF Inv, IndInv
<1> QED BY InvHolds, <1>1, PTL

\* A live client has retried everything that earlier processes and its own
\* backfill left unindexed.
THEOREM RetryIsComplete == Spec => []NothingLeftUnretried
<1>1. Inv => NothingLeftUnretried
  BY DEF Inv, IndInv
<1> QED BY InvHolds, <1>1, PTL

\* No event reaches the webhook dispatcher twice, and none before it is searchable.
THEOREM DispatchAtMostOnce == Spec => []DispatchedOnceAndSearchable
<1>1. Inv => DispatchedOnceAndSearchable
  BY DEF Inv, IndInv
<1> QED BY InvHolds, <1>1, PTL

-----------------------------------------------------------------------------
(* What a backfill reaches, and what the sync token leaves behind.         *)

\* An event the backfill under way has still to insert: a page below the
\* cursor of its room will hold it, or the initial sync response does.
Owed(e) == e \in timeline \/ (e[1] \in DOMAIN cursor /\ e[2] <= cursor[e[1]].at)

\* Where the token in memory, the token on disk and the sentinel agree.  A
\* process that backfills although the sentinel is there has found no token:
\* an initial sync failed before it.
TokenInv ==
  /\ savedToken = NoToken => anchor = NoToken
  /\ pc \in {"import", "record", "decide", "sync", "live", "events"} => since = savedToken
  /\ pc \in {"backfill", "mark", "retry"} => since = savedToken \/ since = NoToken
  /\ pc \in {"sync", "backfill", "mark"} /\ complete => anchor = NoToken
  /\ pc \in {"retry", "live", "events", "dead"} => complete
  /\ batch # {} => pc \in {"backfill", "mark"}

\* The pages a room's backfill has fetched so far, counted from the token.
PageInv ==
  pc = "backfill" => \A r \in DOMAIN cursor :
    /\ since # NoToken /\ r \notin Ignored
    /\ PagesMax # 0 /\ cursor[r].at > 0 =>
         cursor[r].at <= since[r] - SyncLimit - cursor[r].pages * PageLimit

\* During a backfill what it can reach and read is stored, owed, or in a room that an
\* error response has ended.
BackfillInv ==
  /\ pc \in {"backfill", "mark"} /\ since = NoToken => cutShort = Rooms
  /\ pc \in {"backfill", "mark"} /\ since # NoToken =>
       \A e \in Window(savedToken) : Readable(e) =>
          e \in rows \/ e[1] \in cutShort \/ (pc = "backfill" /\ Owed(e))

\* What has become of the events since the backfill, kept through every restart.
Accounted ==
  rows \cup (IF pc = "events" THEN todo ELSE {}) \cup skipped \cup unsaved \cup orphaned

LiveInv ==
  /\ complete => SinceBackfill \subseteq Accounted
  /\ pc = "live" => todo = {}

HistoryInv == TokenInv /\ PageInv /\ BackfillInv /\ GapsOnlyAfterErrors /\ LiveInv

LEMMA InitHistory == Init => HistoryInv
BY DEF Init, HistoryInv, Accounted, TokenInv, PageInv, BackfillInv, GapsOnlyAfterErrors, LiveInv

\* Each step keeps the tokens and the sentinel together.
LEMMA StepToken == TypeOK /\ TokenInv /\ [Next]_vars => TokenInv'
<1> SUFFICES ASSUME TypeOK, TokenInv, [Next]_vars PROVE TokenInv'
  OBVIOUS
<1> USE DEF disk, flow, indexing, history, budget, TokenInv
<1>1. CASE Start \/ SkipImport \/ ImportKeys \/ RecordImport \/ ClearSentinel
             \/ ResumeFromToken \/ StartAfresh
  BY <1>1 DEF Start, SkipImport, ImportKeys, RecordImport, ClearSentinel, MustClear,
              ResumeFromToken, StartAfresh
<1>2. CASE InitialSync \/ InitialSyncError \/ JoinedRoomsError \/ IndexTimeline
             \/ MarkBackfillComplete
  BY <1>2 DEF InitialSync, InitialSyncError, JoinedRoomsError, IndexTimeline,
              MarkBackfillComplete, TypeOK
<1>3. CASE \E r \in Rooms : NewEvent(r) \/ FetchPage(r) \/ FetchPageError(r)
  BY <1>3 DEF NewEvent, FetchPage, FetchPageError, MayFetch
<1>4. CASE BatchUpsert \/ BatchMark \/ BatchFails \/ RetryMark \/ RetryFails \/ GoLive
             \/ \E e \in Events : RetryUpsert(e)
  BY <1>4 DEF BatchUpsert, BatchMark, BatchFails, RetryMark, RetryFails, GoLive, RetryUpsert
<1>5. CASE SyncLive \/ CallbacksDone \/ SyncDies
             \/ \E e \in Events : InsertMessage(e) \/ InsertFails(e)
  BY <1>5 DEF SyncLive, CallbacksDone, SyncDies, InsertMessage, InsertFails, IsNext, TypeOK
<1>6. CASE LiveUpsert \/ LiveDispatch \/ LiveMark \/ LiveFails
  BY <1>6 DEF LiveUpsert, LiveDispatch, LiveMark, LiveFails
<1>7. CASE ConfigureBackup \/ StartRaises \/ Stop \/ Kill \/ UNCHANGED vars
  BY <1>7 DEF ConfigureBackup, StartRaises, Stop, Kill, ProcessEnds, vars
<1> QED
  BY <1>1, <1>2, <1>3, <1>4, <1>5, <1>6, <1>7 DEF Next, StartStep, LiveStep, Failure

\* A step that is no part of a backfill and no live sync: what it writes to
\* the messages table is only added.
LEMMA Bystanders ==
  ASSUME TypeOK, TokenInv, [Next]_vars,
         ~InitialSync, ~InitialSyncError, ~JoinedRoomsError, ~IndexTimeline,
         ~MarkBackfillComplete, ~ClearSentinel, ~SyncLive,
         ~\E r \in Rooms : FetchPage(r) \/ FetchPageError(r)
  PROVE  /\ UNCHANGED <<savedToken, complete, anchor, cutShort>>
         /\ rows \subseteq rows'
         /\ pc' \in {"backfill", "mark"} => UNCHANGED <<pc, since, timeline, cursor, keys>>
<1> USE DEF disk, flow, indexing, history, budget
<1>1. CASE Start \/ SkipImport \/ ImportKeys \/ RecordImport \/ ResumeFromToken \/ StartAfresh
  BY <1>1 DEF Start, SkipImport, ImportKeys, RecordImport, ResumeFromToken, StartAfresh
<1>2. CASE BatchUpsert \/ BatchMark \/ BatchFails \/ RetryMark \/ RetryFails \/ GoLive
             \/ \E e \in Events : RetryUpsert(e)
  BY <1>2 DEF BatchUpsert, BatchMark, BatchFails, RetryMark, RetryFails, GoLive, RetryUpsert
<1>3. CASE CallbacksDone \/ SyncDies \/ \E e \in Events : InsertMessage(e) \/ InsertFails(e)
  BY <1>3 DEF CallbacksDone, SyncDies, InsertMessage, InsertFails, IsNext
<1>4. CASE LiveUpsert \/ LiveDispatch \/ LiveMark \/ LiveFails
  BY <1>4 DEF LiveUpsert, LiveDispatch, LiveMark, LiveFails
<1>5. CASE ConfigureBackup \/ StartRaises \/ Stop \/ Kill \/ UNCHANGED vars
             \/ \E r \in Rooms : NewEvent(r)
  BY <1>5 DEF ConfigureBackup, StartRaises, Stop, Kill, ProcessEnds, vars, NewEvent
<1> QED
  BY <1>1, <1>2, <1>3, <1>4, <1>5 DEF Next, StartStep, LiveStep, Failure

\* The page below the cursor, and what is left to fetch after it.
LEMMA StepPages == TypeOK /\ TokenInv /\ PageInv /\ [Next]_vars => PageInv'
<1> SUFFICES ASSUME TypeOK, TokenInv, PageInv, [Next]_vars PROVE PageInv'
  OBVIOUS
<1> USE DEF disk, flow, indexing, history, budget
<1>1. CASE InitialSync
  <2> SUFFICES ASSUME NEW r \in DOMAIN cursor' PROVE
        /\ since' # NoToken /\ r \notin Ignored
        /\ PagesMax # 0 /\ cursor'[r].at > 0 =>
             cursor'[r].at <= since'[r] - SyncLimit - cursor'[r].pages * PageLimit
    BY DEF PageInv
  <2>1. r \in Rooms /\ r \notin Ignored /\ head \in Tokens /\ head[r] \in Nat
    BY <1>1 DEF InitialSync, TypeOK, Tokens
  <2>2. cursor'[r] = [at |-> FirstShown(r, 0) - 1, pages |-> 0] /\ since' = head
    BY <1>1 DEF InitialSync
  <2>3. FirstShown(r, 0) - 1 > 0 => FirstShown(r, 0) - 1 <= head[r] - SyncLimit - 0 * PageLimit
    BY <2>1 DEF FirstShown
  <2> QED BY <2>1, <2>2, <2>3
<1>2. CASE InitialSyncError \/ JoinedRoomsError
  BY <1>2 DEF InitialSyncError, JoinedRoomsError, PageInv
<1>3. ASSUME NEW r \in Rooms, FetchPage(r) PROVE PageInv'
  <2>1. r \in DOMAIN cursor /\ pc = "backfill" /\ cursor[r].at \in Nat /\ cursor[r].pages \in Nat
    BY <1>3 DEF FetchPage, MayFetch, TypeOK, Positions
  <2>2. UNCHANGED <<pc, since>>
    BY <1>3 DEF FetchPage
  <2>3. CASE LastPage(cursor[r].at, cursor[r].pages + 1)
    BY <1>3, <2>1, <2>2, <2>3 DEF FetchPage, Leave, PageInv
  <2>4. CASE ~LastPage(cursor[r].at, cursor[r].pages + 1)
    <3>1. cursor' = [cursor EXCEPT ![r] = [at |-> cursor[r].at - PageLimit,
                                           pages |-> cursor[r].pages + 1]]
      BY <1>3, <2>4 DEF FetchPage
    <3>2. DOMAIN cursor' = DOMAIN cursor
      BY <3>1
    <3>3. ASSUME NEW q \in DOMAIN cursor, q # r PROVE cursor'[q] = cursor[q]
      BY <3>1, <3>3
    <3>4. cursor'[r] = [at |-> cursor[r].at - PageLimit, pages |-> cursor[r].pages + 1]
      BY <2>1, <3>1
    <3>5. /\ since # NoToken /\ r \notin Ignored
          /\ PagesMax # 0 /\ cursor[r].at > 0 =>
               cursor[r].at <= since[r] - SyncLimit - cursor[r].pages * PageLimit
      BY <2>1 DEF PageInv
    <3>6. since[r] \in Int
      BY <3>5 DEF TypeOK, Tokens
    <3>7. (cursor[r].pages + 1) * PageLimit = cursor[r].pages * PageLimit + PageLimit
      BY <2>1
    <3>8. cursor[r].pages * PageLimit \in Int
      BY <2>1
    <3>9. PagesMax # 0 /\ cursor'[r].at > 0 =>
            cursor'[r].at <= since[r] - SyncLimit - cursor'[r].pages * PageLimit
      BY <2>1, <3>4, <3>5, <3>6, <3>7, <3>8
    <3> QED BY <2>1, <2>2, <3>2, <3>3, <3>5, <3>9 DEF PageInv
  <2> QED BY <2>3, <2>4
<1>4. ASSUME NEW r \in Rooms, FetchPageError(r) PROVE PageInv'
  BY <1>4 DEF FetchPageError, MayFetch, Leave, PageInv
<1>5. CASE IndexTimeline \/ MarkBackfillComplete \/ ClearSentinel \/ SyncLive
  BY <1>5 DEF IndexTimeline, MarkBackfillComplete, ClearSentinel, SyncLive, PageInv
<1> QED BY <1>1, <1>2, <1>3, <1>4, <1>5, Bystanders DEF PageInv

LEMMA EventPair ==
  ASSUME NEW e \in Events
  PROVE  e[1] \in Rooms /\ e[2] \in 1..MaxEvents /\ e = <<e[1], e[2]>>
BY DEF Events

LEMMA InSpan ==
  ASSUME NEW e \in Events, NEW i \in Int, NEW j \in Int, i <= e[2], e[2] <= j
  PROVE  e \in Span(e[1], i, j)
BY EventPair DEF Span

LEMMA InWindow ==
  ASSUME NEW t \in Tokens, NEW e \in Window(t)
  PROVE  /\ e \in Events /\ e[1] \notin Ignored /\ e[2] <= t[e[1]]
         /\ PagesMax # 0 => e[2] > t[e[1]] - SyncLimit - PagesMax * PageLimit
BY DEF Window, Kept

LEMMA FirstShownInt ==
  ASSUME head \in Tokens, NEW r \in Rooms, NEW i \in Int
  PROVE  FirstShown(r, i) \in Int
BY DEF FirstShown, Tokens

\* A page holds every readable event between the old cursor and the new one,
\* and the page cap ends a backfill only below what its window reaches.
LEMMA PageStep ==
  ASSUME TypeOK, TokenInv, PageInv, NEW r \in Rooms, FetchPage(r), since # NoToken,
         NEW e \in Window(savedToken), Readable(e), e[1] = r, e[2] <= cursor[r].at
  PROVE  e \in rows' \/ (r \in DOMAIN cursor' /\ e[2] <= cursor'[r].at)
<1> DEFINE at == cursor[r].at
           pages == cursor[r].pages
<1>1. r \in DOMAIN cursor /\ pc = "backfill" /\ at \in Nat /\ pages \in Nat
  BY DEF FetchPage, MayFetch, TypeOK, Positions
<1>2. since = savedToken /\ savedToken \in Tokens
  BY <1>1 DEF TokenInv, TypeOK
<1>3. e \in Events /\ e[2] \in 1..MaxEvents
  BY <1>2, InWindow, EventPair
<1>4. CASE e[2] >= at - PageLimit + 1
  <2>1. at - PageLimit + 1 \in Int /\ at \in Int
    BY <1>1
  <2>2. e \in Span(r, at - PageLimit + 1, at)
    BY <2>1, <1>3, <1>4, InSpan
  <2> QED BY <2>2 DEF FetchPage, InsertBatch
<1>5. CASE e[2] <= at - PageLimit
  <2>1. CASE ~LastPage(at, pages + 1)
    <3>1. cursor' = [cursor EXCEPT ![r] = [at |-> at - PageLimit, pages |-> pages + 1]]
      BY <2>1 DEF FetchPage
    <3> QED BY <1>1, <1>5, <3>1
  <2>2. CASE LastPage(at, pages + 1)
    <3>1. at > PageLimit
      BY <1>1, <1>3, <1>5
    <3>2. PagesMax = pages + 1 /\ PagesMax # 0
      BY <1>1, <2>2, <3>1 DEF LastPage
    <3>3. at > 0
      BY <1>1, <3>1
    <3>4. at <= since[r] - SyncLimit - pages * PageLimit
      BY <1>1, <3>2, <3>3 DEF PageInv
    <3>5. PagesMax * PageLimit = pages * PageLimit + PageLimit /\ pages * PageLimit \in Int
      <4> HIDE DEF pages
      <4>1. (pages + 1) * PageLimit = pages * PageLimit + PageLimit
        BY <1>1
      <4>2. pages * PageLimit \in Int
        BY <1>1
      <4> QED BY <3>2, <4>1, <4>2
    <3>6. e[2] > since[r] - SyncLimit - PagesMax * PageLimit
      BY <1>2, <3>2, InWindow
    <3>7. since[r] \in Int
      BY <1>2 DEF Tokens
    <3>8. FALSE
      BY <1>1, <1>3, <1>5, <3>4, <3>5, <3>6, <3>7
    <3> QED BY <3>8
  <2> QED BY <2>1, <2>2
<1> QED BY <1>1, <1>3, <1>4, <1>5

\* Every step keeps the account of the backfill under way.
LEMMA StepBackfill ==
  TypeOK /\ TokenInv /\ PageInv /\ BackfillInv /\ [Next]_vars => BackfillInv'
<1> SUFFICES ASSUME TypeOK, TokenInv, PageInv, BackfillInv, [Next]_vars PROVE BackfillInv'
  OBVIOUS
<1> USE DEF disk, flow, indexing, history, budget
<1>1. CASE InitialSync
  <2>1. since' = head /\ savedToken' = head /\ head \in Tokens /\ pc' = "backfill"
    BY <1>1 DEF InitialSync, TypeOK
  <2> SUFFICES ASSUME NEW e \in Window(head) PROVE Owed(e)'
    BY <2>1 DEF BackfillInv
  <2>2. e \in Events /\ e[1] \in Rooms \ Ignored /\ e[2] \in 1..MaxEvents /\ e[2] <= head[e[1]]
    BY <2>1, InWindow, EventPair
  <2>3. FirstShown(e[1], 0) \in Int /\ head[e[1]] \in Int
    BY <2>1, <2>2, FirstShownInt DEF Tokens
  <2>4. CASE e[2] >= FirstShown(e[1], 0)
    <3>1. e \in Span(e[1], FirstShown(e[1], 0), head[e[1]])
      BY <2>2, <2>3, <2>4, InSpan
    <3>2. e \in timeline'
      BY <1>1, <2>2, <3>1 DEF InitialSync
    <3> QED BY <3>2 DEF Owed
  <2>5. CASE e[2] <= FirstShown(e[1], 0) - 1
    <3>1. e[1] \in DOMAIN cursor' /\ cursor'[e[1]].at = FirstShown(e[1], 0) - 1
      BY <1>1, <2>2 DEF InitialSync
    <3> QED BY <2>5, <3>1 DEF Owed
  <2> QED BY <2>2, <2>3, <2>4, <2>5
<1>2. CASE InitialSyncError \/ JoinedRoomsError
  <2>1. cutShort' = Rooms /\ savedToken' = savedToken
    BY <1>2 DEF InitialSyncError, JoinedRoomsError
  <2>2. \A e \in Window(savedToken) : e[1] \in Rooms
    BY EventPair DEF Window
  <2> QED BY <2>1, <2>2 DEF BackfillInv, Window, Kept
<1>3. ASSUME NEW r \in Rooms, FetchPage(r) PROVE BackfillInv'
  <2>1. UNCHANGED <<pc, since, savedToken, timeline, cutShort, keys>> /\ pc = "backfill"
    BY <1>3 DEF FetchPage, MayFetch
  <2>2. rows \subseteq rows' /\ \A q \in DOMAIN cursor : q # r =>
                                  q \in DOMAIN cursor' /\ cursor'[q] = cursor[q]
    BY <1>3 DEF FetchPage, InsertBatch, Leave
  <2> SUFFICES ASSUME since # NoToken, NEW e \in Window(savedToken), Readable(e)
      PROVE  e \in rows' \/ e[1] \in cutShort \/ Owed(e)'
    BY <2>1 DEF BackfillInv, Window, Kept, Readable
  <2>3. CASE e[1] = r /\ r \in DOMAIN cursor /\ e[2] <= cursor[r].at
    BY <1>3, <2>3, PageStep DEF Owed
  <2>4. CASE ~(e[1] = r /\ r \in DOMAIN cursor /\ e[2] <= cursor[r].at)
    <3>1. e \in rows \/ e[1] \in cutShort \/ Owed(e)
      BY <2>1 DEF BackfillInv
    <3> QED BY <2>1, <2>2, <2>4, <3>1 DEF Owed
  <2> QED BY <2>3, <2>4
<1>4. ASSUME NEW r \in Rooms, FetchPageError(r) PROVE BackfillInv'
  <2>1. /\ UNCHANGED <<pc, since, savedToken, timeline, rows, keys>> /\ pc = "backfill"
        /\ cutShort' = cutShort \cup {r} /\ cutShort \subseteq Rooms
        /\ cursor' = [q \in DOMAIN cursor \ {r} |-> cursor[q]]
    BY <1>4 DEF FetchPageError, MayFetch, Leave, TypeOK
  <2>2. ASSUME since # NoToken, NEW e \in Window(savedToken), Readable(e)
        PROVE  e \in rows' \/ e[1] \in cutShort' \/ Owed(e)'
    <3>1. e \in rows \/ e[1] \in cutShort \/ Owed(e)
      BY <2>1, <2>2 DEF BackfillInv
    <3> QED BY <2>1, <3>1 DEF Owed
  <2> QED BY <1>4, <2>1, <2>2 DEF BackfillInv, Window, Kept, Readable
<1>5. CASE IndexTimeline
  <2>1. /\ UNCHANGED <<since, savedToken, cutShort, keys>> /\ pc = "backfill" /\ DOMAIN cursor = {}
        /\ rows' = rows \cup {e \in timeline : Kept(e) /\ Readable(e)}
    BY <1>5 DEF IndexTimeline, InsertBatch
  <2>2. ASSUME since # NoToken, NEW e \in Window(savedToken), Readable(e)
        PROVE  e \in rows' \/ e[1] \in cutShort'
    <3>1. e \in rows \/ e[1] \in cutShort \/ Owed(e)
      BY <2>1, <2>2 DEF BackfillInv
    <3>2. Kept(e) /\ Readable(e)
      BY <2>2 DEF Window
    <3> QED BY <2>1, <3>1, <3>2 DEF Owed
  <2> QED BY <2>1, <2>2 DEF BackfillInv, Window, Kept, Readable
<1>6. CASE MarkBackfillComplete \/ ClearSentinel \/ SyncLive
  BY <1>6 DEF MarkBackfillComplete, ClearSentinel, SyncLive, BackfillInv
<1>7. CASE /\ UNCHANGED <<savedToken, complete, anchor, cutShort>>
           /\ rows \subseteq rows'
           /\ pc' \in {"backfill", "mark"} => UNCHANGED <<pc, since, timeline, cursor, keys>>
  BY <1>7 DEF BackfillInv, Owed, Window, Kept, Readable
<1> QED BY <1>1, <1>2, <1>3, <1>4, <1>5, <1>6, <1>7, Bystanders

\* The sentinel is set when nothing is owed any more, and nothing that happens
\* while it stands takes a row away or ends a backfill with an anchor.
LEMMA StepGaps ==
  TypeOK /\ TokenInv /\ BackfillInv /\ GapsOnlyAfterErrors /\ [Next]_vars
    => GapsOnlyAfterErrors'
<1> SUFFICES ASSUME TypeOK, TokenInv, BackfillInv, GapsOnlyAfterErrors, [Next]_vars
    PROVE  GapsOnlyAfterErrors'
  OBVIOUS
<1> USE DEF disk, flow, indexing, history, budget
<1>1. CASE InitialSync \/ InitialSyncError \/ JoinedRoomsError
  BY <1>1 DEF InitialSync, InitialSyncError, JoinedRoomsError, TokenInv,
              GapsOnlyAfterErrors, Window
<1>2. ASSUME NEW r \in Rooms, FetchPage(r) \/ FetchPageError(r) PROVE GapsOnlyAfterErrors'
  BY <1>2 DEF FetchPage, FetchPageError, InsertBatch, GapsOnlyAfterErrors, Window, Kept
<1>3. CASE IndexTimeline \/ ClearSentinel \/ SyncLive
  BY <1>3 DEF IndexTimeline, InsertBatch, ClearSentinel, SyncLive, GapsOnlyAfterErrors,
              Window, Kept
<1>4. CASE MarkBackfillComplete
  <2>1. pc = "mark" /\ anchor' = savedToken /\ UNCHANGED <<rows, cutShort>>
    BY <1>4 DEF MarkBackfillComplete
  <2>2. ASSUME NEW e \in Window(savedToken) \ Encrypted PROVE e \in rows \/ e[1] \in cutShort
    <3>1. e[1] \in Rooms
      BY EventPair DEF Window
    <3>2. Readable(e)
      BY <2>2 DEF Readable
    <3> QED BY <2>1, <2>2, <3>1, <3>2 DEF BackfillInv
  <2> QED BY <2>1, <2>2 DEF GapsOnlyAfterErrors, Window, Kept
<1>5. CASE /\ UNCHANGED <<savedToken, complete, anchor, cutShort>>
           /\ rows \subseteq rows'
  BY <1>5 DEF GapsOnlyAfterErrors, Window, Kept
<1> QED BY <1>1, <1>2, <1>3, <1>4, <1>5, Bystanders

\* Outside the live sync's own step an event that is accounted for stays so:
\* a callback moves it on, and whatever ends the sync task orphans it.
LEMMA StepAccounted ==
  ASSUME TypeOK, TokenInv, LiveInv, [Next]_vars, ~SyncLive
  PROVE  Accounted \subseteq Accounted' /\ (pc' = "live" => todo' = {})
<1> USE DEF disk, flow, indexing, history, budget, Accounted, LiveInv
<1>1. CASE Start \/ SkipImport \/ ImportKeys \/ RecordImport \/ ClearSentinel
             \/ ResumeFromToken \/ StartAfresh
  BY <1>1 DEF Start, SkipImport, ImportKeys, RecordImport, ClearSentinel,
              ResumeFromToken, StartAfresh
<1>2. CASE InitialSync \/ InitialSyncError \/ JoinedRoomsError \/ IndexTimeline
             \/ MarkBackfillComplete
  BY <1>2 DEF InitialSync, InitialSyncError, JoinedRoomsError, IndexTimeline,
              MarkBackfillComplete, InsertBatch
<1>3. CASE \E r \in Rooms : NewEvent(r) \/ FetchPage(r) \/ FetchPageError(r)
  BY <1>3 DEF NewEvent, FetchPage, FetchPageError, MayFetch, InsertBatch
<1>4. CASE BatchUpsert \/ BatchMark \/ BatchFails
  BY <1>4 DEF BatchUpsert, BatchMark, BatchFails
<1>5. CASE RetryMark \/ RetryFails \/ GoLive \/ \E e \in Events : RetryUpsert(e)
  BY <1>5 DEF RetryMark, RetryFails, GoLive, RetryUpsert
<1>6. ASSUME NEW e \in Events, InsertMessage(e)
      PROVE  Accounted \subseteq Accounted' /\ (pc' = "live" => todo' = {})
  BY <1>6 DEF InsertMessage, IsNext
<1>7. ASSUME NEW e \in Events, InsertFails(e)
      PROVE  Accounted \subseteq Accounted' /\ (pc' = "live" => todo' = {})
  BY <1>7 DEF InsertFails, IsNext
<1>8. CASE CallbacksDone \/ SyncDies
  BY <1>8 DEF CallbacksDone, SyncDies
<1>9. CASE LiveUpsert \/ LiveDispatch \/ LiveMark \/ LiveFails
  BY <1>9 DEF LiveUpsert, LiveDispatch, LiveMark, LiveFails
<1>10. CASE ConfigureBackup \/ StartRaises \/ UNCHANGED vars
  BY <1>10 DEF ConfigureBackup, StartRaises, vars
<1>11. CASE Stop \/ Kill
  BY <1>11 DEF Stop, Kill, ProcessEnds, TokenInv
<1> QED
  BY <1>1, <1>2, <1>3, <1>4, <1>5, <1>6, <1>7, <1>8, <1>9, <1>10, <1>11
     DEF Next, StartStep, LiveStep, Failure

\* A live sync shows every event between the two tokens or skips it.
LEMMA SyncShowsOrSkips ==
  ASSUME TypeOK, TokenInv, savedToken # NoToken, SyncLive,
         NEW e \in Events \ Encrypted, Kept(e),
         savedToken[e[1]] < e[2], e[2] <= head[e[1]]
  PROVE  e \in todo' \cup skipped'
<1> DEFINE r == e[1]
           first == FirstShown(r, since[r])
<1>1. since = savedToken /\ since \in Tokens /\ head \in Tokens
  BY DEF SyncLive, TokenInv, TypeOK
<1>2. r \in Rooms /\ e[2] \in 1..MaxEvents
  BY EventPair
<1>3. since[r] \in Int /\ head[r] \in Int
  BY <1>1, <1>2 DEF Tokens
<1>4. first \in Int
  BY <1>1, <1>2, <1>3, FirstShownInt
<1>5. CASE e[2] >= first
  <2>1. e \in Span(r, first, head[r])
    BY <1>2, <1>3, <1>4, <1>5, InSpan
  <2>2. Readable(e)
    BY DEF Readable
  <2>3. e \in todo'
    BY <1>2, <2>1, <2>2 DEF SyncLive
  <2> QED BY <2>3
<1>6. CASE e[2] <= first - 1
  <2>1. since[r] + 1 \in Int /\ first - 1 \in Int /\ since[r] + 1 <= e[2]
    BY <1>1, <1>2, <1>3, <1>4
  <2>2. e \in Span(r, since[r] + 1, first - 1)
    BY <2>1, <1>6, InSpan
  <2>3. e \in skipped'
    BY <1>2, <2>2 DEF SyncLive
  <2> QED BY <2>3
<1> QED BY <1>2, <1>4, <1>5, <1>6

\* Every step keeps the account of the events since the backfill.
LEMMA StepLive == TypeOK /\ TokenInv /\ LiveInv /\ [Next]_vars => LiveInv'
<1> SUFFICES ASSUME TypeOK, TokenInv, LiveInv, [Next]_vars PROVE LiveInv'
  OBVIOUS
<1> USE DEF disk, flow, indexing, history, budget
<1>1. CASE SyncLive
  <2>1. /\ savedToken' = head /\ pc = "live" /\ pc' = "events" /\ complete
        /\ UNCHANGED <<complete, anchor, rows, unsaved, orphaned>>
        /\ skipped \subseteq skipped'
    BY <1>1 DEF SyncLive, TokenInv
  <2> SUFFICES ASSUME NEW e \in SinceBackfill' PROVE e \in Accounted'
    BY <2>1 DEF LiveInv
  <2>2. /\ e \in Events \ Encrypted /\ anchor # NoToken /\ Kept(e)
        /\ anchor[e[1]] < e[2] /\ e[2] <= head[e[1]]
    BY <2>1 DEF SinceBackfill, Kept
  <2>3. savedToken # NoToken /\ savedToken \in Tokens
    BY <2>2 DEF TokenInv, TypeOK
  <2>4. e[1] \in Rooms /\ e[2] \in Int /\ savedToken[e[1]] \in Int
    BY <2>2, <2>3, EventPair DEF Tokens
  <2>5. CASE e[2] <= savedToken[e[1]]
    <3>1. e \in SinceBackfill
      BY <2>2, <2>5 DEF SinceBackfill
    <3>2. e \in Accounted /\ todo = {}
      BY <2>1, <3>1 DEF LiveInv
    <3> QED BY <2>1, <3>2 DEF Accounted
  <2>6. CASE savedToken[e[1]] < e[2]
    <3>1. e \in todo' \cup skipped'
      BY <1>1, <2>2, <2>3, <2>6, SyncShowsOrSkips
    <3> QED BY <2>1, <3>1 DEF Accounted
  <2> QED BY <2>4, <2>5, <2>6
<1>2. CASE ~SyncLive
  <2>1. Accounted \subseteq Accounted' /\ (pc' = "live" => todo' = {})
    BY <1>2, StepAccounted
  <2>2. CASE InitialSync \/ InitialSyncError \/ JoinedRoomsError
    <3>1. complete' => SinceBackfill' = {}
      BY <2>2 DEF InitialSync, InitialSyncError, JoinedRoomsError, TokenInv, SinceBackfill
    <3> QED BY <2>1, <3>1 DEF LiveInv
  <2>3. CASE MarkBackfillComplete
    <3>1. anchor' = savedToken'
      BY <2>3 DEF MarkBackfillComplete
    <3>2. ASSUME NEW e \in SinceBackfill' PROVE FALSE
      <4>1. /\ e \in Events /\ anchor' # NoToken /\ anchor'[e[1]] < e[2]
            /\ e[2] <= anchor'[e[1]]
        BY <3>1 DEF SinceBackfill
      <4>2. anchor' \in Tokens
        BY <2>3, <4>1 DEF MarkBackfillComplete, TypeOK
      <4>3. anchor'[e[1]] \in Int /\ e[2] \in Int
        BY <4>1, <4>2, EventPair DEF Tokens
      <4> QED BY <4>1, <4>3
    <3> QED BY <2>1, <3>2 DEF LiveInv
  <2>4. CASE IndexTimeline \/ ClearSentinel \/ \E r \in Rooms : FetchPage(r) \/ FetchPageError(r)
    <3>1. complete' => complete /\ UNCHANGED <<savedToken, anchor>>
      BY <2>4 DEF IndexTimeline, ClearSentinel, FetchPage, FetchPageError
    <3> QED BY <2>1, <3>1 DEF LiveInv, SinceBackfill, Kept
  <2>5. CASE UNCHANGED <<savedToken, complete, anchor>>
    BY <2>1, <2>5 DEF LiveInv, SinceBackfill, Kept
  <2> QED BY <1>2, <2>2, <2>3, <2>4, <2>5, Bystanders
<1> QED BY <1>1, <1>2

LEMMA HistoryHolds == Spec => [](TypeOK /\ HistoryInv)
<1>1. Init => TypeOK /\ HistoryInv
  BY InitTypeOK, InitHistory
<1>2. Inv /\ Inv' /\ HistoryInv /\ [Next]_vars => HistoryInv'
  BY StepToken, StepPages, StepBackfill, StepGaps, StepLive DEF Inv, HistoryInv
<1>3. Inv => TypeOK
  BY DEF Inv
<1> QED BY InvHolds, <1>1, <1>2, <1>3, PTL DEF Spec

\* Wherever a start is interrupted and however often it is repeated, the
\* sentinel never stands for a room with a gap that no error response made.
THEOREM SentinelGapsAreErrors == Spec => []GapsOnlyAfterErrors
<1>1. HistoryInv => GapsOnlyAfterErrors
  BY DEF HistoryInv
<1> QED BY HistoryHolds, <1>1, PTL

\* Every live event behind the sync token is stored, about to be, or missing for
\* one of the causes the property names, over any number of crashes and restarts.
THEOREM LossesHaveCauses == Spec => []MissingOnlyForCause
<1>1. HistoryInv => MissingOnlyForCause
  <2> SUFFICES ASSUME HistoryInv, pc \in Live \cup {"dead"},
                      NEW e \in SinceBackfill
      PROVE  e \in rows \cup todo \cup skipped \cup unsaved \cup orphaned
    BY DEF MissingOnlyForCause
  <2>1. complete
    BY DEF HistoryInv, TokenInv, Live
  <2>2. e \in Accounted
    BY <2>1 DEF HistoryInv, LiveInv
  <2> QED BY <2>2 DEF Accounted
<1> QED BY HistoryHolds, <1>1, PTL

\* What the comment in start() says of the sentinel is true as long as the homeserver
\* answers no request of a backfill with an error, whatever crashes, stops and failures
\* of SQLite, Qdrant and the embedding service there are.
THEOREM SentinelIsTrueWithoutErrors ==
  ASSUME MaxFetchErrors = 0
  PROVE  Spec => []SentinelMeansBackfilled
<1> DEFINE NoError == cutShort = {}
<1>1. Init => NoError
  BY DEF Init
<1>2. TypeOK /\ NoError /\ [Next]_vars => NoError'
  <2> SUFFICES ASSUME TypeOK, cutShort = {}, [Next]_vars PROVE cutShort' = {}
    OBVIOUS
  <2> USE DEF disk, flow, indexing, history, budget
  <2>0. ~(fetchErrors < MaxFetchErrors)
    BY DEF TypeOK
  <2>1. CASE InitialSyncError \/ JoinedRoomsError \/ \E r \in Rooms : FetchPageError(r)
    BY <2>0, <2>1 DEF InitialSyncError, JoinedRoomsError, FetchPageError
  <2>2. CASE Start \/ SkipImport \/ ImportKeys \/ RecordImport \/ StartAfresh \/ ResumeFromToken
               \/ ClearSentinel \/ InitialSync \/ IndexTimeline \/ MarkBackfillComplete
               \/ (\E r \in Rooms : FetchPage(r)) \/ BatchUpsert \/ BatchMark
    BY <2>2 DEF Start, SkipImport, ImportKeys, RecordImport, StartAfresh, ResumeFromToken, ClearSentinel,
                InitialSync, IndexTimeline, MarkBackfillComplete, FetchPage, InsertBatch, BatchUpsert, BatchMark
  <2>3. CASE RetryMark \/ GoLive \/ SyncLive \/ CallbacksDone \/ LiveUpsert \/ LiveDispatch \/ LiveMark
               \/ \E e \in Events : RetryUpsert(e) \/ InsertMessage(e)
    BY <2>3 DEF RetryMark, GoLive, SyncLive, CallbacksDone, LiveUpsert, LiveDispatch, LiveMark,
                RetryUpsert, InsertMessage
  <2>4. CASE StartRaises \/ SyncDies \/ BatchFails \/ RetryFails \/ LiveFails \/ Kill \/ Stop
               \/ \E e \in Events : InsertFails(e)
    BY <2>4 DEF StartRaises, SyncDies, BatchFails, RetryFails, LiveFails, Kill, Stop, ProcessEnds, InsertFails
  <2>5. CASE ConfigureBackup \/ UNCHANGED vars \/ \E r \in Rooms : NewEvent(r)
    BY <2>5 DEF ConfigureBackup, vars, NewEvent
  <2> QED
    BY <2>1, <2>2, <2>3, <2>4, <2>5 DEF Next, StartStep, LiveStep, Failure
<1>3. HistoryInv /\ NoError => SentinelMeansBackfilled
  BY DEF HistoryInv, GapsOnlyAfterErrors, SentinelMeansBackfilled
<1> HIDE DEF NoError
<1> QED BY HistoryHolds, <1>1, <1>2, <1>3, PTL DEF Spec

-----------------------------------------------------------------------------
(* The key backup.                                                         *)

\* The sentinel of a backfill made without the keys does not outlast the
\* import: until start() has cleared it the process knows it has imported.
KeysInv ==
  /\ keyMeta => keys
  /\ pc = "record" => keys /\ justImported
  /\ cutShort = {}
  /\ keys /\ complete /\ pc # "record" /\ ~(pc = "decide" /\ justImported) =>
       Window(anchor) \cap Encrypted \subseteq rows

LEMMA InitKeys == Init => KeysInv
BY DEF Init, KeysInv

\* Orderly stops and new events only: each step keeps the keys' account.
LEMMA StepKeys ==
  ASSUME MaxKills = 0, MaxFaults = 0, MaxFetchErrors = 0
  PROVE  TypeOK /\ TokenInv /\ BackfillInv /\ KeysInv /\ [Next]_vars => KeysInv'
<1> SUFFICES ASSUME TypeOK, TokenInv, BackfillInv, KeysInv, [Next]_vars PROVE KeysInv'
  OBVIOUS
<1> USE DEF disk, flow, indexing, history, budget
<1>0. ~Fault /\ ~(fetchErrors < MaxFetchErrors) /\ ~(kills < MaxKills)
  BY DEF Fault, TypeOK
<1>1. CASE Start \/ SkipImport \/ StartAfresh \/ ResumeFromToken
  BY <1>1 DEF Start, SkipImport, StartAfresh, ResumeFromToken, MustClear, KeysInv,
              Window, Kept
<1>2. CASE ImportKeys \/ RecordImport \/ ClearSentinel
  BY <1>0, <1>2 DEF ImportKeys, RecordImport, ClearSentinel, KeysInv, Window, Kept
<1>3. CASE InitialSync
  BY <1>3 DEF InitialSync, TokenInv, KeysInv, Window, Kept
<1>4. CASE MarkBackfillComplete
  <2>1. /\ pc = "mark" /\ anchor' = savedToken /\ pc' = "retry"
        /\ UNCHANGED <<rows, cutShort, keys, keyMeta>>
    BY <1>4 DEF MarkBackfillComplete
  <2>2. ASSUME keys, NEW e \in Window(savedToken) PROVE e \in rows
    <3>1. e[1] \in Rooms /\ e[1] \notin cutShort
      BY EventPair DEF Window, KeysInv
    <3>2. Readable(e)
      BY <2>2 DEF Readable
    <3> QED BY <2>1, <2>2, <3>1, <3>2 DEF BackfillInv
  <2> QED BY <2>1, <2>2 DEF KeysInv, Window, Kept
<1>5. CASE InitialSyncError \/ JoinedRoomsError \/ \E r \in Rooms : FetchPageError(r)
  BY <1>0, <1>5 DEF InitialSyncError, JoinedRoomsError, FetchPageError
<1>6. CASE StartRaises \/ SyncDies \/ BatchFails \/ RetryFails \/ LiveFails \/ Kill
             \/ \E e \in Events : InsertFails(e)
  BY <1>0, <1>6 DEF StartRaises, SyncDies, BatchFails, RetryFails, LiveFails, Kill, InsertFails
<1>7. CASE IndexTimeline \/ \E r \in Rooms : FetchPage(r)
  BY <1>7 DEF IndexTimeline, FetchPage, MayFetch, InsertBatch, KeysInv, Window, Kept
<1>8. CASE BatchUpsert \/ BatchMark
  BY <1>8 DEF BatchUpsert, BatchMark, KeysInv, Window, Kept
<1>9. CASE RetryMark \/ GoLive \/ \E e \in Events : RetryUpsert(e)
  BY <1>9 DEF RetryMark, GoLive, RetryUpsert, KeysInv, Window, Kept
<1>10. CASE SyncLive \/ CallbacksDone
  BY <1>10 DEF SyncLive, CallbacksDone, KeysInv, Window, Kept
<1>11. CASE LiveUpsert \/ LiveDispatch \/ LiveMark
  BY <1>11 DEF LiveUpsert, LiveDispatch, LiveMark, KeysInv, Window, Kept
<1>12. CASE \E e \in Events : InsertMessage(e)
  BY <1>12 DEF InsertMessage, IsNext, KeysInv, Window, Kept
<1>13. CASE Stop
  BY <1>13 DEF Stop, ProcessEnds, TokenInv, KeysInv, Window, Kept
<1>14. CASE ConfigureBackup \/ UNCHANGED vars \/ \E r \in Rooms : NewEvent(r)
  BY <1>14 DEF ConfigureBackup, vars, NewEvent, KeysInv, Window, Kept
<1> QED
  BY <1>1, <1>2, <1>3, <1>4, <1>5, <1>6, <1>7, <1>8, <1>9, <1>10, <1>11, <1>12, <1>13,
     <1>14 DEF Next, StartStep, LiveStep, Failure

\* However often the process is stopped in an orderly way, in the middle of a
\* start too, a live client with an imported key backup has the history those
\* keys decrypt.  Nothing fails and nothing is killed: without that a run
\* shows it false.
THEOREM KeysReachHistory ==
  ASSUME MaxKills = 0, MaxFaults = 0, MaxFetchErrors = 0
  PROVE  Spec => []ImportedKeysReachHistory
<1>1. Init => KeysInv
  BY InitKeys
<1>2. TypeOK /\ HistoryInv /\ KeysInv /\ [Next]_vars => KeysInv'
  BY StepKeys DEF HistoryInv
<1>3. HistoryInv /\ KeysInv => ImportedKeysReachHistory
  BY DEF HistoryInv, TokenInv, KeysInv, ImportedKeysReachHistory, Live
<1> QED BY HistoryHolds, <1>1, <1>2, <1>3, PTL DEF Spec
=============================================================================
