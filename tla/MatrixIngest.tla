----------------------------- MODULE MatrixIngest -----------------------------
(***************************************************************************)
(* nio_mcp/matrix_client.py: how messages get from the homeserver into     *)
(* SQLite (store.py), Qdrant (vector_store.py) and the webhook dispatcher. *)
(*                                                                         *)
(* start() imports the key backup, then either resumes from the stored     *)
(* sync token or makes an initial sync and backfills each room; after that *)
(* sync_forever feeds the live callbacks.  start() ends when it creates    *)
(* the sync task and callbacks run one after the other inside that task,   *)
(* so there is one thread of control; what is concurrent is the homeserver *)
(* (new events), failures, and the end of the process.  Every SQLite write *)
(* commits at once, so every step between two commits or awaits is an      *)
(* action and Kill may separate any two of them.                           *)
(*                                                                         *)
(* The homeserver, nio's client and Qdrant are external: a room's timeline *)
(* is positions 1..head[r], a sync token is a position per room, and a     *)
(* sync response carries at most SyncLimit events per room.  Rooms and     *)
(* member names are not part of this module.                               *)
(*                                                                         *)
(* A definition named Faulty... is a variant with a bug, kept to show that *)
(* some property notices it; the specification uses none of them.          *)
(***************************************************************************)
EXTENDS Integers, FiniteSets

CONSTANTS
  Rooms,         \* joined rooms
  Ignored,       \* IGNORED_ROOMS
  Encrypted,     \* events only the key backup can decrypt
  NoToken,       \* no sync token
  NoEvent,       \* no event is being indexed
  SyncLimit,     \* events per room in one sync response
  PageLimit,     \* BACKFILL_LIMIT
  PagesMax,      \* BACKFILL_PAGES_MAX, 0 = unlimited
  MaxEvents,     \* bound: events per room
  MaxStops,      \* bound: orderly shutdowns
  MaxKills,      \* bound: crashes
  MaxFaults,     \* bound: failed writes, embeddings and upserts, start errors
  MaxFetchErrors \* bound: error responses to sync and room_messages

Events == Rooms \X (1..MaxEvents)
Tokens == [Rooms -> 0..MaxEvents]

ASSUME IngestAssumption ==
  /\ Ignored \subseteq Rooms
  /\ Encrypted \subseteq Events
  /\ NoToken \notin Tokens
  /\ NoEvent \notin Events
  /\ {SyncLimit, PageLimit} \subseteq Nat \ {0}
  /\ {PagesMax, MaxEvents, MaxStops, MaxKills, MaxFaults, MaxFetchErrors} \subseteq Nat

VARIABLES
  \* the homeserver
  head,          \* newest position of each room
  \* on disk
  savedToken,    \* nio's store: the token of the last sync response
  keys,          \* nio's store: the backup's session keys are in it
  keyMeta,       \* meta[_META_KEY_BACKUP] is set
  complete,      \* meta[_META_BACKFILL_COMPLETE] is set
  rows,          \* events in the messages table
  indexed,       \* those with indexed = 1
  points,        \* events that have a point in Qdrant
  \* in the process
  pc,            \* where start() or the sync task is
  backup,        \* MATRIX_KEY_BACKUP_FILE is configured
  justImported,  \* key_just_imported
  since,         \* token the live sync starts from
  timeline,      \* events in the initial sync response
  cursor,        \* rooms left to backfill: position and pages fetched so far
  batch,         \* _batch_index: new records not yet marked
  upserted,      \* those of them already in Qdrant
  todo,          \* events left in _retry_pending_index or in the callbacks
  work,          \* event being indexed by either, or NoEvent
  stage,         \* how far _on_message has come with it
  \* history
  dispatches,    \* how often each event was given to the webhook dispatcher
  anchor,        \* token of the backfill that set the sentinel, NoToken if none did
  cutShort,      \* rooms whose last backfill was ended by an error response
  failedNow,     \* events whose indexing failed since the process started
  skipped,       \* events left out of a sync response by its limit
  unsaved,       \* events whose insert failed
  orphaned,      \* events whose callback had not run when the sync task ended
  stops, kills, faults, fetchErrors

disk == <<savedToken, keys, keyMeta, complete, rows, indexed, points>>
flow == <<justImported, since, timeline, cursor>>
indexing == <<batch, upserted, todo, work, stage>>
history == <<dispatches, anchor, cutShort, failedNow, skipped, unsaved, orphaned>>
budget == <<stops, kills, faults, fetchErrors>>
vars == <<head, backup, pc, disk, flow, indexing, history, budget>>

Starting == {"import", "record", "decide", "sync", "backfill", "mark", "retry"}
Live == {"live", "events"}

Kept(e) == e[1] \notin Ignored
Readable(e) == e \in Encrypted => keys

\* The events of room r from position i to j.
Span(r, i, j) == {r} \X {n \in 1..MaxEvents : i <= n /\ n <= j}

\* The first event of room r in a sync response from position from.
FirstShown(r, from) ==
  IF head[r] - from > SyncLimit THEN head[r] - SyncLimit + 1 ELSE from + 1

Fault == faults < MaxFaults /\ faults' = faults + 1

FaultyPendingWithoutPoint == rows \ points

\* get_pending_messages
Pending == rows \ indexed

Init ==
  /\ head \in [Rooms -> 0..MaxEvents]
  /\ savedToken = NoToken
  /\ keys = FALSE /\ keyMeta = FALSE /\ complete = FALSE
  /\ rows = {} /\ indexed = {} /\ points = {}
  /\ pc = "down"
  /\ backup \in BOOLEAN
  /\ justImported = FALSE
  /\ since = NoToken
  /\ timeline = {}
  /\ cursor = [r \in {} |-> 0]
  /\ batch = {} /\ upserted = {} /\ todo = {} /\ work = NoEvent /\ stage = "insert"
  /\ dispatches = [e \in Events |-> 0]
  /\ anchor = NoToken
  /\ cutShort = {} /\ failedNow = {} /\ skipped = {} /\ unsaved = {} /\ orphaned = {}
  /\ stops = 0 /\ kills = 0 /\ faults = 0 /\ fetchErrors = 0

-----------------------------------------------------------------------------
(* The environment *)

NewEvent(r) ==
  /\ head[r] < MaxEvents
  /\ head' = [head EXCEPT ![r] = @ + 1]
  /\ UNCHANGED <<backup, pc, disk, flow, indexing, history, budget>>

\* The operator adds the key backup file between two runs.
ConfigureBackup ==
  /\ pc = "down" /\ ~backup
  /\ backup' = TRUE
  /\ UNCHANGED <<head, pc, disk, flow, indexing, history, budget>>

-----------------------------------------------------------------------------
(* start(): the key backup and the choice of path *)

Start ==
  /\ pc = "down"
  /\ pc' = "import"
  /\ since' = savedToken
  /\ failedNow' = {}
  /\ UNCHANGED <<head, backup, disk, justImported, timeline, cursor, indexing, budget,
                 dispatches, anchor, cutShort, skipped, unsaved, orphaned>>

SkipImport ==
  /\ pc = "import"
  /\ ~backup \/ keyMeta
  /\ justImported' = FALSE
  /\ pc' = "decide"
  /\ UNCHANGED <<head, backup, disk, since, timeline, cursor, indexing, history, budget>>

ImportKeys ==
  /\ pc = "import"
  /\ backup /\ ~keyMeta
  /\ keys' = TRUE
  /\ justImported' = TRUE
  /\ pc' = "record"
  /\ UNCHANGED <<head, backup, savedToken, keyMeta, complete, rows, indexed, points,
                 since, timeline, cursor, indexing, history, budget>>

\* The sentinel of the import; a failure to write it is only logged.
RecordImport ==
  /\ pc = "record"
  /\ \/ keyMeta' = TRUE /\ UNCHANGED faults
     \/ Fault /\ UNCHANGED keyMeta
  /\ pc' = "decide"
  /\ UNCHANGED <<head, backup, savedToken, keys, complete, rows, indexed, points,
                 flow, indexing, history, stops, kills, fetchErrors>>

FaultyMustClear == FALSE

\* A first import invalidates the backfill made without the keys.
MustClear == justImported /\ complete

ClearSentinel ==
  /\ pc = "decide"
  /\ MustClear
  /\ complete' = FALSE
  /\ UNCHANGED <<head, backup, pc, savedToken, keys, keyMeta, rows, indexed, points,
                 flow, indexing, history, budget>>

\* Restart: messages left with indexed = 0 are retried before live sync.
ResumeFromToken ==
  /\ pc = "decide"
  /\ ~MustClear /\ since # NoToken /\ complete
  /\ todo' = Pending
  /\ pc' = "retry"
  /\ UNCHANGED <<head, backup, disk, flow, batch, upserted, work, stage, history, budget>>

StartAfresh ==
  /\ pc = "decide"
  /\ ~MustClear /\ ~(since # NoToken /\ complete)
  /\ pc' = "sync"
  /\ UNCHANGED <<head, backup, disk, flow, indexing, history, budget>>

\* Whatever raises in start() outside a try ends it; the server answers
\* /health with 503 until it is restarted.
StartRaises ==
  /\ pc \in {"import", "decide", "sync", "backfill", "mark"} /\ batch = {}
  /\ Fault
  /\ pc' = "failed"
  /\ UNCHANGED <<head, backup, disk, flow, indexing, history, stops, kills, fetchErrors>>

-----------------------------------------------------------------------------
(* start(): initial sync and backfill *)

\* nio stores the token of the response before it returns it.
InitialSync ==
  /\ pc = "sync"
  /\ savedToken' = head
  /\ since' = head
  /\ timeline' = UNION {Span(r, FirstShown(r, 0), head[r]) : r \in Rooms}
  /\ cursor' = [r \in Rooms \ Ignored |-> [at |-> FirstShown(r, 0) - 1, pages |-> 0]]
  /\ pc' = "backfill"
  /\ cutShort' = {}
  /\ UNCHANGED <<head, backup, keys, keyMeta, complete, rows, indexed, points,
                 justImported, indexing, budget, dispatches, anchor, failedNow, skipped,
                 unsaved, orphaned>>

\* An error response has no rooms and no next_batch: nothing is backfilled.
InitialSyncError ==
  /\ pc = "sync"
  /\ fetchErrors < MaxFetchErrors /\ fetchErrors' = fetchErrors + 1
  /\ since' = NoToken
  /\ timeline' = {}
  /\ cursor' = [r \in {} |-> 0]
  /\ pc' = "backfill"
  /\ cutShort' = Rooms
  /\ UNCHANGED <<head, backup, disk, justImported, indexing, stops, kills, faults,
                 dispatches, anchor, failedNow, skipped,
                 unsaved, orphaned>>

\* insert_messages_batch: the new ones become the batch to index.
InsertBatch(records) ==
  /\ rows' = rows \cup records
  /\ batch' = records \ rows
  /\ upserted' = {}

\* Rooms are backfilled one after the other.
MayFetch(r) ==
  /\ pc = "backfill" /\ batch = {}
  /\ r \in DOMAIN cursor
  /\ \A q \in DOMAIN cursor \ {r} : cursor[q].pages = 0

FaultyLeaveAll(r) == cursor' = [q \in {} |-> 0]
FaultyLeaveNone(r) == UNCHANGED cursor

Leave(r) == cursor' = [q \in DOMAIN cursor \ {r} |-> cursor[q]]

FaultyLastPage(at, pages) == pages = PagesMax

\* No end token, or the page cap is reached.
LastPage(at, pages) == at <= PageLimit \/ pages = PagesMax

FetchPage(r) ==
  /\ MayFetch(r)
  /\ LET at == cursor[r].at
         pages == cursor[r].pages + 1
     IN /\ InsertBatch({e \in Span(r, at - PageLimit + 1, at) : Readable(e)})
        /\ IF LastPage(at, pages)
           THEN Leave(r)
           ELSE cursor' = [cursor EXCEPT ![r] = [at |-> at - PageLimit, pages |-> pages]]
  /\ UNCHANGED <<head, backup, pc, savedToken, keys, keyMeta, complete, indexed, points,
                 justImported, since, timeline, todo, work, stage, history, budget>>

\* An error response to joined_rooms names no room: none is backfilled.
JoinedRoomsError ==
  /\ pc = "backfill" /\ batch = {}
  /\ cursor # [r \in {} |-> 0]
  /\ DOMAIN cursor = Rooms \ Ignored /\ \A r \in DOMAIN cursor : cursor[r].pages = 0
  /\ fetchErrors < MaxFetchErrors /\ fetchErrors' = fetchErrors + 1
  /\ cursor' = [r \in {} |-> 0]
  /\ cutShort' = Rooms
  /\ UNCHANGED <<head, backup, pc, disk, justImported, since, timeline, indexing,
                 stops, kills, faults, dispatches, anchor, failedNow, skipped,
                 unsaved, orphaned>>

\* An error response ends the backfill of the room.
FetchPageError(r) ==
  /\ MayFetch(r)
  /\ fetchErrors < MaxFetchErrors /\ fetchErrors' = fetchErrors + 1
  /\ Leave(r)
  /\ cutShort' = cutShort \cup {r}
  /\ UNCHANGED <<head, backup, pc, disk, justImported, since, timeline, indexing,
                 stops, kills, faults, dispatches, anchor, failedNow, skipped,
                 unsaved, orphaned>>

IndexTimeline ==
  /\ pc = "backfill" /\ batch = {}
  /\ cursor = [r \in {} |-> 0]
  /\ InsertBatch({e \in timeline : Kept(e) /\ Readable(e)})
  /\ pc' = "mark"
  /\ UNCHANGED <<head, backup, savedToken, keys, keyMeta, complete, indexed, points,
                 flow, todo, work, stage, history, budget>>

\* The sentinel, then the snapshot of what is to be retried.
MarkBackfillComplete ==
  /\ pc = "mark" /\ batch = {}
  /\ complete' = TRUE
  /\ anchor' = savedToken
  /\ todo' = Pending
  /\ pc' = "retry"
  /\ UNCHANGED <<head, backup, savedToken, keys, keyMeta, rows, indexed, points, flow,
                 batch, upserted, work, stage, budget,
                 dispatches, cutShort, failedNow, skipped, unsaved, orphaned>>

-----------------------------------------------------------------------------
(* _batch_index after its insert *)

BatchUpsert ==
  /\ batch # {}
  /\ \E e \in batch \ upserted :
       /\ points' = points \cup {e}
       /\ upserted' = upserted \cup {e}
  /\ UNCHANGED <<head, backup, pc, savedToken, keys, keyMeta, complete, rows, indexed,
                 flow, batch, todo, work, stage, history, budget>>

FaultyUploaded == batch # {}

Uploaded == batch # {} /\ upserted = batch

BatchMark ==
  /\ Uploaded
  /\ indexed' = indexed \cup batch
  /\ batch' = {} /\ upserted' = {}
  /\ UNCHANGED <<head, backup, pc, savedToken, keys, keyMeta, complete, rows, points,
                 flow, todo, work, stage, history, budget>>

\* An embedding, an upsert or the final update fails: logged, nothing is marked.
BatchFails ==
  /\ batch # {}
  /\ Fault
  /\ batch' = {} /\ upserted' = {}
  /\ UNCHANGED <<head, backup, pc, disk, flow, todo, work, stage, history,
                 stops, kills, fetchErrors>>

-----------------------------------------------------------------------------
(* _retry_pending_index *)

RetryUpsert(e) ==
  /\ pc = "retry" /\ work = NoEvent
  /\ e \in todo
  /\ points' = points \cup {e}
  /\ work' = e
  /\ todo' = todo \ {e}
  /\ UNCHANGED <<head, backup, pc, savedToken, keys, keyMeta, complete, rows, indexed,
                 flow, batch, upserted, stage, history, budget>>

FaultyRetryMark ==
  /\ pc = "retry" /\ work # NoEvent
  /\ indexed' = indexed \cup {work}
  /\ dispatches' = [dispatches EXCEPT ![work] = @ + 1]
  /\ work' = NoEvent
  /\ UNCHANGED <<head, backup, pc, savedToken, keys, keyMeta, complete, rows, points, flow,
                 batch, upserted, todo, stage, anchor, cutShort, failedNow, skipped, unsaved,
                 orphaned, budget>>

RetryMark ==
  /\ pc = "retry" /\ work # NoEvent
  /\ indexed' = indexed \cup {work}
  /\ work' = NoEvent
  /\ UNCHANGED <<head, backup, pc, savedToken, keys, keyMeta, complete, rows, points,
                 flow, batch, upserted, todo, stage, history, budget>>

\* Embedding or upsert fails (the event is left), or the final update does.
RetryFails ==
  /\ pc = "retry"
  /\ Fault
  /\ \E e \in IF work = NoEvent THEN todo ELSE {work} :
       /\ failedNow' = failedNow \cup {e}
       /\ todo' = todo \ {e}
  /\ work' = NoEvent
  /\ UNCHANGED <<head, backup, pc, disk, flow, batch, upserted, stage, stops, kills,
                 fetchErrors, dispatches, anchor, cutShort, skipped, unsaved, orphaned>>

FaultyGoLive ==
  /\ pc = "retry" /\ todo = {} /\ work = NoEvent /\ since # NoToken
  /\ pc' = "live"
  /\ since' = head
  /\ UNCHANGED <<head, backup, disk, justImported, timeline, cursor, indexing, history, budget>>

\* Live sync starts; after an error response reading next_batch raises instead.
GoLive ==
  /\ pc = "retry" /\ todo = {} /\ work = NoEvent
  /\ pc' = IF since = NoToken THEN "failed" ELSE "live"
  /\ UNCHANGED <<head, backup, disk, flow, indexing, history, budget>>

-----------------------------------------------------------------------------
(* sync_forever and _on_message *)

\* nio stores the new token, then runs the callbacks for the events it got.
SyncLive ==
  /\ pc = "live"
  /\ head # since
  /\ savedToken' = head
  /\ since' = head
  /\ todo' = {e \in UNION {Span(r, FirstShown(r, since[r]), head[r]) : r \in Rooms} :
                Kept(e) /\ Readable(e)}
  /\ skipped' = skipped \cup
       UNION {Span(r, since[r] + 1, FirstShown(r, since[r]) - 1) : r \in Rooms}
  /\ pc' = "events"
  /\ stage' = "insert"
  /\ UNCHANGED <<head, backup, keys, keyMeta, complete, rows, indexed, points,
                 justImported, timeline, cursor, batch, upserted, work, budget,
                 dispatches, anchor, cutShort, failedNow, unsaved, orphaned>>

\* Callbacks run in timeline order.
IsNext(e) ==
  /\ pc = "events" /\ work = NoEvent
  /\ e \in todo
  /\ \A f \in todo : f[1] = e[1] => f[2] >= e[2]

InsertMessage(e) ==
  /\ IsNext(e)
  /\ rows' = rows \cup {e}
  /\ todo' = todo \ {e}
  /\ work' = IF e \in rows THEN NoEvent ELSE e
  /\ stage' = IF e \in rows THEN "insert" ELSE "index"
  /\ UNCHANGED <<head, backup, pc, savedToken, keys, keyMeta, complete, indexed, points,
                 flow, batch, upserted, history, budget>>

InsertFails(e) ==
  /\ IsNext(e)
  /\ Fault
  /\ todo' = todo \ {e}
  /\ unsaved' = unsaved \cup {e}
  /\ UNCHANGED <<head, backup, pc, disk, flow, batch, upserted, work, stage,
                 dispatches, anchor, cutShort, failedNow, skipped, orphaned, stops,
                 kills, fetchErrors>>

LiveUpsert ==
  /\ stage = "index"
  /\ points' = points \cup {work}
  /\ stage' = "dispatch"
  /\ UNCHANGED <<head, backup, pc, savedToken, keys, keyMeta, complete, rows, indexed,
                 flow, batch, upserted, todo, work, history, budget>>

LiveDispatch ==
  /\ stage = "dispatch"
  /\ dispatches' = [dispatches EXCEPT ![work] = @ + 1]
  /\ stage' = "mark"
  /\ UNCHANGED <<head, backup, pc, disk, flow, batch, upserted, todo, work, budget,
                 anchor, cutShort, failedNow, skipped, unsaved, orphaned>>

LiveMark ==
  /\ stage = "mark"
  /\ indexed' = indexed \cup {work}
  /\ work' = NoEvent
  /\ stage' = "insert"
  /\ UNCHANGED <<head, backup, pc, savedToken, keys, keyMeta, complete, rows, points,
                 flow, batch, upserted, todo, history, budget>>

\* Embedding, upsert or the final update fails: the row stays indexed = 0.
LiveFails ==
  /\ stage \in {"index", "mark"}
  /\ Fault
  /\ failedNow' = failedNow \cup {work}
  /\ work' = NoEvent
  /\ stage' = "insert"
  /\ UNCHANGED <<head, backup, pc, disk, flow, batch, upserted, todo,
                 dispatches, anchor, cutShort, skipped, unsaved, orphaned, stops, kills,
                 fetchErrors>>

CallbacksDone ==
  /\ pc = "events" /\ todo = {} /\ work = NoEvent
  /\ pc' = "live"
  /\ UNCHANGED <<head, backup, disk, flow, indexing, history, budget>>

\* A callback that does not catch its exceptions (a room or member event
\* whose write fails) ends sync_forever.  Nothing restarts it.
SyncDies ==
  /\ pc = "events" /\ work = NoEvent
  /\ Fault
  /\ pc' = "dead"
  /\ todo' = {}
  /\ orphaned' = orphaned \cup todo
  /\ UNCHANGED <<head, backup, disk, flow, batch, upserted, work, stage,
                 dispatches, anchor, cutShort, failedNow, skipped, unsaved, stops,
                 kills, fetchErrors>>

-----------------------------------------------------------------------------
(* The end of the process *)

ProcessEnds ==
  /\ pc' = "down"
  /\ justImported' = FALSE
  /\ since' = NoToken
  /\ timeline' = {}
  /\ cursor' = [r \in {} |-> 0]
  /\ batch' = {} /\ upserted' = {} /\ todo' = {} /\ work' = NoEvent /\ stage' = "insert"

\* stop(): sync_forever ends after its callbacks; a start() still running is
\* cancelled, which takes effect at an await.
Stop ==
  /\ pc \in {"import", "sync", "backfill", "retry", "live", "failed", "dead"} \/ batch # {}
  /\ stops < MaxStops /\ stops' = stops + 1
  /\ ProcessEnds
  /\ UNCHANGED <<head, backup, disk, history, kills, faults, fetchErrors>>

\* A crash, or the hard cancel of a sync task that has not ended after 35 s.
Kill ==
  /\ pc # "down"
  /\ kills < MaxKills /\ kills' = kills + 1
  /\ ProcessEnds
  /\ orphaned' = IF pc = "events" THEN orphaned \cup todo ELSE orphaned
  /\ UNCHANGED <<head, backup, disk, dispatches, anchor, cutShort, failedNow, skipped, unsaved,
                 stops, faults, fetchErrors>>

StartStep ==
  \/ SkipImport \/ ImportKeys \/ RecordImport \/ ClearSentinel
  \/ ResumeFromToken \/ StartAfresh \/ InitialSync
  \/ \E r \in Rooms : FetchPage(r)
  \/ IndexTimeline \/ MarkBackfillComplete
  \/ BatchUpsert \/ BatchMark
  \/ \E e \in Events : RetryUpsert(e)
  \/ RetryMark \/ GoLive

LiveStep ==
  \/ SyncLive \/ CallbacksDone
  \/ \E e \in Events : InsertMessage(e)
  \/ LiveUpsert \/ LiveDispatch \/ LiveMark

Failure ==
  \/ StartRaises \/ SyncDies \/ InitialSyncError \/ JoinedRoomsError
  \/ BatchFails \/ RetryFails \/ LiveFails
  \/ \E r \in Rooms : FetchPageError(r)
  \/ \E e \in Events : InsertFails(e)

Next ==
  \/ \E r \in Rooms : NewEvent(r)
  \/ ConfigureBackup
  \/ Start
  \/ StartStep
  \/ LiveStep
  \/ Failure
  \/ Stop
  \/ Kill

\* The process keeps running its own code; failures, new events, stops and
\* restarts are never promised.
Spec == Init /\ [][Next]_vars /\ WF_vars(StartStep) /\ WF_vars(LiveStep)

-----------------------------------------------------------------------------
(* Properties *)

Positions == [at : 0..MaxEvents, pages : Nat]

TypeOK ==
  /\ head \in Tokens
  /\ savedToken \in Tokens \cup {NoToken}
  /\ {keys, keyMeta, complete, backup, justImported} \subseteq BOOLEAN
  /\ rows \subseteq Events /\ indexed \subseteq Events /\ points \subseteq Events
  /\ pc \in Starting \cup Live \cup {"down", "failed", "dead"}
  /\ since \in Tokens \cup {NoToken}
  /\ timeline \subseteq Events
  /\ DOMAIN cursor \subseteq Rooms /\ \A r \in DOMAIN cursor : cursor[r] \in Positions
  /\ batch \subseteq Events /\ upserted \subseteq batch /\ todo \subseteq Events
  /\ work \in Events \cup {NoEvent}
  /\ stage \in {"insert", "index", "dispatch", "mark"}
  /\ dispatches \in [Events -> Nat]
  /\ anchor \in Tokens \cup {NoToken}
  /\ cutShort \subseteq Rooms
  /\ failedNow \subseteq Events /\ skipped \subseteq Events
  /\ unsaved \subseteq Events /\ orphaned \subseteq Events
  /\ {stops, kills, faults, fetchErrors} \subseteq Nat

\* SQLite never claims more than Qdrant has, and Qdrant nothing SQLite does not
\* know: through failed batches, retries and crashes, indexed = 1 implies a
\* point, and a point implies a row ("Persist before indexing").
StoresAgree == indexed \subseteq points /\ points \subseteq rows

\* Once live, a message still at indexed = 0 is one whose indexing failed in
\* this very process or is under way: everything an earlier process left
\* behind, and every failed backfill batch, has been retried by start().
NothingLeftUnretried ==
  pc \in Live => rows \ indexed \subseteq failedNow \cup {work}

\* An event reaches the webhook dispatcher at most once, over any number of
\* restarts and retries, and only after the upsert of its point has returned.
DispatchedOnceAndSearchable ==
  \A e \in Events : dispatches[e] <= 1 /\ (dispatches[e] = 1 => e \in points)

\* The part of a room's history a backfill anchored at token t can reach.
\* A sentinel set after an initial sync that failed has no anchor.
Window(t) ==
  {e \in Events : /\ t # NoToken /\ Kept(e) /\ e[2] <= t[e[1]]
                  /\ PagesMax # 0 => e[2] > t[e[1]] - SyncLimit - PagesMax * PageLimit}

\* The sentinel is only present when the history before its anchor is stored
\* ("The sentinel is written only after both phases complete").
SentinelMeansBackfilled ==
  complete => Window(anchor) \ Encrypted \subseteq rows

\* Whatever a crash, a failure or a new start does in between, the history of a
\* room behind the sentinel is complete unless an error response ended the very
\* backfill the sentinel stands for.
GapsOnlyAfterErrors ==
  complete => \A e \in Window(anchor) \ Encrypted : e \in rows \/ e[1] \in cutShort

\* Once the import of the key backup is recorded and the client is live, the
\* history those keys decrypt is stored as well.
ImportedKeysReachHistory ==
  (pc \in Live /\ keyMeta) => Window(anchor) \cap Encrypted \subseteq rows

\* The events a live client has been shown or has skipped since its backfill.
SinceBackfill ==
  {e \in Events \ Encrypted : /\ anchor # NoToken /\ Kept(e)
                               /\ anchor[e[1]] < e[2] /\ e[2] <= savedToken[e[1]]}

\* A live event behind the sync token is stored, is about to be, or is missing
\* for one of three reasons: the sync response was limited, its insert failed,
\* or the sync task ended (a kill, a raising callback) before its callback ran.
MissingOnlyForCause ==
  pc \in Live \cup {"dead"} =>
    SinceBackfill \subseteq rows \cup todo \cup skipped \cup unsaved \cup orphaned

\* start() always comes to an end: live, failed with an error, or stopped.
StartSettles == pc \in Starting ~> pc \in Live \cup {"failed", "down"}
=============================================================================
