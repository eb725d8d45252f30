# nio-mcp in TLA+

nio-mcp is one asyncio process that follows a Matrix account, keeps its messages in
SQLite and Qdrant, offers them to MCP clients as search and context tools, and hands new
messages to SSE clients and, in debounced batches, to an LLM.  This directory holds TLA+
modules of the parts with state and concurrency, TLC configurations that check them, and
TLAPS proofs.

Paths below are relative to `src/nio_mcp/` unless they say otherwise.  To check a run:
`tlc -config MCIngest.cfg MCMatrixIngest.tla`; to check proofs:
`tlapm MatrixIngestProofs.tla`.

## 1. Inventory

| Component | Code | State it keeps | Operations | Status |
|---|---|---|---|---|
| Webhook batching | `webhook.py` | `_pending_records`, `_batch_started_at`, `_cooldown_task`, `_delivery_tasks` | `dispatch`, `_cooldown_fire`, `_schedule_delivery`, `_deliver`, `close` | modelled |
| SSE fan-out | `webhook.py`, `server.py` | one bounded `asyncio.Queue` per connection | `subscribe`, `unsubscribe`, the put in `dispatch`, the generator | modelled |
| Matrix ingest | `matrix_client.py` | nio's sync token, the sentinels in `meta`, the `messages` rows and their `indexed` flag, Qdrant points | `start`, `_backfill`, `_index_initial_sync`, `_batch_index`, `_retry_pending_index`, `_on_message`, `stop` | partly |
| Key backup import | `matrix_client.py` | nio's key store, a fingerprint in `meta` | `_import_key_backup` | partly |
| Sender names | `migrations.py`, `matrix_client.py`, `scripts/reconcile_sender_names.py` | `members`, `messages.sender_name`, Qdrant's payload, nio's `room.users` | `apply_sender_name`, `reconcile_sender_names`, `_on_room_member` | modelled |
| Rooms and members | `matrix_client.py`, `store.py` | `rooms`, `members`, nio's room objects | `_on_room_name`, `_on_room_member`, `_populate_rooms_from_sync`, `_restore_rooms_to_client`, `get_room_info` | partly |
| Message store | `store.py` | the SQLite file | inserts, marks, queries | partly |
| Vector store writes | `vector_store.py` | the collection and its indexes | `init_collection`, `upsert`, `update_sender_name` | modelled |
| Vector store search | `vector_store.py` | none; a call's filters and results | `_candidate_filters`, `_build_filter`, `_merge_searches`, `_merge_scrolls` | modelled |
| Embeddings | `embeddings.py` | a call's attempt and delay | `embed`, `embed_batch` with the retry loop | partly |
| LLM callback client | `llm_callback.py` | `_http`; per call a deadline | `run`, `_wait_for_tasks`, `close` | modelled |
| Lifespan and health | `server.py`, `matrix_client.py` | start task and its error, sync task, open resources | `lifespan`, `_start_matrix_client`, `stop`, `/health` | modelled |
| Message context, sending | `matrix_client.py` | none | `get_message_context`, `_paginate_for_context`, `send_message` | modelled |
| MCP tools | `server.py` | none | `call_tool` | partly |
| HTTP transport, bearer check | `server.py` | the MCP library's sessions | | not modelled |
| Settings, records | `config.py`, `models.py` | constants | validators | as assumptions |

How they interact.  `server.lifespan` creates the collection, the dispatcher and the
client, and runs `MatrixMCPClient.start()` in a task of its own so that a long backfill
does not delay `/health`.  `start()` and the `sync_forever` task it leaves behind write
SQLite (synchronously), then await the embedding service and Qdrant, then call
`WebhookDispatcher.dispatch()` for live messages only.  `dispatch()` puts the record in
every SSE queue and re-arms the batching timer; the timer's task calls the LLM client.
Member callbacks and start-up reconciliation rewrite names in Qdrant and SQLite, and the
script does the same from a second process.  Tool calls read the collection and the
homeserver beside all of it.  At the end the start task is cancelled, `stop()` ends the
sync task and closes the store and the client, then Qdrant and the dispatcher are closed.

What is hard, and what makes each component correct:

* **Webhook batching.**  `task.cancel()` takes effect only when the task is next
  resumed, so a timer that has fired, a dispatch that re-arms it and a delivery can
  meet in any order.  Records must be handed over once, in order, in batches of at most
  50, not before the cooldown and not after the maximum age; a cancellation must never
  reach a task that already holds records, and `close()` must leave no timer behind.
* **SSE.**  A slow client must lose its oldest records and nothing else.
* **Ingest.**  Two stores and nio's token are written without a common transaction; the
  process may die between any two writes and each await may raise.  SQLite must not
  claim what Qdrant has not got, what is left unindexed must be retried, nothing may be
  dispatched twice, the sentinel must mean what its comment says, and a live message
  must not vanish without one of the known reasons.
* **Keys.**  A key file added later must make the history it decrypts searchable.
* **Names.**  Four copies of a name, two of them on different servers, written one after
  the other, by two processes.  They must agree once the client is live, the difference
  that an interrupted write leaves must be found by a later pass, and a real name must
  not fall back to the localpart.
* **Rooms and members.**  Callbacks see only part of what changes a room, a restart
  rebuilds nio's rooms from the tables, and a full sync adds members and removes none.
  The roster, the name and what `send_message` needs must be the homeserver's, but for
  the reasons known.
* **LLM callback.**  The agent works beside the client, for minutes.  Its message must
  not be taken before it has ended, a wait must end near its deadline, and an agent that
  finished in time must not be given up.
* **Search.**  One call asks up to four filters, each with the same limit, of a
  collection that is written meanwhile.  The cut of one answer must not hide a match of
  another, and what is returned must be what was asked for, in order.
* **Embeddings.**  Attempts, doubling delays and the last error of a rate-limited call.
* **Context.**  The sides of a context are pieced together from up to three requests to
  a room that grows.
* **Lifespan.**  Shutdown meets a start task, a sync task and tool calls at any moment.
  Nothing may be closed under a task that uses it, callbacks must be given their grace
  time, and the shutdown must end.

The `hazards` in `PROJECT.json` name the line where each of these bites and the
properties that watch it.

## 2. Modules

| Module | What it is |
|---|---|
| `OrderedHandoff` | Abstract: records are accepted one at a time and handed over in order, 1..BatchMax at once, never after closing |
| `WebhookDispatcher` | The dispatcher with its tasks, timers, cancellation and SSE queues; implements `OrderedHandoff` |
| `WebhookDispatcherProofs` | Theorems about it |
| `LlmCallback` | One call of the OpenWebUI client beside the agent it waits for |
| `LlmCallbackProofs` | Theorems about it |
| `MatrixIngest` | `start()`, backfill, retry, live sync, failures, crash and restart, with SQLite, Qdrant and the homeserver |
| `MCMatrixIngest` | Definitions for its configurations |
| `MatrixIngestProofs` | Theorems about it |
| `SenderNames` | Display names in nio, the roster, SQLite and Qdrant; server and script |
| `MCSenderNames` | Definitions for its configurations |
| `SenderNamesProofs` | Theorems about it |
| `RoomRoster` | A room's name, members and encryption in nio, in the tables and on the homeserver |
| `MCRoomRoster` | Symmetry for its configuration |
| `RoomRosterProofs` | Theorems about it |
| `ServerLifecycle` | The lifespan of the server, its tasks and resources, `stop()` |
| `ServerLifecycleProofs` | Theorems about it |
| `EmbeddingClient` | One call of `embed` with its retry loop |
| `EmbeddingClientProofs` | Theorems about it |
| `SearchMessages` | One call of `search_messages`; composes `EmbeddingClient` with the filters and merges of the vector store |
| `MessageContext` | One call of `get_message_context` |
| `ToolCalls` | `call_tool`: composes `SearchMessages` and `MessageContext` |
| `MCToolCalls` | The messages, names and arguments of its configuration |
| `ToolCallsProofs` | Theorems about it and the two calls it composes |

Definitions named `Faulty...` are variants with a plausible bug (a dropped guard, an
off-by-one, a missing reset).  No specification uses them; putting one in place of the
definition it follows shows that the named property notices such a bug.

### WebhookDispatcher

The whole program runs on one event loop, so an action is the code between two awaits.

| Code | Model |
|---|---|
| `_pending_records` | `pending` |
| `_batch_started_at` | `batchAge`, the time since then, or `Unset` |
| `_cooldown_task` | `cooldownTask`, the number of a task |
| an asyncio task and its local `batch` | an element of `tasks`: `pc`, time left to sleep, cancelled or not, batch |
| `_delivery_tasks` | the tasks with `tracked` |
| `_subscribers` | `queues` |
| `dispatch` without / with LLM, batch not full / full | `DispatchEventOnly`, `DispatchRearm`, `DispatchFull` |
| `_cooldown_fire` before and after its sleep | `CooldownSleep`, `CooldownFire` |
| `_schedule_delivery`, `_deliver` | `StartDelivery`, `EndCall` |
| `CancelledError` in a task | `Unwind` |
| `close` | `Close` |

A record has its arrival number, and the task that its dispatch creates has the same
number.  The history variables are `sent`, `quiet` (time since the last dispatch) and
`streamed`.

Idealisations.  `Tick` is one unit of time and happens only when the loop has nothing to
resume: the loop is prompt compared to the unit (seconds or more in the settings).
New tasks are started in the order they were created (`IsTurn`; asyncio's `call_soon`).
A full queue's get-and-put is one step because there is no await in it.  The LLM call
may take any time, for ever included.  The reconnection of an SSE client is a new
`Subscribe`.

### LlmCallback

What `EndCall` of `WebhookDispatcher` stands for: `returned` is a delivered batch,
`raised` a failed one.

| Code | Model |
|---|---|
| the `await` that `run` is at | `pc` (a request, or `sleep` between polls) |
| `session_id` in the request options | `async` |
| `_http` | `open` |
| the request under way | `request` (sent, or acted on by OpenWebUI), `answer`, `waited` |
| `deadline - loop.time()` | `Timeout - elapsed` |
| OpenWebUI's agent for the chat | `agent`, and `agentEnd` as history |

A request is acted on at some moment between its sending and its reply, so an answer may
be stale when it is handled.  Requests other than the completion take at most `Latency`.
The completion without a session is a stream: each part (`Chunk`) restarts the read
timeout, as httpx does.  A reply to it is complete when the agent has ended.  That an
agent with no task left has written its message is assumed of OpenWebUI.  The dispatcher
may have several calls under way; they share only `_http`.

### MatrixIngest

| Code | Model |
|---|---|
| nio's stored token, the `since` of `sync_forever` | `savedToken`, `since` (a position per room) |
| `meta` rows | `keyMeta`, `complete` |
| `messages` and `indexed = 1` | `rows`, `indexed` |
| Qdrant's points | `points` |
| position in `_backfill_room`'s loop | `cursor` (rooms not finished, position, pages fetched) |
| `_batch_index`'s `new_records` | `batch`, `upserted` |
| `_retry_pending_index`'s loop, the callbacks of one response | `todo`, `work`, `stage` |
| how far `start()` is | `pc` |

There is one thread of control: `start()` ends when it creates the sync task, and nio
awaits callbacks one after the other.  Actions are cut at every await and every SQLite
commit, so that `Kill` and the failures can fall between any two of them.  `Stop` is
`stop()`: it lets the current response's callbacks finish, or cancels a `start()` at an
await.  `Kill` is a crash, and also the hard cancel of a sync task that has not ended
after 35 seconds.  Failures: `BatchFails`, `RetryFails`, `LiveFails`, `InsertFails`
(embedding, Qdrant or SQLite raises where the code catches it), `StartRaises` (anything
`start()` does not catch), `SyncDies` (a room or member callback raises),
`InitialSyncError`, `JoinedRoomsError`, `FetchPageError` (error responses), and the
caught failure inside `RecordImport`.

The homeserver is external: a timeline per room that only grows, sync responses with at
most `SyncLimit` of the newest events per room, pages of at most `PageLimit`.  Qdrant is
external: `upsert` uses `wait=False` and is taken as applied, in order, once it returns;
an upsert that is applied and reported as failed is left out (it would add a point
whose row is still unindexed, which the retry writes again).  Event ids are unique; the
same event may be delivered by backfill, the initial timeline and live sync, and
`InsertBatch` and `InsertMessage` deduplicate as `INSERT OR IGNORE` does.  Undecryptable
events are those in `Encrypted` while `keys` is false.

History variables: `anchor` is the token of the backfill that set the sentinel, `NoToken`
when none did (an initial sync that failed leaves the backfill nothing to start from, and
`start()` sets the sentinel all the same); `cutShort`, `failedNow`, `skipped`, `unsaved` and
`orphaned` are the causes the properties name.

### SenderNames

| Code | Model |
|---|---|
| `members.display_name` | `roster` |
| `messages.sender_name`, `indexed = 0` | `row`, `unindexed` |
| Qdrant's payload | `point` |
| nio's `room.users` | `users` |
| the record being indexed | `record`, `stage` |
| the list `reconcile_sender_names` iterates | `fixes` per process |
| the call of `apply_sender_name` under way | `fix`, `step` per process (count, Qdrant, SQLite) |

The history variables are `torn`, the members for whom a rename was cut after Qdrant and
before SQLite, `failed`, those whose rename failed since the server started, and `unheard`,
those whose name nio took from the state section of a limited response (`ReceiveAsState`)
and of whom no callback has heard since: nio applies such an event to `room.users`, the
roster keeps what it had, and `_on_message` stores nio's name with new messages.
The server does one thing at a time (`AtRest`); the script is the second process and may
be run never, only while the server is down, or beside it (`Script`).  `Failures` says
what may go wrong in a run.

Idealisations.  A batch of new records is indexed one record at a time.  The full-state
sync and the roster writes after it are one step (no await between them).  A crash
leaves no Qdrant request in flight.  Qdrant carries out writes in the order they were
sent.  Only members of a room write in its live timeline (`MayWrite`): those in nio's
list, whatever the roster says of them, and those in neither list, whose join was lost.
A join without a name gives the roster the localpart, while nio keeps a name it may have
from an earlier event or from an invite; it may therefore be any.  Invites are not steps
of their own here: an invited user does not write before the join, and the join decides
what the roster has.  The callback reads `display_name` from the event with `getattr`; if
nio's event has no such attribute, every join is one without a name, which is among the
behaviours.  A failing query of SQLite ends the rename at hand (`CountFails`) or the
server's reconciliation (`ReconcileFails`); in the script it ends the process, as if it had
not been run.

### RoomRoster

One room, since rooms do not touch each other; every event of it is a sync response of
its own.

| Code | Model |
|---|---|
| the homeserver's room; the same as of the sync token | `current`; `shown`, with `pending` in between |
| `AsyncClient.rooms[room_id]` | `nio` |
| the row of `rooms`, the rows of `members` | `row`, `members` |
| the sentinel | `backfilled` |
| fresh branch of `start()`, `_populate_rooms_from_sync` | `FullSync`, `GoLive` |
| restart branch, `_restore_rooms_to_client` | `Resume` |
| nio's `room.users`: members and those invited | `Users` of a room |
| `_on_room_name`, `_on_room_member` | `OnRoomName`, `OnJoin`, `OnLeave`, and `OnInvite`, for which the callback writes nothing |
| an event in the state section, an encryption event | `ReceiveAsState`, `OnEncryption`: nio's room changes, no callback runs |
| a write that raises in a callback | `CallbackFails`: the sync task dies |
| a crash after nio stored the token | `EventLost` |
| the account's own join | `JoinRoom` |

A name is a title, or for an unnamed room the set of its other users, those invited
included.  `_populate_rooms_from_sync` writes all of them to `members`, an invite heard live
reaches nio's object only, and after a restart nio's users are those of the table: whoever
was invited meanwhile is forgotten until they join.  The history variables `unheard`, `misnamed` and `encryptedUnheard` record what the code has had no
chance to notice; the properties name them as the only excuses.

### ServerLifecycle

| Code | Model |
|---|---|
| where `lifespan()` is | `phase`, and `agenda`, the rest of `init_collection` or of the `finally` block |
| the collection and its payload indexes | `collection` |
| `vector_store`, `store`, `client`, `dispatcher` open | `opened` |
| `matrix_start_task`, `matrix_start_error` | `startTask` (`failed` makes `/health` answer 503) |
| `_sync_task` | `syncTask`, `polled`, `handled` |
| `stop_sync_forever()`, `wait_for(shield(...), 35)` | `asked`, `waited`, `CutSync` |
| an exception in the `finally` block | `Abandon`, by `SyncDied` or `CloseRaises` |
| a tool call | `calling` |

What the tasks do is left to the other modules; here they only use resources, end, die
or take time.  A tick passes only when no timer is due.  A callback may take any time.
`collection` outlives the process, so a start may find any part of the set-up done.

### SearchMessages, EmbeddingClient, MessageContext, ToolCalls

| Code | Model |
|---|---|
| the arguments of `search_messages` | `args` |
| the collection, as payloads of points | `points` |
| the filters not yet asked | `queries`, a sequence of how many terms must match |
| the results so far and `seen_event_ids` | `found` |
| `_merge_searches`, `_merge_scrolls` | `AskSearch`, `AskScroll`, one request each |
| `upsert`, `update_sender_name` by the rest of the server | `Upsert`, `Rename` |
| `attempt`, `delay` in `embed_batch` | `attempt`, `delay` |
| `events_before`, `events_after`, `start`, `end` | `before`, `after`, `start`, `end` |
| `/context`, a page on either side | `ContextReply`, `PaginateBack`, `PaginateFront`, `PageError` |

A text is the set of its words and a query the set of its terms (the tokenizers of the
code and of Qdrant are left out); similarity to the query is a number given per message.
Qdrant returns the best points that match a filter, equal ones in any order.  `stable`
are the messages that were in the collection, under one name, during the whole call:
the properties say nothing about the others.  `Relevant` and `FullMatch` are the
reference a result is compared with; they are stated without filters, counts or merges.
A room's timeline is a row of positions that grows during a context call, and the
homeserver may give less than asked (`curtailed`).
`_merge_searches` and `_merge_scrolls` are defined by what their loops do: `Unseen` is the
hits not seen before, in their order, and `NewestFirst` the stable sort by timestamp, each
given as the set of sequences that are so, which has one element.

## 3. Runs

Passing:

| Run | Configuration | Checks | Bounds, and why they are enough |
|---|---|---|---|
| `webhook` | `MCWebhook` | type, `NoRecordLostOrRepeated`, `MaxAgeBound`, `CancelNeverHitsABatch`, `OnlyBegunCallsOutliveClose`, `QueuesKeepNewest`, `FlushOnlyWhenDue`, `EventuallyCalled`, `ImplementsHandoff` | five records with a batch cap of three: a full batch and two more whose timer is re-armed, in either order; the maximum age is one and a half cooldowns, so that a wait can be ended by the silence, by the age, or be cut short by the age; an SSE queue of two overflows three times while it is read, closed and reopened; with and without an LLM |
| `ingest` | `MCIngest` | `StoresAgree`, `NothingLeftUnretried`, `DispatchedOnceAndSearchable`, `GapsOnlyAfterErrors`, `MissingOnlyForCause` | two rooms of up to three events, one event per response and page, a cap of one page, one crash, one failure and one error response: the cap, a limited sync, a restart in the middle, an event that fails and is met again by the retry all happen |
| `ingest_keys` | `MCIngestKeys` | type, `ImportedKeysReachHistory`, `StartSettles` | a kept and an ignored room of three events, no cap on pages, two shutdowns at any await, the key file added in any gap |
| `names` | `MCNames` | type, `DisagreeOnlyForCause`, `UnnoticedOnlyIfTorn`, `NeverDowngraded` | two members with a message each, two names and the localpart (members and their messages may be exchanged, `Exchange`); any number of every kind of failure, of renames in state sections, of crashes and of restarts; a key backup that forces a second backfill; the script while the server is down |
| `llm_callback` | `MCLlmCallback` | type, `AnswerIsFinal`, `WaitIsBounded`, `TimeoutOnlyIfLate`, `RunEnds` | a wait of five units, a poll every three, a latency of one: the last sleep is cut, and a poll can be sent just before the deadline and answered after it |
| `tools` | `MCToolCalls` | type, `ResultsAreRelevant`, `NothingBetterIsLeftOut`, `ResultsInOrder`, `BackoffDoubles`, `ContextIsTheNeighbourhood`, `CallEnds` | three messages by two authors in two rooms, two with equal timestamps and two equally similar; sender by MXID, by none, one or two terms; room by one or two terms; open, lower and upper time bounds; limits of one and two: every answer can be cut, and all four filters be asked; one change meanwhile; three retries as in the code; a timeline of five with sides of up to two |
| `lifecycle` | `MCLifecycle` | `NothingUsedAfterClose`, `OnlySlowCallbacksAreCut`, `IndexedWhenServing`, `ShutdownCompletes` | a tick is five seconds: the default poll of 30 s and the grace time of 35 s; any number of starts, crashes and failures |
| `roster` | `MCRoster` | `MembersErrOnlyIfUnheard`, `NameErrsOnlyForCause`, `SendWorksWhenLive` | two other people who join, leave or are invited, two names, two events on their way, one in a state section, one fault; any number of stops and restarts |

`NamesAgreeWhenLive` does not hold when Qdrant refuses a request and the client goes live
all the same (`reconcile_sender_names` logs and continues), nor after a rename in a state
section.  What holds with every kind of failure is `DisagreeOnlyForCause`, which allows only
members whose rename failed or was cut or whose name no callback saw, and
`UnnoticedOnlyIfTorn`: the difference is visible in SQLite to a later pass, unless a rename
was cut between the two stores.

`MembersErrOnlyIfUnheard` does not ask that invited users be listed, nor that they be left
out: `get_room_info` lists them after a full sync and not after an invite heard live.  Every
member is listed, and nobody who is neither, unless no callback heard of the last event.

Runs that find a violation.  Each states what a comment or document says and shows a
behaviour of the code that disagrees:

| Run | Property | What happens |
|---|---|---|
| `ingest_keys_crash` | `ImportedKeysReachHistory` | the import is recorded, the process dies before the backfill sentinel is cleared; later starts skip both the import and the backfill, and the encrypted history stays out although "clearing the sentinel forces a full re-backfill" (`matrix_client.py:78`) |
| `ingest_fetch_error` | `SentinelMeansBackfilled` | one error response ends a room's backfill, the sentinel is written all the same although it "is written only after both phases complete, so an interruption here is safe to retry" (`matrix_client.py:105`) |
| `names_script` | `NamesAgreeWhenLive` | the script beside a live server writes back a name it read before the server's rename; no failure needed, although "after a successful pass the SQLite/Qdrant names match the roster" (`migrations.py:54`) |
| `roster_name` | `NamedAsFromFullSync` | after a restart nio's room has no name: a named room is called by its members' names until it is renamed: `.name` is deliberately left to "the next name/state sync" (`matrix_client.py:312-314`), which sends nothing that has not changed, and `{room_name}` is the "display name of the room" (README.md:218); messages are stored and prompted with that name, and a join writes it over the stored one |

Other disagreements met while modelling, without a run of their own:

* README.md:283, "no gap between backfill and live": when more events than a sync response
  carries arrive during the backfill, the older ones are never fetched.  `skipped` is one
  of the causes that `MissingOnlyForCause` has to name.
* `matrix_client.py:353` says that an event whose insert failed "will arrive again via
  live sync", but the token has moved on when the callback runs: the cause `unsaved`.
* When the initial sync of a fresh start fails, `start()` goes on without a token and sets
  the sentinel.  If it is stopped before its first live sync has stored a token, the next
  start makes an initial sync, which does; if the process dies during the backfill that
  follows, the old sentinel stands beside the new token, later starts take the restart
  path, and the history is never fetched.  The attempt to prove `MissingOnlyForCause` found
  this; it is why `anchor` is not simply the token.
* A display name that equals the localpart is taken for the fallback: a rename to it that
  is cut between Qdrant and SQLite is not repaired by any later pass, since
  `reconcile_sender_names` skips such names.  So is a cut rename whose name is changed back
  before a second full sync (after a key import).  `NamesAgreeUnlessRefused` needs both
  excluded.
* A rename in the state section of a limited response leaves new messages under a name
  that the roster does not have; the next start takes the roster for right and rewrites
  their rows, and Qdrant, to the older name.  `unheard` is the cause in
  `DisagreeOnlyForCause`.
* "Keep member list current" (`matrix_client.py:376`) and the "full member list" of
  README.md:10: `members` holds invited users after a full sync but not after a live invite.
  The row of an unnamed room does not follow an invite either, and a restart forgets invited
  users the table does not hold, so that nio's name for the room changes with it.
* README.md:156 says `get_room_info` is "read from nio's in-memory room state"; it reads
  the tables.
* README.md:73 has the operator delete `MATRIX_STORE_PATH/backfill_complete`; the sentinel
  is a row of `meta`.  Clearing it would not fill a new collection either: the backfill
  indexes only rows it newly inserts.
* `/health` answers ok after the sync task has died in a callback.
* With `MATRIX_SYNC_TIMEOUT_MS` near or above 35 s, the poll under way uses up the grace
  time of `stop()` and a short callback may be cut: `OnlySlowCallbacksAreCut` says how
  much is left.

Deadlock is checked in the webhook, callback, names, lifecycle and roster runs.  The
ingest runs say `CHECK_DEADLOCK FALSE`: with the bounds on events, stops and failures used
up, an idle live client, or one that has failed, has nothing left to do.  The tools run
does because a behaviour is one call and stops with it.

Bounds by name: `MaxRecords` (records dispatched), `MaxEvents` (events per room),
`MaxStops`, `MaxKills`, `MaxFaults`, `MaxFetchErrors`, `MaxPending` (events on their way),
`MaxLimited` (events in state sections), `MaxChanges` (writes during a search),
`MaxPosition` and `MaxSide` (length of the timeline, size of a context).  `SenderNames`
has no bound besides its sets and `ServerLifecycle` none besides its clocks.  `AgeCap`,
`quiet` and `handled` saturate where no property tells larger values apart.

## 4. Fairness

`WebhookDispatcher`: weak fairness of `Tick` and of each task's `Resume`.  An asyncio
loop resumes every ready task, and time passes.  Nothing is assumed of the LLM (a call
may never end), of SSE clients or of new messages.

`LlmCallback`: weak fairness of `Tick`, `Reply` and `ReadTimeout`.  Time passes, a reply
that has come is handled, and httpx raises when nothing was read for too long.  Nothing
is assumed of OpenWebUI or its agent: a streamed call may go on for ever, and `RunEnds`
says so.

`MatrixIngest`: weak fairness of `StartStep` and of `LiveStep`, the program's own next
step in `start()` and in the sync task: every await in them is a request that returns or
raises.  Nothing is assumed of failures, new events, `Start`, `Stop` or `Kill`.
`StartSettles` therefore shows that the page loop, the batch and the retry terminate.

`ToolCalls`: weak fairness of `Step`, the next step of the call in progress: OpenAI,
Qdrant and the homeserver answer or their clients raise.  `CallEnds` then says that the
filters, the retries and the pages run out.

`ServerLifecycle`: weak fairness of `ShutdownStep` (the loop runs the lifespan task), of
`PollReturns` (nio's poll has a timeout) and of `Tick`.  Nothing is assumed of callbacks,
which may hang; `ShutdownCompletes` rests on the grace time.

`SenderNames` and `RoomRoster` state safety only and have no fairness.

## 5. Proofs

TLAPS proves the following for every value of the constants that satisfies the named
assumptions: `BoundsAssumption` and `ConfigAssumption` (counts are natural numbers, the
batch size, cooldown, maximum age and queue size positive, as `config.py` validates),
`TimeAssumption` (the timeout and the poll interval positive, no request slower than the
timeout), `IngestAssumption` (limits and pages positive, the markers for "none" outside
the sets), `EmbedAssumption` (`MaxRetries` a natural number), `LifecycleAssumption`
(`Window` and `PollMax` natural numbers, a marker that is none), `RosterAssumption`
(the account is not one of the other people, bounds are natural numbers, a marker that is
none), `NamesAssumption` (every message has an author, markers are no names),
`SearchAssumption` (the collection is finite, limits are positive, a room query that is
not blank has a term and is no MXID) and `ContextAssumption` (the timeline is not empty, a
marker that is no position).

Where a theorem needs more, it says so: `Fallback \notin RawNames` (no display name equals
the localpart), `Script # "beside"` (the script runs never or while the server is down;
nothing in it prevents the other), or bounds on failures that are zero.  The last kind goes with the
runs that find a violation: a run shows which failure breaks a promise of the code, the
theorem shows that without that kind of failure it is kept.

| Theorem | States | Argument |
|---|---|---|
| `TypeCorrect` | `[]TypeOK` of the dispatcher | inductive by itself |
| `MaxAge` | `[]MaxAgeBound` | from `IInv` |
| `CancelIsHarmless` | `[]CancelNeverHitsABatch` | from `IInv` |
| `CloseIsThorough` | `[]OnlyBegunCallsOutliveClose` | from `CloseInv` |
| `RecordsConserved` | `[]NoRecordLostOrRepeated` | from `IInv` and `Conserved` |
| `QueuesAreNewest` | `[]QueuesKeepNewest` | each queue is an interval of arrival numbers |
| `FlushIsNeverEarly` | `FlushOnlyWhenDue`, an action property | from `TimerIsDueLate` |
| `DispatcherImplementsHandoff` | `ImplementsHandoff`, the refinement of `OrderedHandoff` | from `HandoffInv` |
| `CallTypeCorrect` | `[]TypeOK` of the callback | from `CallInv` |
| `AnswersAreFinal` | `[]AnswerIsFinal` | from `CallInv` |
| `WaitsAreBounded` | `[]WaitIsBounded` | from `CallInv` |
| `TimeoutsAreHonest` | `[]TimeoutOnlyIfLate` | from `CallInv` |
| `IngestTypeCorrect` | `[]TypeOK` of the ingest | from `Inv` |
| `StoresAlwaysAgree` | `[]StoresAgree` | from `Inv` |
| `RetryIsComplete` | `[]NothingLeftUnretried` | from `Inv` |
| `DispatchAtMostOnce` | `[]DispatchedOnceAndSearchable` | from `Inv` |
| `SentinelGapsAreErrors` | `[]GapsOnlyAfterErrors` | from `HistoryInv` |
| `LossesHaveCauses` | `[]MissingOnlyForCause` | from `HistoryInv` |
| `SentinelIsTrueWithoutErrors` | `[]SentinelMeansBackfilled` if `MaxFetchErrors = 0` | from `HistoryInv` |
| `KeysReachHistory` | `[]ImportedKeysReachHistory` without crash, failure and error response | from `HistoryInv` and `KeysInv` |
| `NamesTypeCorrect` | `[]TypeOK` of the names | from `TypeInv` |
| `NamesNeverDowngraded` | `NeverDowngraded`, an action property, if no name is the localpart | from `FixesAreReal` |
| `NamesDisagreeOnlyForCause` | `[]DisagreeOnlyForCause` if the script does not run beside | from `NamesInv` |
| `NamesUnnoticedOnlyIfTorn` | `[]UnnoticedOnlyIfTorn` likewise | from `NamesInv` |
| `NamesAgreeUnlessRefused` | `[]AgreeExcept(unheard)` with crashes, failures of indexing and limited responses only, no second full sync, no name equal to the localpart, the script not beside | from `NamesInv` and `AgreeInv` |
| `EmbedTypeCorrect` | `[]EmbedTypeOK` of an embedding call | from `RetryInv` |
| `BackoffIsExact` | `[]BackoffDoubles` | from `RetryInv` |
| `LifecycleTypeCorrect` | `[]TypeOK` of the lifespan | from `LifecycleInv` |
| `ClosedOnlyAfterUse` | `[]NothingUsedAfterClose` | from `LifecycleInv` |
| `ServesWithIndexes` | `[]IndexedWhenServing` | from `LifecycleInv` |
| `CutsOnlySlowCallbacks` | `[]OnlySlowCallbacksAreCut` | from `LifecycleInv` and `WaitInv` |
| `RosterTypeCorrect` | `[]TypeOK` of the roster | from `RosterInv` |
| `RosterErrsOnlyUnheard` | `[]MembersErrOnlyIfUnheard` | from `RosterInv` |
| `NamesErrForCause` | `[]NameErrsOnlyForCause` | from `RosterInv` and `RoomInv` |
| `SendsWhenLive` | `[]SendWorksWhenLive` | from `RosterInv` and `RoomInv` |
| `ToolCallsTypeCorrect` | `[]TypeOK` of the tool calls | from `SearchInv`, `RetryInv`, `ContextInv` |
| `ResultsSatisfyArguments` | `[]ResultsAreRelevant` | from `SearchInv` |
| `ResultsAreOrdered` | `[]ResultsInOrder` | from `SearchInv` |
| `CutsHideNothingBetter` | `[]NothingBetterIsLeftOut` | from `SearchInv` |
| `SearchBacksOff` | `[]BackoffDoubles` within a search | from `RetryInv` |
| `ContextIsGapless` | `[]ContextIsTheNeighbourhood` | from `ContextInv` |

**Dispatcher.**  `MaxAgeBound` is not inductive: nothing in it says that a timer exists.
`IInv` adds `TimerInv` (while open, an empty buffer has no timer and no age; a non-empty
one has a current cooldown task that is created or asleep, not cancelled, and whose
remaining sleep plus the batch's age does not exceed the maximum age; every other
sleeping task is cancelled) and `BatchInv` (a task has a batch exactly when its `pc` says
so).  A `Tick` cannot pass a due timer, so the age cannot pass the bound; and the only
sleeping task that is not cancelled is the one `close()` cancels.  For conservation,
`Conserved` restates the property over sets of records (`InBuffer`), and two lemmas say
how appending and cutting a sequence move its elements (`BufferElements`,
`MoveConserves`).  `TimerIsDueLate` is the bound from the other side: the current timer
sleeps at least the rest of the silence or the rest of the maximum age.

**The hand-over.**  `OrderedHandoff` knows neither tasks nor batches: it counts what was
accepted and what was handed over.  The refinement maps the latter to the records of the
calls that have begun, and `HandoffInv` says why these are a prefix (`HeldIsPrefix`): every
batch is a run of consecutive numbers of at most `BatchMax`, the buffer is the newest run,
no batch is dropped while open, waiting deliveries hold their records in the order of their
numbers, and the current timer is not asleep while one waits (`OrderInv`).
A dispatch is then an `AcceptRecord`; a delivery that begins, or a timer that takes the
buffer, is a `HandBatch`, because what it holds begins where the calls begun so far end;
`Close` is `StopAccepting`; and every other step leaves the abstract variables alone.

**Callback.**  `CallInv` adds to the properties how the clocks relate (`ClockInv`: a poll
was sent no later than the deadline, a sleep ends no later), what an answer still says
when it is handled (`AgentInv`: "ended" stays true, "running" need not) and when the agent
can have ended (`EndInv`: not before the poll that saw it running was sent).  The bound
`Timeout - Latency` is the sum of the two.

**Ingest.**  The properties talk about the disk, and their cause lies in the process:
`MatrixIngestProofs!Inv` adds where the event at hand is (`WorkInv`: past its upsert it
has a point), that the batch and the retry list consist of unmarked rows (`QueueInv`),
that during the retry every unindexed row is still in `todo`, at hand or failed
(`RetryInv`), and that only events with `stage` before the dispatch have not been
dispatched (`DispatchInv`).  `DispatchAtMostOnce` holds because only an event whose row
is newly inserted is dispatched.  Each step lemma has one case per group of actions.

What is missing from the history is a matter of positions.  `HistoryInv` says where the
token in memory, the token on disk and the sentinel agree (`TokenInv`), how far below the
token a cursor can be after its pages (`PageInv`), that during a backfill whatever its
window holds is stored, still owed by the cursor or the initial timeline, or in a room
that an error has ended (`BackfillInv`), and that behind the token every live event is
accounted for (`LiveInv`).  `KeysInv` adds what the key sentinel promises of the window.

**Names.**  Nobody renames while a record is in hand (`OneAtATime`), so a record carries
the name of its row (`RecordsAreCurrent`); a point follows its row except between the two
writes of a rename or after a cut (`PointsFollow`); and a difference between rows and
roster is still on the server's list or in its hands, unless it has failed or nio's name
is one no callback has seen (`RosterFollowed`, which also says that a start leaves nobody
unheard).  `AgreeInv` describes the case without refusals: a point that differs from its row
is ahead of it and has the roster's name, so that the next start's list holds the row
(`RowsCarried`), and a live server leaves no point ahead but those of the rename in hand
(`NoneAhead`).  A message stored meanwhile under an unheard name has a row and a point that
agree with each other, and its author is the one the theorem leaves out.

**Embeddings.**  `BackoffDoubles` ties the delay to the time slept; `RetryInv` adds that a
sleeping call has a retry left, so that the counter cannot pass its end.

**Search.**  What one filter means is a statement about cardinalities: `CountsOfTerms` and
`TermsOfText` turn "at least n terms match" into sets, and `MeaningOfFilters` says that the
first filter of a call is `FullMatch` and the last is `Relevant`.  `AnswerOfFilter` says what
a cut answer leaves out, `MergedList`, `CutList` and `SortedList` what merge, cut and sort
keep.  `SearchInv` needs between two requests only that the last filter is still to come
and, with a query, that the list is short of its limit and has all full matches once one
request was made (`AskingInv`): an answer shorter than the limit was not cut.  Without a
query every answer is sorted in, and `NewestStay` is the pigeonhole argument that cutting
the merged list loses no message newer than what stays.

**Context.**  `ContextInv` says of each side that it is the run of that length next to the
pivot, of a token that it stands where the run stops, and of a side that is done that it
is as long as it can be or the homeserver held something back.  The room grows meanwhile,
which adds only above.

**Lifespan.**  What is safe depends on how far the agenda has come, so `LifecycleInv` says
for each rest of the agenda what it implies: what is not yet in Qdrant is still on the
agenda of `init_collection` (`SetUpInv`), and a task that can run finds its resources
open because the agenda has not passed the step that ends it (`TaskInv`).  The possible
rests are finite in number, and lemmas say how `Head` and `Tail` lead from one to the next.
`WaitInv` relates the three clocks of `stop()`: it has waited no longer than the poll under
way and, once that is answered, the callbacks.

**Roster.**  The property speaks of a live client, but members go wrong while it is down or
dead.  `RosterInv` therefore keeps `Accounted` from the first full sync on: every member
is in the table and everybody in the table is a user of the room, but for those unheard, or
the account is in no room and nothing is said of who is missing.  `InRoomOrNone` adds that nothing is on its way from a room the account has
never joined.  `RoomInv` does the same for the name and the encryption, where it is the
users that count, members and invited alike (`SameUsers`): in the row (`RowInv`), in nio's
object or in the empty one that stands for it (`ObjectInv`), and where
neither is (`AbsenceInv`).

Every invariant and every action property that a passing run checks is proved.  Left to
TLC are the liveness properties (`EventuallyCalled`, `StartSettles`, `RunEnds`, `CallEnds`,
`ShutdownCompletes`), since liveness and `ENABLED` are outside the prover's reach, and the
four runs whose property the code violates.

## 6. Not modelled, and why

* HTTP transport, sessions and the bearer check: the check compares one header and keeps
  no state, the rest is the MCP library's.
* The tools `get_recent_messages`, `get_room_info` and `send_message` as calls: one SELECT
  or one request each.  What they rely on is in `MatrixIngest` and `RoomRoster`.
* Message bodies, prompts, embeddings' vectors, truncation by tokens, tokenizing of names
  and queries, JSON and URLs: data no property tells apart.
* The second delivery path of an event without a body (a backfill drops it, `_on_message`
  stores it).
* A changed fingerprint or a missing key file: only as a `start()` that raises.
* Room aliases, and the account leaving a room: the code has no handler for the latter.
* The parameters `room_id` and `sender` of `_build_filter`, which no caller passes.
* An upsert that Qdrant has accepted (`wait=False`) and applies later or not at all.

## 7. Plan

`WebhookDispatcher` with `OrderedHandoff`, `LlmCallback`, `MatrixIngest`, `SenderNames`,
`SearchMessages` with `EmbeddingClient`, `MessageContext`, `ServerLifecycle` and
`RoomRoster` are modelled and checked, and their invariants, action properties and the
refinement are proved.  What could follow:

1. Theorems beside the remaining violation run: under which conditions a room is called
   what a full-state sync would call it (`NamedAsFromFullSync`), as
   `NamesAgreeUnlessRefused` and `SentinelIsTrueWithoutErrors` do for theirs.
2. The safety part of the liveness arguments: bounds on the number of requests of a search,
   of a context call and of a start, as variants that every step decreases.
3. `ImportedKeysReachHistory` under failures that are not crashes: which rows a later retry
   brings back.
