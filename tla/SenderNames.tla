------------------------------ MODULE SenderNames ------------------------------
(***************************************************************************)
(* The author's display name stored with every message: migrations.py, the *)
(* member callback and the name helpers of matrix_client.py, and           *)
(* scripts/reconcile_sender_names.py.                                      *)
(*                                                                         *)
(* A name lives in four places: nio's room.users (in memory), the members  *)
(* table (the roster), the messages table and Qdrant's payload.  A member  *)
(* event writes the roster and then heals the stored messages; start()     *)
(* reconciles them with the roster.  Both do it through apply_sender_name, *)
(* which awaits Qdrant between counting rows and rewriting them.  The      *)
(* server does one thing at a time; the script is a second process on the  *)
(* same SQLite file and the same Qdrant collection.                        *)
(*                                                                         *)
(* nio also changes its list without a callback: it applies the state      *)
(* section of a limited response, and an invite changes its name of        *)
(* someone who writes only after a join.  The second shows as the name a   *)
(* join without one leaves in nio's list, which may be any.                *)
(*                                                                         *)
(* A definition named Faulty... is a variant with a bug, kept to show that *)
(* some property notices it; the specification uses none of them.          *)
(***************************************************************************)

CONSTANTS
  Members,     \* (room, user) pairs
  Messages,
  Author,      \* the member who wrote each message
  RawNames,    \* display names members give themselves
  Fallback,    \* the localpart, used when a member has no name
  NoName,      \* a member event without a display name
  Gone,        \* no such member
  None,        \* no such row, point or record
  Failures,    \* what may go wrong, among FailureKinds
  KeyBackup,   \* a key backup may be added between two runs
  Script       \* when the script is run, among ScriptModes

FailureKinds == {"crash", "script_crash", "index", "qdrant", "lost_reply", "sqlite", "limited"}
ScriptModes == {"never", "alone", "beside"}

ASSUME NamesAssumption ==
  /\ Author \in [Messages -> Members]
  /\ Fallback \notin {NoName, Gone, None}
  /\ RawNames \cap {NoName, Gone, None} = {}
  /\ Gone # None
  /\ Failures \subseteq FailureKinds
  /\ KeyBackup \in BOOLEAN
  /\ Script \in ScriptModes

VARIABLES
  roster,      \* the members table: display_name, or Gone
  row,         \* messages.sender_name, or None
  point,       \* Qdrant's sender_name, or None
  unindexed,   \* messages with indexed = 0
  complete,    \* the backfill sentinel
  imported,    \* the key backup has been imported
  users,       \* nio's room.users: display_name, or Gone
  pc,          \* where the server is
  record,      \* MessageRecord being indexed (message and name), or None
  stage,       \* the next step with it
  pending,     \* records _retry_pending_index still has to index
  fixes,       \* per process, what reconcile_sender_names still has to apply
  fix,         \* per process, the arguments of apply_sender_name
  step,        \* per process, how far apply_sender_name is
  torn,        \* history: members whose rename reached Qdrant and not SQLite
  failed,      \* history: members whose rename failed since the server started
  unheard      \* history: members whose name nio took from the state section of a
               \* limited response, which runs no callback, and of whom no event
               \* has been heard since

stores == <<roster, row, point, unindexed>>
sentinels == <<complete, imported>>
indexing == <<record, stage, pending>>
applying == <<fixes, fix, step>>
history == <<torn, failed, unheard>>
vars == <<stores, sentinels, users, pc, indexing, applying, history>>

Processes == {"server", "script"}
Names == RawNames \cup {Fallback}
Records == Messages \X Names
Fixes == Members \X Names

By(u) == {m \in Messages : Author[m] = u}

FaultyResolve(u) == users[u]

\* _resolve_display_name: nio's name for the author, else the localpart.
Resolve(u) == IF users[u] = Gone THEN Fallback ELSE users[u]

\* Names worth propagating: reconcile_sender_names skips the localpart.
Known(u) == roster[u] \notin {Gone, Fallback}

\* get_sender_name_fixes, without those reconcile_sender_names skips.
FixesDue ==
  {<<u, roster[u]>> : u \in {v \in Members : Known(v)
                              /\ \E m \in By(v) : row[m] \notin {None, roster[v]}}}

\* get_pending_messages
PendingRecords == {<<m, row[m]>> : m \in unindexed}

Init ==
  /\ roster = [u \in Members |-> Gone]
  /\ row = [m \in Messages |-> None]
  /\ point = [m \in Messages |-> None]
  /\ unindexed = {}
  /\ complete = FALSE /\ imported = FALSE
  /\ users = [u \in Members |-> Gone]
  /\ pc = "down"
  /\ record = None /\ stage = "upsert" /\ pending = {}
  /\ fixes = [p \in Processes |-> {}]
  /\ fix = [p \in Processes |-> None]
  /\ step = [p \in Processes |-> "idle"]
  /\ torn = {} /\ failed = {} /\ unheard = {}

\* The server is between two callbacks (or two records, or two fixes).
AtRest == record = None /\ step["server"] = "idle"

ScriptIdle == step["script"] = "idle" /\ fixes["script"] = {}

\* When the script is run alone the server is not started before it ends.
MayStart == pc = "down" /\ (Script = "alone" => ScriptIdle)

-----------------------------------------------------------------------------
(* start() *)

\* The first import of a key backup clears the sentinel.
ImportKeys ==
  /\ KeyBackup
  /\ pc = "down" /\ ~imported
  /\ imported' = TRUE
  /\ complete' = FALSE
  /\ UNCHANGED <<stores, users, pc, indexing, applying, history>>

\* Restart: nio's member lists are restored from the roster.
RestoreRooms ==
  /\ MayStart /\ complete
  /\ users' = roster
  /\ pending' = PendingRecords
  /\ pc' = "retry"
  /\ failed' = {} /\ unheard' = {}
  /\ UNCHANGED <<stores, record, stage, applying, sentinels, torn>>

\* Fresh start: a full-state sync fills nio's lists and is written to the
\* roster.  Members who have left since are not removed from it.
PopulateRooms ==
  /\ MayStart /\ ~complete
  /\ \E state \in [Members -> Names \cup {Gone}] :
       /\ users' = state
       /\ roster' = [u \in Members |-> IF state[u] = Gone THEN roster[u] ELSE state[u]]
  /\ pc' = "backfill"
  /\ failed' = {} /\ unheard' = {}
  /\ UNCHANGED <<row, point, unindexed, indexing, applying, sentinels, torn>>

EndBackfill ==
  /\ pc = "backfill" /\ AtRest
  /\ complete' = TRUE
  /\ pending' = PendingRecords
  /\ pc' = "retry"
  /\ UNCHANGED <<stores, imported, users, record, stage, applying, history>>

TakePending ==
  /\ pc = "retry" /\ AtRest
  /\ \E r \in pending : record' = r /\ pending' = pending \ {r}
  /\ stage' = "upsert"
  /\ UNCHANGED <<stores, users, pc, applying, sentinels, history>>

FaultyReconcile ==
  /\ pc = "retry" /\ AtRest /\ pending = {}
  /\ pc' = "live"
  /\ UNCHANGED <<stores, users, indexing, applying, sentinels, history>>

\* Reconciliation starts with one query for everything to fix.
Reconcile ==
  /\ pc = "retry" /\ AtRest /\ pending = {}
  /\ fixes' = [fixes EXCEPT !["server"] = FixesDue]
  /\ pc' = "reconcile"
  /\ UNCHANGED <<stores, users, indexing, fix, step, sentinels, history>>

\* The query fails: the exception is logged and start() goes on with nothing fixed.
ReconcileFails ==
  /\ "sqlite" \in Failures
  /\ pc = "retry" /\ AtRest /\ pending = {}
  /\ failed' = failed \cup {f[1] : f \in FixesDue}
  /\ pc' = "reconcile"
  /\ UNCHANGED <<stores, users, indexing, applying, sentinels, torn, unheard>>

GoLive ==
  /\ pc = "reconcile" /\ AtRest /\ fixes["server"] = {}
  /\ pc' = "live"
  /\ UNCHANGED <<stores, users, indexing, applying, sentinels, history>>

-----------------------------------------------------------------------------
(* Messages *)

\* In the live timeline only members write: those in nio's list, whose name there
\* need not be the roster's, and those whose join was lost, who are in neither.  A
\* backfill also finds the messages of those who left.
MayWrite(u) == pc = "backfill" \/ (pc = "live" /\ (users[u] # Gone \/ roster[u] = Gone))

\* A new message is stored with the name its author has now.
Insert(m) ==
  /\ AtRest
  /\ MayWrite(Author[m])
  /\ row[m] = None
  /\ row' = [row EXCEPT ![m] = Resolve(Author[m])]
  /\ unindexed' = unindexed \cup {m}
  /\ record' = <<m, Resolve(Author[m])>>
  /\ stage' = "upsert"
  /\ UNCHANGED <<roster, point, users, pc, pending, applying, sentinels, history>>

\* Qdrant gets the name of the record in memory, not of the row.
Upsert ==
  /\ record # None /\ stage = "upsert"
  /\ point' = [point EXCEPT ![record[1]] = record[2]]
  /\ stage' = "mark"
  /\ UNCHANGED <<roster, row, unindexed, users, pc, record, pending, applying, sentinels, history>>

MarkIndexed ==
  /\ record # None /\ stage = "mark"
  /\ unindexed' = unindexed \ {record[1]}
  /\ record' = None
  /\ UNCHANGED <<roster, row, point, users, pc, stage, pending, applying, sentinels, history>>

\* The embedding, the upsert or the mark fails: the row stays unindexed.
IndexFails ==
  /\ "index" \in Failures
  /\ record # None
  /\ record' = None
  /\ UNCHANGED <<stores, users, pc, stage, pending, applying, sentinels, history>>

-----------------------------------------------------------------------------
(* _on_room_member *)

FaultyHeal(u, raw) ==
  /\ fix' = [fix EXCEPT !["server"] = <<u, IF raw = NoName THEN Fallback ELSE raw>>]
  /\ step' = [step EXCEPT !["server"] = "count"]

\* A name that came with the event, and only that, heals older messages.
Heal(u, raw) ==
  IF raw = NoName THEN UNCHANGED <<fix, step>>
  ELSE /\ fix' = [fix EXCEPT !["server"] = <<u, raw>>]
       /\ step' = [step EXCEPT !["server"] = "count"]

\* A join, or a joined member's new name.  Without a name the roster gets the
\* localpart, whatever name nio keeps from an earlier event or an invite.
MemberJoins(u, raw) ==
  /\ pc = "live" /\ AtRest
  /\ \E name \in Names :
       /\ raw = NoName \/ name = raw
       /\ users' = [users EXCEPT ![u] = name]
  /\ roster' = [roster EXCEPT ![u] = IF raw = NoName THEN Fallback ELSE raw]
  /\ unheard' = unheard \ {u}
  /\ Heal(u, raw)
  /\ UNCHANGED <<row, point, unindexed, pc, indexing, fixes, sentinels, torn, failed>>

\* leave or ban
MemberLeaves(u) ==
  /\ pc = "live" /\ AtRest
  /\ users' = [users EXCEPT ![u] = Gone]
  /\ roster' = [roster EXCEPT ![u] = Gone]
  /\ unheard' = unheard \ {u}
  /\ UNCHANGED <<row, point, unindexed, pc, indexing, applying, sentinels, torn, failed>>

\* The state section of a limited response: nio follows it, the callback is not run.
ReceiveAsState(u, name) ==
  /\ "limited" \in Failures
  /\ pc = "live" /\ AtRest
  /\ users' = [users EXCEPT ![u] = name]
  /\ unheard' = unheard \cup {u}
  /\ UNCHANGED <<stores, pc, indexing, applying, sentinels, torn, failed>>

-----------------------------------------------------------------------------
(* reconcile_sender_names and apply_sender_name, in process p *)

\* The script reads the roster and the messages when it starts.
StartScript ==
  /\ Script = "beside" \/ (Script = "alone" /\ pc = "down")
  /\ ScriptIdle
  /\ fixes' = [fixes EXCEPT !["script"] = FixesDue]
  /\ UNCHANGED <<stores, users, pc, indexing, fix, step, sentinels, history>>

NextFix(p) ==
  /\ step[p] = "idle"
  /\ \E f \in fixes[p] :
       /\ fix' = [fix EXCEPT ![p] = f]
       /\ fixes' = [fixes EXCEPT ![p] = @ \ {f}]
  /\ step' = [step EXCEPT ![p] = "count"]
  /\ UNCHANGED <<stores, users, pc, indexing, sentinels, history>>

\* The fix in hand is over, with or without an exception (it is only logged).
Done(p) == step' = [step EXCEPT ![p] = "idle"] /\ fix' = [fix EXCEPT ![p] = None]

\* No row would change: Qdrant is not called.
CountUpdates(p) ==
  /\ step[p] = "count"
  /\ IF \E m \in By(fix[p][1]) : row[m] \notin {None, fix[p][2]}
     THEN step' = [step EXCEPT ![p] = "qdrant"] /\ UNCHANGED fix
     ELSE Done(p)
  /\ UNCHANGED <<stores, users, pc, indexing, fixes, sentinels, history>>

\* Rewriting the name of every message of the member at hand.
RenameRows(p) ==
  row' = [m \in Messages |-> IF Author[m] = fix[p][1] /\ row[m] # None THEN fix[p][2]
                             ELSE row[m]]

RenamePoints(p) ==
  point' = [m \in Messages |-> IF Author[m] = fix[p][1] /\ point[m] # None THEN fix[p][2]
                               ELSE point[m]]

\* Qdrant first ...
SetPayload(p) ==
  /\ step[p] = "qdrant"
  /\ RenamePoints(p)
  /\ step' = [step EXCEPT ![p] = "sqlite"]
  /\ UNCHANGED <<roster, row, unindexed, users, pc, indexing, fixes, fix, sentinels, history>>

\* ... then SQLite.
UpdateRows(p) ==
  /\ step[p] = "sqlite"
  /\ RenameRows(p)
  /\ Done(p)
  /\ UNCHANGED <<roster, point, unindexed, users, pc, indexing, fixes, sentinels, history>>

\* The exception is logged; the server's next start will try again.
Log(p) == failed' = IF p = "server" THEN failed \cup {fix[p][1]} ELSE failed

CountFails(p) ==
  /\ "sqlite" \in Failures
  /\ step[p] = "count"
  /\ Done(p)
  /\ Log(p)
  /\ UNCHANGED <<stores, users, pc, indexing, fixes, sentinels, torn, unheard>>

FaultySetPayloadFails(p) ==
  /\ "qdrant" \in Failures
  /\ step[p] = "qdrant"
  /\ step' = [step EXCEPT ![p] = "sqlite"]
  /\ UNCHANGED <<stores, users, pc, indexing, fixes, fix, sentinels, history>>

\* Qdrant refuses the request, or carries it out and the reply is lost.
SetPayloadFails(p) ==
  /\ step[p] = "qdrant"
  /\ \/ "qdrant" \in Failures /\ UNCHANGED <<point, history>>
     \/ "lost_reply" \in Failures /\ RenamePoints(p) /\ torn' = torn \cup {fix[p][1]}
  /\ Done(p)
  /\ Log(p)
  /\ UNCHANGED <<roster, row, unindexed, users, pc, indexing, fixes, sentinels, unheard>>

UpdateRowsFails(p) ==
  /\ "sqlite" \in Failures
  /\ step[p] = "sqlite"
  /\ Done(p)
  /\ Log(p)
  /\ torn' = torn \cup {fix[p][1]}
  /\ UNCHANGED <<stores, users, pc, indexing, fixes, sentinels, unheard>>

-----------------------------------------------------------------------------
(* The end of a process *)

Ends(p) ==
  /\ fixes' = [fixes EXCEPT ![p] = {}]
  /\ Done(p)
  /\ torn' = IF step[p] = "sqlite" THEN torn \cup {fix[p][1]} ELSE torn

ServerEnds ==
  /\ Ends("server")
  /\ pc' = "down"
  /\ users' = [u \in Members |-> Gone]
  /\ record' = None /\ stage' = "upsert" /\ pending' = {}
  /\ UNCHANGED <<stores, sentinels, failed, unheard>>

\* stop(): the callback in progress is completed; a start() in progress is
\* cancelled at whatever it awaits, Qdrant included.
Stop == pc # "down" /\ (pc = "live" => AtRest) /\ ServerEnds

Crash == "crash" \in Failures /\ pc # "down" /\ ServerEnds

ScriptCrash ==
  /\ "script_crash" \in Failures
  /\ ~ScriptIdle
  /\ Ends("script")
  /\ UNCHANGED <<stores, sentinels, users, pc, indexing, failed, unheard>>

Apply(p) == NextFix(p) \/ CountUpdates(p) \/ SetPayload(p) \/ UpdateRows(p)

Next ==
  \/ ImportKeys \/ RestoreRooms \/ PopulateRooms \/ EndBackfill \/ TakePending
  \/ Reconcile \/ ReconcileFails \/ GoLive
  \/ \E m \in Messages : Insert(m)
  \/ Upsert \/ MarkIndexed \/ IndexFails
  \/ \E u \in Members, raw \in RawNames \cup {NoName} : MemberJoins(u, raw)
  \/ \E u \in Members : MemberLeaves(u)
  \/ \E u \in Members, name \in Names \cup {Gone} : ReceiveAsState(u, name)
  \/ StartScript
  \/ \E p \in Processes : Apply(p) \/ CountFails(p) \/ SetPayloadFails(p) \/ UpdateRowsFails(p)
  \/ Stop \/ Crash \/ ScriptCrash

Spec == Init /\ [][Next]_vars

-----------------------------------------------------------------------------
(* Properties *)

TypeOK ==
  /\ roster \in [Members -> Names \cup {Gone}]
  /\ row \in [Messages -> Names \cup {None}]
  /\ point \in [Messages -> Names \cup {None}]
  /\ unindexed \subseteq Messages
  /\ complete \in BOOLEAN /\ imported \in BOOLEAN
  /\ users \in [Members -> Names \cup {Gone}]
  /\ pc \in {"down", "backfill", "retry", "reconcile", "live"}
  /\ record \in Records \cup {None}
  /\ stage \in {"upsert", "mark"}
  /\ pending \subseteq Records
  /\ fixes \in [Processes -> SUBSET Fixes]
  /\ fix \in [Processes -> Fixes \cup {None}]
  /\ step \in [Processes -> {"idle", "count", "qdrant", "sqlite"}]
  /\ torn \subseteq Members /\ failed \subseteq Members /\ unheard \subseteq Members

NothingRunning == AtRest /\ ScriptIdle

\* The names of a live client at rest agree, for all members but these.
AgreeExcept(excused) ==
  (pc = "live" /\ NothingRunning) =>
    \A m \in Messages :
      LET u == Author[m]
      IN (Known(u) /\ row[m] # None /\ u \notin excused)
            => row[m] = roster[u] /\ point[m] \in {None, roster[u]}

\* Once the client is live and at rest, every stored message of a member whose
\* name is known carries that name in SQLite and in Qdrant, whatever was stored
\* before, renamed, left half done by a crash or still to be indexed ("after a
\* successful pass the SQLite/Qdrant names match the roster").
NamesAgreeWhenLive == AgreeExcept({})

\* With failures of every kind the names of a live client at rest still agree,
\* but for a member of whom a rename failed since the server started or was once
\* cut between Qdrant and SQLite, or whose name changed in a state section no
\* callback saw: crashes, failed indexing, lost joins and pending records that
\* carry an older name leave no trace.
DisagreeOnlyForCause == AgreeExcept(failed \cup torn \cup unheard)

\* A later pass would not see that Qdrant has an old name of u: no row of u
\* differs from the roster and no message waits to be indexed again.
Unnoticed(u) ==
  /\ Known(u)
  /\ \E m \in By(u) : point[m] \notin {None, roster[u]}
  /\ \A m \in By(u) : row[m] \in {None, roster[u]} /\ m \notin unindexed

\* Only a rename that was cut between Qdrant and SQLite can ever leave Qdrant
\* with an old name that no later pass would find ("if Qdrant is unavailable,
\* SQLite remains stale so a later reconciliation can retry safely").
UnnoticedOnlyIfTorn == NothingRunning => \A u \in Members : Unnoticed(u) => u \in torn

\* A real name in SQLite is never replaced by the localpart ("a real,
\* already-stored name is never downgraded").
NeverDowngraded ==
  [][ \A m \in Messages : row[m] \in RawNames \ {Fallback} => row'[m] # Fallback ]_vars
=============================================================================
