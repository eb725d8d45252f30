------------------------------ MODULE RoomRoster ------------------------------
(***************************************************************************)
(* What the server knows of a room: the tables `rooms` and `members`       *)
(* (store.py), nio's room object, and the handlers of matrix_client.py     *)
(* that carry one to the other.  Rooms are independent: there is one, and  *)
(* each event of it is a sync response of its own.                         *)
(*                                                                         *)
(* The homeserver and nio are external.  nio keeps the room's state and    *)
(* applies every event to it, but runs callbacks only for events in the    *)
(* timeline of a response, not for those in its state section (what a      *)
(* limited timeline leaves out).  It stores the sync token before it runs  *)
(* them.  Its list of a room's users holds those invited too, and a room   *)
(* without a name is called by their names and the members'.               *)
(*                                                                         *)
(* Names of members and of messages' senders are in SenderNames, the       *)
(* history and the messages in MatrixIngest.                               *)
(*                                                                         *)
(* A definition named Faulty... is a variant with a bug, kept to show that *)
(* some property notices it; the specification uses none of them.          *)
(***************************************************************************)
EXTENDS Integers, Sequences

CONSTANTS
  Titles,      \* values of m.room.name
  NoName,      \* an unnamed room
  People,      \* members of the room other than the server's own account
  Bot,         \* that account
  None,        \* no room object, no row
  MaxPending,  \* bound: events the client has not been shown
  MaxLimited,  \* bound: events that come in a state section
  MaxFaults    \* bound: crashes that lose an event, failing writes

Rooms == [name : Titles \cup {NoName}, members : SUBSET (People \cup {Bot}),
          invited : SUBSET People, encrypted : BOOLEAN]
Rows == [name : Titles \cup SUBSET People, encrypted : BOOLEAN]

ASSUME RosterAssumption ==
  /\ NoName \notin Titles
  /\ Bot \notin People
  /\ None \notin Rooms \cup Rows
  /\ {MaxPending, MaxLimited, MaxFaults} \subseteq Nat

VARIABLES
  pc,         \* "down", "backfilling", "live" or "dead" (the sync task has died)
  current,    \* the homeserver's room
  shown,      \* that room as of the client's sync token
  pending,    \* its events since
  nio,        \* the room in AsyncClient.rooms, or None
  row,        \* its row in rooms, or None
  members,    \* its rows in members
  backfilled, \* meta: the sentinel
  unheard,    \* history: users whose last event reached no callback or is forgotten
  misnamed,   \* history: something has happened that may leave the name wrong
  encryptedUnheard, \* history: encryption was turned on since the last full sync
  limits,     \* events so far that came in a state section
  faults      \* faults so far

serverVars == <<pc, nio, row, members, backfilled>>
history == <<unheard, misnamed, encryptedUnheard>>
vars == <<serverVars, current, shown, pending, history, limits, faults>>

Events ==
  [kind : {"name"}, name : Titles \cup {NoName}]
    \cup [kind : {"invite", "join", "leave"}, who : People]
    \cup {[kind |-> "encrypt"]}

\* MatrixRoom.users: members and those invited.
Users(r) == r.members \cup r.invited

\* MatrixRoom.display_name: the name, or one made of the other users.
DisplayName(r) == IF r.name # NoName THEN r.name ELSE Users(r) \ {Bot}

\* MatrixRoom.handle_event, and what the homeserver does.
After(e, r) ==
  CASE e.kind = "name" -> [r EXCEPT !.name = e.name]
    [] e.kind = "invite" -> [r EXCEPT !.invited = @ \cup ({e.who} \ r.members)]
    [] e.kind = "join" -> [r EXCEPT !.members = @ \cup {e.who}, !.invited = @ \ {e.who}]
    [] e.kind = "leave" -> [r EXCEPT !.members = @ \ {e.who}, !.invited = @ \ {e.who}]
    [] e.kind = "encrypt" -> [r EXCEPT !.encrypted = TRUE]

NoRoom == [name |-> NoName, members |-> {}, invited |-> {}, encrypted |-> FALSE]

\* What a room may be when the account is in it.
JoinedRooms == {r \in Rooms : Bot \in r.members /\ r.members \cap r.invited = {}}
Joined == Bot \in shown.members

Init ==
  /\ shown \in JoinedRooms \cup {NoRoom}
  /\ current = shown /\ pending = <<>>
  /\ pc = "down" /\ nio = None
  /\ row = None /\ members = {} /\ backfilled = FALSE
  /\ unheard = {} /\ misnamed = FALSE /\ encryptedUnheard = FALSE
  /\ limits = 0 /\ faults = 0

-----------------------------------------------------------------------------
(* The homeserver *)

\* Something happens in a room the account is in; a member is not invited again.
Happen(e) ==
  /\ Joined
  /\ e.kind = "invite" => e.who \notin current.members
  /\ Len(pending) < MaxPending
  /\ current' = After(e, current)
  /\ pending' = Append(pending, e)
  /\ UNCHANGED <<serverVars, shown, history, limits, faults>>

-----------------------------------------------------------------------------
(* start and its end *)

FaultyRowOf(r) == [name |-> DisplayName(r), encrypted |-> FALSE]

\* store.upsert_room(display_name, encrypted), with nio's view of the room.
RowOf(r) == [name |-> DisplayName(r), encrypted |-> r.encrypted]

FaultyPopulated(table, r) == IF table = {} THEN Users(r) ELSE table

\* _populate_rooms_from_sync: all of nio's users are added, none is removed.
Populated(table, r) == table \cup Users(r)

\* The fresh branch of start(): the full-state sync is written to the tables.
FullSync ==
  /\ pc = "down"
  /\ pc' = "backfilling"
  /\ shown' = current /\ pending' = <<>>
  /\ IF Bot \in shown'.members
     THEN /\ nio' = shown'
          /\ row' = RowOf(shown')
          /\ members' = Populated(members, shown')
     ELSE UNCHANGED <<nio, row, members>>
  /\ unheard' = members \ Users(shown')
  /\ misnamed' = FALSE /\ encryptedUnheard' = FALSE
  /\ backfilled' = FALSE
  /\ UNCHANGED <<current, limits, faults>>

GoLive ==
  /\ pc = "backfilling"
  /\ pc' = "live" /\ backfilled' = TRUE
  /\ UNCHANGED <<nio, row, members, current, shown, pending, history, limits, faults>>

FaultyRestored == [name |-> NoName, members |-> {}, invited |-> {}, encrypted |-> row.encrypted]

\* The room object _restore_rooms_to_client makes of a row: all are members to it.
Restored == [name |-> NoName, members |-> members, invited |-> {}, encrypted |-> row.encrypted]

\* The restart branch of start().  Those whose invite no full sync wrote are forgotten.
Resume ==
  /\ pc = "down" /\ backfilled
  /\ pc' = "live"
  /\ nio' = IF row = None THEN None ELSE Restored
  /\ misnamed' = (misnamed \/ shown.name # NoName)
  /\ unheard' = unheard \cup (shown.invited \ members)
  /\ UNCHANGED <<row, members, backfilled, current, shown, pending, encryptedUnheard, limits, faults>>

\* A stop, or a crash between two sync responses.
Down ==
  /\ pc # "down"
  /\ pc' = "down" /\ nio' = None
  /\ UNCHANGED <<row, members, backfilled, current, shown, pending, history, limits, faults>>

-----------------------------------------------------------------------------
(* Sync responses *)

\* What an event changes that no callback has written.  An invite makes no member, but
\* may change the name.
Unheard(e) ==
  /\ unheard' = IF e.kind \in {"join", "leave"} THEN unheard \cup {e.who} ELSE unheard
  /\ misnamed' = (misnamed \/ e.kind = "name" \/ (e.kind # "encrypt" /\ shown.name = NoName))
  /\ encryptedUnheard' = (encryptedUnheard \/ e.kind = "encrypt")

\* A room nio has no object for gets an empty one; nio remembers encrypted rooms.
Known == IF nio = None THEN [NoRoom EXCEPT !.encrypted = shown.encrypted] ELSE nio

Receive(e) ==
  /\ pc = "live" /\ pending # <<>> /\ e = Head(pending)
  /\ pending' = Tail(pending) /\ UNCHANGED current
  /\ shown' = After(e, shown)
  /\ nio' = After(e, Known)

\* The event is in the state section of a limited response.
ReceiveAsState(e) ==
  /\ limits < MaxLimited /\ limits' = limits + 1
  /\ Receive(e)
  /\ Unheard(e)
  /\ UNCHANGED <<pc, row, members, backfilled, faults>>

\* _on_room_name updates a row; it does not make one.
OnRoomName(e) ==
  /\ e.kind = "name"
  /\ Receive(e)
  /\ row' = IF row = None THEN None ELSE [row EXCEPT !.name = DisplayName(nio')]
  /\ misnamed' = (misnamed /\ e.name = NoName)
  /\ UNCHANGED <<pc, members, backfilled, unheard, encryptedUnheard, limits, faults>>

\* _on_room_member, membership "join".  The row gets the name nio makes now, which is
\* wrong only if nio has lost the title.
OnJoin(e) ==
  /\ e.kind = "join"
  /\ Receive(e)
  /\ row' = RowOf(nio')
  /\ members' = members \cup {e.who}
  /\ unheard' = unheard \ {e.who}
  /\ misnamed' = (misnamed /\ nio'.name # shown'.name)
  /\ UNCHANGED <<pc, backfilled, encryptedUnheard, limits, faults>>

\* _on_room_member, membership "leave" or "ban": the row keeps its name.
OnLeave(e) ==
  /\ e.kind = "leave"
  /\ Receive(e)
  /\ members' = members \ {e.who}
  /\ unheard' = unheard \ {e.who}
  /\ misnamed' = (misnamed \/ shown.name = NoName)
  /\ UNCHANGED <<pc, row, backfilled, encryptedUnheard, limits, faults>>

\* _on_room_member, any other membership: nothing is written.
OnInvite(e) ==
  /\ e.kind = "invite"
  /\ Receive(e)
  /\ Unheard(e)
  /\ UNCHANGED <<pc, row, members, backfilled, limits, faults>>

\* No callback is registered for RoomEncryptionEvent.
OnEncryption(e) ==
  /\ e.kind = "encrypt"
  /\ Receive(e)
  /\ Unheard(e)
  /\ UNCHANGED <<pc, row, members, backfilled, limits, faults>>

\* A write raises in a callback, which ends sync_forever.  A join may have its row
\* by then.
CallbackFails(e) ==
  /\ faults < MaxFaults /\ faults' = faults + 1
  /\ e.kind \notin {"invite", "encrypt"}
  /\ Receive(e)
  /\ Unheard(e)
  /\ row' \in {row} \cup (IF e.kind = "join" THEN {RowOf(nio')} ELSE {})
  /\ pc' = "dead"
  /\ UNCHANGED <<members, backfilled, limits>>

\* A crash, or the end of the sync task, after the token of a response is stored
\* and before its callbacks have run.
EventLost ==
  /\ faults < MaxFaults /\ faults' = faults + 1
  /\ pc \in {"live", "dead"} /\ pending # <<>>
  /\ pending' = Tail(pending) /\ UNCHANGED current
  /\ shown' = After(Head(pending), shown)
  /\ Unheard(Head(pending))
  /\ pc' = "down" /\ nio' = None
  /\ UNCHANGED <<row, members, backfilled, limits>>

\* The account joins a room while the client is live.  The response holds the whole
\* state of the room: the account's own join ends the timeline, some joins before it
\* may be there too, the rest is in the state section; or all of it is.
JoinRoom(r, timeline) ==
  /\ pc = "live" /\ ~Joined
  /\ current' = r /\ shown' = r /\ nio' = r
  /\ IF timeline = {} THEN UNCHANGED <<row, members>>
     ELSE row' = RowOf(r) /\ members' = members \cup timeline
  /\ unheard' = (unheard \cup r.members) \ timeline
  /\ UNCHANGED <<pc, backfilled, pending, misnamed, encryptedUnheard, limits, faults>>

Response ==
  \/ \E e \in Events : \/ OnRoomName(e) \/ OnJoin(e) \/ OnLeave(e) \/ OnInvite(e)
                       \/ OnEncryption(e) \/ ReceiveAsState(e) \/ CallbackFails(e)
  \/ \E r \in JoinedRooms :
       \E timeline \in {{}} \cup {t \in SUBSET r.members : Bot \in t} : JoinRoom(r, timeline)

Next ==
  \/ \E e \in Events : Happen(e)
  \/ FullSync \/ GoLive \/ Resume \/ Down
  \/ Response \/ EventLost

Spec == Init /\ [][Next]_vars

-----------------------------------------------------------------------------
(* Properties *)

TypeOK ==
  /\ pc \in {"down", "backfilling", "live", "dead"}
  /\ current \in Rooms /\ shown \in Rooms
  /\ pending \in Seq(Events) /\ Len(pending) <= MaxPending
  /\ nio \in Rooms \cup {None}
  /\ row \in Rows \cup {None}
  /\ members \in SUBSET (People \cup {Bot})
  /\ unheard \in SUBSET (People \cup {Bot})
  /\ {backfilled, misnamed, encryptedUnheard} \subseteq BOOLEAN
  /\ limits \in 0..MaxLimited /\ faults \in 0..MaxFaults

InRoster(u) == u \in members
Settled == pc = "live" /\ Joined

\* get_room_info of a live server lists every member of the room, and beside them only
\* some of those invited (after a full sync, not after an invite it hears of), over any
\* number of stops, crashes and full syncs, but for those whose last event reached no
\* callback: it was in a state section, its callback failed, it was lost, or they had
\* left before a full sync, which removes nobody.
MembersErrOnlyIfUnheard ==
  Settled => \A u \in (People \cup {Bot}) \ unheard :
               /\ u \in shown.members => InRoster(u)
               /\ InRoster(u) => u \in Users(shown)

\* The stored name is the one a full-state sync would give, and so are the names
\* nio makes for an unnamed room after a restart ("immediately, the same way it
\* would from a full-state sync"), unless the client was restarted in a named room,
\* an event that changes the name reached no callback, someone left or was invited to
\* an unnamed room, which no callback turns into a new name, or a restart forgot
\* someone invited.  A join that is heard makes the name good again.
NameErrsOnlyForCause ==
  (Settled /\ ~misnamed /\ unheard = {}) =>
    /\ row # None /\ row.name = DisplayName(shown)
    /\ DisplayName(nio) = DisplayName(shown)

\* A live client has a room object for every room, so that send_message works, and
\* one marked encrypted if the room is, unless the row was never written or the
\* encryption was turned on after it.
SendWorksWhenLive ==
  Settled =>
    /\ nio = None => Bot \in unheard
    /\ nio # None /\ shown.encrypted /\ ~nio.encrypted => encryptedUnheard \/ Bot \in unheard

\* A room is called what a full-state sync would call it once everything has been
\* delivered to the callbacks: a restart leaves .name to "the next name/state sync",
\* and a message is stored with the "display name of the room".
NamedAsFromFullSync ==
  (Settled /\ unheard = {} /\ pending = <<>>) => DisplayName(nio) = DisplayName(shown)
=============================================================================
