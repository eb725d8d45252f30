--------------------------- MODULE RoomRosterProofs ---------------------------
(***************************************************************************)
(* The stored roster for every set of people, names and bounds: types, that*)
(* a member is missing or someone left over only if no callback was told,  *)
(* when a name is wrong, and that a live client can send.                  *)
(*                                                                         *)
(* The properties speak of a live client.  They become inductive because   *)
(* the difference between the table and the room of the sync token stays   *)
(* accounted for while the server is down, from the first full sync on.    *)
(***************************************************************************)
EXTENDS RoomRoster, TLAPS

\* The table holds all members and none but users of the room, except for those no
\* callback heard of.  An account that is not in the room says nothing of who is missing.
Accounted(table, room, lost) ==
  /\ table \ Users(room) \subseteq lost
  /\ Bot \in room.members => room.members \ table \subseteq lost

\* The account is in the room from its first join on; before that there is none.
InRoomOrNone ==
  \/ Bot \in shown.members /\ Bot \in current.members
  \/ Users(shown) = {} /\ Users(current) = {} /\ pending = <<>>

RosterInv ==
  /\ TypeOK
  /\ InRoomOrNone
  /\ pc # "down" \/ backfilled => Accounted(members, shown, unheard)

-----------------------------------------------------------------------------
(* Events *)

\* An event changes a room into a room.
LEMMA AfterIsRoom ==
  ASSUME NEW e \in Events, NEW r \in Rooms
  PROVE  After(e, r) \in Rooms
<1>1. CASE e \in [kind : {"name"}, name : Titles \cup {NoName}]
  BY <1>1 DEF After, Rooms
<1>2. CASE e \in [kind : {"invite", "join", "leave"}, who : People]
  BY <1>2 DEF After, Rooms
<1>3. CASE e = [kind |-> "encrypt"]
  BY <1>3 DEF After, Rooms
<1> QED
  BY <1>1, <1>2, <1>3 DEF Events

\* An event changes the membership of nobody but the one it names.
LEMMA AfterChangesOne ==
  ASSUME NEW e \in Events, NEW r \in Rooms
  PROVE  /\ e.kind \in {"invite", "join", "leave"} => e.who \in People
         /\ e.kind = "join" => /\ After(e, r).members = r.members \cup {e.who}
                               /\ Users(After(e, r)) = Users(r) \cup {e.who}
         /\ e.kind = "invite" => /\ After(e, r).members = r.members
                                 /\ Users(After(e, r)) = Users(r) \cup {e.who}
         /\ e.kind = "leave" => /\ After(e, r).members = r.members \ {e.who}
                                /\ Users(After(e, r)) = Users(r) \ {e.who}
         /\ e.kind \in {"name", "encrypt"} => /\ After(e, r).members = r.members
                                              /\ Users(After(e, r)) = Users(r)
         /\ e.kind \in {"name", "encrypt", "invite", "join", "leave"}
<1>1. CASE e \in [kind : {"name"}, name : Titles \cup {NoName}]
  BY <1>1 DEF After, Rooms, Users
<1>2. CASE e \in [kind : {"invite", "join", "leave"}, who : People]
  <2>1. e.who \in People /\ e.kind \in {"invite", "join", "leave"}
    BY <1>2
  <2>2. CASE e.kind = "join"
    BY <2>1, <2>2 DEF After, Rooms, Users
  <2>3. CASE e.kind = "invite"
    BY <2>1, <2>3 DEF After, Rooms, Users
  <2>4. CASE e.kind = "leave"
    BY <2>1, <2>4 DEF After, Rooms, Users
  <2> QED
    BY <2>1, <2>2, <2>3, <2>4
<1>3. CASE e = [kind |-> "encrypt"]
  BY <1>3 DEF After, Rooms, Users
<1> QED
  BY <1>1, <1>2, <1>3 DEF Events

\* A row made of a room is a row.
LEMMA RowOfRoom ==
  ASSUME NEW r \in Rooms
  PROVE  RowOf(r) \in Rows /\ DisplayName(r) \in Titles \cup SUBSET People
<1>1. DisplayName(r) \in Titles \cup SUBSET People
  BY DEF DisplayName, Rooms, Users
<1> QED
  BY <1>1 DEF RowOf, Rows, Rooms

\* The next event to be shown, and what is left.
LEMMA NextEvent ==
  ASSUME TypeOK, pending # <<>>
  PROVE  /\ Head(pending) \in Events /\ Tail(pending) \in Seq(Events)
         /\ Len(Tail(pending)) <= MaxPending
  BY RosterAssumption, SMT DEF TypeOK

-----------------------------------------------------------------------------
(* The invariant *)

LEMMA RosterInit == Init => RosterInv
<1> SUFFICES ASSUME Init PROVE RosterInv
  OBVIOUS
<1>1. shown \in Rooms /\ current \in Rooms
  <2>1. NoRoom \in Rooms
    BY DEF Rooms, NoRoom
  <2> QED
    BY <2>1 DEF Init, JoinedRooms
<1>2. pending \in Seq(Events) /\ Len(pending) <= MaxPending
  BY RosterAssumption, SMT DEF Init
<1>3. limits \in 0..MaxLimited /\ faults \in 0..MaxFaults
  BY RosterAssumption, SMT DEF Init
<1>4. InRoomOrNone
  BY DEF Init, InRoomOrNone, JoinedRooms, NoRoom, Users
<1> QED
  BY <1>1, <1>2, <1>3, <1>4 DEF Init, RosterInv, TypeOK

\* The homeserver, starts, restarts and ends.
LEMMA StartStep ==
  ASSUME RosterInv, (\E e \in Events : Happen(e)) \/ FullSync \/ GoLive \/ Resume \/ Down
  PROVE  RosterInv'
<1> USE DEF RosterInv
<1>1. CASE \E e \in Events : Happen(e)
  <2>1. pending' \in Seq(Events) /\ Len(pending') <= MaxPending
    BY <1>1, RosterAssumption, SMT DEF Happen, TypeOK
  <2>2. current' \in Rooms
    BY <1>1, AfterIsRoom DEF Happen, TypeOK
  <2>3. InRoomOrNone'
    <3>1. Bot \in shown.members /\ Bot \in current.members /\ shown' = shown
      BY <1>1 DEF Happen, Joined, InRoomOrNone, Users
    <3>2. Bot \in current'.members
      BY <1>1, <3>1, AfterChangesOne, RosterAssumption DEF Happen, TypeOK
    <3> QED
      BY <3>1, <3>2 DEF InRoomOrNone
  <2> QED
    BY <1>1, <2>1, <2>2, <2>3 DEF Happen, TypeOK, Accounted, serverVars, history
<1>2. CASE FullSync
  <2>1. shown' \in Rooms /\ RowOf(shown') \in Rows
    BY <1>2, RowOfRoom DEF FullSync, TypeOK
  <2>2. pending' \in Seq(Events) /\ Len(pending') <= MaxPending
    BY <1>2, RosterAssumption, SMT DEF FullSync
  <2>3. members' \in SUBSET (People \cup {Bot}) /\ unheard' \in SUBSET (People \cup {Bot})
    BY <1>2, <2>1 DEF FullSync, TypeOK, Populated, Rooms, Users
  <2>4. TypeOK'
    BY <1>2, <2>1, <2>2, <2>3 DEF FullSync, TypeOK
  <2>5. Accounted(members', shown', unheard')
    BY <1>2 DEF FullSync, Accounted, Populated, Users
  <2>6. InRoomOrNone'
    BY <1>2 DEF FullSync, InRoomOrNone
  <2> QED
    BY <2>4, <2>5, <2>6
<1>3. CASE GoLive
  BY <1>3 DEF GoLive, InRoomOrNone, TypeOK, Accounted, history
<1>4. CASE Resume
  <2>1. row # None => Restored \in Rooms
    BY <1>4 DEF Restored, TypeOK, Rooms, Rows
  <2>2. misnamed' \in BOOLEAN /\ unheard' \in SUBSET (People \cup {Bot})
    BY <1>4 DEF Resume, TypeOK, Rooms
  <2> QED
    BY <1>4, <2>1, <2>2 DEF Resume, InRoomOrNone, TypeOK, Accounted
<1>5. CASE Down
  BY <1>5 DEF Down, InRoomOrNone, TypeOK, Accounted, history
<1> QED
  BY <1>1, <1>2, <1>3, <1>4, <1>5

\* What every sync response does.
LEMMA Received ==
  ASSUME RosterInv, NEW e \in Events, Receive(e)
  PROVE  /\ shown' \in Rooms /\ nio' \in Rooms /\ current' \in Rooms
         /\ pending' \in Seq(Events) /\ Len(pending') <= MaxPending
         /\ shown' = After(e, shown) /\ pc = "live"
         /\ InRoomOrNone'
         /\ Accounted(members, shown, unheard)
<1>1. Known \in Rooms
  <2>1. NoRoom \in Rooms /\ [NoRoom EXCEPT !.encrypted = shown.encrypted] \in Rooms
    BY DEF NoRoom, Rooms, RosterInv, TypeOK
  <2> QED
    BY <2>1 DEF Known, RosterInv, TypeOK
<1>2. shown' \in Rooms /\ nio' \in Rooms
  BY <1>1, AfterIsRoom DEF Receive, RosterInv, TypeOK
<1>3. pending' \in Seq(Events) /\ Len(pending') <= MaxPending
  BY NextEvent DEF Receive, RosterInv
<1>4. InRoomOrNone'
  BY AfterChangesOne, RosterAssumption DEF Receive, InRoomOrNone, RosterInv, TypeOK
<1> QED
  BY <1>2, <1>3, <1>4 DEF Receive, RosterInv, TypeOK

\* A member event that reaches no callback leaves its member accounted for.
LEMMA UnheardAccounts ==
  ASSUME RosterInv, NEW e \in Events, Accounted(members, shown, unheard), Unheard(e)
  PROVE  /\ Accounted(members, After(e, shown), unheard')
         /\ unheard' \in SUBSET (People \cup {Bot})
         /\ misnamed' \in BOOLEAN /\ encryptedUnheard' \in BOOLEAN
<1>1. unheard' \in SUBSET (People \cup {Bot})
  BY AfterChangesOne DEF Unheard, RosterInv, TypeOK, Rooms
<1>2. misnamed' \in BOOLEAN /\ encryptedUnheard' \in BOOLEAN
  BY DEF Unheard, RosterInv, TypeOK
<1>3. Bot \in After(e, shown).members => Bot \in shown.members
  BY AfterChangesOne, RosterAssumption DEF RosterInv, TypeOK
<1>4. Accounted(members, After(e, shown), unheard')
  BY <1>3, AfterChangesOne DEF Unheard, Accounted, RosterInv, TypeOK
<1> QED
  BY <1>1, <1>2, <1>4

\* Sync responses, with or without callbacks.
LEMMA ResponseStep ==
  ASSUME RosterInv, Response \/ EventLost
  PROVE  RosterInv'
<1>1. ASSUME NEW e \in Events, OnRoomName(e) PROVE RosterInv'
  <2>1. row' \in Rows \cup {None}
    BY <1>1, Received, RowOfRoom DEF OnRoomName, RosterInv, TypeOK, Rows
  <2>2. misnamed' \in BOOLEAN
    BY <1>1 DEF OnRoomName, RosterInv, TypeOK
  <2>3. Accounted(members', shown', unheard')
    BY <1>1, Received, AfterChangesOne DEF OnRoomName, RosterInv, TypeOK, Accounted
  <2> QED
    BY <1>1, <2>1, <2>2, <2>3, Received DEF OnRoomName, RosterInv, TypeOK
<1>2. ASSUME NEW e \in Events, OnJoin(e) PROVE RosterInv'
  <2>1. row' \in Rows
    BY <1>2, Received, RowOfRoom DEF OnJoin
  <2>2. members' \in SUBSET (People \cup {Bot}) /\ unheard' \in SUBSET (People \cup {Bot})
    BY <1>2, AfterChangesOne DEF OnJoin, RosterInv, TypeOK, Rooms
  <2>3. Accounted(members', shown', unheard')
    <3>1. /\ shown'.members = shown.members \cup {e.who} /\ e.who # Bot
          /\ Users(shown') = Users(shown) \cup {e.who}
      BY <1>2, Received, AfterChangesOne, RosterAssumption DEF OnJoin, RosterInv, TypeOK
    <3> QED
      BY <1>2, <3>1, Received DEF OnJoin, Accounted
  <2>4. misnamed' \in BOOLEAN
    BY <1>2 DEF OnJoin, RosterInv, TypeOK
  <2> QED
    BY <1>2, <2>1, <2>2, <2>3, <2>4, Received DEF OnJoin, RosterInv, TypeOK
<1>3. ASSUME NEW e \in Events, OnLeave(e) PROVE RosterInv'
  <2>1. members' \in SUBSET (People \cup {Bot}) /\ unheard' \in SUBSET (People \cup {Bot})
    BY <1>3 DEF OnLeave, RosterInv, TypeOK
  <2>2. Accounted(members', shown', unheard')
    <3>1. /\ shown'.members = shown.members \ {e.who} /\ e.who # Bot
          /\ Users(shown') = Users(shown) \ {e.who}
      BY <1>3, Received, AfterChangesOne, RosterAssumption DEF OnLeave, RosterInv, TypeOK
    <3> QED
      BY <1>3, <3>1, Received DEF OnLeave, Accounted
  <2>3. misnamed' \in BOOLEAN
    BY <1>3 DEF OnLeave, RosterInv, TypeOK
  <2> QED
    BY <1>3, <2>1, <2>2, <2>3, Received DEF OnLeave, RosterInv, TypeOK
<1>4. ASSUME NEW e \in Events, OnInvite(e) \/ OnEncryption(e) PROVE RosterInv'
  BY <1>4, Received, UnheardAccounts DEF OnInvite, OnEncryption, RosterInv, TypeOK
<1>5. ASSUME NEW e \in Events, ReceiveAsState(e) PROVE RosterInv'
  <2>1. limits' \in 0..MaxLimited
    BY <1>5, RosterAssumption, SMT DEF ReceiveAsState, RosterInv, TypeOK
  <2> QED
    BY <1>5, <2>1, Received, UnheardAccounts DEF ReceiveAsState, RosterInv, TypeOK
<1>6. ASSUME NEW e \in Events, CallbackFails(e) PROVE RosterInv'
  <2>1. faults' \in 0..MaxFaults
    BY <1>6, RosterAssumption, SMT DEF CallbackFails, RosterInv, TypeOK
  <2>2. row' \in Rows \cup {None}
    BY <1>6, Received, RowOfRoom DEF CallbackFails, RosterInv, TypeOK
  <2> QED
    BY <1>6, <2>1, <2>2, Received, UnheardAccounts DEF CallbackFails, RosterInv, TypeOK
<1>7. CASE \E r \in JoinedRooms :
             \E timeline \in {{}} \cup {t \in SUBSET r.members : Bot \in t} : JoinRoom(r, timeline)
  <2>1. PICK r \in JoinedRooms :
           \E timeline \in {{}} \cup {t \in SUBSET r.members : Bot \in t} : JoinRoom(r, timeline)
    BY <1>7
  <2>2. PICK timeline \in SUBSET r.members : JoinRoom(r, timeline) /\ r \in Rooms /\ Bot \in r.members
    BY <2>1 DEF JoinedRooms
  <2>3. row' \in Rows \cup {None}
    BY <2>2, RowOfRoom DEF JoinRoom, RosterInv, TypeOK
  <2>4. members' \in SUBSET (People \cup {Bot}) /\ unheard' \in SUBSET (People \cup {Bot})
    BY <2>2 DEF JoinRoom, RosterInv, TypeOK, Rooms
  <2>5. Accounted(members', shown', unheard')
    <3>1. members \subseteq unheard
      BY <2>2 DEF JoinRoom, Joined, RosterInv, InRoomOrNone, Accounted
    <3> QED
      BY <2>2, <3>1 DEF JoinRoom, Accounted, Users
  <2>6. InRoomOrNone'
    BY <2>2 DEF JoinRoom, InRoomOrNone
  <2> QED
    BY <2>2, <2>3, <2>4, <2>5, <2>6 DEF JoinRoom, RosterInv, TypeOK
<1>8. CASE EventLost
  <2>1. Head(pending) \in Events /\ Accounted(members, shown, unheard)
    BY <1>8, NextEvent DEF EventLost, RosterInv
  <2>2. Accounted(members', shown', unheard') /\ shown' \in Rooms
    BY <1>8, <2>1, UnheardAccounts, AfterIsRoom DEF EventLost, RosterInv, TypeOK
  <2>3. faults' \in 0..MaxFaults
    BY <1>8, RosterAssumption, SMT DEF EventLost, RosterInv, TypeOK
  <2>4. TypeOK'
    BY <1>8, <2>1, <2>2, <2>3, NextEvent, UnheardAccounts DEF EventLost, RosterInv, TypeOK
  <2>5. InRoomOrNone'
    BY <1>8, <2>1, AfterChangesOne, RosterAssumption DEF EventLost, InRoomOrNone, RosterInv, TypeOK
  <2> QED
    BY <2>2, <2>4, <2>5 DEF RosterInv
<1> QED
  BY <1>1, <1>2, <1>3, <1>4, <1>5, <1>6, <1>7, <1>8 DEF Response

LEMMA RosterStep == RosterInv /\ [Next]_vars => RosterInv'
<1> SUFFICES ASSUME RosterInv, [Next]_vars PROVE RosterInv'
  OBVIOUS
<1>1. CASE Next
  BY <1>1, StartStep, ResponseStep DEF Next
<1>2. CASE UNCHANGED vars
  BY <1>2 DEF vars, serverVars, history, RosterInv, InRoomOrNone, TypeOK, Accounted
<1> QED
  BY <1>1, <1>2

-----------------------------------------------------------------------------
(* The theorems *)

\* Tables, room objects and the homeserver's view keep their types.
THEOREM RosterTypeCorrect == Spec => []TypeOK
<1>1. RosterInv => TypeOK
  BY DEF RosterInv
<1> QED
  BY <1>1, RosterInit, RosterStep, PTL DEF Spec

\* A live server lists all members and none but users of the room, except for those no
\* callback heard of, for any number of people, events (invites among them), restarts,
\* lost events and failing callbacks.
THEOREM RosterErrsOnlyUnheard == Spec => []MembersErrOnlyIfUnheard
<1>1. RosterInv => MembersErrOnlyIfUnheard
  BY DEF RosterInv, Accounted, MembersErrOnlyIfUnheard, InRoster, Settled, Joined
<1> QED
  BY <1>1, RosterInit, RosterStep, PTL DEF Spec

-----------------------------------------------------------------------------
(* The name and the encryption of the room                                 *)

\* A row or a room object speaks of the room from the first full sync on.
Tracked == pc # "down" \/ backfilled
AtWork == pc \in {"backfilling", "live"}

\* The name is the room's, or made of its other users but for the unheard.
NamedAs(name, room, lost) ==
  IF room.name # NoName THEN name = room.name
  ELSE /\ name \subseteq People
       /\ name \ Users(room) \subseteq lost
       /\ Users(room) \ ({Bot} \cup name) \subseteq lost

\* A room object has the users of the room but for the unheard.
SameUsers(r, room, lost) ==
  /\ Users(r) \ Users(room) \subseteq lost
  /\ Users(room) \ Users(r) \subseteq lost

KeepsEncryption(r) == shown.encrypted /\ ~r.encrypted => encryptedUnheard \/ Bot \in unheard

\* What the row says of the room.
RowInv ==
  Tracked /\ Joined /\ row # None =>
    KeepsEncryption(row) /\ (misnamed \/ NamedAs(row.name, shown, unheard))

\* What nio's room object says of it; where there is none, what the empty one would.
ObjectInv ==
  AtWork /\ Joined =>
    /\ nio = None => row = None
    /\ KeepsEncryption(Known)
    /\ misnamed \/ Known.name = shown.name
    /\ SameUsers(Known, shown, unheard)

\* A room without a row has no members either; it never was joined, or its
\* events have reached no callback.
AbsenceInv ==
  /\ pc = "down" => nio = None
  /\ row = None => members = {}
  /\ ~Joined => row = None

RoomInv == RowInv /\ ObjectInv /\ AbsenceInv

\* Which part of a room an event changes.
LEMMA AfterChangesField ==
  ASSUME NEW e \in Events, NEW r \in Rooms
  PROVE  /\ After(e, r).name = IF e.kind = "name" THEN e.name ELSE r.name
         /\ After(e, r).encrypted = (e.kind = "encrypt" \/ r.encrypted)
<1>1. CASE e \in [kind : {"name"}, name : Titles \cup {NoName}]
  BY <1>1 DEF After, Rooms
<1>2. CASE e \in [kind : {"invite", "join", "leave"}, who : People]
  BY <1>2 DEF After, Rooms
<1>3. CASE e = [kind |-> "encrypt"]
  BY <1>3 DEF After, Rooms
<1> QED
  BY <1>1, <1>2, <1>3 DEF Events

\* The members whose account an event settles.
Settles(e) == IF e.kind \in {"join", "leave"} THEN {e.who} ELSE {}

LEMMA KnownIsRoom ==
  ASSUME RosterInv
  PROVE  /\ Known \in Rooms
         /\ nio = None => Users(Known) = {} /\ Known.encrypted = shown.encrypted
                          /\ Known.name = NoName
         /\ nio # None => Known = nio
<1>1. NoRoom \in Rooms /\ [NoRoom EXCEPT !.encrypted = shown.encrypted] \in Rooms
  BY DEF NoRoom, Rooms, RosterInv, TypeOK
<1> QED
  BY <1>1 DEF Known, NoRoom, RosterInv, TypeOK, Users

\* What a response does to nio's room, whether a callback hears of it or not.
LEMMA ObjectAfter ==
  ASSUME RosterInv, ObjectInv, NEW e \in Events, Receive(e)
  PROVE  /\ Joined /\ Joined' /\ Tracked /\ AtWork /\ nio' # None
         /\ Known' = nio'
         /\ shown'.encrypted /\ ~nio'.encrypted => encryptedUnheard \/ Bot \in unheard
         /\ e.kind = "name" => nio'.name = e.name /\ shown'.name = e.name
         /\ e.kind # "name" => nio'.name = Known.name /\ shown'.name = shown.name
         /\ ~misnamed \/ e.kind = "name" => nio'.name = shown'.name
         /\ \A lost : unheard \ Settles(e) \subseteq lost =>
              SameUsers(nio', shown', lost)
<1>1. /\ Known \in Rooms /\ shown \in Rooms /\ Bot \in shown.members /\ pc = "live"
      /\ nio' = After(e, Known) /\ shown' = After(e, shown)
  BY KnownIsRoom DEF Receive, RosterInv, TypeOK, InRoomOrNone
<1>2. nio' \in Rooms /\ nio' # None
  BY <1>1, AfterIsRoom, RosterAssumption
<1>3. Bot \in shown'.members
  BY <1>1, AfterChangesOne, RosterAssumption
<1>4. /\ SameUsers(Known, shown, unheard) /\ KeepsEncryption(Known)
      /\ misnamed \/ Known.name = shown.name
  BY <1>1 DEF ObjectInv, AtWork, Joined
<1>5. ASSUME NEW lost, unheard \ Settles(e) \subseteq lost
      PROVE  SameUsers(nio', shown', lost)
  BY <1>1, <1>4, <1>5, AfterChangesOne DEF SameUsers, Settles
<1>6. Known' = nio'
  BY <1>2 DEF Known
<1>7. /\ e.kind = "name" => nio'.name = e.name /\ shown'.name = e.name
      /\ e.kind # "name" => nio'.name = Known.name /\ shown'.name = shown.name
      /\ shown'.encrypted /\ ~nio'.encrypted => shown.encrypted /\ ~Known.encrypted
  BY <1>1, AfterChangesField
<1> QED
  BY <1>1, <1>2, <1>3, <1>4, <1>5, <1>6, <1>7 DEF Joined, Tracked, AtWork, KeepsEncryption

\* A row made of a room object that has the room's name is named as the room.
LEMMA RowIsNamed ==
  ASSUME NEW r \in Rooms, NEW room \in Rooms, NEW lost,
         r.name = room.name, SameUsers(r, room, lost)
  PROVE  NamedAs(DisplayName(r), room, lost)
BY DEF NamedAs, DisplayName, SameUsers, Users, Rooms

LEMMA RoomInit == Init => RoomInv
BY DEF Init, RoomInv, RowInv, ObjectInv, AbsenceInv, Tracked, AtWork

\* The homeserver, starts, restarts and ends.
LEMMA RoomStartStep ==
  ASSUME RosterInv, RosterInv', RoomInv,
         (\E e \in Events : Happen(e)) \/ FullSync \/ GoLive \/ Resume \/ Down
  PROVE  RoomInv'
<1> USE DEF RoomInv
<1>1. CASE \E e \in Events : Happen(e)
  BY <1>1 DEF Happen, serverVars, history, RowInv, ObjectInv, AbsenceInv, Tracked, AtWork,
              Joined, NamedAs, KeepsEncryption, SameUsers, Known
<1>2. CASE FullSync
  <2>1. CASE Bot \in shown'.members
    <3>1. /\ shown' \in Rooms /\ nio' = shown' /\ row' = RowOf(shown') /\ pc' = "backfilling"
          /\ nio' # None /\ Joined' /\ RowOf(shown') # None
      BY <1>2, <2>1, RowOfRoom, RosterAssumption DEF FullSync, Joined, RosterInv, TypeOK
    <3>2. Known' = shown'
      BY <3>1 DEF Known
    <3>3. RowOf(shown').name = DisplayName(shown') /\ RowOf(shown').encrypted = shown'.encrypted
      BY DEF RowOf
    <3>4. NamedAs(row'.name, shown', unheard')
      <4>1. shown'.name # NoName => row'.name = shown'.name
        BY <3>1, <3>3 DEF DisplayName
      <4>2. shown'.name = NoName => row'.name = Users(shown') \ {Bot}
        BY <3>1, <3>3 DEF DisplayName
      <4>3. Users(shown') \subseteq People \cup {Bot}
        BY <3>1 DEF Rooms, Users
      <4> QED BY <4>1, <4>2, <4>3 DEF NamedAs
    <3>5. SameUsers(shown', shown', unheard')
      BY DEF SameUsers
    <3>6. RowInv'
      BY <3>1, <3>3, <3>4 DEF RowInv, KeepsEncryption
    <3>7. ObjectInv'
      BY <3>1, <3>2, <3>5 DEF ObjectInv, KeepsEncryption
    <3>8. AbsenceInv'
      BY <3>1 DEF AbsenceInv
    <3> QED BY <3>6, <3>7, <3>8
  <2>2. CASE Bot \notin shown'.members
    <3>1. ~Joined' /\ ~Joined /\ pc' = "backfilling" /\ UNCHANGED <<row, members>>
      BY <1>2, <2>2 DEF FullSync, Joined, RosterInv, InRoomOrNone, Users
    <3> QED BY <3>1 DEF RowInv, ObjectInv, AbsenceInv
  <2> QED BY <2>1, <2>2
<1>3. CASE GoLive
  BY <1>3 DEF GoLive, history, RowInv, ObjectInv, AbsenceInv, Tracked, AtWork,
              Joined, NamedAs, KeepsEncryption, SameUsers, Known
<1>4. CASE Resume
  <2>1. /\ UNCHANGED <<row, members, shown, encryptedUnheard>> /\ Tracked
        /\ unheard' = unheard \cup (shown.invited \ members) /\ shown \in Rooms
        /\ nio' = IF row = None THEN None ELSE Restored
        /\ misnamed' = (misnamed \/ shown.name # NoName) /\ pc' = "live"
        /\ Accounted(members, shown, unheard)
    BY <1>4 DEF Resume, Tracked, RosterInv, TypeOK
  <2>2. RowInv'
    BY <2>1 DEF RowInv, Joined, KeepsEncryption, NamedAs
  <2>3. AbsenceInv'
    BY <2>1 DEF AbsenceInv, Joined
  <2>4. ASSUME Joined PROVE
          /\ nio' = None => row = None
          /\ KeepsEncryption(Known)'
          /\ misnamed' \/ Known'.name = shown.name
          /\ SameUsers(Known', shown, unheard')
    <3>1. CASE row = None
      <4>1. nio' = None
        BY <2>1, <3>1
      <4>2. Users(Known') = {} /\ Known'.encrypted = shown'.encrypted /\ Known'.name = NoName
        BY <4>1 DEF Known, NoRoom, Users
      <4>3. members = {}
        BY <3>1 DEF AbsenceInv
      <4>4. Users(shown) \subseteq unheard'
        BY <2>1, <2>4, <4>3 DEF Accounted, Joined, Users
      <4> QED BY <2>1, <3>1, <4>2, <4>4 DEF KeepsEncryption, SameUsers
    <3>2. CASE row # None
      <4>1. /\ Restored \in Rooms /\ Restored.name = NoName /\ Users(Restored) = members
            /\ Restored.encrypted = row.encrypted
        BY <3>2 DEF Restored, RosterInv, TypeOK, Rooms, Rows, Users
      <4>2. Restored # None
        BY <4>1, RosterAssumption
      <4>3. Known' = Restored
        BY <2>1, <3>2, <4>2 DEF Known
      <4>4. KeepsEncryption(row)
        BY <2>1, <2>4, <3>2 DEF RowInv
      <4>5. SameUsers(Restored, shown, unheard')
        BY <2>1, <2>4, <4>1 DEF Accounted, SameUsers, Joined, Users
      <4> QED BY <2>1, <3>2, <4>1, <4>2, <4>3, <4>4, <4>5 DEF KeepsEncryption
    <3> QED BY <3>1, <3>2
  <2>5. ObjectInv'
    BY <2>1, <2>4 DEF ObjectInv, Joined
  <2> QED BY <2>2, <2>3, <2>5
<1>5. CASE Down
  BY <1>5 DEF Down, history, RowInv, ObjectInv, AbsenceInv, Tracked, AtWork,
              Joined, NamedAs, KeepsEncryption
<1> QED
  BY <1>1, <1>2, <1>3, <1>4, <1>5

\* An event that no callback writes: the row says what it said.
LEMMA RowUnheard ==
  ASSUME RosterInv, NEW e \in Events, Unheard(e), RowInv, Tracked, Joined, row # None,
         shown' = After(e, shown), row' = row
  PROVE  /\ shown'.encrypted /\ ~row.encrypted => encryptedUnheard' \/ Bot \in unheard'
         /\ misnamed' \/ NamedAs(row'.name, shown', unheard')
<1>1. KeepsEncryption(row) /\ (misnamed \/ NamedAs(row.name, shown, unheard))
  BY DEF RowInv
<1>2. shown \in Rooms
  BY DEF RosterInv, TypeOK
<1>3. unheard \subseteq unheard'
  BY DEF Unheard
<1>4. shown'.encrypted /\ ~row.encrypted => encryptedUnheard' \/ Bot \in unheard'
  BY <1>1, <1>2, <1>3, AfterChangesField DEF KeepsEncryption, Unheard
<1>5. ASSUME ~misnamed' PROVE NamedAs(row'.name, shown', unheard')
  <2>1. ~misnamed /\ e.kind # "name" /\ (e.kind = "encrypt" \/ shown.name # NoName)
    BY <1>5 DEF Unheard
  <2>2. shown'.name = shown.name
    BY <1>2, <2>1, AfterChangesField
  <2>3. e.kind = "encrypt" => Users(shown') = Users(shown)
    BY <1>2, AfterChangesOne
  <2> QED BY <1>1, <1>3, <2>1, <2>2, <2>3 DEF NamedAs
<1> QED BY <1>4, <1>5

\* The room object after a response, once it is known which account it settles.
LEMMA ObjectStep ==
  ASSUME RosterInv, ObjectInv, NEW e \in Events, Receive(e), unheard \ Settles(e) \subseteq unheard',
         encryptedUnheard => encryptedUnheard', misnamed => misnamed' \/ nio'.name = shown'.name
  PROVE  ObjectInv'
<1>1. Bot \in unheard => Bot \in unheard'
  BY AfterChangesOne, RosterAssumption DEF Settles, RosterInv, TypeOK
<1> QED BY <1>1, ObjectAfter DEF ObjectInv, KeepsEncryption

\* The row after a response that leaves a row: it says what the room object says.
LEMMA RowFromObject ==
  ASSUME RosterInv, ObjectInv, NEW e \in Events, Receive(e), RosterInv',
         unheard \ Settles(e) \subseteq unheard', ~misnamed \/ nio'.name = shown'.name
  PROVE  NamedAs(DisplayName(nio'), shown', unheard')
<1>1. Joined' /\ shown' \in Rooms /\ nio' \in Rooms
  BY ObjectAfter, Received DEF RosterInv, TypeOK
<1>2. nio'.name = shown'.name /\ SameUsers(nio', shown', unheard')
  BY ObjectAfter
<1> QED BY <1>1, <1>2, RowIsNamed DEF Joined

\* A response whose callback leaves the row alone.
LEMMA RowAfterUnheard ==
  ASSUME RosterInv, RoomInv, NEW e \in Events, Receive(e), Unheard(e), UNCHANGED <<row, members>>,
         pc' # "down"
  PROVE  RoomInv'
<1>1. shown' = After(e, shown) /\ Joined /\ Joined' /\ Tracked
  BY ObjectAfter DEF Receive, RoomInv
<1>2. RowInv'
  BY <1>1, RowUnheard DEF RoomInv, RowInv, KeepsEncryption
<1>3. unheard \subseteq unheard' /\ (encryptedUnheard => encryptedUnheard') /\ (misnamed => misnamed')
  BY DEF Unheard
<1>4. ObjectInv'
  BY <1>3, ObjectStep DEF RoomInv
<1>5. AbsenceInv'
  BY <1>1 DEF RoomInv, AbsenceInv
<1> QED BY <1>2, <1>4, <1>5 DEF RoomInv

\* Sync responses, with or without callbacks.
LEMMA RoomResponseStep ==
  ASSUME RosterInv, RosterInv', RoomInv, Response \/ EventLost
  PROVE  RoomInv'
<1>1. ASSUME NEW e \in Events, OnRoomName(e) PROVE RoomInv'
  <2>1. /\ Receive(e) /\ e.kind = "name" /\ pc' = "live" /\ misnamed' = (misnamed /\ e.name = NoName)
        /\ UNCHANGED <<members, unheard, encryptedUnheard>>
        /\ row' = IF row = None THEN None ELSE [row EXCEPT !.name = DisplayName(nio')]
    BY <1>1 DEF OnRoomName, Receive
  <2>2. Settles(e) = {} /\ Joined /\ Joined' /\ Tracked /\ nio'.name = shown'.name
    BY <2>1, ObjectAfter DEF Settles, RoomInv
  <2>3. ObjectInv'
    BY <2>1, <2>2, ObjectStep DEF RoomInv
  <2>4. AbsenceInv'
    <3>1. DisplayName(nio') \in Titles \cup SUBSET People
      BY <2>1, Received, RowOfRoom
    <3>2. row # None => row' \in Rows
      BY <2>1, <3>1 DEF RosterInv, TypeOK, Rows
    <3> QED BY <2>1, <2>2, <3>2, RosterAssumption DEF RoomInv, AbsenceInv
  <2>5. ASSUME row # None PROVE
          /\ shown'.encrypted /\ ~row'.encrypted => encryptedUnheard' \/ Bot \in unheard'
          /\ NamedAs(row'.name, shown', unheard')
    <3>1. row \in Rows /\ row'.name = DisplayName(nio') /\ row'.encrypted = row.encrypted
      BY <2>1, <2>5 DEF RosterInv, TypeOK, Rows
    <3>2. NamedAs(DisplayName(nio'), shown', unheard')
      BY <2>1, <2>2, RowFromObject DEF RoomInv
    <3>3. KeepsEncryption(row)
      BY <2>2, <2>5 DEF RoomInv, RowInv
    <3>4. shown'.encrypted = shown.encrypted
      BY <2>1, AfterChangesField DEF Receive, RosterInv, TypeOK, Rooms
    <3> QED BY <2>1, <3>1, <3>2, <3>3, <3>4 DEF KeepsEncryption
  <2>6. RowInv'
    BY <2>1, <2>5 DEF RowInv, KeepsEncryption
  <2> QED BY <2>3, <2>4, <2>6 DEF RoomInv
<1>2. ASSUME NEW e \in Events, OnJoin(e) PROVE RoomInv'
  <2>1. /\ Receive(e) /\ e.kind = "join" /\ pc' = "live" /\ row' = RowOf(nio')
        /\ unheard' = unheard \ {e.who} /\ UNCHANGED encryptedUnheard
        /\ misnamed' = (misnamed /\ nio'.name # shown'.name)
    BY <1>2 DEF OnJoin, Receive
  <2>2. /\ Settles(e) = {e.who} /\ Joined /\ Joined' /\ nio' \in Rooms /\ e.who # Bot
    BY <2>1, ObjectAfter, Received, AfterChangesOne, RosterAssumption
       DEF Settles, RoomInv, RosterInv, TypeOK
  <2>3. ObjectInv'
    BY <2>1, <2>2, ObjectStep DEF RoomInv
  <2>4. row' # None
    BY <2>1, <2>2, RowOfRoom, RosterAssumption
  <2>5. AbsenceInv'
    BY <2>1, <2>2, <2>4 DEF AbsenceInv
  <2>6. row'.name = DisplayName(nio') /\ row'.encrypted = nio'.encrypted
    BY <2>1 DEF RowOf
  <2>7. misnamed' \/ NamedAs(row'.name, shown', unheard')
    BY <2>1, <2>2, <2>6, RowFromObject DEF RoomInv
  <2>8. shown'.encrypted /\ ~row'.encrypted => encryptedUnheard' \/ Bot \in unheard'
    BY <2>1, <2>2, <2>6, ObjectAfter DEF RoomInv
  <2>9. RowInv'
    BY <2>7, <2>8 DEF RowInv, KeepsEncryption
  <2> QED BY <2>3, <2>5, <2>9 DEF RoomInv
<1>3. ASSUME NEW e \in Events, OnLeave(e) PROVE RoomInv'
  <2>1. /\ Receive(e) /\ e.kind = "leave" /\ pc' = "live" /\ UNCHANGED <<row, encryptedUnheard>>
        /\ members' = members \ {e.who} /\ unheard' = unheard \ {e.who}
        /\ misnamed' = (misnamed \/ shown.name = NoName)
    BY <1>3 DEF OnLeave, Receive
  <2>2. /\ Settles(e) = {e.who} /\ Joined /\ Joined' /\ Tracked /\ e.who # Bot
    BY <2>1, ObjectAfter, AfterChangesOne, RosterAssumption
       DEF Settles, RoomInv, RosterInv, TypeOK
  <2>3. ObjectInv'
    BY <2>1, <2>2, ObjectStep DEF RoomInv
  <2>4. AbsenceInv'
    BY <2>1, <2>2 DEF RoomInv, AbsenceInv
  <2>5. shown'.name = shown.name /\ shown'.encrypted = shown.encrypted
    BY <2>1, AfterChangesField DEF Receive, RosterInv, TypeOK, Rooms
  <2>6. RowInv'
    BY <2>1, <2>2, <2>5 DEF RoomInv, RowInv, KeepsEncryption, NamedAs
  <2> QED BY <2>3, <2>4, <2>6 DEF RoomInv
<1>4. ASSUME NEW e \in Events, OnInvite(e) \/ OnEncryption(e) \/ ReceiveAsState(e)
      PROVE  RoomInv'
  <2>1. Receive(e) /\ Unheard(e) /\ UNCHANGED <<row, members>> /\ pc' = "live"
    BY <1>4 DEF OnInvite, OnEncryption, ReceiveAsState, Receive
  <2> QED BY <2>1, RowAfterUnheard
<1>5. ASSUME NEW e \in Events, CallbackFails(e) PROVE RoomInv'
  <2>1. /\ Receive(e) /\ Unheard(e) /\ UNCHANGED members /\ pc' = "dead"
        /\ row' = row \/ (e.kind = "join" /\ row' = RowOf(nio'))
    BY <1>5 DEF CallbackFails, Receive
  <2>2. CASE row' = row
    BY <2>1, <2>2, RowAfterUnheard
  <2>3. CASE e.kind = "join" /\ row' = RowOf(nio')
    <3>1. /\ unheard \subseteq unheard' /\ (misnamed => misnamed')
          /\ (encryptedUnheard => encryptedUnheard')
      BY <2>1 DEF Unheard
    <3>2. Joined' /\ nio' \in Rooms
      BY <2>1, ObjectAfter, Received DEF RoomInv
    <3>3. row' # None
      BY <2>3, <3>2, RowOfRoom, RosterAssumption
    <3>4. row'.name = DisplayName(nio') /\ row'.encrypted = nio'.encrypted
      BY <2>3 DEF RowOf
    <3>5. misnamed' \/ NamedAs(row'.name, shown', unheard')
      BY <2>1, <3>1, <3>4, RowFromObject DEF RoomInv
    <3>6. shown'.encrypted /\ ~row'.encrypted => encryptedUnheard' \/ Bot \in unheard'
      BY <2>1, <3>1, <3>4, ObjectAfter DEF RoomInv
    <3> QED BY <2>1, <3>2, <3>3, <3>5, <3>6
            DEF RoomInv, RowInv, KeepsEncryption, AbsenceInv, ObjectInv, AtWork
  <2> QED BY <2>1, <2>2, <2>3
<1>6. CASE \E r \in JoinedRooms :
             \E timeline \in {{}} \cup {t \in SUBSET r.members : Bot \in t} : JoinRoom(r, timeline)
  <2>1. PICK r \in JoinedRooms :
           \E timeline \in {{}} \cup {t \in SUBSET r.members : Bot \in t} : JoinRoom(r, timeline)
    BY <1>6
  <2>2. PICK timeline \in SUBSET r.members : JoinRoom(r, timeline) /\ r \in Rooms /\ Bot \in r.members
    BY <2>1 DEF JoinedRooms
  <2>3. /\ pc' = "live" /\ shown' = r /\ nio' = r /\ r # None /\ Joined' /\ ~Joined
        /\ unheard' = (unheard \cup r.members) \ timeline
        /\ r \in Rooms /\ Bot \in r.members
    BY <2>1, <2>2, RosterAssumption DEF JoinRoom, Joined
  <2>4. Known' = r
    BY <2>3 DEF Known
  <2>5. SameUsers(r, r, unheard')
    BY DEF SameUsers
  <2>6. ObjectInv'
    BY <2>3, <2>4, <2>5 DEF ObjectInv, KeepsEncryption
  <2>7. row = None /\ members = {}
    BY <2>3 DEF RoomInv, AbsenceInv
  <2>8. CASE timeline = {}
    BY <2>2, <2>3, <2>6, <2>7, <2>8 DEF JoinRoom, RoomInv, RowInv, AbsenceInv
  <2>9. CASE timeline # {}
    <3>1. row' = RowOf(r) /\ row' # None
      BY <2>2, <2>3, <2>9, RowOfRoom, RosterAssumption DEF JoinRoom
    <3>2. row'.name = DisplayName(r) /\ row'.encrypted = r.encrypted
      BY <3>1 DEF RowOf
    <3>3. NamedAs(DisplayName(r), r, unheard')
      BY <2>3, <2>5, RowIsNamed
    <3> QED BY <2>3, <2>6, <3>1, <3>2, <3>3 DEF RoomInv, RowInv, AbsenceInv, KeepsEncryption
  <2> QED BY <2>8, <2>9
<1>7. CASE EventLost
  <2> DEFINE e == Head(pending)
  <2>1. /\ e \in Events /\ Unheard(e) /\ shown' = After(e, shown) /\ pc \in {"live", "dead"}
        /\ UNCHANGED <<row, members>> /\ nio' = None /\ pc' = "down" /\ pending # <<>>
    BY <1>7, NextEvent DEF EventLost, RosterInv
  <2>2. Joined /\ Joined' /\ Tracked
    BY <2>1, AfterChangesOne, RosterAssumption
       DEF Joined, Tracked, RosterInv, InRoomOrNone, TypeOK
  <2> HIDE DEF e
  <2>3. RowInv'
    BY <2>1, <2>2, RowUnheard DEF RoomInv, RowInv, KeepsEncryption
  <2> QED BY <2>1, <2>2, <2>3 DEF RoomInv, ObjectInv, AtWork, AbsenceInv
<1> QED
  BY <1>1, <1>2, <1>3, <1>4, <1>5, <1>6, <1>7 DEF Response

LEMMA RoomStep == RosterInv /\ RosterInv' /\ RoomInv /\ [Next]_vars => RoomInv'
<1> SUFFICES ASSUME RosterInv, RosterInv', RoomInv, [Next]_vars PROVE RoomInv'
  OBVIOUS
<1>1. CASE Next
  BY <1>1, RoomStartStep, RoomResponseStep DEF Next
<1>2. CASE UNCHANGED vars
  BY <1>2 DEF vars, serverVars, history, RoomInv, RowInv, ObjectInv, AbsenceInv, Tracked, AtWork,
              Joined, KeepsEncryption, Known
<1> QED
  BY <1>1, <1>2

LEMMA RoomHolds == Spec => [](RosterInv /\ RoomInv)
BY RosterInit, RosterStep, RoomInit, RoomStep, PTL DEF Spec

\* The stored name and the name nio makes are those of a full-state sync, but for
\* the causes the property names, for any number of people, names and restarts.
THEOREM NamesErrForCause == Spec => []NameErrsOnlyForCause
<1>1. RosterInv /\ RoomInv => NameErrsOnlyForCause
  <2> SUFFICES ASSUME RosterInv, RoomInv, Settled, ~misnamed, unheard = {}
      PROVE  /\ row # None /\ row.name = DisplayName(shown)
             /\ DisplayName(nio) = DisplayName(shown)
    BY DEF NameErrsOnlyForCause
  <2>1. Tracked /\ AtWork /\ Joined /\ Accounted(members, shown, {})
    BY DEF Settled, Tracked, AtWork, RosterInv
  <2>2. row # None
    BY <2>1 DEF RoomInv, AbsenceInv, Accounted, Joined
  <2>3. row.name = DisplayName(shown)
    <3>1. NamedAs(row.name, shown, {})
      BY <2>1, <2>2 DEF RoomInv, RowInv
    <3> QED BY <2>1, <3>1, RosterAssumption DEF NamedAs, DisplayName, Joined
  <2>4. nio # None /\ Known = nio
    BY <2>1, <2>2, KnownIsRoom DEF RoomInv, ObjectInv
  <2>5. nio.name = shown.name /\ SameUsers(nio, shown, {})
    BY <2>1, <2>4 DEF RoomInv, ObjectInv
  <2>6. Users(nio) = Users(shown)
    BY <2>5 DEF SameUsers
  <2> QED BY <2>2, <2>3, <2>5, <2>6 DEF DisplayName
<1> QED BY RoomHolds, <1>1, PTL

\* A live client can send to every room it is in, and encrypts in the encrypted
\* ones, unless the row was never written or the encryption came after it.
THEOREM SendsWhenLive == Spec => []SendWorksWhenLive
<1>1. RosterInv /\ RoomInv => SendWorksWhenLive
  <2> SUFFICES ASSUME RosterInv, RoomInv, Settled PROVE
        /\ nio = None => Bot \in unheard
        /\ nio # None /\ shown.encrypted /\ ~nio.encrypted => encryptedUnheard \/ Bot \in unheard
    BY DEF SendWorksWhenLive
  <2>1. AtWork /\ Joined /\ Accounted(members, shown, unheard)
    BY DEF Settled, AtWork, RosterInv
  <2>2. nio = None => members = {}
    BY <2>1 DEF RoomInv, ObjectInv, AbsenceInv
  <2>3. nio = None => Bot \in unheard
    BY <2>1, <2>2 DEF Accounted, Joined
  <2>4. nio # None => KeepsEncryption(nio)
    BY <2>1, KnownIsRoom DEF RoomInv, ObjectInv
  <2> QED BY <2>3, <2>4 DEF KeepsEncryption
<1> QED BY RoomHolds, <1>1, PTL
=============================================================================
