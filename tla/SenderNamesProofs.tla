--------------------------- MODULE SenderNamesProofs ---------------------------
(***************************************************************************)
(* Display names for every set of members, messages and names, and for     *)
(* every choice of what may fail: types, that a real name is never         *)
(* downgraded, and, unless the script runs beside the server, what         *)
(* SQLite, Qdrant and the roster may disagree about.                       *)
(*                                                                         *)
(* The argument rests on one thing being done at a time.  Whoever renames  *)
(* does so with no record in hand, so a record always carries the name of  *)
(* its row, and a point differs from its row only between the two writes   *)
(* of a rename or after a rename that was cut there.  Last, under which    *)
(* conditions the names agree without exception.                           *)
(***************************************************************************)
EXTENDS SenderNames, TLAPS

\* What is in hand exists.
InHand ==
  /\ \A p \in Processes : step[p] # "idle" => fix[p] \in Fixes
  /\ \A m \in unindexed : row[m] # None

TypeInv == TypeOK /\ InHand

\* No fix carries the localpart.
FixesAreReal ==
  \A p \in Processes :
    /\ \A f \in fixes[p] : f[2] # Fallback
    /\ step[p] # "idle" => fix[p][2] # Fallback

\* One thing at a time: a record is indexed with no rename under way, and the
\* script works only while the server is down.
OneAtATime ==
  /\ pc = "down" => record = None /\ step["server"] = "idle" /\ fixes["server"] = {}
  /\ pending # {} => pc = "retry"
  /\ record # None => pc \in {"backfill", "retry", "live"} /\ step["server"] = "idle"
  /\ step["server"] # "idle" => pc \in {"reconcile", "live"}
  /\ fixes["server"] # {} => pc = "reconcile"
  /\ pc # "down" \/ Script = "never" => ScriptIdle

\* A record has the name of its row, however long it has been pending.
RecordsAreCurrent ==
  /\ record # None => row[record[1]] = record[2]
  /\ \A r \in pending : row[r[1]] = r[2]

\* A point has the name of its row, except between the two writes of a rename, when
\* it has the new one, and after a rename was cut there.
PointsFollow ==
  \A m \in Messages : point[m] # None =>
    /\ row[m] # None
    /\ Author[m] \in torn \/ point[m] = row[m]
         \/ \E p \in Processes : step[p] = "sqlite" /\ fix[p][1] = Author[m]
    /\ \A p \in Processes :
         step[p] = "sqlite" /\ fix[p][1] = Author[m] /\ Author[m] \notin torn
           => point[m] = fix[p][2]

\* Every difference between SQLite and the roster that the server has not failed to
\* repair is still on its list, but for members whose name it was not told.
OnTheList(u) ==
  \/ \A m \in By(u) : row[m] \in {None, roster[u]}
  \/ <<u, roster[u]>> \in fixes["server"]
  \/ step["server"] # "idle" /\ fix["server"] = <<u, roster[u]>>

RosterFollowed ==
  /\ pc # "down" => \A u \in Members \ unheard : Known(u) => users[u] \in {Gone, roster[u]}
  /\ pc \notin {"down", "live"} => unheard = {}
  /\ \A f \in fixes["server"] : f[2] = roster[f[1]]
  /\ step["server"] # "idle" => fix["server"][2] = roster[fix["server"][1]]
  /\ pc \in {"reconcile", "live"} => \A u \in Members \ (failed \cup unheard) : Known(u) => OnTheList(u)

NamesInv == TypeInv /\ OneAtATime /\ RecordsAreCurrent /\ PointsFollow /\ RosterFollowed

\* Members, and who wrote a message.
LEMMA Authors == \A m \in Messages : Author[m] \in Members
  BY NamesAssumption

\* Nothing is stored at first.
LEMMA TypeInit == Init => TypeInv
  BY DEF Init, TypeInv, TypeOK, InHand, Names, Processes

-----------------------------------------------------------------------------
(* Types *)

\* Fixes and pending records are read from well-typed tables.
LEMMA Queries ==
  ASSUME TypeInv
  PROVE  FixesDue \subseteq Fixes /\ PendingRecords \subseteq Records
<1>1. \A u \in Members : Known(u) => roster[u] \in Names
  BY DEF Known, TypeInv, TypeOK
<1>2. FixesDue \subseteq Fixes
  BY <1>1 DEF FixesDue, Fixes
<1>3. \A m \in unindexed : m \in Messages /\ row[m] \in Names
  BY DEF TypeInv, TypeOK, InHand
<1>4. PendingRecords \subseteq Records
  BY <1>3 DEF PendingRecords, Records
<1> QED
  BY <1>2, <1>4

\* start() keeps the types.
LEMMA StartTypes ==
  ASSUME TypeInv,
         ImportKeys \/ RestoreRooms \/ PopulateRooms \/ EndBackfill \/ TakePending
           \/ Reconcile \/ ReconcileFails \/ GoLive \/ StartScript
  PROVE  TypeInv'
<1> USE DEF TypeInv, TypeOK, InHand, stores, sentinels, indexing, applying, history
<1>1. CASE ImportKeys
  BY <1>1 DEF ImportKeys
<1>2. CASE RestoreRooms
  BY <1>2, Queries DEF RestoreRooms
<1>3. CASE PopulateRooms
  <2>1. PICK state \in [Members -> Names \cup {Gone}] :
          /\ users' = state
          /\ roster' = [u \in Members |-> IF state[u] = Gone THEN roster[u] ELSE state[u]]
    BY <1>3 DEF PopulateRooms
  <2>2. roster' \in [Members -> Names \cup {Gone}]
    BY <2>1
  <2> QED
    BY <1>3, <2>1, <2>2 DEF PopulateRooms
<1>4. CASE EndBackfill
  BY <1>4, Queries DEF EndBackfill
<1>5. CASE TakePending
  BY <1>5 DEF TakePending
<1>6. CASE Reconcile
  BY <1>6, Queries DEF Reconcile, Processes
<1>7. CASE ReconcileFails
  BY <1>7, Queries DEF ReconcileFails, Fixes
<1>8. CASE GoLive
  BY <1>8 DEF GoLive
<1>9. CASE StartScript
  BY <1>9, Queries DEF StartScript, Processes
<1> QED
  BY <1>1, <1>2, <1>3, <1>4, <1>5, <1>6, <1>7, <1>8, <1>9

\* nio's name for an author, or the localpart, is a name.
LEMMA ResolveType ==
  ASSUME TypeInv, NEW u \in Members
  PROVE  Resolve(u) \in Names
  BY DEF TypeInv, TypeOK, Resolve, Names

\* So does a message on its way.
LEMMA MessageTypes ==
  ASSUME TypeInv, (\E m \in Messages : Insert(m)) \/ Upsert \/ MarkIndexed \/ IndexFails
  PROVE  TypeInv'
<1> USE DEF TypeInv, TypeOK, InHand, stores, sentinels, indexing, applying, history
<1>1. ASSUME NEW m \in Messages, Insert(m)
      PROVE  TypeInv'
  <2>1. Resolve(Author[m]) \in Names
    BY ResolveType, Authors
  <2>2. Resolve(Author[m]) # None
    BY <2>1, NamesAssumption DEF Names
  <2>3. <<m, Resolve(Author[m])>> \in Records
    BY <2>1 DEF Records
  <2>4. row' \in [Messages -> Names \cup {None}] /\ \A n \in unindexed' : row'[n] # None
    BY <1>1, <2>1, <2>2 DEF Insert
  <2> QED
    BY <1>1, <2>3, <2>4 DEF Insert
<1>2. CASE Upsert
  <2>1. record[1] \in Messages /\ record[2] \in Names
    BY <1>2 DEF Upsert, Records
  <2> QED
    BY <1>2, <2>1 DEF Upsert
<1>3. CASE MarkIndexed
  BY <1>3 DEF MarkIndexed
<1>4. CASE IndexFails
  BY <1>4 DEF IndexFails
<1> QED
  BY <1>1, <1>2, <1>3, <1>4

\* So does a member event.
LEMMA MemberTypes ==
  ASSUME TypeInv, NEW u \in Members,
         (\E raw \in RawNames \cup {NoName} : MemberJoins(u, raw)) \/ MemberLeaves(u)
           \/ (\E name \in Names \cup {Gone} : ReceiveAsState(u, name))
  PROVE  TypeInv'
<1> USE DEF TypeInv, TypeOK, InHand, stores, sentinels, indexing, applying, history
<1>1. ASSUME NEW raw \in RawNames \cup {NoName}, MemberJoins(u, raw)
      PROVE  TypeInv'
  <2>1. (IF raw = NoName THEN Fallback ELSE raw) \in Names
    BY DEF Names
  <2>2. users' \in [Members -> Names \cup {Gone}] /\ roster' \in [Members -> Names \cup {Gone}]
    BY <1>1, <2>1 DEF MemberJoins
  <2>3. CASE raw = NoName
    BY <1>1, <2>2, <2>3 DEF MemberJoins, Heal
  <2>4. CASE raw # NoName
    <3>1. <<u, raw>> \in Fixes
      BY <2>1, <2>4 DEF Fixes
    <3> QED
      BY <1>1, <2>2, <2>4, <3>1 DEF MemberJoins, Heal, Processes
  <2> QED
    BY <2>3, <2>4
<1>2. CASE MemberLeaves(u)
  BY <1>2 DEF MemberLeaves
<1>3. CASE \E name \in Names \cup {Gone} : ReceiveAsState(u, name)
  BY <1>3 DEF ReceiveAsState
<1> QED
  BY <1>1, <1>2, <1>3

\* So does a rename.
LEMMA RenameTypes ==
  ASSUME TypeInv, NEW p \in Processes, Apply(p) \/ CountFails(p) \/ SetPayloadFails(p) \/ UpdateRowsFails(p)
  PROVE  TypeInv'
<1> USE DEF TypeInv, TypeOK, InHand, stores, sentinels, indexing, applying, history
<1>1. step[p] # "idle" => fix[p][1] \in Members /\ fix[p][2] \in Names
  BY DEF Fixes
<1>2. fix[p][2] \in Names =>
        /\ RenameRows(p) => /\ row' \in [Messages -> Names \cup {None}]
                            /\ \A m \in Messages : row[m] # None => row'[m] # None
        /\ RenamePoints(p) => point' \in [Messages -> Names \cup {None}]
  BY NamesAssumption DEF RenameRows, RenamePoints, Names
<1>3. CASE NextFix(p)
  BY <1>3 DEF NextFix
<1>4. CASE CountUpdates(p)
  BY <1>4 DEF CountUpdates, Done
<1>5. CASE SetPayload(p)
  BY <1>1, <1>2, <1>5 DEF SetPayload
<1>6. CASE UpdateRows(p)
  BY <1>1, <1>2, <1>6 DEF UpdateRows, Done
<1>7. CASE CountFails(p)
  BY <1>1, <1>7 DEF CountFails, Done, Log
<1>8. CASE SetPayloadFails(p)
  BY <1>1, <1>2, <1>8 DEF SetPayloadFails, Done, Log
<1>9. CASE UpdateRowsFails(p)
  BY <1>1, <1>9 DEF UpdateRowsFails, Done, Log
<1> QED
  BY <1>3, <1>4, <1>5, <1>6, <1>7, <1>8, <1>9 DEF Apply

\* So does the end of a process.
LEMMA EndTypes ==
  ASSUME TypeInv, Stop \/ Crash \/ ScriptCrash
  PROVE  TypeInv'
<1> USE DEF TypeInv, TypeOK, InHand, stores, sentinels, indexing, applying, history
<1>1. ASSUME NEW p \in Processes, Ends(p)
      PROVE  /\ fixes' \in [Processes -> SUBSET Fixes]
             /\ fix' \in [Processes -> Fixes \cup {None}]
             /\ step' \in [Processes -> {"idle", "count", "qdrant", "sqlite"}]
             /\ torn' \subseteq Members
             /\ \A q \in Processes : step'[q] # "idle" => fix'[q] \in Fixes
  BY <1>1 DEF Ends, Done, Fixes
<1>2. CASE ServerEnds
  <2>1. Ends("server") /\ "server" \in Processes
    BY <1>2 DEF ServerEnds, Processes
  <2> QED
    BY <1>1, <1>2, <2>1 DEF ServerEnds
<1>3. CASE ScriptCrash
  <2>1. Ends("script") /\ "script" \in Processes
    BY <1>3 DEF ScriptCrash, Processes
  <2> QED
    BY <1>1, <1>3, <2>1 DEF ScriptCrash
<1> QED
  BY <1>2, <1>3 DEF Stop, Crash

\* So does every step.
LEMMA TypeStep == TypeInv /\ [Next]_vars => TypeInv'
<1> SUFFICES ASSUME TypeInv, [Next]_vars PROVE TypeInv'
  OBVIOUS
<1>1. CASE UNCHANGED vars
  BY <1>1 DEF vars, stores, sentinels, indexing, applying, history, TypeInv, TypeOK, InHand
<1>2. CASE Next
  BY <1>2, StartTypes, MessageTypes, MemberTypes, RenameTypes, EndTypes DEF Next
<1> QED
  BY <1>1, <1>2

\* Every variable keeps its type.
THEOREM NamesTypeCorrect == Spec => []TypeOK
<1>1. TypeInv => TypeOK
  BY DEF TypeInv
<1> QED
  BY <1>1, TypeInit, TypeStep, PTL DEF Spec

-----------------------------------------------------------------------------
(* No downgrade *)

\* Nothing is to be fixed at first.
LEMMA RealInit == Init => FixesAreReal
  BY DEF Init, FixesAreReal

\* A fix comes from the query, which skips the localpart, or from a member event that
\* brought a name.
LEMMA RealStep ==
  ASSUME Fallback \notin RawNames
  PROVE  TypeInv /\ FixesAreReal /\ [Next]_vars => FixesAreReal'
<1> SUFFICES ASSUME TypeInv, FixesAreReal, [Next]_vars
             PROVE  FixesAreReal'
  OBVIOUS
<1> USE DEF FixesAreReal, stores, sentinels, indexing, applying, history
<1>0. fixes \in [Processes -> SUBSET Fixes] /\ step \in [Processes -> {"idle", "count", "qdrant", "sqlite"}]
         /\ fix \in [Processes -> Fixes \cup {None}]
  BY DEF TypeInv, TypeOK
<1>1. \A f \in FixesDue : f[2] # Fallback
  BY DEF FixesDue, Known
<1>2. CASE Reconcile \/ StartScript
  BY <1>0, <1>1, <1>2 DEF Reconcile, StartScript
<1>3. ASSUME NEW u \in Members, NEW raw \in RawNames \cup {NoName}, MemberJoins(u, raw)
      PROVE  FixesAreReal'
  BY <1>0, <1>3 DEF MemberJoins, Heal
<1>4. ASSUME NEW p \in Processes, Apply(p) \/ CountFails(p) \/ SetPayloadFails(p) \/ UpdateRowsFails(p)
      PROVE  FixesAreReal'
  <2>1. CASE NextFix(p)
    BY <1>0, <2>1 DEF NextFix
  <2>2. CASE CountUpdates(p) \/ SetPayload(p) \/ UpdateRows(p)
    BY <1>0, <2>2 DEF CountUpdates, SetPayload, UpdateRows, Done
  <2>3. CASE CountFails(p) \/ SetPayloadFails(p) \/ UpdateRowsFails(p)
    BY <1>0, <2>3 DEF CountFails, SetPayloadFails, UpdateRowsFails, Done
  <2> QED
    BY <1>4, <2>1, <2>2, <2>3 DEF Apply
<1>5. CASE Stop \/ Crash \/ ScriptCrash
  BY <1>0, <1>5 DEF Stop, Crash, ServerEnds, ScriptCrash, Ends, Done
<1>6. CASE UNCHANGED <<fixes, fix, step>>
  BY <1>6
<1>7. CASE ImportKeys \/ RestoreRooms \/ PopulateRooms \/ EndBackfill \/ TakePending
             \/ ReconcileFails \/ GoLive \/ Upsert \/ MarkIndexed \/ IndexFails
             \/ (\E m \in Messages : Insert(m)) \/ (\E u \in Members : MemberLeaves(u))
             \/ (\E u \in Members, name \in Names \cup {Gone} : ReceiveAsState(u, name))
  BY <1>6, <1>7 DEF ImportKeys, RestoreRooms, PopulateRooms, EndBackfill, TakePending,
                    ReconcileFails, GoLive, Upsert, MarkIndexed, IndexFails, Insert,
                    MemberLeaves, ReceiveAsState
<1>8. CASE UNCHANGED vars
  BY <1>6, <1>8 DEF vars
<1> QED
  BY <1>2, <1>3, <1>4, <1>5, <1>7, <1>8 DEF Next

\* Rows change when a message is first stored and when a rename rewrites them; a
\* rename never carries the localpart.
LEMMA RealRows == TypeInv /\ FixesAreReal /\ [Next]_vars
                    => \A m \in Messages : row[m] \in RawNames \ {Fallback} => row'[m] # Fallback
<1> SUFFICES ASSUME TypeInv, FixesAreReal, [Next]_vars, NEW n \in Messages,
                    row[n] \in RawNames \ {Fallback}
             PROVE  row'[n] # Fallback
  OBVIOUS
<1> USE DEF stores, sentinels, indexing, applying, history
<1>1. row \in [Messages -> Names \cup {None}] /\ None \notin RawNames
  BY NamesAssumption DEF TypeInv, TypeOK
<1>2. ASSUME NEW m \in Messages, Insert(m)
      PROVE  row'[n] # Fallback
  BY <1>1, <1>2 DEF Insert
<1>3. ASSUME NEW p \in Processes, UpdateRows(p)
      PROVE  row'[n] # Fallback
  BY <1>1, <1>3 DEF UpdateRows, RenameRows, FixesAreReal
<1>4. CASE row' = row
  BY <1>4
<1>5. ASSUME NEW p \in Processes,
             \/ NextFix(p) \/ CountUpdates(p) \/ SetPayload(p)
             \/ CountFails(p) \/ SetPayloadFails(p) \/ UpdateRowsFails(p)
      PROVE  row' = row
  BY <1>5 DEF NextFix, CountUpdates, SetPayload, CountFails, SetPayloadFails, UpdateRowsFails
<1>6. ASSUME NEW u \in Members,
             \/ MemberLeaves(u) \/ (\E raw \in RawNames \cup {NoName} : MemberJoins(u, raw))
             \/ \E name \in Names \cup {Gone} : ReceiveAsState(u, name)
      PROVE  row' = row
  BY <1>6 DEF MemberJoins, MemberLeaves, ReceiveAsState
<1>7. ASSUME ImportKeys \/ RestoreRooms \/ PopulateRooms \/ EndBackfill \/ TakePending \/ Reconcile
               \/ ReconcileFails \/ GoLive \/ StartScript \/ Upsert \/ MarkIndexed \/ IndexFails
               \/ Stop \/ Crash \/ ScriptCrash \/ UNCHANGED vars
      PROVE  row' = row
  BY <1>7 DEF ImportKeys, RestoreRooms, PopulateRooms, EndBackfill, TakePending, Reconcile,
              ReconcileFails, GoLive, StartScript, Upsert, MarkIndexed, IndexFails, Stop, Crash, ServerEnds, ScriptCrash, vars
<1> QED
  BY <1>2, <1>3, <1>4, <1>5, <1>6, <1>7 DEF Next, Apply

\* A real name in SQLite is never replaced by the localpart, however the server and the
\* script interleave and whatever fails, provided no member calls itself by its localpart
\* (a member who does has asked for the replacement).
THEOREM NamesNeverDowngraded ==
  ASSUME Fallback \notin RawNames
  PROVE  Spec => NeverDowngraded
<1>1. TypeInv /\ FixesAreReal /\ [Next]_vars
        => [\A m \in Messages : row[m] \in RawNames \ {Fallback} => row'[m] # Fallback]_vars
  BY RealRows
<1>2. TypeInv /\ FixesAreReal /\ [Next]_vars => (TypeInv /\ FixesAreReal)'
  BY TypeStep, RealStep
<1> QED
  BY <1>1, <1>2, TypeInit, RealInit, PTL DEF Spec, NeverDowngraded

-----------------------------------------------------------------------------
(* One thing at a time *)

\* At first nothing runs and nothing is stored.
LEMMA NamesInit == Init => NamesInv
<1> SUFFICES ASSUME Init PROVE NamesInv
  OBVIOUS
<1>1. OneAtATime /\ RecordsAreCurrent /\ PointsFollow /\ RosterFollowed
  BY NamesAssumption
     DEF Init, OneAtATime, RecordsAreCurrent, PointsFollow, RosterFollowed, ScriptIdle, Processes
<1> QED
  BY <1>1, TypeInit DEF NamesInv

\* Only one thing is done at a time, and the script works only while the server is down.
LEMMA OneAtATimeStep ==
  ASSUME Script # "beside"
  PROVE  TypeInv /\ OneAtATime /\ [Next]_vars => OneAtATime'
<1> SUFFICES ASSUME TypeInv, OneAtATime, [Next]_vars
             PROVE  OneAtATime'
  OBVIOUS
<1> USE DEF OneAtATime, ScriptIdle, AtRest, stores, sentinels, indexing, applying, history
<1>0. /\ fixes \in [Processes -> SUBSET Fixes]
      /\ step \in [Processes -> {"idle", "count", "qdrant", "sqlite"}]
      /\ fix \in [Processes -> Fixes \cup {None}]
      /\ Processes = {"server", "script"}
      /\ Script \in {"never", "alone"}
  BY NamesAssumption DEF TypeInv, TypeOK, Processes, ScriptModes
<1>1. CASE ImportKeys \/ RestoreRooms \/ PopulateRooms \/ EndBackfill
  BY <1>0, <1>1 DEF ImportKeys, RestoreRooms, PopulateRooms, EndBackfill, MayStart
<1>2. CASE TakePending \/ Reconcile \/ ReconcileFails \/ GoLive \/ StartScript
  BY <1>0, <1>2 DEF TakePending, Reconcile, ReconcileFails, GoLive, StartScript
<1>3. CASE (\E m \in Messages : Insert(m)) \/ Upsert \/ MarkIndexed \/ IndexFails
  BY <1>0, <1>3 DEF Insert, MayWrite, Upsert, MarkIndexed, IndexFails
<1>4. ASSUME NEW u \in Members,
             \/ MemberLeaves(u) \/ (\E raw \in RawNames \cup {NoName} : MemberJoins(u, raw))
             \/ \E name \in Names \cup {Gone} : ReceiveAsState(u, name)
      PROVE  OneAtATime'
  BY <1>0, <1>4 DEF MemberLeaves, MemberJoins, Heal, ReceiveAsState
<1>5. ASSUME NEW p \in Processes, Apply(p) \/ CountFails(p) \/ SetPayloadFails(p) \/ UpdateRowsFails(p)
      PROVE  OneAtATime'
  <2>1. CASE NextFix(p)
    BY <1>0, <2>1 DEF NextFix
  <2>2. CASE CountUpdates(p) \/ SetPayload(p) \/ UpdateRows(p)
    BY <1>0, <2>2 DEF CountUpdates, SetPayload, UpdateRows, Done
  <2>3. CASE CountFails(p) \/ SetPayloadFails(p) \/ UpdateRowsFails(p)
    BY <1>0, <2>3 DEF CountFails, SetPayloadFails, UpdateRowsFails, Done
  <2> QED
    BY <1>5, <2>1, <2>2, <2>3 DEF Apply
<1>6. CASE Stop \/ Crash \/ ScriptCrash
  BY <1>0, <1>6 DEF Stop, Crash, ServerEnds, ScriptCrash, Ends, Done
<1>7. CASE UNCHANGED vars
  BY <1>7 DEF vars
<1> QED
  BY <1>1, <1>2, <1>3, <1>4, <1>5, <1>6, <1>7 DEF Next

\* While a rename is under way no record is in hand or pending, so a record keeps the
\* name of its row until it is indexed or given up.
LEMMA RecordsStep ==
  TypeInv /\ OneAtATime /\ RecordsAreCurrent /\ [Next]_vars => RecordsAreCurrent'
<1> SUFFICES ASSUME TypeInv, OneAtATime, RecordsAreCurrent, [Next]_vars
             PROVE  RecordsAreCurrent'
  OBVIOUS
<1> USE DEF RecordsAreCurrent, stores, sentinels, indexing, applying, history
<1>0. /\ row \in [Messages -> Names \cup {None}]
      /\ record \in Records \cup {None} /\ pending \subseteq Records
  BY DEF TypeInv, TypeOK
<1>1. \A r \in PendingRecords : row[r[1]] = r[2]
  BY DEF PendingRecords
<1>2. CASE ImportKeys \/ RestoreRooms \/ PopulateRooms \/ EndBackfill \/ TakePending
  BY <1>1, <1>2 DEF ImportKeys, RestoreRooms, PopulateRooms, EndBackfill, TakePending
<1>3. CASE Reconcile \/ ReconcileFails \/ GoLive \/ StartScript \/ Upsert \/ MarkIndexed \/ IndexFails
  BY <1>3 DEF Reconcile, ReconcileFails, GoLive, StartScript, Upsert, MarkIndexed, IndexFails
<1>4. ASSUME NEW m \in Messages, Insert(m)
      PROVE  RecordsAreCurrent'
  <2>1. pending = {}
    BY <1>4 DEF Insert, MayWrite, OneAtATime
  <2> QED
    BY <1>0, <1>4, <2>1 DEF Insert
<1>5. ASSUME NEW u \in Members,
             \/ MemberLeaves(u) \/ (\E raw \in RawNames \cup {NoName} : MemberJoins(u, raw))
             \/ \E name \in Names \cup {Gone} : ReceiveAsState(u, name)
      PROVE  RecordsAreCurrent'
  BY <1>5 DEF MemberLeaves, MemberJoins, ReceiveAsState
<1>6. ASSUME NEW p \in Processes, UpdateRows(p)
      PROVE  RecordsAreCurrent'
  <2>1. pending = {} /\ record = None
    BY <1>6 DEF UpdateRows, OneAtATime, Processes, ScriptIdle
  <2> QED
    BY <1>6, <2>1 DEF UpdateRows
<1>7. ASSUME NEW p \in Processes,
             \/ NextFix(p) \/ CountUpdates(p) \/ SetPayload(p)
             \/ CountFails(p) \/ SetPayloadFails(p) \/ UpdateRowsFails(p)
      PROVE  RecordsAreCurrent'
  BY <1>7 DEF NextFix, CountUpdates, SetPayload, CountFails, SetPayloadFails, UpdateRowsFails
<1>8. CASE Stop \/ Crash \/ ScriptCrash \/ UNCHANGED vars
  BY <1>8 DEF Stop, Crash, ServerEnds, ScriptCrash, vars
<1> QED
  BY <1>2, <1>3, <1>4, <1>5, <1>6, <1>7, <1>8 DEF Next, Apply

-----------------------------------------------------------------------------
(* SQLite and Qdrant *)


\* A rename writes Qdrant and then SQLite with nothing else under way; cut in between, it
\* leaves its member torn.
LEMMA PointsRename ==
  ASSUME TypeInv, OneAtATime, PointsFollow,
         NEW p \in Processes, Apply(p) \/ CountFails(p) \/ SetPayloadFails(p) \/ UpdateRowsFails(p)
  PROVE  PointsFollow'
<1> USE DEF stores, sentinels, indexing, applying, history
<1>0. /\ step \in [Processes -> {"idle", "count", "qdrant", "sqlite"}]
      /\ fix \in [Processes -> Fixes \cup {None}]
      /\ row \in [Messages -> Names \cup {None}]
      /\ point \in [Messages -> Names \cup {None}]
      /\ None \notin Names
      /\ step[p] # "idle" => fix[p][2] \in Names
  BY NamesAssumption DEF TypeInv, TypeOK, InHand, Names, Fixes
<1>1. \A q \in Processes : step[p] # "idle" /\ q # p => step[q] = "idle"
  BY DEF OneAtATime, ScriptIdle, Processes
<1>2. CASE NextFix(p) \/ CountUpdates(p) \/ CountFails(p)
  BY <1>0, <1>2 DEF PointsFollow, NextFix, CountUpdates, CountFails, Done
<1>3. CASE SetPayload(p)
  BY <1>0, <1>1, <1>3 DEF PointsFollow, SetPayload, RenamePoints
<1>4. CASE UpdateRows(p)
  BY <1>0, <1>1, <1>4 DEF PointsFollow, UpdateRows, RenameRows, Done
<1>5. CASE SetPayloadFails(p)
  <2>1. step[p] = "qdrant" /\ step' = [step EXCEPT ![p] = "idle"] /\ row' = row
          /\ fix' = [fix EXCEPT ![p] = None]
    BY <1>5 DEF SetPayloadFails, Done
  <2>2. CASE UNCHANGED <<point, torn>>
    BY <1>0, <1>1, <2>1, <2>2 DEF PointsFollow
  <2>3. CASE RenamePoints(p) /\ torn' = torn \cup {fix[p][1]}
    BY <1>0, <1>1, <2>1, <2>3 DEF PointsFollow, RenamePoints
  <2> QED
    BY <1>5, <2>2, <2>3 DEF SetPayloadFails
<1>6. CASE UpdateRowsFails(p)
  BY <1>0, <1>1, <1>6 DEF PointsFollow, UpdateRowsFails, Done
<1> QED
  BY <1>2, <1>3, <1>4, <1>5, <1>6 DEF Apply

\* A process that ends between the two writes leaves its member torn.
LEMMA PointsEnd ==
  ASSUME TypeInv, PointsFollow, Stop \/ Crash \/ ScriptCrash
  PROVE  PointsFollow'
<1>1. /\ step \in [Processes -> {"idle", "count", "qdrant", "sqlite"}]
      /\ fix \in [Processes -> Fixes \cup {None}]
  BY DEF TypeInv, TypeOK
<1>2. PICK p \in Processes : Ends(p) /\ UNCHANGED <<row, point>>
  BY DEF Stop, Crash, ServerEnds, ScriptCrash, Processes, stores
<1>3. /\ step' = [step EXCEPT ![p] = "idle"] /\ fix' = [fix EXCEPT ![p] = None]
      /\ torn' = IF step[p] = "sqlite" THEN torn \cup {fix[p][1]} ELSE torn
  BY <1>2 DEF Ends, Done
<1>4. CASE step[p] = "sqlite"
  BY <1>1, <1>2, <1>3, <1>4 DEF PointsFollow
<1>5. CASE step[p] # "sqlite"
  BY <1>1, <1>2, <1>3, <1>5 DEF PointsFollow
<1> QED
  BY <1>4, <1>5

\* A point differs from its row only during a rename or after one was cut.
LEMMA PointsStep ==
  TypeInv /\ OneAtATime /\ RecordsAreCurrent /\ PointsFollow /\ [Next]_vars => PointsFollow'
<1> SUFFICES ASSUME TypeInv, OneAtATime, RecordsAreCurrent, PointsFollow, [Next]_vars
             PROVE  PointsFollow'
  OBVIOUS
<1> USE DEF stores, sentinels, indexing, applying, history
<1>0. /\ step \in [Processes -> {"idle", "count", "qdrant", "sqlite"}]
      /\ row \in [Messages -> Names \cup {None}]
      /\ point \in [Messages -> Names \cup {None}]
      /\ None \notin Names
      /\ Processes = {"server", "script"}
      /\ fix \in [Processes -> Fixes \cup {None}]
  BY NamesAssumption DEF TypeInv, TypeOK, Names, Processes
<1>1. CASE ImportKeys \/ RestoreRooms \/ PopulateRooms \/ EndBackfill \/ TakePending
             \/ Reconcile \/ ReconcileFails \/ GoLive \/ StartScript \/ MarkIndexed \/ IndexFails
             \/ (\E u \in Members, name \in Names \cup {Gone} : ReceiveAsState(u, name))
             \/ UNCHANGED vars
  <2>1. UNCHANGED <<row, point, torn, step, fix>>
    BY <1>1 DEF ImportKeys, RestoreRooms, PopulateRooms, EndBackfill, TakePending, Reconcile,
                ReceiveAsState, ReconcileFails, GoLive, StartScript, MarkIndexed, IndexFails, vars
  <2> QED
    BY <2>1 DEF PointsFollow
<1>2. ASSUME NEW m \in Messages, Insert(m)
      PROVE  PointsFollow'
  <2>1. \A n \in Messages : n # m => row'[n] = row[n]
    BY <1>0, <1>2 DEF Insert
  <2>2. point[m] = None /\ UNCHANGED <<point, torn, step, fix>>
    BY <1>2 DEF Insert, PointsFollow
  <2> QED
    BY <2>1, <2>2 DEF PointsFollow
<1>3. CASE Upsert
  <2>1. record \in Records /\ row[record[1]] = record[2]
    BY <1>3 DEF Upsert, RecordsAreCurrent, TypeInv, TypeOK
  <2>2. record[1] \in Messages /\ record[2] \in Names
    BY <2>1 DEF Records
  <2>3. \A p \in Processes : step[p] = "idle"
    BY <1>0, <1>3 DEF Upsert, OneAtATime, ScriptIdle
  <2> QED
    BY <1>0, <1>3, <2>1, <2>2, <2>3 DEF PointsFollow, Upsert
<1>4. ASSUME NEW u \in Members,
             MemberLeaves(u) \/ (\E raw \in RawNames \cup {NoName} : MemberJoins(u, raw))
      PROVE  PointsFollow'
  <2>1. \A p \in Processes : /\ step[p] = "sqlite" => step'[p] = "sqlite" /\ fix'[p] = fix[p]
                             /\ step'[p] = "sqlite" => step[p] = "sqlite"
    BY <1>0, <1>4 DEF MemberLeaves, MemberJoins, Heal, AtRest
  <2>2. UNCHANGED <<row, point, torn>>
    BY <1>4 DEF MemberLeaves, MemberJoins
  <2> QED
    BY <2>1, <2>2 DEF PointsFollow
<1> QED
  BY <1>1, <1>2, <1>3, <1>4, PointsRename, PointsEnd DEF Next

-----------------------------------------------------------------------------
(* SQLite and the roster *)

\* start() fills nio's lists from the roster or with it, and its query puts every
\* difference on the list.
LEMMA RosterStart ==
  ASSUME TypeInv, OneAtATime, RosterFollowed, Script # "beside",
         ImportKeys \/ RestoreRooms \/ PopulateRooms \/ EndBackfill \/ TakePending
           \/ Reconcile \/ ReconcileFails \/ GoLive \/ StartScript
  PROVE  RosterFollowed'
<1> USE DEF stores, sentinels, indexing, applying, history
<1>0. /\ roster \in [Members -> Names \cup {Gone}]
      /\ fixes \in [Processes -> SUBSET Fixes]
      /\ Processes = {"server", "script"}
  BY DEF TypeInv, TypeOK, Processes
<1>1. CASE ImportKeys \/ EndBackfill \/ TakePending \/ RestoreRooms
  BY <1>1 DEF RosterFollowed, OneAtATime, ImportKeys, EndBackfill, TakePending, RestoreRooms,
              MayStart, Known
<1>2. CASE PopulateRooms
  BY <1>0, <1>2 DEF RosterFollowed, OneAtATime, PopulateRooms, MayStart, Known
<1>3. CASE Reconcile
  <2>1. \A f \in FixesDue : f[2] = roster[f[1]]
    BY DEF FixesDue
  <2>2. \A u \in Members : Known(u) =>
          (\A m \in By(u) : row[m] \in {None, roster[u]}) \/ <<u, roster[u]>> \in FixesDue
    BY DEF FixesDue
  <2>3. /\ fixes'["server"] = FixesDue /\ pc = "retry" /\ pc' = "reconcile"
        /\ UNCHANGED <<stores, users, fix, step, failed, unheard>>
    BY <1>0, <1>3 DEF Reconcile
  <2> QED
    BY <2>1, <2>2, <2>3 DEF RosterFollowed, OnTheList, Known
<1>4. CASE ReconcileFails
  <2>1. \A u \in Members : Known(u) =>
          (\A m \in By(u) : row[m] \in {None, roster[u]}) \/ u \in {f[1] : f \in FixesDue}
    <3>1. \A u \in Members : (\A m \in By(u) : row[m] \in {None, roster[u]})
                               \/ ~Known(u) \/ <<u, roster[u]>> \in FixesDue
      BY DEF FixesDue
    <3>2. \A u : <<u, roster[u]>> \in FixesDue => u \in {f[1] : f \in FixesDue}
      OBVIOUS
    <3> QED
      BY <3>1, <3>2
  <2>2. /\ failed' = failed \cup {f[1] : f \in FixesDue} /\ pc = "retry" /\ pc' = "reconcile"
        /\ UNCHANGED <<stores, users, fixes, fix, step, unheard>>
    BY <1>4 DEF ReconcileFails
  <2> QED
    BY <2>1, <2>2 DEF RosterFollowed, OnTheList, Known
<1>5. CASE GoLive
  BY <1>5 DEF RosterFollowed, GoLive, OnTheList, Known
<1>6. CASE StartScript
  <2>1. fixes'["server"] = fixes["server"]
    BY <1>0, <1>6 DEF StartScript
  <2> QED
    BY <1>6, <2>1 DEF RosterFollowed, StartScript, OnTheList, Known
<1> QED
  BY <1>1, <1>2, <1>3, <1>4, <1>5, <1>6

\* A new message of a member whose name is known has that name, unless nio took another
\* from a state section, and a member event puts the new one on the list.
LEMMA RosterLive ==
  ASSUME TypeInv, OneAtATime, RosterFollowed,
         \/ \E m \in Messages : Insert(m)
         \/ \E u \in Members, raw \in RawNames \cup {NoName} : MemberJoins(u, raw)
         \/ \E u \in Members : MemberLeaves(u)
         \/ \E u \in Members, name \in Names \cup {Gone} : ReceiveAsState(u, name)
  PROVE  RosterFollowed'
<1> USE DEF stores, sentinels, indexing, applying, history
<1>0. /\ roster \in [Members -> Names \cup {Gone}] /\ users \in [Members -> Names \cup {Gone}]
      /\ row \in [Messages -> Names \cup {None}]
      /\ fix \in [Processes -> Fixes \cup {None}]
      /\ step \in [Processes -> {"idle", "count", "qdrant", "sqlite"}]
      /\ Processes = {"server", "script"}
  BY DEF TypeInv, TypeOK, Processes
<1>1. ASSUME NEW m \in Messages, Insert(m)
      PROVE  RosterFollowed'
  <2>1. row' = [row EXCEPT ![m] = Resolve(Author[m])]
    BY <1>1 DEF Insert
  <2>2. UNCHANGED <<roster, users, pc, fixes, fix, step, failed, unheard>>
    BY <1>1 DEF Insert
  <2>3. pc \in {"backfill", "live"}
    BY <1>1 DEF Insert, MayWrite
  <2>4. pc = "live" /\ Known(Author[m]) /\ Author[m] \notin unheard
          => Resolve(Author[m]) = roster[Author[m]]
    BY <1>1, Authors DEF Insert, MayWrite, Known, Resolve, RosterFollowed
  <2>5. pc = "live" => \A u \in Members \ unheard : Known(u) /\ OnTheList(u) => OnTheList(u)'
    BY <1>0, <2>1, <2>2, <2>4 DEF OnTheList, By
  <2> QED
    BY <2>2, <2>3, <2>5 DEF RosterFollowed, Known
<1>2. ASSUME NEW u \in Members, NEW raw \in RawNames \cup {NoName}, MemberJoins(u, raw)
      PROVE  RosterFollowed'
  <2> DEFINE name == IF raw = NoName THEN Fallback ELSE raw
  <2>1. /\ pc = "live" /\ step["server"] = "idle" /\ fixes["server"] = {}
        /\ roster' = [roster EXCEPT ![u] = name] /\ unheard' = unheard \ {u}
        /\ UNCHANGED <<row, pc, fixes, failed>>
    BY <1>2 DEF MemberJoins, AtRest, OneAtATime
  <2>2. raw # NoName => step'["server"] # "idle" /\ fix'["server"] = <<u, name>>
    BY <1>0, <1>2 DEF MemberJoins, Heal
  <2>3. raw = NoName => step'["server"] = "idle" /\ name = Fallback
    BY <1>2, <2>1 DEF MemberJoins, Heal
  <2>4. \A v \in Members : v # u /\ Known(v)' /\ v \notin failed \cup unheard' => OnTheList(v)'
    BY <1>0, <2>1 DEF RosterFollowed, OnTheList, Known
  <2>5. Known(u)' => OnTheList(u)'
    BY <1>0, <2>1, <2>2, <2>3 DEF OnTheList, Known
  <2>6. ASSUME NEW v \in Members \ unheard', Known(v)'
        PROVE  users'[v] \in {Gone, roster'[v]}
    <3>1. CASE v = u
      <4>1. raw # NoName
        BY <1>0, <2>1, <2>6, <3>1 DEF Known
      <4> QED
        BY <1>0, <1>2, <2>1, <3>1, <4>1 DEF MemberJoins
    <3>2. CASE v # u
      <4>1. users'[v] = users[v] /\ roster'[v] = roster[v] /\ v \notin unheard
        BY <1>0, <1>2, <2>1, <2>6, <3>2 DEF MemberJoins
      <4> QED
        BY <2>1, <2>6, <4>1 DEF RosterFollowed, Known
    <3> QED
      BY <3>1, <3>2
  <2>7. step'["server"] # "idle" => fix'["server"][2] = roster'[fix'["server"][1]]
    BY <1>0, <2>1, <2>2, <2>3
  <2> QED
    BY <2>1, <2>4, <2>5, <2>6, <2>7 DEF RosterFollowed
<1>3. ASSUME NEW u \in Members, MemberLeaves(u)
      PROVE  RosterFollowed'
  <2>1. /\ pc = "live" /\ step["server"] = "idle" /\ fixes["server"] = {}
        /\ users' = [users EXCEPT ![u] = Gone] /\ roster' = [roster EXCEPT ![u] = Gone]
        /\ unheard' = unheard \ {u}
        /\ UNCHANGED <<row, pc, fixes, fix, step, failed>>
    BY <1>3 DEF MemberLeaves, AtRest, OneAtATime
  <2>2. ~Known(u)'
    BY <1>0, <2>1 DEF Known
  <2>3. \A v \in Members : Known(v)' /\ v \notin failed \cup unheard' => OnTheList(v)'
    BY <1>0, <2>1, <2>2 DEF RosterFollowed, OnTheList, Known
  <2>4. \A v \in Members \ unheard' : Known(v)' => users'[v] \in {Gone, roster'[v]}
    BY <1>0, <2>1, <2>2 DEF RosterFollowed, Known
  <2> QED
    BY <1>0, <2>1, <2>3, <2>4 DEF RosterFollowed
<1>4. ASSUME NEW u \in Members, NEW name \in Names \cup {Gone}, ReceiveAsState(u, name)
      PROVE  RosterFollowed'
  <2>1. /\ pc = "live" /\ users' = [users EXCEPT ![u] = name] /\ unheard' = unheard \cup {u}
        /\ UNCHANGED <<roster, row, pc, fixes, fix, step, failed>>
    BY <1>4 DEF ReceiveAsState
  <2> QED
    BY <1>0, <2>1 DEF RosterFollowed, OnTheList, Known
<1> QED
  BY <1>1, <1>2, <1>3, <1>4

\* A fix leaves the list once every row has the name, or when its rename failed.
LEMMA RosterRename ==
  ASSUME TypeInv, OneAtATime, RosterFollowed,
         NEW p \in Processes, Apply(p) \/ CountFails(p) \/ SetPayloadFails(p) \/ UpdateRowsFails(p)
  PROVE  RosterFollowed'
<1> USE DEF stores, sentinels, indexing, applying, history
<1>0. /\ row \in [Messages -> Names \cup {None}]
      /\ fixes \in [Processes -> SUBSET Fixes]
      /\ fix \in [Processes -> Fixes \cup {None}]
      /\ step \in [Processes -> {"idle", "count", "qdrant", "sqlite"}]
      /\ Processes = {"server", "script"}
  BY DEF TypeInv, TypeOK, Processes
<1>1. UNCHANGED <<roster, users, pc, unheard>>
  BY DEF Apply, NextFix, CountUpdates, SetPayload, UpdateRows, CountFails, SetPayloadFails,
         UpdateRowsFails
<1>2. CASE p = "script"
  <2>1. pc = "down" /\ step["server"] = "idle" /\ fixes["server"] = {}
    BY <1>0, <1>2
       DEF Apply, NextFix, CountUpdates, SetPayload, UpdateRows, CountFails, SetPayloadFails,
           UpdateRowsFails, OneAtATime, ScriptIdle
  <2>2. step'["server"] = "idle" /\ fixes'["server"] = {}
    BY <1>0, <1>2, <2>1
       DEF Apply, NextFix, CountUpdates, SetPayload, UpdateRows, CountFails, SetPayloadFails,
           UpdateRowsFails, Done
  <2> QED
    BY <1>1, <2>1, <2>2 DEF RosterFollowed
<1>3. CASE p = "server" /\ NextFix(p)
  <2>1. PICK f \in fixes[p] : /\ fix' = [fix EXCEPT ![p] = f]
                              /\ fixes' = [fixes EXCEPT ![p] = @ \ {f}]
    BY <1>3 DEF NextFix
  <2>2. /\ step["server"] = "idle" /\ step'["server"] # "idle" /\ fix'["server"] = f
        /\ fixes'["server"] = fixes["server"] \ {f} /\ UNCHANGED <<row, failed>>
    BY <1>0, <1>3, <2>1 DEF NextFix
  <2>3. f \in fixes["server"] /\ f[2] = roster[f[1]]
    BY <1>3, <2>1 DEF RosterFollowed
  <2>4. \A u \in Members : OnTheList(u) => OnTheList(u)'
    BY <1>1, <2>2 DEF OnTheList, By
  <2> QED
    BY <1>1, <2>2, <2>3, <2>4 DEF RosterFollowed, Known
<1>4. CASE p = "server" /\ step[p] # "idle"
  <2> DEFINE w == fix["server"][1]
  <2>1. fix["server"] \in Fixes /\ fix["server"][2] = roster[w] /\ fix["server"] = <<w, roster[w]>>
    BY <1>4 DEF RosterFollowed, TypeInv, InHand, Fixes
  <2>2. CASE (CountUpdates(p) /\ step'["server"] # "idle") \/ SetPayload(p)
    <3>1. UNCHANGED <<row, fixes, fix, failed>> /\ step'["server"] # "idle"
      BY <1>0, <1>4, <2>2 DEF CountUpdates, SetPayload, Done
    <3>2. \A u \in Members : OnTheList(u) => OnTheList(u)'
      BY <1>1, <3>1 DEF OnTheList, By
    <3> QED
      BY <1>1, <1>4, <3>1, <3>2 DEF RosterFollowed, Known
  <2>3. ASSUME step'["server"] = "idle", fixes' = fixes, failed \subseteq failed',
               \A m \in Messages : Author[m] # w => row'[m] = row[m],
               w \in failed' \/ \A m \in By(w) : row'[m] \in {None, roster[w]}
        PROVE  RosterFollowed'
    <3>1. \A u \in Members \ failed' : OnTheList(u) => OnTheList(u)'
      BY <1>1, <2>1, <2>3 DEF OnTheList, By
    <3> QED
      BY <1>1, <2>3, <3>1 DEF RosterFollowed, Known
  <2>4. CASE CountUpdates(p) /\ step'["server"] = "idle"
    BY <1>0, <1>4, <2>1, <2>3, <2>4 DEF CountUpdates, Done, By
  <2>5. CASE UpdateRows(p)
    BY <1>0, <1>4, <2>1, <2>3, <2>5 DEF UpdateRows, RenameRows, Done, By
  <2>6. CASE CountFails(p) \/ SetPayloadFails(p) \/ UpdateRowsFails(p)
    BY <1>0, <1>4, <2>1, <2>3, <2>6 DEF CountFails, SetPayloadFails, UpdateRowsFails, Done, Log
  <2> QED
    BY <1>4, <2>2, <2>4, <2>5, <2>6 DEF Apply, NextFix
<1> QED
  BY <1>0, <1>2, <1>3, <1>4
     DEF Apply, CountUpdates, SetPayload, UpdateRows, CountFails, SetPayloadFails, UpdateRowsFails

\* What the server has not repaired and not failed to repair is on its list.
LEMMA RosterStep ==
  ASSUME Script # "beside"
  PROVE  TypeInv /\ OneAtATime /\ RosterFollowed /\ [Next]_vars => RosterFollowed'
<1> SUFFICES ASSUME TypeInv, OneAtATime, RosterFollowed, [Next]_vars
             PROVE  RosterFollowed'
  OBVIOUS
<1> USE DEF stores, sentinels, indexing, applying, history
<1>1. CASE Upsert \/ MarkIndexed \/ IndexFails \/ UNCHANGED vars
  BY <1>1 DEF Upsert, MarkIndexed, IndexFails, vars, RosterFollowed, OnTheList, Known
<1>2. CASE Stop \/ Crash
  BY <1>2 DEF Stop, Crash, ServerEnds, Ends, Done, RosterFollowed, TypeInv, TypeOK, Processes
<1>3. CASE ScriptCrash
  <2>1. pc = "down" /\ fixes["server"] = {} /\ step["server"] = "idle"
    BY <1>3 DEF ScriptCrash, OneAtATime
  <2>2. pc' = "down" /\ fixes'["server"] = {} /\ step'["server"] = "idle"
    BY <1>3, <2>1 DEF ScriptCrash, Ends, Done, TypeInv, TypeOK, Processes
  <2> QED
    BY <2>2 DEF RosterFollowed
<1> QED
  BY <1>1, <1>2, <1>3, RosterStart, RosterLive, RosterRename DEF Next

\* NamesInv is inductive, unless the script runs beside the server.
LEMMA NamesStep ==
  ASSUME Script # "beside"
  PROVE  NamesInv /\ [Next]_vars => NamesInv'
BY TypeStep, OneAtATimeStep, RecordsStep, PointsStep, RosterStep DEF NamesInv

\* Unless the script runs beside the server, and whatever fails: once the client is live
\* and at rest, a stored message of a member whose name is known carries that name in
\* SQLite and in Qdrant, or a rename of that member failed since the server started or
\* was once cut between Qdrant and SQLite, or nio took the member's name from a state
\* section and no event of the member has been heard since.
THEOREM NamesDisagreeOnlyForCause ==
  ASSUME Script # "beside"
  PROVE  Spec => []DisagreeOnlyForCause
<1>1. ASSUME NamesInv
      PROVE  DisagreeOnlyForCause
  <2> SUFFICES ASSUME pc = "live", NothingRunning, NEW m \in Messages,
                      Known(Author[m]), row[m] # None,
                      Author[m] \notin failed \cup torn \cup unheard
               PROVE  row[m] = roster[Author[m]] /\ point[m] \in {None, roster[Author[m]]}
    BY DEF DisagreeOnlyForCause, AgreeExcept
  <2>1. fixes["server"] = {} /\ \A p \in Processes : step[p] = "idle"
    BY <1>1 DEF NothingRunning, AtRest, ScriptIdle, NamesInv, OneAtATime, Processes
  <2>2. OnTheList(Author[m])
    BY <1>1, Authors DEF NamesInv, RosterFollowed
  <2>3. row[m] = roster[Author[m]]
    BY <2>1, <2>2 DEF OnTheList, By, Processes
  <2>4. point[m] \in {None, row[m]}
    BY <1>1, <2>1 DEF NamesInv, PointsFollow
  <2> QED
    BY <2>3, <2>4
<1> QED
  BY <1>1, NamesInit, NamesStep, PTL DEF Spec

\* Unless the script runs beside the server, and whatever fails: Qdrant is left with an
\* old name that no later pass would find only by a rename cut between Qdrant and SQLite.
THEOREM NamesUnnoticedOnlyIfTorn ==
  ASSUME Script # "beside"
  PROVE  Spec => []UnnoticedOnlyIfTorn
<1>1. ASSUME NamesInv
      PROVE  UnnoticedOnlyIfTorn
  <2> SUFFICES ASSUME NothingRunning, NEW u \in Members, Unnoticed(u), u \notin torn
               PROVE  FALSE
    BY DEF UnnoticedOnlyIfTorn
  <2>1. \A p \in Processes : step[p] = "idle"
    BY DEF NothingRunning, AtRest, ScriptIdle, Processes
  <2>2. PICK m \in By(u) : point[m] \notin {None, roster[u]}
    BY DEF Unnoticed
  <2>3. row[m] # None /\ point[m] = row[m]
    BY <1>1, <2>1, <2>2 DEF NamesInv, PointsFollow, By
  <2> QED
    BY <2>2, <2>3 DEF Unnoticed
<1> QED
  BY <1>1, NamesInit, NamesStep, PTL DEF Spec

-----------------------------------------------------------------------------
(* When names agree                                                        *)

\* What is being applied is what the roster says, and a point that differs from its row
\* is ahead of it: it has the roster's name, which a rename has not yet, or never,
\* written to SQLite.  Before the first backfill has ended only the script renames, and a
\* live server leaves no point ahead but those of the rename in hand.
AgreeInv ==
  /\ failed = {}
  /\ pc \in {"retry", "reconcile", "live"} => complete
  /\ \A f \in fixes["script"] : f[2] = roster[f[1]]
  /\ step["script"] # "idle" => fix["script"][2] = roster[fix["script"][1]]
  /\ \A p \in Processes, m \in Messages :
       step[p] = "sqlite" /\ fix[p][1] = Author[m] => point[m] \in {None, fix[p][2]}
  /\ \A m \in Messages : point[m] \notin {None, row[m]} =>
       /\ point[m] = roster[Author[m]] /\ Known(Author[m])
       /\ complete \/ (step["script"] = "sqlite" /\ fix["script"][1] = Author[m])
  /\ pc = "live" => \A m \in Messages :
       point[m] \in {None, row[m]} \/ (step["server"] = "sqlite" /\ fix["server"][1] = Author[m])

\* What no failure of Qdrant or SQLite, no second import and no script beside the server
\* leaves of the actions.
LEMMA NothingRefused ==
  ASSUME ~KeyBackup, Failures \subseteq {"crash", "index", "limited"}
  PROVE  /\ ~ImportKeys /\ ~ReconcileFails /\ ~ScriptCrash
         /\ \A p \in Processes : ~CountFails(p) /\ ~SetPayloadFails(p) /\ ~UpdateRowsFails(p)
BY DEF ImportKeys, ReconcileFails, ScriptCrash, CountFails, SetPayloadFails, UpdateRowsFails

\* At the start nothing is stored.
LEMMA AgreeInit == Init => AgreeInv
BY DEF Init, AgreeInv, Processes

\* With no rename under way the server's query has found, and its fixes have carried to
\* all rows, every name it was told.
LEMMA RowsCarried ==
  ASSUME NamesInv, AgreeInv, pc \in {"reconcile", "live"}, AtRest, fixes["server"] = {},
         NEW m \in Messages, Known(Author[m]), Author[m] \notin unheard
  PROVE  row[m] \in {None, roster[Author[m]]}
<1>1. OnTheList(Author[m])
  BY Authors DEF NamesInv, RosterFollowed, AgreeInv
<1> QED
  BY <1>1 DEF OnTheList, By, AtRest

\* The steps of a start: only a full-state sync changes the roster, before the first
\* backfill has ended and with no script at work; and a server that goes live has carried
\* every known name to all rows, so that no point is ahead of its row.
LEMMA AgreeStart ==
  ASSUME Script # "beside", NamesInv, AgreeInv,
         RestoreRooms \/ PopulateRooms \/ EndBackfill \/ TakePending \/ Reconcile \/ GoLive
           \/ StartScript
  PROVE  AgreeInv'
<1> USE DEF stores, sentinels, indexing, applying, history, AgreeInv
<1>0. /\ fixes \in [Processes -> SUBSET Fixes] /\ Processes = {"server", "script"}
      /\ OneAtATime
  BY DEF NamesInv, TypeInv, TypeOK, Processes
<1>1. CASE RestoreRooms \/ EndBackfill \/ TakePending \/ Reconcile
  BY <1>0, <1>1 DEF RestoreRooms, EndBackfill, TakePending, Reconcile, Known
<1>2. CASE PopulateRooms
  <2>1. /\ pc = "down" /\ ~complete
        /\ pc' = "backfill" /\ failed' = {}
        /\ UNCHANGED <<row, point, fixes, fix, step, complete>>
    BY <1>2 DEF PopulateRooms, MayStart
  <2>2. /\ \A p \in Processes : step[p] = "idle"
        /\ fixes["script"] = {}
    <3>1. Script = "never" \/ Script = "alone" \/ Script = "beside"
      BY NamesAssumption DEF ScriptModes
    <3>2. Script # "alone" \/ ScriptIdle
      BY <1>2 DEF PopulateRooms, MayStart
    <3>3. step["server"] = "idle"
      BY <1>0, <2>1 DEF OneAtATime
    <3> QED
      BY <1>0, <3>1, <3>2, <3>3 DEF OneAtATime, ScriptIdle
  <2>3. \A m \in Messages : point[m] \in {None, row[m]}
    BY <2>1, <2>2, <1>0
  <2> QED
    BY <1>0, <2>1, <2>2, <2>3
<1>3. CASE StartScript
  <2>1. /\ step["script"] = "idle" /\ fixes'["script"] = FixesDue
        /\ UNCHANGED <<roster, row, point, complete, fix, step, pc, failed>>
    BY <1>0, <1>3 DEF StartScript, ScriptIdle
  <2>2. \A f \in FixesDue : f[2] = roster[f[1]]
    BY DEF FixesDue
  <2>3. pc' = "live" => \A m \in Messages :
          \/ point'[m] \in {None, row'[m]}
          \/ step'["server"] = "sqlite" /\ fix'["server"][1] = Author[m]
    BY <2>1
  <2> QED
    BY <2>1, <2>2, <2>3 DEF Known
<1>4. CASE GoLive
  <2>1. /\ pc = "reconcile" /\ AtRest /\ fixes["server"] = {} /\ pc' = "live"
        /\ UNCHANGED <<roster, row, point, complete, fixes, fix, step, failed>>
    BY <1>4 DEF GoLive
  <2>2. ASSUME NEW m \in Messages, point[m] \notin {None, row[m]}
        PROVE  FALSE
    <3>1. point[m] = roster[Author[m]] /\ Known(Author[m])
      BY <2>2
    <3>2. unheard = {} /\ row[m] # None
      BY <2>1, <2>2 DEF NamesInv, RosterFollowed, PointsFollow
    <3>3. row[m] = roster[Author[m]]
      BY <2>1, <3>1, <3>2, RowsCarried
    <3> QED
      BY <2>2, <3>1, <3>3
  <2> QED
    BY <2>1, <2>2 DEF Known
<1> QED
  BY <1>1, <1>2, <1>3, <1>4

\* New messages have no point, and a point gets the name of its row.
LEMMA AgreeMessages ==
  ASSUME NamesInv, AgreeInv,
         (\E m \in Messages : Insert(m)) \/ Upsert \/ MarkIndexed \/ IndexFails
  PROVE  AgreeInv'
<1> USE DEF stores, sentinels, indexing, applying, history
<1>0. /\ row \in [Messages -> Names \cup {None}]
      /\ point \in [Messages -> Names \cup {None}]
      /\ record \in Records \cup {None}
  BY DEF NamesInv, TypeInv, TypeOK
<1>1. ASSUME NEW m \in Messages, Insert(m)
      PROVE  AgreeInv'
  <2>1. point[m] = None
    BY <1>1 DEF Insert, NamesInv, PointsFollow
  <2> QED
    BY <1>0, <1>1, <2>1 DEF AgreeInv, Insert, Known
<1>2. CASE Upsert
  <2>1. \A p \in Processes : step[p] = "idle"
    BY <1>2 DEF Upsert, NamesInv, OneAtATime, ScriptIdle, Processes
  <2>2. record[1] \in Messages /\ row[record[1]] = record[2]
    BY <1>0, <1>2 DEF Upsert, NamesInv, RecordsAreCurrent, Records
  <2> QED
    BY <1>0, <1>2, <2>1, <2>2 DEF AgreeInv, Upsert, Known
<1>3. CASE MarkIndexed \/ IndexFails
  BY <1>3 DEF MarkIndexed, IndexFails, AgreeInv, Known
<1> QED
  BY <1>1, <1>2, <1>3

\* On a live client at rest nothing is to be fixed and no point is ahead of its row.
LEMMA NoneAhead ==
  ASSUME NamesInv, AgreeInv, pc = "live", AtRest
  PROVE  /\ \A m \in Messages : point[m] \in {None, row[m]}
         /\ \A p \in Processes : step[p] = "idle" /\ fixes[p] = {}
<1>1. \A p \in Processes : step[p] = "idle" /\ fixes[p] = {}
  BY DEF NamesInv, OneAtATime, ScriptIdle, AtRest, Processes
<1> QED
  BY <1>1 DEF AgreeInv, Processes

\* A member event changes the roster and starts the rename that follows it; a state
\* section changes nio's list only.
LEMMA AgreeMembers ==
  ASSUME NamesInv, AgreeInv, NEW u \in Members,
         \/ MemberLeaves(u) \/ (\E raw \in RawNames \cup {NoName} : MemberJoins(u, raw))
         \/ \E name \in Names \cup {Gone} : ReceiveAsState(u, name)
  PROVE  AgreeInv'
<1> USE DEF stores, sentinels, indexing, applying, history
<1>1. pc = "live" /\ AtRest
  BY DEF MemberLeaves, MemberJoins, ReceiveAsState
<1>2. /\ \A m \in Messages : point[m] \in {None, row[m]}
      /\ \A p \in Processes : step[p] = "idle" /\ fixes[p] = {}
  BY <1>1, NoneAhead
<1>3. /\ UNCHANGED <<row, point, pc, failed, fixes, complete>>
      /\ \A p \in Processes : step'[p] \in {"idle", "count"}
      /\ step'["script"] = "idle"
  BY <1>2 DEF MemberLeaves, MemberJoins, ReceiveAsState, Heal, NamesInv, TypeInv, TypeOK, Processes
<1>4. /\ \A p \in Processes : step'[p] # "sqlite" /\ fixes'[p] = {}
      /\ \A m \in Messages : point'[m] \in {None, row'[m]}
  BY <1>2, <1>3
<1>5. /\ failed' = {} /\ fixes'["script"] = {}
      /\ pc' \in {"retry", "reconcile", "live"} => complete'
  BY <1>3, <1>4 DEF AgreeInv, Processes
<1> QED
  BY <1>3, <1>4, <1>5 DEF AgreeInv

\* A rename carries the roster's name to Qdrant, ahead of the rows, and then to the rows.
LEMMA AgreeRename ==
  ASSUME NamesInv, FixesAreReal, AgreeInv, NEW p \in Processes, Apply(p)
  PROVE  AgreeInv'
<1> USE DEF stores, sentinels, indexing, applying, history
<1> DEFINE w == fix[p][1]
<1>0. /\ fixes \in [Processes -> SUBSET Fixes] /\ Processes = {"server", "script"}
      /\ step \in [Processes -> {"idle", "count", "qdrant", "sqlite"}]
      /\ fix \in [Processes -> Fixes \cup {None}]
      /\ row \in [Messages -> Names \cup {None}]
      /\ point \in [Messages -> Names \cup {None}]
      /\ roster \in [Members -> Names \cup {Gone}]
  BY DEF NamesInv, TypeInv, TypeOK, Processes
<1>1. \A q \in Processes : step[p] # "idle" /\ q # p => step[q] = "idle"
  BY DEF NamesInv, OneAtATime, ScriptIdle, Processes
<1>2. ASSUME step[p] # "idle"
      PROVE  /\ w \in Members /\ fix[p][2] = roster[w] /\ roster[w] \in Names /\ Known(w)
             /\ p = "script" \/ complete
  <2>1. fix[p] \in Fixes
    BY <1>2 DEF NamesInv, TypeInv, InHand
  <2>2. w \in Members /\ fix[p][2] \in Names
    BY <2>1 DEF Fixes
  <2>3. fix[p][2] = roster[w]
    BY <1>0, <1>2 DEF NamesInv, RosterFollowed, AgreeInv
  <2>4. fix[p][2] # Fallback
    BY <1>2 DEF FixesAreReal
  <2>5. Gone \notin Names
    BY NamesAssumption DEF Names
  <2>6. p = "script" \/ complete
    BY <1>0, <1>2 DEF NamesInv, OneAtATime, AgreeInv
  <2> QED
    BY <2>2, <2>3, <2>4, <2>5, <2>6 DEF Known
<1>3. CASE NextFix(p) \/ CountUpdates(p)
  <2>1. /\ UNCHANGED <<roster, row, point, complete, pc, failed>>
        /\ \A q \in Processes \ {p} : step'[q] = step[q] /\ fix'[q] = fix[q] /\ fixes'[q] = fixes[q]
        /\ step[p] # "sqlite" /\ step'[p] # "sqlite"
        /\ fixes'[p] \subseteq fixes[p]
    BY <1>0, <1>3 DEF NextFix, CountUpdates, Done
  <2>2. step'[p] # "idle" => (fix'[p] = fix[p] /\ step[p] # "idle") \/ fix'[p] \in fixes[p]
    BY <1>0, <1>3 DEF NextFix, CountUpdates, Done
  <2>3. step'["script"] # "idle" => fix'["script"][2] = roster'[fix'["script"][1]]
    BY <1>0, <2>1, <2>2 DEF AgreeInv
  <2>4. \A q \in Processes, m \in Messages :
          step'[q] = "sqlite" /\ fix'[q][1] = Author[m] => point'[m] \in {None, fix'[q][2]}
    BY <1>0, <2>1 DEF AgreeInv
  <2>5. \A m \in Messages : point'[m] \notin {None, row'[m]} =>
          /\ point'[m] = roster'[Author[m]] /\ Known(Author[m])'
          /\ complete' \/ (step'["script"] = "sqlite" /\ fix'["script"][1] = Author[m])
    BY <1>0, <2>1 DEF AgreeInv, Known
  <2>6. pc' = "live" => \A m \in Messages :
          \/ point'[m] \in {None, row'[m]}
          \/ step'["server"] = "sqlite" /\ fix'["server"][1] = Author[m]
    BY <1>0, <2>1 DEF AgreeInv
  <2> QED
    BY <1>0, <2>1, <2>3, <2>4, <2>5, <2>6 DEF AgreeInv
<1>4. CASE SetPayload(p)
  <2>1. /\ step[p] = "qdrant" /\ step' = [step EXCEPT ![p] = "sqlite"]
        /\ UNCHANGED <<roster, row, complete, pc, failed, fix, fixes>>
        /\ RenamePoints(p)
    BY <1>4 DEF SetPayload
  <2>2. \A m \in Messages :
          point'[m] = IF Author[m] = w /\ point[m] # None THEN fix[p][2] ELSE point[m]
    BY <1>0, <2>1 DEF RenamePoints
  <2>3. \A q \in Processes : q # p => step[q] = "idle" /\ step'[q] = "idle"
    BY <1>0, <1>1, <2>1
  <2>4. step'["script"] # "idle" => fix'["script"][2] = roster'[fix'["script"][1]]
    BY <1>0, <1>2, <2>1, <2>3
  <2>5. \A q \in Processes, m \in Messages :
          step'[q] = "sqlite" /\ fix'[q][1] = Author[m] => point'[m] \in {None, fix'[q][2]}
    BY <1>0, <2>1, <2>2, <2>3
  <2>6. ASSUME NEW m \in Messages, point'[m] \notin {None, row'[m]}
        PROVE  /\ point'[m] = roster'[Author[m]] /\ Known(Author[m])'
               /\ complete' \/ (step'["script"] = "sqlite" /\ fix'["script"][1] = Author[m])
    <3>1. CASE Author[m] = w
      BY <1>0, <1>2, <2>1, <2>2, <2>6, <3>1 DEF Known
    <3>2. CASE Author[m] # w
      <4>1. point[m] \notin {None, row[m]} /\ point'[m] = point[m]
        BY <2>1, <2>2, <2>6, <3>2
      <4>2. step["script"] # "sqlite" \/ p = "server"
        BY <1>0, <2>1
      <4>3. step["script"] # "sqlite"
        BY <1>0, <1>1, <2>1, <4>2
      <4> QED
        BY <2>1, <4>1, <4>3 DEF AgreeInv, Known
    <3> QED
      BY <3>1, <3>2
  <2>7. ASSUME pc' = "live", NEW m \in Messages, point'[m] \notin {None, row'[m]}
        PROVE  step'["server"] = "sqlite" /\ fix'["server"][1] = Author[m]
    <3>1. p = "server"
      BY <1>0, <2>1, <2>7 DEF NamesInv, OneAtATime, ScriptIdle
    <3>2. step["server"] # "sqlite"
      BY <2>1, <3>1
    <3> QED
      BY <1>0, <2>1, <2>2, <2>7, <3>1, <3>2 DEF AgreeInv
  <2> QED
    BY <2>1, <2>4, <2>5, <2>6, <2>7 DEF AgreeInv
<1>5. CASE UpdateRows(p)
  <2>1. /\ step[p] = "sqlite" /\ step' = [step EXCEPT ![p] = "idle"]
        /\ UNCHANGED <<roster, point, complete, pc, failed, fixes>>
        /\ RenameRows(p)
    BY <1>5 DEF UpdateRows, Done
  <2>2. \A m \in Messages :
          row'[m] = IF Author[m] = w /\ row[m] # None THEN fix[p][2] ELSE row[m]
    BY <1>0, <2>1 DEF RenameRows
  <2>3. \A q \in Processes : step'[q] = "idle"
    BY <1>0, <1>1, <2>1
  <2>4. ASSUME NEW m \in Messages, point'[m] \notin {None, row'[m]}
        PROVE  point'[m] = roster'[Author[m]] /\ Known(Author[m])' /\ complete'
    <3>1. row[m] # None
      BY <2>1, <2>4 DEF NamesInv, PointsFollow
    <3>2. Author[m] # w
      BY <2>1, <2>2, <2>4, <3>1 DEF AgreeInv
    <3>3. point[m] \notin {None, row[m]}
      BY <2>1, <2>2, <2>4, <3>2
    <3>4. ~(step["script"] = "sqlite" /\ fix["script"][1] = Author[m])
      BY <1>0, <1>1, <2>1, <3>2
    <3> QED
      BY <2>1, <3>3, <3>4 DEF AgreeInv, Known
  <2>5. ASSUME pc' = "live", NEW m \in Messages, point'[m] \notin {None, row'[m]}
        PROVE  FALSE
    <3>1. row[m] # None
      BY <2>1, <2>5 DEF NamesInv, PointsFollow
    <3>2. Author[m] # w
      BY <2>1, <2>2, <2>5, <3>1 DEF AgreeInv
    <3>3. point[m] \notin {None, row[m]}
      BY <2>1, <2>2, <2>5, <3>2
    <3>4. p = "server"
      BY <1>0, <2>1, <2>5 DEF NamesInv, OneAtATime, ScriptIdle
    <3> QED
      BY <2>1, <2>5, <3>2, <3>3, <3>4 DEF AgreeInv
  <2> QED
    BY <1>0, <2>1, <2>3, <2>4, <2>5 DEF AgreeInv
<1> QED
  BY <1>3, <1>4, <1>5 DEF Apply

\* A server that ends in the middle of a rename leaves points ahead of their rows, once
\* the first backfill has ended.
LEMMA AgreeEnd ==
  ASSUME NamesInv, AgreeInv, Stop \/ Crash
  PROVE  AgreeInv'
<1> USE DEF stores, sentinels, indexing, applying, history
<1>1. /\ step' = [step EXCEPT !["server"] = "idle"] /\ fix' = [fix EXCEPT !["server"] = None]
      /\ fixes' = [fixes EXCEPT !["server"] = {}] /\ pc' = "down"
      /\ UNCHANGED <<roster, row, point, complete, failed>>
  BY DEF Stop, Crash, ServerEnds, Ends, Done
<1>2. /\ step'["server"] = "idle" /\ step'["script"] = step["script"]
      /\ fix'["script"] = fix["script"] /\ fixes'["script"] = fixes["script"]
  BY <1>1 DEF NamesInv, TypeInv, TypeOK, Processes
<1> QED
  BY <1>1, <1>2 DEF AgreeInv, Known, Processes

\* AgreeInv is inductive beside NamesInv when no rename is refused or half reported.
LEMMA AgreeStep ==
  ASSUME Script # "beside", ~KeyBackup, Failures \subseteq {"crash", "index", "limited"}
  PROVE  NamesInv /\ FixesAreReal /\ AgreeInv /\ [Next]_vars => AgreeInv'
<1> SUFFICES ASSUME NamesInv, FixesAreReal, AgreeInv, [Next]_vars
             PROVE  AgreeInv'
  OBVIOUS
<1>1. CASE UNCHANGED vars
  BY <1>1 DEF vars, stores, sentinels, indexing, applying, history, AgreeInv, Known
<1> QED
  BY <1>1, NothingRefused, AgreeStart, AgreeMessages, AgreeMembers, AgreeRename, AgreeEnd DEF Next

\* What the docstring promises of a successful pass is true when Qdrant and SQLite refuse
\* nothing a rename asks of them, the script does not run beside the server, no key backup
\* forces a second full sync and no display name equals the localpart: then, over any
\* number of crashes, stops and failures of indexing, every stored message of a member
\* whose name is known carries it in both stores once the client is live and at rest, but
\* for members whose name nio took from a state section that no callback saw.
THEOREM NamesAgreeUnlessRefused ==
  ASSUME Script # "beside", ~KeyBackup, Failures \subseteq {"crash", "index", "limited"},
         Fallback \notin RawNames
  PROVE  Spec => []AgreeExcept(unheard)
<1>1. ASSUME NamesInv, AgreeInv
      PROVE  AgreeExcept(unheard)
  <2> SUFFICES ASSUME pc = "live", AtRest, NEW m \in Messages, Known(Author[m]), row[m] # None,
                      Author[m] \notin unheard
               PROVE  row[m] = roster[Author[m]] /\ point[m] \in {None, roster[Author[m]]}
    BY DEF AgreeExcept, NothingRunning
  <2>1. point[m] \in {None, row[m]} /\ fixes["server"] = {}
    BY <1>1, NoneAhead DEF Processes
  <2>2. row[m] = roster[Author[m]]
    BY <1>1, <2>1, RowsCarried
  <2> QED
    BY <2>1, <2>2
<1>2. Init => NamesInv /\ FixesAreReal /\ AgreeInv
  BY NamesInit, RealInit, AgreeInit
<1>3. NamesInv /\ FixesAreReal /\ AgreeInv /\ [Next]_vars => NamesInv' /\ FixesAreReal' /\ AgreeInv'
  BY NamesStep, RealStep, AgreeStep DEF NamesInv
<1>4. Spec => [](NamesInv /\ FixesAreReal /\ AgreeInv)
  BY <1>2, <1>3, PTL DEF Spec
<1> QED
  BY <1>1, <1>4, PTL
=============================================================================
