---------------------------- MODULE SearchMessages ----------------------------
(***************************************************************************)
(* One call of the search_messages tool (server.py) and the search side of *)
(* VectorStore (vector_store.py).                                          *)
(*                                                                         *)
(* The query, if there is one, is embedded.  Then the arguments become     *)
(* candidate filters, strictest first: every term of a sender or room      *)
(* query, then any one of them.  Each filter is a request of its own to    *)
(* Qdrant, which answers with its best `limit` points, and the answers are *)
(* merged.  Between two requests the server keeps indexing messages and    *)
(* renaming senders, so the answers belong to different states of the      *)
(* collection.                                                             *)
(*                                                                         *)
(* Qdrant is external.  A text is the set of its words, a query the set of *)
(* its terms; a point's similarity to the query is a number.  What the     *)
(* collection holds before the first request does not matter, so it is     *)
(* chosen then.                                                            *)
(*                                                                         *)
(* A definition named Faulty... is a variant with a bug, kept to show that *)
(* some property notices it; the specification uses none of them.          *)
(***************************************************************************)
EXTENDS EmbeddingClient, SequencesExt

CONSTANTS
  Points,       \* messages that are or may come to be in the collection
  Users,        \* MXIDs
  SentBy,       \* the author of each point
  SentIn,       \* its room
  SentAt,       \* its timestamp
  Likeness,     \* its similarity to the query
  Names,        \* texts a sender's search text may be, as sets of words
  RoomNames,    \* texts a room's name may be
  SenderArgs,   \* the sender argument: NoArg, an MXID or the terms of a query
  RoomArgs,     \* the room argument: NoArg or the terms of a query
  TimeRanges,   \* the pairs <<after_ts, before_ts>> a call may be given
  Limits,       \* the limits a call may be given
  NoArg,        \* an argument left out
  MaxChanges    \* bound: changes of the collection during the call

\* A room query that is not blank has a term; a sender query may consist of
\* separators only and have none.
ASSUME SearchAssumption ==
  /\ IsFiniteSet(Points) /\ SentBy \in [Points -> Users]
  /\ SentAt \in [Points -> Nat] /\ Likeness \in [Points -> Nat]
  /\ NoArg \notin Users
  /\ \A s \in SenderArgs \ (Users \cup {NoArg}) : IsFiniteSet(s)
  /\ \A r \in RoomArgs \ {NoArg} : IsFiniteSet(r) /\ r # {} /\ r \notin Users
  /\ Limits \subseteq Nat \ {0}
  /\ MaxChanges \in Nat

VARIABLES
  searchPc,    \* "idle", "embedding", "asking", "answered" or "error"
  args,        \* the arguments of the call
  points,      \* the collection: payload (sender_search, room_search) of each point
  queries,     \* candidate filters not asked yet
  found,       \* merged results, best first
  stable,      \* history: points in the collection, unchanged, since the first request
  changes      \* history: changes of the collection since

searchVars == <<searchPc, args, points, queries, found, stable, changes>>

Arguments ==
  [query : BOOLEAN, sender : SenderArgs, room : RoomArgs, range : TimeRanges, limit : Limits]

Payloads == [named : Names, inRoom : RoomNames]
Collections == UNION {[K -> Payloads] : K \in SUBSET Points}

Least(a, b) == Min({a, b})

\* The messages found so far.
Results == ToSet(found)

-----------------------------------------------------------------------------
(* Filters: _candidate_filters and _build_filter *)

IsTerms(arg) == arg # NoArg /\ arg \notin Users

FaultyCounts(terms) == <<Cardinality(terms)>>

\* How many terms have to match: all of them, then any one.  A query of at most
\* one term has a single count, which _build_filter takes for "all".
Counts(terms) ==
  IF Cardinality(terms) > 1 THEN <<Cardinality(terms), 1>> ELSE <<Cardinality(terms)>>

CountsOf(arg) == IF IsTerms(arg) THEN Counts(arg) ELSE <<0>>

\* The cross product, the sender's counts in the outer loop.
Candidates(sender, room) ==
  LET s == CountsOf(sender)
      r == CountsOf(room)
  IN [i \in 1..(Len(s) * Len(r)) |->
        [sender |-> s[((i - 1) \div Len(r)) + 1], room |-> r[((i - 1) % Len(r)) + 1]]]

\* MinShould over the terms; a query without terms adds no condition.
HasTerms(text, terms, count) ==
  terms = {} \/ Cardinality(terms \cap text) >= Max({1, Least(count, Cardinality(terms))})

SenderMatches(p, count) ==
  /\ args.sender \in Users => SentBy[p] = args.sender
  /\ IsTerms(args.sender) => HasTerms(points[p].named, args.sender, count)

RoomMatches(p, count) == IsTerms(args.room) => HasTerms(points[p].inRoom, args.room, count)

\* Range(gte, lte): both ends belong to the range.
InTime(p) ==
  /\ args.range[1] # NoArg => SentAt[p] >= args.range[1]
  /\ args.range[2] # NoArg => SentAt[p] <= args.range[2]

FaultyMatches(p, f) ==
  /\ SenderMatches(p, f.sender)
  /\ IsTerms(args.sender) \/ RoomMatches(p, f.room)
  /\ InTime(p)

\* Two fuzzy conditions are both required: the room's is nested in a must.
Matches(p, f) == SenderMatches(p, f.sender) /\ RoomMatches(p, f.room) /\ InTime(p)

-----------------------------------------------------------------------------
(* Qdrant: the best `limit` points of those that match *)

Value(p) == IF args.query THEN Likeness[p] ELSE SentAt[p]

\* Equal values come in any order.
Answers(f) ==
  LET matching == {p \in DOMAIN points : Matches(p, f)}
      n == Least(args.limit, Cardinality(matching))
  IN {s \in [1..n -> matching] :
        /\ \A i, j \in 1..n : i < j => s[i] # s[j] /\ Value(s[i]) >= Value(s[j])
        /\ \A p \in matching \ ToSet(s) : \A i \in 1..n : Value(p) <= Value(s[i])}

-----------------------------------------------------------------------------
(* The call *)

SearchIdle ==
  /\ searchPc = "idle"
  /\ args = NoArg
  /\ points = <<>>
  /\ queries = <<>> /\ found = <<>>
  /\ stable = {} /\ changes = 0

SearchInit == EmbedIdle /\ SearchIdle

\* The call goes on to Qdrant, with whatever has been indexed by then.
Prepare(a) ==
  /\ searchPc' = "asking"
  /\ queries' = Candidates(a.sender, a.room)
  /\ points' \in Collections
  /\ stable' = DOMAIN points'
  /\ UNCHANGED <<found, changes>>

NothingAsked(a) ==
  ~a.query /\ a.sender = NoArg /\ a.room = NoArg /\ a.range = <<NoArg, NoArg>>

\* search_messages without anything to look for is refused.
Refuse(a) ==
  /\ searchPc = "idle" /\ NothingAsked(a)
  /\ args' = a /\ searchPc' = "error"
  /\ UNCHANGED <<points, queries, found, stable, changes, embedVars>>

CallWithQuery(a) ==
  /\ searchPc = "idle" /\ a.query
  /\ args' = a /\ searchPc' = "embedding"
  /\ Embed
  /\ UNCHANGED <<points, queries, found, stable, changes>>

CallWithoutQuery(a) ==
  /\ searchPc = "idle" /\ ~a.query /\ ~NothingAsked(a)
  /\ args' = a /\ Prepare(a)
  /\ UNCHANGED embedVars

SearchCall(a) == Refuse(a) \/ CallWithQuery(a) \/ CallWithoutQuery(a)

Embedding == searchPc = "embedding" /\ EmbedStep /\ UNCHANGED searchVars

Embedded ==
  /\ searchPc = "embedding" /\ embedPc = "done"
  /\ Prepare(args)
  /\ UNCHANGED <<args, embedVars>>

SearchError == searchPc' = "error" /\ UNCHANGED <<args, points, queries, found, stable, changes, embedVars>>

NotEmbedded == searchPc = "embedding" /\ embedPc \in {"failed", "exhausted"} /\ SearchError

\* A request to Qdrant raises: the call answers with an error.
RequestFails == searchPc = "asking" /\ SearchError

\* p comes somewhere before q.
Precedes(p, q, s) == \E a, b \in DOMAIN s : a < b /\ s[a] = p /\ s[b] = q

\* The hits that no earlier filter has found, in their order (there is one such sequence).
Unseen(hits) ==
  LET new == ToSet(hits) \ Results
  IN {s \in [1..Cardinality(new) -> new] :
        ToSet(s) = new /\ \A i, j \in DOMAIN s : i < j => Precedes(s[i], s[j], hits)}

FaultyNewestFirst(s) == {s}

\* results.sort(reverse=True): stable, so equal timestamps keep their order
\* (there is one such sequence).
NewestFirst(s) ==
  {t \in [DOMAIN s -> ToSet(s)] :
     /\ ToSet(t) = ToSet(s)
     /\ \A i, j \in DOMAIN t : i < j =>
          \/ SentAt[t[i]] > SentAt[t[j]]
          \/ SentAt[t[i]] = SentAt[t[j]] /\ Precedes(t[i], t[j], s)}

Cut(s) == SubSeq(s, 1, Least(args.limit, Len(s)))

FaultyRemaining == queries

Remaining == Tail(queries)

\* _merge_searches keeps the order in which the filters found the points and
\* stops as soon as it has `limit` of them.
AskSearch ==
  /\ searchPc = "asking" /\ args.query
  /\ \E hits \in Answers(Head(queries)) : \E fresh \in Unseen(hits) :
       /\ found' = Cut(found \o fresh)
       /\ searchPc' = IF Len(found') = args.limit \/ Len(queries) = 1
                      THEN "answered" ELSE "asking"
  /\ queries' = Remaining
  /\ UNCHANGED <<args, points, stable, changes, embedVars>>

\* _merge_scrolls asks every filter and sorts and cuts at the end.
AskScroll ==
  /\ searchPc = "asking" /\ ~args.query
  /\ \E hits \in Answers(Head(queries)) : \E fresh \in Unseen(hits) :
       \/ /\ Len(queries) = 1
          /\ \E sorted \in NewestFirst(found \o fresh) : found' = Cut(sorted)
          /\ searchPc' = "answered"
       \/ /\ Len(queries) # 1
          /\ found' = found \o fresh
          /\ UNCHANGED searchPc
  /\ queries' = Remaining
  /\ UNCHANGED <<args, points, stable, changes, embedVars>>

SearchEnded == searchPc \in {"answered", "error"}

-----------------------------------------------------------------------------
(* What the rest of the server does meanwhile *)

Change ==
  /\ searchPc = "asking" /\ changes < MaxChanges
  /\ changes' = changes + 1
  /\ UNCHANGED <<searchPc, args, queries, found, embedVars>>

\* VectorStore.upsert of a message just received.
Upsert(p, payload) ==
  /\ Change
  /\ p \notin DOMAIN points
  /\ points' = [q \in DOMAIN points \cup {p} |-> IF q = p THEN payload ELSE points[q]]
  /\ UNCHANGED stable

\* VectorStore.update_sender_name: every point of the sender in the room is rewritten.
Rename(u, r, text) ==
  /\ Change
  /\ LET renamed == {p \in DOMAIN points : SentBy[p] = u /\ SentIn[p] = r}
     IN /\ points' = [p \in DOMAIN points |->
                        IF p \in renamed THEN [points[p] EXCEPT !.named = text] ELSE points[p]]
        /\ stable' = stable \ renamed

Meanwhile ==
  \/ \E p \in Points, payload \in Payloads : Upsert(p, payload)
  \/ \E p \in Points, text \in Names : Rename(SentBy[p], SentIn[p], text)

\* Every request to Qdrant is answered or raises.
SearchStep == Embedding \/ Embedded \/ NotEmbedded \/ AskSearch \/ AskScroll

SearchNext ==
  \/ \E a \in Arguments : SearchCall(a)
  \/ SearchStep
  \/ RequestFails
  \/ Meanwhile

SearchSpec == SearchInit /\ [][SearchNext]_<<searchVars, embedVars>>
                /\ WF_<<searchVars, embedVars>>(SearchStep)

-----------------------------------------------------------------------------
(* Properties *)

SearchTypeOK ==
  /\ searchPc \in {"idle", "embedding", "asking", "answered", "error"}
  /\ args \in Arguments \cup {NoArg}
  /\ points \in Collections /\ stable \subseteq DOMAIN points
  /\ queries \in Seq([sender : Nat, room : Nat])
  /\ found \in Seq(Points)
  /\ changes \in 0..MaxChanges

Answered == searchPc = "answered"

\* The reference: what the tool's description promises of a result, any one
\* term being enough.  (A sender query without terms restricts nothing.)
Relevant(p) ==
  /\ args.sender = NoArg \/ args.sender = SentBy[p]
       \/ (IsTerms(args.sender) /\ (args.sender = {} \/ args.sender \cap points[p].named # {}))
  /\ args.room = NoArg \/ args.room \cap points[p].inRoom # {}
  /\ InTime(p)

\* The best kind of match has all the terms.
FullMatch(p) ==
  /\ Relevant(p)
  /\ IsTerms(args.sender) => args.sender \subseteq points[p].named
  /\ args.room # NoArg => args.room \subseteq points[p].inRoom

\* Every result that was not renamed during the call is one the caller asked
\* for: the conditions on sender, room and time all hold of it.
ResultsAreRelevant == Answered => \A p \in Results \cap stable : Relevant(p)

\* p may be left out although q is returned.  Without a query the newest go
\* first.  With one a full match gives way only to more similar full matches.
GivesWay(p, q) ==
  IF args.query THEN FullMatch(p) => FullMatch(q) /\ Likeness[p] <= Likeness[q]
  ELSE SentAt[p] <= SentAt[q]

\* A message that was in the collection during the whole call and matches a
\* single term is left out only for `limit` others that go before it: no cut of
\* one filter's answer hides it, whatever the other answers hold.
NothingBetterIsLeftOut ==
  Answered => \A p \in stable \ Results : Relevant(p) =>
    /\ Len(found) = args.limit
    /\ \A q \in Results \cap stable : GivesWay(p, q)

\* Up to four answers, given at different times by a collection that changes,
\* become one list without a repetition and within the limit: newest first ("in
\* reverse chronological order by timestamp"), or, with a query, the messages
\* that match all terms before those that match some.
ResultsInOrder ==
  Answered =>
    /\ Len(found) <= args.limit /\ Cardinality(Results) = Len(found)
    /\ \A i, j \in DOMAIN found : i < j =>
         IF args.query
         THEN ({found[i], found[j]} \subseteq stable /\ FullMatch(found[j])) => FullMatch(found[i])
         ELSE SentAt[found[i]] >= SentAt[found[j]]
=============================================================================
