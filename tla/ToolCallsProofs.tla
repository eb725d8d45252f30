---------------------------- MODULE ToolCallsProofs ----------------------------
(***************************************************************************)
(* One call of search_messages or of get_message_context, for every        *)
(* collection, every timeline and every argument.                          *)
(*                                                                         *)
(* First the neighbourhood of an event, pieced together from /context and  *)
(* two pages.  Then the search: what the filters of a query mean, what the *)
(* merge of two answers keeps, and the invariant of the whole call.        *)
(***************************************************************************)
EXTENDS ToolCalls, EmbeddingClientProofs, FiniteSetTheorems, SequenceTheorems

-----------------------------------------------------------------------------
(* get_message_context *)

\* Each side is a run that starts at the pivot, within what was asked and what is there;
\* the token of a side that is still short is where its run stops; and a side that is
\* done is as long as it can be, unless the homeserver held something back.
ContextInv ==
  /\ ContextTypeOK
  /\ want.pivot <= newestAsked
  /\ contextPc \in {"idle", "asked"} => before = <<>> /\ after = <<>> /\ ~curtailed
  /\ contextPc \in {"back", "front", "answered"} =>
       /\ before = Below(want.pivot, Len(before))
       /\ Len(before) <= want.before /\ Len(before) <= want.pivot - 1
       /\ after = Above(want.pivot, Len(after))
       /\ Len(after) <= want.after /\ Len(after) <= newest - want.pivot
  /\ contextPc = "back" => start = want.pivot - Len(before)
  /\ contextPc \in {"back", "front"} /\ TopUp(after, want.after, end) => end = want.pivot + Len(after)
  /\ contextPc = "front" => TopUp(after, want.after, end)
  /\ contextPc \in {"front", "answered"} =>
       curtailed \/ Len(before) = Smaller(want.before, want.pivot - 1)
  /\ contextPc = "answered" \/ (contextPc = "back" /\ ~TopUp(after, want.after, end)) =>
       curtailed \/ Len(after) >= Smaller(want.after, newestAsked - want.pivot)

\* A run of neighbours has the length it is made with, and stays in the timeline.
LEMMA BelowIsRun ==
  ASSUME NEW p \in Int, NEW n \in Nat
  PROVE  Len(Below(p, n)) = n /\ (p <= MaxPosition + 1 /\ n <= p - 1 => Below(p, n) \in Seq(1..MaxPosition))
<1>1. Len(Below(p, n)) = n
  BY DEF Below
<1>2. ASSUME p <= MaxPosition + 1, n <= p - 1 PROVE Below(p, n) \in Seq(1..MaxPosition)
  BY <1>2, ContextAssumption DEF Below
<1> QED
  BY <1>1, <1>2

\* The same above the pivot.
LEMMA AboveIsRun ==
  ASSUME NEW p \in Nat, NEW n \in Nat
  PROVE  Len(Above(p, n)) = n /\ (n <= MaxPosition - p => Above(p, n) \in Seq(1..MaxPosition))
<1>1. Len(Above(p, n)) = n
  BY DEF Above
<1>2. ASSUME n <= MaxPosition - p PROVE Above(p, n) \in Seq(1..MaxPosition)
  BY <1>2, ContextAssumption DEF Above
<1> QED
  BY <1>1, <1>2

\* events[:n] of a run is the shorter run.
LEMMA FirstOfRun ==
  ASSUME NEW p \in Int, NEW b \in Nat, NEW n \in Nat
  PROVE  /\ First(Below(p, b), n) = Below(p, Smaller(n, b))
         /\ First(Above(p, b), n) = Above(p, Smaller(n, b))
<1>1. Smaller(n, b) \in 0..b
  BY DEF Smaller
<1>2. ASSUME NEW k \in 0..b
      PROVE  SubSeq(Below(p, b), 1, k) = Below(p, k) /\ SubSeq(Above(p, b), 1, k) = Above(p, k)
  BY DEF Below, Above
<1>3. Len(Below(p, b)) = b /\ Len(Above(p, b)) = b
  BY DEF Below, Above
<1> QED
  BY <1>1, <1>2, <1>3, Zenon DEF First

\* A page that starts where a run stops continues it.
LEMMA RunGoesOn ==
  ASSUME NEW p \in Int, NEW n \in Nat, NEW k \in Nat
  PROVE  /\ Below(p, n) \o Below(p - n, k) = Below(p, n + k)
         /\ Above(p, n) \o Above(p + n, k) = Above(p, n + k)
<1>1. Below(p, n) \o Below(p - n, k) = Below(p, n + k)
  BY DEF Below
<1>2. Above(p, n) \o Above(p + n, k) = Above(p, n + k)
  BY DEF Above
<1> QED
  BY <1>1, <1>2

\* No context call yet.
LEMMA ContextInit == ContextIdle => ContextInv
<1> SUFFICES ASSUME ContextIdle PROVE ContextInv
  OBVIOUS
<1>1. <<>> \in Seq(1..MaxPosition)
  OBVIOUS
<1>2. 1 \in 1..MaxPosition /\ 1 \in 1..1 /\ 0 \in 0..MaxSide
  BY ContextAssumption
<1>3. ContextTypeOK
  BY <1>1, <1>2, Zenon DEF ContextIdle, ContextTypeOK, Tokens
<1> QED
  BY <1>3, SMT DEF ContextIdle, ContextInv

\* /context answers with a run on either side, and with tokens where the runs stop
\* unless a side has all that was asked.
LEMMA ReplyStep == ContextInv /\ ContextReply => ContextInv'
<1> SUFFICES ASSUME ContextInv, ContextReply PROVE ContextInv'
  OBVIOUS
<1>1. PICK b \in 0..(want.pivot - 1), a \in 0..(newest - want.pivot) :
        /\ b + a <= want.before + want.after
        /\ before' = First(Below(want.pivot, b), want.before)
        /\ after' = First(Above(want.pivot, a), want.after)
        /\ start' \in {want.pivot - b, NoPosition}
        /\ end' \in {want.pivot + a, NoPosition}
        /\ curtailed' =
             \/ start' = NoPosition /\ Len(before') < Smaller(want.before, want.pivot - 1)
             \/ end' = NoPosition /\ Len(after') < Smaller(want.after, newest - want.pivot)
  BY Zenon DEF ContextReply
<1> DEFINE lb == Smaller(want.before, b)
           la == Smaller(want.after, a)
<1>t. /\ want \in [pivot : 1..MaxPosition, before : 0..MaxSide, after : 0..MaxSide]
      /\ newest \in 1..MaxPosition /\ newestAsked \in 1..newest /\ MaxPosition \in Nat
      /\ MaxSide \in Nat /\ NoPosition \notin 0..(MaxPosition + 1)
      /\ want.pivot <= newestAsked
  BY ContextAssumption DEF ContextInv, ContextTypeOK
<1>2. lb \in Nat /\ la \in Nat /\ lb <= want.before /\ lb <= b /\ la <= want.after /\ la <= a
      /\ (lb < want.before => lb = b) /\ (la < want.after => la = a)
  BY <1>t DEF Smaller
<1>3. before' = Below(want.pivot, lb) /\ after' = Above(want.pivot, la)
  BY <1>1, <1>t, FirstOfRun
<1> HIDE DEF lb, la
<1>a. /\ want.pivot \in Int /\ want.pivot \in Nat
      /\ want.pivot <= MaxPosition + 1 /\ lb <= want.pivot - 1 /\ la <= MaxPosition - want.pivot
  BY <1>2, <1>t
<1>4. /\ Len(before') = lb /\ before' \in Seq(1..MaxPosition)
      /\ Len(after') = la /\ after' \in Seq(1..MaxPosition)
  BY <1>2, <1>3, <1>a, BelowIsRun, AboveIsRun
<1>5. UNCHANGED <<newest, want, newestAsked>> /\ contextPc = "asked"
      /\ contextPc' = (IF TopUp(before', want.before, start') THEN "back" ELSE AfterBack(after', end'))
  BY DEF ContextReply
<1>6. before' = Below(want.pivot, Len(before')) /\ after' = Above(want.pivot, Len(after'))
  BY <1>3, <1>4
<1>7. start' \in Tokens /\ end' \in Tokens /\ curtailed' \in BOOLEAN
  BY <1>1, <1>t, SMT DEF Tokens
<1>8. ContextTypeOK'
  BY <1>t, <1>4, <1>5, <1>7, SMT DEF ContextTypeOK, Tokens, AfterBack
<1>9. curtailed' \/ Len(after') >= Smaller(want.after, newestAsked - want.pivot) \/ TopUp(after', want.after, end')
  BY <1>t, <1>1, <1>2, <1>4, SMT DEF TopUp, Smaller
<1>10. curtailed' \/ Len(before') = Smaller(want.before, want.pivot - 1) \/ TopUp(before', want.before, start')
  BY <1>t, <1>1, <1>2, <1>4, SMT DEF TopUp, Smaller
<1>11. TopUp(before', want.before, start') => start' = want.pivot - Len(before')
  BY <1>t, <1>1, <1>2, <1>4, SMT DEF TopUp
<1>12. TopUp(after', want.after, end') => end' = want.pivot + Len(after')
  BY <1>t, <1>1, <1>2, <1>4, SMT DEF TopUp
<1>13. /\ contextPc' = "back" => TopUp(before', want.before, start')
       /\ contextPc' = "front" => TopUp(after', want.after, end') /\ ~TopUp(before', want.before, start')
       /\ contextPc' = "answered" => ~TopUp(after', want.after, end') /\ ~TopUp(before', want.before, start')
       /\ contextPc' \in {"back", "front", "answered"}
  BY <1>5, SMT DEF AfterBack
<1>14. TopUp(after, want.after, end)' = TopUp(after', want.after, end')
  BY <1>5 DEF TopUp
<1> QED
  BY <1>t, <1>2, <1>4, <1>5, <1>6, <1>8, <1>9, <1>10, <1>11, <1>12, <1>13, <1>14, SMT DEF ContextInv

\* The page before continues the run below the pivot, within what is missing.
LEMMA BackStep == ContextInv /\ PaginateBack => ContextInv'
<1> SUFFICES ASSUME ContextInv, PaginateBack PROVE ContextInv'
  OBVIOUS
<1> DEFINE there == Smaller(want.before - Len(before), start - 1)
<1>1. PICK n \in 0..there : before' = before \o Below(start, n) /\ curtailed' = (curtailed \/ n < there)
  BY Zenon DEF PaginateBack
<1>t. /\ want \in [pivot : 1..MaxPosition, before : 0..MaxSide, after : 0..MaxSide]
      /\ newest \in 1..MaxPosition /\ MaxPosition \in Nat /\ MaxSide \in Nat
      /\ want.pivot <= newestAsked /\ newestAsked \in 1..newest
  BY ContextAssumption DEF ContextInv, ContextTypeOK
<1>2. /\ contextPc = "back" /\ contextPc' = AfterBack(after, end)
      /\ UNCHANGED <<newest, want, after, start, end, newestAsked>>
  BY DEF PaginateBack
<1>3. /\ before = Below(want.pivot, Len(before)) /\ Len(before) \in Nat
      /\ Len(before) <= want.before /\ Len(before) <= want.pivot - 1
      /\ start = want.pivot - Len(before) /\ curtailed \in BOOLEAN
  BY <1>2 DEF ContextInv, ContextTypeOK
<1>b. /\ want.pivot \in Nat /\ want.before \in Nat /\ Len(before) \in Nat
      /\ Len(before) <= want.before /\ Len(before) <= want.pivot - 1
      /\ start = want.pivot - Len(before)
  BY <1>3, <1>t
<1>c. /\ there \in Nat /\ there <= want.before - Len(before) /\ there <= want.pivot - 1 - Len(before)
      /\ there = want.before - Len(before) \/ there = want.pivot - 1 - Len(before)
  BY <1>b, SMT DEF Smaller
<1> HIDE DEF there
<1>d. n \in Nat /\ n <= there
  BY <1>c
<1>4. before' = Below(want.pivot, Len(before) + n)
  <2>1. before' = Below(want.pivot, Len(before)) \o Below(want.pivot - Len(before), n)
    BY <1>1, <1>3
  <2> QED
    <3>1. want.pivot \in Int
      BY <1>b
    <3> QED
      BY <2>1, <3>1, <1>b, <1>d, RunGoesOn, Zenon
<1>5. /\ n \in Nat /\ Len(before) + n \in Nat /\ Len(before) + n <= want.before
      /\ Len(before) + n <= want.pivot - 1
      /\ (n < there) \/ Len(before) + n = Smaller(want.before, want.pivot - 1)
  BY <1>b, <1>c, <1>d, SMT DEF Smaller
<1>6. Len(before') = Len(before) + n /\ before' \in Seq(1..MaxPosition)
  BY <1>4, <1>5, <1>t, BelowIsRun
<1>7. before' = Below(want.pivot, Len(before'))
  BY <1>4, <1>6
<1>e. n < there \/ Len(before') = Smaller(want.before, want.pivot - 1)
  BY <1>5, <1>6
<1>8. curtailed' \in BOOLEAN /\ (curtailed => curtailed')
      /\ (curtailed' \/ Len(before') = Smaller(want.before, want.pivot - 1))
  BY <1>1, <1>3, <1>e, Zenon
<1>9. ContextTypeOK'
  BY <1>2, <1>6, <1>8, SMT DEF ContextInv, ContextTypeOK, Tokens, AfterBack
<1>10. TopUp(after, want.after, end)' = TopUp(after, want.after, end)
  BY <1>2 DEF TopUp
<1>11. contextPc' = IF TopUp(after, want.after, end) THEN "front" ELSE "answered"
  BY <1>2 DEF AfterBack
<1> QED
  BY <1>2, <1>5, <1>6, <1>7, <1>8, <1>9, <1>10, <1>11, <1>t, SMT DEF ContextInv

\* The page after does the same above it.
LEMMA FrontStep == ContextInv /\ PaginateFront => ContextInv'
<1> SUFFICES ASSUME ContextInv, PaginateFront PROVE ContextInv'
  OBVIOUS
<1> DEFINE there == Smaller(want.after - Len(after), newest - end)
<1>1. PICK n \in 0..there : after' = after \o Above(end, n) /\ curtailed' = (curtailed \/ n < there)
  BY Zenon DEF PaginateFront
<1>t. /\ want \in [pivot : 1..MaxPosition, before : 0..MaxSide, after : 0..MaxSide]
      /\ newest \in 1..MaxPosition /\ MaxPosition \in Nat /\ MaxSide \in Nat
      /\ want.pivot <= newestAsked /\ newestAsked \in 1..newest
  BY ContextAssumption DEF ContextInv, ContextTypeOK
<1>2. /\ contextPc = "front" /\ contextPc' = "answered"
      /\ UNCHANGED <<newest, want, before, start, end, newestAsked>>
  BY DEF PaginateFront
<1>3. /\ after = Above(want.pivot, Len(after)) /\ Len(after) \in Nat
      /\ Len(after) <= want.after /\ Len(after) <= newest - want.pivot
      /\ end = want.pivot + Len(after) /\ curtailed \in BOOLEAN
  BY <1>2 DEF ContextInv, ContextTypeOK
<1>b. /\ want.pivot \in Nat /\ want.after \in Nat /\ Len(after) \in Nat
      /\ Len(after) <= want.after /\ Len(after) <= newest - want.pivot
      /\ end = want.pivot + Len(after) /\ newest \in Nat /\ newestAsked \in Nat /\ newestAsked <= newest
  BY <1>3, <1>t
<1>c. /\ there \in Nat /\ there <= want.after - Len(after) /\ there <= newest - want.pivot - Len(after)
      /\ there = want.after - Len(after) \/ there = newest - want.pivot - Len(after)
  BY <1>b, SMT DEF Smaller
<1> HIDE DEF there
<1>d. n \in Nat /\ n <= there
  BY <1>c
<1>4. after' = Above(want.pivot, Len(after) + n)
  <2>1. after' = Above(want.pivot, Len(after)) \o Above(want.pivot + Len(after), n)
    BY <1>1, <1>3
  <2> QED
    <3>1. want.pivot \in Int
      BY <1>b
    <3> QED
      BY <2>1, <3>1, <1>b, <1>d, RunGoesOn, Zenon
<1>5. /\ n \in Nat /\ Len(after) + n \in Nat /\ Len(after) + n <= want.after
      /\ Len(after) + n <= newest - want.pivot
      /\ (n < there) \/ Len(after) + n >= Smaller(want.after, newestAsked - want.pivot)
  <2>1. /\ Smaller(want.after, newestAsked - want.pivot) <= want.after
        /\ Smaller(want.after, newestAsked - want.pivot) <= newest - want.pivot
        /\ Smaller(want.after, newestAsked - want.pivot) \in Int
    BY <1>b DEF Smaller
  <2>2. CASE there = want.after - Len(after)
    BY <2>1, <2>2, <1>b, <1>c, <1>d
  <2>3. CASE there = newest - want.pivot - Len(after)
    BY <2>1, <2>3, <1>b, <1>c, <1>d
  <2> QED
    BY <2>2, <2>3, <1>c
<1>a. want.pivot \in Nat /\ Len(after) + n <= MaxPosition - want.pivot
  BY <1>5, <1>t
<1>6. Len(after') = Len(after) + n /\ after' \in Seq(1..MaxPosition)
  BY <1>4, <1>5, <1>a, AboveIsRun
<1>7. after' = Above(want.pivot, Len(after'))
  BY <1>4, <1>6
<1>e. n < there \/ Len(after') >= Smaller(want.after, newestAsked - want.pivot)
  BY <1>5, <1>6
<1>8. curtailed' \in BOOLEAN /\ (curtailed => curtailed')
      /\ (curtailed' \/ Len(after') >= Smaller(want.after, newestAsked - want.pivot))
  BY <1>1, <1>3, <1>e, Zenon
<1>9. ContextTypeOK'
  BY <1>2, <1>6, <1>8, SMT DEF ContextInv, ContextTypeOK, Tokens
<1> QED
  BY <1>2, <1>5, <1>6, <1>7, <1>8, <1>9, <1>t, SMT DEF ContextInv

\* The other steps change neither side.
LEMMA OtherContextSteps ==
  ContextInv /\ (ContextCall \/ Grow \/ ContextFails \/ PageError \/ UNCHANGED contextVars) => ContextInv'
<1> SUFFICES ASSUME ContextInv,
                    ContextCall \/ Grow \/ ContextFails \/ PageError \/ UNCHANGED contextVars
             PROVE  ContextInv'
  OBVIOUS
<1>t. /\ want \in [pivot : 1..MaxPosition, before : 0..MaxSide, after : 0..MaxSide]
      /\ newest \in 1..MaxPosition /\ newestAsked \in 1..newest /\ MaxPosition \in Nat /\ MaxSide \in Nat
  BY ContextAssumption DEF ContextInv, ContextTypeOK
<1>1. CASE ContextCall
  <2>1. /\ newestAsked' = newest' /\ newest' \in 1..MaxPosition /\ contextPc' = "asked"
        /\ want' \in [pivot : 1..newest', before : 0..MaxSide, after : 0..MaxSide]
        /\ contextPc = "idle" /\ UNCHANGED <<before, after, start, end, curtailed>>
    BY <1>1 DEF ContextCall
  <2>2. want' \in [pivot : 1..MaxPosition, before : 0..MaxSide, after : 0..MaxSide]
        /\ want'.pivot <= newestAsked' /\ newestAsked' \in 1..newest'
    BY <2>1, <1>t, SMT
  <2>3. ContextTypeOK'
    BY <2>1, <2>2, SMT DEF ContextInv, ContextTypeOK, Tokens
  <2> QED
    BY <2>1, <2>2, <2>3, SMT DEF ContextInv
<1>2. CASE Grow
  <2>1. ContextTypeOK'
    BY <1>2, <1>t, SMT DEF Grow, ContextInv, ContextTypeOK, Tokens
  <2>2. TopUp(after, want.after, end)' = TopUp(after, want.after, end)
    BY <1>2 DEF Grow, TopUp
  <2> QED
    BY <1>2, <1>t, <2>1, <2>2, SMT DEF Grow, ContextInv
<1>3. CASE ContextFails
  <2>1. ContextTypeOK'
    BY <1>3, SMT DEF ContextFails, ContextInv, ContextTypeOK, Tokens
  <2> QED
    BY <1>3, <2>1, SMT DEF ContextFails, ContextInv
<1>4. CASE PageError
  <2>1. ContextTypeOK'
    BY <1>4, SMT DEF PageError, AfterBack, ContextInv, ContextTypeOK, Tokens
  <2>2. TopUp(after, want.after, end)' = TopUp(after, want.after, end)
    BY <1>4 DEF PageError, TopUp
  <2> QED
    BY <1>4, <2>1, <2>2, SMT DEF PageError, AfterBack, ContextInv
<1>5. CASE UNCHANGED contextVars
  <2>1. ContextTypeOK'
    BY <1>5 DEF contextVars, ContextInv, ContextTypeOK, Tokens
  <2>2. TopUp(after, want.after, end)' = TopUp(after, want.after, end)
    BY <1>5 DEF contextVars, TopUp
  <2> QED
    BY <1>5, <2>1, <2>2 DEF contextVars, ContextInv
<1> QED
  BY <1>1, <1>2, <1>3, <1>4, <1>5

\* What the tools do keeps the invariant of a context call.
LEMMA ContextStaysInv == ContextInv /\ [Next]_vars => ContextInv'
<1> SUFFICES ASSUME ContextInv, [Next]_vars PROVE ContextInv'
  OBVIOUS
<1>1. ContextCall \/ ContextStep \/ Grow \/ UNCHANGED contextVars
  BY DEF Next, Search, Context, Step, Environment, vars
<1> QED
  BY <1>1, ReplyStep, BackStep, FrontStep, OtherContextSteps DEF ContextStep

-----------------------------------------------------------------------------
(* Lists without repetitions *)

\* The elements of a list are finitely many, at most one for each place, and exactly
\* one for each place of a list without repetitions.
LEMMA ElementsOfList ==
  ASSUME NEW S, NEW s \in Seq(S)
  PROVE  /\ ToSet(s) \subseteq S
         /\ IsFiniteSet(ToSet(s)) /\ Cardinality(ToSet(s)) <= Len(s)
         /\ IsInjective(s) => Cardinality(ToSet(s)) = Len(s)
<1>1. s \in Surjection(1..Len(s), ToSet(s))
  BY DEF ToSet, Surjection
<1>2. IsFiniteSet(1..Len(s)) /\ Cardinality(1..Len(s)) = Len(s)
  <2>1. Len(s) \in Nat /\ Len(s) \in Int /\ 1 \in Int
    OBVIOUS
  <2> QED
    BY <2>1, FS_Interval
<1>3. IsFiniteSet(ToSet(s)) /\ Cardinality(ToSet(s)) <= Len(s)
      /\ (Cardinality(ToSet(s)) = Len(s) <=> s \in Injection(1..Len(s), ToSet(s)))
  BY <1>1, <1>2, FS_Surjection
<1>4. IsInjective(s) => s \in Injection(1..Len(s), ToSet(s))
  BY <1>1 DEF Injection, Surjection
<1>5. ToSet(s) \subseteq S
  BY DEF ToSet
<1> QED
  BY <1>3, <1>4, <1>5

\* A list as long as the number of its elements repeats none.
LEMMA TightListsDoNotRepeat ==
  ASSUME NEW S, IsFiniteSet(S), NEW n \in Nat, n = Cardinality(S), NEW s \in [1..n -> S], ToSet(s) = S
  PROVE  s \in Seq(S) /\ Len(s) = n /\ IsInjective(s)
<1>1. s \in Surjection(1..n, S) /\ s \in Seq(S) /\ Len(s) = n
  BY DEF ToSet, Surjection
<1>2. IsFiniteSet(1..n) /\ Cardinality(1..n) = n
  BY FS_Interval
<1>3. s \in Injection(1..n, S)
  BY <1>1, <1>2, FS_SurjSameCardinalityImpliesInj
<1> QED
  BY <1>1, <1>3 DEF Injection

\* Appending a list of other elements.
LEMMA AppendedList ==
  ASSUME NEW S, NEW s \in Seq(S), NEW t \in Seq(S)
  PROVE  /\ s \o t \in Seq(S) /\ Len(s \o t) = Len(s) + Len(t)
         /\ ToSet(s \o t) = ToSet(s) \cup ToSet(t)
         /\ \A i \in DOMAIN (s \o t) :
              (i <= Len(s) => (s \o t)[i] = s[i])
              /\ (i > Len(s) => i - Len(s) \in DOMAIN t /\ (s \o t)[i] = t[i - Len(s)])
         /\ IsInjective(s) /\ IsInjective(t) /\ ToSet(s) \cap ToSet(t) = {} => IsInjective(s \o t)
<1>1. s \o t \in Seq(S) /\ Len(s \o t) = Len(s) + Len(t)
  OBVIOUS
<1>2. \A i \in DOMAIN (s \o t) :
        (i <= Len(s) => (s \o t)[i] = s[i] /\ i \in DOMAIN s)
        /\ (i > Len(s) => i - Len(s) \in DOMAIN t /\ (s \o t)[i] = t[i - Len(s)])
  OBVIOUS
<1>3. ToSet(s \o t) \subseteq ToSet(s) \cup ToSet(t)
  BY <1>1, <1>2 DEF ToSet
<1>4. ToSet(s) \subseteq ToSet(s \o t)
  <2>1. \A i \in DOMAIN s : i \in DOMAIN (s \o t) /\ (s \o t)[i] = s[i]
    OBVIOUS
  <2> QED
    BY <2>1 DEF ToSet
<1>5. ToSet(t) \subseteq ToSet(s \o t)
  <2>1. \A i \in DOMAIN t : i + Len(s) \in DOMAIN (s \o t) /\ (s \o t)[i + Len(s)] = t[i]
    OBVIOUS
  <2> QED
    BY <2>1 DEF ToSet
<1>6. ASSUME IsInjective(s), IsInjective(t), ToSet(s) \cap ToSet(t) = {} PROVE IsInjective(s \o t)
  <2> SUFFICES ASSUME NEW i \in DOMAIN (s \o t), NEW j \in DOMAIN (s \o t), (s \o t)[i] = (s \o t)[j]
               PROVE  i = j
    BY DEF IsInjective
  <2>1. i \in Nat /\ j \in Nat /\ Len(s) \in Nat
    OBVIOUS
  <2>2. CASE i <= Len(s) /\ j <= Len(s)
    BY <1>2, <1>6, <2>2 DEF IsInjective
  <2>3. CASE i > Len(s) /\ j > Len(s)
    <3>1. i - Len(s) = j - Len(s)
      BY <1>2, <1>6, <2>3 DEF IsInjective
    <3> QED
      BY <3>1, <2>1
  <2>4. ASSUME NEW a \in DOMAIN (s \o t), NEW b \in DOMAIN (s \o t), a <= Len(s), b > Len(s)
        PROVE  (s \o t)[a] # (s \o t)[b]
    <3>1. (s \o t)[a] \in ToSet(s)
      BY <1>2, <2>4 DEF ToSet
    <3>2. (s \o t)[b] \in ToSet(t)
      BY <1>2, <2>4 DEF ToSet
    <3> QED
      BY <3>1, <3>2, <1>6
  <2> QED
    BY <2>1, <2>2, <2>3, <2>4
<1> QED
  BY <1>1, <1>2, <1>3, <1>4, <1>5, <1>6

-----------------------------------------------------------------------------
(* What the filters of a query mean *)

\* The smaller and the larger of two numbers.
LEMMA SmallerLarger ==
  ASSUME NEW a \in Nat, NEW b \in Nat
  PROVE  Least(a, b) = (IF a <= b THEN a ELSE b) /\ Max({a, b}) = (IF a <= b THEN b ELSE a)
<1>1. Min({a, b}) = IF a <= b THEN a ELSE b
  BY DEF Min
<1>2. Max({a, b}) = IF a <= b THEN b ELSE a
  BY DEF Max
<1> QED
  BY <1>1, <1>2 DEF Least

\* The first count of a query asks for all its terms, the last for any one.
LEMMA CountsOfTerms ==
  ASSUME NEW terms, IsFiniteSet(terms)
  PROVE  /\ Counts(terms) \in Seq(Nat) /\ Len(Counts(terms)) \in {1, 2}
         /\ Counts(terms)[1] = Cardinality(terms)
         /\ Counts(terms)[Len(Counts(terms))] = (IF Cardinality(terms) > 1 THEN 1 ELSE Cardinality(terms))
<1>1. Cardinality(terms) \in Nat
  BY FS_CardinalityType
<1>2. CASE Cardinality(terms) > 1
  <2>1. Counts(terms) = <<Cardinality(terms), 1>>
    BY <1>2 DEF Counts
  <2> QED
    BY <1>1, <1>2, <2>1
<1>3. CASE ~(Cardinality(terms) > 1)
  <2>1. Counts(terms) = <<Cardinality(terms)>>
    BY <1>3 DEF Counts
  <2> QED
    BY <1>1, <1>3, <2>1
<1> QED
  BY <1>2, <1>3

\* Whatever the count, a text that passes has a term, unless the query has none; the
\* first count lets pass the texts with all terms, the last those with any.
LEMMA TermsOfText ==
  ASSUME NEW terms, IsFiniteSet(terms), NEW text
  PROVE  /\ \A count \in Nat : HasTerms(text, terms, count) => terms = {} \/ terms \cap text # {}
         /\ HasTerms(text, terms, Counts(terms)[1]) <=> terms \subseteq text
         /\ HasTerms(text, terms, Counts(terms)[Len(Counts(terms))]) <=> terms = {} \/ terms \cap text # {}
<1> DEFINE n == Cardinality(terms)
           both == Cardinality(terms \cap text)
<1>1. n \in Nat /\ both \in Nat /\ both <= n
  BY FS_CardinalityType, FS_Intersection
<1>2. n = 0 <=> terms = {}
  BY FS_EmptySet
<1>3. both = 0 <=> terms \cap text = {}
  BY FS_Intersection, FS_EmptySet
<1>4. both = n <=> terms \subseteq text
  <2>1. ASSUME both = n PROVE terms \cap text = terms
    <3>1. (terms \cap text) \in SUBSET terms
      OBVIOUS
    <3> QED
      BY <2>1, <3>1, FS_Subset
  <2>2. ASSUME terms \subseteq text PROVE terms \cap text = terms
    BY <2>2
  <2> QED
    BY <2>1, <2>2
<1>5. ASSUME NEW count \in Nat
      PROVE  HasTerms(text, terms, count) <=>
               terms = {} \/ both >= (IF Least(count, n) = 0 THEN 1 ELSE Least(count, n))
  <2>1. Least(count, n) \in Nat
    BY <1>1, SmallerLarger
  <2>2. Max({1, Least(count, n)}) = IF Least(count, n) = 0 THEN 1 ELSE Least(count, n)
    BY <2>1, SmallerLarger
  <2> QED
    BY <2>2 DEF HasTerms
<1>6. /\ Counts(terms)[1] = n
      /\ Counts(terms)[Len(Counts(terms))] = (IF n > 1 THEN 1 ELSE n)
  BY CountsOfTerms
<1> HIDE DEF n, both
<1>7. ASSUME NEW count \in Nat, HasTerms(text, terms, count) PROVE terms = {} \/ terms \cap text # {}
  <2>1. Least(count, n) \in Nat
    BY <1>1, SmallerLarger
  <2> QED
    BY <1>1, <1>3, <1>5, <1>7, <2>1
<1>8. HasTerms(text, terms, n) <=> terms \subseteq text
  <2>1. Least(n, n) = n
    BY <1>1, SmallerLarger
  <2>2. HasTerms(text, terms, n) <=> terms = {} \/ both >= (IF n = 0 THEN 1 ELSE n)
    BY <1>1, <1>5, <2>1
  <2> QED
    BY <1>1, <1>2, <1>4, <2>2
<1>9. ASSUME NEW count \in Nat, count = (IF n > 1 THEN 1 ELSE n)
      PROVE  HasTerms(text, terms, count) <=> terms = {} \/ terms \cap text # {}
  <2>0. count <= n
    BY <1>1, <1>9
  <2>1. Least(count, n) = count
    <3>1. Least(count, n) = IF count <= n THEN count ELSE n
      BY <1>1, SmallerLarger
    <3> QED
      BY <2>0, <3>1
  <2>2. HasTerms(text, terms, count) <=> terms = {} \/ both >= (IF count = 0 THEN 1 ELSE count)
    BY <1>5, <2>1
  <2>3. terms # {} => count = 1
    BY <1>1, <1>2, <1>9
  <2> QED
    BY <1>1, <1>3, <2>2, <2>3
<1>10. (IF n > 1 THEN 1 ELSE n) \in Nat
  BY <1>1
<1> QED
  BY <1>6, <1>7, <1>8, <1>9, <1>10

Filters == [sender : Nat, room : Nat]

\* The last candidate filter.
Loosest(sender, room) == Candidates(sender, room)[Len(Candidates(sender, room))]

\* An argument is left out, an MXID, or a finite set of terms; a room query has a term.
LEMMA ArgumentsOfCall ==
  ASSUME NEW a \in Arguments
  PROVE  /\ IsTerms(a.sender) => IsFiniteSet(a.sender)
         /\ a.sender \in Users \/ a.sender = NoArg \/ IsTerms(a.sender)
         /\ IsTerms(a.sender) => a.sender # NoArg /\ a.sender \notin Users
         /\ IsTerms(a.room) <=> a.room # NoArg
         /\ IsTerms(a.room) => IsFiniteSet(a.room) /\ a.room # {}
         /\ a.limit \in Nat \ {0} /\ a.query \in BOOLEAN /\ NoArg \notin Users
<1>1. /\ a.sender \in SenderArgs /\ a.room \in RoomArgs /\ a.limit \in Limits /\ a.query \in BOOLEAN
  BY DEF Arguments
<1> QED
  BY <1>1, SearchAssumption DEF IsTerms

\* The counts of an argument: one or two.
LEMMA CountsOfArgument ==
  ASSUME NEW arg, IsTerms(arg) => IsFiniteSet(arg)
  PROVE  /\ CountsOf(arg) \in Seq(Nat) /\ Len(CountsOf(arg)) \in {1, 2}
         /\ IsTerms(arg) => CountsOf(arg) = Counts(arg)
<1>1. CASE IsTerms(arg)
  BY <1>1, CountsOfTerms DEF CountsOf
<1>2. CASE ~IsTerms(arg)
  <2>1. CountsOf(arg) = <<0>>
    BY <1>2 DEF CountsOf
  <2> QED
    BY <1>2, <2>1
<1> QED
  BY <1>1, <1>2

\* The first candidate combines the first counts, the last one the last counts.
LEMMA CandidateFilters ==
  ASSUME NEW sender, IsTerms(sender) => IsFiniteSet(sender),
         NEW room, IsTerms(room) => IsFiniteSet(room)
  PROVE  /\ Candidates(sender, room) \in Seq(Filters) /\ Len(Candidates(sender, room)) \in Nat \ {0}
         /\ Candidates(sender, room)[1] = [sender |-> CountsOf(sender)[1], room |-> CountsOf(room)[1]]
         /\ Loosest(sender, room) = [sender |-> CountsOf(sender)[Len(CountsOf(sender))],
                                     room |-> CountsOf(room)[Len(CountsOf(room))]]
<1> DEFINE s == CountsOf(sender)
           r == CountsOf(room)
           C == [i \in 1..(Len(s) * Len(r)) |->
                   [sender |-> s[((i - 1) \div Len(r)) + 1], room |-> r[((i - 1) % Len(r)) + 1]]]
<1>1. s \in Seq(Nat) /\ r \in Seq(Nat) /\ Len(s) \in {1, 2} /\ Len(r) \in {1, 2}
  BY CountsOfArgument
<1>2. Candidates(sender, room) = C
  BY DEF Candidates
<1> HIDE DEF s, r
<1>3. \A i \in 1..(Len(s) * Len(r)) :
        ((i - 1) \div Len(r)) + 1 \in 1..Len(s) /\ ((i - 1) % Len(r)) + 1 \in 1..Len(r)
  <2>1. CASE Len(s) = 1 /\ Len(r) = 1
    BY <2>1
  <2>2. CASE Len(s) = 2 /\ Len(r) = 1
    BY <2>2
  <2>3. CASE Len(s) = 1 /\ Len(r) = 2
    BY <2>3
  <2>4. CASE Len(s) = 2 /\ Len(r) = 2
    BY <2>4
  <2> QED
    BY <1>1, <2>1, <2>2, <2>3, <2>4
<1>4. Len(s) * Len(r) \in Nat \ {0}
  <2>1. CASE Len(s) = 1
    BY <1>1, <2>1
  <2>2. CASE Len(s) = 2
    BY <1>1, <2>2
  <2> QED
    BY <1>1, <2>1, <2>2
<1>5. C \in Seq(Filters) /\ Len(C) = Len(s) * Len(r)
  <2>1. \A i \in 1..(Len(s) * Len(r)) : C[i] \in Filters
    <3> SUFFICES ASSUME NEW i \in 1..(Len(s) * Len(r)) PROVE C[i] \in Filters
      OBVIOUS
    <3>1. s[((i - 1) \div Len(r)) + 1] \in Nat /\ r[((i - 1) % Len(r)) + 1] \in Nat
      <4>1. (\A k \in 1..Len(s) : s[k] \in Nat) /\ (\A k \in 1..Len(r) : r[k] \in Nat)
        BY <1>1
      <4> QED
        BY <1>3, <4>1, Zenon
    <3> QED
      BY <3>1 DEF Filters
  <2>2. ASSUME NEW n \in Nat, NEW F, NEW c, c = [i \in 1..n |-> F[i]], \A i \in 1..n : c[i] \in Filters
        PROVE  c \in Seq(Filters) /\ Len(c) = n
    BY <2>2
  <2>3. C = [i \in 1..(Len(s) * Len(r)) |-> C[i]]
    OBVIOUS
  <2> HIDE DEF C
  <2> QED
    BY <1>4, <2>1, <2>2, <2>3
<1>6. C[1] = [sender |-> s[1], room |-> r[1]]
  <2>1. ((1 - 1) \div Len(r)) + 1 = 1 /\ ((1 - 1) % Len(r)) + 1 = 1
    <3>1. CASE Len(r) = 1
      BY <3>1
    <3>2. CASE Len(r) = 2
      BY <3>2
    <3> QED
      BY <1>1, <3>1, <3>2
  <2>2. 1 \in 1..(Len(s) * Len(r))
    BY <1>4
  <2>3. C[1] = [sender |-> s[((1 - 1) \div Len(r)) + 1], room |-> r[((1 - 1) % Len(r)) + 1]]
    BY <2>2
  <2> QED
    BY <2>1, <2>3
<1>7. C[Len(C)] = [sender |-> s[Len(s)], room |-> r[Len(r)]]
  <2>1. ((Len(s) * Len(r) - 1) \div Len(r)) + 1 = Len(s) /\ ((Len(s) * Len(r) - 1) % Len(r)) + 1 = Len(r)
    <3>1. CASE Len(s) = 1 /\ Len(r) = 1
      BY <3>1
    <3>2. CASE Len(s) = 2 /\ Len(r) = 1
      BY <3>2
    <3>3. CASE Len(s) = 1 /\ Len(r) = 2
      BY <3>3
    <3>4. CASE Len(s) = 2 /\ Len(r) = 2
      BY <3>4
    <3> QED
      BY <1>1, <3>1, <3>2, <3>3, <3>4
  <2>2. Len(s) * Len(r) \in 1..(Len(s) * Len(r))
    BY <1>4
  <2>3. C[Len(s) * Len(r)] = [sender |-> s[((Len(s) * Len(r) - 1) \div Len(r)) + 1],
                              room |-> r[((Len(s) * Len(r) - 1) % Len(r)) + 1]]
    BY <2>2
  <2> QED
    BY <1>5, <2>1, <2>3
<1> QED
  BY <1>2, <1>4, <1>5, <1>6, <1>7 DEF s, r, Loosest

\* A point that any filter lets pass is relevant.  The first filter lets pass the full
\* matches, the last one every relevant point.
LEMMA MeaningOfFilters ==
  ASSUME args \in Arguments, NEW p \in Points
  PROVE  /\ \A f \in Filters : Matches(p, f) => Relevant(p)
         /\ Matches(p, Candidates(args.sender, args.room)[1]) <=> FullMatch(p)
         /\ Matches(p, Loosest(args.sender, args.room)) <=> Relevant(p)
<1>1. /\ IsTerms(args.sender) => IsFiniteSet(args.sender)
      /\ args.sender \in Users \/ args.sender = NoArg \/ IsTerms(args.sender)
      /\ IsTerms(args.sender) => args.sender # NoArg /\ args.sender \notin Users
      /\ IsTerms(args.room) <=> args.room # NoArg
      /\ IsTerms(args.room) => IsFiniteSet(args.room) /\ args.room # {}
      /\ NoArg \notin Users /\ SentBy[p] \in Users
  BY ArgumentsOfCall, SearchAssumption
<1> DEFINE s == CountsOf(args.sender)
           r == CountsOf(args.room)
<1>2. /\ Candidates(args.sender, args.room)[1] = [sender |-> s[1], room |-> r[1]]
      /\ Loosest(args.sender, args.room) = [sender |-> s[Len(s)], room |-> r[Len(r)]]
  BY <1>1, CandidateFilters
<1>3. ASSUME IsTerms(args.sender)
      PROVE  /\ \A count \in Nat : HasTerms(points[p].named, args.sender, count) =>
                  args.sender = {} \/ args.sender \cap points[p].named # {}
             /\ HasTerms(points[p].named, args.sender, s[1]) <=> args.sender \subseteq points[p].named
             /\ HasTerms(points[p].named, args.sender, s[Len(s)]) <=>
                  args.sender = {} \/ args.sender \cap points[p].named # {}
  <2>1. s = Counts(args.sender) /\ IsFiniteSet(args.sender)
    BY <1>1, <1>3, CountsOfArgument
  <2> HIDE DEF s
  <2> QED
    BY <2>1, TermsOfText, Zenon
<1>4. ASSUME IsTerms(args.room)
      PROVE  /\ \A count \in Nat : HasTerms(points[p].inRoom, args.room, count) =>
                  args.room \cap points[p].inRoom # {}
             /\ HasTerms(points[p].inRoom, args.room, r[1]) <=> args.room \subseteq points[p].inRoom
             /\ HasTerms(points[p].inRoom, args.room, r[Len(r)]) <=> args.room \cap points[p].inRoom # {}
  BY <1>1, <1>4, CountsOfArgument, TermsOfText
<1> HIDE DEF s, r
<1>5. ASSUME NEW f \in Filters, Matches(p, f) PROVE Relevant(p)
  <2>1. f.sender \in Nat /\ f.room \in Nat
    BY DEF Filters
  <2> QED
    BY <1>1, <1>3, <1>4, <1>5, <2>1 DEF Matches, SenderMatches, RoomMatches, Relevant
<1>6. Matches(p, [sender |-> s[1], room |-> r[1]]) <=> FullMatch(p)
  BY <1>1, <1>3, <1>4 DEF Matches, SenderMatches, RoomMatches, FullMatch, Relevant
<1>7. Matches(p, [sender |-> s[Len(s)], room |-> r[Len(r)]]) <=> Relevant(p)
  BY <1>1, <1>3, <1>4 DEF Matches, SenderMatches, RoomMatches, Relevant
<1> QED
  BY <1>2, <1>5, <1>6, <1>7

-----------------------------------------------------------------------------
(* Answers and their merge *)

\* An answer repeats nothing, stays within the limit and holds points that match.  A
\* matching point it leaves out has given way to `limit` others worth at least as much.
LEMMA AnswerOfFilter ==
  ASSUME args \in Arguments, points \in Collections, NEW f, NEW hits \in Answers(f)
  PROVE  /\ hits \in Seq(Points) /\ IsInjective(hits) /\ Len(hits) <= args.limit
         /\ \A p \in ToSet(hits) : p \in DOMAIN points /\ Matches(p, f)
         /\ \A p \in DOMAIN points \ ToSet(hits) : Matches(p, f) =>
              Len(hits) = args.limit /\ \A q \in ToSet(hits) : Value(p) <= Value(q)
<1> DEFINE matching == {p \in DOMAIN points : Matches(p, f)}
           n == Least(args.limit, Cardinality(matching))
<1>1. /\ hits \in [1..n -> matching]
      /\ \A i, j \in 1..n : i < j => hits[i] # hits[j] /\ Value(hits[i]) >= Value(hits[j])
      /\ \A p \in matching \ ToSet(hits) : \A i \in 1..n : Value(p) <= Value(hits[i])
  BY Zenon DEF Answers
<1>2. args.limit \in Nat /\ IsFiniteSet(Points)
  BY ArgumentsOfCall, SearchAssumption
<1>3. DOMAIN points \in SUBSET Points
  BY DEF Collections
<1>4. matching \subseteq DOMAIN points /\ \A p \in matching : Matches(p, f)
  OBVIOUS
<1>5. \A p \in DOMAIN points : Matches(p, f) => p \in matching
  OBVIOUS
<1> HIDE DEF matching
<1>6. IsFiniteSet(matching) /\ Cardinality(matching) \in Nat
  <2>1. matching \in SUBSET Points
    BY <1>3, <1>4
  <2> QED
    BY <1>2, <2>1, FS_Subset, FS_CardinalityType
<1>n. n = IF args.limit <= Cardinality(matching) THEN args.limit ELSE Cardinality(matching)
  BY <1>2, <1>6, SmallerLarger, Zenon
<1> HIDE DEF n
<1>7. n \in Nat /\ n <= args.limit /\ (n # args.limit => n = Cardinality(matching))
  BY <1>2, <1>6, <1>n
<1>8. hits \in Seq(matching) /\ Len(hits) = n /\ DOMAIN hits = 1..n
  BY <1>1, <1>7
<1>9. hits \in Seq(Points)
  BY <1>3, <1>4, <1>8
<1>10. IsInjective(hits)
  <2> SUFFICES ASSUME NEW i \in 1..n, NEW j \in 1..n, hits[i] = hits[j] PROVE i = j
    BY <1>8 DEF IsInjective
  <2> QED
    BY <1>1, <1>7
<1>11. ToSet(hits) \subseteq matching /\ Cardinality(ToSet(hits)) = n
  BY <1>8, <1>10, ElementsOfList
<1>12. ASSUME NEW p \in DOMAIN points \ ToSet(hits), Matches(p, f)
       PROVE  Len(hits) = args.limit /\ \A q \in ToSet(hits) : Value(p) <= Value(q)
  <2>1. p \in matching \ ToSet(hits)
    BY <1>5, <1>12
  <2>2. Len(hits) = args.limit
    <3>1. n # Cardinality(matching)
      <4>1. ToSet(hits) \in SUBSET matching
        BY <1>11
      <4> QED
        BY <2>1, <4>1, <1>6, <1>11, FS_Subset
    <3> QED
      BY <3>1, <1>7, <1>8
  <2>3. \A q \in ToSet(hits) : Value(p) <= Value(q)
    BY <2>1, <1>1, <1>8, Zenon DEF ToSet
  <2> QED
    BY <2>2, <2>3
<1> QED
  BY <1>4, <1>7, <1>8, <1>9, <1>10, <1>11, <1>12

\* Merging adds the hits nobody has found yet, once each, behind the others.
LEMMA MergedList ==
  ASSUME found \in Seq(Points), IsInjective(found),
         NEW hits \in Seq(Points), IsInjective(hits), NEW fresh \in Unseen(hits)
  PROVE  /\ fresh \in Seq(Points) /\ ToSet(fresh) = ToSet(hits) \ Results
         /\ found \o fresh \in Seq(Points) /\ IsInjective(found \o fresh)
         /\ ToSet(found \o fresh) = Results \cup ToSet(hits)
         /\ Len(found \o fresh) >= Len(hits)
<1> DEFINE new == ToSet(hits) \ Results
<1>1. fresh \in [1..Cardinality(new) -> new] /\ ToSet(fresh) = new
  BY Zenon DEF Unseen
<1>2. new \subseteq Points /\ IsFiniteSet(new) /\ Cardinality(new) \in Nat
  <2>1. ToSet(hits) \subseteq Points /\ IsFiniteSet(ToSet(hits))
    BY ElementsOfList
  <2> QED
    BY <2>1, FS_Difference, FS_CardinalityType
<1> HIDE DEF new
<1>3. fresh \in Seq(new) /\ IsInjective(fresh)
  BY <1>1, <1>2, TightListsDoNotRepeat
<1>4. fresh \in Seq(Points)
  BY <1>2, <1>3
<1>5. ToSet(found) \cap ToSet(fresh) = {}
  BY <1>1 DEF new, Results
<1>6. /\ found \o fresh \in Seq(Points) /\ IsInjective(found \o fresh)
      /\ ToSet(found \o fresh) = Results \cup new
  BY <1>1, <1>3, <1>4, <1>5, AppendedList DEF Results
<1>7. ToSet(found \o fresh) = Results \cup ToSet(hits)
  BY <1>6 DEF new
<1>8. Len(found \o fresh) >= Len(hits)
  <2>1. /\ Cardinality(ToSet(hits)) = Len(hits)
        /\ IsFiniteSet(ToSet(found \o fresh))
        /\ Cardinality(ToSet(found \o fresh)) = Len(found \o fresh)
    BY <1>6, ElementsOfList
  <2>2. ToSet(hits) \in SUBSET ToSet(found \o fresh)
    BY <1>7
  <2>3. Cardinality(ToSet(hits)) <= Cardinality(ToSet(found \o fresh))
    BY <2>1, <2>2, FS_Subset
  <2> QED
    BY <2>1, <2>3
<1> QED
  BY <1>1, <1>4, <1>6, <1>7, <1>8 DEF new

\* Cutting keeps the first `limit` elements.
LEMMA CutList ==
  ASSUME args \in Arguments, NEW s \in Seq(Points)
  PROVE  /\ Cut(s) \in Seq(Points) /\ Len(Cut(s)) <= args.limit /\ Len(Cut(s)) <= Len(s)
         /\ Len(s) >= args.limit => Len(Cut(s)) = args.limit
         /\ Len(s) <= args.limit => Cut(s) = s
         /\ \A i \in DOMAIN Cut(s) : i \in DOMAIN s /\ Cut(s)[i] = s[i]
         /\ ToSet(Cut(s)) \subseteq ToSet(s)
         /\ IsInjective(s) => IsInjective(Cut(s))
<1> DEFINE n == Least(args.limit, Len(s))
<1>1. n \in Nat /\ n <= args.limit /\ n <= Len(s)
      /\ (Len(s) >= args.limit => n = args.limit) /\ (Len(s) <= args.limit => n = Len(s))
  <2>1. args.limit \in Nat /\ Len(s) \in Nat
    BY ArgumentsOfCall
  <2>2. n = IF args.limit <= Len(s) THEN args.limit ELSE Len(s)
    BY <2>1, SmallerLarger, Zenon
  <2> HIDE DEF n
  <2> QED
    BY <2>1, <2>2
<1>2. Cut(s) = SubSeq(s, 1, n)
  BY DEF Cut
<1> HIDE DEF n
<1>3. Cut(s) \in Seq(Points) /\ Len(Cut(s)) = n
  BY <1>1, <1>2
<1>4. \A i \in DOMAIN Cut(s) : i \in DOMAIN s /\ Cut(s)[i] = s[i]
  BY <1>1, <1>2
<1>5. Len(s) <= args.limit => Cut(s) = s
  BY <1>1, <1>2
<1>6. ToSet(Cut(s)) \subseteq ToSet(s)
  BY <1>4, Zenon DEF ToSet
<1>7. IsInjective(s) => IsInjective(Cut(s))
  BY <1>4, Zenon DEF IsInjective
<1> QED
  BY <1>1, <1>3, <1>4, <1>5, <1>6, <1>7

\* Sorting keeps the elements and puts the newest first.
LEMMA SortedList ==
  ASSUME NEW s \in Seq(Points), IsInjective(s), NEW t \in NewestFirst(s)
  PROVE  /\ t \in Seq(Points) /\ Len(t) = Len(s) /\ IsInjective(t) /\ ToSet(t) = ToSet(s)
         /\ \A i, j \in DOMAIN t : i < j => SentAt[t[i]] >= SentAt[t[j]]
<1>1. /\ t \in [DOMAIN s -> ToSet(s)] /\ ToSet(t) = ToSet(s)
      /\ \A i, j \in DOMAIN t : i < j => SentAt[t[i]] > SentAt[t[j]] \/ SentAt[t[i]] = SentAt[t[j]]
  BY Zenon DEF NewestFirst
<1>2. IsFiniteSet(ToSet(s)) /\ Cardinality(ToSet(s)) = Len(s) /\ ToSet(s) \subseteq Points
      /\ Len(s) \in Nat /\ DOMAIN s = 1..Len(s)
  BY ElementsOfList
<1>3. t \in Seq(ToSet(s)) /\ Len(t) = Len(s) /\ IsInjective(t)
  BY <1>1, <1>2, TightListsDoNotRepeat
<1>4. t \in Seq(Points)
  BY <1>2, <1>3
<1>5. \A i \in DOMAIN t : SentAt[t[i]] \in Nat
  BY <1>4, SearchAssumption
<1>6. \A i, j \in DOMAIN t : i < j => SentAt[t[i]] >= SentAt[t[j]]
  BY <1>1, <1>5
<1> QED
  BY <1>1, <1>3, <1>4, <1>6

-----------------------------------------------------------------------------
(* The invariant of a search *)

\* Among the messages that did not change, the full matches come first.
FullMatchesFirst(s) ==
  \A i, j \in DOMAIN s :
    i < j /\ {s[i], s[j]} \subseteq stable /\ FullMatch(s[j]) => FullMatch(s[i])

FullMatchesFound == \A p \in stable : FullMatch(p) => p \in Results

NothingFoundYet == found = <<>> /\ queries = Candidates(args.sender, args.room)

\* Between two requests: the last filter is still to be asked.  With a query, the list is
\* short of the limit, and after the first request it has all full matches.
AskingInv ==
  /\ queries # <<>> /\ queries[Len(queries)] = Loosest(args.sender, args.room)
  /\ args.query =>
       /\ Len(found) < args.limit
       /\ FullMatchesFirst(found)
       /\ NothingFoundYet \/ FullMatchesFound

SearchInv ==
  /\ SearchTypeOK
  /\ IsInjective(found)
  /\ searchPc \in {"idle", "embedding"} => found = <<>>
  /\ searchPc \in {"embedding", "asking", "answered"} => args \in Arguments
  /\ searchPc \in {"asking", "answered"} => \A p \in Results \cap stable : Relevant(p)
  /\ searchPc = "asking" => AskingInv
  /\ ResultsInOrder /\ NothingBetterIsLeftOut

\* What a request adds, whichever merge follows: hits of the filter just asked, once each.
LEMMA Merge ==
  ASSUME SearchInv, searchPc = "asking",
         NEW hits \in Answers(Head(queries)), NEW fresh \in Unseen(hits)
  PROVE  /\ found \o fresh \in Seq(Points) /\ IsInjective(found \o fresh)
         /\ ToSet(found \o fresh) = Results \cup ToSet(hits) /\ ToSet(fresh) = ToSet(hits) \ Results
         /\ hits \in Seq(Points) /\ IsInjective(hits) /\ Len(hits) <= args.limit
         /\ fresh \in Seq(Points) /\ Len(found \o fresh) >= Len(hits)
         /\ \A p \in ToSet(hits) : Matches(p, Head(queries))
         /\ \A p \in ToSet(found \o fresh) \cap stable : Relevant(p)
         /\ \A p \in stable \ ToSet(hits) : Matches(p, Head(queries)) =>
              Len(hits) = args.limit /\ \A q \in ToSet(hits) : Value(p) <= Value(q)
         /\ Len(queries) = 1 => \A p \in stable : Matches(p, Head(queries)) <=> Relevant(p)
         /\ args \in Arguments /\ stable \subseteq Points
<1>1. /\ args \in Arguments /\ points \in Collections /\ found \in Seq(Points) /\ IsInjective(found)
      /\ queries \in Seq(Filters) /\ queries # <<>> /\ stable \subseteq DOMAIN points
      /\ queries[Len(queries)] = Loosest(args.sender, args.room)
      /\ \A p \in Results \cap stable : Relevant(p)
  BY DEF SearchInv, SearchTypeOK, AskingInv, Filters
<1>2. DOMAIN points \subseteq Points
  BY <1>1 DEF Collections
<1>3. /\ hits \in Seq(Points) /\ IsInjective(hits) /\ Len(hits) <= args.limit
      /\ \A p \in ToSet(hits) : p \in DOMAIN points /\ Matches(p, Head(queries))
      /\ \A p \in DOMAIN points \ ToSet(hits) : Matches(p, Head(queries)) =>
           Len(hits) = args.limit /\ \A q \in ToSet(hits) : Value(p) <= Value(q)
  BY <1>1, AnswerOfFilter
<1>4. /\ fresh \in Seq(Points) /\ ToSet(fresh) = ToSet(hits) \ Results
      /\ found \o fresh \in Seq(Points) /\ IsInjective(found \o fresh)
      /\ ToSet(found \o fresh) = Results \cup ToSet(hits)
      /\ Len(found \o fresh) >= Len(hits)
  BY <1>1, <1>3, MergedList
<1>5. Head(queries) = queries[1] /\ Head(queries) \in Filters
  BY <1>1
<1>6. \A p \in ToSet(found \o fresh) \cap stable : Relevant(p)
  BY <1>1, <1>2, <1>3, <1>4, <1>5, MeaningOfFilters
<1>7. ASSUME Len(queries) = 1, NEW p \in stable PROVE Matches(p, Head(queries)) <=> Relevant(p)
  <2>1. p \in Points /\ Head(queries) = Loosest(args.sender, args.room)
    BY <1>1, <1>2, <1>5, <1>7
  <2> QED
    BY <1>1, <2>1, MeaningOfFilters
<1> QED
  BY <1>1, <1>2, <1>3, <1>4, <1>6, <1>7

\* A request of a search with a query: the new list is in order, and a message it leaves
\* out is no full match, or has given way to `limit` others; after the last request,
\* every relevant message it leaves out has.
LEMMA SearchMerge ==
  ASSUME SearchInv, searchPc = "asking", args.query,
         NEW hits \in Answers(Head(queries)), NEW fresh \in Unseen(hits),
         NEW new, new = Cut(found \o fresh)
  PROVE  /\ new \in Seq(Points) /\ IsInjective(new) /\ Len(new) <= args.limit
         /\ \A p \in ToSet(new) \cap stable : Relevant(p)
         /\ FullMatchesFirst(new)
         /\ \/ \A p \in stable : FullMatch(p) => p \in ToSet(new)
            \/ /\ Len(new) = args.limit
               /\ \A p \in stable \ ToSet(new) : FullMatch(p) =>
                    \A q \in ToSet(new) \cap stable : FullMatch(q) /\ Likeness[p] <= Likeness[q]
         /\ Len(queries) = 1 => \A p \in stable \ ToSet(new) : Relevant(p) => Len(new) = args.limit
<1> DEFINE all == found \o fresh
<1>1. /\ all \in Seq(Points) /\ IsInjective(all)
      /\ ToSet(all) = Results \cup ToSet(hits) /\ ToSet(fresh) = ToSet(hits) \ Results
      /\ hits \in Seq(Points) /\ IsInjective(hits) /\ Len(hits) <= args.limit
      /\ fresh \in Seq(Points) /\ Len(all) >= Len(hits)
      /\ \A p \in ToSet(hits) : Matches(p, Head(queries))
      /\ \A p \in ToSet(all) \cap stable : Relevant(p)
      /\ \A p \in stable \ ToSet(hits) : Matches(p, Head(queries)) =>
           Len(hits) = args.limit /\ \A q \in ToSet(hits) : Value(p) <= Value(q)
      /\ Len(queries) = 1 => \A p \in stable : Matches(p, Head(queries)) <=> Relevant(p)
      /\ args \in Arguments /\ stable \subseteq Points
  BY Merge, Zenon
<1>2. /\ Len(found) < args.limit /\ FullMatchesFirst(found) /\ found \in Seq(Points)
      /\ NothingFoundYet \/ FullMatchesFound
  BY DEF SearchInv, SearchTypeOK, AskingInv
<1>3. args.limit \in Nat
  BY <1>1, ArgumentsOfCall
<1>c. new = Cut(all)
  OBVIOUS
<1> HIDE DEF all
<1>4. /\ new \in Seq(Points) /\ Len(new) <= args.limit /\ Len(new) <= Len(all) /\ IsInjective(new)
      /\ Len(all) >= args.limit => Len(new) = args.limit
      /\ Len(all) <= args.limit => new = all
      /\ \A i \in DOMAIN new : i \in DOMAIN all /\ new[i] = all[i]
      /\ ToSet(new) \subseteq ToSet(all)
  <2>1. /\ Cut(all) \in Seq(Points) /\ Len(Cut(all)) <= args.limit /\ Len(Cut(all)) <= Len(all)
        /\ Len(all) >= args.limit => Len(Cut(all)) = args.limit
        /\ Len(all) <= args.limit => Cut(all) = all
        /\ \A i \in DOMAIN Cut(all) : i \in DOMAIN all /\ Cut(all)[i] = all[i]
        /\ ToSet(Cut(all)) \subseteq ToSet(all) /\ IsInjective(Cut(all))
    BY <1>1, CutList, Zenon
  <2> QED
    BY <1>c, <2>1
<1>5. \A p \in ToSet(new) \cap stable : Relevant(p)
  BY <1>1, <1>4
<1>6. ASSUME Len(queries) = 1, NEW p \in stable \ ToSet(new), Relevant(p) PROVE Len(new) = args.limit
  <2>1. CASE p \in ToSet(all)
    BY <1>1, <1>3, <1>4, <1>6, <2>1
  <2>2. CASE p \notin ToSet(all)
    <3>1. Len(hits) = args.limit
      BY <1>1, <1>6, <2>2
    <3> QED
      BY <1>1, <1>3, <1>4, <3>1
  <2> QED
    BY <2>1, <2>2
<1>7. CASE NothingFoundYet
  <2>1. all = fresh /\ Results = {} /\ ToSet(all) = ToSet(hits)
    <3>1. found = <<>>
      BY <1>7 DEF NothingFoundYet
    <3>2. all = fresh
      BY <1>1, <3>1 DEF all
    <3>3. Results = {}
      BY <3>1 DEF Results, ToSet
    <3> QED
      BY <1>1, <3>2, <3>3
  <2>2. Len(all) = Len(hits)
    BY <1>1, <2>1, ElementsOfList
  <2>3. new = all
    BY <1>1, <1>3, <1>4, <2>2
  <2>4. \A p \in Points : Matches(p, Head(queries)) <=> FullMatch(p)
    <3>1. Head(queries) = Candidates(args.sender, args.room)[1]
      <4>1. queries = Candidates(args.sender, args.room) /\ queries # <<>> /\ queries \in Seq(Filters)
        BY <1>7 DEF NothingFoundYet, SearchInv, SearchTypeOK, AskingInv, Filters
      <4> QED
        BY <4>1
    <3> QED
      BY <1>1, <3>1, MeaningOfFilters
  <2>5. \A q \in ToSet(new) : FullMatch(q)
    BY <1>1, <1>4, <2>1, <2>3, <2>4, ElementsOfList
  <2>6. FullMatchesFirst(new)
    BY <2>5 DEF FullMatchesFirst, ToSet
  <2>7. ASSUME NEW p \in stable \ ToSet(new), FullMatch(p)
        PROVE  Len(new) = args.limit /\ \A q \in ToSet(new) : FullMatch(q) /\ Likeness[p] <= Likeness[q]
    <3>1. Len(hits) = args.limit /\ \A q \in ToSet(hits) : Value(p) <= Value(q)
      BY <1>1, <2>1, <2>3, <2>4, <2>7
    <3>2. \A q \in Points : Value(q) = Likeness[q]
      BY DEF Value
    <3>3. \A q \in ToSet(hits) : q \in Points
      BY <1>1, ElementsOfList
    <3> QED
      BY <1>1, <2>1, <2>2, <2>3, <2>5, <2>7, <3>1, <3>2, <3>3
  <2> QED
    BY <1>4, <1>5, <1>6, <2>6, <2>7
<1>8. CASE FullMatchesFound
  <2>1. /\ Len(all) = Len(found) + Len(fresh)
        /\ \A i \in DOMAIN all :
             (i <= Len(found) => all[i] = found[i])
             /\ (i > Len(found) => i - Len(found) \in DOMAIN fresh /\ all[i] = fresh[i - Len(found)])
    BY <1>1, <1>2, AppendedList DEF all
  <2>2. Len(new) >= Len(found)
    BY <1>1, <1>2, <1>3, <1>4, <2>1
  <2>3. \A i \in DOMAIN found : i \in DOMAIN new /\ new[i] = found[i]
    BY <1>1, <1>2, <1>4, <2>1, <2>2
  <2>4. \A i \in DOMAIN new : i > Len(found) => new[i] \notin Results
    <3> SUFFICES ASSUME NEW i \in DOMAIN new, i > Len(found) PROVE new[i] \notin Results
      OBVIOUS
    <3>1. new[i] = fresh[i - Len(found)] /\ i - Len(found) \in DOMAIN fresh
      BY <1>4, <2>1
    <3>2. new[i] \in ToSet(fresh)
      BY <3>1 DEF ToSet
    <3> QED
      BY <3>2, <1>1
  <2>5. Results \subseteq ToSet(new)
    BY <2>3 DEF Results, ToSet
  <2>6. \A p \in stable : FullMatch(p) => p \in ToSet(new)
    BY <1>8, <2>5 DEF FullMatchesFound
  <2>7. FullMatchesFirst(new)
    <3> SUFFICES ASSUME NEW i \in DOMAIN new, NEW j \in DOMAIN new, i < j,
                        {new[i], new[j]} \subseteq stable, FullMatch(new[j])
                 PROVE  FullMatch(new[i])
      BY DEF FullMatchesFirst
    <3>1. i \in Nat /\ j \in Nat /\ Len(found) \in Nat /\ i >= 1
      BY <1>2, <1>4
    <3>2. new[j] \in Results
      BY <1>8 DEF FullMatchesFound
    <3>3. j <= Len(found)
      BY <2>4, <3>1, <3>2
    <3>4. i \in DOMAIN found /\ j \in DOMAIN found
      BY <1>2, <3>1, <3>3
    <3> QED
      BY <1>2, <2>3, <3>4 DEF FullMatchesFirst
  <2> QED
    BY <1>4, <1>5, <1>6, <2>6, <2>7
<1> QED
  BY <1>2, <1>7, <1>8

\* In a list without repetitions, newest first, none of the first places goes to an
\* element older than p if as many elements of the list are at least as new as p.
LEMMA NewestStay ==
  ASSUME NEW t \in Seq(Points), IsInjective(t),
         \A i, j \in DOMAIN t : i < j => SentAt[t[i]] >= SentAt[t[j]],
         NEW h \in Seq(Points), IsInjective(h), ToSet(h) \subseteq ToSet(t),
         NEW p \in Points, \A q \in ToSet(h) : SentAt[p] <= SentAt[q],
         NEW i \in DOMAIN t, i <= Len(h)
  PROVE  SentAt[p] <= SentAt[t[i]]
<1> SUFFICES ASSUME ~(SentAt[p] <= SentAt[t[i]]) PROVE FALSE
  OBVIOUS
<1>1. \A q \in Points : SentAt[q] \in Nat
  BY SearchAssumption
<1>2. /\ i \in Nat /\ i >= 1 /\ i <= Len(t) /\ Len(h) \in Nat
      /\ \A k \in DOMAIN t : k \in Nat /\ k >= 1 /\ t[k] \in Points
  OBVIOUS
<1>3. ASSUME NEW k \in DOMAIN t, t[k] \in ToSet(h) PROVE k < i
  <2>1. SentAt[t[k]] > SentAt[t[i]]
    BY <1>1, <1>2, <1>3
  <2>2. ~(i < k) /\ i # k
    BY <1>1, <1>2, <2>1
  <2> QED
    BY <1>2, <2>2
<1> DEFINE front == SubSeq(t, 1, i - 1)
<1>4. /\ front \in Seq(Points) /\ Len(front) = i - 1
      /\ \A k \in 1..(i - 1) : k \in DOMAIN front /\ front[k] = t[k]
  BY <1>2
<1> HIDE DEF front
<1>5. ToSet(h) \subseteq ToSet(front)
  <2> SUFFICES ASSUME NEW q \in ToSet(h) PROVE q \in ToSet(front)
    OBVIOUS
  <2>1. PICK k \in DOMAIN t : q = t[k]
    BY DEF ToSet
  <2>2. k \in 1..(i - 1)
    BY <1>2, <1>3, <2>1
  <2> QED
    BY <1>4, <2>1, <2>2 DEF ToSet
<1>6. /\ Cardinality(ToSet(h)) = Len(h)
      /\ IsFiniteSet(ToSet(front)) /\ Cardinality(ToSet(front)) <= i - 1
  BY <1>4, ElementsOfList
<1>7. Cardinality(ToSet(h)) <= Cardinality(ToSet(front))
  <2>1. ToSet(h) \in SUBSET ToSet(front)
    BY <1>5
  <2> QED
    BY <1>6, <2>1, FS_Subset
<1>8. Cardinality(ToSet(front)) \in Nat
  BY <1>6, FS_CardinalityType
<1> QED
  BY <1>2, <1>6, <1>7, <1>8

\* The last request of a search without a query: newest first, nothing twice, and a
\* relevant message is left out only for `limit` others at least as new.
LEMMA ScrollMerge ==
  ASSUME SearchInv, searchPc = "asking", ~args.query, Len(queries) = 1,
         NEW hits \in Answers(Head(queries)), NEW fresh \in Unseen(hits),
         NEW sorted \in NewestFirst(found \o fresh), NEW new, new = Cut(sorted)
  PROVE  /\ new \in Seq(Points) /\ IsInjective(new) /\ Len(new) <= args.limit
         /\ \A p \in ToSet(new) \cap stable : Relevant(p)
         /\ \A i, j \in DOMAIN new : i < j => SentAt[new[i]] >= SentAt[new[j]]
         /\ \A p \in stable \ ToSet(new) : Relevant(p) =>
              Len(new) = args.limit /\ \A q \in ToSet(new) : SentAt[p] <= SentAt[q]
<1> DEFINE all == found \o fresh
<1>1. /\ all \in Seq(Points) /\ IsInjective(all) /\ ToSet(all) = Results \cup ToSet(hits)
      /\ hits \in Seq(Points) /\ IsInjective(hits) /\ Len(all) >= Len(hits)
      /\ \A p \in ToSet(all) \cap stable : Relevant(p)
      /\ \A p \in stable \ ToSet(hits) : Matches(p, Head(queries)) =>
           Len(hits) = args.limit /\ \A q \in ToSet(hits) : Value(p) <= Value(q)
      /\ \A p \in stable : Matches(p, Head(queries)) <=> Relevant(p)
      /\ args \in Arguments /\ stable \subseteq Points
  BY Merge, Zenon
<1>2. sorted \in NewestFirst(all)
  OBVIOUS
<1> HIDE DEF all
<1>3. /\ sorted \in Seq(Points) /\ Len(sorted) = Len(all) /\ IsInjective(sorted) /\ ToSet(sorted) = ToSet(all)
      /\ \A i, j \in DOMAIN sorted : i < j => SentAt[sorted[i]] >= SentAt[sorted[j]]
  BY <1>1, <1>2, SortedList
<1>4. /\ new \in Seq(Points) /\ Len(new) <= args.limit /\ IsInjective(new)
      /\ Len(sorted) >= args.limit => Len(new) = args.limit
      /\ Len(sorted) <= args.limit => new = sorted
      /\ \A i \in DOMAIN new : i \in DOMAIN sorted /\ new[i] = sorted[i]
      /\ ToSet(new) \subseteq ToSet(sorted)
  <2>1. /\ Cut(sorted) \in Seq(Points) /\ Len(Cut(sorted)) <= args.limit /\ Len(Cut(sorted)) <= Len(sorted)
        /\ Len(sorted) >= args.limit => Len(Cut(sorted)) = args.limit
        /\ Len(sorted) <= args.limit => Cut(sorted) = sorted
        /\ \A i \in DOMAIN Cut(sorted) : i \in DOMAIN sorted /\ Cut(sorted)[i] = sorted[i]
        /\ ToSet(Cut(sorted)) \subseteq ToSet(sorted) /\ IsInjective(Cut(sorted))
    BY <1>1, <1>3, CutList, Zenon
  <2> QED
    BY <2>1, Zenon
<1>5. args.limit \in Nat /\ Len(sorted) \in Nat
  BY <1>1, <1>3, ArgumentsOfCall
<1>6. \A i, j \in DOMAIN new : i < j => SentAt[new[i]] >= SentAt[new[j]]
  BY <1>3, <1>4, Zenon
<1>7. ASSUME NEW p \in stable \ ToSet(new), Relevant(p)
      PROVE  Len(new) = args.limit /\ \A q \in ToSet(new) : SentAt[p] <= SentAt[q]
  <2> SUFFICES Len(new) = args.limit /\ \A i \in DOMAIN new : SentAt[p] <= SentAt[new[i]]
    BY DEF ToSet
  <2>1. CASE p \in ToSet(hits)
    <3>1. PICK k \in DOMAIN sorted : sorted[k] = p
      <4>1. p \in ToSet(sorted)
        BY <1>1, <1>3, <2>1
      <4> QED
        BY <4>1 DEF ToSet
    <3>2. new # sorted
      BY <1>7, <3>1 DEF ToSet
    <3>3. Len(new) = args.limit
      BY <1>4, <1>5, <3>2
    <3>4. k > Len(new)
      <4>1. k \notin DOMAIN new
        BY <1>4, <1>7, <3>1 DEF ToSet
      <4>2. k \in Nat /\ k >= 1 /\ Len(new) \in Nat /\ DOMAIN new = 1..Len(new)
        BY <1>3, <1>4
      <4> QED
        BY <4>1, <4>2
    <3>5. ASSUME NEW i \in DOMAIN new PROVE SentAt[p] <= SentAt[new[i]]
      <4>1. i \in DOMAIN sorted /\ new[i] = sorted[i] /\ i < k
        BY <1>3, <1>4, <3>4
      <4>2. SentAt[sorted[i]] >= SentAt[sorted[k]]
        BY <1>3, <4>1
      <4>3. SentAt[sorted[i]] \in Nat /\ SentAt[sorted[k]] \in Nat
        BY <1>3, <4>1, SearchAssumption
      <4> QED
        BY <3>1, <4>1, <4>2, <4>3
    <3> QED
      BY <3>3, <3>5
  <2>2. CASE p \notin ToSet(hits)
    <3>1. Len(hits) = args.limit /\ \A q \in ToSet(hits) : Value(p) <= Value(q)
      BY <1>1, <1>7, <2>2
    <3>2. \A q \in ToSet(hits) : SentAt[p] <= SentAt[q]
      BY <3>1 DEF Value
    <3>3. ToSet(hits) \subseteq ToSet(sorted)
      BY <1>1, <1>3
    <3>4. Len(new) = args.limit
      BY <1>1, <1>3, <1>4, <1>5, <3>1
    <3>5. ASSUME NEW i \in DOMAIN new PROVE SentAt[p] <= SentAt[new[i]]
      <4>1. i \in DOMAIN sorted /\ new[i] = sorted[i] /\ i <= Len(hits)
        BY <1>4, <3>1
      <4>2. p \in Points
        BY <1>1
      <4>3. SentAt[p] <= SentAt[sorted[i]]
        BY <1>1, <1>3, <3>2, <3>3, <4>1, <4>2, NewestStay
      <4> QED
        BY <4>1, <4>3
    <3> QED
      BY <3>4, <3>5
  <2> QED
    BY <2>1, <2>2
<1> QED
  BY <1>1, <1>3, <1>4, <1>6, <1>7

\* A message that does not change stays as relevant as it is.
LEMMA SameView ==
  ASSUME args' = args, NEW p, points'[p] = points[p]
  PROVE  (Relevant(p)' <=> Relevant(p)) /\ (FullMatch(p)' <=> FullMatch(p))
  BY DEF FullMatch, Relevant, InTime, IsTerms

\* A list in order stays so while the arguments and the unchanged messages do.
LEMMA SameOrder ==
  ASSUME args' = args, stable' \subseteq stable, \A p \in stable' : points'[p] = points[p],
         FullMatchesFirst(found')
  PROVE  FullMatchesFirst(found)'
<1> SUFFICES ASSUME NEW i \in DOMAIN found', NEW j \in DOMAIN found', i < j,
                    NEW p \in stable', NEW q \in stable', p = found'[i], q = found'[j], FullMatch(q)'
             PROVE  FullMatch(p)'
  BY DEF FullMatchesFirst
<1>1. FullMatch(q)
  BY SameView
<1>2. FullMatch(p)
  BY <1>1 DEF FullMatchesFirst
<1> QED
  BY <1>2, SameView

\* The filters after the first one.
LEMMA RemainingFilters ==
  ASSUME NEW q \in Seq(Filters), q # <<>>
  PROVE  /\ Len(q) \in Nat \ {0} /\ Tail(q) \in Seq(Filters)
         /\ Len(q) # 1 => Tail(q) # <<>> /\ Tail(q)[Len(Tail(q))] = q[Len(q)]
<1>1. Len(q) \in Nat \ {0} /\ Tail(q) \in Seq(Filters) /\ Len(Tail(q)) = Len(q) - 1
  OBVIOUS
<1>2. ASSUME Len(q) # 1 PROVE Tail(q) # <<>> /\ Tail(q)[Len(Tail(q))] = q[Len(q)]
  <2>1. Len(q) - 1 \in 1..(Len(q) - 1) /\ Len(Tail(q)) # 0
    BY <1>1, <1>2
  <2>2. \A i \in 1..(Len(q) - 1) : Tail(q)[i] = q[i + 1]
    OBVIOUS
  <2>3. Tail(q)[Len(q) - 1] = q[(Len(q) - 1) + 1] /\ (Len(q) - 1) + 1 = Len(q)
    BY <1>1, <2>1, <2>2
  <2> QED
    BY <1>1, <2>1, <2>3
<1> QED
  BY <1>1, <1>2

\* A request of a search with a query keeps the invariant.
LEMMA AskSearchStep == SearchInv /\ AskSearch => SearchInv'
<1> SUFFICES ASSUME SearchInv, AskSearch PROVE SearchInv'
  OBVIOUS
<1>1. PICK hits \in Answers(Head(queries)) : \E fresh \in Unseen(hits) :
        /\ found' = Cut(found \o fresh)
        /\ searchPc' = (IF Len(found') = args.limit \/ Len(queries) = 1 THEN "answered" ELSE "asking")
  BY Zenon DEF AskSearch
<1>2. PICK fresh \in Unseen(hits) :
        /\ found' = Cut(found \o fresh)
        /\ searchPc' = (IF Len(found') = args.limit \/ Len(queries) = 1 THEN "answered" ELSE "asking")
  BY <1>1, Zenon
<1>3. /\ searchPc = "asking" /\ args.query
      /\ queries' = Tail(queries) /\ UNCHANGED <<args, points, stable, changes, embedVars>>
  BY Zenon DEF AskSearch, Remaining
<1>4. /\ found' \in Seq(Points) /\ IsInjective(found') /\ Len(found') <= args.limit
      /\ \A p \in ToSet(found') \cap stable : Relevant(p)
      /\ FullMatchesFirst(found')
      /\ \/ \A p \in stable : FullMatch(p) => p \in ToSet(found')
         \/ /\ Len(found') = args.limit
            /\ \A p \in stable \ ToSet(found') : FullMatch(p) =>
                 \A q \in ToSet(found') \cap stable : FullMatch(q) /\ Likeness[p] <= Likeness[q]
      /\ Len(queries) = 1 => \A p \in stable \ ToSet(found') : Relevant(p) => Len(found') = args.limit
  BY <1>2, <1>3, SearchMerge, Zenon
<1>5. /\ args \in Arguments /\ SearchTypeOK /\ queries \in Seq(Filters) /\ queries # <<>>
      /\ queries[Len(queries)] = Loosest(args.sender, args.room)
      /\ args.limit \in Nat \ {0}
  <2>1. args \in Arguments /\ SearchTypeOK /\ AskingInv
    BY <1>3 DEF SearchInv
  <2> QED
    BY <2>1, ArgumentsOfCall DEF SearchTypeOK, AskingInv, Filters
<1>6. \A p : (Relevant(p)' <=> Relevant(p)) /\ (FullMatch(p)' <=> FullMatch(p))
  BY <1>3, SameView
<1>7. Results' = ToSet(found')
  BY DEF Results, ToSet
<1>8. /\ Tail(queries) \in Seq(Filters) /\ Len(queries) \in Nat \ {0}
      /\ Len(queries) # 1 => Tail(queries) # <<>> /\ Tail(queries)[Len(Tail(queries))] = queries[Len(queries)]
  BY <1>5, RemainingFilters
<1>9. SearchTypeOK'
  <2>1. searchPc' \in {"idle", "embedding", "asking", "answered", "error"}
    BY <1>2
  <2> QED
    BY <1>3, <1>4, <1>5, <1>8, <2>1 DEF SearchTypeOK, Filters, Arguments, Collections, Payloads
<1>10. \A p \in (Results \cap stable)' : Relevant(p)'
  BY <1>3, <1>4, <1>6, <1>7
<1>11. FullMatchesFirst(found)'
  BY <1>3, <1>4, SameOrder
<1>12. ASSUME searchPc' = "asking" PROVE AskingInv'
  <2>1. Len(queries) # 1 /\ Len(found') # args.limit
    BY <1>2, <1>12
  <2>2. FullMatchesFound'
    BY <1>3, <1>4, <1>6, <1>7, <2>1 DEF FullMatchesFound
  <2>3. Len(found') < args.limit
    BY <1>4, <1>5, <2>1
  <2>4. Loosest(args.sender, args.room)' = Loosest(args.sender, args.room)
    BY <1>3 DEF Loosest, Candidates, CountsOf, IsTerms, Counts
  <2>5. queries' # <<>> /\ queries'[Len(queries')] = Loosest(args.sender, args.room)
    BY <1>3, <1>5, <1>8, <2>1
  <2> QED
    BY <1>3, <1>11, <2>2, <2>3, <2>4, <2>5 DEF AskingInv
<1>13. ASSUME searchPc' = "answered" PROVE ResultsInOrder'
  <2>1. Cardinality(ToSet(found')) = Len(found')
    BY <1>4, ElementsOfList
  <2>2. \A i, j \in DOMAIN found' : i < j =>
          (({found[i], found[j]} \subseteq stable /\ FullMatch(found[j])) => FullMatch(found[i]))'
    BY <1>11 DEF FullMatchesFirst
  <2> QED
    BY <1>3, <1>4, <1>7, <2>1, <2>2 DEF ResultsInOrder
<1>14. ASSUME searchPc' = "answered" PROVE NothingBetterIsLeftOut'
  <2> SUFFICES ASSUME NEW p \in stable \ ToSet(found'), Relevant(p)
               PROVE  Len(found') = args.limit /\ \A q \in ToSet(found') \cap stable : GivesWay(p, q)'
    BY <1>3, <1>6, <1>7 DEF NothingBetterIsLeftOut
  <2>1. Len(found') = args.limit
    BY <1>2, <1>4, <1>14
  <2>2. ASSUME NEW q \in ToSet(found') \cap stable, FullMatch(p)
        PROVE  FullMatch(q) /\ Likeness[p] <= Likeness[q]
    BY <1>4, <2>2
  <2> QED
    BY <1>3, <1>6, <2>1, <2>2 DEF GivesWay
<1> QED
  <2>1. searchPc' \in {"asking", "answered"}
    BY <1>2
  <2>2. ResultsInOrder' /\ NothingBetterIsLeftOut'
    <3>1. CASE searchPc' = "answered"
      BY <1>13, <1>14, <3>1
    <3>2. CASE searchPc' = "asking"
      BY <3>2 DEF ResultsInOrder, NothingBetterIsLeftOut, Answered
    <3> QED
      BY <2>1, <3>1, <3>2
  <2> QED
    BY <1>3, <1>4, <1>5, <1>9, <1>10, <1>12, <2>1, <2>2 DEF SearchInv, IsInjective

\* A request of a search without a query keeps the invariant.
LEMMA AskScrollStep == SearchInv /\ AskScroll => SearchInv'
<1> SUFFICES ASSUME SearchInv, AskScroll PROVE SearchInv'
  OBVIOUS
<1>1. PICK hits \in Answers(Head(queries)) : \E fresh \in Unseen(hits) :
        \/ /\ Len(queries) = 1
           /\ \E sorted \in NewestFirst(found \o fresh) : found' = Cut(sorted)
           /\ searchPc' = "answered"
        \/ /\ Len(queries) # 1
           /\ found' = found \o fresh
           /\ UNCHANGED searchPc
  BY Zenon DEF AskScroll
<1>2. PICK fresh \in Unseen(hits) :
        \/ /\ Len(queries) = 1
           /\ \E sorted \in NewestFirst(found \o fresh) : found' = Cut(sorted)
           /\ searchPc' = "answered"
        \/ /\ Len(queries) # 1
           /\ found' = found \o fresh
           /\ UNCHANGED searchPc
  BY <1>1, Zenon
<1>3. /\ searchPc = "asking" /\ ~args.query
      /\ queries' = Tail(queries) /\ UNCHANGED <<args, points, stable, changes, embedVars>>
  BY Zenon DEF AskScroll, Remaining
<1>5. /\ args \in Arguments /\ SearchTypeOK /\ queries \in Seq(Filters) /\ queries # <<>>
      /\ queries[Len(queries)] = Loosest(args.sender, args.room)
  <2>1. args \in Arguments /\ SearchTypeOK /\ AskingInv
    BY <1>3 DEF SearchInv
  <2> QED
    BY <2>1 DEF SearchTypeOK, AskingInv, Filters
<1>6. \A p : (Relevant(p)' <=> Relevant(p)) /\ (FullMatch(p)' <=> FullMatch(p))
  BY <1>3, SameView
<1>7. Results' = ToSet(found')
  BY DEF Results, ToSet
<1>8. /\ Tail(queries) \in Seq(Filters) /\ Len(queries) \in Nat \ {0}
      /\ Len(queries) # 1 => Tail(queries) # <<>> /\ Tail(queries)[Len(Tail(queries))] = queries[Len(queries)]
  BY <1>5, RemainingFilters
<1>9. ASSUME found' \in Seq(Points), searchPc' \in {"asking", "answered"} PROVE SearchTypeOK'
  BY <1>3, <1>5, <1>8, <1>9 DEF SearchTypeOK, Filters, Arguments, Collections, Payloads
<1>10. ASSUME \A p \in ToSet(found') \cap stable : Relevant(p)
       PROVE  \A p \in (Results \cap stable)' : Relevant(p)'
  BY <1>3, <1>6, <1>7, <1>10
<1>11. CASE Len(queries) # 1
  <2>1. found' = found \o fresh /\ searchPc' = "asking"
    BY <1>2, <1>3, <1>11
  <2>2. /\ found \o fresh \in Seq(Points) /\ IsInjective(found \o fresh)
        /\ \A p \in ToSet(found \o fresh) \cap stable : Relevant(p)
    BY <1>3, Merge, Zenon
  <2>3. /\ found' \in Seq(Points) /\ IsInjective(found')
        /\ \A p \in ToSet(found') \cap stable : Relevant(p)
    BY <2>1, <2>2
  <2>4. Loosest(args.sender, args.room)' = Loosest(args.sender, args.room)
    BY <1>3 DEF Loosest, Candidates, CountsOf, IsTerms, Counts
  <2>5. queries' # <<>> /\ queries'[Len(queries')] = Loosest(args.sender, args.room)
    BY <1>3, <1>5, <1>8, <1>11
  <2>6. AskingInv'
    BY <1>3, <2>4, <2>5 DEF AskingInv
  <2>7. ResultsInOrder' /\ NothingBetterIsLeftOut'
    BY <2>1 DEF ResultsInOrder, NothingBetterIsLeftOut, Answered
  <2> QED
    BY <1>3, <1>5, <1>9, <1>10, <2>1, <2>3, <2>6, <2>7 DEF SearchInv, IsInjective
<1>12. CASE Len(queries) = 1
  <2>1. PICK sorted \in NewestFirst(found \o fresh) : found' = Cut(sorted)
    BY <1>2, <1>12, Zenon
  <2>2. searchPc' = "answered"
    BY <1>2, <1>12
  <2>3. /\ found' \in Seq(Points) /\ IsInjective(found') /\ Len(found') <= args.limit
        /\ \A p \in ToSet(found') \cap stable : Relevant(p)
        /\ \A i, j \in DOMAIN found' : i < j => SentAt[found'[i]] >= SentAt[found'[j]]
        /\ \A p \in stable \ ToSet(found') : Relevant(p) =>
             Len(found') = args.limit /\ \A q \in ToSet(found') : SentAt[p] <= SentAt[q]
    BY <1>3, <1>12, <2>1, ScrollMerge, Zenon
  <2>4. Cardinality(ToSet(found')) = Len(found')
    BY <2>3, ElementsOfList
  <2>5. ResultsInOrder'
    BY <1>3, <1>7, <2>3, <2>4 DEF ResultsInOrder
  <2>6. NothingBetterIsLeftOut'
    <3> SUFFICES ASSUME NEW p \in stable \ ToSet(found'), Relevant(p)
                 PROVE  Len(found') = args.limit /\ \A q \in ToSet(found') \cap stable : GivesWay(p, q)'
      BY <1>3, <1>6, <1>7 DEF NothingBetterIsLeftOut
    <3> QED
      BY <1>3, <2>3 DEF GivesWay
  <2> QED
    BY <1>3, <1>5, <1>9, <1>10, <2>2, <2>3, <2>5, <2>6 DEF SearchInv, IsInjective
<1> QED
  BY <1>11, <1>12

\* A call goes on to Qdrant with nothing found and all its filters.
LEMMA PrepareStep ==
  SearchInv /\ (Embedded \/ \E a \in Arguments : CallWithoutQuery(a)) => SearchInv'
<1> SUFFICES ASSUME SearchInv, NEW a \in Arguments, args' = a, Prepare(a),
                    searchPc \in {"idle", "embedding"}
             PROVE  SearchInv'
  BY DEF SearchInv, Embedded, CallWithoutQuery
<1>1. /\ searchPc' = "asking" /\ queries' = Candidates(a.sender, a.room)
      /\ points' \in Collections /\ stable' = DOMAIN points' /\ UNCHANGED <<found, changes>>
  BY DEF Prepare
<1>2. found = <<>> /\ SearchTypeOK
  BY DEF SearchInv
<1>3. /\ Candidates(a.sender, a.room) \in Seq(Filters) /\ Len(Candidates(a.sender, a.room)) \in Nat \ {0}
  BY ArgumentsOfCall, CandidateFilters
<1>4. a.limit \in Nat \ {0}
  BY ArgumentsOfCall
<1>5. SearchTypeOK'
  BY <1>1, <1>2, <1>3 DEF SearchTypeOK, Filters
<1>6. Results' = {} /\ IsInjective(found)' /\ FullMatchesFirst(found)'
  BY <1>1, <1>2 DEF Results, ToSet, IsInjective, FullMatchesFirst
<1>7. AskingInv'
  <2>1. queries' # <<>>
    BY <1>1, <1>3
  <2>2. queries'[Len(queries')] = Loosest(args.sender, args.room)'
    BY <1>1 DEF Loosest, Candidates, CountsOf, IsTerms, Counts
  <2>3. NothingFoundYet'
    BY <1>1, <1>2 DEF NothingFoundYet, Candidates, CountsOf, IsTerms, Counts
  <2>4. Len(found') < args'.limit
    BY <1>1, <1>2, <1>4
  <2> QED
    BY <1>6, <2>1, <2>2, <2>3, <2>4 DEF AskingInv
<1>8. ResultsInOrder' /\ NothingBetterIsLeftOut'
  BY <1>1 DEF ResultsInOrder, NothingBetterIsLeftOut, Answered
<1> QED
  BY <1>1, <1>5, <1>6, <1>7, <1>8 DEF SearchInv

\* The collection stays a collection, and a message that counts as unchanged is unchanged.
LEMMA CollectionChanges ==
  ASSUME SearchTypeOK, Meanwhile
  PROVE  /\ points' \in Collections /\ stable' \subseteq DOMAIN points' /\ stable' \subseteq stable
         /\ \A p \in stable' : points'[p] = points[p]
         /\ searchPc = "asking" /\ changes < MaxChanges /\ changes' = changes + 1
         /\ UNCHANGED <<searchPc, args, queries, found, embedVars>>
<1>1. PICK K \in SUBSET Points : points \in [K -> Payloads] /\ stable \subseteq K
  BY DEF SearchTypeOK, Collections
<1>2. CASE \E p \in Points, payload \in Payloads : Upsert(p, payload)
  <2>1. PICK p \in Points, payload \in Payloads : Upsert(p, payload)
    BY <1>2
  <2>2. /\ Change /\ p \notin K /\ stable' = stable
        /\ points' = [q \in K \cup {p} |-> IF q = p THEN payload ELSE points[q]]
    BY <1>1, <2>1 DEF Upsert
  <2>3. points' \in [K \cup {p} -> Payloads] /\ K \cup {p} \in SUBSET Points
    BY <1>1, <2>2
  <2>4. points' \in Collections
    BY <2>3 DEF Collections
  <2>5. \A q \in stable' : points'[q] = points[q] /\ q \in K \cup {p}
    BY <1>1, <2>2
  <2> QED
    BY <2>2, <2>3, <2>4, <2>5 DEF Change
<1>3. CASE \E p \in Points, text \in Names : Rename(SentBy[p], SentIn[p], text)
  <2>1. PICK p \in Points, text \in Names : Rename(SentBy[p], SentIn[p], text)
    BY <1>3
  <2> DEFINE renamed == {q \in DOMAIN points : SentBy[q] = SentBy[p] /\ SentIn[q] = SentIn[p]}
  <2>2. /\ Change /\ stable' = stable \ renamed
        /\ points' = [q \in DOMAIN points |->
                        IF q \in renamed THEN [points[q] EXCEPT !.named = text] ELSE points[q]]
    BY <2>1 DEF Rename
  <2> HIDE DEF renamed
  <2>3. \A q \in K : [points[q] EXCEPT !.named = text] \in Payloads
    BY <1>1 DEF Payloads
  <2>4. points' \in [K -> Payloads]
    BY <1>1, <2>2, <2>3
  <2>5. points' \in Collections
    BY <2>4 DEF Collections
  <2>6. \A q \in stable' : points'[q] = points[q]
    BY <1>1, <2>2
  <2> QED
    BY <1>1, <2>2, <2>4, <2>5, <2>6 DEF Change
<1> QED
  BY <1>2, <1>3 DEF Meanwhile

\* Messages that come and names that change leave the invariant alone.
LEMMA MeanwhileStep == SearchInv /\ Meanwhile => SearchInv'
<1> SUFFICES ASSUME SearchInv, Meanwhile PROVE SearchInv'
  OBVIOUS
<1>1. /\ points' \in Collections /\ stable' \subseteq DOMAIN points' /\ stable' \subseteq stable
      /\ \A p \in stable' : points'[p] = points[p]
      /\ searchPc = "asking" /\ changes < MaxChanges /\ changes' = changes + 1
      /\ UNCHANGED <<searchPc, args, queries, found, embedVars>>
  BY CollectionChanges DEF SearchInv
<1>2. SearchTypeOK /\ AskingInv /\ IsInjective(found) /\ args \in Arguments
  BY <1>1 DEF SearchInv
<1>3. SearchTypeOK'
  <2>1. changes' \in 0..MaxChanges
    BY <1>1, <1>2, SearchAssumption DEF SearchTypeOK
  <2> QED
    BY <1>1, <1>2, <2>1 DEF SearchTypeOK, Arguments
<1>4. \A p \in stable' : (Relevant(p)' <=> Relevant(p)) /\ (FullMatch(p)' <=> FullMatch(p))
  BY <1>1, SameView
<1>5. Results' = Results
  BY <1>1 DEF Results, ToSet
<1>6. \A p \in (Results \cap stable)' : Relevant(p)'
  BY <1>1, <1>4, <1>5 DEF SearchInv
<1>7. AskingInv'
  <2>1. Loosest(args.sender, args.room)' = Loosest(args.sender, args.room)
    BY <1>1 DEF Loosest, Candidates, CountsOf, IsTerms, Counts
  <2>2. queries' # <<>> /\ queries'[Len(queries')] = Loosest(args.sender, args.room)'
    BY <1>1, <1>2, <2>1 DEF AskingInv
  <2>3. ASSUME args.query PROVE FullMatchesFirst(found)'
    <3>1. FullMatchesFirst(found')
      BY <1>1, <1>2, <2>3 DEF AskingInv
    <3> QED
      BY <1>1, <3>1, SameOrder
  <2>4. NothingFoundYet => NothingFoundYet'
    BY <1>1 DEF NothingFoundYet, Candidates, CountsOf, IsTerms, Counts
  <2>5. FullMatchesFound => FullMatchesFound'
    BY <1>1, <1>4, <1>5 DEF FullMatchesFound
  <2> QED
    BY <1>1, <1>2, <2>2, <2>3, <2>4, <2>5 DEF AskingInv
<1>8. ResultsInOrder' /\ NothingBetterIsLeftOut'
  BY <1>1 DEF ResultsInOrder, NothingBetterIsLeftOut, Answered
<1> QED
  BY <1>1, <1>2, <1>3, <1>6, <1>7, <1>8 DEF SearchInv, IsInjective

\* The steps that end in an error, or stay with the embedding, neither find nor ask anything.
LEMMA OtherSearchSteps ==
  ASSUME SearchInv, UNCHANGED <<points, queries, found, stable, changes>>,
         \/ searchPc = "idle" /\ args' \in Arguments /\ searchPc' \in {"embedding", "error"}
         \/ args' = args /\ searchPc' \in {searchPc, "error"}
  PROVE  SearchInv'
<1>1. SearchTypeOK'
  BY DEF SearchInv, SearchTypeOK, Arguments, Collections, Payloads
<1>2. IsInjective(found)'
  BY DEF SearchInv, IsInjective
<1>3. CASE searchPc' \in {"embedding", "error"}
  <2>1. ResultsInOrder' /\ NothingBetterIsLeftOut'
    BY <1>3 DEF ResultsInOrder, NothingBetterIsLeftOut, Answered
  <2>2. searchPc' = "embedding" => found' = <<>> /\ args' \in Arguments
    BY <1>3 DEF SearchInv
  <2> QED
    BY <1>1, <1>2, <1>3, <2>1, <2>2 DEF SearchInv
<1>4. CASE args' = args /\ searchPc' = searchPc
  <2>1. \A p : (Relevant(p)' <=> Relevant(p)) /\ (FullMatch(p)' <=> FullMatch(p))
    BY <1>4, SameView
  <2>2. Results' = Results
    BY DEF Results, ToSet
  <2>3. FullMatchesFirst(found) => FullMatchesFirst(found)'
    <3>1. FullMatchesFirst(found) => FullMatchesFirst(found')
      OBVIOUS
    <3> QED
      BY <1>4, <3>1, SameOrder
  <2>4. AskingInv => AskingInv'
    <3>1. Loosest(args.sender, args.room)' = Loosest(args.sender, args.room)
      BY <1>4 DEF Loosest, Candidates, CountsOf, IsTerms, Counts
    <3>2. NothingFoundYet => NothingFoundYet'
      BY <1>4 DEF NothingFoundYet, Candidates, CountsOf, IsTerms, Counts
    <3>3. FullMatchesFound => FullMatchesFound'
      BY <2>1, <2>2 DEF FullMatchesFound
    <3> QED
      BY <1>4, <2>3, <3>1, <3>2, <3>3 DEF AskingInv
  <2>5. ResultsInOrder => ResultsInOrder'
    <3> SUFFICES ASSUME Answered, ResultsInOrder PROVE ResultsInOrder'
      BY <1>4 DEF ResultsInOrder, Answered
    <3>1. CASE args.query
      <4>1. FullMatchesFirst(found)
        BY <3>1 DEF ResultsInOrder, FullMatchesFirst
      <4>2. FullMatchesFirst(found)'
        BY <2>3, <4>1
      <4> QED
        BY <1>4, <2>2, <3>1, <4>2 DEF ResultsInOrder, FullMatchesFirst
    <3>2. CASE ~args.query
      BY <1>4, <2>2, <3>2 DEF ResultsInOrder
    <3> QED
      BY <3>1, <3>2
  <2>6. NothingBetterIsLeftOut => NothingBetterIsLeftOut'
    BY <1>4, <2>1, <2>2 DEF NothingBetterIsLeftOut, GivesWay, Answered
  <2> QED
    BY <1>1, <1>2, <1>4, <2>1, <2>2, <2>4, <2>5, <2>6 DEF SearchInv
<1> QED
  BY <1>3, <1>4

\* What the tools do keeps the invariant of a search.
LEMMA SearchStaysInv == SearchInv /\ [Next]_vars => SearchInv'
<1> SUFFICES ASSUME SearchInv, [Next]_vars PROVE SearchInv'
  OBVIOUS
<1>1. CASE Search
  <2>1. PICK a \in Arguments : SearchCall(a)
    BY <1>1, Zenon DEF Search
  <2>2. CASE Refuse(a)
    BY <2>2, OtherSearchSteps DEF Refuse
  <2>3. CASE CallWithQuery(a)
    BY <2>3, OtherSearchSteps DEF CallWithQuery
  <2>4. CASE CallWithoutQuery(a)
    BY <2>4, PrepareStep
  <2> QED
    BY <2>1, <2>2, <2>3, <2>4 DEF SearchCall
<1>2. CASE SearchStep
  <2>1. CASE Embedding
    BY <2>1, OtherSearchSteps DEF Embedding, searchVars
  <2>2. CASE NotEmbedded
    BY <2>2, OtherSearchSteps DEF NotEmbedded, SearchError
  <2> QED
    BY <1>2, <2>1, <2>2, PrepareStep, AskSearchStep, AskScrollStep DEF SearchStep
<1>3. CASE Meanwhile
  BY <1>3, MeanwhileStep
<1>4. CASE RequestFails
  BY <1>4, OtherSearchSteps DEF RequestFails, SearchError
<1>5. CASE UNCHANGED searchVars
  BY <1>5, OtherSearchSteps DEF searchVars
<1> QED
  BY <1>1, <1>2, <1>3, <1>4, <1>5 DEF Next, Context, Step, Environment, vars

\* The embedding of the query is one call of embed.
LEMMA RetryStaysInv == RetryInv /\ [Next]_vars => RetryInv'
<1> SUFFICES ASSUME RetryInv, [Next]_vars PROVE RetryInv'
  OBVIOUS
<1>1. [EmbedNext]_embedVars
  <2>1. CASE Search
    BY <2>1 DEF Search, SearchCall, Refuse, CallWithQuery, CallWithoutQuery, EmbedNext
  <2>2. CASE SearchStep
    BY <2>2 DEF SearchStep, Embedding, Embedded, NotEmbedded, SearchError, AskSearch, AskScroll, EmbedNext
  <2>3. CASE Meanwhile \/ RequestFails
    BY <2>3 DEF Meanwhile, Upsert, Rename, Change, RequestFails, SearchError
  <2> QED
    BY <2>1, <2>2, <2>3 DEF Next, Context, Step, Environment, vars
<1> QED
  BY <1>1, RetryStep

\* No call yet: nothing found, nothing asked.
LEMMA SearchStart == SearchIdle => SearchInv
<1> SUFFICES ASSUME SearchIdle PROVE SearchInv
  OBVIOUS
<1>1. points \in Collections
  <2>1. points \in [{} -> Payloads] /\ {} \in SUBSET Points
    BY DEF SearchIdle
  <2> QED
    BY <2>1 DEF Collections
<1>2. <<>> \in Seq(Points) /\ <<>> \in Seq([sender : Nat, room : Nat])
  OBVIOUS
<1>3. SearchTypeOK
  BY <1>1, <1>2, SearchAssumption DEF SearchIdle, SearchTypeOK
<1>4. ResultsInOrder /\ NothingBetterIsLeftOut /\ IsInjective(found)
  BY DEF SearchIdle, ResultsInOrder, NothingBetterIsLeftOut, Answered, IsInjective
<1> QED
  BY <1>3, <1>4 DEF SearchIdle, SearchInv

\* Every variable of a call keeps its type.
THEOREM ToolCallsTypeCorrect == Spec => []TypeOK
<1>1. Init => SearchInv /\ RetryInv /\ ContextInv
  BY SearchStart, RetryInit, ContextInit DEF Init
<1>2. SearchInv /\ RetryInv /\ ContextInv => TypeOK
  BY DEF SearchInv, RetryInv, ContextInv, TypeOK
<1> QED
  BY <1>1, <1>2, SearchStaysInv, RetryStaysInv, ContextStaysInv, PTL DEF Spec

\* Every result whose message was not renamed during the call satisfies the conditions
\* on sender, room and time, whatever the filters that found it.
THEOREM ResultsSatisfyArguments == Spec => []ResultsAreRelevant
<1>1. Init => SearchInv
  BY SearchStart DEF Init
<1>2. SearchInv => ResultsAreRelevant
  BY DEF SearchInv, ResultsAreRelevant, Answered
<1> QED
  BY <1>1, <1>2, SearchStaysInv, PTL DEF Spec

\* The merge of the answers repeats nothing, stays within the limit and is ordered.
THEOREM ResultsAreOrdered == Spec => []ResultsInOrder
<1>1. Init => SearchInv
  BY SearchStart DEF Init
<1>2. SearchInv => ResultsInOrder
  BY DEF SearchInv
<1> QED
  BY <1>1, <1>2, SearchStaysInv, PTL DEF Spec

\* A relevant message that did not change is left out only for `limit` others that go
\* before it, although each filter's answer is cut on its own.
THEOREM CutsHideNothingBetter == Spec => []NothingBetterIsLeftOut
<1>1. Init => SearchInv
  BY SearchStart DEF Init
<1>2. SearchInv => NothingBetterIsLeftOut
  BY DEF SearchInv
<1> QED
  BY <1>1, <1>2, SearchStaysInv, PTL DEF Spec

\* The embedding of a query backs off as a call of embed alone does.
THEOREM SearchBacksOff == Spec => []BackoffDoubles
<1>1. Init => RetryInv
  BY RetryInit DEF Init
<1>2. RetryInv => BackoffDoubles
  BY DEF RetryInv
<1> QED
  BY <1>1, <1>2, RetryStaysInv, PTL DEF Spec

\* The context of an event is a gapless run on either side, within what was asked and as
\* long as the room allowed, unless the homeserver held something back.
THEOREM ContextIsGapless == Spec => []ContextIsTheNeighbourhood
<1>1. Init => ContextInv
  BY ContextInit DEF Init
<1>2. ContextInv => ContextIsTheNeighbourhood
  BY Zenon DEF ContextInv, ContextIsTheNeighbourhood
<1> QED
  BY <1>1, <1>2, ContextStaysInv, PTL DEF Spec
=============================================================================
