------------------------- MODULE EmbeddingClientProofs -------------------------
(***************************************************************************)
(* The retry loop of embed for every number of retries: its counter, its   *)
(* delay and the time it has slept go together.                            *)
(***************************************************************************)
EXTENDS EmbeddingClient, TLAPS

\* The loop has a retry left whenever it sleeps.
RetryInv ==
  /\ EmbedTypeOK
  /\ BackoffDoubles
  /\ embedPc = "idle" => attempt = 0 /\ limited = 0
  /\ embedPc = "sleeping" => attempt < MaxRetries

\* A call starts with a delay of one second and nothing slept.
LEMMA RetryInit == EmbedIdle => RetryInv
  BY EmbedAssumption, SMT DEF EmbedIdle, RetryInv, EmbedTypeOK, BackoffDoubles

\* Every step of a call keeps the counter, the delay and the sleep together.
LEMMA RetryStep == RetryInv /\ [EmbedNext]_embedVars => RetryInv'
<1> SUFFICES ASSUME RetryInv, [EmbedNext]_embedVars PROVE RetryInv'
  OBVIOUS
<1> USE EmbedAssumption DEF RetryInv, EmbedTypeOK, BackoffDoubles
<1>1. CASE Embed
  BY <1>1, SMT DEF Embed
<1>2. CASE EmbedAnswered
  BY <1>2, SMT DEF EmbedAnswered
<1>3. CASE RateLimited
  BY <1>3, SMT DEF RateLimited, MayRetry
<1>4. CASE Woken
  BY <1>4, SMT DEF Woken, NextDelay
<1>5. CASE EmbedFails
  BY <1>5, SMT DEF EmbedFails
<1>6. CASE UNCHANGED embedVars
  BY <1>6, SMT DEF embedVars
<1> QED
  BY <1>1, <1>2, <1>3, <1>4, <1>5, <1>6 DEF EmbedNext, EmbedStep

\* Every variable of a call keeps its type: the loop's counter stays in its range.
THEOREM EmbedTypeCorrect == EmbedSpec => []EmbedTypeOK
<1>1. RetryInv => EmbedTypeOK
  BY DEF RetryInv
<1> QED
  BY <1>1, RetryInit, RetryStep, PTL DEF EmbedSpec

\* embed gives up after exactly one attempt and MaxRetries retries, every retry
\* having waited as long as all earlier waits together and a second.
THEOREM BackoffIsExact == EmbedSpec => []BackoffDoubles
<1>1. RetryInv => BackoffDoubles
  BY DEF RetryInv
<1> QED
  BY <1>1, RetryInit, RetryStep, PTL DEF EmbedSpec
=============================================================================
