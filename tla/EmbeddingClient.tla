---------------------------- MODULE EmbeddingClient ----------------------------
(***************************************************************************)
(* One call of embed (embeddings.py): the request to OpenAI, retried with  *)
(* doubling delays while it is rate limited.  OpenAI is external; what it  *)
(* answers is left out.                                                    *)
(*                                                                         *)
(* A definition named Faulty... is a variant with a bug, kept to show that *)
(* some property notices it; the specification uses none of them.          *)
(***************************************************************************)
EXTENDS Integers

CONSTANT MaxRetries   \* _MAX_RETRIES

ASSUME EmbedAssumption == MaxRetries \in Nat

VARIABLES
  embedPc,   \* "idle", "requesting", "sleeping", "done", "failed" or "exhausted"
  attempt,   \* the loop's counter
  delay,     \* seconds of the next sleep
  limited,   \* history: rate-limit errors so far
  slept      \* history: seconds slept so far

embedVars == <<embedPc, attempt, delay, limited, slept>>

\* No call yet.
EmbedIdle ==
  /\ embedPc = "idle"
  /\ attempt = 0 /\ delay = 1
  /\ limited = 0 /\ slept = 0

Embed ==
  /\ embedPc = "idle"
  /\ embedPc' = "requesting"
  /\ UNCHANGED <<attempt, delay, limited, slept>>

EmbedAnswered ==
  /\ embedPc = "requesting"
  /\ embedPc' = "done"
  /\ UNCHANGED <<attempt, delay, limited, slept>>

FaultyMayRetry == attempt <= MaxRetries

MayRetry == attempt < MaxRetries

\* RateLimitError: a sleep, or the end of the loop without another sleep.
RateLimited ==
  /\ embedPc = "requesting"
  /\ limited' = limited + 1
  /\ embedPc' = IF MayRetry THEN "sleeping" ELSE "exhausted"
  /\ UNCHANGED <<attempt, delay, slept>>

FaultyNextDelay == delay + 1

NextDelay == 2 * delay

Woken ==
  /\ embedPc = "sleeping"
  /\ slept' = slept + delay
  /\ delay' = NextDelay
  /\ attempt' = attempt + 1
  /\ embedPc' = "requesting"
  /\ UNCHANGED limited

\* Any other exception becomes an EmbeddingError at once.
EmbedFails ==
  /\ embedPc = "requesting"
  /\ embedPc' = "failed"
  /\ UNCHANGED <<attempt, delay, limited, slept>>

EmbedStep == EmbedAnswered \/ RateLimited \/ Woken \/ EmbedFails

EmbedNext == Embed \/ EmbedStep

\* OpenAI answers or refuses every request (its client has a timeout).
EmbedSpec == EmbedIdle /\ [][EmbedNext]_embedVars /\ WF_embedVars(EmbedStep)

-----------------------------------------------------------------------------
(* Properties *)

EmbedTypeOK ==
  /\ embedPc \in {"idle", "requesting", "sleeping", "done", "failed", "exhausted"}
  /\ attempt \in 0..MaxRetries
  /\ delay \in Nat \ {0}
  /\ limited \in Nat
  /\ slept \in Nat

\* The retry loop gives up only after a first attempt and MaxRetries retries were
\* all rate limited, each retry comes after a sleep as long as all earlier ones
\* together and a second, and no time is slept after the last.
BackoffDoubles ==
  /\ slept = delay - 1
  /\ limited = IF embedPc \in {"sleeping", "exhausted"} THEN attempt + 1 ELSE attempt
  /\ embedPc = "exhausted" => limited = MaxRetries + 1
=============================================================================
