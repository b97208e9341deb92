---------------------------- MODULE ProviderClient ----------------------------
(***************************************************************************)
(* The adapter of the language model (providers/adapters/shineshop.py):    *)
(* a generation is one POST, a health check is a GET that is tried again   *)
(* after transient failures, pausing for as long as the provider asks      *)
(* within a limit. Both turn what comes back into a small set of codes.    *)
(*                                                                         *)
(* An answer is a status, a kind of body and a Retry-After value; texts    *)
(* and sizes are the kinds the code tells apart.                           *)
(***************************************************************************)
EXTENDS Naturals, FiniteSets

CONSTANTS
  HealthMaxAttempts,  \* health_max_attempts
  RetryAfterMax,      \* retry_after_max_seconds, in quarters of a second
  Pauses              \* what a Retry-After header may ask, in quarters of a second

ASSUME ProviderAssumption ==
  /\ HealthMaxAttempts \in Nat \ {0} /\ RetryAfterMax \in Nat /\ Pauses \subseteq Nat

Statuses == {200, 400, 401, 404, 408, 413, 418, 429, 500, 503}

\* "undecodable" stands for a body whose content encoding is broken, "surrogate" for a
\* text that JSON can name and UTF-8 cannot encode.
Bodies == {"text", "blank", "surrogate", "model", "models", "not_found_code", "other_json",
           "not_json", "large", "undecodable"}

Responses == [status : Statuses, body : Bodies, retry : {{}} \cup {{s} : s \in Pauses}]

\* No answer: a timeout, or a transport that breaks.
Silence == [status : {0}, body : {"timeout", "unavailable"}, retry : {{}}]

VARIABLES
  provider,   \* the provider the settings name, once it is created
  operation,  \* "none", "generate" or "health"
  pending,    \* the operation is under way
  attempt,    \* requests it has begun
  last,       \* history: how the last of them was answered
  slept,      \* quarters of a second slept between them
  outcome     \* what the caller got

providerVars == <<provider, operation, pending, attempt, last, slept, outcome>>

-------------------------------------------------------------------------------
(* Classification of an answer *)

Failure(code, retryable) == [kind |-> "error", code |-> code, retryable |-> retryable]
RawError == [kind |-> "raw"]     \* an exception of a library, as it is

\* _has_stable_model_not_found_code reads the body of a 404; what it cannot read is not it.
HasNotFoundCode(r) == r.status = 404 /\ r.body = "not_found_code"

StatusError(r) ==
  CASE r.status = 401 -> Failure("authentication_failed", FALSE)
    [] r.status = 429 -> Failure("rate_limited", TRUE)
    [] HasNotFoundCode(r) -> Failure("model_not_found", FALSE)
    [] r.status \in {400, 404, 413} /\ ~HasNotFoundCode(r) -> Failure("request_rejected", FALSE)
    [] r.status = 408 -> Failure("timeout", TRUE)
    [] r.status \in {418, 500, 503} -> Failure("unavailable", TRUE)

\* _read_json_bounded, and what a broken encoding does to the read before it: the body is
\* read for 200 and for 404 only.
Unreadable(r) == r.body \in {"not_json", "large"}
Raises(r) == r.status \in {200, 404} /\ r.body = "undecodable"

\* _extract_output_text
Generated(r) ==
  CASE r.body = "text" -> [kind |-> "text"]
    [] r.body = "surrogate" -> RawError
    [] OTHER -> Failure("invalid_response", FALSE)

\* The models payload: the configured model among them, or others, or no list at all.
Examined(r) ==
  CASE r.body = "model" -> [kind |-> "healthy"]
    [] r.body = "models" -> Failure("model_not_found", FALSE)
    [] OTHER -> Failure("invalid_response", FALSE)

\* _retry_after: the seconds asked for, within the limit.
Asked(retry) == {IF s <= RetryAfterMax THEN s ELSE RetryAfterMax : s \in retry}

\* _retry_delay: without a header, a quarter of a second doubled with every attempt.
RetryDelay(count, retry) ==
  IF retry # {} THEN CHOOSE s \in Asked(retry) : TRUE
  ELSE IF 2 ^ (count - 1) <= RetryAfterMax THEN 2 ^ (count - 1) ELSE RetryAfterMax

-------------------------------------------------------------------------------
(* The client *)

NoAnswer == [status |-> 0, body |-> "none", retry |-> {}]
NoOutcome == [kind |-> "none"]

ClientInit ==
  /\ provider = "none" /\ operation = "none" /\ pending = FALSE /\ attempt = 0
  /\ last = NoAnswer /\ slept = 0 /\ outcome = NoOutcome

\* The settings admit a provider for which no factory is registered.
CreateProvider ==
  /\ provider = "none"
  /\ \/ provider' = "shineshop" /\ UNCHANGED outcome
     \/ outcome' = Failure("provider_not_configured", FALSE) /\ UNCHANGED provider
  /\ UNCHANGED <<operation, pending, attempt, last, slept>>

\* A request over the limits of the settings is never sent.
Generate ==
  /\ provider # "none" /\ ~pending
  /\ operation' = "generate" /\ last' = NoAnswer /\ slept' = 0
  /\ \/ pending' = TRUE /\ attempt' = 1 /\ outcome' = NoOutcome
     \/ UNCHANGED pending /\ attempt' = 0 /\ outcome' = Failure("request_rejected", FALSE)
  /\ UNCHANGED provider

HealthCheck ==
  /\ provider # "none" /\ ~pending
  /\ operation' = "health" /\ last' = NoAnswer /\ slept' = 0
  /\ pending' = TRUE /\ attempt' = 1 /\ outcome' = NoOutcome
  /\ UNCHANGED provider

Return(result) ==
  /\ pending' = FALSE /\ outcome' = result
  /\ UNCHANGED <<attempt, slept>>

SilenceError(r) == Failure(r.body, TRUE)

\* One POST, whatever becomes of it: nobody knows whether a text was generated.
Posted(r) ==
  /\ pending /\ operation = "generate" /\ last' = r
  /\ Return(IF r \in Silence THEN SilenceError(r)
            ELSE IF Raises(r) THEN RawError
            ELSE IF r.status # 200 THEN StatusError(r)
            ELSE IF Unreadable(r) THEN Failure("invalid_response", FALSE)
            ELSE Generated(r))
  /\ UNCHANGED <<provider, operation>>

Transient(r) == r \in Silence \/ r.status \in {429, 503}

\* Mutation: the loop gives up one attempt early.
OneAttemptLess == attempt + 1 >= HealthMaxAttempts

LastAttempt == attempt = HealthMaxAttempts

\* After a transient failure the last attempt gives the verdict; any other is slept off.
Got(r) ==
  /\ pending /\ operation = "health" /\ last' = r
  /\ \/ /\ ~Transient(r)
        /\ Return(IF Raises(r) THEN RawError
                  ELSE IF r.status # 200 THEN StatusError(r)
                  ELSE IF Unreadable(r) THEN Failure("invalid_response", FALSE)
                  ELSE Examined(r))
     \/ /\ Transient(r) /\ LastAttempt
        /\ Return(IF r \in Silence THEN SilenceError(r) ELSE StatusError(r))
     \/ /\ Transient(r) /\ ~LastAttempt
        /\ attempt' = attempt + 1 /\ slept' = slept + RetryDelay(attempt, r.retry)
        /\ UNCHANGED <<pending, outcome>>
  /\ UNCHANGED <<provider, operation>>

ClientNext ==
  \/ CreateProvider \/ Generate \/ HealthCheck
  \/ \E r \in Responses \cup Silence : Posted(r) \/ Got(r)

ClientSpec == ClientInit /\ [][ClientNext]_providerVars

-------------------------------------------------------------------------------
(* Properties *)

\* The verdict is that of the last answer: healthy only when that listed the model; and no
\* failure that another attempt might have cured is reported while one was left, nor
\* waited out longer than the settings allow, whatever pause the provider asks for.
VerdictIsEarned ==
  operation = "health" /\ ~pending =>
    /\ outcome.kind = "healthy" => last.status = 200 /\ last.body = "model"
    /\ outcome.kind = "error" /\ Transient(last) => attempt = HealthMaxAttempts
    /\ slept <= (attempt - 1) * RetryAfterMax

\* What the port promises of a health check: no raw error of a library (port.py).
HealthIsNormalized == outcome.kind = "raw" => operation # "health"

===============================================================================
