---------------------------- MODULE WorkerCalls ----------------------------
(***************************************************************************)
(* One turn of UniversalWorker (core/worker.py) over a gateway: a work     *)
(* call and a handoff call, each of which is                               *)
(*                                                                         *)
(*   - up to MaxRetries + 1 attempts, the later ones with the error of the *)
(*     one before, until the answer parses and validates (_call_validated);*)
(*   - an attempt is one complete() of the gateway, which goes through     *)
(*     response formats, the strictest first, while the provider refuses;  *)
(*   - a format is requested up to RateLimitRetries + 1 times while the    *)
(*     provider reports a rate limit.                                      *)
(*                                                                         *)
(* Both gateways are here: HTTPGateway (gateway/http_gateway.py) and       *)
(* LiteLLMGateway (gateway/llm_gateway.py); they differ in what they make  *)
(* of a broken connection and of an answer without choices.  The provider  *)
(* is an outsider that answers a request in any way it likes.              *)
(***************************************************************************)
EXTENDS Naturals

CONSTANTS
  MaxRetries,         \* WorkerConfig.max_retries
  RateLimitRetries,   \* rate_limit_retries of the gateway
  Formats             \* how many response formats there are to try

(* Three formats, or one for a vendor that takes none (_anthropic). *)
ASSUME RetryAssumption == MaxRetries \in Nat /\ RateLimitRetries \in Nat
ASSUME FormatAssumption == Formats \in Nat \ {0}

Gateways == {"http", "litellm"}

VARIABLES
  gateway,    \* which one the engine was built with
  stage,      \* the call under way: work, report; or how the turn ended
  attempt,    \* of _call_validated
  format,     \* of complete()
  waits,      \* rate limits waited out for this format
  users,      \* user messages in the conversation sent
  requests,   \* requests sent in the turn
  limited     \* rate limits reported since the last other answer

vars == <<gateway, stage, attempt, format, waits, users, requests, limited>>

Calling == stage \in {"work", "report"}

Init ==
  /\ gateway \in Gateways
  /\ stage = "work"
  /\ attempt = 0
  /\ format = 1
  /\ waits = 0
  /\ users = 1
  /\ requests = 0
  /\ limited = 0

(* A request is sent and answered, with a rate limit or otherwise. *)
Answered ==
  /\ Calling
  /\ requests' = requests + 1
  /\ limited' = 0
  /\ UNCHANGED gateway

(***************************************************************************)
(* What may follow an answer                                               *)
(***************************************************************************)

(* GatewayError: the worker does not retry it, the turn has failed. *)
GiveUp ==
  /\ stage' = "failed"
  /\ UNCHANGED <<attempt, format, waits, users>>

(* complete() is called afresh, from the strictest format. *)
Restart == format' = 1 /\ waits' = 0

(* The next format, or none is left and complete() raises. *)
SettleForLess ==
  IF format < Formats
  THEN /\ format' = format + 1
       /\ waits' = 0
       /\ UNCHANGED <<stage, attempt, users>>
  ELSE GiveUp

(* Deviation: the error is appended to the messages of the last attempt. *)
UsersAfterErrorGrowing == users + 1

(* The original messages and one with the error. *)
UsersAfterError == 2

(* Deviation: one attempt too many. *)
RetryOnceMore ==
  IF attempt <= MaxRetries
  THEN /\ attempt' = attempt + 1
       /\ users' = UsersAfterError
       /\ Restart
       /\ UNCHANGED stage
  ELSE GiveUp

(* The answer, or what came instead of one, could not be used. *)
Retry ==
  IF attempt < MaxRetries
  THEN /\ attempt' = attempt + 1
       /\ users' = UsersAfterError
       /\ Restart
       /\ UNCHANGED stage
  ELSE GiveUp

(***************************************************************************)
(* The provider's answers                                                  *)
(***************************************************************************)

(* Before any request: no key or no vendor can be resolved, or litellm is  *)
(* not installed.                                                           *)
Unresolved ==
  /\ Calling
  /\ requests = 0
  /\ GiveUp
  /\ UNCHANGED <<gateway, requests, limited>>

(* Deviation: a quota that outlasts its retries is taken as a refusal. *)
OutOfQuotaSettles == SettleForLess

(* A quota that outlasts its retries ends complete(), whatever formats are  *)
(* left: asking in another format cannot fix it.                            *)
OutOfQuota == GiveUp

RateLimited ==
  /\ Calling
  /\ requests' = requests + 1
  /\ limited' = limited + 1
  /\ UNCHANGED gateway
  /\ IF waits < RateLimitRetries
     THEN waits' = waits + 1 /\ UNCHANGED <<stage, attempt, format, users>>
     ELSE OutOfQuota

(* An HTTP error, an unreachable host, a body that is not JSON. *)
Refused == Answered /\ SettleForLess

(* The connection breaks or times out while the answer is read: HTTPGateway *)
(* lets the exception through, LiteLLMGateway takes it as a refusal.        *)
Broken ==
  /\ Answered
  /\ IF gateway = "http" THEN Retry ELSE SettleForLess

(* An answer without choices: HTTPGateway raises GatewayError past the      *)
(* formats that are left, LiteLLMGateway an IndexError past them.           *)
Hollow ==
  /\ Answered
  /\ IF gateway = "http" THEN GiveUp ELSE Retry

(* No JSON object in the text, or one that does not validate. *)
Unusable == Answered /\ Retry

(* A valid result starts the handoff call from scratch; a valid report ends *)
(* the turn.                                                                *)
Usable ==
  /\ Answered
  /\ IF stage = "work"
     THEN stage' = "report" /\ attempt' = 0 /\ users' = 1 /\ Restart
     ELSE stage' = "done" /\ UNCHANGED <<attempt, format, waits, users>>

Next ==
  \/ Unresolved
  \/ RateLimited
  \/ Refused
  \/ Broken
  \/ Hollow
  \/ Unusable
  \/ Usable

Spec == Init /\ [][Next]_vars

(***************************************************************************)
(* Properties                                                              *)
(***************************************************************************)

(* Every variable has its type. *)
TypeOK ==
  /\ gateway \in Gateways
  /\ stage \in {"work", "report", "done", "failed"}
  /\ attempt \in 0..MaxRetries
  /\ format \in 1..Formats
  /\ waits \in 0..RateLimitRetries
  /\ users \in 1..2
  /\ requests \in Nat
  /\ limited \in Nat

(* The nested retries multiply and nothing else adds to them: a turn sends  *)
(* no more requests than calls, attempts, formats and waits allow, whatever *)
(* the provider answers and in which order.                                 *)
PerAttempt == Formats * (RateLimitRetries + 1)
PerCall == (MaxRetries + 1) * PerAttempt
RequestsBounded == requests <= 2 * PerCall

(* An exhausted quota is not hammered: the provider never reports more rate *)
(* limits in a row than one format of one attempt waits out.                *)
QuotaRespected == limited <= RateLimitRetries + 1

(* No conversation builds up: a call begins with one user message, and a    *)
(* later attempt adds the last error and no older one.                      *)
NothingAccumulates == Calling => users = IF attempt = 0 THEN 1 ELSE 2
=============================================================================
