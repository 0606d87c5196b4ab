------------------------- MODULE WorkerCallsProofs -------------------------
(***************************************************************************)
(* Proofs about WorkerCalls, for every number of retries, waits and        *)
(* response formats, and whatever the provider answers.                    *)
(*                                                                         *)
(* The bound on requests is not inductive alone: Reached says how many     *)
(* requests the place the turn has reached accounts for, and each answer   *)
(* moves the turn at least one request further.                            *)
(***************************************************************************)
EXTENDS WorkerCalls, TLAPS

(* The requests of the calls, attempts, formats and waits that are over. *)
CallsOver == IF stage = "work" THEN 0 ELSE PerCall
FormatsOver == (format - 1) * (RateLimitRetries + 1)
Reached == CallsOver + attempt * PerAttempt + FormatsOver + waits

(* While calling, no request is unaccounted for, a streak of rate limits is *)
(* no longer than the waits of the format, and the messages are as few as   *)
(* the attempt allows; how the turn ended is within the bounds too.         *)
IInv ==
  /\ TypeOK
  /\ Calling => requests <= Reached
  /\ Calling => limited <= waits
  /\ RequestsBounded
  /\ QuotaRespected
  /\ NothingAccumulates

(***************************************************************************)
(* Arithmetic                                                              *)
(***************************************************************************)

(* A product of naturals grows with its first factor. *)
LEMMA ProductGrows ==
  \A a, b, c \in Nat : a <= b => a * c \in Nat /\ a * c <= b * c
<1>1. SUFFICES ASSUME NEW a \in Nat, NEW b \in Nat, NEW c \in Nat, a <= b
               PROVE  a * c \in Nat /\ a * c <= b * c
  OBVIOUS
<1>2. PICK d \in Nat : b = a + d
  <2>1. b - a \in Nat /\ b = a + (b - a)
    BY <1>1
  <2> QED BY <2>1
<1>3. a * c \in Nat /\ d * c \in Nat /\ (a + d) * c = a * c + d * c
  OBVIOUS
<1> QED BY <1>2, <1>3

(* One more of a factor is one more of the other. *)
LEMMA ProductStep ==
  \A a, c \in Nat : (a + 1) * c = a * c + c
OBVIOUS

(* The sizes of an attempt and of a call. *)
LEMMA SizesAreNat == PerAttempt \in Nat /\ PerCall \in Nat /\ PerAttempt >= 1
<1>1. RateLimitRetries + 1 \in Nat /\ MaxRetries + 1 \in Nat /\ Formats \in Nat
  BY RetryAssumption, FormatAssumption
<1>2. PerAttempt \in Nat
  BY <1>1, ProductGrows DEF PerAttempt
<1>3. PerCall \in Nat
  BY <1>1, <1>2, ProductGrows DEF PerCall
<1>4. 1 * (RateLimitRetries + 1) <= PerAttempt
  BY <1>1, ProductGrows, FormatAssumption DEF PerAttempt
<1> QED BY <1>2, <1>3, <1>4, RetryAssumption


(***************************************************************************)
(* How far a turn may have come                                            *)
(***************************************************************************)

(* One more request still belongs to the format, to the attempt, to the     *)
(* call and to the turn under way.                                          *)
LEMMA Room ==
  ASSUME TypeOK
  PROVE  /\ CallsOver \in Nat /\ FormatsOver \in Nat
         /\ attempt * PerAttempt \in Nat
         /\ FormatsOver + waits + 1 <= format * (RateLimitRetries + 1)
         /\ FormatsOver + waits + 1 <= PerAttempt
         /\ attempt * PerAttempt + PerAttempt = (attempt + 1) * PerAttempt
         /\ (attempt + 1) * PerAttempt <= PerCall
         /\ Reached \in Nat /\ Reached + 1 <= 2 * PerCall
<1>1. /\ format \in Nat /\ format - 1 \in Nat /\ format <= Formats /\ Formats \in Nat
      /\ attempt \in Nat /\ attempt + 1 \in Nat /\ attempt + 1 <= MaxRetries + 1
      /\ MaxRetries + 1 \in Nat
      /\ waits \in Nat /\ waits + 1 <= RateLimitRetries + 1
      /\ RateLimitRetries + 1 \in Nat
  BY RetryAssumption, FormatAssumption DEF TypeOK
<1>2. PerAttempt \in Nat /\ PerCall \in Nat
  BY SizesAreNat
<1>3. CallsOver \in Nat /\ CallsOver <= PerCall
  BY <1>2 DEF CallsOver
<1>4. FormatsOver \in Nat /\ format * (RateLimitRetries + 1) \in Nat
  BY <1>1, ProductGrows DEF FormatsOver
<1>5. format * (RateLimitRetries + 1) = FormatsOver + (RateLimitRetries + 1)
  <2>1. (format - 1) + 1 = format
    BY <1>1
  <2> QED BY <1>1, <2>1, ProductStep DEF FormatsOver
<1>6. format * (RateLimitRetries + 1) <= PerAttempt
  BY <1>1, ProductGrows DEF PerAttempt
<1>7. FormatsOver + waits + 1 <= format * (RateLimitRetries + 1)
  BY <1>1, <1>4, <1>5
<1>8. FormatsOver + waits + 1 <= PerAttempt
  BY <1>1, <1>2, <1>4, <1>6, <1>7
<1>9. attempt * PerAttempt \in Nat /\ (attempt + 1) * PerAttempt \in Nat
  BY <1>1, <1>2, ProductGrows
<1>10. attempt * PerAttempt + PerAttempt = (attempt + 1) * PerAttempt
  BY <1>1, <1>2, ProductStep
<1>11. (attempt + 1) * PerAttempt <= PerCall
  BY <1>1, <1>2, ProductGrows DEF PerCall
<1>12. Reached \in Nat
  BY <1>1, <1>3, <1>4, <1>9 DEF Reached
<1>13. Reached + 1 <= CallsOver + PerCall
  BY <1>1, <1>2, <1>3, <1>4, <1>8, <1>9, <1>10, <1>11 DEF Reached
<1>14. Reached + 1 <= 2 * PerCall
  BY <1>2, <1>3, <1>12, <1>13
<1> QED BY <1>3, <1>4, <1>7, <1>8, <1>9, <1>10, <1>11, <1>12, <1>14

(***************************************************************************)
(* The inductive invariant                                                 *)
(***************************************************************************)
LEMMA InvInit == Init => IInv
<1> SUFFICES ASSUME Init PROVE IInv
  OBVIOUS
<1>1. TypeOK
  BY RetryAssumption, FormatAssumption DEF Init, TypeOK
<1>2. Reached \in Nat
  BY <1>1, Room
<1>3. Calling /\ requests = 0 /\ limited = 0 /\ waits = 0 /\ users = 1 /\ attempt = 0
  BY DEF Init, Calling
<1>4. RequestsBounded
  BY <1>3, SizesAreNat DEF RequestsBounded
<1>5. QuotaRespected /\ NothingAccumulates
  BY <1>3, RetryAssumption DEF QuotaRespected, NothingAccumulates
<1> QED BY <1>1, <1>2, <1>3, <1>4, <1>5 DEF IInv

(* An answer is one request more, for which there is room. *)
LEMMA OneMore ==
  ASSUME IInv, Calling, requests' = requests + 1
  PROVE  /\ requests' \in Nat
         /\ requests' <= Reached + 1
         /\ RequestsBounded'
<1>1. TypeOK /\ requests \in Nat /\ requests <= Reached
  BY DEF IInv, TypeOK
<1>2. Reached \in Nat /\ Reached + 1 <= 2 * PerCall
  BY <1>1, Room
<1>3. requests' \in Nat /\ requests' <= Reached + 1
  BY <1>1, <1>2
<1>4. PerCall' = PerCall /\ PerCall \in Nat
  BY SizesAreNat DEF PerCall, PerAttempt
<1>5. RequestsBounded'
  BY <1>2, <1>3, <1>4 DEF RequestsBounded
<1> QED BY <1>3, <1>5

(* A turn that gives up needs no account of its place. *)
LEMMA GiveUpKeeps ==
  ASSUME IInv, GiveUp, requests' \in Nat, RequestsBounded', limited' \in Nat,
         limited' <= RateLimitRetries + 1, UNCHANGED gateway
  PROVE  IInv'
<1>1. TypeOK'
  BY DEF IInv, TypeOK, GiveUp
<1>2. ~Calling'
  BY DEF GiveUp, Calling
<1>3. QuotaRespected' /\ NothingAccumulates'
  BY <1>2 DEF QuotaRespected, NothingAccumulates
<1> QED BY <1>1, <1>2, <1>3 DEF IInv

(* A looser format accounts for all requests of the one before. *)
LEMMA SettleKeeps ==
  ASSUME IInv, Answered, SettleForLess
  PROVE  IInv'
<1>1. /\ Calling /\ requests' = requests + 1 /\ limited' = 0 /\ gateway' = gateway
      /\ TypeOK
  BY DEF Answered, IInv
<1>2. requests' \in Nat /\ requests' <= Reached + 1 /\ RequestsBounded'
  BY <1>1, OneMore
<1>3. CASE ~(format < Formats)
  <2>1. GiveUp
    BY <1>3 DEF SettleForLess
  <2>2. limited' \in Nat /\ limited' <= RateLimitRetries + 1
    BY <1>1, RetryAssumption
  <2> QED BY <1>1, <1>2, <2>1, <2>2, GiveUpKeeps
<1>4. CASE format < Formats
  <2>1. format' = format + 1 /\ waits' = 0 /\ UNCHANGED <<stage, attempt, users>>
    BY <1>4 DEF SettleForLess
  <2>2. TypeOK'
    BY <1>1, <1>2, <1>4, <2>1, FormatAssumption, RetryAssumption DEF TypeOK
  <2>3. FormatsOver' = format * (RateLimitRetries + 1)
    <3>1. format \in Nat /\ format' - 1 = format
      BY <1>1, <2>1, FormatAssumption DEF TypeOK
    <3> QED BY <3>1 DEF FormatsOver
  <2>4. CallsOver' = CallsOver /\ (attempt * PerAttempt)' = attempt * PerAttempt
    BY <2>1 DEF CallsOver, PerCall, PerAttempt
  <2>5. Reached' = CallsOver + attempt * PerAttempt + format * (RateLimitRetries + 1)
    <3>1. format * (RateLimitRetries + 1) \in Nat
      BY <1>1, ProductGrows, RetryAssumption, FormatAssumption DEF TypeOK
    <3> QED BY <1>1, <2>1, <2>3, <2>4, <3>1, Room DEF Reached
  <2>6. Reached + 1 <= Reached'
    <3>1. format * (RateLimitRetries + 1) \in Nat /\ waits \in Nat
      BY <1>1, ProductGrows, RetryAssumption, FormatAssumption DEF TypeOK
    <3> QED BY <1>1, <2>5, <3>1, Room DEF Reached
  <2>7. Reached \in Nat /\ Reached' \in Nat
    BY <1>1, <2>5, ProductGrows, RetryAssumption, FormatAssumption, Room DEF TypeOK
  <2>8. requests' <= Reached'
    BY <1>2, <2>6, <2>7
  <2>9. limited' <= waits' /\ QuotaRespected'
    BY <1>1, <2>1, RetryAssumption DEF QuotaRespected
  <2>10. NothingAccumulates'
    BY <1>1, <2>1 DEF IInv, NothingAccumulates, Calling
  <2> QED BY <1>2, <2>2, <2>8, <2>9, <2>10 DEF IInv
<1> QED BY <1>3, <1>4

(* Another attempt accounts for all formats of the one before. *)
LEMMA RetryKeeps ==
  ASSUME IInv, Answered, Retry
  PROVE  IInv'
<1>1. /\ Calling /\ requests' = requests + 1 /\ limited' = 0 /\ gateway' = gateway
      /\ TypeOK
  BY DEF Answered, IInv
<1>2. requests' \in Nat /\ requests' <= Reached + 1 /\ RequestsBounded'
  BY <1>1, OneMore
<1>3. CASE ~(attempt < MaxRetries)
  <2>1. GiveUp
    BY <1>3 DEF Retry
  <2>2. limited' \in Nat /\ limited' <= RateLimitRetries + 1
    BY <1>1, RetryAssumption
  <2> QED BY <1>1, <1>2, <2>1, <2>2, GiveUpKeeps
<1>4. CASE attempt < MaxRetries
  <2>1. attempt' = attempt + 1 /\ users' = 2 /\ format' = 1 /\ waits' = 0 /\ UNCHANGED stage
    BY <1>4 DEF Retry, Restart, UsersAfterError
  <2>2. TypeOK'
    BY <1>1, <1>2, <1>4, <2>1, FormatAssumption, RetryAssumption DEF TypeOK
  <2>3. FormatsOver' = 0
    <3>1. format' - 1 = 0 /\ 0 * (RateLimitRetries + 1) = 0
      BY <2>1, RetryAssumption
    <3> QED BY <3>1 DEF FormatsOver
  <2>4. CallsOver' = CallsOver /\ (attempt * PerAttempt)' = (attempt + 1) * PerAttempt
    BY <2>1 DEF CallsOver, PerCall, PerAttempt
  <2>5. Reached' = CallsOver + (attempt * PerAttempt + PerAttempt)
    BY <1>1, <2>1, <2>3, <2>4, Room, SizesAreNat DEF Reached
  <2>6. Reached \in Nat /\ Reached' \in Nat /\ Reached + 1 <= Reached'
    <3>1. waits \in Nat
      BY <1>1, RetryAssumption DEF TypeOK
    <3> QED BY <1>1, <2>5, <3>1, Room, SizesAreNat DEF Reached
  <2>7. requests' <= Reached'
    BY <1>2, <2>6
  <2>8. limited' <= waits' /\ QuotaRespected'
    BY <1>1, <2>1, RetryAssumption DEF QuotaRespected
  <2>9. NothingAccumulates'
    <3>1. attempt' # 0
      BY <1>1, <2>1, RetryAssumption DEF TypeOK
    <3> QED BY <2>1, <3>1 DEF NothingAccumulates
  <2> QED BY <1>2, <2>2, <2>7, <2>8, <2>9 DEF IInv
<1> QED BY <1>3, <1>4

(* A rate limit is waited out, or ends the turn as the longest streak. *)
LEMMA RateLimitedKeeps ==
  ASSUME IInv, RateLimited
  PROVE  IInv'
<1>1. /\ Calling /\ requests' = requests + 1 /\ limited' = limited + 1
      /\ gateway' = gateway /\ TypeOK /\ limited <= waits
  BY DEF RateLimited, IInv
<1>2. requests' \in Nat /\ requests' <= Reached + 1 /\ RequestsBounded'
  BY <1>1, OneMore
<1>3. /\ limited' \in Nat /\ limited' <= waits + 1 /\ limited' <= RateLimitRetries + 1
      /\ waits \in Nat
  BY <1>1, RetryAssumption DEF TypeOK
<1>4. CASE ~(waits < RateLimitRetries)
  <2>1. GiveUp
    BY <1>4 DEF RateLimited, OutOfQuota
  <2> QED BY <1>1, <1>2, <1>3, <2>1, GiveUpKeeps
<1>5. CASE waits < RateLimitRetries
  <2>1. waits' = waits + 1 /\ UNCHANGED <<stage, attempt, format, users>>
    BY <1>5 DEF RateLimited
  <2>2. TypeOK'
    BY <1>1, <1>2, <1>3, <1>5, <2>1, RetryAssumption DEF TypeOK
  <2>3. CallsOver' = CallsOver /\ FormatsOver' = FormatsOver
        /\ (attempt * PerAttempt)' = attempt * PerAttempt
    BY <2>1 DEF CallsOver, FormatsOver, PerCall, PerAttempt
  <2>4. Reached' = Reached + 1
    BY <1>1, <1>3, <2>1, <2>3, Room DEF Reached
  <2>5. requests' <= Reached' /\ limited' <= waits'
    BY <1>2, <1>3, <2>1, <2>4
  <2>6. QuotaRespected' /\ NothingAccumulates'
    BY <1>1, <1>3, <2>1 DEF IInv, QuotaRespected, NothingAccumulates, Calling
  <2> QED BY <1>2, <2>2, <2>5, <2>6 DEF IInv
<1> QED BY <1>4, <1>5

(* The handoff call starts where the work call's requests are all accounted *)
(* for; a turn that is done needs no account.                               *)
LEMMA UsableKeeps ==
  ASSUME IInv, Usable
  PROVE  IInv'
<1>1. /\ Calling /\ requests' = requests + 1 /\ limited' = 0 /\ gateway' = gateway
      /\ TypeOK
  BY DEF Usable, Answered, IInv
<1>2. requests' \in Nat /\ requests' <= Reached + 1 /\ RequestsBounded'
  BY <1>1, OneMore
<1>3. QuotaRespected'
  BY <1>1, RetryAssumption DEF QuotaRespected
<1>4. CASE stage # "work"
  <2>1. stage' = "done" /\ UNCHANGED <<attempt, format, waits, users>>
    BY <1>4 DEF Usable
  <2>2. TypeOK' /\ ~Calling' /\ NothingAccumulates'
    BY <1>1, <1>2, <2>1 DEF TypeOK, Calling, NothingAccumulates
  <2> QED BY <1>2, <1>3, <2>2 DEF IInv
<1>5. CASE stage = "work"
  <2>1. stage' = "report" /\ attempt' = 0 /\ users' = 1 /\ format' = 1 /\ waits' = 0
    BY <1>5 DEF Usable, Restart
  <2>2. TypeOK' /\ NothingAccumulates'
    BY <1>1, <1>2, <2>1, FormatAssumption, RetryAssumption DEF TypeOK, NothingAccumulates
  <2>3. Reached + 1 <= PerCall
    <3>1. CallsOver = 0 /\ waits \in Nat
      BY <1>1, <1>5, RetryAssumption DEF CallsOver, TypeOK
    <3> QED BY <1>1, <3>1, Room, SizesAreNat DEF Reached
  <2>4. Reached' = PerCall
    <3>1. FormatsOver' = 0 /\ (attempt * PerAttempt)' = 0
      <4>1. format' - 1 = 0 /\ 0 * (RateLimitRetries + 1) = 0 /\ 0 * PerAttempt = 0
        BY <2>1, RetryAssumption, SizesAreNat
      <4> QED BY <2>1, <4>1 DEF FormatsOver, PerAttempt
    <3>2. CallsOver' = PerCall
      BY <2>1 DEF CallsOver, PerCall, PerAttempt
    <3> QED BY <2>1, <3>1, <3>2, SizesAreNat DEF Reached
  <2>5. requests' <= Reached' /\ limited' <= waits'
    BY <1>1, <1>2, <2>1, <2>3, <2>4, Room, SizesAreNat
  <2> QED BY <1>2, <1>3, <2>2, <2>5 DEF IInv
<1> QED BY <1>4, <1>5

LEMMA InvStep == IInv /\ [Next]_vars => IInv'
<1> SUFFICES ASSUME IInv, [Next]_vars PROVE IInv'
  OBVIOUS
<1>1. CASE Unresolved
  <2>1. GiveUp /\ UNCHANGED <<gateway, requests, limited>>
    BY <1>1 DEF Unresolved
  <2>2. requests' \in Nat /\ limited' \in Nat /\ limited' <= RateLimitRetries + 1
    BY <2>1 DEF IInv, TypeOK, QuotaRespected
  <2>3. RequestsBounded'
    BY <2>1 DEF IInv, RequestsBounded, PerCall, PerAttempt
  <2> QED BY <2>1, <2>2, <2>3, GiveUpKeeps
<1>2. CASE RateLimited
  BY <1>2, RateLimitedKeeps
<1>3. CASE Refused
  BY <1>3, SettleKeeps DEF Refused
<1>4. CASE Broken
  BY <1>4, SettleKeeps, RetryKeeps DEF Broken
<1>5. CASE Hollow
  <2>1. CASE gateway # "http"
    BY <1>5, <2>1, RetryKeeps DEF Hollow
  <2>2. CASE gateway = "http"
    <3>1. Answered /\ GiveUp
      BY <1>5, <2>2 DEF Hollow
    <3>2. /\ Calling /\ requests' = requests + 1 /\ limited' = 0 /\ UNCHANGED gateway
      BY <3>1 DEF Answered
    <3>3. limited' \in Nat /\ limited' <= RateLimitRetries + 1
      BY <3>2, RetryAssumption
    <3> QED BY <3>1, <3>2, <3>3, OneMore, GiveUpKeeps
  <2> QED BY <2>1, <2>2
<1>6. CASE Unusable
  BY <1>6, RetryKeeps DEF Unusable
<1>7. CASE Usable
  BY <1>7, UsableKeeps
<1>8. CASE UNCHANGED vars
  BY <1>8 DEF vars, IInv, TypeOK, Calling, Reached, CallsOver, FormatsOver, PerCall,
              PerAttempt, RequestsBounded, QuotaRespected, NothingAccumulates
<1> QED BY <1>1, <1>2, <1>3, <1>4, <1>5, <1>6, <1>7, <1>8 DEF Next

(***************************************************************************)
(* Theorems                                                                *)
(***************************************************************************)

(* The inductive invariant holds throughout a turn. *)
THEOREM Invariance == Spec => []IInv
<1> QED BY InvInit, InvStep, PTL DEF Spec

(* Every variable keeps its type, whatever the provider answers. *)
THEOREM TypeCorrect == Spec => []TypeOK
<1>1. IInv => TypeOK
  BY DEF IInv
<1> QED BY <1>1, Invariance, PTL

(* A turn sends no more requests than calls, attempts, formats and waits    *)
(* multiply to (_call_validated over complete over rate limit retries).     *)
THEOREM RequestsAreBounded == Spec => []RequestsBounded
<1>1. IInv => RequestsBounded
  BY DEF IInv
<1> QED BY <1>1, Invariance, PTL

(* No streak of rate limits outlasts the waits of one format: a quota that  *)
(* is exhausted stops the formats, the attempts and the turn.               *)
THEOREM QuotaIsRespected == Spec => []QuotaRespected
<1>1. IInv => QuotaRespected
  BY DEF IInv
<1> QED BY <1>1, Invariance, PTL

(* A conversation never holds more than the prompt and the last error. *)
THEOREM NothingBuildsUp == Spec => []NothingAccumulates
<1>1. IInv => NothingAccumulates
  BY DEF IInv
<1> QED BY <1>1, Invariance, PTL
=============================================================================
