-------------------------- MODULE SubmissionProofs --------------------------
(***************************************************************************)
(* Proofs about Submission, for any callers, any capacity and refill rate,   *)
(* any limit of attempts and with or without a timeout.  The invariant says  *)
(* what a call knows of its earlier requests (AttemptsOK), that a request    *)
(* the exchange took has been replied to (TakenOK), which orders can still   *)
(* be cancelled (ActiveOK), and that a cancel only succeeds on an order that *)
(* is over (CancelOK).                                                     *)
(***************************************************************************)
EXTENDS Submission, TLAPS

\* What a request may be for its sender to send it again.
Unknown == {"retryable", "late", "unheard"}

\* Requests are sent one after the other, and the next one only when the last one is Unknown.
AttemptsOK(r) ==
  LET c == r[1] IN
  /\ r[2] > attempt[c] => reply[r] = "none"
  /\ r[2] < attempt[c] => reply[r] \in Unknown
  /\ r[2] = attempt[c] /\ pc[c] \in {"polling", "delay"} => reply[r] \in Unknown

\* How many requests a call has sent where it is: there is one left when it sends the next.
CountOK ==
  \A c \in Calls : /\ pc[c] = "new" => attempt[c] = 0
                   /\ pc[c] = "sent" => attempt[c] # 0
                   /\ pc[c] \in {"new", "polling", "delay"} => attempt[c] < Tries

TakenOK(r) == venue[r] # "none" => reply[r] \notin {"none", "travelling", "late"}

\* An order that is live was reported as such, or not at all.
ActiveOK(r) ==
  venue[r] = "live" =>
    /\ reply[r] \in {"open", "partially_filled", "heard", "unheard"} \cup Error
    /\ reply[r] = "heard" => r \in activeOrders

CancelOK(r) == cancelCall[r] = "ok" => venue[r] = "over"

IInv ==
  /\ TypeOK /\ CountOK
  /\ \A r \in Requests : AttemptsOK(r) /\ TakenOK(r) /\ ActiveOK(r) /\ CancelOK(r)

-----------------------------------------------------------------------------
(* The limiter.                                                            *)

\* What the limiter can do in one step.
LimiterStep ==
  \/ ClockStep
  \/ \E c \in Calls : \/ acquire(c) \/ beginsToWait(c)
                      \/ pollAcquires(c) \/ pollMisses(c) \/ pollTimesOut(c)

\* A submission moves the limiter only by the limiter's own steps.
LEMMA MovesLimiter ==
  ASSUME [Next]_vars
  PROVE  LimiterStep \/ UNCHANGED limiterVars
<1>1. CASE Time
  BY <1>1 DEF Time, LimiterStep
<1>2. ASSUME NEW c \in Calls, submit(c) PROVE LimiterStep
  BY <1>2 DEF submit, LimiterStep
<1>3. ASSUME NEW c \in Calls, poll(c) PROVE LimiterStep
  BY <1>3 DEF poll, LimiterStep
<1>4. ASSUME NEW c \in Calls, returns(c) \/ withTimeout(c) PROVE UNCHANGED limiterVars
  BY <1>4 DEF returns, withTimeout, retries
<1>5. ASSUME NEW r \in Requests,
             \/ cancel(r) \/ cancelReturns(r) \/ cancelTimesOut(r)
             \/ VenueTakes(r) \/ VenueRefuses(r) \/ VenueEnds(r) \/ VenueCancels(r)
      PROVE  UNCHANGED limiterVars
  BY <1>5 DEF cancel, cancelReturns, cancelTimesOut,
              VenueTakes, VenueRefuses, VenueEnds, VenueCancels
<1>6. CASE UNCHANGED vars
  BY <1>6 DEF vars
<1>7. QED
  BY <1>1, <1>2, <1>3, <1>4, <1>5, <1>6 DEF Next

LEMMA FullType == Full \in Nat /\ Bucket!Full = Full
<1>1. \A m, n \in Nat : m * n \in Nat
  OBVIOUS
<1>2. QED
  BY <1>1, LimiterAssumption DEF Full, Bucket!Full

\* A refill never overfills the bucket.
LEMMA RefilledType ==
  ASSUME LimiterTypeOK
  PROVE  refilled \in 0..Full
<1>1. \A m, n \in Nat : m * n \in Nat
  OBVIOUS
<1>2. sinceRefill * RefillParts \in Nat
  BY <1>1, LimiterAssumption DEF LimiterTypeOK
<1>3. QED
  BY <1>2, FullType DEF LimiterTypeOK, refilled

\* What is gained in one more step of the clock.
LEMMA OneMoreStep ==
  ASSUME LimiterTypeOK
  PROVE  (sinceRefill + 1) * RefillParts = sinceRefill * RefillParts + RefillParts
<1>1. \A m, n \in Nat : (m + 1) * n = m * n + n
  OBVIOUS
<1>2. QED
  BY <1>1, LimiterAssumption DEF LimiterTypeOK

\* The type of the limiter is kept by its steps.
LEMMA LimiterType ==
  ASSUME LimiterTypeOK, LimiterStep \/ UNCHANGED limiterVars
  PROVE  LimiterTypeOK'
<1> USE LimiterAssumption, FullType, RefilledType
<1>1. CASE ClockStep
  BY <1>1 DEF ClockStep, LimiterTypeOK
<1>2. ASSUME NEW c \in Calls, acquire(c) \/ beginsToWait(c) \/ pollMisses(c) PROVE LimiterTypeOK'
  BY <1>2 DEF acquire, beginsToWait, pollMisses, take, miss, LimiterTypeOK
<1>3. ASSUME NEW c \in Calls, pollAcquires(c) \/ pollTimesOut(c) PROVE LimiterTypeOK'
  BY <1>3 DEF pollAcquires, pollTimesOut, take, miss, Stops, LimiterTypeOK
<1>4. CASE UNCHANGED limiterVars
  BY <1>4 DEF limiterVars, LimiterTypeOK
<1>5. QED
  BY <1>1, <1>2, <1>3, <1>4 DEF LimiterStep

\* A refill leaves the bucket as it is: what is not yet refilled is only counted differently.
LEMMA LimiterSimulates ==
  ASSUME LimiterTypeOK, LimiterStep \/ UNCHANGED limiterVars
  PROVE  [Bucket!Next]_refilled
<1> USE FullType, RefilledType
<1>1. \A n \in Nat : 0 * n = 0
  OBVIOUS
<1>2. 0 * RefillParts = 0
  BY <1>1, LimiterAssumption
<1>3. ASSUME take PROVE Bucket!Take
  <2>1. refilled' = tokens'
    BY <1>2, <1>3, LimiterAssumption DEF take, refilled
  <2>2. QED
    BY <1>3, <2>1 DEF take, Bucket!Take
<1>4. ASSUME miss PROVE refilled' = refilled
  BY <1>2, <1>4, LimiterAssumption DEF miss, refilled
<1>5. CASE ClockStep
  <2>1. tokens' = tokens /\ sinceRefill \in Nat /\ tokens \in Nat
    BY <1>5 DEF ClockStep, LimiterTypeOK
  <2>2. CASE refilled = Full \/ RefillParts = 0
    BY <1>5, <2>1, <2>2 DEF ClockStep, refilled
  <2>3. CASE ~(refilled = Full \/ RefillParts = 0)
    <3>1. sinceRefill' = sinceRefill + 1
      BY <1>5, <2>3 DEF ClockStep
    <3>2. \A m, n \in Nat : m * n \in Nat
      OBVIOUS
    <3>3. sinceRefill * RefillParts \in Nat
      BY <2>1, <3>2, LimiterAssumption
    <3>4. refilled = tokens + sinceRefill * RefillParts
      BY <2>3 DEF refilled
    <3>5. sinceRefill' * RefillParts = sinceRefill * RefillParts + RefillParts
      BY <3>1, OneMoreStep
    <3>6. refilled' = IF refilled + RefillParts > Full THEN Full ELSE refilled + RefillParts
      BY <2>1, <3>3, <3>4, <3>5, LimiterAssumption DEF refilled
    <3>7. QED
      BY <3>6 DEF Bucket!Refill, Bucket!Next
  <2>4. QED
    BY <2>2, <2>3
<1>6. ASSUME NEW c \in Calls,
             \/ acquire(c) \/ beginsToWait(c)
             \/ pollAcquires(c) \/ pollMisses(c) \/ pollTimesOut(c)
      PROVE  take \/ miss
  BY <1>6 DEF acquire, beginsToWait, pollAcquires, pollMisses, pollTimesOut
<1>7. CASE UNCHANGED limiterVars
  BY <1>7 DEF limiterVars, refilled
<1>8. QED
  BY <1>3, <1>4, <1>5, <1>6, <1>7 DEF LimiterStep, Bucket!Next

\* However many callers share the limiter, however they poll and whatever else they do, it
\* gives out its tokens as a bucket refilled with every step of the clock.
THEOREM SubmissionImplementsBucket == Spec => ImplementsBucket
<1>1. Init => LimiterTypeOK /\ Bucket!Init
  <2>1. \A n \in Nat : 0 * n = 0
    OBVIOUS
  <2>2. 0 * RefillParts = 0
    BY <2>1, LimiterAssumption
  <2>3. QED
    BY <2>2, FullType, LimiterAssumption
    DEF Init, LimiterInit, LimiterTypeOK, refilled, Bucket!Init
<1>2. LimiterTypeOK /\ [Next]_vars => LimiterTypeOK' /\ [Bucket!Next]_refilled
  BY MovesLimiter, LimiterType, LimiterSimulates
<1>3. QED
  BY <1>1, <1>2, PTL DEF Spec, ImplementsBucket, Bucket!Spec

-----------------------------------------------------------------------------
(* Requests.                                                               *)

LEMMA TriesType == Tries \in Nat \ {0} /\ MaxAttempts <= Tries
BY RetryAssumption DEF Tries

\* A request is a call and the number of one of its attempts.
LEMMA RequestParts ==
  ASSUME NEW r \in Requests
  PROVE  r[1] \in Calls /\ r[2] \in 1..Tries /\ r = <<r[1], r[2]>>
BY DEF Requests

LEMMA CurrentIsRequest ==
  ASSUME IInv, NEW c \in Calls, pc[c] = "sent"
  PROVE  Current(c) \in Requests /\ Current(c)[1] = c /\ Current(c)[2] = attempt[c]
BY TriesType DEF IInv, TypeOK, CountOK, Current, Requests

\* What a step does to the one request it is about leaves all others as they are.
ConcernsOnly(r) ==
  \A q \in Requests \ {r} :
    /\ reply'[q] = reply[q] /\ venue'[q] = venue[q] /\ cancelCall'[q] = cancelCall[q]
    /\ q \in activeOrders' <=> q \in activeOrders

\* The invariants of one request.
RequestOK(r) == AttemptsOK(r) /\ TakenOK(r) /\ ActiveOK(r) /\ CancelOK(r)

\* A step of the exchange or of a cancel keeps the calls as they are.
LEMMA CallsKept ==
  ASSUME IInv, NEW r \in Requests, UNCHANGED <<pc, attempt>>,
         ConcernsOnly(r), TypeOK', RequestOK(r)'
  PROVE  IInv'
<1>1. CountOK'
  BY DEF IInv, CountOK
<1>2. ASSUME NEW q \in Requests, q # r PROVE RequestOK(q)'
  <2>1. RequestOK(q)
    BY DEF IInv, RequestOK
  <2>2. /\ UNCHANGED <<pc, attempt, reply[q], venue[q], cancelCall[q]>>
        /\ q \in activeOrders' <=> q \in activeOrders
    BY <1>2 DEF ConcernsOnly
  <2>3. QED
    BY <2>1, <2>2 DEF RequestOK, AttemptsOK, TakenOK, ActiveOK, CancelOK
<1>3. QED
  BY <1>1, <1>2 DEF IInv, RequestOK

\* A step of call c about its request r leaves the other calls, and its own other requests,
\* as they are.
LEMMA OneCallMoves ==
  ASSUME IInv, NEW c \in Calls, NEW r \in Requests, r = <<c, attempt'[c]>>,
         \A d \in Calls \ {c} : pc'[d] = pc[d] /\ attempt'[d] = attempt[d],
         \/ attempt'[c] = attempt[c] /\ pc[c] = "sent"
         \/ attempt'[c] = attempt[c] + 1 /\ pc[c] \in {"new", "polling", "delay"},
         pc'[c] = "sent" => attempt'[c] # 0,
         pc'[c] # "new", pc'[c] \in {"polling", "delay"} => attempt'[c] < Tries,
         ConcernsOnly(r), TypeOK', RequestOK(r)'
  PROVE  IInv'
<1>1. CountOK'
  BY DEF IInv, CountOK
<1>2. ASSUME NEW q \in Requests, q # r PROVE RequestOK(q)'
  <2>1. RequestOK(q) /\ q[1] \in Calls /\ q[2] \in 1..Tries /\ q = <<q[1], q[2]>>
    BY RequestParts DEF IInv, RequestOK
  <2>2. /\ UNCHANGED <<reply[q], venue[q], cancelCall[q]>>
        /\ q \in activeOrders' <=> q \in activeOrders
    BY <1>2 DEF ConcernsOnly
  <2>3. AttemptsOK(q)'
    <3>1. CASE q[1] # c
      BY <2>1, <2>2, <3>1 DEF RequestOK, AttemptsOK
    <3>2. CASE q[1] = c
      <4>1. q[2] # attempt'[c] /\ attempt[c] \in 0..Tries /\ attempt'[c] \in 0..Tries
        BY <1>2, <2>1, <3>2 DEF IInv, TypeOK
      <4>2. pc[c] = "new" => attempt[c] = 0
        BY DEF IInv, CountOK
      <4>3. QED
        BY <2>1, <2>2, <3>2, <4>1, <4>2, TriesType DEF RequestOK, AttemptsOK
    <3>3. QED
      BY <3>1, <3>2
  <2>4. (TakenOK(q) /\ ActiveOK(q) /\ CancelOK(q))'
    BY <2>1, <2>2 DEF RequestOK, TakenOK, ActiveOK, CancelOK
  <2>5. QED
    BY <2>3, <2>4 DEF RequestOK
<1>3. QED
  BY <1>1, <1>2 DEF IInv, RequestOK

-----------------------------------------------------------------------------
(* The steps of a call.                                                    *)

LEMMA SendsOK ==
  ASSUME IInv, NEW c \in Calls, pc[c] \in {"new", "polling", "delay"}, Sends(c), LimiterTypeOK'
  PROVE  IInv'
<1>1. attempt[c] \in Nat /\ attempt[c] < Tries
  BY DEF IInv, TypeOK, CountOK
<1>2. PICK r \in Requests : r = <<c, attempt[c] + 1>>
  <2>1. attempt[c] + 1 \in 1..Tries
    BY <1>1, TriesType
  <2>2. <<c, attempt[c] + 1>> \in Requests
    BY <2>1 DEF Requests
  <2>3. QED
    BY <2>2
<1>3. TypeOK'
  <2>1. TypeOK /\ attempt[c] + 1 \in 0..Tries
    BY <1>1, TriesType DEF IInv
  <2>2. pc' \in [Calls -> {"new", "polling", "sent", "delay", "answered"}]
    BY <2>1 DEF TypeOK, Sends
  <2>3. attempt' \in [Calls -> 0..Tries]
    BY <2>1 DEF TypeOK, Sends
  <2>4. reply' \in [Requests -> FinalState \cup Error
                          \cup {"none", "travelling", "heard", "late", "unheard"}]
    BY <2>1 DEF TypeOK, Sends
  <2>5. QED
    BY <2>1, <2>2, <2>3, <2>4 DEF TypeOK, Sends
<1>4. /\ pc'[c] = "sent" /\ attempt'[c] = attempt[c] + 1 /\ reply'[r] = "travelling"
      /\ ConcernsOnly(r) /\ UNCHANGED <<venue, activeOrders, cancelCall>>
      /\ \A d \in Calls \ {c} : pc'[d] = pc[d] /\ attempt'[d] = attempt[d]
  BY <1>2 DEF IInv, TypeOK, Sends, ConcernsOnly
<1>5. reply[r] = "none" /\ venue[r] = "none" /\ cancelCall[r] # "ok"
  BY <1>1, <1>2 DEF IInv, AttemptsOK, TakenOK, CancelOK, TypeOK
<1>6. r[1] = c /\ r[2] = attempt[c] + 1 /\ r = <<c, attempt'[c]>>
  BY <1>2, <1>4
<1>7. AttemptsOK(r)'
  BY <1>1, <1>4, <1>6 DEF AttemptsOK
<1>8. TakenOK(r)' /\ ActiveOK(r)' /\ CancelOK(r)'
  BY <1>4, <1>5 DEF TakenOK, ActiveOK, CancelOK
<1>9. attempt'[c] # 0 /\ pc'[c] \notin {"new", "polling", "delay"}
  BY <1>1, <1>4
<1>10. QED
  BY <1>3, <1>4, <1>6, <1>7, <1>8, <1>9, OneCallMoves DEF RequestOK

\* What is left after a retryable error is another attempt or the answer.
LEMMA RetriesOK ==
  ASSUME IInv, NEW c \in Calls, pc[c] = "sent", retries(c), TypeOK',
         NEW r \in Requests, r = Current(c), ConcernsOnly(r), reply'[r] \in Unknown,
         venue[r] # "none" => reply'[r] # "late"
  PROVE  IInv'
<1>1. r[1] = c /\ r[2] = attempt[c]
  BY CurrentIsRequest
<1>2. UNCHANGED <<attempt, venue, activeOrders, cancelCall>>
  BY DEF retries, Answers
<1>3. /\ \/ pc'[c] = "delay" /\ attempt[c] < MaxAttempts
         \/ pc'[c] = "answered"
      /\ \A d \in Calls \ {c} : pc'[d] = pc[d]
  BY DEF IInv, TypeOK, retries, Answers
<1>4. /\ attempt[c] \in Nat /\ attempt[c] # 0
      /\ pc'[c] = "delay" => attempt[c] < Tries
  BY <1>3, TriesType, RetryAssumption DEF IInv, TypeOK, CountOK
<1>5. AttemptsOK(r) /\ TakenOK(r) /\ ActiveOK(r) /\ CancelOK(r)
  BY DEF IInv
<1>6. AttemptsOK(r)'
  BY <1>1, <1>2, <1>4 DEF AttemptsOK
<1>7. TakenOK(r)' /\ ActiveOK(r)' /\ CancelOK(r)'
  BY <1>2, <1>5 DEF TakenOK, ActiveOK, CancelOK, Unknown, Error
<1>8. QED
  BY <1>1, <1>2, <1>3, <1>4, <1>6, <1>7, OneCallMoves DEF Current, RequestOK

LEMMA submitOK ==
  ASSUME IInv, NEW c \in Calls, submit(c), LimiterTypeOK'
  PROVE  IInv'
<1>1. CASE acquire(c) /\ Sends(c)
  BY <1>1, SendsOK DEF submit
<1>2. CASE /\ pc' = [pc EXCEPT ![c] = "polling"]
           /\ UNCHANGED <<attempt, answer, reply, venue, activeOrders, cancelCall>>
  <2>1. TypeOK' /\ pc'[c] = "polling" /\ \A d \in Calls \ {c} : pc'[d] = pc[d]
    BY <1>2 DEF IInv, TypeOK
  <2>2. CountOK'
    BY <1>2, <2>1 DEF IInv, CountOK, submit
  <2>3. ASSUME NEW r \in Requests PROVE AttemptsOK(r)'
    <3>1. AttemptsOK(r) /\ r[1] \in Calls /\ r[2] \in 1..Tries
      BY RequestParts DEF IInv
    <3>2. CASE r[1] # c
      BY <1>2, <2>1, <3>1, <3>2 DEF AttemptsOK
    <3>3. CASE r[1] = c
      <4>1. CASE pc[c] = "delay"
        BY <1>2, <2>1, <3>1, <3>3, <4>1 DEF AttemptsOK
      <4>2. CASE pc[c] = "new"
        <5>1. attempt'[c] = 0 /\ attempt[c] = 0
          BY <1>2, <4>2 DEF IInv, CountOK
        <5>2. r[2] > attempt'[c] /\ r[2] # attempt'[c] /\ ~(r[2] < attempt'[c]) /\ r[2] > attempt[c]
          BY <3>1, <5>1, TriesType
        <5>3. QED
          BY <1>2, <3>1, <3>3, <5>2 DEF AttemptsOK
      <4>3. QED
        BY <4>1, <4>2 DEF submit
    <3>4. QED
      BY <3>2, <3>3
  <2>4. ASSUME NEW r \in Requests PROVE TakenOK(r)' /\ ActiveOK(r)' /\ CancelOK(r)'
    BY <1>2 DEF IInv, TakenOK, ActiveOK, CancelOK
  <2>5. QED
    BY <2>1, <2>2, <2>3, <2>4 DEF IInv
<1>3. QED
  BY <1>1, <1>2 DEF submit

LEMMA pollOK ==
  ASSUME IInv, NEW c \in Calls, poll(c), LimiterTypeOK'
  PROVE  IInv'
<1>1. CASE Sends(c)
  BY <1>1, SendsOK DEF poll
<1>2. CASE UNCHANGED submissionVars
  <2>1. TypeOK' /\ CountOK'
    BY <1>2 DEF submissionVars, IInv, TypeOK, CountOK
  <2>2. \A r \in Requests : AttemptsOK(r)' /\ TakenOK(r)' /\ ActiveOK(r)' /\ CancelOK(r)'
    BY <1>2 DEF submissionVars, IInv, AttemptsOK, TakenOK, ActiveOK, CancelOK
  <2>3. QED
    BY <2>1, <2>2 DEF IInv
<1>3. CASE Answers(c, "thrown") /\ UNCHANGED <<attempt, reply, venue, activeOrders, cancelCall>>
  <2>1. TypeOK' /\ pc'[c] = "answered" /\ \A d \in Calls \ {c} : pc'[d] = pc[d]
    BY <1>3 DEF IInv, TypeOK, Answers
  <2>2. CountOK'
    BY <1>3, <2>1 DEF IInv, CountOK
  <2>3. ASSUME NEW r \in Requests PROVE AttemptsOK(r)'
    <3>1. AttemptsOK(r) /\ r[1] \in Calls
      BY RequestParts DEF IInv
    <3>2. QED
      BY <1>3, <2>1, <3>1 DEF AttemptsOK
  <2>4. \A r \in Requests : TakenOK(r)' /\ ActiveOK(r)' /\ CancelOK(r)'
    BY <1>3 DEF IInv, TakenOK, ActiveOK, CancelOK
  <2>5. QED
    BY <2>1, <2>2, <2>3, <2>4 DEF IInv
<1>4. QED
  BY <1>1, <1>2, <1>3 DEF poll

\* The type of a handled reply.
LEMMA HandledType ==
  ASSUME TypeOK, NEW c \in Calls, UNCHANGED <<limiterVars, attempt, venue, cancelCall>>,
         reply' \in [Requests -> FinalState \cup Error
                       \cup {"none", "travelling", "heard", "late", "unheard"}],
         activeOrders' \in SUBSET Requests,
         \/ pc' = [pc EXCEPT ![c] = "delay"] /\ UNCHANGED answer
         \/ \E a \in {"order", "error"} : Answers(c, a)
  PROVE  TypeOK'
<1>1. /\ pc' \in [Calls -> {"new", "polling", "sent", "delay", "answered"}]
      /\ answer' \in [Calls -> {"none", "order", "error", "thrown"}]
  BY DEF TypeOK, Answers
<1>2. LimiterTypeOK'
  BY DEF TypeOK, LimiterTypeOK, limiterVars
<1>3. QED
  BY <1>1, <1>2 DEF TypeOK

LEMMA returnsOK ==
  ASSUME IInv, NEW c \in Calls, returns(c)
  PROVE  IInv'
<1>1. PICK r \in Requests : r = Current(c) /\ r[1] = c /\ r[2] = attempt[c]
  BY CurrentIsRequest DEF returns
<1>2. /\ pc[c] = "sent" /\ reply[r] \in FinalState \cup Error
      /\ reply' = [reply EXCEPT ![r] = IF @ \in Error THEN @ ELSE "heard"]
  BY <1>1 DEF returns
<1>3. /\ reply' \in [Requests -> FinalState \cup Error
                       \cup {"none", "travelling", "heard", "late", "unheard"}]
      /\ reply'[r] = IF reply[r] \in Error THEN reply[r] ELSE "heard"
      /\ \A q \in Requests \ {r} : reply'[q] = reply[q]
  BY <1>2 DEF IInv, TypeOK
<1>4. AttemptsOK(r) /\ TakenOK(r) /\ ActiveOK(r) /\ CancelOK(r)
  BY DEF IInv
<1>5. CASE reply[r] = "retryable" /\ retries(c)
  <2>1. ConcernsOnly(r) /\ reply'[r] = "retryable" /\ activeOrders' = activeOrders
    BY <1>3, <1>5 DEF ConcernsOnly, retries, Error
  <2>2. TypeOK'
    BY <1>3, <1>5, <2>1, HandledType DEF IInv, TypeOK, retries
  <2>3. QED
    BY <1>1, <1>2, <1>5, <2>1, <2>2, RetriesOK DEF Unknown
<1>6. CASE /\ reply[r] # "retryable"
           /\ Answers(c, IF reply[r] = "fatal" THEN "error" ELSE "order")
           /\ activeOrders' = activeOrders \cup
                (IF reply[r] \in {"open", "partially_filled"} THEN {r} ELSE {})
           /\ UNCHANGED <<limiterVars, attempt, venue, cancelCall>>
  <2>1. TypeOK'
    BY <1>3, <1>6, HandledType DEF IInv, TypeOK
  <2>2. pc'[c] = "answered" /\ \A d \in Calls \ {c} : pc'[d] = pc[d]
    BY <1>6 DEF IInv, TypeOK, Answers
  <2>3. ConcernsOnly(r)
    BY <1>3, <1>6 DEF ConcernsOnly
  <2>4. attempt[c] \in Nat /\ attempt[c] # 0
    BY <1>2 DEF IInv, TypeOK, CountOK
  <2>5. AttemptsOK(r)'
    BY <1>1, <1>6, <2>2, <2>4 DEF AttemptsOK
  <2>6. TakenOK(r)' /\ CancelOK(r)'
    BY <1>2, <1>3, <1>4, <1>6 DEF TakenOK, CancelOK, FinalState, Error
  <2>7. ActiveOK(r)'
    BY <1>2, <1>3, <1>4, <1>6 DEF ActiveOK, FinalState, Error
  <2>8. QED
    BY <1>1, <1>2, <1>6, <2>1, <2>2, <2>3, <2>4, <2>5, <2>6, <2>7, OneCallMoves
       DEF Current, RequestOK
<1>7. QED
  BY <1>1, <1>5, <1>6 DEF returns

LEMMA withTimeoutOK ==
  ASSUME IInv, NEW c \in Calls, withTimeout(c)
  PROVE  IInv'
<1>1. PICK r \in Requests : r = Current(c) /\ r[1] = c /\ r[2] = attempt[c]
  BY CurrentIsRequest DEF withTimeout
<1>2. /\ pc[c] = "sent" /\ retries(c)
      /\ reply' = [reply EXCEPT ![r] = IF @ = "travelling" THEN "late" ELSE "unheard"]
  BY <1>1 DEF withTimeout
<1>3. /\ reply' \in [Requests -> FinalState \cup Error
                       \cup {"none", "travelling", "heard", "late", "unheard"}]
      /\ reply'[r] = IF reply[r] = "travelling" THEN "late" ELSE "unheard"
      /\ \A q \in Requests \ {r} : reply'[q] = reply[q]
  BY <1>2 DEF IInv, TypeOK
<1>4. UNCHANGED <<limiterVars, attempt, venue, activeOrders, cancelCall>>
  BY <1>2 DEF retries
<1>5. TypeOK'
  BY <1>2, <1>3, <1>4, HandledType DEF IInv, TypeOK, retries
<1>6. ConcernsOnly(r)
  BY <1>3, <1>4 DEF ConcernsOnly
<1>7. venue[r] # "none" => reply'[r] # "late"
  BY <1>3 DEF IInv, TakenOK
<1>8. QED
  BY <1>1, <1>2, <1>3, <1>5, <1>6, <1>7, RetriesOK DEF Unknown

-----------------------------------------------------------------------------
(* The steps about one request.                                            *)

\* A cancel's progress is no concern of the calls.
LEMMA CancelStepOK ==
  ASSUME IInv, NEW r \in Requests, NEW s \in {"none", "sent", "late"},
         cancelCall' = [cancelCall EXCEPT ![r] = s],
         \/ UNCHANGED activeOrders
         \/ venue[r] = "over" /\ activeOrders' = activeOrders \ {r},
         UNCHANGED <<limiterVars, pc, attempt, answer, reply, venue>>
  PROVE  IInv'
<1>1. TypeOK'
  BY DEF IInv, TypeOK, LimiterTypeOK, limiterVars
<1>2. ConcernsOnly(r) /\ cancelCall'[r] # "ok"
  BY DEF IInv, TypeOK, ConcernsOnly
<1>3. AttemptsOK(r) /\ TakenOK(r) /\ ActiveOK(r)
  BY DEF IInv
<1>4. AttemptsOK(r)' /\ TakenOK(r)' /\ ActiveOK(r)' /\ CancelOK(r)'
  BY <1>2, <1>3 DEF AttemptsOK, TakenOK, ActiveOK, CancelOK
<1>5. QED
  BY <1>1, <1>2, <1>4, CallsKept DEF RequestOK

LEMMA cancelsOK ==
  ASSUME IInv, NEW r \in Requests, cancel(r) \/ cancelReturns(r) \/ cancelTimesOut(r)
  PROVE  IInv'
<1>1. cancelCall[r] = "ok" => venue[r] = "over"
  BY DEF IInv, CancelOK
<1>2. CASE cancel(r)
  BY <1>2, CancelStepOK DEF cancel
<1>3. CASE cancelReturns(r)
  BY <1>1, <1>3, CancelStepOK DEF cancelReturns
<1>4. CASE cancelTimesOut(r)
  BY <1>4, CancelStepOK DEF cancelTimesOut
<1>5. QED
  BY <1>2, <1>3, <1>4

\* What the exchange tells the sender of a request that has not been replied to.
LEMMA TellsOK ==
  ASSUME IInv, NEW r \in Requests, NEW what, NEW v \in {"none", "live", "over"},
         reply[r] \in {"travelling", "late"},
         what \in (IF v = "live" THEN {"open", "partially_filled"} ELSE FinalState) \cup Error,
         Told(r, what), venue' = [venue EXCEPT ![r] = v],
         UNCHANGED <<limiterVars, pc, attempt, answer, activeOrders, cancelCall>>
  PROVE  IInv'
<1>1. AttemptsOK(r) /\ TakenOK(r) /\ ActiveOK(r) /\ CancelOK(r)
  BY DEF IInv
<1>2. /\ reply'[r] = IF reply[r] = "late" THEN "unheard" ELSE what
      /\ venue'[r] = v /\ what \in FinalState \cup Error
      /\ reply' \in [Requests -> FinalState \cup Error
                       \cup {"none", "travelling", "heard", "late", "unheard"}]
      /\ venue' \in [Requests -> {"none", "live", "over"}]
  BY DEF IInv, TypeOK, Told, FinalState
<1>3. TypeOK'
  BY <1>2 DEF IInv, TypeOK, LimiterTypeOK, limiterVars
<1>4. ConcernsOnly(r)
  BY DEF IInv, TypeOK, Told, ConcernsOnly
<1>5. venue[r] = "none" /\ cancelCall[r] # "ok"
  BY <1>1 DEF TakenOK, CancelOK, IInv, TypeOK
<1>6. AttemptsOK(r)'
  BY <1>1, <1>2 DEF AttemptsOK, Unknown
<1>7. TakenOK(r)' /\ ActiveOK(r)' /\ CancelOK(r)'
  BY <1>2, <1>5 DEF TakenOK, ActiveOK, CancelOK, FinalState, Error
<1>8. QED
  BY <1>3, <1>4, <1>6, <1>7, CallsKept DEF RequestOK

LEMMA VenueTakesOK ==
  ASSUME IInv, NEW r \in Requests, VenueTakes(r) \/ VenueRefuses(r)
  PROVE  IInv'
<1>1. CASE VenueTakes(r)
  <2>1. PICK outcome \in Outcomes :
          /\ venue' = [venue EXCEPT ![r] = outcome[1]]
          /\ \E what \in {outcome[2]} \cup Error : Told(r, what)
    BY <1>1 DEF VenueTakes
  <2>2. /\ outcome[1] \in {"live", "over"} /\ outcome[2] \in FinalState
        /\ outcome[1] = "live" => outcome[2] \in {"open", "partially_filled"}
    BY DEF Outcomes, FinalState
  <2>3. QED
    BY <1>1, <2>1, <2>2, TellsOK DEF VenueTakes
<1>2. CASE VenueRefuses(r)
  <2>1. PICK e \in Error : Told(r, e)
    BY <1>2 DEF VenueRefuses
  <2>2. venue[r] \in {"none", "live", "over"} /\ venue' = [venue EXCEPT ![r] = venue[r]]
    BY <1>2 DEF VenueRefuses, IInv, TypeOK
  <2>3. venue[r] = "none"
    BY <1>2 DEF VenueRefuses, IInv, TakenOK
  <2>4. QED
    BY <1>2, <2>1, <2>2, <2>3, TellsOK DEF VenueRefuses
<1>3. QED
  BY <1>1, <1>2

\* An order that ends, by itself or by a cancel.
LEMMA VenueEndsOK ==
  ASSUME IInv, NEW r \in Requests, VenueEnds(r) \/ VenueCancels(r)
  PROVE  IInv'
<1>1. PICK v \in {venue[r], "over"} :
        /\ venue' = [venue EXCEPT ![r] = v]
        /\ v = venue[r] \/ venue[r] = "live"
  BY DEF VenueEnds, VenueCancels, IInv, TypeOK
<1>2. UNCHANGED <<limiterVars, pc, attempt, answer, reply, activeOrders>>
  BY DEF VenueEnds, VenueCancels
<1>3. PICK s \in {"none", "sent", "late", "ok", "error"} :
        /\ cancelCall' = [cancelCall EXCEPT ![r] = s]
        /\ s = "ok" => v = "over"
  <2>1. CASE VenueEnds(r)
    BY <1>1, <2>1 DEF VenueEnds, IInv, TypeOK, CancelOK
  <2>2. CASE VenueCancels(r)
    BY <1>1, <2>2 DEF VenueCancels, IInv, TypeOK
  <2>3. QED
    BY <2>1, <2>2
<1>4. TypeOK' /\ ConcernsOnly(r) /\ cancelCall'[r] = s /\ venue'[r] = v
  BY <1>1, <1>2, <1>3 DEF IInv, TypeOK, LimiterTypeOK, limiterVars, ConcernsOnly
<1>5. AttemptsOK(r) /\ TakenOK(r) /\ ActiveOK(r)
  BY DEF IInv
<1>6. AttemptsOK(r)' /\ TakenOK(r)' /\ ActiveOK(r)' /\ CancelOK(r)'
  BY <1>1, <1>2, <1>3, <1>4, <1>5 DEF AttemptsOK, TakenOK, ActiveOK, CancelOK
<1>7. QED
  BY <1>2, <1>4, <1>6, CallsKept DEF RequestOK

-----------------------------------------------------------------------------

\* The invariant holds however calls, polls, timeouts, cancels and the exchange interleave.
THEOREM InductiveInvariant == Spec => []IInv
<1>1. Init => IInv
  <2>1. ASSUME Init PROVE LimiterTypeOK
    BY <2>1, FullType, LimiterAssumption DEF Init, LimiterInit, LimiterTypeOK
  <2>2. ASSUME Init PROVE TypeOK /\ CountOK
    BY <2>1, <2>2, TriesType DEF Init, TypeOK, CountOK
  <2>3. ASSUME Init, NEW r \in Requests
        PROVE  AttemptsOK(r) /\ TakenOK(r) /\ ActiveOK(r) /\ CancelOK(r)
    <3>1. r[1] \in Calls /\ r[2] \in 1..Tries
      BY RequestParts
    <3>2. reply[r] = "none" /\ venue[r] = "none" /\ cancelCall[r] = "none"
          /\ attempt[r[1]] = 0
      BY <2>3, <3>1 DEF Init
    <3>3. QED
      BY <3>1, <3>2, TriesType DEF AttemptsOK, TakenOK, ActiveOK, CancelOK
  <2>4. QED
    BY <2>2, <2>3 DEF IInv
<1>2. ASSUME IInv, [Next]_vars PROVE IInv'
  <2>1. LimiterTypeOK'
    BY <1>2, MovesLimiter, LimiterType DEF IInv, TypeOK
  <2>2. CASE Time \/ UNCHANGED vars
    <3>1. UNCHANGED submissionVars
      BY <2>2 DEF Time, vars
    <3>2. TypeOK' /\ CountOK'
      BY <1>2, <2>1, <3>1 DEF submissionVars, IInv, TypeOK, CountOK
    <3>3. \A r \in Requests : AttemptsOK(r)' /\ TakenOK(r)' /\ ActiveOK(r)' /\ CancelOK(r)'
      BY <1>2, <3>1 DEF submissionVars, IInv, AttemptsOK, TakenOK, ActiveOK, CancelOK
    <3>4. QED
      BY <3>2, <3>3 DEF IInv
  <2>3. ASSUME NEW c \in Calls, submit(c) \/ poll(c) \/ returns(c) \/ withTimeout(c) PROVE IInv'
    BY <1>2, <2>1, <2>3, submitOK, pollOK, returnsOK, withTimeoutOK
  <2>4. ASSUME NEW r \in Requests, cancel(r) \/ cancelReturns(r) \/ cancelTimesOut(r) PROVE IInv'
    BY <1>2, <2>4, cancelsOK
  <2>5. ASSUME NEW r \in Requests,
               VenueTakes(r) \/ VenueRefuses(r) \/ VenueEnds(r) \/ VenueCancels(r)
        PROVE  IInv'
    BY <1>2, <2>5, VenueTakesOK, VenueEndsOK
  <2>6. QED
    BY <1>2, <2>2, <2>3, <2>4, <2>5 DEF Next
<1>3. QED
  BY <1>1, <1>2, PTL DEF Spec

\* Every variable has its type.
THEOREM SubmissionTypeCorrect == Spec => []TypeOK
<1>1. IInv => TypeOK
  BY DEF IInv
<1>2. QED
  BY <1>1, InductiveInvariant, PTL

\* Whatever the exchange does, loses or answers too late, withRetry sends an intent again
\* only when it could not know that the exchange had taken it.
THEOREM NeverRepeatsKnowingly == Spec => []RepeatedUnknowingly
<1>1. IInv => RepeatedUnknowingly
  BY DEF IInv, RepeatedUnknowingly, AttemptsOK, TakenOK, Unknown
<1>2. QED
  BY <1>1, InductiveInvariant, PTL

\* However cancels race the timeout and the end of the order, ClobExecutor keeps an order it
\* reported among those that can be cancelled for as long as the order is live.
THEOREM LiveStaysCancellable == Spec => []LiveIsCancellable
<1>1. IInv => LiveIsCancellable
  BY DEF IInv, LiveIsCancellable, ActiveOK
<1>2. QED
  BY <1>1, InductiveInvariant, PTL
=============================================================================
