---------------------------- MODULE RateLimiter -----------------------------
(***************************************************************************)
(* TokenBucketRateLimiter (src/lib/http/rate-limiter.ts): tokens that are    *)
(* refilled only when somebody asks for one, and callers of waitForToken,    *)
(* each of which polls on an interval of its own until it gets a token or    *)
(* has waited too long.                                                    *)
(*                                                                         *)
(* Time is what passed since the last refill and since each caller began to  *)
(* wait; it stops counting where more of it makes no difference.  Tokens are *)
(* counted in exact parts where the code uses floating-point numbers.        *)
(* Statistics are left out.                                                *)
(***************************************************************************)
EXTENDS Naturals

CONSTANTS Calls,       \* callers that ask for tokens
          Capacity,    \* capacity
          TokenParts,  \* parts of a token
          RefillParts, \* refillRate: parts gained in a step of the clock
          WaitLimit    \* timeoutMs of waitForToken in steps of the clock

ASSUME LimiterAssumption == /\ Capacity \in Nat \ {0}
                            /\ TokenParts \in Nat \ {0}
                            /\ RefillParts \in Nat
                            /\ WaitLimit \in Nat

VARIABLES
  tokens,      \* tokens, in parts
  sinceRefill, \* steps of the clock since lastRefillMs
  polling,     \* callers with a polling interval
  waited       \* steps each of them has waited

limiterVars == <<tokens, sinceRefill, polling, waited>>

Full == Capacity * TokenParts

LimiterTypeOK ==
  /\ tokens \in 0..Full
  /\ sinceRefill \in Nat
  /\ polling \in SUBSET Calls
  /\ waited \in [Calls -> 0..WaitLimit]

LimiterInit ==
  /\ tokens = Full
  /\ sinceRefill = 0
  /\ polling = {}
  /\ waited = [c \in Calls |-> 0]

-----------------------------------------------------------------------------

\* What the bucket holds once it is refilled.
refilled == IF tokens + sinceRefill * RefillParts > Full THEN Full
            ELSE tokens + sinceRefill * RefillParts

\* Mutant: the refill does not remember when it was made.
takeKeepsStamp == /\ refilled >= TokenParts
                  /\ tokens' = refilled - TokenParts
                  /\ UNCHANGED sinceRefill

\* rawTryAcquire that succeeds: refill, then take one token.
take == /\ refilled >= TokenParts
        /\ tokens' = refilled - TokenParts
        /\ sinceRefill' = 0

\* rawTryAcquire that fails has refilled as well.
miss == /\ refilled < TokenParts
        /\ tokens' = refilled
        /\ sinceRefill' = 0

\* waitForToken resolves at once.
acquire(c) == take /\ UNCHANGED <<polling, waited>>

\* waitForToken begins to poll.
beginsToWait(c) == miss /\ polling' = polling \cup {c} /\ UNCHANGED waited

Stops(c) == polling' = polling \ {c} /\ waited' = [waited EXCEPT ![c] = 0]

pollAcquires(c) == c \in polling /\ take /\ Stops(c)

pollMisses(c) == c \in polling /\ waited[c] < WaitLimit /\ miss /\ UNCHANGED <<polling, waited>>

pollTimesOut(c) == c \in polling /\ waited[c] >= WaitLimit /\ miss /\ Stops(c)

ClockStep ==
  /\ sinceRefill' = IF refilled = Full \/ RefillParts = 0 THEN sinceRefill ELSE sinceRefill + 1
  /\ waited' = [c \in Calls |-> IF c \in polling /\ waited[c] < WaitLimit
                                THEN waited[c] + 1 ELSE waited[c]]
  /\ UNCHANGED <<tokens, polling>>

-----------------------------------------------------------------------------

Bucket == INSTANCE TokenBucket WITH budget <- refilled

\* However callers poll and whenever they do, the limiter that refills late gives out
\* tokens as a bucket that is refilled with every step of the clock would.
ImplementsBucket == Bucket!Spec
=============================================================================
