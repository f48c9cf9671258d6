---------------------------- MODULE TokenBucket -----------------------------
(***************************************************************************)
(* What a rate limiter promises: a bucket that gains RefillParts with every *)
(* step of the clock up to its capacity, and gives a token out only while    *)
(* it holds one.  A token is worth TokenParts, so that a step of the clock   *)
(* may bring a part of a token.                                            *)
(***************************************************************************)
EXTENDS Naturals

CONSTANTS Capacity,    \* tokens in a full bucket
          TokenParts,  \* parts of a token
          RefillParts  \* parts gained in a step of the clock

VARIABLE budget

Full == Capacity * TokenParts

Init == budget = Full

Refill == budget' = IF budget + RefillParts > Full THEN Full ELSE budget + RefillParts

Take == budget >= TokenParts /\ budget' = budget - TokenParts

Next == Refill \/ Take

Spec == Init /\ [][Next]_budget
=============================================================================
