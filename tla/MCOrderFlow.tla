---------------------------- MODULE MCOrderFlow -----------------------------
(***************************************************************************)
(* One order of size 2 from submission to cleanup, and one awaiting caller. *)
(***************************************************************************)
EXTENDS OrderFlow

CONSTANTS m1

MCMarketOf == [o \in Orders |-> m1]
MCOriginalSize == [o \in Orders |-> 2]
=============================================================================
