--------------------------- MODULE MCOrderTracker ---------------------------
(***************************************************************************)
(* Instances of OrderTracker: orders of size 2 on one market and partial    *)
(* fills of 1, so that an order may end with a part of it filled.           *)
(***************************************************************************)
EXTENDS OrderTracker

CONSTANTS m1

MCMarketOf == [o \in Orders |-> m1]
MCOriginalSize == [o \in Orders |-> 2]
=============================================================================
