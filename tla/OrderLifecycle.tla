--------------------------- MODULE OrderLifecycle ---------------------------
(***************************************************************************)
(* What a consumer of the order tracker relies on, order by order: the      *)
(* state only moves along the transition table, a terminal state is final   *)
(* until the order is forgotten, and the handle's onComplete callback is    *)
(* called in the very step that makes the order terminal, with that state,  *)
(* and at no other time.                                                   *)
(***************************************************************************)
EXTENDS Sequences, PendingStateMachine

CONSTANT Orders

VARIABLES state,      \* a pending state, or "untracked" before and "removed" after
          announced   \* the final states onComplete was called with

lifecycleVars == <<state, announced>>

Init == /\ state = [o \in Orders |-> "untracked"]
        /\ announced = [o \in Orders |-> <<>>]

Track(o) == /\ state[o] = "untracked"
            /\ \E s \in PendingState \ TerminalStates : state' = [state EXCEPT ![o] = s]
            /\ UNCHANGED announced

Advance(o) == /\ state[o] \in PendingState
              /\ \E s \in ValidTransitions[state[o]] \ TerminalStates :
                    state' = [state EXCEPT ![o] = s]
              /\ UNCHANGED announced

\* An order without a handle ends silently.
Finish(o) == /\ state[o] \in PendingState
             /\ \E s \in ValidTransitions[state[o]] \cap TerminalStates :
                   /\ state' = [state EXCEPT ![o] = s]
                   /\ \/ announced' = [announced EXCEPT ![o] = Append(@, s)]
                      \/ UNCHANGED announced

\* One cleanup may forget several orders, all of them terminal.
Forget == /\ \E gone \in SUBSET {o \in Orders : state[o] \in TerminalStates} :
                state' = [o \in Orders |-> IF o \in gone THEN "removed" ELSE state[o]]
          /\ UNCHANGED announced

Next == \/ \E o \in Orders : Track(o) \/ Advance(o) \/ Finish(o)
        \/ Forget

Spec == Init /\ [][Next]_lifecycleVars
=============================================================================
