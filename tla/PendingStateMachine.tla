------------------------- MODULE PendingStateMachine -------------------------
(***************************************************************************)
(* The seven states of an order and the table of transitions allowed       *)
(* between them: src/order/types.ts and src/order/pending-state-machine.ts. *)
(***************************************************************************)

PendingState == {"created", "submitted", "open", "partially_filled",
                 "filled", "cancelled", "expired"}

TerminalStates == {"filled", "cancelled", "expired"}

isTerminal(state) == state \in TerminalStates

\* A partially filled order may fill or be cancelled, and may not expire.
ValidTransitions ==
  [created          |-> {"submitted"},
   submitted        |-> {"open", "filled", "cancelled", "expired"},
   open             |-> {"partially_filled", "filled", "cancelled", "expired"},
   partially_filled |-> {"partially_filled", "filled", "cancelled"},
   filled           |-> {},
   cancelled        |-> {},
   expired          |-> {}]

canTransitionTo(from, to) == to \in ValidTransitions[from]
=============================================================================
