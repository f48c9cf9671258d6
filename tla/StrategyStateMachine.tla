------------------------ MODULE StrategyStateMachine ------------------------
(***************************************************************************)
(* The seven states of a strategy and its transitions:                      *)
(* src/lifecycle/state-machine.ts and types.ts.  Reasons, the warm-up        *)
(* percentage and the bounded transition history are left out.              *)
(***************************************************************************)

StrategyState == {"initializing", "warming_up", "active", "paused",
                  "closing_only", "halted", "shutdown"}

canOpen(s) == s = "active"

canClose(s) == s \in {"active", "paused", "closing_only"}

\* The states each transition is accepted in; elsewhere it is an error and changes nothing.
From == [initialize         |-> {"initializing"},
         update_warmup      |-> {"warming_up"},
         warmup_complete    |-> {"warming_up"},
         pause              |-> {"active", "warming_up"},
         resume             |-> {"paused"},
         enter_closing_only |-> {"active", "warming_up", "paused"},
         halt               |-> StrategyState \ {"shutdown"},
         shutdown           |-> StrategyState \ {"shutdown"}]

To == [initialize |-> "warming_up", update_warmup |-> "warming_up",
       warmup_complete |-> "active", pause |-> "paused", resume |-> "active",
       enter_closing_only |-> "closing_only", halt |-> "halted", shutdown |-> "shutdown"]

transition(s, type) == IF s \in From[type] THEN To[type] ELSE s
=============================================================================
