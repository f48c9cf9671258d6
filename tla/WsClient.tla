------------------------------ MODULE WsClient ------------------------------
(***************************************************************************)
(* WsClient (src/lib/websocket/client.ts): one connection at a time over a   *)
(* socket of the ws library, with a ping interval and a pong timeout.        *)
(*                                                                         *)
(* The sockets are external: a socket opens or fails, its peer may fall      *)
(* silent or close it, and after close() or terminate() its close event      *)
(* comes later.  An error of the handshake and the close event that follows  *)
(* it are one step, as the library emits them.  The pong timeout is shorter   *)
(* than the ping interval.                                                 *)
(***************************************************************************)
EXTENDS Naturals, Sequences

CONSTANTS MaxSockets, \* bound on the sockets made
          Callers     \* who may await a connect()

ASSUME SocketAssumption == MaxSockets \in Nat \ {0}
ASSUME CallersAssumption == "nobody" \notin Callers

Sockets == 1..MaxSockets

VARIABLES
  state,      \* the client's state
  ws,         \* the socket the client refers to, 0 before the first
  sockets,    \* each socket's own state
  pingTimer,  \* the interval is armed
  pongTimer,  \* the timeout is armed
  unanswered, \* sockets with a ping that no pong has answered
  silent,     \* sockets whose peer answers no more
  awaiting    \* the call whose connect() promise the socket will settle

clientVars == <<state, ws, sockets, pingTimer, pongTimer, unanswered, silent, awaiting>>

ClientTypeOK ==
  /\ state \in {"connecting", "open", "closing", "closed"}
  /\ ws \in 0..MaxSockets
  /\ sockets \in [Sockets -> {"none", "connecting", "open", "closing", "dead"}]
  /\ pingTimer \in BOOLEAN
  /\ pongTimer \in BOOLEAN
  /\ unanswered \in SUBSET Sockets
  /\ silent \in SUBSET Sockets
  /\ awaiting \in Callers \cup {"nobody"}

ClientInit ==
  /\ state = "closed"
  /\ ws = 0
  /\ sockets = [s \in Sockets |-> "none"]
  /\ pingTimer = FALSE
  /\ pongTimer = FALSE
  /\ unanswered = {}
  /\ silent = {}
  /\ awaiting = "nobody"

-----------------------------------------------------------------------------
(* Calls.                                                                  *)

\* Mutant: a connection that is being closed may be replaced.
connectsUnlessOpen == state \notin {"connecting", "open"}

\* connect() rejects unless the client is closed.
connects == state = "closed"

connect(who) ==
  /\ ws < MaxSockets
  /\ state' = "connecting"
  /\ ws' = ws + 1
  /\ sockets' = [sockets EXCEPT ![ws + 1] = "connecting"]
  /\ awaiting' = who
  /\ UNCHANGED <<pingTimer, pongTimer, unanswered, silent>>

clearTimers == pingTimer' = FALSE /\ pongTimer' = FALSE

\* The socket begins to close unless it is dead; a handshake is aborted, and the promise of
\* its connect() is left unsettled, since the error event finds the client closing.
close ==
  /\ ws # 0
  /\ state' = "closing"
  /\ clearTimers
  /\ sockets' = [sockets EXCEPT ![ws] = IF @ = "dead" THEN "dead" ELSE "closing"]
  /\ awaiting' = "nobody"
  /\ UNCHANGED <<ws, unanswered, silent>>

-----------------------------------------------------------------------------
(* Events of a socket.                                                     *)

onOpen(s) ==
  /\ sockets[s] = "connecting"
  /\ sockets' = [sockets EXCEPT ![s] = "open"]
  /\ state' = "open"
  /\ pingTimer' = TRUE
  /\ awaiting' = "nobody"
  /\ UNCHANGED <<ws, pongTimer, unanswered, silent>>

\* The handshake fails: the error event rejects the promise.
onError(s) ==
  /\ sockets[s] = "connecting"
  /\ sockets' = [sockets EXCEPT ![s] = "dead"]
  /\ state' = "closed"
  /\ clearTimers
  /\ awaiting' = "nobody"
  /\ UNCHANGED <<ws, unanswered, silent>>

\* Mutant: the timeout of an unanswered ping survives the socket.
onCloseKeepsPong(s) ==
  /\ sockets[s] = "closing" \/ (sockets[s] = "open" /\ s \notin silent)
  /\ sockets' = [sockets EXCEPT ![s] = "dead"]
  /\ state' = "closed"
  /\ pingTimer' = FALSE
  /\ UNCHANGED <<ws, pongTimer, unanswered, silent, awaiting>>

\* The close event: of a socket that is closing, or of one its peer closes.
onClose(s) ==
  /\ sockets[s] = "closing" \/ (sockets[s] = "open" /\ s \notin silent)
  /\ sockets' = [sockets EXCEPT ![s] = "dead"]
  /\ state' = "closed"
  /\ clearTimers
  /\ UNCHANGED <<ws, unanswered, silent, awaiting>>

onPong(s) ==
  /\ sockets[s] = "open" /\ s \in unanswered /\ s \notin silent
  /\ unanswered' = unanswered \ {s}
  /\ pongTimer' = FALSE
  /\ UNCHANGED <<state, ws, sockets, pingTimer, silent, awaiting>>

FallsSilent(s) ==
  /\ sockets[s] = "open" /\ s \notin silent
  /\ silent' = silent \cup {s}
  /\ UNCHANGED <<state, ws, sockets, pingTimer, pongTimer, unanswered, awaiting>>

-----------------------------------------------------------------------------
(* Timers.                                                                 *)

\* Mutant: the ping is sent without arming the timeout.
pingsOnly ==
  /\ pingTimer /\ state = "open" /\ ~pongTimer
  /\ unanswered' = unanswered \cup {ws}
  /\ UNCHANGED <<state, ws, sockets, pingTimer, pongTimer, silent, awaiting>>

pings ==
  /\ pingTimer /\ state = "open" /\ ~pongTimer
  /\ unanswered' = unanswered \cup {ws}
  /\ pongTimer' = TRUE
  /\ UNCHANGED <<state, ws, sockets, pingTimer, silent, awaiting>>

\* terminate() leaves the client's state alone until the close event.
pongTimeout ==
  /\ pongTimer
  /\ pongTimer' = FALSE
  /\ sockets' = [sockets EXCEPT ![ws] = IF @ = "open" THEN "closing" ELSE @]
  /\ UNCHANGED <<state, ws, pingTimer, unanswered, silent, awaiting>>

-----------------------------------------------------------------------------
(* Properties.                                                             *)

\* At most one socket is alive, and the client that says it is closed has none: the late
\* close event of a socket never reports the end of its successor.
OneSocket ==
  /\ \A s \in Sockets : sockets[s] \notin {"none", "dead"} => s = ws /\ state # "closed"
  /\ state \in {"connecting", "open"} => sockets[ws] \in {state, "closing"}

\* The timeout of a ping only ever terminates the socket the ping was sent on, and only
\* while that ping is unanswered, however sockets are closed and replaced.
HealthySocketKept ==
  [][\A s \in Sockets :
       sockets[s] = "open" /\ sockets'[s] = "closing" /\ state' = "open"
         => s \in unanswered]_clientVars

\* A peer that falls silent is found out: the client does not stay open on a dead line.
SilenceNoticed == (state = "open" /\ ws \in silent) ~> state # "open"
=============================================================================
