----------------------------- MODULE WsManager ------------------------------
(***************************************************************************)
(* WsManager (src/websocket/ws-manager.ts) on a WsClient: subscriptions, the *)
(* buffer of received messages with their generation, and reconnect() under  *)
(* a ReconnectionPolicy (src/websocket/reconnection.ts).                    *)
(*                                                                         *)
(* connect and reconnect suspend at the client's promise and at the delay     *)
(* before a retry; socket events, timers and other calls run meanwhile, more  *)
(* calls of reconnect() with the same policy and the owner's close() of the  *)
(* client among them.  Each call is made from a task of its own.            *)
(* The heartbeat clock, the length of the delays and the parsing of messages *)
(* are left out.                                                           *)
(***************************************************************************)
EXTENDS WsClient

CONSTANTS Subscriptions, \* subscription keys, all of one channel
          MaxBuffer,     \* maxBufferSize
          MaxAttempts    \* maxAttempts of the policy; 0 without a policy

ASSUME ManagerAssumption == /\ MaxBuffer \in Nat \ {0} /\ MaxAttempts \in Nat
                            /\ "connect" \in Callers

\* The calls of reconnect() that may be under way at once.
Reconnects == Callers \ {"connect"}

VARIABLES
  subscriptions, \* subscriptions
  subscribed,    \* what the peer of each socket was asked to send
  generation,    \* _generation
  buffer,        \* messages: the generation they are filed under and their socket
  reconnectCall, \* each call of reconnect(): idle, awaiting the client, or delayed
  attempts       \* attempts of the policy

managerVars == <<subscriptions, subscribed, generation, buffer, reconnectCall, attempts>>
vars == <<clientVars, managerVars>>

TypeOK ==
  /\ ClientTypeOK
  /\ subscriptions \in SUBSET Subscriptions
  /\ subscribed \in [Sockets -> SUBSET Subscriptions]
  /\ generation \in 0..MaxSockets
  /\ buffer \in Seq([generation : Nat, socket : Sockets]) /\ Len(buffer) <= MaxBuffer
  /\ reconnectCall \in [Reconnects -> {"idle", "awaiting", "delayed"}]
  /\ attempts \in 0..MaxAttempts

Init ==
  /\ ClientInit
  /\ subscriptions = {}
  /\ subscribed = [s \in Sockets |-> {}]
  /\ generation = 0
  /\ buffer = <<>>
  /\ reconnectCall = [r \in Reconnects |-> "idle"]
  /\ attempts = 0

-----------------------------------------------------------------------------
(* Connecting.  A call that the client rejects at once changes nothing.     *)

connectManager ==
  /\ connects
  /\ connect("connect")
  /\ UNCHANGED managerVars

\* The owner of the client closes it.
closeClient == close /\ UNCHANGED managerVars

\* Mutant: the policy does not count the attempt.
attemptNotCounted(r, n) ==
  IF MaxAttempts = 0
  THEN reconnectCall' = [reconnectCall EXCEPT ![r] = "idle"] /\ attempts' = 0
  ELSE reconnectCall' = [reconnectCall EXCEPT ![r] = "delayed"] /\ attempts' = n

\* What becomes of a reconnect() when an attempt has failed and n have failed before.
attemptFails(r, n) ==
  IF MaxAttempts = 0
  THEN reconnectCall' = [reconnectCall EXCEPT ![r] = "idle"] /\ attempts' = 0
  ELSE reconnectCall' = [reconnectCall EXCEPT ![r] = "delayed"] /\ attempts' = n + 1

\* Closes, clears the buffer and connects again, which the client refuses while it is
\* closing.  Before the first socket there is nothing to close.
doReconnect(r, n) ==
  /\ buffer' = <<>>
  /\ IF ws = 0
     THEN /\ connect(r)
          /\ reconnectCall' = [reconnectCall EXCEPT ![r] = "awaiting"]
          /\ attempts' = n
     ELSE /\ close
          /\ attemptFails(r, n)
  /\ UNCHANGED <<subscriptions, subscribed, generation>>

\* Every call resets the one policy, also while another is between two attempts.
reconnect(r) == reconnectCall[r] = "idle" /\ doReconnect(r, 0)

\* After the delay the loop asks the policy again and gives up when it refuses.
reconnectWithPolicy(r) ==
  /\ reconnectCall[r] = "delayed"
  /\ \/ attempts < MaxAttempts /\ doReconnect(r, attempts)
     \/ /\ attempts >= MaxAttempts
        /\ reconnectCall' = [reconnectCall EXCEPT ![r] = "idle"]
        /\ UNCHANGED <<clientVars, subscriptions, subscribed, generation, buffer, attempts>>

\* A reconnect() whose connection opens replays the subscriptions and is over.
succeeds(s) ==
  /\ reconnectCall' = [r \in Reconnects |-> IF awaiting = r THEN "idle" ELSE reconnectCall[r]]
  /\ subscribed' = IF awaiting \in Reconnects
                   THEN [subscribed EXCEPT ![s] = subscriptions] ELSE subscribed

\* Mutant: the generation is the same after a new connection.
openedKeepsGeneration(s) ==
  /\ onOpen(s)
  /\ succeeds(s)
  /\ UNCHANGED <<subscriptions, generation, buffer, attempts>>

\* connect() and reconnect() both count the generation.
opened(s) ==
  /\ onOpen(s)
  /\ succeeds(s)
  /\ generation' = generation + 1
  /\ UNCHANGED <<subscriptions, buffer, attempts>>

failed(s) ==
  /\ onError(s)
  /\ IF awaiting \in Reconnects
     THEN attemptFails(awaiting, attempts) ELSE UNCHANGED <<reconnectCall, attempts>>
  /\ UNCHANGED <<subscriptions, subscribed, generation, buffer>>

-----------------------------------------------------------------------------
(* Subscriptions and messages.                                             *)

\* send() reaches the peer while the client is open and its socket still is.
sent(subs) == IF state = "open" /\ sockets[ws] = "open"
              THEN [subscribed EXCEPT ![ws] = subs] ELSE subscribed

subscribe(k) ==
  /\ subscriptions' = subscriptions \cup {k}
  /\ subscribed' = sent(IF ws = 0 THEN {k} ELSE subscribed[ws] \cup {k})
  /\ UNCHANGED <<clientVars, generation, buffer, reconnectCall, attempts>>

\* Removes every subscription of the channel.
unsubscribe ==
  /\ subscriptions' = {}
  /\ subscribed' = sent({})
  /\ UNCHANGED <<clientVars, generation, buffer, reconnectCall, attempts>>

\* Mutant: the buffer grows past its limit.
handleMessageUnbounded(s) ==
  /\ sockets[s] \in {"open", "closing"} /\ s \notin silent /\ subscribed[s] # {}
  /\ Len(buffer) <= MaxBuffer
  /\ buffer' = Append(buffer, [generation |-> generation, socket |-> s])
  /\ UNCHANGED <<clientVars, subscriptions, subscribed, generation, reconnectCall, attempts>>

\* A socket delivers until its close event; the oldest message gives way in a full buffer.
handleMessage(s) ==
  /\ sockets[s] \in {"open", "closing"} /\ s \notin silent /\ subscribed[s] # {}
  /\ buffer' = Append(IF Len(buffer) = MaxBuffer THEN Tail(buffer) ELSE buffer,
                      [generation |-> generation, socket |-> s])
  /\ UNCHANGED <<clientVars, subscriptions, subscribed, generation, reconnectCall, attempts>>

\* Draining a generation leaves the messages of the others: at gives their places, in order.
remaining(g, n, at) ==
  /\ {at[i] : i \in 1..n} = {i \in DOMAIN buffer : buffer[i].generation # g}
  /\ \A i, j \in 1..n : i < j => at[i] < at[j]
  /\ buffer' = [i \in 1..n |-> buffer[at[i]]]

\* Without a generation everything is drained.
drain ==
  /\ buffer # <<>>
  /\ \/ buffer' = <<>>
     \/ \E g \in 0..generation, n \in 0..Len(buffer) :
          \E at \in [1..n -> 1..Len(buffer)] : remaining(g, n, at)
  /\ UNCHANGED <<clientVars, subscriptions, subscribed, generation, reconnectCall, attempts>>

-----------------------------------------------------------------------------
SocketEvent(s) == \/ opened(s)
                  \/ failed(s)
                  \/ handleMessage(s)
                  \/ (onClose(s) \/ onPong(s) \/ FallsSilent(s)) /\ UNCHANGED managerVars

Timer == (pings \/ pongTimeout) /\ UNCHANGED managerVars

Next ==
  \/ connectManager
  \/ closeClient
  \/ \E r \in Reconnects : reconnect(r) \/ reconnectWithPolicy(r)
  \/ unsubscribe
  \/ drain
  \/ Timer
  \/ \E k \in Subscriptions : subscribe(k)
  \/ \E s \in Sockets : SocketEvent(s)

\* Timers fire, a retry is not delayed for ever, a closing socket closes, and a handshake ends.
Fairness ==
  /\ WF_vars(pings /\ UNCHANGED managerVars)
  /\ WF_vars(pongTimeout /\ UNCHANGED managerVars)
  /\ \A r \in Reconnects : WF_vars(reconnectWithPolicy(r))
  /\ \A s \in Sockets : /\ WF_vars(opened(s) \/ failed(s))
                        /\ WF_vars(sockets[s] = "closing" /\ onClose(s) /\ UNCHANGED managerVars)

Spec == Init /\ [][Next]_vars
FairSpec == Spec /\ Fairness

-----------------------------------------------------------------------------
(* Properties.                                                             *)

\* Once a connection is open, the messages filed under the current generation all came over
\* it: draining by generation never hands out what an earlier connection delivered late.
\* The variables keep their types and the buffer its bound.
GenerationIsSocket ==
  /\ TypeOK
  /\ state = "open" => \A i \in DOMAIN buffer :
       buffer[i].generation = generation => buffer[i].socket = ws

\* A reconnect() that awaits a handshake which was aborted: close(), called by the owner or
\* by another reconnect(), leaves the promise of the handshake's connect() unsettled.
Abandoned(r) == reconnectCall[r] = "awaiting" /\ awaiting # r

\* Once no new call resets the policy they share, every reconnect() under way gives up or
\* succeeds, however the calls, the owner's close() and the events of the sockets interleave.
\* The calls left out are those abandoned in their first handshake: they wait for ever.
ReconnectEnds ==
  <>[][~\E r \in Reconnects : reconnect(r)]_vars =>
    \A r \in Reconnects :
      reconnectCall[r] # "idle" ~> reconnectCall[r] = "idle" \/ Abandoned(r)

\* "Closes the connection, clears buffers, reconnects, and replays subscriptions"
\* (ws-manager.ts:142).  A reconnect() has closed a connection that was open, and the client
\* is closed by now, so that it would accept a connect(): the next attempt begins a new
\* connection, whatever becomes of it.  But the attempt closes the dead socket once more,
\* which leaves the client closing, and connect() refuses; so does every later attempt.
ReconnectReconnects ==
  [][\A r \in Reconnects :
       /\ state = "closed" /\ generation = ws /\ 0 < ws /\ ws < MaxSockets
       /\ attempts < MaxAttempts /\ reconnectWithPolicy(r)
       => \E s \in Sockets : sockets'[s] = "connecting"]_vars
=============================================================================
