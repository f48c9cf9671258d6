--------------------------- MODULE WsManagerProofs ---------------------------
(***************************************************************************)
(* Proofs about WsManager and the WsClient under it, for any number of       *)
(* sockets, subscriptions and retries and any size of the buffer: one socket  *)
(* at a time, timeouts that strike only the socket they were armed for, and    *)
(* generations that tell the messages of one connection from another's.      *)
(***************************************************************************)
EXTENDS WsManager, SequenceTheorems, TLAPS

\* A client that is not closed has made a socket, and a timeout is armed only while it is
\* open, for a ping of the socket it refers to.
ClientInv ==
  /\ OneSocket
  /\ state # "closed" => ws # 0
  /\ pongTimer => state = "open" /\ ws \in unanswered

\* Each connection opened had a socket of its own.
Generations ==
  /\ generation <= ws
  /\ ws # 0 /\ sockets[ws] = "connecting" => generation < ws

\* The client's promise is awaited by a retry that the policy still allows, even if other
\* calls of reconnect() have reset the policy in the meantime.
Retries ==
  awaiting \in Reconnects =>
    reconnectCall[awaiting] = "awaiting" /\ (MaxAttempts = 0 \/ attempts < MaxAttempts)

\* No message is filed ahead of the generation, and those of the current one came over ws.
Filed ==
  \A i \in DOMAIN buffer :
    /\ buffer[i].generation <= generation
    /\ state = "open" /\ buffer[i].generation = generation => buffer[i].socket = ws

ManagerInv == TypeOK /\ ClientInv /\ Generations /\ Retries /\ Filed

-----------------------------------------------------------------------------
(* The client.                                                             *)

\* What the calls of the manager, the sockets and the timers do to the client.
ClientStep ==
  \/ (connects \/ ws = 0) /\ \E who \in Callers : connect(who)
  \/ close
  \/ \E s \in Sockets : onOpen(s) \/ onError(s) \/ onClose(s) \/ onPong(s) \/ FallsSilent(s)
  \/ pings
  \/ pongTimeout
  \/ UNCHANGED clientVars

LEMMA OnlyClientSteps ==
  ASSUME [Next]_vars
  PROVE  ClientStep
<1>1. ASSUME NEW r \in Reconnects, NEW n, doReconnect(r, n) PROVE ClientStep
  BY <1>1 DEF doReconnect, ClientStep, Reconnects
<1>2. CASE \/ connectManager \/ closeClient
           \/ \E r \in Reconnects : reconnect(r) \/ reconnectWithPolicy(r)
  BY <1>1, <1>2, ManagerAssumption
     DEF connectManager, closeClient, reconnect, reconnectWithPolicy, ClientStep
<1>3. CASE unsubscribe \/ drain \/ Timer
  BY <1>3 DEF unsubscribe, drain, Timer, ClientStep
<1>4. CASE \E k \in Subscriptions : subscribe(k)
  BY <1>4 DEF subscribe, ClientStep
<1>5. CASE \E s \in Sockets : SocketEvent(s)
  BY <1>5 DEF SocketEvent, opened, failed, handleMessage, ClientStep
<1>6. CASE UNCHANGED vars
  BY <1>6 DEF vars, ClientStep
<1>7. QED
  BY <1>2, <1>3, <1>4, <1>5, <1>6 DEF Next

\* A socket opens or shuts only while the client refers to it.
LEMMA ClientKept ==
  ASSUME ClientTypeOK, ClientInv, ClientStep
  PROVE  ClientTypeOK' /\ ClientInv'
<1> USE SocketAssumption DEF ClientTypeOK, ClientInv, OneSocket, Sockets, clearTimers
<1>1. CASE (connects \/ ws = 0) /\ \E who \in Callers : connect(who)
  <2>1. state = "closed" /\ ws + 1 \in 1..MaxSockets
    BY <1>1 DEF connects, connect
  <2>2. \A s \in Sockets : s # ws + 1 => sockets'[s] \in {"none", "dead"}
    BY <1>1, <2>1 DEF connect
  <2>3. sockets'[ws + 1] = "connecting" /\ ws' = ws + 1 /\ state' = "connecting"
    BY <1>1, <2>1 DEF connect
  <2>4. ClientTypeOK'
    BY <1>1, <2>1 DEF connect
  <2>5. ~pongTimer'
    BY <1>1, <2>1 DEF connect
  <2>6. QED
    BY <2>2, <2>3, <2>4, <2>5
<1>2. CASE close
  BY <1>2 DEF close
<1>3. ASSUME NEW s \in Sockets, onOpen(s) PROVE ClientTypeOK' /\ ClientInv'
  <2>1. s = ws /\ ~pongTimer
    BY <1>3 DEF onOpen
  <2>2. QED
    BY <1>3, <2>1 DEF onOpen
<1>4. ASSUME NEW s \in Sockets, onError(s) PROVE ClientTypeOK' /\ ClientInv'
  BY <1>4 DEF onError
<1>5. ASSUME NEW s \in Sockets, onClose(s) PROVE ClientTypeOK' /\ ClientInv'
  BY <1>5 DEF onClose
<1>6. ASSUME NEW s \in Sockets, onPong(s) PROVE ClientTypeOK' /\ ClientInv'
  BY <1>6 DEF onPong
<1>7. ASSUME NEW s \in Sockets, FallsSilent(s) PROVE ClientTypeOK' /\ ClientInv'
  BY <1>7 DEF FallsSilent
<1>8. CASE pings
  BY <1>8 DEF pings
<1>9. CASE pongTimeout
  BY <1>9 DEF pongTimeout
<1>10. CASE UNCHANGED clientVars
  BY <1>10 DEF clientVars
<1>11. QED
  BY <1>1, <1>2, <1>3, <1>4, <1>5, <1>6, <1>7, <1>8, <1>9, <1>10 DEF ClientStep

\* Only the timeout of an unanswered ping shuts a socket that the client did not close.
LEMMA TimeoutStrikesItsSocket ==
  ASSUME ClientTypeOK, ClientInv, ClientStep, NEW s \in Sockets,
         sockets[s] = "open", sockets'[s] = "closing", state' = "open"
  PROVE  s \in unanswered
<1> USE DEF ClientTypeOK, Sockets
<1>1. CASE pongTimeout
  BY <1>1 DEF pongTimeout, ClientInv
<1>2. CASE (connects \/ ws = 0) /\ \E who \in Callers : connect(who)
  BY <1>2 DEF connect
<1>3. CASE close \/ pings \/ UNCHANGED clientVars
  BY <1>3 DEF close, pings, clientVars
<1>4. CASE \E q \in Sockets : onOpen(q) \/ onError(q) \/ onClose(q) \/ onPong(q) \/ FallsSilent(q)
  BY <1>4 DEF onOpen, onError, onClose, onPong, FallsSilent
<1>5. QED
  BY <1>1, <1>2, <1>3, <1>4 DEF ClientStep

-----------------------------------------------------------------------------
(* The buffer.                                                             *)

Message == [generation : Nat, socket : Sockets]

\* What a full buffer keeps.
LEMMA TailKeeps ==
  ASSUME NEW s \in Seq(Message), s # <<>>
  PROVE  /\ Tail(s) \in Seq(Message) /\ Len(Tail(s)) = Len(s) - 1
         /\ \A i \in DOMAIN Tail(s) : \E j \in DOMAIN s : Tail(s)[i] = s[j]
<1>1. /\ Tail(s) \in Seq(Message) /\ Len(Tail(s)) = Len(s) - 1
      /\ \A i \in 1..Len(Tail(s)) : Tail(s)[i] = s[i + 1]
  BY HeadTailProperties
<1>2. DOMAIN s = 1..Len(s) /\ DOMAIN Tail(s) = 1..Len(Tail(s)) /\ Len(s) \in Nat
  BY <1>1, LenProperties
<1>3. ASSUME NEW i \in DOMAIN Tail(s) PROVE \E j \in DOMAIN s : Tail(s)[i] = s[j]
  <2>1. i + 1 \in DOMAIN s
    BY <1>1, <1>2
  <2>2. QED
    BY <1>1, <1>2, <2>1
<1>4. QED
  BY <1>1, <1>3

\* Draining keeps some of the messages, or none.
LEMMA DrainKeeps ==
  ASSUME TypeOK, drain
  PROVE  /\ buffer' \in Seq(Message) /\ Len(buffer') <= MaxBuffer
         /\ \A i \in DOMAIN buffer' : \E j \in DOMAIN buffer : buffer'[i] = buffer[j]
<1>1. buffer \in Seq(Message) /\ Len(buffer) <= MaxBuffer
  BY DEF TypeOK, Message
<1>2. /\ DOMAIN buffer = 1..Len(buffer) /\ Len(buffer) \in Nat
      /\ \A i \in DOMAIN buffer : buffer[i] \in Message
  BY <1>1, LenProperties, ElementOfSeq
<1>3. CASE buffer' = <<>>
  BY <1>1, <1>2, <1>3, ManagerAssumption, EmptySeq
<1>4. ASSUME NEW g \in 0..generation, NEW n \in 0..Len(buffer),
             NEW at \in [1..n -> 1..Len(buffer)], remaining(g, n, at)
      PROVE  /\ buffer' \in Seq(Message) /\ Len(buffer') <= MaxBuffer
             /\ \A i \in DOMAIN buffer' : \E j \in DOMAIN buffer : buffer'[i] = buffer[j]
  <2>1. buffer' = [i \in 1..n |-> buffer[at[i]]]
    BY <1>4 DEF remaining
  <2>2. n \in Nat /\ n <= MaxBuffer
    BY <1>1, <1>2, ManagerAssumption
  <2>3. \A i \in 1..n : at[i] \in DOMAIN buffer /\ buffer[at[i]] \in Message
    BY <1>2
  <2>4. buffer' \in Seq(Message) /\ Len(buffer') = n /\ DOMAIN buffer' = 1..n
    BY <2>1, <2>2, <2>3
  <2>5. QED
    BY <2>1, <2>2, <2>3, <2>4
<1>5. QED
  BY <1>3, <1>4 DEF drain

\* The message filed last is of the current generation and came over the socket that is live.
LEMMA FiledAfter ==
  ASSUME TypeOK, Filed, NEW s \in Sockets, handleMessage(s), state = "open" => s = ws
  PROVE  Filed' /\ buffer' \in Seq(Message) /\ Len(buffer') <= MaxBuffer
<1> DEFINE kept == IF Len(buffer) = MaxBuffer THEN Tail(buffer) ELSE buffer
<1> DEFINE m == [generation |-> generation, socket |-> s]
<1> USE ManagerAssumption, SocketAssumption
<1>1. /\ buffer \in Seq(Message) /\ Len(buffer) <= MaxBuffer /\ Len(buffer) \in Nat
      /\ generation \in Nat /\ m \in Message
  BY LenProperties DEF TypeOK, Message
<1>2. /\ kept \in Seq(Message) /\ Len(kept) < MaxBuffer
      /\ \A i \in DOMAIN kept : \E j \in DOMAIN buffer : kept[i] = buffer[j]
  <2>1. CASE Len(buffer) = MaxBuffer
    <3>1. buffer # <<>>
      BY <2>1, EmptySeq
    <3>2. QED
      BY <1>1, <2>1, <3>1, TailKeeps
  <2>2. CASE Len(buffer) # MaxBuffer
    BY <1>1, <2>2
  <2>3. QED
    BY <2>1, <2>2
<1>3. buffer' = Append(kept, m) /\ UNCHANGED <<generation, state, ws>>
  BY DEF handleMessage, clientVars
<1> HIDE DEF kept, m
<1>4. /\ buffer' \in Seq(Message) /\ Len(buffer') = Len(kept) + 1 /\ Len(kept) \in Nat
      /\ \A i \in 1..Len(kept) : buffer'[i] = kept[i]
      /\ buffer'[Len(kept) + 1] = m
  BY <1>1, <1>2, <1>3, AppendProperties, LenProperties
<1>5. DOMAIN kept = 1..Len(kept) /\ DOMAIN buffer' = 1..Len(buffer')
  BY <1>2, <1>4, LenProperties
<1>6. ASSUME NEW i \in DOMAIN buffer'
      PROVE  /\ buffer'[i].generation <= generation'
             /\ state' = "open" /\ buffer'[i].generation = generation' => buffer'[i].socket = ws'
  <2>1. CASE i = Len(kept) + 1
    BY <1>1, <1>3, <1>4, <2>1 DEF m
  <2>2. CASE i # Len(kept) + 1
    <3>1. i \in DOMAIN kept /\ buffer'[i] = kept[i]
      BY <1>4, <1>5, <2>2
    <3>2. PICK j \in DOMAIN buffer : buffer'[i] = buffer[j]
      BY <1>2, <3>1
    <3>3. QED
      BY <1>3, <3>2 DEF Filed
  <2>3. QED
    BY <2>1, <2>2
<1>7. QED
  BY <1>2, <1>4, <1>6 DEF Filed

-----------------------------------------------------------------------------
(* The manager.                                                            *)

\* What a failed attempt does to the calls and to the policy.
LEMMA AttemptKept ==
  ASSUME TypeOK, NEW r \in Reconnects, NEW n \in 0..MaxAttempts,
         MaxAttempts = 0 \/ n < MaxAttempts, attemptFails(r, n)
  PROVE  /\ reconnectCall' \in [Reconnects -> {"idle", "awaiting", "delayed"}]
         /\ attempts' \in 0..MaxAttempts
BY ManagerAssumption DEF attemptFails, TypeOK

\* An attempt to connect again, whether it can begin or not.
LEMMA ReconnectKept ==
  ASSUME ManagerInv, ClientTypeOK', ClientInv', NEW r \in Reconnects, NEW n \in 0..MaxAttempts,
         MaxAttempts = 0 \/ n < MaxAttempts, doReconnect(r, n)
  PROVE  ManagerInv'
<1> USE SocketAssumption, ManagerAssumption
<1>1. TypeOK /\ Generations /\ ClientInv
  BY DEF ManagerInv
<1>2. buffer' = <<>> /\ UNCHANGED <<subscriptions, subscribed, generation>>
  BY DEF doReconnect
<1>3. Filed' /\ buffer' \in Seq(Message) /\ Len(buffer') <= MaxBuffer
  BY <1>2, EmptySeq DEF Filed
<1>4. CASE ws = 0
  <2>1. /\ connect(r) /\ reconnectCall' = [reconnectCall EXCEPT ![r] = "awaiting"]
        /\ attempts' = n
    BY <1>4 DEF doReconnect
  <2>2. /\ reconnectCall' \in [Reconnects -> {"idle", "awaiting", "delayed"}]
        /\ reconnectCall'[r] = "awaiting" /\ awaiting' = r
    BY <1>1, <2>1 DEF TypeOK, connect
  <2>3. Generations' /\ Retries'
    BY <1>1, <1>2, <1>4, <2>1, <2>2 DEF Generations, Retries, connect, TypeOK, ClientTypeOK
  <2>4. TypeOK'
    BY <1>1, <1>2, <1>3, <2>1, <2>2 DEF TypeOK, Message
  <2>5. QED
    BY <1>3, <2>3, <2>4 DEF ManagerInv
<1>5. CASE ws # 0
  <2>1. close /\ attemptFails(r, n)
    BY <1>5 DEF doReconnect
  <2>2. sockets'[ws] # "connecting" /\ ws' = ws /\ awaiting' = "nobody"
    BY <1>1, <1>5, <2>1 DEF close, TypeOK, ClientTypeOK, Sockets
  <2>3. Generations' /\ Retries'
    BY <1>1, <1>2, <2>2, CallersAssumption DEF Generations, Retries, Reconnects
  <2>4. /\ reconnectCall' \in [Reconnects -> {"idle", "awaiting", "delayed"}]
        /\ attempts' \in 0..MaxAttempts
    BY <1>1, <2>1, AttemptKept
  <2>5. TypeOK'
    BY <1>1, <1>2, <1>3, <2>4 DEF TypeOK, Message
  <2>6. QED
    BY <1>3, <2>3, <2>5 DEF ManagerInv
<1>6. QED
  BY <1>4, <1>5

\* Every kind of step keeps the declared shape, the counts of generations and retries, and
\* what the messages are filed under.
LEMMA ManagerKept ==
  ASSUME ManagerInv, ClientTypeOK', ClientInv', [Next]_vars
  PROVE  ManagerInv'
<1> USE SocketAssumption, ManagerAssumption
<1>1. /\ TypeOK /\ ClientInv /\ Generations /\ Retries /\ Filed /\ ClientTypeOK
      /\ buffer \in Seq(Message) /\ Len(buffer) <= MaxBuffer
  BY DEF ManagerInv, TypeOK, Message
<1>2. ASSUME UNCHANGED <<generation, buffer>>,
             state' = "open" => state = "open" /\ ws' = ws
      PROVE  Filed'
  BY <1>1, <1>2 DEF Filed
<1>3. CASE connectManager
  <2>1. Filed'
    BY <1>2, <1>3 DEF connectManager, connect, managerVars
  <2>2. Generations' /\ Retries'
    BY <1>1, <1>3 DEF Generations, Retries, connectManager, connect, managerVars, Reconnects,
                      TypeOK, ClientTypeOK
  <2>3. QED
    BY <1>1, <1>3, <2>1, <2>2 DEF ManagerInv, connectManager, managerVars, TypeOK
<1>3a. CASE closeClient
  <2>1. /\ ws # 0 /\ sockets'[ws] # "connecting" /\ ws' = ws /\ awaiting' = "nobody"
        /\ state' = "closing"
    BY <1>1, <1>3a DEF closeClient, close, ClientTypeOK, Sockets
  <2>2. Filed'
    BY <1>2, <1>3a, <2>1 DEF closeClient, managerVars
  <2>3. Generations' /\ Retries'
    BY <1>1, <1>3a, <2>1, CallersAssumption
       DEF closeClient, managerVars, Generations, Retries, Reconnects
  <2>4. QED
    BY <1>1, <1>3a, <2>2, <2>3 DEF ManagerInv, closeClient, managerVars, TypeOK
<1>4. ASSUME NEW r \in Reconnects, reconnect(r) PROVE ManagerInv'
  BY <1>1, <1>4, ReconnectKept DEF reconnect, TypeOK
<1>5. ASSUME NEW r \in Reconnects, reconnectWithPolicy(r) PROVE ManagerInv'
  <2>1. CASE attempts < MaxAttempts /\ doReconnect(r, attempts)
    BY <1>1, <2>1, ReconnectKept DEF TypeOK
  <2>2. CASE ~(attempts < MaxAttempts /\ doReconnect(r, attempts))
    <3>1. /\ reconnectCall[r] = "delayed" /\ reconnectCall' = [reconnectCall EXCEPT ![r] = "idle"]
          /\ UNCHANGED <<clientVars, subscriptions, subscribed, generation, buffer, attempts>>
      BY <1>5, <2>2 DEF reconnectWithPolicy
    <3>2. Filed' /\ Generations'
      BY <1>1, <1>2, <3>1 DEF clientVars, Generations
    <3>3. awaiting' = awaiting /\ attempts' = attempts
      BY <3>1 DEF clientVars
    <3>4. awaiting \in Reconnects => reconnectCall'[awaiting] = reconnectCall[awaiting]
      BY <1>1, <3>1 DEF Retries, TypeOK
    <3>5. Retries'
      BY <1>1, <3>3, <3>4 DEF Retries
    <3>6. reconnectCall' \in [Reconnects -> {"idle", "awaiting", "delayed"}]
      BY <1>1, <3>1 DEF TypeOK
    <3>7. QED
      BY <1>1, <3>1, <3>2, <3>5, <3>6 DEF ManagerInv, TypeOK
  <2>3. QED
    BY <2>1, <2>2
<1>6. ASSUME NEW s \in Sockets, opened(s) PROVE ManagerInv'
  <2>1. s = ws /\ sockets[ws] = "connecting" /\ ws' = ws /\ generation' = generation + 1
        /\ sockets'[ws] = "open" /\ awaiting' = "nobody" /\ UNCHANGED buffer
    BY <1>1, <1>6 DEF opened, onOpen, ClientInv, OneSocket, ClientTypeOK
  <2>2. Generations' /\ Retries'
    BY <1>1, <2>1, CallersAssumption
       DEF Generations, Retries, Reconnects, TypeOK, ClientTypeOK, Sockets
  <2>3. Filed'
    <3>1. \A i \in DOMAIN buffer : buffer[i].generation \in Nat
      <4>1. \A i \in DOMAIN buffer : buffer[i] \in Message
        BY <1>1
      <4>2. QED
        BY <4>1 DEF Message
    <3>2. generation \in Nat
      BY <1>1 DEF TypeOK
    <3>3. QED
      BY <1>1, <2>1, <3>1, <3>2 DEF Filed
  <2>4. generation' \in 0..MaxSockets
    BY <1>1, <2>1, <2>2 DEF TypeOK, ClientTypeOK, Generations
  <2>5. /\ subscribed' \in [Sockets -> SUBSET Subscriptions]
        /\ reconnectCall' \in [Reconnects -> {"idle", "awaiting", "delayed"}]
    BY <1>1, <1>6 DEF opened, succeeds, TypeOK
  <2>6. TypeOK'
    BY <1>1, <1>6, <2>4, <2>5 DEF TypeOK, opened
  <2>7. QED
    BY <2>2, <2>3, <2>6 DEF ManagerInv
<1>7. ASSUME NEW s \in Sockets, failed(s) PROVE ManagerInv'
  <2>1. Filed'
    BY <1>2, <1>7 DEF failed, onError
  <2>2. Generations' /\ awaiting' = "nobody"
    BY <1>1, <1>7 DEF Generations, failed, onError, TypeOK, ClientTypeOK
  <2>3. Retries'
    BY <2>2, CallersAssumption DEF Retries, Reconnects
  <2>4. /\ reconnectCall' \in [Reconnects -> {"idle", "awaiting", "delayed"}]
        /\ attempts' \in 0..MaxAttempts
    <3>1. CASE awaiting \in Reconnects
      <4>1. attemptFails(awaiting, attempts) /\ attempts \in 0..MaxAttempts
        BY <1>1, <1>7, <3>1 DEF failed, TypeOK
      <4>2. MaxAttempts = 0 \/ attempts < MaxAttempts
        BY <1>1, <3>1 DEF Retries
      <4>3. QED
        BY <1>1, <3>1, <4>1, <4>2, AttemptKept
    <3>2. CASE awaiting \notin Reconnects
      BY <1>1, <1>7, <3>2 DEF failed, TypeOK
    <3>3. QED
      BY <3>1, <3>2
  <2>5. QED
    BY <1>1, <1>7, <2>1, <2>2, <2>3, <2>4 DEF ManagerInv, TypeOK, failed
<1>8. ASSUME UNCHANGED <<clientVars, generation, reconnectCall, attempts>>
      PROVE  Generations' /\ Retries'
  BY <1>1, <1>8 DEF clientVars, Generations, Retries
<1>9. ASSUME NEW k \in Subscriptions, subscribe(k) PROVE ManagerInv'
  <2>1. subscribed' \in [Sockets -> SUBSET Subscriptions]
    <3>1. state = "open" => ws \in Sockets
      BY <1>1 DEF ClientInv, ClientTypeOK, Sockets
    <3>2. QED
      BY <1>1, <1>9, <3>1 DEF subscribe, sent, TypeOK
  <2>2. QED
    BY <1>1, <1>2, <1>8, <1>9, <2>1 DEF ManagerInv, TypeOK, subscribe, clientVars
<1>10. CASE unsubscribe
  <2>1. subscribed' \in [Sockets -> SUBSET Subscriptions]
    BY <1>1, <1>10 DEF unsubscribe, sent, TypeOK
  <2>2. QED
    BY <1>1, <1>2, <1>8, <1>10, <2>1 DEF ManagerInv, TypeOK, unsubscribe, clientVars
<1>11. CASE drain
  <2>1. /\ buffer' \in Seq(Message) /\ Len(buffer') <= MaxBuffer
        /\ \A i \in DOMAIN buffer' : \E j \in DOMAIN buffer : buffer'[i] = buffer[j]
    BY <1>1, <1>11, DrainKeeps
  <2>2. Filed'
    BY <1>1, <1>11, <2>1 DEF drain, clientVars, Filed
  <2>3. QED
    BY <1>1, <1>8, <1>11, <2>1, <2>2 DEF ManagerInv, TypeOK, drain, Message
<1>12. ASSUME NEW s \in Sockets, handleMessage(s) PROVE ManagerInv'
  <2>1. s = ws
    BY <1>1, <1>12 DEF handleMessage, ClientInv, OneSocket
  <2>2. Filed' /\ buffer' \in Seq(Message) /\ Len(buffer') <= MaxBuffer
    BY <1>1, <1>12, <2>1, FiledAfter
  <2>3. QED
    BY <1>1, <1>8, <1>12, <2>2 DEF ManagerInv, TypeOK, handleMessage, Message
<1>13. ASSUME ClientStep, UNCHANGED managerVars, UNCHANGED <<ws, awaiting>>,
              state' = "open" => state = "open",
              \A s \in Sockets : sockets'[s] = "connecting" => sockets[s] = "connecting"
       PROVE  ManagerInv'
  <2>1. Filed' /\ Retries'
    BY <1>1, <1>2, <1>13 DEF managerVars, Retries
  <2>2. Generations'
    BY <1>1, <1>13 DEF managerVars, Generations, ClientTypeOK, Sockets
  <2>3. QED
    BY <1>1, <1>13, <2>1, <2>2 DEF ManagerInv, TypeOK, managerVars
<1>14. ASSUME NEW s \in Sockets, onClose(s) \/ onPong(s) \/ FallsSilent(s), UNCHANGED managerVars
       PROVE  ManagerInv'
  BY <1>1, <1>13, <1>14 DEF onClose, onPong, FallsSilent, ClientStep, ClientTypeOK
<1>15. CASE Timer
  BY <1>1, <1>13, <1>15 DEF Timer, pings, pongTimeout, ClientStep, ClientTypeOK
<1>16. CASE UNCHANGED vars
  BY <1>1, <1>13, <1>16 DEF vars, clientVars, ClientStep
<1>17. QED
  BY <1>3, <1>4, <1>5, <1>6, <1>7, <1>9, <1>10, <1>11, <1>12, <1>14, <1>15, <1>16, <1>3a
     DEF Next, SocketEvent

-----------------------------------------------------------------------------
(* The specification.                                                      *)

\* The invariant of the manager and its client holds whatever closes, fails, is retried or
\* falls silent.
THEOREM ManagerInductive == Spec => []ManagerInv
<1>1. Init => ManagerInv
  <2> USE SocketAssumption, ManagerAssumption
  <2>1. <<>> \in Seq(Message) /\ Len(<<>>) = 0 /\ DOMAIN <<>> = {}
    BY EmptySeq
  <2> SUFFICES ASSUME Init PROVE ManagerInv
    OBVIOUS
  <2>2. TypeOK
    <3>1. ClientTypeOK
      <4>1. pingTimer \in BOOLEAN /\ pongTimer \in BOOLEAN
        BY Zenon DEF Init, ClientInit
      <4>2. ws \in 0..MaxSockets /\ awaiting \in Callers \cup {"nobody"}
        BY DEF Init, ClientInit
      <4>3. sockets \in [Sockets -> {"none", "connecting", "open", "closing", "dead"}]
        BY DEF Init, ClientInit
      <4>4. QED
        BY <4>1, <4>2, <4>3 DEF Init, ClientInit, ClientTypeOK
    <3>2. /\ subscriptions \in SUBSET Subscriptions /\ subscribed \in [Sockets -> SUBSET Subscriptions]
          /\ generation \in 0..MaxSockets /\ attempts \in 0..MaxAttempts
      BY DEF Init
    <3>2a. reconnectCall \in [Reconnects -> {"idle", "awaiting", "delayed"}]
      BY DEF Init
    <3>3. buffer \in Seq([generation : Nat, socket : Sockets]) /\ Len(buffer) <= MaxBuffer
      BY <2>1 DEF Init, Message
    <3>4. QED
      BY <3>1, <3>2, <3>2a, <3>3 DEF Init, TypeOK
  <2>3. ClientInv /\ Generations /\ Retries
    BY CallersAssumption
       DEF Init, ClientInit, ClientInv, OneSocket, Generations, Retries, Reconnects
  <2>4. Filed
    BY <2>1 DEF Init, Filed
  <2>5. QED
    BY <2>2, <2>3, <2>4 DEF ManagerInv
<1>2. ManagerInv /\ [Next]_vars => ManagerInv'
  <2> SUFFICES ASSUME ManagerInv, [Next]_vars PROVE ManagerInv'
    OBVIOUS
  <2>1. ClientTypeOK' /\ ClientInv'
    BY ClientKept, OnlyClientSteps DEF ManagerInv, TypeOK
  <2>2. QED
    BY <2>1, ManagerKept
<1>3. QED
  BY <1>1, <1>2, PTL DEF Spec

\* At most one socket is live, the client's own, and none while the client is closed: the
\* close event of a socket never ends its successor (connect, close, onClose).
THEOREM SocketsOneAtATime == Spec => []OneSocket
<1>1. ManagerInv => OneSocket
  BY DEF ManagerInv, ClientInv
<1>2. QED
  BY <1>1, ManagerInductive, PTL

\* The timeout of a ping shuts only the socket it was armed for, while that ping is
\* unanswered (pings, onPong, pongTimeout, clearTimers).
THEOREM TimeoutsAreOwn == Spec => HealthySocketKept
<1>1. ManagerInv /\ [Next]_vars =>
        [\A s \in Sockets :
           sockets[s] = "open" /\ sockets'[s] = "closing" /\ state' = "open"
             => s \in unanswered]_clientVars
  BY OnlyClientSteps, TimeoutStrikesItsSocket DEF ManagerInv, TypeOK
<1>2. QED
  BY <1>1, ManagerInductive, PTL DEF Spec, HealthySocketKept

\* While a connection is open the messages filed under the current generation came over it,
\* the variables keep their types and the buffer its bound (opened, handleMessage, drain).
THEOREM GenerationsTell == Spec => []GenerationIsSocket
<1>1. ManagerInv => GenerationIsSocket
  BY DEF ManagerInv, Filed, GenerationIsSocket
<1>2. QED
  BY <1>1, ManagerInductive, PTL
=============================================================================
