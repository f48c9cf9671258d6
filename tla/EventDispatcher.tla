--------------------------- MODULE EventDispatcher ---------------------------
(***************************************************************************)
(* Synchronous publish and subscribe (src/events/event-dispatcher.ts).  A     *)
(* handler may subscribe, unsubscribe, clear or emit while it is called, and   *)
(* may throw, so emissions nest: stack holds those under way, the innermost   *)
(* last, each with the handlers still to call of a copy of the list.          *)
(***************************************************************************)
EXTENDS Integers, SequencesExt

CONSTANTS Handlers,
          MaxListed,  \* subscriptions of one list
          MaxDepth,   \* emissions that nest
          MaxEdits,   \* changes of the subscriptions
          NoHandler

ASSUME EventAssumption == MaxListed \in Nat /\ MaxDepth \in Nat /\ MaxEdits \in Nat

Channels == {"sdk", "domain"}
Lists == {"typed", "*"}  \* the handlers of the event's type and those of all types

VARIABLES handlers,  \* channel and list to the handlers, in the order of registration
          stack,
          edits

eventVars == <<handlers, stack, edits>>

Subscriptions == [Lists -> Seq(Handlers)]
Tally == [Lists -> [Handlers -> Nat]]

Emission == [channel : Channels, list : Lists, todo : Seq(Handlers),
             calling : Handlers \cup {NoHandler}, called : Tally, least : Tally, most : Tally]

EventTypeOK ==
  /\ handlers \in [Channels -> Subscriptions]
  /\ stack \in Seq(Emission)
  /\ edits \in 0..MaxEdits

Counts(list) == [h \in Handlers |-> Cardinality({i \in DOMAIN list : list[i] = h})]
None == [h \in Handlers |-> 0]

EventInit ==
  /\ handlers = [ch \in Channels |-> [l \in Lists |-> <<>>]]
  /\ stack = <<>> /\ edits = 0

Innermost == Last(stack)

\* Nothing is emitted, or the handler being called does something of its own.
MayAct == stack # <<>> => Innermost.calling # NoHandler

\* The emissions under way of a channel, their history brought up to date.
Noted(ch, note(_)) == [i \in DOMAIN stack |-> IF stack[i].channel = ch THEN note(stack[i]) ELSE stack[i]]

\* onSdk, onDomain
on(ch, l, h) ==
  /\ MayAct /\ edits < MaxEdits /\ Len(handlers[ch][l]) < MaxListed
  /\ edits' = edits + 1
  /\ handlers' = [handlers EXCEPT ![ch][l] = Append(@, h)]
  /\ stack' = Noted(ch, LAMBDA e : [e EXCEPT !.most[l][h] = @ + 1])

\* What on returned: the first registration of the handler goes.
off(ch, l, h) ==
  /\ MayAct /\ edits < MaxEdits /\ Contains(handlers[ch][l], h)
  /\ edits' = edits + 1
  /\ handlers' = [handlers EXCEPT ![ch][l] = RemoveFirst(@, h)]
  /\ stack' = Noted(ch, LAMBDA e : [e EXCEPT !.least[l][h] = IF @ = 0 THEN 0 ELSE @ - 1])

clearHandlers ==
  /\ MayAct /\ edits < MaxEdits
  /\ edits' = edits + 1
  /\ handlers' = [ch \in Channels |-> [l \in Lists |-> <<>>]]
  /\ stack' = [i \in DOMAIN stack |-> [stack[i] EXCEPT !.least = [l \in Lists |-> None]]]

\* emitSdk, emitDomain: the handlers of the type first.
emit(ch) ==
  /\ MayAct /\ Len(stack) < MaxDepth
  /\ stack' = Append(stack, [channel |-> ch, list |-> "typed", todo |-> handlers[ch]["typed"],
                             calling |-> NoHandler,
                             called |-> [l \in Lists |-> None],
                             least |-> [l \in Lists |-> Counts(handlers[ch][l])],
                             most |-> [l \in Lists |-> Counts(handlers[ch][l])]])
  /\ UNCHANGED <<handlers, edits>>

Inner(e) == stack' = [stack EXCEPT ![Len(stack)] = e] /\ UNCHANGED <<handlers, edits>>

\* Mutant: the loop runs over the list itself, by position.
dispatchLive ==
  LET e == Innermost  live == handlers[e.channel][e.list]
      position == FoldFunction(+, 1, e.called[e.list]) IN
  /\ stack # <<>> /\ e.calling = NoHandler /\ e.todo # <<>>
  /\ IF position \in DOMAIN live
     THEN Inner([e EXCEPT !.calling = live[position], !.todo = Tail(@),
                          !.called[e.list][live[position]] = @ + 1])
     ELSE Inner([e EXCEPT !.todo = <<>>])

\* dispatchAll: the next handler is called, and returns or throws; either way the next follows.
dispatchAll ==
  LET e == Innermost IN
  /\ stack # <<>> /\ e.calling = NoHandler /\ e.todo # <<>>
  /\ Inner([e EXCEPT !.calling = Head(e.todo), !.todo = Tail(@), !.called[e.list][Head(e.todo)] = @ + 1])

HandlerEnds ==
  /\ stack # <<>> /\ Innermost.calling # NoHandler
  /\ Inner([Innermost EXCEPT !.calling = NoHandler])

\* The list of all types is read once the handlers of the type are done.
DispatchAny ==
  LET e == Innermost IN
  /\ stack # <<>> /\ e.calling = NoHandler /\ e.todo = <<>> /\ e.list = "typed"
  /\ Inner([e EXCEPT !.list = "*", !.todo = handlers[e.channel]["*"]])

EmitEnds ==
  /\ stack # <<>> /\ Innermost.calling = NoHandler /\ Innermost.todo = <<>> /\ Innermost.list = "*"
  /\ stack' = Front(stack) /\ UNCHANGED <<handlers, edits>>

EventNext ==
  \/ \E ch \in Channels : emit(ch) \/ \E l \in Lists, h \in Handlers : on(ch, l, h) \/ off(ch, l, h)
  \/ clearHandlers \/ dispatchAll \/ HandlerEnds \/ DispatchAny \/ EmitEnds

EventSpec == EventInit /\ [][EventNext]_eventVars

-----------------------------------------------------------------------------
(* Properties.                                                             *)

\* An emission calls every handler that stays subscribed once per subscription, whatever the
\* handlers it calls throw, subscribe, unsubscribe or emit, and none more often.
DeliveredOnce ==
  [][Len(stack') < Len(stack) =>
       \A l \in Lists, h \in Handlers :
         Innermost.called[l][h] \in Innermost.least[l][h]..Innermost.most[l][h]]_stack
=============================================================================
