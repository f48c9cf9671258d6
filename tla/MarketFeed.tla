------------------------------ MODULE MarketFeed ------------------------------
(***************************************************************************)
(* The order books kept from the updates of the exchange: MarketFeed, the     *)
(* bounded one (src/websocket/market-feed.ts), and MultiMarketManager, that of *)
(* the markets asked for (src/websocket/multi-market.ts), on one WsManager.   *)
(* The exchange answers a subscription with its whole book and sends changes  *)
(* from then on, in order; updates of a broken connection are lost.           *)
(***************************************************************************)
EXTENDS OrderBook

CONSTANTS Markets,
          MaxBooks,   \* books of the MarketFeed
          MaxMoves,   \* changes of the exchange's books
          MaxWire     \* updates on the way

ASSUME FeedAssumption == MaxBooks \in Nat \ {0} /\ MaxMoves \in Nat /\ MaxWire \in Nat

VARIABLES exchange,      \* market to its book there, a set of levels for each side
          subscribed,    \* markets the exchange sends updates of
          subscriptions, \* markets of the WsManager's subscriptions
          wire,          \* updates that wait to be processed, with a gap for each that is not sent
          books, accessOrder,           \* MarketFeed: books and their keys, the latest used last
          markets, multiBooks,          \* MultiMarketManager
          reference,     \* history: market to the exchange's book after the updates processed
          whole, multiWhole,  \* history: markets whose book began with a whole one, without a gap
          moves

feedVars == <<exchange, subscribed, subscriptions, wire, books, accessOrder, markets, multiBooks,
              reference, whole, multiWhole, moves>>
outside == <<exchange, subscribed, moves>>
feed == <<books, accessOrder, whole>>
multi == <<markets, multiBooks, multiWhole>>

emptyBook == [bids |-> <<>>, asks |-> <<>>]
NoLevels == [bids |-> {}, asks |-> {}]

Level == [price : Nat, size : Nat]
Book == [bids : Seq(Level), asks : Seq(Level)]

FeedTypeOK ==
  /\ exchange \in [Markets -> [bids : SUBSET Level, asks : SUBSET Level]]
  /\ subscribed \subseteq Markets /\ subscriptions \subseteq Markets /\ markets \subseteq Markets
  /\ DOMAIN books \subseteq Markets /\ DOMAIN multiBooks \subseteq markets
  /\ \A m \in DOMAIN books : books[m] \in Book
  /\ \A m \in DOMAIN multiBooks : multiBooks[m] \in Book
  /\ accessOrder \in Seq(Markets)
  /\ Len(wire) <= MaxWire /\ moves \in 0..MaxMoves

FeedInit ==
  /\ exchange = [m \in Markets |-> NoLevels]
  /\ subscribed = {} /\ subscriptions = {} /\ wire = <<>>
  /\ books = <<>> /\ accessOrder = <<>>
  /\ markets = {} /\ multiBooks = <<>>
  /\ reference = [m \in Markets |-> NoLevels]
  /\ whole = {} /\ multiWhole = {}
  /\ moves = 0

-----------------------------------------------------------------------------
(* The exchange and the connection.                                         *)

\* kind: "whole" for an answer to a subscription, "change", or "gap" for one that does not arrive.
Update(kind, m, delta, book) == [kind |-> kind, market |-> m, delta |-> delta, after |-> book]
WholeBook(m) ==
  Update("whole", m, [bids |-> SetToSeq(exchange[m].bids), asks |-> SetToSeq(exchange[m].asks)],
         exchange[m])

ExchangeMoves(m, side, level, lost) ==
  LET delta == [emptyBook EXCEPT ![side] = <<level>>]
      others == {l \in exchange[m][side] : l.price # level.price}
      book == [exchange[m] EXCEPT ![side] = IF level.size = 0 THEN others ELSE others \cup {level}]
  IN  /\ moves < MaxMoves /\ Len(wire) < MaxWire
      /\ moves' = moves + 1
      /\ exchange' = [exchange EXCEPT ![m] = book]
      /\ wire' = Append(wire, Update(IF lost \/ m \notin subscribed THEN "gap" ELSE "change",
                                     m, delta, book))
      /\ UNCHANGED <<subscribed, subscriptions, feed, multi, reference>>

\* The WsManager drops what it had buffered, connects and replays its subscriptions: each is answered.
Reconnects ==
  /\ Len(wire) + Cardinality(subscriptions) <= MaxWire
  /\ subscribed' = subscriptions
  /\ wire' = [i \in DOMAIN wire |-> [wire[i] EXCEPT !.kind = "gap"]] \o SetToSeq({WholeBook(m) : m \in subscriptions})
  /\ UNCHANGED <<exchange, subscriptions, feed, multi, reference, moves>>

-----------------------------------------------------------------------------
(* MultiMarketManager.                                                      *)

Forget(f, m) == Restrict(f, DOMAIN f \ {m})

\* The market is one of its markets, and of the subscriptions, even when nothing was sent.
addMarket(m, sent) ==
  /\ m \notin markets /\ Len(wire) < MaxWire
  /\ markets' = markets \cup {m}
  /\ subscriptions' = subscriptions \cup {m}
  /\ subscribed' = IF sent THEN subscribed \cup {m} ELSE subscribed
  /\ wire' = IF sent THEN Append(wire, WholeBook(m)) ELSE wire
  /\ UNCHANGED <<exchange, moves, feed, multiBooks, multiWhole, reference>>

\* Only with the last market the channel is unsubscribed.
removeMarket(m, sent) ==
  /\ m \in markets
  /\ markets' = markets \ {m}
  /\ multiBooks' = Forget(multiBooks, m)
  /\ multiWhole' = multiWhole \ {m}
  /\ IF markets' = {} THEN subscriptions' = {} /\ subscribed' = IF sent THEN {} ELSE subscribed
                      ELSE UNCHANGED <<subscriptions, subscribed>>
  /\ UNCHANGED <<exchange, moves, wire, feed, reference>>

-----------------------------------------------------------------------------
(* MarketFeed.                                                              *)

touch(order, m) == Append(RemoveFirst(order, m), m)

getBook(m) == /\ m \in DOMAIN books
              /\ accessOrder' = touch(accessOrder, m)
              /\ UNCHANGED <<outside, subscriptions, wire, books, whole, multi, reference>>

removeBook(m) == /\ m \in DOMAIN books
                 /\ books' = Forget(books, m)
                 /\ accessOrder' = RemoveFirst(accessOrder, m)
                 /\ whole' = whole \ {m}
                 /\ UNCHANGED <<outside, subscriptions, wire, multi, reference>>

\* The books with an update put into the one of its market, which may begin with it.
Applied(f, u) ==
  LET existing == IF u.market \in DOMAIN f THEN f[u.market] ELSE emptyBook IN
  [m \in DOMAIN f \cup {u.market} |-> IF m = u.market THEN applyDelta(existing, u.delta) ELSE f[m]]

\* The keys of an order that stay, the most recently used ones.
evictIfNeeded(order) == SubSeq(order, IF Len(order) > MaxBooks THEN Len(order) - MaxBooks + 1 ELSE 1, Len(order))

\* A book is whole when a whole book was its first update, until one does not arrive.
WholeAfter(set, f, u) ==
  IF u.kind = "whole" /\ u.market \notin DOMAIN f THEN set \cup {u.market} ELSE set

\* applyBookUpdate of the MarketFeed and of the manager, for the next update on the wire.
ProcessUpdate ==
  LET u == Head(wire)  kept == evictIfNeeded(touch(accessOrder, u.market)) IN
  /\ wire # <<>> /\ u.kind # "gap"
  /\ wire' = Tail(wire)
  /\ reference' = [reference EXCEPT ![u.market] = u.after]
  /\ books' = Restrict(Applied(books, u), ToSet(kept))
  /\ accessOrder' = kept
  /\ whole' = WholeAfter(whole, books, u) \cap ToSet(kept)
  /\ IF u.market \in markets
     THEN multiBooks' = Applied(multiBooks, u) /\ multiWhole' = WholeAfter(multiWhole, multiBooks, u)
     ELSE UNCHANGED <<multiBooks, multiWhole>>
  /\ UNCHANGED <<outside, subscriptions, markets>>

GapPasses ==
  LET u == Head(wire) IN
  /\ wire # <<>> /\ u.kind = "gap"
  /\ wire' = Tail(wire)
  /\ reference' = [reference EXCEPT ![u.market] = u.after]
  /\ whole' = whole \ {u.market} /\ multiWhole' = multiWhole \ {u.market}
  /\ UNCHANGED <<outside, subscriptions, books, accessOrder, markets, multiBooks>>

FeedNext ==
  \/ \E m \in Markets :
       \/ \E side \in {"bids", "asks"}, price \in 1..2, size \in {0, 2}, lost \in BOOLEAN :
            ExchangeMoves(m, side, [price |-> price, size |-> size], lost)
       \/ \E sent \in BOOLEAN : addMarket(m, sent) \/ removeMarket(m, sent)
       \/ getBook(m) \/ removeBook(m)
  \/ Reconnects \/ ProcessUpdate \/ GapPasses

FeedSpec == FeedInit /\ [][FeedNext]_feedVars

-----------------------------------------------------------------------------
(* Properties.                                                             *)

IsSide(levels, set, better(_, _)) ==
  ToSet(levels) = set /\ \A i, j \in DOMAIN levels : i < j => better(levels[i], levels[j])
IsBook(book, there) == IsSide(book.bids, there.bids, Descending) /\ IsSide(book.asks, there.asks, Ascending)

\* A book that began with a whole one and lost no update is the exchange's, in both stores,
\* and the feed keeps as many books as it may, each of them in its order once.
BookAgrees ==
  /\ \A m \in whole : m \in DOMAIN books /\ IsBook(books[m], reference[m])
  /\ \A m \in multiWhole : m \in DOMAIN multiBooks /\ IsBook(multiBooks[m], reference[m])
  /\ Cardinality(DOMAIN books) <= MaxBooks
  /\ IsInjective(accessOrder) /\ Range(accessOrder) = DOMAIN books
=============================================================================
