--------------------------- MODULE AlgorithmProofs ---------------------------
(***************************************************************************)
(* Proofs about the pure decisions of MCAlgorithms, for every input and not   *)
(* only the small ones TLC asks about: checkArbitrage (arbitrage.ts), addTrade *)
(* (kline-aggregator.ts), calculateRebalance (rebalancer.ts), selectTop        *)
(* (market-scanner.ts), scan (scanner.ts), diffOrders (order-differ.ts), the   *)
(* fill probability (queue-model.ts) and the oscillators (momentum-, trend-    *)
(* and volume-indicators.ts).  The run's properties follow, because what it    *)
(* asks about and what it adds to its histories are such inputs.              *)
(***************************************************************************)
EXTENDS MCAlgorithms, FiniteSetTheorems, WellFoundedInduction, SequenceTheorems, TLAPS

-----------------------------------------------------------------------------
(* The opportunity: what the effective prices of the two outcome tokens have *)
(* to do with each other.                                                  *)

\* A larger amount pays no smaller fee.
LEMMA FeeGrows ==
  ASSUME NEW rate \in Nat, NEW a \in Nat, NEW b \in Nat, a <= b
  PROVE  rate * a <= rate * b
<1> DEFINE d == b - a
<1>1. d \in Nat /\ b = a + d
  OBVIOUS
<1>2. rate * d \in Nat
  BY <1>1
<1>3. rate * (a + d) = rate * a + rate * d
  BY <1>1
<1> QED
  BY <1>1, <1>2, <1>3

\* A price has its mirror's mirror, and no price has none: nothing is clamped.
LEMMA MirrorOfPrice ==
  ASSUME NEW price \in Prices
  PROVE  /\ Mirror(price) \in Prices
         /\ price = NoPrice <=> Mirror(price) = NoPrice
         /\ price # NoPrice => Mirror(price) = One - price
<1>1. CASE price = NoPrice
  BY <1>1, PriceAssumption DEF Mirror, Prices
<1>2. CASE price \in 0..One
  BY <1>2, PriceAssumption DEF Mirror, Prices, clampMirror, Higher, Lower
<1> QED
  BY <1>1, <1>2 DEF Prices

\* A price of a sale and of a purchase as BestSale and BestBuy find them.
SellsAt(sell, bid, otherAsk) ==
  /\ bid = NoPrice => sell = Mirror(otherAsk)
  /\ bid # NoPrice /\ otherAsk = NoPrice => sell = bid
  /\ bid # NoPrice /\ otherAsk # NoPrice => sell = Higher(bid, Mirror(otherAsk))

BuysAt(buy, ask, otherBid) ==
  /\ ask = NoPrice => buy = Mirror(otherBid)
  /\ ask # NoPrice /\ otherBid = NoPrice => buy = ask
  /\ ask # NoPrice /\ otherBid # NoPrice => buy = Lower(ask, Mirror(otherBid))

\* Both prices exist or neither does, and they sum to One.
Mirrored(sell, buy) ==
  /\ sell \in Prices /\ buy \in Prices
  /\ sell = NoPrice <=> buy = NoPrice
  /\ sell # NoPrice => buy = One - sell

\* Selling a token at its effective price is buying the other one at its effective price.
LEMMA SellIsBuyOfOther ==
  ASSUME NEW bid \in Prices, NEW ask \in Prices, NEW sell, NEW buy,
         SellsAt(sell, bid, ask), BuysAt(buy, ask, bid)
  PROVE  Mirrored(sell, buy)
<1>1. /\ Mirror(bid) \in Prices
      /\ bid = NoPrice <=> Mirror(bid) = NoPrice
      /\ bid # NoPrice => Mirror(bid) = One - bid
  BY MirrorOfPrice
<1>2. /\ Mirror(ask) \in Prices
      /\ ask = NoPrice <=> Mirror(ask) = NoPrice
      /\ ask # NoPrice => Mirror(ask) = One - ask
  BY MirrorOfPrice
<1>3. CASE bid = NoPrice
  BY <1>1, <1>2, <1>3, PriceAssumption DEF SellsAt, BuysAt, Mirrored, Prices
<1>4. CASE bid # NoPrice /\ ask = NoPrice
  BY <1>1, <1>2, <1>4, PriceAssumption DEF SellsAt, BuysAt, Mirrored, Prices
<1>5. CASE bid # NoPrice /\ ask # NoPrice
  <2>1. sell = Higher(bid, One - ask) /\ buy = Lower(ask, One - bid)
    BY <1>1, <1>2, <1>5 DEF SellsAt, BuysAt
  <2>2. bid \in 0..One /\ ask \in 0..One
    BY <1>5 DEF Prices
  <2> QED
    BY <2>1, <2>2, PriceAssumption DEF Higher, Lower, Mirrored, Prices
<1> QED
  BY <1>3, <1>4, <1>5

\* The four effective prices are such prices, of the token's own side and the other's mirror.
LEMMA EffectivePrices ==
  ASSUME NEW q \in Quote
  PROVE  LET p == getEffectivePrices(q) IN
         /\ SellsAt(p.sellYes, q.yesBid, q.noAsk) /\ BuysAt(p.buyNo, q.noAsk, q.yesBid)
         /\ SellsAt(p.sellNo, q.noBid, q.yesAsk) /\ BuysAt(p.buyYes, q.yesAsk, q.noBid)
<1>1. /\ q.yesBid \in Prices /\ q.yesAsk \in Prices /\ q.noBid \in Prices /\ q.noAsk \in Prices
  BY DEF Quote
<1>2. \A price \in Prices : price = NoPrice <=> Mirror(price) = NoPrice
  BY MirrorOfPrice
<1> QED
  BY <1>1, <1>2 DEF getEffectivePrices, BestBuy, BestSale, SellsAt, BuysAt

\* checkArbitrage never answers "short" (arbitrage.ts:43): whenever the sale of both tokens
\* would pay, the purchase of both, tried before it, pays as much gross and less in fees.
THEOREM NeverShort ==
  ASSUME NEW q \in Quote, NEW feeRate \in Nat
  PROVE  checkArbitrage(q, feeRate).type # "short"
<1> DEFINE p == getEffectivePrices(q)
           long  == NetOf(One - (p.buyYes + p.buyNo), p.buyYes + p.buyNo, feeRate)
           short == NetOf((p.sellYes + p.sellNo) - One, p.sellYes + p.sellNo, feeRate)
<1>1. /\ q.yesBid \in Prices /\ q.yesAsk \in Prices /\ q.noBid \in Prices /\ q.noAsk \in Prices
  BY DEF Quote
<1>2. /\ SellsAt(p.sellYes, q.yesBid, q.noAsk) /\ BuysAt(p.buyNo, q.noAsk, q.yesBid)
      /\ SellsAt(p.sellNo, q.noBid, q.yesAsk) /\ BuysAt(p.buyYes, q.yesAsk, q.noBid)
  BY EffectivePrices
<1>3. Mirrored(p.sellYes, p.buyNo) /\ Mirrored(p.sellNo, p.buyYes)
  BY <1>2, <1>1, SellIsBuyOfOther
<1>4. ASSUME p.sellYes # NoPrice, p.sellNo # NoPrice, p.sellYes + p.sellNo > One, short > 0
      PROVE  /\ p.buyYes # NoPrice /\ p.buyNo # NoPrice
             /\ p.buyYes + p.buyNo < One /\ long > 0
  <2> DEFINE sold == p.sellYes + p.sellNo  bought == p.buyYes + p.buyNo
  <2>1. p.sellYes \in 0..One /\ p.sellNo \in 0..One
    BY <1>3, <1>4 DEF Mirrored, Prices
  <2>2. p.buyNo = One - p.sellYes /\ p.buyYes = One - p.sellNo
    BY <1>3, <1>4 DEF Mirrored
  <2>3. sold \in Nat /\ bought \in Nat /\ One - bought = sold - One /\ bought < One /\ bought <= sold
    BY <1>4, <2>1, <2>2, PriceAssumption
  <2>4. feeRate * bought <= feeRate * sold
    BY <2>3, FeeGrows
  <2>5. (One - bought) * FeeUnit = (sold - One) * FeeUnit
    BY <2>3
  <2>6. long >= short
    <3> HIDE DEF sold, bought
    <3>1. long = (sold - One) * FeeUnit - feeRate * bought
      BY <2>5 DEF NetOf, sold, bought
    <3>2. short = (sold - One) * FeeUnit - feeRate * sold
      BY DEF NetOf, sold, bought
    <3>3. /\ (sold - One) * FeeUnit \in Int
          /\ feeRate * bought \in Int /\ feeRate * sold \in Int
      BY <2>3, PriceAssumption
    <3> QED
      BY <3>1, <3>2, <3>3, <2>4
  <2>7. long \in Int /\ short \in Int
    BY <2>3, PriceAssumption DEF NetOf
  <2> QED
    BY <1>3, <1>4, <2>3, <2>6, <2>7 DEF Mirrored
<1> QED
  BY <1>4 DEF checkArbitrage, NoOpportunity

\* Nor do the two ways to compute the profit of a long pair differ.
LEMMA LongNet ==
  ASSUME NEW q \in Quote, NEW rate \in Nat,
         checkArbitrage(q, rate).type = "long"
  PROVE  LET found == checkArbitrage(q, rate) IN
         found.net = calcArbProfit(found.yes, found.no, 1, rate).net
<1> DEFINE p == getEffectivePrices(q)
           long == NetOf(One - (p.buyYes + p.buyNo), p.buyYes + p.buyNo, rate)
           found == checkArbitrage(q, rate)
<1>1. /\ found = [type |-> "long", net |-> long, yes |-> p.buyYes, no |-> p.buyNo]
      /\ p.buyYes # NoPrice /\ p.buyNo # NoPrice
  BY DEF checkArbitrage, NoOpportunity
<1>2. p.buyYes \in Prices /\ p.buyNo \in Prices
  <2>1. \A price \in Prices : Mirror(price) \in Prices
    BY MirrorOfPrice
  <2>2. \A a, b \in Prices : BestBuy(a, b) \in Prices
    BY DEF BestBuy, Lower
  <2> QED
    BY <2>1, <2>2 DEF Quote, getEffectivePrices
<1>3. PICK a \in 0..One : a = p.buyYes
  BY <1>1, <1>2 DEF Prices
<1>4. PICK b \in 0..One : b = p.buyNo
  BY <1>1, <1>2 DEF Prices
<1>5. found.net = (One - (a + b)) * FeeUnit - rate * (a + b)
  BY <1>1, <1>3, <1>4 DEF NetOf
<1>6. calcArbProfit(found.yes, found.no, 1, rate).net
        = (One - a - b) * 1 * FeeUnit - rate * ((a + b) * 1)
  BY <1>1, <1>3, <1>4 DEF calcArbProfit
<1>7. One - (a + b) = (One - a - b) * 1 /\ (a + b) * 1 = a + b
  BY PriceAssumption
<1> QED
  BY <1>5, <1>6, <1>7

\* What is asked is an input of one kind.
AskedInv ==
  asked # Idle => \/ asked \in Quotes \/ asked \in Portfolios \/ asked \in Diffs
                  \/ asked \in Rotations \/ asked \in Oracles \/ asked \in Queues

LEMMA AskedStays == Spec => []AskedInv
<1>1. Init => AskedInv
  BY DEF Init, AskedInv
<1>2. AskedInv /\ [Next]_algorithmVars => AskedInv'
  BY DEF AskedInv, Next, Ask, AddCandle, AddTrade, algorithmVars
<1> QED
  BY <1>1, <1>2, PTL DEF Spec

LEMMA QuoteAsked ==
  ASSUME AskedInv, Is("quote")
  PROVE  asked.quote \in Quote /\ asked.fee \in Nat
<1>1. asked \in Quotes
  BY DEF AskedInv, Is, Quotes, Portfolios, Diffs, Rotations, Oracles, Queues
<1> QED
  BY <1>1 DEF Quotes

\* LongDominates, of every quote asked for: checkArbitrage never finds the short pair
\* (arbitrage.ts:43), and calcArbProfit agrees about the long one.
THEOREM LongAlwaysDominates == Spec => []LongDominates
<1>1. AskedInv => LongDominates
  <2> SUFFICES ASSUME AskedInv, Is("quote")
               PROVE  LET found == checkArbitrage(asked.quote, asked.fee) IN
                      /\ found.type # "short"
                      /\ found.type = "long" =>
                           found.net = calcArbProfit(found.yes, found.no, 1, asked.fee).net
    BY DEF LongDominates
  <2> QED
    BY QuoteAsked, NeverShort, LongNet
<1> QED
  BY <1>1, AskedStays, PTL

-----------------------------------------------------------------------------
(* Induction.                                                               *)

LEMMA LeastNumber ==
  ASSUME NEW T \in SUBSET Nat, T # {}
  PROVE  \E x \in T : \A y \in T : x <= y
<1> DEFINE R == {ss \in Nat \X Nat : ss[1] < ss[2]}
<1>1. R = OpToRel(<, Nat)
  BY DEF OpToRel
<1>2. IsWellFoundedOn(R, Nat)
  BY <1>1, NatLessThanWellFounded
<1>3. PICK x \in T : \A y \in T : ~ (<<y, x>> \in R)
  BY <1>2, WFMin
<1>4. ASSUME NEW y \in T PROVE x <= y
  <2>1. x \in Nat /\ y \in Nat /\ (y < x => <<y, x>> \in R)
    OBVIOUS
  <2> HIDE DEF R
  <2>2. QED
    BY <2>1, <1>3
<1>5. QED
  BY <1>4

\* A set with 0 and the successor of each of its numbers has them all.
LEMMA AllNumbers ==
  ASSUME NEW S, 0 \in S, \A n \in Nat : n \in S => n + 1 \in S
  PROVE  \A n \in Nat : n \in S
<1> SUFFICES ASSUME Nat \ S # {} PROVE FALSE
  OBVIOUS
<1>1. PICK x \in Nat \ S : \A y \in Nat \ S : x <= y
  BY LeastNumber
<1>2. x - 1 \in Nat /\ x - 1 + 1 = x
  BY <1>1
<1> QED
  BY <1>1, <1>2

\* A family of subsets that has {}, and each set whose every smaller set by one it has, has all.
LEMMA AllSubsets ==
  ASSUME NEW S, IsFiniteSet(S), NEW G, {} \in G,
         \A t \in SUBSET S : t # {} /\ (\A x \in t : t \ {x} \in G) => t \in G
  PROVE  \A t \in SUBSET S : t \in G
<1> SUFFICES ASSUME NEW u \in SUBSET S, u \notin G PROVE FALSE
  OBVIOUS
<1> DEFINE N == {Cardinality(t) : t \in (SUBSET S) \ G}
<1>1. \A t \in SUBSET S : IsFiniteSet(t) /\ Cardinality(t) \in Nat
  BY FS_Subset, FS_CardinalityType
<1>2. PICK n \in N : \A y \in N : n <= y
  <2>1. N \in SUBSET Nat /\ N # {}
    BY <1>1
  <2> HIDE DEF N
  <2> QED
    BY <2>1, LeastNumber
<1>3. PICK t \in (SUBSET S) \ G : n = Cardinality(t)
  OBVIOUS
<1>4. ASSUME NEW x \in t PROVE t \ {x} \in G
  <2>1. Cardinality(t \ {x}) = Cardinality(t) - 1
    BY <1>1, FS_RemoveElement
  <2>2. t \ {x} \in SUBSET S /\ Cardinality(t) \in Nat
    BY <1>1
  <2>3. SUFFICES ASSUME t \ {x} \notin G PROVE FALSE
    OBVIOUS
  <2>4. Cardinality(t \ {x}) \in N
    BY <2>2, <2>3
  <2> HIDE DEF N
  <2> QED
    BY <1>2, <1>3, <2>1, <2>2, <2>4
<1>5. t # {} /\ t \in SUBSET S /\ t \notin G
  OBVIOUS
<1> HIDE DEF N
<1> QED
  BY <1>4, <1>5

\* The sums of w over the subsets of S, any element of each taken last.
AnyOf(t) == CHOOSE x \in t : TRUE
SumBy(g, w, t) == IF t = {} THEN 0 ELSE w[AnyOf(t)] + g[t \ {AnyOf(t)}]
Sums(g, w, S) == g = [t \in SUBSET S |-> SumBy(g, w, t)]

LEMMA SumsExist ==
  ASSUME NEW S, IsFiniteSet(S), NEW w
  PROVE  \E g : Sums(g, w, S)
<1> DEFINE Small(n) == {t \in SUBSET S : Cardinality(t) <= n}
           N == {n \in Nat : \E g : g = [t \in Small(n) |-> SumBy(g, w, t)]}
<1>1. \A t \in SUBSET S : IsFiniteSet(t) /\ Cardinality(t) \in Nat
  BY FS_Subset, FS_CardinalityType
<1>2. 0 \in N
  <2> DEFINE g == [t \in Small(0) |-> 0]
  <2>1. \A t \in Small(0) : t = {}
    BY <1>1, FS_EmptySet
  <2>2. g = [t \in Small(0) |-> SumBy(g, w, t)]
    BY <2>1 DEF SumBy
  <2> QED
    BY <2>2
<1>3. ASSUME NEW n \in Nat, n \in N PROVE n + 1 \in N
  <2>1. PICK g : g = [t \in Small(n) |-> SumBy(g, w, t)]
    BY <1>3
  <2> DEFINE h == [t \in Small(n + 1) |-> IF t \in Small(n) THEN g[t] ELSE SumBy(g, w, t)]
  <2>2. ASSUME NEW t \in Small(n + 1), t # {} PROVE t \ {AnyOf(t)} \in Small(n)
    <3>1. Cardinality(t \ {AnyOf(t)}) = Cardinality(t) - 1
      BY <1>1, <2>2, FS_RemoveElement DEF AnyOf
    <3> QED
      BY <1>1, <3>1
  <2>3. Small(n) \subseteq Small(n + 1)
    BY <1>1
  <2> HIDE DEF Small
  <2>4. ASSUME NEW t \in Small(n + 1) PROVE h[t] = SumBy(h, w, t)
    <3>1. h[t] = SumBy(g, w, t)
      BY <2>1
    <3>2. t # {} => h[t \ {AnyOf(t)}] = g[t \ {AnyOf(t)}]
      BY <2>2, <2>3
    <3> HIDE DEF h
    <3> QED
      BY <3>1, <3>2 DEF SumBy
  <2>5. h = [t \in Small(n + 1) |-> SumBy(h, w, t)]
    BY <2>4
  <2> HIDE DEF h
  <2> QED
    BY <2>5
<1>4. PICK n \in Nat : n = Cardinality(S)
  BY FS_CardinalityType
<1>5. n \in N
  <2> HIDE DEF N
  <2> QED
    BY <1>2, <1>3, AllNumbers
<1>6. Small(n) = SUBSET S
  BY <1>4, FS_Subset
<1>7. PICK g : g = [t \in Small(n) |-> SumBy(g, w, t)]
  BY <1>5
<1> QED
  BY <1>6, <1>7 DEF Sums

LEMMA SumsTyped ==
  ASSUME NEW S, IsFiniteSet(S), NEW w \in [S -> Nat], NEW g, Sums(g, w, S)
  PROVE  \A t \in SUBSET S : g[t] \in Nat
<1> DEFINE G == {t \in SUBSET S : g[t] \in Nat}
<1>1. \A t \in SUBSET S : g[t] = SumBy(g, w, t)
  BY DEF Sums
<1>2. {} \in G
  BY <1>1 DEF SumBy
<1>3. ASSUME NEW t \in SUBSET S, t # {}, \A x \in t : t \ {x} \in G PROVE t \in G
  <2>1. PICK c \in t : g[t] = w[c] + g[t \ {c}]
    BY <1>1, <1>3 DEF SumBy, AnyOf
  <2> QED
    BY <1>3, <2>1
<1> HIDE DEF G
<1>4. \A t \in SUBSET S : t \in G
  BY <1>2, <1>3, AllSubsets
<1> QED
  BY <1>4 DEF G

\* Any element may be the one taken last.
Takes(g, w, S) == g[{}] = 0 /\ \A t \in SUBSET S : \A x \in t : g[t] = w[x] + g[t \ {x}]

LEMMA SumsTake ==
  ASSUME NEW S, IsFiniteSet(S), NEW w \in [S -> Nat], NEW g, Sums(g, w, S)
  PROVE  Takes(g, w, S)
<1> DEFINE G == {t \in SUBSET S : \A x \in t : g[t] = w[x] + g[t \ {x}]}
<1>1. \A t \in SUBSET S : g[t] = SumBy(g, w, t) /\ g[t] \in Nat
  BY SumsTyped DEF Sums
<1>2. {} \in G /\ g[{}] = 0
  BY <1>1 DEF SumBy
<1>3. ASSUME NEW t \in SUBSET S, t # {}, \A x \in t : t \ {x} \in G PROVE t \in G
  <2>1. PICK c \in t : g[t] = w[c] + g[t \ {c}]
    BY <1>1, <1>3 DEF SumBy, AnyOf
  <2>2. ASSUME NEW x \in t, x # c PROVE g[t] = w[x] + g[t \ {x}]
    <3>1. x \in t \ {c} /\ c \in t \ {x} /\ (t \ {c}) \ {x} = (t \ {x}) \ {c}
      BY <2>1, <2>2
    <3>2. g[t \ {c}] = w[x] + g[(t \ {c}) \ {x}]
      BY <1>3, <2>1, <3>1
    <3>3. g[t \ {x}] = w[c] + g[(t \ {c}) \ {x}]
      BY <1>3, <3>1
    <3>4. w[x] \in Nat /\ w[c] \in Nat /\ g[(t \ {c}) \ {x}] \in Nat
      BY <1>1, <2>1
    <3> QED
      BY <2>1, <3>2, <3>3, <3>4
  <2> QED
    BY <2>1, <2>2
<1> HIDE DEF G
<1>4. \A t \in SUBSET S : t \in G
  BY <1>2, <1>3, AllSubsets
<1> QED
  BY <1>2, <1>4 DEF G, Takes

\* The sum over a set depends on what its elements weigh, not on the rest of the function.
LEMMA SumsAgree ==
  ASSUME NEW S, IsFiniteSet(S), NEW w \in [S -> Nat], NEW g, Sums(g, w, S),
         NEW T \in SUBSET S, NEW v \in [T -> Nat], NEW h, Sums(h, v, T),
         \A x \in T : w[x] = v[x]
  PROVE  g[T] = h[T]
<1> DEFINE G == {t \in SUBSET T : g[t] = h[t]}
<1>1. IsFiniteSet(T)
  BY FS_Subset
<1>2. Takes(g, w, S) /\ Takes(h, v, T)
  BY <1>1, SumsTake
<1>3. {} \in G
  BY <1>2 DEF Takes
<1>4. ASSUME NEW t \in SUBSET T, t # {}, \A x \in t : t \ {x} \in G PROVE t \in G
  <2>1. PICK x \in t : TRUE
    BY <1>4
  <2>2. g[t] = w[x] + g[t \ {x}] /\ h[t] = v[x] + h[t \ {x}]
    BY <1>2 DEF Takes
  <2> QED
    BY <1>4, <2>2
<1> HIDE DEF G
<1>5. \A t \in SUBSET T : t \in G
  BY <1>1, <1>3, <1>4, AllSubsets
<1> QED
  BY <1>5 DEF G

-----------------------------------------------------------------------------
(* Volumes.                                                                *)

Volume(f) == FoldFunction(LAMBDA p, sum : p.volume + sum, 0, f)
Volumes(f, S) == [x \in S |-> f[x].volume]

LEMMA VolumeIs ==
  ASSUME NEW S, IsFiniteSet(S), NEW f, DOMAIN f = S
  PROVE  \E g : Sums(g, Volumes(f, S), S) /\ Volume(f) = g[S]
<1> DEFINE Folded(g) ==
             g = [t \in SUBSET S |->
                    IF t = {} THEN 0
                    ELSE f[CHOOSE x \in t : TRUE].volume + g[t \ {CHOOSE x \in t : TRUE}]]
           g == CHOOSE g : Folded(g)
<1>1. \A h : Sums(h, Volumes(f, S), S) <=> Folded(h)
  <2> SUFFICES ASSUME NEW h PROVE Sums(h, Volumes(f, S), S) <=> Folded(h)
    OBVIOUS
  <2>1. \A t \in SUBSET S : SumBy(h, Volumes(f, S), t)
          = IF t = {} THEN 0 ELSE f[CHOOSE x \in t : TRUE].volume + h[t \ {CHOOSE x \in t : TRUE}]
    BY DEF SumBy, AnyOf, Volumes
  <2> QED
    BY <2>1 DEF Sums
<1>2. Folded(g)
  <2>1. PICK h : Sums(h, Volumes(f, S), S)
    BY SumsExist
  <2>2. Folded(h)
    BY <1>1, <2>1
  <2> HIDE DEF Folded
  <2> QED
    BY <2>2, Zenon
<1>3. Volume(f) = g[S]
  BY DEF Volume, FoldFunction, FoldFunctionOnSet, MapThenFoldSet
<1> HIDE DEF g
<1> QED
  BY <1>1, <1>2, <1>3

\* The candles f of the buckets D.
Part(f, D) == [b \in D |-> f[b]]

\* A candle adds its volume to that of the others.
LEMMA VolumeSplits ==
  ASSUME NEW S, IsFiniteSet(S), NEW f, \A x \in S : f[x].volume \in Nat, NEW x \in S
  PROVE  /\ Volume(Part(f, S)) = f[x].volume + Volume(Part(f, S \ {x}))
         /\ Volume(Part(f, S \ {x})) \in Nat
<1> DEFINE R == S \ {x}
           p == Part(f, S)
           r == Part(f, R)
           w == Volumes(p, S)
           v == Volumes(r, R)
<1>1. IsFiniteSet(R)
  BY FS_RemoveElement
<1>2. DOMAIN p = S /\ DOMAIN r = R
  BY DEF Part
<1>3. /\ w \in [S -> Nat] /\ v \in [R -> Nat] /\ w[x] = f[x].volume
      /\ \A y \in R : w[y] = v[y]
  BY DEF Volumes, Part
<1>4. R \in SUBSET S /\ x \in S /\ R = S \ {x}
  OBVIOUS
<1>5. PICK g : Sums(g, w, S) /\ Volume(p) = g[S]
  BY <1>2, VolumeIs
<1>6. PICK k : Sums(k, v, R) /\ Volume(r) = k[R]
  BY <1>1, <1>2, VolumeIs
<1> HIDE DEF R, p, r, w, v
<1>7. g[S] = f[x].volume + g[R]
  BY <1>3, <1>4, <1>5, SumsTake DEF Takes
<1>8. g[R] = k[R]
  BY <1>3, <1>4, <1>5, <1>6, SumsAgree
<1>9. k[R] \in Nat
  BY <1>1, <1>3, <1>6, SumsTyped
<1>10. Volume(p) = f[x].volume + Volume(r) /\ Volume(r) \in Nat
  BY <1>5, <1>6, <1>7, <1>8, <1>9
<1> QED
  BY <1>10 DEF p, r, R

LEMMA VolumeOfOne ==
  ASSUME NEW x, NEW f, f[x].volume \in Nat
  PROVE  Volume(Part(f, {x})) = f[x].volume
<1>1. PICK e : e = Part(f, {})
  OBVIOUS
<1>2. Volume(e) = 0
  <2>1. PICK g : Sums(g, Volumes(e, {}), {}) /\ Volume(e) = g[{}]
    BY <1>1, VolumeIs, FS_EmptySet DEF Part
  <2> QED
    BY <2>1 DEF Sums, SumBy
<1>3. IsFiniteSet({x}) /\ {x} \ {x} = {} /\ x \in {x}
  BY FS_Singleton
<1>4. Volume(Part(f, {x})) = f[x].volume + Volume(Part(f, {x} \ {x}))
  BY <1>3, VolumeSplits
<1> QED
  BY <1>1, <1>2, <1>3, <1>4

-----------------------------------------------------------------------------
(* Buckets.                                                                *)

\* A product of numbers is less than another of the same factor when its other factor is.
LEMMA FactorsCompare ==
  ASSUME NEW i \in Nat \ {0}, NEW p \in Nat, NEW q \in Nat, p * i < q * i + i
  PROVE  p <= q
<1> SUFFICES ASSUME p >= q + 1 PROVE FALSE
  OBVIOUS
<1>1. PICK d \in Nat : p = q + 1 + d
  <2>1. p - (q + 1) \in Nat /\ p = q + 1 + (p - (q + 1))
    OBVIOUS
  <2> QED
    BY <2>1
<1>2. p * i = q * i + i + d * i
  BY <1>1
<1>3. d * i \in Nat /\ q * i \in Nat /\ i \in Nat
  OBVIOUS
<1> QED
  BY <1>2, <1>3

\* The bucket of a time is the multiple of its interval that the time belongs to.
Multiple(b, i) == \E q \in Nat : b = q * i

LEMMA BucketHolds ==
  ASSUME NEW i \in Nat \ {0}, NEW t \in Nat
  PROVE  LET b == bucketStart(t, i) IN b \in Nat /\ Multiple(b, i) /\ b <= t /\ t < b + i
<1>1. t \div i \in Nat
  OBVIOUS
<1>2. t = i * (t \div i) + (t % i) /\ t % i \in 0..(i - 1)
  OBVIOUS
<1>3. PICK q \in Nat : q = t \div i
  BY <1>1
<1>4. i * q = q * i /\ q * i \in Nat
  OBVIOUS
<1> QED
  BY <1>2, <1>3, <1>4 DEF bucketStart, Multiple

\* Two multiples less than their interval apart from a time below are one.
LEMMA OneBucket ==
  ASSUME NEW i \in Nat \ {0}, NEW t \in Nat, NEW b, Multiple(b, i), b <= t, t < b + i
  PROVE  b = bucketStart(t, i)
<1>1. PICK p \in Nat : b = p * i
  BY DEF Multiple
<1>2. PICK q \in Nat : bucketStart(t, i) = q * i
  BY BucketHolds DEF Multiple
<1>3. p * i \in Nat /\ q * i \in Nat /\ q * i <= t /\ t < q * i + i
  BY <1>2, BucketHolds
<1>4. p * i < q * i + i /\ q * i < p * i + i
  BY <1>1, <1>3
<1>5. p <= q /\ q <= p
  BY <1>4, FactorsCompare
<1> QED
  BY <1>1, <1>2, <1>5

\* A short bucket lies in one long bucket as a whole.
LEMMA BucketsNest ==
  ASSUME NEW s \in Nat \ {0}, NEW l \in Nat \ {0}, Multiple(l, s),
         NEW b \in Nat, Multiple(b, s), NEW m \in Nat, Multiple(m, l), b < m + l
  PROVE  b + s <= m + l
<1>1. PICK k \in Nat : l = k * s
  BY DEF Multiple
<1>2. PICK q \in Nat : b = q * s
  BY DEF Multiple
<1>3. PICK r \in Nat : m = r * l
  BY DEF Multiple
<1>4. PICK n \in Nat : n = (r + 1) * k
  OBVIOUS
<1>5. m + l = n * s
  <2>1. m + l = (r + 1) * (k * s)
    BY <1>1, <1>3
  <2> QED
    BY <2>1, <1>4
<1>6. q < n
  <2> SUFFICES ASSUME n <= q PROVE FALSE
    OBVIOUS
  <2>1. PICK d \in Nat : q = n + d
    <3>1. q - n \in Nat /\ q = n + (q - n)
      OBVIOUS
    <3> QED
      BY <3>1
  <2>2. q * s = n * s + d * s
    BY <2>1
  <2>3. n * s \in Nat /\ d * s \in Nat
    OBVIOUS
  <2> QED
    BY <1>2, <1>5, <2>2, <2>3
<1>7. PICK e \in Nat : n = q + 1 + e
  <2>1. n - (q + 1) \in Nat /\ n = q + 1 + (n - (q + 1))
    BY <1>6
  <2> QED
    BY <2>1
<1>8. n * s = q * s + s + e * s
  BY <1>7
<1>9. e * s \in Nat /\ q * s \in Nat
  OBVIOUS
<1> QED
  BY <1>2, <1>5, <1>8, <1>9

\* The long bucket of a time's short bucket is the long bucket of the time.
LEMMA TradeNests ==
  ASSUME NEW s \in Nat \ {0}, NEW l \in Nat \ {0}, Multiple(l, s),
         NEW t \in Nat, NEW m \in Nat, Multiple(m, l)
  PROVE  bucketStart(t, s) \in m..(m + l - 1) <=> m = bucketStart(t, l)
<1> DEFINE b == bucketStart(t, s)
<1>1. b \in Nat /\ Multiple(b, s) /\ b <= t /\ t < b + s
  BY BucketHolds
<1>2. ASSUME b \in m..(m + l - 1) PROVE m = bucketStart(t, l)
  <2>1. b < m + l /\ m <= b
    BY <1>1, <1>2
  <2>2. b + s <= m + l
    BY <1>1, <2>1, BucketsNest
  <2>3. m <= t /\ t < m + l
    BY <1>1, <2>1, <2>2
  <2> QED
    BY <2>3, OneBucket
<1>3. ASSUME m = bucketStart(t, l) PROVE b \in m..(m + l - 1)
  <2>1. m <= t /\ t < m + l
    BY <1>3, BucketHolds
  <2>2. PICK q \in Nat : b = q * s
    BY <1>1 DEF Multiple
  <2>3. PICK r \in Nat : m = r * s
    <3>1. PICK k \in Nat : l = k * s
      BY DEF Multiple
    <3>2. PICK j \in Nat : m = j * l
      BY DEF Multiple
    <3>3. m = (j * k) * s /\ j * k \in Nat
      BY <3>1, <3>2
    <3> QED
      BY <3>3
  <2>4. r * s < q * s + s
    BY <1>1, <2>1, <2>2, <2>3
  <2>5. PICK d \in Nat : q = r + d
    <3>1. r <= q
      BY <2>4, FactorsCompare
    <3>2. q - r \in Nat /\ q = r + (q - r)
      BY <3>1
    <3> QED
      BY <3>2
  <2>6. q * s = r * s + d * s /\ d * s \in Nat
    BY <2>5
  <2>7. m <= b
    BY <2>2, <2>3, <2>6
  <2> QED
    BY <1>1, <2>1, <2>7
<1> QED
  BY <1>2, <1>3

-----------------------------------------------------------------------------
(* One trade in one candle.                                                *)

KLine == [open : Nat, high : Nat, low : Nat, close : Nat, volume : Nat]
Trade == [time : Nat, price : Nat, size : Nat]

LEMMA PairExtremes ==
  ASSUME NEW a \in Nat, NEW b \in Nat
  PROVE  /\ Max({a, b}) = IF a >= b THEN a ELSE b
         /\ Min({a, b}) = IF a <= b THEN a ELSE b
<1>1. \E x \in {a, b} : \A y \in {a, b} : x >= y
  OBVIOUS
<1>2. \E x \in {a, b} : \A y \in {a, b} : x <= y
  OBVIOUS
<1>3. Max({a, b}) \in {a, b} /\ \A y \in {a, b} : Max({a, b}) >= y
  BY <1>1 DEF Max
<1>4. Min({a, b}) \in {a, b} /\ \A y \in {a, b} : Min({a, b}) <= y
  BY <1>2 DEF Min
<1> QED
  BY <1>3, <1>4

\* What becomes of a candle with one more trade.
Extends(d, c, t) ==
  /\ d \in KLine
  /\ d.high >= c.high /\ d.high >= t.price /\ d.high \in {c.high, t.price}
  /\ d.low <= c.low /\ d.low <= t.price /\ d.low \in {c.low, t.price}
  /\ d.open = c.open /\ d.close = t.price /\ d.volume = c.volume + t.size

LEMMA ExtendIs ==
  ASSUME NEW c \in KLine, NEW t \in Trade
  PROVE  Extends(Extend(c, t), c, t)
<1>1. /\ c.open \in Nat /\ c.high \in Nat /\ c.low \in Nat /\ c.close \in Nat /\ c.volume \in Nat
      /\ t.price \in Nat /\ t.size \in Nat
  BY DEF KLine, Trade
<1>2. PICK h \in Nat : /\ h = Max({c.high, t.price}) /\ h \in {c.high, t.price}
                     /\ h >= c.high /\ h >= t.price
  <2>1. Max({c.high, t.price}) = IF c.high >= t.price THEN c.high ELSE t.price
    BY <1>1, PairExtremes
  <2> QED
    BY <1>1, <2>1
<1>3. PICK k \in Nat : /\ k = Min({c.low, t.price}) /\ k \in {c.low, t.price}
                     /\ k <= c.low /\ k <= t.price
  <2>1. Min({c.low, t.price}) = IF c.low <= t.price THEN c.low ELSE t.price
    BY <1>1, PairExtremes
  <2> QED
    BY <1>1, <2>1
<1>4. Extend(c, t) = [c EXCEPT !.high = h, !.low = k, !.close = t.price, !.volume = c.volume + t.size]
  BY <1>2, <1>3 DEF Extend
<1>5. c = [open |-> c.open, high |-> c.high, low |-> c.low, close |-> c.close, volume |-> c.volume]
  BY DEF KLine
<1>6. Extend(c, t) = [open |-> c.open, high |-> h, low |-> k, close |-> t.price,
                      volume |-> c.volume + t.size]
  BY <1>4, <1>5
<1> QED
  BY <1>1, <1>2, <1>3, <1>6 DEF Extends, KLine

\* The buckets of an interval after a trade.
Files(g, f, x, t) ==
  /\ DOMAIN g = DOMAIN f \cup {x}
  /\ g \in [DOMAIN g -> KLine]
  /\ \A b \in DOMAIN f \ {x} : g[b] = f[b]
  /\ x \in DOMAIN f => Extends(g[x], f[x], t)
  /\ x \notin DOMAIN f => g[x] = FirstOf(t)

LEMMA TradeFiled ==
  ASSUME NEW c, NEW i \in DOMAIN c, c[i] \in [DOMAIN c[i] -> KLine], NEW t \in Trade
  PROVE  Files(addTrade(c, t)[i], c[i], bucketStart(t.time, i), t)
<1> DEFINE f == c[i]  g == addTrade(c, t)[i]  x == bucketStart(t.time, i)
<1>1. g = IF x \in DOMAIN f THEN [f EXCEPT ![x] = Extend(f[x], t)]
          ELSE [b \in DOMAIN f \cup {x} |-> IF b = x THEN FirstOf(t) ELSE f[b]]
  BY DEF addTrade
<1>2. f \in [DOMAIN f -> KLine]
  OBVIOUS
<1>3. FirstOf(t) \in KLine
  BY DEF FirstOf, KLine, Trade
<1>4. \A k \in KLine : Extends(Extend(k, t), k, t) /\ Extend(k, t) \in KLine
  BY ExtendIs DEF Extends
<1> HIDE DEF f, g, x
<1>5. ASSUME x \in DOMAIN f PROVE Files(g, f, x, t)
  <2>1. g = [f EXCEPT ![x] = Extend(f[x], t)]
    BY <1>1, <1>5
  <2>2. Extends(Extend(f[x], t), f[x], t) /\ Extend(f[x], t) \in KLine
    BY <1>2, <1>4, <1>5
  <2>3. /\ DOMAIN g = DOMAIN f /\ g \in [DOMAIN f -> KLine]
        /\ \A b \in DOMAIN f \ {x} : g[b] = f[b]
        /\ g[x] = Extend(f[x], t)
    BY <1>2, <1>5, <2>1, <2>2
  <2>4. DOMAIN g = DOMAIN f \cup {x}
    BY <2>3, <1>5
  <2> QED
    BY <1>5, <2>2, <2>3, <2>4 DEF Files
<1>6. ASSUME x \notin DOMAIN f PROVE Files(g, f, x, t)
  <2>1. g = [b \in DOMAIN f \cup {x} |-> IF b = x THEN FirstOf(t) ELSE f[b]]
    BY <1>1, <1>6
  <2>2. /\ DOMAIN g = DOMAIN f \cup {x} /\ g[x] = FirstOf(t)
        /\ \A b \in DOMAIN f \ {x} : g[b] = f[b]
        /\ g \in [DOMAIN g -> KLine]
    BY <1>2, <1>3, <1>6, <2>1
  <2> QED
    BY <1>6, <2>2 DEF Files
<1>7. Files(g, f, x, t)
  BY <1>5, <1>6
<1> QED
  BY <1>7 DEF f, g, x

-----------------------------------------------------------------------------
(* One candle and those of a shorter interval in its bucket.               *)

Opens(c, f, D) == \E a \in D : c.open = f[a].open /\ \A b \in D : a <= b
ClosesAs(c, f, D) == \E z \in D : c.close = f[z].close /\ \A b \in D : b <= z

\* Candle c tells what the candles f at D do, in order or not.
Spans(c, f, D, inOrder) ==
  /\ \E b \in D : f[b].high = c.high
  /\ \E b \in D : f[b].low = c.low
  /\ \A b \in D : f[b].high <= c.high /\ f[b].low >= c.low
  /\ c.volume = Volume(Part(f, D))
  /\ inOrder => Opens(c, f, D) /\ ClosesAs(c, f, D)

\* A first trade.
LEMMA SpansFirst ==
  ASSUME NEW t \in Trade, NEW x \in Nat, NEW g, g[x] = FirstOf(t), NEW inOrder
  PROVE  Spans(FirstOf(t), g, {x}, inOrder)
<1>1. g[x].volume \in Nat /\ g[x].high \in Nat /\ g[x].low \in Nat
  BY DEF FirstOf, Trade
<1>2. Volume(Part(g, {x})) = FirstOf(t).volume
  BY <1>1, VolumeOfOne
<1>3. Opens(FirstOf(t), g, {x}) /\ ClosesAs(FirstOf(t), g, {x})
  BY DEF Opens, ClosesAs
<1> QED
  BY <1>1, <1>2, <1>3 DEF Spans

\* The volume after a trade.
LEMMA VolumeGrows ==
  ASSUME NEW f, NEW g, NEW x, NEW t \in Trade, Files(g, f, x, t),
         NEW D \in SUBSET DOMAIN f, x \in DOMAIN f => x \in D, IsFiniteSet(D),
         \A b \in D : f[b] \in KLine
  PROVE  Volume(Part(g, D \cup {x})) = Volume(Part(f, D)) + t.size
<1>1. PICK E : E = D \cup {x}
  OBVIOUS
<1>2. PICK R : R = D \ {x}
  OBVIOUS
<1>3. IsFiniteSet(E) /\ x \in E /\ E \ {x} = R
  BY <1>1, <1>2, FS_AddElement
<1>4. \A b \in E : g[b].volume \in Nat
  BY <1>1 DEF Files, KLine
<1>5. Part(g, R) = Part(f, R)
  BY <1>2 DEF Files, Part
<1>6. Volume(Part(g, E)) = g[x].volume + Volume(Part(f, R)) /\ Volume(Part(f, R)) \in Nat
  <2>1. /\ Volume(Part(g, E)) = g[x].volume + Volume(Part(g, E \ {x}))
        /\ Volume(Part(g, E \ {x})) \in Nat
    BY <1>3, <1>4, VolumeSplits
  <2> QED
    BY <1>3, <1>5, <2>1
<1>7. CASE x \in D
  <2>1. Volume(Part(f, D)) = f[x].volume + Volume(Part(f, R))
    <3>1. \A b \in D : f[b].volume \in Nat
      BY DEF KLine
    <3> QED
      BY <1>2, <1>7, <3>1, VolumeSplits
  <2>2. g[x].volume = f[x].volume + t.size /\ f[x].volume \in Nat /\ t.size \in Nat
    BY <1>7 DEF Files, Extends, KLine, Trade
  <2> QED
    BY <1>1, <1>6, <2>1, <2>2
<1>8. CASE x \notin D
  <2>1. R = D /\ g[x].volume = t.size /\ t.size \in Nat
    BY <1>2, <1>8 DEF Files, FirstOf, Trade
  <2> QED
    BY <1>1, <1>6, <2>1
<1> QED
  BY <1>7, <1>8

\* A further trade; in order it comes no earlier than the others.
LEMMA SpansMore ==
  ASSUME NEW c \in KLine, NEW d, NEW t \in Trade, Extends(d, c, t),
         NEW f, NEW g, NEW x \in Nat, Files(g, f, x, t), f \in [DOMAIN f -> KLine],
         NEW D \in SUBSET (DOMAIN f \cap Nat), x \in DOMAIN f => x \in D, IsFiniteSet(D),
         NEW before \in BOOLEAN, NEW after \in BOOLEAN, Spans(c, f, D, before),
         after => before /\ \A b \in D : b <= x
  PROVE  Spans(d, g, D \cup {x}, after)
<1> DEFINE E == D \cup {x}
<1>1. \A b \in D \ {x} : g[b] = f[b]
  BY DEF Files
<1>2. /\ \A b \in D : f[b] \in KLine
      /\ \A b \in E : g[b] \in KLine
  BY DEF Files
<1>3. x \in D => Extends(g[x], f[x], t)
  BY DEF Files
<1>4. x \notin D => g[x] = FirstOf(t)
  BY DEF Files
<1>5. c.high \in Nat /\ c.low \in Nat /\ d.high \in Nat /\ d.low \in Nat /\ t.price \in Nat
  BY DEF KLine, Extends, Trade
<1>6. /\ x \in D => /\ g[x].high >= f[x].high /\ g[x].high >= t.price /\ g[x].high \in {f[x].high, t.price}
                    /\ g[x].low <= f[x].low /\ g[x].low <= t.price /\ g[x].low \in {f[x].low, t.price}
                    /\ g[x].open = f[x].open
      /\ x \notin D => g[x].high = t.price /\ g[x].low = t.price /\ g[x].open = t.price
      /\ g[x].close = t.price
  BY <1>3, <1>4 DEF Extends, FirstOf
<1>7. /\ \A b \in D : f[b].high \in Nat /\ f[b].low \in Nat
      /\ \A b \in E : g[b].high \in Nat /\ g[b].low \in Nat
  BY <1>2 DEF KLine
<1>8. /\ d.high >= c.high /\ d.high >= t.price /\ d.high \in {c.high, t.price}
      /\ d.low <= c.low /\ d.low <= t.price /\ d.low \in {c.low, t.price}
      /\ d.open = c.open /\ d.close = t.price /\ d.volume = c.volume + t.size
  BY DEF Extends
<1>9. \A b \in D : f[b].high <= c.high /\ f[b].low >= c.low
  BY DEF Spans
<1>10. \A b \in E : g[b].high <= d.high /\ g[b].low >= d.low
  <2> SUFFICES ASSUME NEW b \in E PROVE g[b].high <= d.high /\ g[b].low >= d.low
    OBVIOUS
  <2>1. CASE b = x
    BY <2>1, <1>5, <1>6, <1>7, <1>8, <1>9
  <2>2. CASE b # x
    BY <2>2, <1>1, <1>5, <1>7, <1>8, <1>9
  <2> QED
    BY <2>1, <2>2
<1>11. \E b \in E : g[b].high = d.high
  <2>1. CASE d.high = t.price
    <3>1. g[x].high >= t.price
      BY <1>5, <1>6
    <3>2. g[x].high <= d.high /\ g[x].high \in Nat
      BY <1>7, <1>10
    <3> QED
      BY <1>5, <2>1, <3>1, <3>2
  <2>2. CASE d.high = c.high /\ d.high # t.price
    <3>1. PICK b \in D : f[b].high = c.high
      BY DEF Spans
    <3>2. g[b].high >= f[b].high
      BY <1>1, <1>6, <1>7
    <3>3. g[b].high <= d.high /\ g[b].high \in Nat
      BY <1>7, <1>10
    <3> QED
      BY <1>5, <2>2, <3>1, <3>2, <3>3
  <2> QED
    BY <1>8, <2>1, <2>2
<1>12. \E b \in E : g[b].low = d.low
  <2>1. CASE d.low = t.price
    <3>1. g[x].low <= t.price
      BY <1>5, <1>6
    <3>2. g[x].low >= d.low /\ g[x].low \in Nat
      BY <1>7, <1>10
    <3> QED
      BY <1>5, <2>1, <3>1, <3>2
  <2>2. CASE d.low = c.low /\ d.low # t.price
    <3>1. PICK b \in D : f[b].low = c.low
      BY DEF Spans
    <3>2. g[b].low <= f[b].low
      BY <1>1, <1>6, <1>7
    <3>3. g[b].low >= d.low /\ g[b].low \in Nat
      BY <1>7, <1>10
    <3> QED
      BY <1>5, <2>2, <3>1, <3>2, <3>3
  <2> QED
    BY <1>8, <2>1, <2>2
<1>13. d.volume = Volume(Part(g, E))
  <2>1. Volume(Part(g, E)) = Volume(Part(f, D)) + t.size
    BY <1>2, VolumeGrows
  <2> QED
    BY <1>8, <2>1 DEF Spans
<1>14. ASSUME after PROVE Opens(d, g, E) /\ ClosesAs(d, g, E)
  <2>1. PICK a \in D : c.open = f[a].open /\ \A b \in D : a <= b
    BY <1>14 DEF Spans, Opens
  <2>2. g[a].open = f[a].open
    BY <1>1, <1>6
  <2>3. \A b \in E : a <= b /\ b <= x
    BY <1>14, <2>1
  <2> QED
    BY <1>6, <1>8, <2>1, <2>2, <2>3 DEF Opens, ClosesAs
<1> QED
  BY <1>10, <1>11, <1>12, <1>13, <1>14 DEF Spans

-----------------------------------------------------------------------------
(* All candles.                                                            *)

\* Each interval is a divisor of the longer ones.
Intervals(I) == I \in SUBSET (Nat \ {0}) /\ \A s, l \in I : s < l => Multiple(l, s)

BucketsOK(f, i) ==
  /\ f \in [DOMAIN f -> KLine] /\ IsFiniteSet(DOMAIN f)
  /\ \A b \in DOMAIN f : b \in Nat /\ Multiple(b, i)

LinesOK(c, I) == DOMAIN c = I /\ \A i \in I : BucketsOK(c[i], i)

Spanned(f, m, l) == {b \in DOMAIN f : b \in m..(m + l - 1)}

\* The candles k of interval l tell what the candles f do, none of which is without one.
Tells(f, k, l, inOrder) ==
  /\ \A m \in DOMAIN k : Spans(k[m], f, Spanned(f, m, l), inOrder)
  /\ \A b \in DOMAIN f : bucketStart(b, l) \in DOMAIN k

Told(c, I, inOrder) == \A s, l \in I : s < l => Tells(c[s], c[l], l, inOrder)
UpTo(f, time) == \A b \in DOMAIN f : b <= time

LEMMA BucketsStay ==
  ASSUME NEW i \in Nat \ {0}, NEW f, BucketsOK(f, i), NEW t \in Trade,
         NEW g, Files(g, f, bucketStart(t.time, i), t)
  PROVE  BucketsOK(g, i)
<1> DEFINE x == bucketStart(t.time, i)
<1>1. x \in Nat /\ Multiple(x, i)
  BY BucketHolds DEF Trade
<1>2. DOMAIN g = DOMAIN f \cup {x} /\ g \in [DOMAIN g -> KLine]
  BY DEF Files
<1>3. IsFiniteSet(DOMAIN f \cup {x})
  BY FS_AddElement DEF BucketsOK
<1> QED
  BY <1>1, <1>2, <1>3 DEF BucketsOK

\* A trade is told by its own bucket of the longer interval, and the others tell on.
LEMMA TradeTells ==
  ASSUME NEW s \in Nat \ {0}, NEW l \in Nat \ {0}, Multiple(l, s), NEW t \in Trade,
         NEW f, BucketsOK(f, s), NEW g, Files(g, f, bucketStart(t.time, s), t),
         NEW k, BucketsOK(k, l), NEW n, Files(n, k, bucketStart(t.time, l), t),
         NEW before \in BOOLEAN, NEW after \in BOOLEAN, Tells(f, k, l, before),
         after => before /\ UpTo(f, t.time)
  PROVE  Tells(g, n, l, after)
<1>1. PICK x \in Nat : x = bucketStart(t.time, s)
  BY BucketHolds DEF Trade
<1>2. PICK y \in Nat : y = bucketStart(t.time, l)
  BY BucketHolds DEF Trade
<1>3. t.time \in Nat /\ Multiple(y, l)
  BY <1>2, BucketHolds DEF Trade
<1>4. x \in y..(y + l - 1) /\ bucketStart(x, l) = y
  <2>1. x \in y..(y + l - 1)
    BY <1>1, <1>2, <1>3, TradeNests
  <2>2. y <= x /\ x < y + l
    BY <2>1
  <2> QED
    BY <1>3, <2>1, <2>2, OneBucket
<1>5. /\ DOMAIN g = DOMAIN f \cup {x} /\ DOMAIN n = DOMAIN k \cup {y}
      /\ \A b \in DOMAIN f \ {x} : g[b] = f[b]
      /\ \A m \in DOMAIN k \ {y} : n[m] = k[m]
  BY <1>1, <1>2 DEF Files
<1>6. \A b \in DOMAIN g : bucketStart(b, l) \in DOMAIN n
  BY <1>4, <1>5 DEF Tells
<1>7. ASSUME NEW m \in DOMAIN n, m # y
      PROVE  Spans(n[m], g, Spanned(g, m, l), after)
  <2>1. m \in DOMAIN k /\ m \in Nat /\ Multiple(m, l) /\ n[m] = k[m]
    BY <1>5, <1>7 DEF BucketsOK
  <2>2. x \notin m..(m + l - 1)
    BY <1>1, <1>2, <1>3, <1>7, <2>1, TradeNests
  <2>3. Spanned(g, m, l) = Spanned(f, m, l)
    BY <1>5, <2>2 DEF Spanned
  <2>4. PICK D : D = Spanned(f, m, l)
    OBVIOUS
  <2>5. \A b \in D : g[b] = f[b]
    BY <1>5, <2>2, <2>4 DEF Spanned
  <2>6. Part(g, D) = Part(f, D)
    BY <2>5 DEF Part
  <2>7. Spans(k[m], f, D, before)
    BY <2>1, <2>4 DEF Tells
  <2>8. Spans(k[m], g, D, after)
    BY <2>5, <2>6, <2>7 DEF Spans, Opens, ClosesAs
  <2> QED
    BY <2>1, <2>3, <2>4, <2>8
<1>8. Spans(n[y], g, Spanned(g, y, l), after)
  <2>1. PICK D : D = Spanned(f, y, l)
    OBVIOUS
  <2>2. Spanned(g, y, l) = D \cup {x}
    BY <1>4, <1>5, <2>1 DEF Spanned
  <2>3. D \in SUBSET (DOMAIN f \cap Nat) /\ IsFiniteSet(D)
    <3>1. D \in SUBSET DOMAIN f
      BY <2>1 DEF Spanned
    <3> QED
      BY <3>1, FS_Subset DEF BucketsOK
  <2>4. x \in DOMAIN f => x \in D
    BY <1>4, <2>1 DEF Spanned
  <2>5. CASE y \in DOMAIN k
    <3>1. Extends(n[y], k[y], t) /\ k[y] \in KLine
      BY <1>2, <2>5 DEF Files, BucketsOK
    <3>2. Spans(k[y], f, D, before)
      BY <2>1, <2>5 DEF Tells
    <3>3. Files(g, f, x, t) /\ f \in [DOMAIN f -> KLine]
      BY <1>1 DEF BucketsOK
    <3>4. after => before /\ \A b \in D : b <= x
      <4> SUFFICES ASSUME after, NEW b \in D PROVE b <= x
        OBVIOUS
      <4>1. b \in Nat /\ Multiple(b, s) /\ b <= t.time
        BY <2>3 DEF BucketsOK, UpTo
      <4>2. PICK p \in Nat : b = p * s
        BY <4>1 DEF Multiple
      <4>3. Multiple(x, s) /\ t.time < x + s
        BY <1>1, <1>3, BucketHolds
      <4>4. PICK q \in Nat : x = q * s
        BY <4>3 DEF Multiple
      <4>5. p * s < q * s + s
        BY <1>3, <4>1, <4>2, <4>3, <4>4
      <4>6. p <= q
        BY <4>5, FactorsCompare
      <4>7. PICK d \in Nat : q = p + d
        <5>1. q - p \in Nat /\ q = p + (q - p)
          BY <4>6
        <5> QED
          BY <5>1
      <4>8. q * s = p * s + d * s /\ d * s \in Nat
        BY <4>7
      <4> QED
        BY <4>2, <4>4, <4>8
    <3>5. Spans(n[y], g, D \cup {x}, after)
      BY <2>3, <2>4, <3>1, <3>2, <3>3, <3>4, SpansMore
    <3> QED
      BY <2>2, <3>5
  <2>6. CASE y \notin DOMAIN k
    <3>1. D = {}
      <4> SUFFICES ASSUME NEW b \in D PROVE FALSE
        OBVIOUS
      <4>1. b \in DOMAIN f /\ b \in Nat /\ y <= b /\ b < y + l
        BY <2>1, <2>3 DEF Spanned
      <4>2. bucketStart(b, l) = y
        BY <1>3, <4>1, OneBucket
      <4> QED
        BY <2>6, <4>1, <4>2 DEF Tells
    <3>2. x \notin DOMAIN f
      BY <2>4, <3>1
    <3>3. n[y] = FirstOf(t) /\ g[x] = FirstOf(t)
      BY <1>1, <1>2, <2>6, <3>2 DEF Files
    <3>4. Spans(FirstOf(t), g, {x}, after)
      BY <3>3, SpansFirst
    <3>5. Spanned(g, y, l) = {x}
      BY <2>2, <3>1
    <3> QED
      BY <3>3, <3>4, <3>5
  <2> QED
    BY <2>5, <2>6
<1> QED
  BY <1>6, <1>7, <1>8 DEF Tells

\* addTrade (kline-aggregator.ts:31), for all intervals.
LEMMA TradeTold ==
  ASSUME NEW I, Intervals(I), NEW c, LinesOK(c, I), NEW t \in Trade,
         NEW before \in BOOLEAN, NEW after \in BOOLEAN, Told(c, I, before),
         after => before /\ \A i \in I : UpTo(c[i], t.time)
  PROVE  /\ LinesOK(addTrade(c, t), I) /\ Told(addTrade(c, t), I, after)
         /\ \A i \in I : \A b \in DOMAIN addTrade(c, t)[i] : b \in DOMAIN c[i] \/ b <= t.time
<1>1. PICK d : d = addTrade(c, t)
  OBVIOUS
<1>2. DOMAIN d = I
  BY <1>1 DEF addTrade, LinesOK
<1>3. \A i \in I : Files(d[i], c[i], bucketStart(t.time, i), t)
  BY <1>1, TradeFiled DEF LinesOK, BucketsOK
<1>4. \A i \in I : BucketsOK(d[i], i)
  BY <1>3, BucketsStay DEF LinesOK, Intervals
<1>5. Told(d, I, after)
  <2> SUFFICES ASSUME NEW s \in I, NEW l \in I, s < l PROVE Tells(d[s], d[l], l, after)
    BY DEF Told
  <2>1. s \in Nat \ {0} /\ l \in Nat \ {0} /\ Multiple(l, s)
    BY DEF Intervals
  <2>2. /\ BucketsOK(c[s], s) /\ BucketsOK(c[l], l) /\ Tells(c[s], c[l], l, before)
        /\ after => before /\ UpTo(c[s], t.time)
    BY DEF LinesOK, Told
  <2>3. /\ Files(d[s], c[s], bucketStart(t.time, s), t)
        /\ Files(d[l], c[l], bucketStart(t.time, l), t)
    BY <1>3
  <2> QED
    BY <2>1, <2>2, <2>3, TradeTells
<1>6. \A i \in I : \A b \in DOMAIN d[i] : b \in DOMAIN c[i] \/ b <= t.time
  <2> SUFFICES ASSUME NEW i \in I, NEW b \in DOMAIN d[i] PROVE b \in DOMAIN c[i] \/ b <= t.time
    OBVIOUS
  <2>1. DOMAIN d[i] = DOMAIN c[i] \cup {bucketStart(t.time, i)}
    BY <1>3 DEF Files
  <2>2. bucketStart(t.time, i) <= t.time
    BY BucketHolds DEF Intervals, Trade
  <2> QED
    BY <2>1, <2>2
<1> QED
  BY <1>1, <1>2, <1>4, <1>5, <1>6 DEF LinesOK

\* A bound that is attained is the extreme.
LEMMA ExtremeIs ==
  ASSUME NEW H \in SUBSET Nat, NEW h \in H
  PROVE  /\ (\A y \in H : y <= h) => Max(H) = h
         /\ (\A y \in H : h <= y) => Min(H) = h
<1>1. ASSUME \A y \in H : y <= h PROVE Max(H) = h
  <2>1. \E x \in H : \A y \in H : x >= y
    BY <1>1
  <2>2. Max(H) \in H /\ \A y \in H : Max(H) >= y
    BY <2>1 DEF Max
  <2>3. PICK x \in H : x = Max(H)
    BY <2>2
  <2>4. x >= h /\ h >= x /\ x \in Nat /\ h \in Nat
    BY <1>1, <2>2, <2>3
  <2> QED
    BY <2>3, <2>4
<1>2. ASSUME \A y \in H : h <= y PROVE Min(H) = h
  <2>1. \E x \in H : \A y \in H : x <= y
    BY <1>2
  <2>2. Min(H) \in H /\ \A y \in H : Min(H) <= y
    BY <2>1 DEF Min
  <2>3. PICK x \in H : x = Min(H)
    BY <2>2
  <2>4. x <= h /\ h <= x /\ x \in Nat /\ h \in Nat
    BY <1>2, <2>2, <2>3
  <2> QED
    BY <2>3, <2>4
<1> QED
  BY <1>1, <1>2

\* Candles that span one another say what IntervalsAgree asks.
LEMMA ToldAgrees ==
  ASSUME NEW I, NEW c, LinesOK(c, I), NEW inOrder \in BOOLEAN, Told(c, I, inOrder)
  PROVE  IntervalsAgree(c, inOrder)
<1> SUFFICES ASSUME NEW short \in I, NEW long \in I, short < long, NEW start \in DOMAIN c[long]
             PROVE  LET k == c[long][start]
                        parts == [b \in {b \in DOMAIN c[short] : b \in start..(start + long - 1)} |->
                                    c[short][b]]
                        times == DOMAIN parts
                    IN  /\ times # {}
                        /\ k.high = Max({parts[b].high : b \in times})
                        /\ k.low = Min({parts[b].low : b \in times})
                        /\ k.volume = FoldFunction(LAMBDA p, sum : p.volume + sum, 0, parts)
                        /\ inOrder => /\ k.open = parts[Min(times)].open
                                      /\ k.close = parts[Max(times)].close
  BY DEF IntervalsAgree, LinesOK
<1>1. PICK k : k = c[long][start]
  OBVIOUS
<1>2. PICK f : f = c[short]
  OBVIOUS
<1>3. PICK D : D = {b \in DOMAIN f : b \in start..(start + long - 1)}
  OBVIOUS
<1>4. PICK p : p = Part(f, D)
  OBVIOUS
<1>5. DOMAIN p = D /\ \A b \in D : p[b] = f[b]
  BY <1>4 DEF Part
<1>6. Spans(k, f, D, inOrder)
  BY <1>1, <1>2, <1>3 DEF Told, Tells, Spanned
<1>7. \A b \in D : b \in Nat /\ f[b] \in KLine
  BY <1>2, <1>3 DEF LinesOK, BucketsOK
<1>8. D # {}
  BY <1>6 DEF Spans
<1>9. k.high = Max({p[b].high : b \in D})
  <2>1. PICK H : H = {p[b].high : b \in D}
    OBVIOUS
  <2>2. H \in SUBSET Nat
    BY <1>5, <1>7, <2>1 DEF KLine
  <2>3. k.high \in H /\ \A y \in H : y <= k.high
    BY <1>5, <1>6, <2>1 DEF Spans
  <2> QED
    BY <2>1, <2>2, <2>3, ExtremeIs
<1>10. k.low = Min({p[b].low : b \in D})
  <2>1. PICK H : H = {p[b].low : b \in D}
    OBVIOUS
  <2>2. H \in SUBSET Nat
    BY <1>5, <1>7, <2>1 DEF KLine
  <2>3. k.low \in H /\ \A y \in H : k.low <= y
    <3>1. k.low \in H
      BY <1>5, <1>6, <2>1 DEF Spans
    <3>2. \A b \in D : p[b].low >= k.low
      BY <1>5, <1>6 DEF Spans
    <3> QED
      BY <2>1, <2>2, <3>1, <3>2
  <2> QED
    BY <2>1, <2>2, <2>3, ExtremeIs
<1>11. k.volume = FoldFunction(LAMBDA x, sum : x.volume + sum, 0, p)
  BY <1>4, <1>6 DEF Spans, Volume
<1>12. ASSUME inOrder
       PROVE  k.open = p[Min(D)].open /\ k.close = p[Max(D)].close
  <2>1. Opens(k, f, D) /\ ClosesAs(k, f, D)
    BY <1>6, <1>12 DEF Spans
  <2>2. PICK a \in D : k.open = f[a].open /\ \A b \in D : a <= b
    BY <2>1 DEF Opens
  <2>3. PICK z \in D : k.close = f[z].close /\ \A b \in D : b <= z
    BY <2>1 DEF ClosesAs
  <2>4. D \in SUBSET Nat
    BY <1>7
  <2>5. Min(D) = a /\ Max(D) = z
    BY <2>2, <2>3, <2>4, ExtremeIs
  <2> QED
    BY <1>5, <2>2, <2>3, <2>5
<1>13. p = [b \in {b \in DOMAIN c[short] : b \in start..(start + long - 1)} |-> c[short][b]]
  BY <1>2, <1>3, <1>4 DEF Part
<1> QED
  BY <1>1, <1>5, <1>8, <1>9, <1>10, <1>11, <1>12, <1>13

-----------------------------------------------------------------------------
(* The candles of a history of trades.                                     *)

MinuteIntervals == {1, 5, 15}
InOrder == \A i \in 2..Len(trades) : trades[i - 1].time <= trades[i].time

\* Besides what the candles tell: none is ahead of trades that come in order.
StoryInv ==
  /\ trades \in Seq(Trade)
  /\ LinesOK(klines, MinuteIntervals)
  /\ Told(klines, MinuteIntervals, InOrder)
  /\ \A i \in MinuteIntervals : \A b \in DOMAIN klines[i] :
       trades # <<>> /\ (InOrder => b <= trades[Len(trades)].time)

LEMMA MinutesDivide == Intervals(MinuteIntervals)
<1>1. MinuteIntervals \in SUBSET (Nat \ {0})
  BY DEF MinuteIntervals
<1>2. Multiple(5, 1) /\ Multiple(15, 1) /\ Multiple(15, 5)
  <2>1. 5 = 5 * 1 /\ 15 = 15 * 1 /\ 15 = 3 * 5
    OBVIOUS
  <2> QED
    BY <2>1 DEF Multiple
<1>3. \A s, l \in MinuteIntervals : s < l =>
        (s = 1 /\ l = 5) \/ (s = 1 /\ l = 15) \/ (s = 5 /\ l = 15)
  BY DEF MinuteIntervals
<1> QED
  BY <1>1, <1>2, <1>3 DEF Intervals

LEMMA StoryBegins == Init => StoryInv
<1> SUFFICES ASSUME Init PROVE StoryInv
  OBVIOUS
<1>1. trades = <<>> /\ klines = [i \in MinuteIntervals |-> <<>>]
  BY DEF Init, NewAggregator, MinuteIntervals
<1>2. \A i \in MinuteIntervals : klines[i] = <<>> /\ DOMAIN klines[i] = {}
  BY <1>1
<1>3. LinesOK(klines, MinuteIntervals)
  <2>1. IsFiniteSet({})
    BY FS_EmptySet
  <2>2. <<>> \in [{} -> KLine]
    <3>1. PICK n \in Nat : <<>> \in [1..n -> KLine]
      BY EmptySeq, SeqDef
    <3> QED
      BY <1>2, <3>1
  <2> QED
    BY <1>1, <1>2, <2>1, <2>2 DEF LinesOK, BucketsOK
<1>4. Told(klines, MinuteIntervals, InOrder)
  BY <1>2 DEF Told, Tells
<1> QED
  BY <1>1, <1>2, <1>3, <1>4 DEF StoryInv

LEMMA StoryStep == StoryInv /\ [Next]_algorithmVars => StoryInv'
<1> SUFFICES ASSUME StoryInv, [Next]_algorithmVars PROVE StoryInv'
  OBVIOUS
<1>1. CASE UNCHANGED <<trades, klines>>
  BY <1>1 DEF StoryInv, InOrder
<1>2. ASSUME NEW t \in Trades, trades' = Append(trades, t), klines' = addTrade(klines, t)
      PROVE  StoryInv'
  <2>1. t \in Trade
    BY DEF Trades, Trade
  <2>2. PICK n \in Nat : n = Len(trades)
    BY DEF StoryInv
  <2>3. /\ trades' \in Seq(Trade) /\ Len(trades') = n + 1 /\ trades'[n + 1] = t
        /\ \A i \in 1..n : trades'[i] = trades[i] /\ trades[i] \in Trade
    BY <1>2, <2>1, <2>2 DEF StoryInv
  <2>4. PICK before \in BOOLEAN : before = InOrder
    BY DEF InOrder
  <2>5. PICK after \in BOOLEAN : after = InOrder'
    BY DEF InOrder
  <2>6. after => before /\ (n # 0 => trades[n].time <= t.time)
    <3> SUFFICES ASSUME InOrder' PROVE InOrder /\ (n # 0 => trades[n].time <= t.time)
      BY <2>4, <2>5
    <3>1. \A i \in 2..(n + 1) : trades'[i - 1].time <= trades'[i].time
      BY <2>3 DEF InOrder
    <3>2. ASSUME NEW i \in 2..n PROVE trades[i - 1].time <= trades[i].time
      BY <2>3, <3>1
    <3>3. ASSUME n # 0 PROVE trades[n].time <= t.time
      <4>1. n + 1 \in 2..(n + 1) /\ n \in 1..n /\ (n + 1) - 1 = n
        BY <3>3
      <4> QED
        BY <2>3, <3>1, <4>1
    <3> QED
      BY <2>2, <3>2, <3>3 DEF InOrder
  <2>7. after => before /\ \A i \in MinuteIntervals : UpTo(klines[i], t.time)
    <3> SUFFICES ASSUME after, NEW i \in MinuteIntervals, NEW b \in DOMAIN klines[i]
                 PROVE  b <= t.time
      BY <2>6 DEF UpTo
    <3>1. n # 0 /\ b <= trades[n].time
      BY <2>2, <2>4, <2>6 DEF StoryInv
    <3>2. b \in Nat /\ trades[n].time \in Nat /\ t.time \in Nat
      BY <2>1, <2>3, <3>1 DEF StoryInv, LinesOK, BucketsOK, Trade
    <3> QED
      BY <2>6, <3>1, <3>2
  <2>8. /\ LinesOK(klines', MinuteIntervals) /\ Told(klines', MinuteIntervals, after)
        /\ \A i \in MinuteIntervals : \A b \in DOMAIN klines'[i] :
             b \in DOMAIN klines[i] \/ b <= t.time
    <3>1. LinesOK(klines, MinuteIntervals) /\ Told(klines, MinuteIntervals, before)
      BY <2>4 DEF StoryInv
    <3> QED
      BY <1>2, <2>1, <2>7, <3>1, MinutesDivide, TradeTold
  <2>9. ASSUME NEW i \in MinuteIntervals, NEW b \in DOMAIN klines'[i], after
        PROVE  b <= t.time
    BY <2>7, <2>8, <2>9 DEF UpTo
  <2>10. trades' # <<>> /\ trades'[Len(trades')] = t
    BY <2>3
  <2> QED
    BY <2>3, <2>5, <2>8, <2>9, <2>10 DEF StoryInv
<1> QED
  BY <1>1, <1>2 DEF Next, Ask, AddCandle, AddTrade, algorithmVars

\* Candles of all intervals tell the same, in whatever order the trades come (addTrade,
\* kline-aggregator.ts:31); in order, a long one opens and closes as its parts do.
THEOREM CandlesTellOneStory == Spec => []OneStory
<1>1. StoryInv => OneStory
  <2> SUFFICES ASSUME StoryInv PROVE OneStory
    OBVIOUS
  <2>1. PICK inOrder \in BOOLEAN : inOrder = InOrder
    BY DEF InOrder
  <2>2. IntervalsAgree(klines, inOrder)
    BY <2>1, ToldAgrees DEF StoryInv
  <2> QED
    BY <2>1, <2>2 DEF OneStory, InOrder
<1> QED
  BY <1>1, StoryBegins, StoryStep, PTL DEF Spec

-----------------------------------------------------------------------------
(* Folds: what FoldLeft makes of a sequence, one place after the other.       *)

LEMMA GreatestIsMember ==
  ASSUME NEW n \in Nat, NEW T \in SUBSET (0..n), T # {}
  PROVE  Max(T) \in T /\ \A y \in T : y <= Max(T)
<1> DEFINE D == {n - x : x \in T}
<1>1. D \in SUBSET Nat /\ D # {}
  <2>1. \A x \in T : n - x \in Nat
    OBVIOUS
  <2> QED
    BY <2>1
<1>2. PICK d \in D : \A y \in D : d <= y
  BY <1>1, LeastNumber
<1>3. PICK x \in T : d = n - x
  BY <1>2
<1>4. ASSUME NEW y \in T PROVE x >= y
  <2>1. n - y \in D
    OBVIOUS
  <2> HIDE DEF D
  <2> QED
    BY <1>2, <1>3, <2>1
<1>5. \A y \in T : Max(T) \in T /\ Max(T) >= y
  BY <1>4, Zenon DEF Max
<1> QED
  BY <1>5

\* What FoldLeft makes of each set of the first n places, the step at a place being a function.
Folded(h, base, g, n) ==
  h = [t \in SUBSET (1..n) |-> IF t = {} THEN base ELSE g[<<Max(t), h[t \ {Max(t)}]>>]]

LEMMA FoldsExist ==
  ASSUME NEW States, NEW base \in States, NEW n \in Nat, NEW g \in [(1..n) \X States -> States]
  PROVE  \E h \in [SUBSET (1..n) -> States] : Folded(h, base, g, n)
<1> DEFINE Has(k) == k <= n => \E h \in [SUBSET (1..k) -> States] : Folded(h, base, g, k)
           K == {k \in Nat : Has(k)}
<1>1. 0 \in K
  <2> DEFINE h == [t \in SUBSET (1..0) |-> base]
  <2>1. h \in [SUBSET (1..0) -> States] /\ Folded(h, base, g, 0)
    BY DEF Folded
  <2> QED
    BY <2>1
<1>2. ASSUME NEW k \in Nat, k \in K PROVE k + 1 \in K
  <2>0. Has(k)
    BY <1>2
  <2> SUFFICES Has(k + 1)
    <3> HIDE DEF Has
    <3> QED
      OBVIOUS
  <2> SUFFICES ASSUME k + 1 <= n
               PROVE  \E h \in [SUBSET (1..(k + 1)) -> States] : Folded(h, base, g, k + 1)
    BY Zenon
  <2>1. PICK f \in [SUBSET (1..k) -> States] : Folded(f, base, g, k)
    <3>1. k <= n
      OBVIOUS
    <3> QED
      BY <2>0, <3>1, Zenon
  <2> DEFINE h == [t \in SUBSET (1..(k + 1)) |->
                     IF k + 1 \in t THEN g[<<k + 1, f[t \ {k + 1}]>>] ELSE f[t]]
             next(t) == IF t = {} THEN base ELSE g[<<Max(t), h[t \ {Max(t)}]>>]
  <2>2. ASSUME NEW t \in SUBSET (1..(k + 1)) PROVE h[t] = next(t) /\ h[t] \in States
    <3>1. CASE k + 1 \in t
      <4>1. Max(t) = k + 1
        <5>1. k + 1 \in Nat /\ t \in SUBSET (0..(k + 1)) /\ t # {}
          BY <3>1
        <5>2. Max(t) \in t /\ \A y \in t : y <= Max(t)
          BY <5>1, GreatestIsMember
        <5>3. Max(t) \in 1..(k + 1) /\ k + 1 <= Max(t)
          BY <3>1, <5>2
        <5> QED
          BY <5>3
      <4>2. t \ {k + 1} \in SUBSET (1..k) /\ t \ {k + 1} \in SUBSET (1..(k + 1))
        OBVIOUS
      <4>3. h[t \ {k + 1}] = f[t \ {k + 1}] /\ f[t \ {k + 1}] \in States
        BY <4>2
      <4>4. h[t] = g[<<k + 1, f[t \ {k + 1}]>>]
        BY <3>1
      <4>5. <<k + 1, f[t \ {k + 1}]>> \in (1..n) \X States
        BY <4>3
      <4> QED
        BY <3>1, <4>1, <4>3, <4>4, <4>5
    <3>2. CASE k + 1 \notin t
      <4>1. t \in SUBSET (1..k) /\ h[t] = f[t]
        BY <3>2
      <4>2. CASE t = {}
        BY <2>1, <4>1, <4>2 DEF Folded
      <4>3. CASE t # {}
        <5>1. t \ {Max(t)} \in SUBSET (1..k) /\ t \ {Max(t)} \in SUBSET (1..(k + 1))
          BY <4>1
        <5>2. h[t \ {Max(t)}] = f[t \ {Max(t)}]
          BY <5>1, <3>2
        <5>3. f[t] = g[<<Max(t), f[t \ {Max(t)}]>>]
          BY <2>1, <4>1, <4>3 DEF Folded
        <5> QED
          BY <4>1, <4>3, <5>2, <5>3
      <4> QED
        BY <4>2, <4>3
    <3> QED
      BY <3>1, <3>2
  <2>3. h = [t \in SUBSET (1..(k + 1)) |-> next(t)]
    BY <2>2, Zenon
  <2>4. h \in [SUBSET (1..(k + 1)) -> States]
    BY <2>2
  <2> HIDE DEF h
  <2> QED
    BY <2>3, <2>4 DEF Folded
<1>3. \A k \in Nat : k \in K
  <2> HIDE DEF K
  <2> QED
    BY <1>1, <1>2, AllNumbers
<1>4. Has(n) /\ n <= n
  <2> HIDE DEF Has
  <2> QED
    BY <1>3
<1> QED
  BY <1>4, Zenon

\* The states of such a fold, place by place.
LEMMA FoldSteps ==
  ASSUME NEW n \in Nat, NEW h, NEW i \in 1..n
  PROVE  /\ 1..i \in SUBSET (1..n) /\ 1..i # {} /\ Max(1..i) = i /\ (1..i) \ {i} = 1..(i - 1)
<1>1. 1..i \in SUBSET (0..n) /\ i \in 1..i
  OBVIOUS
<1>2. Max(1..i) \in 1..i /\ \A y \in 1..i : y <= Max(1..i)
  BY <1>1, GreatestIsMember
<1>3. Max(1..i) = i
  BY <1>1, <1>2
<1> QED
  BY <1>1, <1>3

-----------------------------------------------------------------------------
(* Totals.                                                                 *)

Total(base, s) == FoldLeft(+, base, s)

\* Such a total, place by place.
Running(chain, base, s) ==
  /\ chain \in [0..Len(s) -> Int] /\ chain[0] = base
  /\ \A i \in 1..Len(s) : chain[i] = chain[i - 1] + s[i]

LEMMA TotalRuns ==
  ASSUME NEW base \in Int, NEW s \in Seq(Int)
  PROVE  \E chain : Running(chain, base, s) /\ chain[Len(s)] = Total(base, s)
<1> DEFINE n == Len(s)
           Step(t, h) == IF t = {} THEN base ELSE h[t \ {Max(t)}] + s[Max(t)]
           Adds(h) == h = [t \in SUBSET (1..n) |-> Step(t, h)]
           iter == CHOOSE h : Adds(h)
           g == [x \in (1..n) \X Int |-> x[2] + s[x[1]]]
<1>1. n \in Nat /\ DOMAIN s = 1..n /\ \A i \in 1..n : s[i] \in Int
  BY ElementOfSeq
<1>2. Total(base, s) = iter[1..n]
  BY <1>1 DEF Total, FoldLeft, MapThenFoldSet
<1>3. g \in [(1..n) \X Int -> Int]
  BY <1>1
<1>4. \E h : Adds(h)
  <2>1. PICK h \in [SUBSET (1..n) -> Int] : Folded(h, base, g, n)
    <3> HIDE DEF g
    <3> QED
      BY <1>1, <1>3, FoldsExist
  <2>2. ASSUME NEW t \in SUBSET (1..n) PROVE h[t] = Step(t, h)
    <3>1. CASE t = {}
      BY <2>1, <3>1 DEF Folded
    <3>2. CASE t # {}
      <4>1. Max(t) \in 1..n
        <5>1. t \in SUBSET (0..n)
          OBVIOUS
        <5>2. Max(t) \in t
          BY <1>1, <3>2, <5>1, GreatestIsMember
        <5> QED
          BY <5>2
      <4>2. h[t] = g[<<Max(t), h[t \ {Max(t)}]>>]
        BY <2>1, <3>2 DEF Folded
      <4> QED
        BY <3>2, <4>1, <4>2
    <3> QED
      BY <3>1, <3>2
  <2>3. Adds(h)
    BY <2>1, <2>2, Zenon
  <2> QED
    BY <2>3
<1>5. Adds(iter)
  BY <1>4, Zenon
<1> HIDE DEF iter
<1>6. iter[1..0] = base
  <2>1. {} \in SUBSET (1..n) /\ 1..0 = {}
    OBVIOUS
  <2>2. iter[{}] = Step({}, iter)
    BY <1>5, <2>1
  <2> QED
    BY <2>1, <2>2
<1>7. ASSUME NEW i \in 1..n PROVE iter[1..i] = iter[1..(i - 1)] + s[i]
  <2>1. /\ 1..i \in SUBSET (1..n) /\ 1..i # {} /\ Max(1..i) = i /\ (1..i) \ {i} = 1..(i - 1)
    BY <1>1, FoldSteps
  <2>2. iter[1..i] = Step(1..i, iter)
    BY <1>5, <2>1
  <2> QED
    BY <2>1, <2>2
<1>8. \A i \in 0..n : iter[1..i] \in Int
  <2> DEFINE I == {i \in Nat : i <= n => iter[1..i] \in Int}
  <2>1. 0 \in I
    BY <1>6
  <2>2. ASSUME NEW i \in Nat, i \in I PROVE i + 1 \in I
    <3> SUFFICES ASSUME i + 1 <= n PROVE iter[1..(i + 1)] \in Int
      OBVIOUS
    <3>1. i + 1 \in 1..n /\ i + 1 - 1 = i /\ iter[1..i] \in Int
      BY <1>1, <2>2
    <3>2. iter[1..(i + 1)] = iter[1..i] + s[i + 1]
      BY <1>7, <3>1
    <3> QED
      BY <1>1, <3>1, <3>2
  <2>3. \A i \in Nat : i \in I
    <3> HIDE DEF I
    <3> QED
      BY <2>1, <2>2, AllNumbers
  <2> QED
    BY <1>1, <2>3
<1> DEFINE chain == [i \in 0..n |-> iter[1..i]]
<1>9. Running(chain, base, s)
  <2>1. chain[0] = base
    BY <1>1, <1>6
  <2>2. ASSUME NEW i \in 1..n PROVE chain[i] = chain[i - 1] + s[i]
    <3>1. i \in 0..n /\ i - 1 \in 0..n
      BY <1>1
    <3> QED
      BY <1>7, <3>1
  <2> QED
    BY <1>8, <2>1, <2>2 DEF Running
<1>10. chain[n] = Total(base, s)
  <2>1. n \in 0..n
    BY <1>1
  <2> QED
    BY <1>2, <2>1
<1> HIDE DEF chain
<1> QED
  BY <1>9, <1>10

\* What the total begins with is added to it.
LEMMA TotalFrom ==
  ASSUME NEW base \in Int, NEW s \in Seq(Int)
  PROVE  /\ Total(base, s) = base + Total(0, s)
         /\ Total(0, s) \in Int
<1>1. PICK a : Running(a, base, s) /\ a[Len(s)] = Total(base, s)
  BY TotalRuns
<1>2. PICK b : Running(b, 0, s) /\ b[Len(s)] = Total(0, s)
  BY TotalRuns
<1>3. PICK n \in Nat : n = Len(s)
  OBVIOUS
<1>4. \A i \in 1..n : s[i] \in Int
  BY <1>3, ElementOfSeq
<1> DEFINE I == {i \in Nat : i <= n => a[i] = base + b[i]}
<1>5. 0 \in I
  BY <1>1, <1>2 DEF Running
<1>6. ASSUME NEW i \in Nat, i \in I PROVE i + 1 \in I
  <2> SUFFICES ASSUME i + 1 <= n PROVE a[i + 1] = base + b[i + 1]
    OBVIOUS
  <2>1. a[i] = base + b[i] /\ i \in 0..n /\ i + 1 \in 1..n /\ (i + 1) - 1 = i
    BY <1>6
  <2>2. a[i + 1] = a[i] + s[i + 1] /\ b[i + 1] = b[i] + s[i + 1] /\ b[i] \in Int
    BY <1>1, <1>2, <1>3, <2>1 DEF Running
  <2> QED
    BY <1>4, <2>1, <2>2
<1>7. \A i \in Nat : i \in I
  <2> HIDE DEF I
  <2> QED
    BY <1>5, <1>6, AllNumbers
<1>8. a[n] = base + b[n] /\ b[n] \in Int
  BY <1>2, <1>3, <1>7 DEF Running
<1> QED
  BY <1>1, <1>2, <1>3, <1>8

\* A total of numbers is at most as many times the largest.
LEMMA TotalAtMost ==
  ASSUME NEW s \in Seq(Int), NEW top \in Int, \A i \in 1..Len(s) : s[i] <= top
  PROVE  Total(0, s) <= Len(s) * top
<1>1. PICK b : Running(b, 0, s) /\ b[Len(s)] = Total(0, s)
  BY TotalRuns
<1>2. PICK n \in Nat : n = Len(s)
  OBVIOUS
<1>3. \A i \in 1..n : s[i] \in Int
  BY <1>2, ElementOfSeq
<1> DEFINE I == {i \in Nat : i <= n => b[i] <= i * top}
<1>4. 0 \in I
  BY <1>1 DEF Running
<1>5. ASSUME NEW i \in Nat, i \in I PROVE i + 1 \in I
  <2> SUFFICES ASSUME i + 1 <= n PROVE b[i + 1] <= (i + 1) * top
    OBVIOUS
  <2>1. b[i] <= i * top /\ i \in 0..n /\ i + 1 \in 1..n /\ (i + 1) - 1 = i
    BY <1>5
  <2>2. b[i + 1] = b[i] + s[i + 1] /\ b[i] \in Int
    BY <1>1, <1>2, <2>1 DEF Running
  <2>3. (i + 1) * top = i * top + top /\ i * top \in Int
    OBVIOUS
  <2>4. s[i + 1] <= top /\ s[i + 1] \in Int
    BY <1>2, <1>3, <2>1
  <2> QED
    BY <2>1, <2>2, <2>3, <2>4
<1>6. \A i \in Nat : i \in I
  <2> HIDE DEF I
  <2> QED
    BY <1>4, <1>5, AllNumbers
<1>7. b[n] <= n * top
  BY <1>6
<1> QED
  BY <1>1, <1>2, <1>7

\* A total of values is one.
LEMMA TotalOfValues ==
  ASSUME NEW s \in Seq(Nat)
  PROVE  Total(0, s) \in Nat
<1>1. s \in Seq(Int) /\ \A i \in 1..Len(s) : s[i] \in Nat
  BY ElementOfSeq, SeqDef
<1>2. PICK b : Running(b, 0, s) /\ b[Len(s)] = Total(0, s)
  BY <1>1, TotalRuns
<1>3. PICK n \in Nat : n = Len(s)
  OBVIOUS
<1> DEFINE I == {i \in Nat : i <= n => b[i] \in Nat}
<1>4. 0 \in I
  BY <1>2 DEF Running
<1>5. ASSUME NEW i \in Nat, i \in I PROVE i + 1 \in I
  <2> SUFFICES ASSUME i + 1 <= n PROVE b[i + 1] \in Nat
    OBVIOUS
  <2>1. b[i] \in Nat /\ i \in 0..n /\ i + 1 \in 1..n /\ (i + 1) - 1 = i
    BY <1>5
  <2> QED
    BY <1>1, <1>2, <1>3, <2>1 DEF Running
<1>6. \A i \in Nat : i \in I
  <2> HIDE DEF I
  <2> QED
    BY <1>4, <1>5, AllNumbers
<1> QED
  BY <1>2, <1>3, <1>6

-----------------------------------------------------------------------------
(* The rebalancer.                                                         *)

RebalanceConfig == [targetPct : 0..100, tolerancePct : Nat, minRebalance : Nat]

LEMMA PortfolioValued ==
  ASSUME NEW b \in Seq(Nat), NEW cash \in Nat
  PROVE  totalPortfolioValue(b, cash) \in Nat
<1>1. b \in Seq(Int)
  BY SeqDef
<1>2. Total(cash, b) = cash + Total(0, b)
  BY <1>1, TotalFrom
<1>3. Total(0, b) \in Nat
  BY TotalOfValues
<1>4. totalPortfolioValue(b, cash) = Total(cash, b)
  BY DEF totalPortfolioValue, Total
<1> QED
  BY <1>2, <1>3, <1>4

\* A product of numbers, one of them positive, is 0 or positive as the other is.
LEMMA Scaled ==
  ASSUME NEW d \in Nat \ {0}, NEW x \in Int, NEW y \in Int
  PROVE  /\ d * x \in Int /\ d * y \in Int
         /\ d * x <= d * y <=> x <= y
         /\ d * x = d * y <=> x = y
<1>1. ASSUME NEW u \in Int, NEW v \in Int, u < v PROVE d * u < d * v
  <2>1. PICK e \in Nat : v = u + 1 + e
    <3>1. v - (u + 1) \in Nat /\ v = u + 1 + (v - (u + 1))
      BY <1>1
    <3> QED
      BY <3>1
  <2>2. d * v = d * u + d + d * e
    BY <2>1
  <2>3. d * e \in Nat /\ d * u \in Int
    OBVIOUS
  <2> QED
    BY <2>2, <2>3
<1>2. d * x \in Int /\ d * y \in Int
  OBVIOUS
<1>3. CASE x < y
  BY <1>1, <1>2, <1>3
<1>4. CASE y < x
  BY <1>1, <1>2, <1>4
<1>5. CASE x = y
  BY <1>2, <1>5
<1> QED
  BY <1>3, <1>4, <1>5

LEMMA PositiveProduct ==
  ASSUME NEW x \in Nat \ {0}, NEW y \in Nat \ {0}
  PROVE  x * y \in Nat \ {0}
<1>1. y - 1 \in Nat /\ x * (y - 1) \in Nat /\ x * y = x * (y - 1) + x
  OBVIOUS
<1> QED
  BY <1>1

Away(x) == IF x < 0 THEN -x ELSE x

\* The value of a token and its target over the denominator, and the tokens of a plan.
Held(b, i) == Denominator(b) * b[i]
Target(c, b, cash) == (100 - c.targetPct) * totalPortfolioValue(b, cash)
Planned(c, b, cash, i) ==
  /\ totalPortfolioValue(b, cash) # 0
  /\ Away(Target(c, b, cash) - Held(b, i)) >= c.tolerancePct * Len(b) * totalPortfolioValue(b, cash)
  /\ Away(Target(c, b, cash) - Held(b, i)) >= Denominator(b) * c.minRebalance

LEMMA PlanHas ==
  ASSUME NEW c, NEW b, NEW cash, NEW plan, plan = calculateRebalance(c, b, cash)
  PROVE  \A i : i \in DOMAIN plan <=> i \in DOMAIN b /\ Planned(c, b, cash, i)
  BY DEF calculateRebalance, Distance, Planned, Away, Held, Target

LEMMA PlanIs ==
  ASSUME NEW c, NEW b, NEW cash, NEW plan, plan = calculateRebalance(c, b, cash),
         NEW i \in DOMAIN plan
  PROVE  plan[i] = [action |-> IF Held(b, i) > Target(c, b, cash) THEN "sell" ELSE "buy",
                    amount |-> Away(Target(c, b, cash) - Held(b, i))]
  BY DEF calculateRebalance, Distance, Away, Held, Target

LEMMA PortfolioTyped ==
  ASSUME NEW c \in RebalanceConfig, NEW b \in Seq(Nat), NEW cash \in Nat
  PROVE  /\ Denominator(b) \in Nat /\ Target(c, b, cash) \in Nat
         /\ \A i \in DOMAIN b : Held(b, i) \in Nat
<1>1. PICK d \in Nat : d = Denominator(b)
  BY DEF Denominator
<1>2. PICK total \in Nat : total = totalPortfolioValue(b, cash)
  BY PortfolioValued
<1>3. PICK rest \in Nat : rest = 100 - c.targetPct
  <2>1. PICK p \in 0..100 : p = c.targetPct
    BY DEF RebalanceConfig
  <2>2. 100 - p \in Nat
    OBVIOUS
  <2> QED
    BY <2>1, <2>2
<1>4. Target(c, b, cash) \in Nat
  BY <1>2, <1>3 DEF Target
<1>5. \A i \in DOMAIN b : Held(b, i) \in Nat
  BY <1>1, ElementOfSeq DEF Held
<1> QED
  BY <1>1, <1>4, <1>5

\* What a portfolio holds of a token after a plan: its target, or what it held before.
LEMMA TradedIs ==
  ASSUME NEW c \in RebalanceConfig, NEW b \in Seq(Nat), NEW cash \in Nat, NEW i \in DOMAIN b,
         NEW plan, plan = calculateRebalance(c, b, cash)
  PROVE  Held(b, i) + (IF i \in DOMAIN plan THEN Signed(plan[i]) ELSE 0)
           = IF Planned(c, b, cash, i) THEN Target(c, b, cash) ELSE Held(b, i)
<1>1. PICK held \in Nat : held = Held(b, i)
  BY PortfolioTyped
<1>2. PICK target \in Nat : target = Target(c, b, cash)
  BY PortfolioTyped
<1>3. i \in DOMAIN plan <=> Planned(c, b, cash, i)
  BY PlanHas
<1>4. ASSUME i \in DOMAIN plan
      PROVE  held + Signed(plan[i]) = target
  <2>1. plan[i] = [action |-> IF held > target THEN "sell" ELSE "buy", amount |-> Away(target - held)]
    BY <1>1, <1>2, <1>4, PlanIs
  <2>2. CASE held > target
    <3>1. Away(target - held) = held - target
      BY <2>2 DEF Away
    <3>2. plan[i] = [action |-> "sell", amount |-> held - target]
      BY <2>1, <2>2, <3>1
    <3> QED
      BY <3>2 DEF Signed
  <2>3. CASE ~(held > target)
    <3>1. Away(target - held) = target - held
      BY <2>3 DEF Away
    <3>2. plan[i] = [action |-> "buy", amount |-> target - held]
      BY <2>1, <2>3, <3>1
    <3> QED
      BY <3>2 DEF Signed
  <2> QED
    BY <2>2, <2>3
<1>5. CASE i \in DOMAIN plan
  BY <1>1, <1>2, <1>3, <1>4, <1>5
<1>6. CASE i \notin DOMAIN plan
  BY <1>1, <1>3, <1>6
<1> QED
  BY <1>5, <1>6

\* Trading as planned leaves nothing to plan, and when every token over its target is sold, the
\* cash keeps its share (calculateRebalance, rebalancer.ts), for any portfolio.
THEOREM RebalancingSettles ==
  ASSUME NEW c \in RebalanceConfig, NEW b \in Seq(Nat), NEW cash \in Nat
  PROVE  RebalanceSettles(c, b, cash)
<1>1. PICK n \in Nat : n = Len(b) /\ DOMAIN b = 1..n
  OBVIOUS
<1>2. PICK d \in Nat : d = Denominator(b) /\ d = 100 * n
  BY <1>1 DEF Denominator
<1>3. PICK total \in Nat : total = totalPortfolioValue(b, cash)
  BY PortfolioValued
<1>4. PICK target \in Nat : target = Target(c, b, cash)
  BY PortfolioTyped
<1>5. PICK plan : plan = calculateRebalance(c, b, cash)
  OBVIOUS
<1>6. PICK traded : traded = [i \in DOMAIN b |->
                       d * b[i] + (IF i \in DOMAIN plan THEN Signed(plan[i]) ELSE 0)]
  OBVIOUS
<1>7. \A i \in 1..n : traded[i] = IF Planned(c, b, cash, i) THEN target ELSE Held(b, i)
  <2> SUFFICES ASSUME NEW i \in 1..n
               PROVE  traded[i] = IF Planned(c, b, cash, i) THEN target ELSE Held(b, i)
    OBVIOUS
  <2>1. Held(b, i) + (IF i \in DOMAIN plan THEN Signed(plan[i]) ELSE 0)
          = IF Planned(c, b, cash, i) THEN Target(c, b, cash) ELSE Held(b, i)
    BY <1>1, <1>5, TradedIs
  <2>2. traded[i] = Held(b, i) + (IF i \in DOMAIN plan THEN Signed(plan[i]) ELSE 0)
    BY <1>1, <1>2, <1>6 DEF Held
  <2> QED
    BY <1>4, <2>1, <2>2
<1>8. /\ DOMAIN traded = 1..n /\ traded \in Seq(Int) /\ Len(traded) = n
      /\ \A i \in 1..n : Held(b, i) \in Nat
  <2>1. \A i \in 1..n : Held(b, i) \in Nat
    BY <1>1, PortfolioTyped
  <2>2. traded \in [1..n -> Int]
    BY <1>1, <1>6, <1>7, <2>1
  <2> QED
    BY <2>1, <2>2, SeqDef, LenProperties
<1>9. PICK sum \in Int : sum = Total(0, traded)
  BY <1>8, TotalFrom
<1>10. PICK left \in Int : left = d * total - sum
  OBVIOUS
<1>11. totalPortfolioValue(traded, left) = d * total
  <2>1. Total(left, traded) = left + sum
    BY <1>8, <1>9, <1>10, TotalFrom
  <2>2. d * total \in Int
    OBVIOUS
  <2>3. totalPortfolioValue(traded, left) = Total(left, traded)
    BY DEF totalPortfolioValue, Total
  <2> QED
    BY <1>10, <2>1, <2>2, <2>3
<1>12. PICK e : e = [c EXCEPT !.minRebalance = d * @]
  OBVIOUS
<1>13. /\ e.targetPct = c.targetPct /\ e.tolerancePct = c.tolerancePct
       /\ e.minRebalance = d * c.minRebalance
  BY <1>12 DEF RebalanceConfig
<1>14. ASSUME c.tolerancePct > 0 \/ c.minRebalance > 0, NEW i \in 1..n
       PROVE  ~Planned(e, traded, left, i)
  <2> SUFFICES ASSUME Planned(e, traded, left, i) PROVE FALSE
    OBVIOUS
  <2>1. n \in Nat \ {0} /\ d \in Nat \ {0}
    BY <1>2
  <2>2. d * total # 0
    BY <1>11 DEF Planned
  <2>3. total \in Nat \ {0}
    BY <2>2
  <2>4. PICK tol \in Nat : tol = c.tolerancePct
    BY DEF RebalanceConfig
  <2>5. PICK min \in Nat : min = c.minRebalance
    BY DEF RebalanceConfig
  <2>6. PICK now \in Nat : now = traded[i]
    BY <1>7, <1>8
  <2>7. Denominator(traded) = d
    BY <1>2, <1>8 DEF Denominator
  <2>8. Held(traded, i) = d * now
    BY <2>6, <2>7 DEF Held
  <2>9. Target(e, traded, left) = d * target
    <3>1. PICK rest \in Nat : rest = 100 - c.targetPct
      <4>1. PICK p \in 0..100 : p = c.targetPct
        BY DEF RebalanceConfig
      <4>2. 100 - p \in Nat
        OBVIOUS
      <4> QED
        BY <4>1, <4>2
    <3>2. Target(e, traded, left) = rest * (d * total)
      BY <1>11, <1>13, <3>1 DEF Target
    <3>3. target = rest * total
      BY <1>3, <1>4, <3>1 DEF Target
    <3>4. rest * (d * total) = d * (rest * total)
      OBVIOUS
    <3> QED
      BY <3>2, <3>3, <3>4
  <2>10. PICK away \in Nat : away = Away(target - now)
    <3>1. PICK gap \in Int : gap = target - now
      OBVIOUS
    <3>2. Away(gap) \in Nat
      BY DEF Away
    <3> QED
      BY <3>1, <3>2
  <2>11. Away(d * target - d * now) = d * away
    <3>1. d * (target - now) = d * target - d * now /\ d * target \in Int /\ d * now \in Int
      OBVIOUS
    <3>2. d * target < d * now <=> target < now
      BY <2>1, Scaled
    <3>3. CASE target < now
      <4>1. away = now - target
        BY <2>10, <3>3 DEF Away
      <4>2. Away(d * target - d * now) = d * now - d * target
        BY <3>1, <3>2, <3>3 DEF Away
      <4> QED
        BY <4>1, <4>2
    <3>4. CASE ~(target < now)
      <4>1. away = target - now
        BY <2>10, <3>4 DEF Away
      <4>2. Away(d * target - d * now) = d * target - d * now
        BY <3>1, <3>2, <3>4 DEF Away
      <4> QED
        BY <4>1, <4>2
    <3> QED
      BY <3>3, <3>4
  <2>12. /\ d * away >= tol * n * (d * total)
         /\ d * away >= d * (d * min)
    BY <1>8, <1>11, <1>13, <2>4, <2>5, <2>7, <2>8, <2>9, <2>11 DEF Planned
  <2>13. away >= tol * n * total /\ away >= d * min
    <3>1. tol * n * (d * total) = d * (tol * n * total) /\ tol * n * total \in Int /\ d * min \in Int
      OBVIOUS
    <3>2. d * (tol * n * total) <= d * away <=> tol * n * total <= away
      BY <2>1, <3>1, Scaled
    <3>3. d * (d * min) <= d * away <=> d * min <= away
      BY <2>1, <3>1, Scaled
    <3> QED
      BY <2>12, <3>1, <3>2, <3>3
  <2>14. CASE Planned(c, b, cash, i)
    <3>1. now = target
      BY <1>7, <2>6, <2>14
    <3>2. away = 0
      BY <2>10, <3>1 DEF Away
    <3>3. CASE tol # 0
      <4>1. tol * n \in Nat \ {0}
        BY <2>1, <3>3, PositiveProduct
      <4>2. tol * n * total \in Nat \ {0}
        BY <2>3, <4>1, PositiveProduct
      <4> QED
        BY <2>13, <3>2, <4>2
    <3>4. CASE min # 0
      <4>1. d * min \in Nat \ {0}
        BY <2>1, <3>4, PositiveProduct
      <4> QED
        BY <2>13, <3>2, <4>1
    <3> QED
      BY <1>14, <2>4, <2>5, <3>3, <3>4
  <2>15. CASE ~Planned(c, b, cash, i)
    <3>1. now = Held(b, i)
      BY <1>7, <2>6, <2>15
    <3>2. Planned(c, b, cash, i)
      BY <1>1, <1>2, <1>3, <1>4, <2>3, <2>4, <2>5, <2>10, <2>13, <3>1 DEF Planned
    <3> QED
      BY <2>15, <3>2
  <2> QED
    BY <2>14, <2>15
<1>15. ASSUME \A i \in 1..n : Held(b, i) > target => i \in DOMAIN plan
       PROVE  100 * left >= c.targetPct * d * total
  <2>1. \A i \in 1..n : traded[i] <= target
    <3> SUFFICES ASSUME NEW i \in 1..n PROVE traded[i] <= target
      OBVIOUS
    <3>1. i \in DOMAIN plan => Planned(c, b, cash, i)
      BY <1>5, PlanHas
    <3> QED
      BY <1>7, <1>8, <1>15, <3>1
  <2>2. sum <= n * target
    <3>1. target \in Int /\ traded \in Seq(Int) /\ \A i \in 1..Len(traded) : traded[i] <= target
      BY <1>8, <2>1
    <3>2. Total(0, traded) <= Len(traded) * target
      BY ONLY <3>1, TotalAtMost
    <3> QED
      BY <1>8, <1>9, <3>2
  <2>3. PICK p \in 0..100 : p = c.targetPct
    BY DEF RebalanceConfig
  <2>4. target = (100 - p) * total
    BY <1>3, <1>4, <2>3 DEF Target
  <2>5. PICK whole \in Nat : whole = n * total
    OBVIOUS
  <2>6. n * target = (100 - p) * whole
    BY <2>4, <2>5
  <2>7. (100 - p) * whole = 100 * whole - p * whole /\ p * whole \in Nat
    OBVIOUS
  <2>8. d * total = 100 * whole
    BY <1>2, <2>5
  <2>9. left >= p * whole
    <3>1. PICK part \in Nat : part = p * whole
      BY <2>7
    <3> QED
      BY <1>10, <2>2, <2>6, <2>7, <2>8, <3>1
  <2>10. c.targetPct * d * total = 100 * (p * whole)
    <3>1. p * d * total = p * (d * total)
      OBVIOUS
    <3>2. p * (100 * whole) = 100 * (p * whole)
      OBVIOUS
    <3> QED
      BY <2>3, <2>8, <3>1, <3>2
  <2>11. PICK part \in Nat : part = p * whole
    BY <2>7
  <2> QED
    BY <2>9, <2>10, <2>11
<1>16. ASSUME c.tolerancePct > 0 \/ c.minRebalance > 0
       PROVE  calculateRebalance(e, traded, left) = <<>>
  <2>1. PICK again : again = calculateRebalance(e, traded, left)
    OBVIOUS
  <2>2. DOMAIN again = {}
    <3>1. \A i : i \in DOMAIN again <=> i \in DOMAIN traded /\ Planned(e, traded, left, i)
      BY <2>1, PlanHas
    <3> QED
      BY <1>8, <1>14, <1>16, <3>1
  <2>3. again = <<>>
    <3>1. DOMAIN <<>> = {}
      OBVIOUS
    <3>2. again = [i \in DOMAIN again |-> again[i]]
      BY <2>1 DEF calculateRebalance
    <3> QED
      BY <2>2, <3>1, <3>2
  <2> QED
    BY <2>1, <2>3
<1>17. left = d * total - FoldLeft(+, 0, traded)
  BY <1>9, <1>10 DEF Total
<1> QED
  BY <1>1, <1>2, <1>3, <1>4, <1>5, <1>6, <1>12, <1>15, <1>16, <1>17, Zenon DEF RebalanceSettles, Held, Target

LEMMA PortfolioAsked ==
  ASSUME AskedInv, Is("portfolio")
  PROVE  asked.config \in RebalanceConfig /\ asked.balances \in Seq(Nat) /\ asked.cash \in Nat
<1>1. asked \in Portfolios
  BY DEF AskedInv, Is, Quotes, Portfolios, Diffs, Rotations, Oracles, Queues
<1>2. asked.balances \in Seq(Nat) /\ asked.cash \in Nat
  <2>1. PICK n \in 1..3 : asked.balances \in [1..n -> {0, 1, 4, 10}]
    BY <1>1 DEF Portfolios
  <2>2. n \in Nat /\ asked.balances \in [1..n -> Nat]
    BY <2>1
  <2> QED
    BY <1>1, <2>2, SeqDef DEF Portfolios
<1>3. asked.config \in RebalanceConfig
  <2>1. asked.config \in [targetPct : {0, 20, 50, 100}, tolerancePct : {0, 5, 25}, minRebalance : {0, 2}]
    BY <1>1 DEF Portfolios
  <2> QED
    BY <2>1 DEF RebalanceConfig
<1> QED
  BY <1>2, <1>3

\* RebalancesSettle, of every portfolio asked for (rebalancer.ts:105).
THEOREM RebalancesAlwaysSettle == Spec => []RebalancesSettle
<1>1. AskedInv => RebalancesSettle
  BY PortfolioAsked, RebalancingSettles DEF RebalancesSettle
<1> QED
  BY <1>1, AskedStays, PTL

-----------------------------------------------------------------------------
(* The rotation of markets.                                                 *)

Scores(s, Ids) == s \in Seq([id : Ids, score : Nat])

\* The markets chosen from the first ranked ones.
Stays(s, current, known, threshold) ==
  s.id \in current \/ known = {} \/ s.score - Min(known) > threshold

Choosing(chain, scores, count, current, known, threshold) ==
  /\ chain[0] = <<>>
  /\ \A i \in 1..Len(scores) :
       chain[i] = IF Len(chain[i - 1]) < count /\ Stays(scores[i], current, known, threshold)
                  THEN Append(chain[i - 1], scores[i].id) ELSE chain[i - 1]

LEMMA ChoiceRuns ==
  ASSUME NEW Ids, NEW scores, Scores(scores, Ids), NEW count \in Nat, NEW current,
         NEW threshold \in Nat
  PROVE  \E chain \in [0..Len(scores) -> Seq(Ids)] :
           /\ Choosing(chain, scores, count, current, findWorstScore(scores, current), threshold)
           /\ chain[Len(scores)] = selectTop(scores, count, current, threshold)
<1>1. PICK known : known = findWorstScore(scores, current)
  OBVIOUS
<1> DEFINE n == Len(scores)
           Next1(r, s) == IF Len(r) < count /\ Stays(s, current, known, threshold)
                          THEN Append(r, s.id) ELSE r
           Step(t, h) == IF t = {} THEN <<>> ELSE Next1(h[t \ {Max(t)}], scores[Max(t)])
           Adds(h) == h = [t \in SUBSET (1..n) |-> Step(t, h)]
           iter == CHOOSE h : Adds(h)
           g == [x \in (1..n) \X Seq(Ids) |-> Next1(x[2], scores[x[1]])]
<1>2. n \in Nat /\ DOMAIN scores = 1..n /\ \A i \in 1..n : scores[i].id \in Ids
  <2>1. \A i \in 1..n : scores[i] \in [id : Ids, score : Nat]
    BY ElementOfSeq DEF Scores
  <2> QED
    BY <2>1
<1>3. selectTop(scores, count, current, threshold) = iter[1..n]
  BY <1>1, <1>2 DEF selectTop, FoldLeft, MapThenFoldSet, Stays
<1>4. g \in [(1..n) \X Seq(Ids) -> Seq(Ids)]
  <2>1. ASSUME NEW x \in (1..n) \X Seq(Ids) PROVE Next1(x[2], scores[x[1]]) \in Seq(Ids)
    <3>1. x[2] \in Seq(Ids) /\ scores[x[1]].id \in Ids
      BY <1>2
    <3>2. Append(x[2], scores[x[1]].id) \in Seq(Ids)
      BY <3>1, AppendProperties
    <3> QED
      BY <3>1, <3>2
  <2> QED
    BY <2>1
<1>5. \E h \in [SUBSET (1..n) -> Seq(Ids)] : Adds(h)
  <2>1. PICK h \in [SUBSET (1..n) -> Seq(Ids)] : Folded(h, <<>>, g, n)
    <3>1. <<>> \in Seq(Ids)
      OBVIOUS
    <3> HIDE DEF g
    <3> QED
      BY <1>2, <1>4, <3>1, FoldsExist
  <2>2. ASSUME NEW t \in SUBSET (1..n) PROVE h[t] = Step(t, h)
    <3>1. CASE t = {}
      BY <2>1, <3>1 DEF Folded
    <3>2. CASE t # {}
      <4>1. Max(t) \in 1..n
        <5>1. t \in SUBSET (0..n)
          OBVIOUS
        <5>2. Max(t) \in t
          BY <1>2, <3>2, <5>1, GreatestIsMember
        <5> QED
          BY <5>2
      <4>2. h[t] = g[<<Max(t), h[t \ {Max(t)}]>>]
        BY <2>1, <3>2 DEF Folded
      <4>3. h[t \ {Max(t)}] \in Seq(Ids)
        OBVIOUS
      <4>4. <<Max(t), h[t \ {Max(t)}]>> \in (1..n) \X Seq(Ids)
        BY <4>1, <4>3
      <4>5. g[<<Max(t), h[t \ {Max(t)}]>>] = Next1(h[t \ {Max(t)}], scores[Max(t)])
        BY <4>4
      <4> QED
        BY <3>2, <4>2, <4>5
    <3> QED
      BY <3>1, <3>2
  <2>3. Adds(h)
    <3> HIDE DEF Step
    <3> QED
      BY <2>1, <2>2, Zenon
  <2> QED
    BY <2>3
<1>6. PICK h \in [SUBSET (1..n) -> Seq(Ids)] : Adds(h)
  BY <1>5
<1>7. Adds(iter)
  <2> HIDE DEF Adds
  <2> QED
    BY <1>6, Zenon
<1> HIDE DEF iter
<1>8. iter[1..0] = <<>>
  <2>1. {} \in SUBSET (1..n) /\ 1..0 = {}
    OBVIOUS
  <2>2. iter[{}] = Step({}, iter)
    BY <1>7, <2>1
  <2> QED
    BY <2>1, <2>2
<1>9. ASSUME NEW i \in 1..n PROVE iter[1..i] = Next1(iter[1..(i - 1)], scores[i])
  <2>1. /\ 1..i \in SUBSET (1..n) /\ 1..i # {} /\ Max(1..i) = i /\ (1..i) \ {i} = 1..(i - 1)
    BY <1>2, FoldSteps
  <2>2. iter[1..i] = Step(1..i, iter)
    BY <1>7, <2>1
  <2> QED
    BY <2>1, <2>2
<1>10. \A i \in 0..n : iter[1..i] \in Seq(Ids)
  <2> DEFINE I == {i \in Nat : i <= n => iter[1..i] \in Seq(Ids)}
  <2>1. 0 \in I
    <3>1. iter[1..0] \in Seq(Ids)
      BY <1>8
    <3> HIDE DEF n
    <3> QED
      BY <3>1
  <2>2. ASSUME NEW i \in Nat, i \in I PROVE i + 1 \in I
    <3> SUFFICES ASSUME i + 1 <= n PROVE iter[1..(i + 1)] \in Seq(Ids)
      OBVIOUS
    <3>1. i + 1 \in 1..n /\ i + 1 - 1 = i /\ iter[1..i] \in Seq(Ids) /\ scores[i + 1].id \in Ids
      BY <1>2, <2>2
    <3>2. iter[1..(i + 1)] = Next1(iter[1..i], scores[i + 1])
      BY <1>9, <3>1
    <3>3. Append(iter[1..i], scores[i + 1].id) \in Seq(Ids)
      BY <3>1, AppendProperties
    <3> QED
      BY <3>1, <3>2, <3>3
  <2>3. \A i \in Nat : i \in I
    <3> HIDE DEF I
    <3> QED
      BY <2>1, <2>2, AllNumbers
  <2> QED
    BY <1>2, <2>3
<1> DEFINE chain == [i \in 0..n |-> iter[1..i]]
<1>11. Choosing(chain, scores, count, current, known, threshold)
  <2>1. chain[0] = <<>>
    BY <1>2, <1>8
  <2>2. ASSUME NEW i \in 1..n
        PROVE  chain[i] = Next1(chain[i - 1], scores[i])
    <3>1. i \in 0..n /\ i - 1 \in 0..n
      BY <1>2
    <3> QED
      BY <1>9, <3>1
  <2> QED
    BY <2>1, <2>2 DEF Choosing
<1>12. chain[n] = selectTop(scores, count, current, threshold) /\ chain \in [0..n -> Seq(Ids)]
  <2>1. n \in 0..n
    BY <1>2
  <2> QED
    BY <1>3, <1>10, <2>1
<1> HIDE DEF chain
<1> QED
  BY <1>1, <1>11, <1>12

\* What is chosen up to a place stays in when there is room, and all that does is chosen.
ChosenUpTo(i, chain, scores, count, current, known, threshold) ==
  /\ \A x \in ToSet(chain[i]) : \E j \in 1..i :
       scores[j].id = x /\ Stays(scores[j], current, known, threshold)
  /\ \A j \in 1..i : /\ Len(chain[j - 1]) < count
                     /\ Stays(scores[j], current, known, threshold)
                     => scores[j].id \in ToSet(chain[i])

LEMMA ChosenFrom ==
  ASSUME NEW Ids, NEW scores, Scores(scores, Ids), NEW count \in Nat, NEW current, NEW known,
         NEW threshold \in Nat, NEW chain \in [0..Len(scores) -> Seq(Ids)],
         Choosing(chain, scores, count, current, known, threshold), NEW i \in 0..Len(scores)
  PROVE  ChosenUpTo(i, chain, scores, count, current, known, threshold)
<1> DEFINE n == Len(scores)
           Here(k) == ChosenUpTo(k, chain, scores, count, current, known, threshold)
           K == {k \in Nat : k <= n => Here(k)}
<1>1. n \in Nat
  OBVIOUS
<1>2. 0 \in K
  <2>1. chain[0] = <<>>
    BY DEF Choosing
  <2> QED
    BY <2>1 DEF ToSet, ChosenUpTo
<1>3. ASSUME NEW k \in Nat, k \in K PROVE k + 1 \in K
  <2> SUFFICES ASSUME k + 1 <= n PROVE Here(k + 1)
    <3> HIDE DEF Here
    <3> QED
      OBVIOUS
  <2>1. Here(k)
    <3> HIDE DEF Here
    <3> QED
      BY <1>1, <1>3
  <2>2. /\ k + 1 \in 1..n /\ k + 1 - 1 = k /\ k \in 0..n /\ k + 1 \in 0..n
        /\ 1..(k + 1) = (1..k) \cup {k + 1}
    BY <1>1
  <2>3. chain[k + 1] = IF Len(chain[k]) < count /\ Stays(scores[k + 1], current, known, threshold)
                       THEN Append(chain[k], scores[k + 1].id) ELSE chain[k]
    BY <2>2 DEF Choosing
  <2>4. PICK r \in Seq(Ids) : r = chain[k]
    BY <2>2
  <2>5. CASE Len(r) < count /\ Stays(scores[k + 1], current, known, threshold)
    <3>1. chain[k + 1] = Append(r, scores[k + 1].id)
      BY <2>3, <2>4, <2>5
    <3>2. /\ ToSet(Append(r, scores[k + 1].id)) = ToSet(r) \cup {scores[k + 1].id}
          /\ Len(Append(r, scores[k + 1].id)) = Len(r) + 1
      <4>1. PICK x : x = scores[k + 1].id
        OBVIOUS
      <4>2. /\ DOMAIN Append(r, x) = 1..(Len(r) + 1) /\ DOMAIN r = 1..Len(r)
            /\ \A j \in 1..Len(r) : Append(r, x)[j] = r[j]
            /\ Append(r, x)[Len(r) + 1] = x /\ Len(Append(r, x)) = Len(r) + 1
        OBVIOUS
      <4>3. ToSet(Append(r, x)) = ToSet(r) \cup {x}
        <5>1. ASSUME NEW y \in ToSet(Append(r, x)) PROVE y \in ToSet(r) \cup {x}
          <6>1. PICK j \in 1..(Len(r) + 1) : y = Append(r, x)[j]
            BY <4>2, <5>1 DEF ToSet
          <6>2. j \in 1..Len(r) \/ j = Len(r) + 1
            OBVIOUS
          <6> QED
            BY <4>2, <6>1, <6>2 DEF ToSet
        <5>2. ASSUME NEW y \in ToSet(r) PROVE y \in ToSet(Append(r, x))
          <6>1. PICK j \in 1..Len(r) : y = r[j]
            BY <4>2, <5>2 DEF ToSet
          <6>2. j \in 1..(Len(r) + 1)
            OBVIOUS
          <6> QED
            BY <4>2, <6>1, <6>2 DEF ToSet
        <5>3. x \in ToSet(Append(r, x))
          <6>1. Len(r) + 1 \in DOMAIN Append(r, x)
            BY <4>2
          <6> QED
            BY <4>2, <6>1 DEF ToSet
        <5> QED
          BY <5>1, <5>2, <5>3
      <4> QED
        BY <4>1, <4>2, <4>3
    <3>3. \A x \in ToSet(chain[k + 1]) : \E j \in 1..(k + 1) :
                  scores[j].id = x /\ Stays(scores[j], current, known, threshold)
      BY <2>1, <2>2, <2>4, <2>5, <3>1, <3>2 DEF ChosenUpTo
    <3>4. \A j \in 1..(k + 1) : /\ Len(chain[j - 1]) < count
                                /\ Stays(scores[j], current, known, threshold)
                                => scores[j].id \in ToSet(chain[k + 1])
      <4>1. ASSUME NEW j \in 1..k, Len(chain[j - 1]) < count,
                   Stays(scores[j], current, known, threshold)
            PROVE  scores[j].id \in ToSet(chain[k + 1])
        <5>1. scores[j].id \in ToSet(r)
          BY <2>1, <2>4, <4>1 DEF ChosenUpTo
        <5> QED
          BY <3>1, <3>2, <5>1
      <4>2. scores[k + 1].id \in ToSet(chain[k + 1])
        BY <3>1, <3>2
      <4>3. ASSUME NEW j \in 1..(k + 1) PROVE j \in 1..k \/ j = k + 1
        BY <2>2
      <4> QED
        <5> SUFFICES ASSUME NEW j \in 1..(k + 1), Len(chain[j - 1]) < count,
                            Stays(scores[j], current, known, threshold)
                     PROVE  scores[j].id \in ToSet(chain[k + 1])
          OBVIOUS
        <5>1. CASE j \in 1..k
          BY <4>1, <5>1
        <5>2. CASE j = k + 1
          BY <4>2, <5>2
        <5> QED
          BY <4>3, <5>1, <5>2
    <3> QED
      BY <3>3, <3>4 DEF ChosenUpTo
  <2>6. CASE ~(Len(r) < count /\ Stays(scores[k + 1], current, known, threshold))
    <3>1. chain[k + 1] = r
      BY <2>3, <2>4, <2>6
    <3>2. \A x \in ToSet(chain[k + 1]) : \E j \in 1..(k + 1) :
                  scores[j].id = x /\ Stays(scores[j], current, known, threshold)
      BY <2>1, <2>2, <2>4, <3>1 DEF ChosenUpTo
    <3>3. \A j \in 1..(k + 1) : /\ Len(chain[j - 1]) < count
                                /\ Stays(scores[j], current, known, threshold)
                                => scores[j].id \in ToSet(chain[k + 1])
      <4> SUFFICES ASSUME NEW j \in 1..(k + 1), Len(chain[j - 1]) < count,
                          Stays(scores[j], current, known, threshold)
                   PROVE  scores[j].id \in ToSet(chain[k + 1])
        OBVIOUS
      <4>1. CASE j \in 1..k
        <5>1. scores[j].id \in ToSet(r)
          BY <2>1, <2>4, <4>1 DEF ChosenUpTo
        <5> QED
          BY <3>1, <5>1
      <4>2. CASE j = k + 1
        <5>1. Len(r) < count /\ Stays(scores[k + 1], current, known, threshold)
          BY <2>2, <2>4, <4>2
        <5> QED
          BY <2>6, <5>1
      <4> QED
        BY <2>2, <4>1, <4>2
    <3> QED
      BY <3>2, <3>3 DEF ChosenUpTo
  <2> QED
    BY <2>5, <2>6
<1>4. \A k \in Nat : k \in K
  <2> HIDE DEF K
  <2> QED
    BY <1>2, <1>3, AllNumbers
<1>5. Here(i)
  <2> HIDE DEF Here
  <2> QED
    BY <1>1, <1>4
<1> QED
  BY <1>5


LEMMA WorstKnown ==
  ASSUME NEW Ids, NEW scores, Scores(scores, Ids), NEW current
  PROVE  LET known == findWorstScore(scores, current) IN
         /\ known = {scores[j].score : j \in {j \in 1..Len(scores) : scores[j].id \in current}}
         /\ known # {} => Min(known) \in known /\ \A x \in known : Min(known) <= x
<1>1. \A j \in 1..Len(scores) : scores[j] \in [id : Ids, score : Nat]
  BY ElementOfSeq DEF Scores
<1>2. PICK known : known = findWorstScore(scores, current)
  OBVIOUS
<1>3. ToSet(scores) = {scores[j] : j \in 1..Len(scores)}
  BY DEF ToSet
<1>4. known = {scores[j].score : j \in {j \in 1..Len(scores) : scores[j].id \in current}}
  BY <1>2, <1>3 DEF findWorstScore
<1>5. known \in SUBSET Nat
  BY <1>1, <1>4
<1>6. known # {} => Min(known) \in known /\ \A x \in known : Min(known) <= x
  <2> SUFFICES ASSUME known # {} PROVE Min(known) \in known /\ \A x \in known : Min(known) <= x
    OBVIOUS
  <2>1. PICK x \in known : \A y \in known : x <= y
    BY <1>5, LeastNumber
  <2>2. \E z \in known : \A y \in known : z =< y
    BY <2>1
  <2> QED
    BY <2>2, Zenon DEF Min
<1> QED
  BY <1>2, <1>4, <1>6

Different(results) == \A i, j \in DOMAIN results : results[i].id = results[j].id => i = j

\* Choosing again among the same scores chooses the same markets (selectTop, market-scanner.ts),
\* for any scores of different markets, any number to choose, current markets and threshold.
THEOREM RotatingSettles ==
  ASSUME NEW Ids, NEW scores, Scores(scores, Ids),
         Different(scores),
         NEW count \in Nat, NEW current, NEW threshold \in Nat
  PROVE  RotationSettles(scores, count, current, threshold)
<1>1. PICK n \in Nat : n = Len(scores) /\ DOMAIN scores = 1..n
  BY DEF Scores
<1>2. \A j \in 1..n : scores[j].id \in Ids /\ scores[j].score \in Nat
  <2>1. \A j \in 1..n : scores[j] \in [id : Ids, score : Nat]
    BY <1>1, ElementOfSeq DEF Scores
  <2> QED
    BY <2>1
<1>3. PICK chosen : chosen = selectTop(scores, count, current, threshold)
  OBVIOUS
<1> SUFFICES ASSUME chosen # <<>>
             PROVE  selectTop(scores, count, ToSet(chosen), threshold) = chosen
  BY <1>3 DEF RotationSettles
<1>4. PICK later : later = ToSet(chosen)
  OBVIOUS
<1>5. PICK known : known = findWorstScore(scores, current)
  OBVIOUS
<1>6. PICK knownLater : knownLater = findWorstScore(scores, later)
  OBVIOUS
<1>7. PICK a \in [0..n -> Seq(Ids)] :
        Choosing(a, scores, count, current, known, threshold) /\ a[n] = chosen
  BY <1>1, <1>3, <1>5, ChoiceRuns
<1>8. PICK b \in [0..n -> Seq(Ids)] :
        /\ Choosing(b, scores, count, later, knownLater, threshold)
        /\ b[n] = selectTop(scores, count, later, threshold)
  <2>2. \E chain \in [0..Len(scores) -> Seq(Ids)] :
           /\ Choosing(chain, scores, count, later, findWorstScore(scores, later), threshold)
           /\ chain[Len(scores)] = selectTop(scores, count, later, threshold)
    BY ChoiceRuns
  <2> QED
    BY <1>1, <1>6, <2>2
<1>9. /\ \A x \in later : \E j \in 1..n : scores[j].id = x /\ Stays(scores[j], current, known, threshold)
      /\ \A j \in 1..n : Len(a[j - 1]) < count /\ Stays(scores[j], current, known, threshold)
                         => scores[j].id \in later
  <2>1. n \in 0..Len(scores) /\ a \in [0..Len(scores) -> Seq(Ids)] /\ a[n] = chosen
    BY <1>1, <1>7
  <2>2. Choosing(a, scores, count, current, known, threshold)
    BY <1>7
  <2>3. Len(scores) \in 0..Len(scores)
    BY <1>1
  <2>4. /\ \A x \in ToSet(a[Len(scores)]) : \E j \in 1..Len(scores) :
              scores[j].id = x /\ Stays(scores[j], current, known, threshold)
        /\ \A j \in 1..Len(scores) : /\ Len(a[j - 1]) < count
                            /\ Stays(scores[j], current, known, threshold)
                            => scores[j].id \in ToSet(a[Len(scores)])
    <3>1. ChosenUpTo(Len(scores), a, scores, count, current, known, threshold)
      BY <2>1, <2>2, <2>3, ChosenFrom
    <3> QED
      BY <3>1 DEF ChosenUpTo
  <2> QED
    BY <1>1, <1>4, <2>1, <2>4
<1>10. \A j \in 1..n : scores[j].id \in later => Stays(scores[j], current, known, threshold)
  BY <1>1, <1>9 DEF Different
<1>11. /\ known = {scores[j].score : j \in {j \in 1..n : scores[j].id \in current}}
       /\ known # {} => Min(known) \in known /\ \A x \in known : Min(known) <= x
  BY <1>1, <1>5, WorstKnown
<1>12. /\ knownLater = {scores[j].score : j \in {j \in 1..n : scores[j].id \in later}}
       /\ knownLater # {} => Min(knownLater) \in knownLater
  BY <1>1, <1>6, WorstKnown
<1>13. knownLater # {}
  <2>1. PICK x \in later : TRUE
    <3>1. chosen \in Seq(Ids)
      BY <1>1, <1>7
    <3>2. 1 \in DOMAIN chosen
      BY <3>1
    <3> QED
      BY <1>4, <3>2 DEF ToSet
  <2>2. PICK j \in 1..n : scores[j].id = x
    BY <1>9
  <2>3. j \in {i \in 1..n : scores[i].id \in later}
    BY <2>1, <2>2
  <2>4. scores[j].score \in {scores[i].score : i \in {i \in 1..n : scores[i].id \in later}}
    BY <2>3
  <2> QED
    BY <1>12, <2>4
<1>14. known # {} => Min(known) \in Nat /\ Min(knownLater) \in Nat /\ Min(known) <= Min(knownLater)
  <2> SUFFICES ASSUME known # {}
               PROVE  Min(known) \in Nat /\ Min(knownLater) \in Nat /\ Min(known) <= Min(knownLater)
    OBVIOUS
  <2>1. Min(known) \in Nat
    BY <1>2, <1>11
  <2>2. PICK j \in 1..n : Min(knownLater) = scores[j].score /\ scores[j].id \in later
    BY <1>12, <1>13
  <2>3. Stays(scores[j], current, known, threshold)
    BY <1>10, <2>2
  <2>4. scores[j].id \in current => Min(known) <= scores[j].score
    BY <1>11
  <2>5. PICK x \in Nat : x = Min(known)
    BY <2>1
  <2>6. PICK y \in Nat : y = scores[j].score
    BY <1>2
  <2>7. scores[j].id \in current \/ y - x > threshold
    BY <2>3, <2>5, <2>6 DEF Stays
  <2>8. threshold \in Nat /\ x \in Nat /\ y \in Nat
    OBVIOUS
  <2>9. x <= y
    BY ONLY <2>4, <2>5, <2>6, <2>7, <2>8
  <2> QED
    BY <2>2, <2>5, <2>6, <2>9
<1>15. ASSUME NEW j \in 1..n, Len(a[j - 1]) < count
       PROVE  Stays(scores[j], current, known, threshold) <=> Stays(scores[j], later, knownLater, threshold)
  <2>1. CASE Stays(scores[j], current, known, threshold)
    BY <1>9, <1>15, <2>1 DEF Stays
  <2>2. CASE ~Stays(scores[j], current, known, threshold)
    <3>1. scores[j].id \notin later
      BY <1>10, <2>2
    <3>2. known # {} /\ ~(scores[j].score - Min(known) > threshold)
      BY <2>2 DEF Stays
    <3>3. ~(scores[j].score - Min(knownLater) > threshold)
      <4>1. PICK x \in Nat, y \in Nat, z \in Nat :
              x = Min(known) /\ y = Min(knownLater) /\ z = scores[j].score /\ x <= y
        BY <1>2, <1>14, <3>2
      <4>2. ~(z - x > threshold) /\ threshold \in Nat /\ x \in Nat /\ y \in Nat /\ z \in Nat /\ x <= y
        BY <3>2, <4>1
      <4>3. ~(z - y > threshold)
        BY ONLY <4>2
      <4> QED
        BY <4>1, <4>3
    <3> QED
      BY <1>13, <2>2, <3>1, <3>3 DEF Stays
  <2> QED
    BY <2>1, <2>2
<1> DEFINE K == {k \in Nat : k <= n => a[k] = b[k]}
<1>16. 0 \in K
  BY <1>7, <1>8 DEF Choosing
<1>17. ASSUME NEW k \in Nat, k \in K PROVE k + 1 \in K
  <2> SUFFICES ASSUME k + 1 <= n PROVE a[k + 1] = b[k + 1]
    OBVIOUS
  <2>1. k + 1 \in 1..Len(scores) /\ k + 1 \in 1..n /\ k + 1 - 1 = k /\ a[k] = b[k]
    BY <1>1, <1>17
  <2>2. a[k + 1] = IF Len(a[k]) < count /\ Stays(scores[k + 1], current, known, threshold)
                   THEN Append(a[k], scores[k + 1].id) ELSE a[k]
    <3>1. \A i \in 1..Len(scores) :
            a[i] = IF Len(a[i - 1]) < count /\ Stays(scores[i], current, known, threshold)
                   THEN Append(a[i - 1], scores[i].id) ELSE a[i - 1]
      BY <1>7 DEF Choosing
    <3> QED
      BY ONLY <2>1, <3>1
  <2>3. b[k + 1] = IF Len(b[k]) < count /\ Stays(scores[k + 1], later, knownLater, threshold)
                   THEN Append(b[k], scores[k + 1].id) ELSE b[k]
    <3>1. \A i \in 1..Len(scores) :
            b[i] = IF Len(b[i - 1]) < count /\ Stays(scores[i], later, knownLater, threshold)
                   THEN Append(b[i - 1], scores[i].id) ELSE b[i - 1]
      BY <1>8 DEF Choosing
    <3> QED
      BY ONLY <2>1, <3>1
  <2>4. Len(a[k]) < count =>
          (Stays(scores[k + 1], current, known, threshold) <=> Stays(scores[k + 1], later, knownLater, threshold))
    BY <1>15, <2>1
  <2>5. PICK r : r = a[k] /\ r = b[k]
    BY <2>1
  <2>6. CASE Len(r) < count /\ Stays(scores[k + 1], current, known, threshold)
    BY <2>2, <2>3, <2>4, <2>5, <2>6
  <2>7. CASE ~(Len(r) < count /\ Stays(scores[k + 1], current, known, threshold))
    <3>1. a[k + 1] = r
      BY <2>2, <2>5, <2>7, Zenon
    <3>2. ~(Len(r) < count /\ Stays(scores[k + 1], later, knownLater, threshold))
      BY <2>4, <2>5, <2>7
    <3>3. b[k + 1] = r
      BY <2>3, <2>5, <3>2, Zenon
    <3> QED
      BY <3>1, <3>3
  <2> QED
    BY <2>6, <2>7
<1>18. \A k \in Nat : k \in K
  <2> HIDE DEF K
  <2> QED
    BY <1>16, <1>17, AllNumbers
<1> QED
  BY <1>4, <1>7, <1>8, <1>18

-----------------------------------------------------------------------------
(* The ranking of results.                                                  *)

Graded(results) == /\ IsFiniteSet(DOMAIN results) /\ DOMAIN results \in SUBSET Nat
                   /\ \A i \in DOMAIN results : results[i].score \in Nat

Beats(results, i, j) == \/ results[i].score > results[j].score
                        \/ results[i].score = results[j].score /\ i < j

\* Where each result goes: as a result goes before another just when it beats it.
Places(place, results, ranked) ==
  /\ DOMAIN ranked = 1..Cardinality(DOMAIN results)
  /\ place \in [DOMAIN results -> DOMAIN ranked]
  /\ \A i \in DOMAIN results : ranked[place[i]] = results[i]
  /\ \A k \in DOMAIN ranked : \E i \in DOMAIN results : place[i] = k
  /\ \A i, j \in DOMAIN results : place[i] < place[j] <=> Beats(results, i, j)

LEMMA RankedPlaces ==
  ASSUME NEW results, Graded(results)
  PROVE  \E place : Places(place, results, Ranked(results))
<1> DEFINE P == DOMAIN results
           n == Cardinality(P)
           ahead(i) == {j \in P : \/ results[j].score > results[i].score
                                  \/ results[j].score = results[i].score /\ j <= i}
           place == [i \in P |-> Cardinality(ahead(i))]
           at(k) == CHOOSE i \in P : Cardinality(ahead(i)) = k
<1>1. /\ IsFiniteSet(P) /\ P \in SUBSET Nat /\ n \in Nat
      /\ \A i \in P : results[i].score \in Nat
  BY FS_CardinalityType DEF Graded
<1>2. ASSUME NEW i \in P
      PROVE  /\ IsFiniteSet(ahead(i)) /\ Cardinality(ahead(i)) \in 1..n
             /\ i \in ahead(i) /\ ahead(i) \in SUBSET P
  <2>1. ahead(i) \in SUBSET P /\ i \in ahead(i)
    BY <1>1
  <2> HIDE DEF ahead
  <2>2. IsFiniteSet(ahead(i)) /\ Cardinality(ahead(i)) <= n /\ Cardinality(ahead(i)) \in Nat
    BY <1>1, <2>1, FS_Subset, FS_CardinalityType
  <2>3. Cardinality(ahead(i)) # 0
    BY <2>1, <2>2, FS_EmptySet
  <2> QED
    BY <1>1, <2>1, <2>2, <2>3
<1>3. ASSUME NEW i \in P, NEW j \in P, Beats(results, i, j) PROVE place[i] < place[j]
  <2>1. results[i].score \in Nat /\ results[j].score \in Nat /\ i \in Nat /\ j \in Nat
    BY <1>1
  <2>2. ahead(i) \in SUBSET ahead(j)
    <3>1. ASSUME NEW k \in ahead(i) PROVE k \in ahead(j)
      <4>1. results[k].score \in Nat /\ k \in Nat /\ k \in P
        BY <1>1
      <4>2. \/ results[k].score > results[i].score
            \/ results[k].score = results[i].score /\ k <= i
        OBVIOUS
      <4> QED
        BY <1>3, <2>1, <4>1, <4>2 DEF Beats
    <3> QED
      BY <3>1
  <2>3. j \notin ahead(i)
    BY <1>3, <2>1 DEF Beats
  <2>4. j \in ahead(j)
    BY <1>2
  <2> HIDE DEF ahead
  <2>5. IsFiniteSet(ahead(j)) /\ Cardinality(ahead(i)) \in 1..n /\ Cardinality(ahead(j)) \in 1..n
    BY <1>2
  <2>6. Cardinality(ahead(i)) <= Cardinality(ahead(j)) /\ Cardinality(ahead(i)) # Cardinality(ahead(j))
    BY <2>2, <2>3, <2>4, <2>5, FS_Subset
  <2> QED
    BY <1>1, <2>5, <2>6
<1>4. ASSUME NEW i \in P, NEW j \in P PROVE i = j \/ Beats(results, i, j) \/ Beats(results, j, i)
  <2>1. results[i].score \in Nat /\ results[j].score \in Nat /\ i \in Nat /\ j \in Nat
    BY <1>1
  <2> QED
    BY <2>1 DEF Beats
<1>5. place \in [P -> 1..n]
  <2> HIDE DEF ahead
  <2> QED
    BY <1>2
<1> HIDE DEF place
<1>6. ASSUME NEW i \in P, NEW j \in P PROVE place[i] < place[j] <=> Beats(results, i, j)
  <2>1. place[i] \in 1..n /\ place[j] \in 1..n
    BY <1>5
  <2>2. /\ Beats(results, i, j) => place[i] < place[j]
        /\ Beats(results, j, i) => place[j] < place[i]
    BY <1>3
  <2> QED
    BY <1>1, <1>4, <2>1, <2>2
<1>7. place \in Injection(P, 1..n)
  <2>1. ASSUME NEW i \in P, NEW j \in P, place[i] = place[j] PROVE i = j
    <3>1. place[i] \in 1..n /\ place[j] \in 1..n
      BY <1>5
    <3>2. ~(place[i] < place[j]) /\ ~(place[j] < place[i])
      BY <1>1, <2>1, <3>1
    <3> QED
      BY <1>4, <1>6, <3>2
  <2> QED
    BY <1>5, <2>1, Zenon DEF Injection, IsInjective
<1>8. \A k \in 1..n : \E i \in P : place[i] = k
  <2>1. IsFiniteSet(1..n) /\ Cardinality(1..n) = n
    BY <1>1, FS_Interval
  <2>2. place \in Surjection(P, 1..n)
    BY <1>7, <2>1, FS_Injection
  <2> QED
    BY <2>2 DEF Surjection
<1>9. Ranked(results) = [k \in 1..n |-> results[at(k)]]
  BY DEF Ranked
<1>10. ASSUME NEW i \in P PROVE place[i] \in 1..n /\ at(place[i]) = i
  <2>1. \A j \in P : place[j] = Cardinality(ahead(j))
    BY DEF place
  <2> HIDE DEF ahead
  <2>2. at(place[i]) \in P /\ Cardinality(ahead(at(place[i]))) = place[i]
    BY <2>1
  <2>3. place[at(place[i])] = place[i]
    BY <2>1, <2>2
  <2> HIDE DEF at
  <2> QED
    BY <1>5, <1>7, <2>2, <2>3 DEF Injection, IsInjective
<1>11. DOMAIN Ranked(results) = 1..n /\ \A i \in P : Ranked(results)[place[i]] = results[i]
  <2> HIDE DEF at
  <2> QED
    BY <1>9, <1>10
<1>12. Places(place, results, Ranked(results))
  <2> HIDE DEF ahead, at
  <2> QED
    BY <1>5, <1>6, <1>8, <1>11 DEF Places
<1> QED
  BY <1>12

\* Of different results, ranked, one comes before another just when it beats it.
LEMMA RankedBefore ==
  ASSUME NEW results, Graded(results), Different(results),
         NEW i \in DOMAIN results, NEW j \in DOMAIN results
  PROVE  Before(Ranked(results), results[i].id, results[j].id) <=> Beats(results, i, j)
<1>1. PICK place : Places(place, results, Ranked(results))
  BY RankedPlaces
<1>2. PICK r : r = Ranked(results)
  OBVIOUS
<1>3. place[i] \in DOMAIN r /\ place[j] \in DOMAIN r /\ r[place[i]] = results[i] /\ r[place[j]] = results[j]
  BY <1>1, <1>2 DEF Places
<1>4. ASSUME Beats(results, i, j) PROVE Before(r, results[i].id, results[j].id)
  <2>1. place[i] < place[j]
    BY <1>1, <1>4 DEF Places
  <2> QED
    BY <1>3, <2>1 DEF Before
<1>5. ASSUME Before(r, results[i].id, results[j].id) PROVE Beats(results, i, j)
  <2>1. PICK k, l \in DOMAIN r : k < l /\ r[k].id = results[i].id /\ r[l].id = results[j].id
    BY <1>5 DEF Before
  <2>2. PICK ii \in DOMAIN results, jj \in DOMAIN results : place[ii] = k /\ place[jj] = l
    BY <1>1, <1>2, <2>1 DEF Places
  <2>3. r[k] = results[ii] /\ r[l] = results[jj]
    BY <1>1, <1>2, <2>2 DEF Places
  <2>4. ii = i /\ jj = j
    BY <2>1, <2>3 DEF Different
  <2>5. place[i] < place[j]
    BY <2>1, <2>2, <2>4
  <2> QED
    BY <1>1, <2>5 DEF Places
<1> QED
  BY <1>2, <1>4, <1>5

\* A larger number divided by the same one is not less.
LEMMA QuotientGrows ==
  ASSUME NEW s \in Nat \ {0}, NEW x \in Nat, NEW y \in Nat, x <= y
  PROVE  /\ x \div s \in Nat /\ y \div s \in Nat
         /\ x \div s <= y \div s
<1>1. x \div s \in Nat /\ y \div s \in Nat
  OBVIOUS
<1>2. /\ x = s * (x \div s) + (x % s) /\ x % s \in 0..(s - 1)
      /\ y = s * (y \div s) + (y % s) /\ y % s \in 0..(s - 1)
  OBVIOUS
<1>3. PICK p \in Nat, q \in Nat : p = x \div s /\ q = y \div s
  BY <1>1
<1>4. s * p = p * s /\ p * s \in Nat /\ s * q = q * s /\ q * s \in Nat
  OBVIOUS
<1>5. p * s < q * s + s
  BY <1>2, <1>3, <1>4
<1> QED
  BY <1>1, <1>3, <1>5, FactorsCompare

Quoted(markets, books) == {i \in DOMAIN markets : markets[i] \in DOMAIN books}
Mid(b) == (b.bid + b.ask) \div 2
Edge(books, oracle, m) ==
  IF m \notin DOMAIN oracle THEN 0
  ELSE IF oracle[m] < Mid(books[m]) THEN Mid(books[m]) - oracle[m] ELSE oracle[m] - Mid(books[m])
EdgeScore(books, oracle, m) ==
  IF books[m].ask > books[m].bid
  THEN (60 * Edge(books, oracle, m)) \div (books[m].ask - books[m].bid) ELSE 0
Edges(markets, books, oracle) ==
  [i \in Quoted(markets, books) |->
     [id |-> markets[i], spread |-> books[markets[i]].ask - books[markets[i]].bid,
      edge |-> Edge(books, oracle, markets[i]), score |-> EdgeScore(books, oracle, markets[i])]]

LEMMA ScanIs ==
  ASSUME NEW markets, NEW books, NEW oracle
  PROVE  scan(markets, books, oracle) = Ranked(Edges(markets, books, oracle))
BY DEF scan, Edges, Quoted, Mid, Edge, EdgeScore

\* Books are of bids and asks, the oracle has prices.
Books(books) == \A m \in DOMAIN books : books[m].bid \in Nat /\ books[m].ask \in Nat
OraclePrices(oracle) == \A m \in DOMAIN oracle : oracle[m] \in Nat

LEMMA EdgeIsNumber ==
  ASSUME NEW books, Books(books), NEW oracle, OraclePrices(oracle), NEW m \in DOMAIN books
  PROVE  Mid(books[m]) \in Nat /\ Edge(books, oracle, m) \in Nat /\ EdgeScore(books, oracle, m) \in Nat
<1>1. books[m].bid \in Nat /\ books[m].ask \in Nat
  BY DEF Books
<1>2. Mid(books[m]) \in Nat
  BY <1>1 DEF Mid
<1>3. Edge(books, oracle, m) \in Nat
  BY <1>2 DEF Edge, OraclePrices
<1>4. ASSUME books[m].ask > books[m].bid PROVE EdgeScore(books, oracle, m) \in Nat
  <2>1. books[m].ask - books[m].bid \in Nat \ {0} /\ 60 * Edge(books, oracle, m) \in Nat
    BY <1>1, <1>3, <1>4
  <2>2. (60 * Edge(books, oracle, m)) \div (books[m].ask - books[m].bid) \in Nat
    BY <2>1, QuotientGrows
  <2> QED
    BY <1>4, <2>2 DEF EdgeScore
<1> QED
  BY <1>2, <1>3, <1>4 DEF EdgeScore

\* Markets are listed once each.
Markets(markets) == /\ \E n \in Nat : DOMAIN markets = 1..n
                    /\ \A i, j \in DOMAIN markets : markets[i] = markets[j] => i = j

EdgesListed(e, markets, books, oracle) ==
  /\ Graded(e) /\ Different(e) /\ DOMAIN e = Quoted(markets, books)
  /\ \A i \in DOMAIN e : e[i].id = markets[i] /\ e[i].score = EdgeScore(books, oracle, markets[i])

LEMMA EdgesAreListed ==
  ASSUME NEW markets, Markets(markets), NEW books, Books(books), NEW oracle, OraclePrices(oracle)
  PROVE  EdgesListed(Edges(markets, books, oracle), markets, books, oracle)
<1>0. PICK n \in Nat : DOMAIN markets = 1..n
  BY DEF Markets
<1>1. Quoted(markets, books) \in SUBSET (1..n)
  BY <1>0 DEF Quoted
<1>2. IsFiniteSet(Quoted(markets, books))
  <2>1. IsFiniteSet(1..n)
    BY FS_Interval
  <2> QED
    BY <1>1, <2>1, FS_Subset
<1>3. PICK e : e = Edges(markets, books, oracle)
  OBVIOUS
<1>4. /\ DOMAIN e = Quoted(markets, books)
      /\ \A i \in Quoted(markets, books) :
           e[i].id = markets[i] /\ e[i].score = EdgeScore(books, oracle, markets[i])
  BY <1>3 DEF Edges
<1>5. \A i \in Quoted(markets, books) : EdgeScore(books, oracle, markets[i]) \in Nat
  BY EdgeIsNumber DEF Quoted
<1>6. Graded(e)
  <2>1. DOMAIN e \in SUBSET Nat
    BY <1>1, <1>4
  <2> QED
    BY <1>2, <1>4, <1>5, <2>1 DEF Graded
<1>7. Different(e)
  BY <1>1, <1>4 DEF Different, Markets, Quoted
<1> QED
  BY <1>3, <1>4, <1>6, <1>7 DEF EdgesListed

\* A market whose oracle moves away from its mid never falls behind a market it was ahead of
\* (scanner.ts), for any markets, each listed once, any books and oracle.
THEOREM EdgesKeepRank ==
  ASSUME NEW markets, Markets(markets), NEW books, Books(books), NEW oracle, OraclePrices(oracle),
         NEW m \in DOMAIN books, m \in DOMAIN oracle, NEW further \in Nat
  PROVE  LET before == scan(markets, books, oracle)
             after  == scan(markets, books, [oracle EXCEPT ![m] = @ + further])
         IN  oracle[m] >= Mid(books[m]) =>
               \A x \in DOMAIN books : Before(before, m, x) => Before(after, m, x)
<1>1. PICK later : later = [oracle EXCEPT ![m] = @ + further]
  OBVIOUS
<1>2. /\ OraclePrices(later) /\ DOMAIN later = DOMAIN oracle /\ later[m] = oracle[m] + further
      /\ \A x \in DOMAIN oracle : x # m => later[x] = oracle[x]
  BY <1>1 DEF OraclePrices
<1> SUFFICES ASSUME oracle[m] >= Mid(books[m]), NEW x \in DOMAIN books,
                    Before(Ranked(Edges(markets, books, oracle)), m, x)
             PROVE  Before(Ranked(Edges(markets, books, later)), m, x)
  BY <1>1, ScanIs
<1>3. PICK e : e = Edges(markets, books, oracle)
  OBVIOUS
<1>4. PICK f : f = Edges(markets, books, later)
  OBVIOUS
<1>50. EdgesListed(e, markets, books, oracle)
  BY <1>3, EdgesAreListed
<1>60. EdgesListed(f, markets, books, later)
  BY <1>2, <1>4, EdgesAreListed
<1>5. /\ Graded(e) /\ Different(e) /\ DOMAIN e = Quoted(markets, books)
      /\ \A i \in DOMAIN e : e[i].id = markets[i] /\ e[i].score = EdgeScore(books, oracle, markets[i])
  BY <1>50 DEF EdgesListed
<1>6. /\ Graded(f) /\ Different(f) /\ DOMAIN f = DOMAIN e
      /\ \A i \in DOMAIN f : f[i].id = markets[i] /\ f[i].score = EdgeScore(books, later, markets[i])
  BY <1>5, <1>60 DEF EdgesListed
<1>7. PICK i, j \in DOMAIN e : e[i].id = m /\ e[j].id = x
  <2>1. PICK place : Places(place, e, Ranked(e))
    BY <1>5, RankedPlaces
  <2>2. PICK k, l \in DOMAIN Ranked(e) : Ranked(e)[k].id = m /\ Ranked(e)[l].id = x
    BY <1>3 DEF Before
  <2> QED
    BY <2>1, <2>2 DEF Places
<1>8. Beats(e, i, j)
  BY <1>3, <1>5, <1>7, RankedBefore
<1>9. markets[i] = m /\ markets[j] = x /\ f[i].id = m /\ f[j].id = x
  BY <1>5, <1>6, <1>7
<1>10. /\ e[i].score \in Nat /\ e[j].score \in Nat /\ f[i].score \in Nat /\ f[j].score \in Nat
       /\ i \in Nat /\ j \in Nat
  BY <1>5, <1>6 DEF Graded
<1>11. x # m
  <2>1. i # j
    BY <1>8, <1>10 DEF Beats
  <2> QED
    BY <1>5, <1>7, <2>1 DEF Different
<1>12. f[j].score = e[j].score
  BY <1>2, <1>5, <1>6, <1>9, <1>11 DEF EdgeScore, Edge
<1>13. e[i].score <= f[i].score
  <2>1. /\ books[m].bid \in Nat /\ books[m].ask \in Nat /\ Mid(books[m]) \in Nat
        /\ Edge(books, oracle, m) \in Nat /\ Edge(books, later, m) \in Nat
    BY <1>2, EdgeIsNumber DEF Books
  <2>2. Edge(books, oracle, m) <= Edge(books, later, m)
    <3>1. oracle[m] \in Nat
      BY DEF OraclePrices
    <3> QED
      BY <1>2, <2>1, <3>1 DEF Edge
  <2>3. CASE books[m].ask > books[m].bid
    <3>1. books[m].ask - books[m].bid \in Nat \ {0}
      BY <2>1, <2>3
    <3>2. PICK s \in Nat \ {0}, a \in Nat, b \in Nat :
            /\ s = books[m].ask - books[m].bid /\ a = 60 * Edge(books, oracle, m)
            /\ b = 60 * Edge(books, later, m) /\ a <= b
      BY <2>1, <2>2, <3>1
    <3>3. a \div s <= b \div s
      BY <3>2, QuotientGrows
    <3> QED
      BY <1>5, <1>6, <1>9, <2>3, <3>2, <3>3 DEF EdgeScore
  <2>4. CASE ~(books[m].ask > books[m].bid)
    BY <1>5, <1>6, <1>9, <2>4 DEF EdgeScore
  <2> QED
    BY <2>3, <2>4
<1>14. Beats(f, i, j)
  BY <1>8, <1>10, <1>12, <1>13 DEF Beats
<1> QED
  BY <1>4, <1>6, <1>9, <1>14, RankedBefore

LEMMA FiniteBounded ==
  ASSUME NEW T \in SUBSET Nat, IsFiniteSet(T)
  PROVE  \E n \in Nat : T \in SUBSET (0..n)
<1> DEFINE G == {t \in SUBSET T : \E n \in Nat : t \in SUBSET (0..n)}
<1>1. {} \in G
  <2>1. {} \in SUBSET (0..0)
    OBVIOUS
  <2> QED
    BY <2>1
<1>2. ASSUME NEW t \in SUBSET T, t # {}, \A x \in t : t \ {x} \in G PROVE t \in G
  <2>1. PICK x \in t : TRUE
    BY <1>2
  <2>2. PICK n \in Nat : t \ {x} \in SUBSET (0..n)
    BY <1>2
  <2>3. x \in Nat
    OBVIOUS
  <2>4. n + x \in Nat /\ t \in SUBSET (0..(n + x))
    BY <2>2, <2>3
  <2> QED
    BY <2>4
<1>3. \A t \in SUBSET T : t \in G
  <2> HIDE DEF G
  <2> QED
    BY <1>1, <1>2, AllSubsets
<1>4. T \in G
  <2> HIDE DEF G
  <2> QED
    BY <1>3
<1> QED
  BY <1>4

LEMMA GreatestOf ==
  ASSUME NEW T \in SUBSET Nat, IsFiniteSet(T), T # {}
  PROVE  Max(T) \in T /\ \A y \in T : y <= Max(T)
<1>1. PICK n \in Nat : T \in SUBSET (0..n)
  BY FiniteBounded
<1> QED
  BY <1>1, GreatestIsMember

LEMMA AtLeastOne ==
  ASSUME NEW T \in SUBSET Nat, IsFiniteSet(T)
  PROVE  Max(T \cup {1}) \in Nat \ {0}
<1>1. T \cup {1} \in SUBSET Nat /\ T \cup {1} # {} /\ 1 \in T \cup {1}
  OBVIOUS
<1>2. IsFiniteSet(T \cup {1})
  BY FS_AddElement
<1>3. PICK t : t = T \cup {1}
  OBVIOUS
<1>4. t \in SUBSET Nat /\ IsFiniteSet(t) /\ t # {} /\ 1 \in t
  BY <1>1, <1>2, <1>3
<1>5. Max(t) \in t /\ \A y \in t : y <= Max(t)
  BY <1>4, GreatestOf
<1>6. Max(t) \in Nat /\ 1 <= Max(t)
  BY <1>4, <1>5
<1> QED
  BY <1>3, <1>6

LEMMA RankedResults ==
  ASSUME NEW Results, NEW results, Graded(results), \A i \in DOMAIN results : results[i] \in Results
  PROVE  /\ Ranked(results) \in Seq(Results)
         /\ Different(results) => Different(Ranked(results))
<1>1. PICK place : Places(place, results, Ranked(results))
  BY RankedPlaces
<1>2. PICK r : r = Ranked(results)
  OBVIOUS
<1>3. PICK n \in Nat : n = Cardinality(DOMAIN results)
  BY FS_CardinalityType DEF Graded
<1>4. DOMAIN r = 1..n /\ \A k \in 1..n : \E i \in DOMAIN results : place[i] = k /\ r[k] = results[i]
  BY <1>1, <1>2, <1>3 DEF Places
<1>5. r \in Seq(Results)
  <2>1. r = [k \in 1..n |-> r[k]]
    BY <1>2, <1>3 DEF Ranked
  <2>2. \A k \in 1..n : r[k] \in Results
    BY <1>4
  <2>3. r \in [1..n -> Results]
    BY <2>1, <2>2
  <2> QED
    BY <2>3, SeqDef
<1>6. ASSUME Different(results) PROVE Different(r)
  <2> SUFFICES ASSUME NEW k \in 1..n, NEW l \in 1..n, r[k].id = r[l].id PROVE k = l
    BY <1>4 DEF Different
  <2>1. PICK i \in DOMAIN results, j \in DOMAIN results :
          place[i] = k /\ r[k] = results[i] /\ place[j] = l /\ r[l] = results[j]
    BY <1>4
  <2>2. i = j
    BY <1>6, <2>1 DEF Different
  <2> QED
    BY <2>1, <2>2
<1> QED
  BY <1>2, <1>5, <1>6

Listing(markets, Ids) ==
  /\ \E n \in Nat : DOMAIN markets = 1..n
  /\ \A i \in DOMAIN markets : /\ markets[i].id \in Ids /\ markets[i].volume \in Nat
                               /\ markets[i].depth \in Nat /\ markets[i].spreadBps \in Nat
                               /\ markets[i].age \in Nat
  /\ \A i, j \in DOMAIN markets : markets[i].id = markets[j].id => i = j

Weighted(w) == w.volume \in Nat /\ w.depth \in Nat /\ w.spread \in Nat /\ w.freshness \in Nat

\* What a scanner makes of its markets are scores of different ones.
LEMMA MarketsScored ==
  ASSUME NEW Ids, NEW markets, Listing(markets, Ids), NEW weights, Weighted(weights),
         NEW maxSpreadBps \in Nat
  PROVE  /\ Scores(scoreMarkets(markets, weights, maxSpreadBps), Ids)
         /\ Different(scoreMarkets(markets, weights, maxSpreadBps))
<1> DEFINE volumes == {m.volume : m \in ToSet(markets)}
           depths == {m.depth : m \in ToSet(markets)}
           maxVolume == Max(volumes \cup {1})
           maxDepth == Max(depths \cup {1})
           admitted == {i \in DOMAIN markets : markets[i].spreadBps <= maxSpreadBps}
           score(m) == ((100 * m.volume) \div maxVolume) * weights.volume
                 + ((100 * m.depth) \div maxDepth) * weights.depth
                 + Max({0, 100 - m.spreadBps \div 10}) * weights.spread
                 + freshScore(m.age) * weights.freshness
           results == [i \in admitted |-> [id |-> markets[i].id, score |-> score(markets[i])]]
<1>1. PICK n \in Nat : DOMAIN markets = 1..n
  BY DEF Listing
<1>2. maxVolume \in Nat \ {0} /\ maxDepth \in Nat \ {0}
  <2>0. IsFiniteSet(1..n)
    BY FS_Interval
  <2>1. volumes \in SUBSET Nat /\ depths \in SUBSET Nat
    BY <1>1 DEF Listing, ToSet
  <2>2. IsFiniteSet(volumes)
    <3> DEFINE f == [i \in 1..n |-> markets[i].volume]
    <3>1. f \in Surjection(1..n, volumes)
      BY <1>1 DEF Surjection, ToSet
    <3> QED
      BY <2>0, <3>1, FS_Surjection
  <2>3. IsFiniteSet(depths)
    <3> DEFINE f == [i \in 1..n |-> markets[i].depth]
    <3>1. f \in Surjection(1..n, depths)
      BY <1>1 DEF Surjection, ToSet
    <3> QED
      BY <2>0, <3>1, FS_Surjection
  <2> HIDE DEF volumes, depths
  <2> QED
    BY <2>1, <2>2, <2>3, AtLeastOne
<1> HIDE DEF maxVolume, maxDepth
<1>3. ASSUME NEW i \in DOMAIN markets PROVE score(markets[i]) \in Nat
  <2> DEFINE m == markets[i]
  <2>1. m.volume \in Nat /\ m.depth \in Nat /\ m.spreadBps \in Nat /\ m.age \in Nat
    BY DEF Listing
  <2> HIDE DEF m
  <2>2. weights.volume \in Nat /\ weights.depth \in Nat /\ weights.spread \in Nat /\ weights.freshness \in Nat
    BY DEF Weighted
  <2>3. PICK a \in Nat : a = (100 * m.volume) \div maxVolume
    BY <1>2, <2>1, QuotientGrows
  <2>4. PICK b \in Nat : b = (100 * m.depth) \div maxDepth
    BY <1>2, <2>1, QuotientGrows
  <2>5. PICK c \in Nat : c = Max({0, 100 - m.spreadBps \div 10})
    <3>1. PICK x \in Int : x = 100 - m.spreadBps \div 10
      BY <2>1
    <3>2. \E y \in {0, x} : \A z \in {0, x} : y >= z
      OBVIOUS
    <3>3. Max({0, x}) \in {0, x} /\ Max({0, x}) >= 0
      BY <3>2, Zenon DEF Max
    <3>4. Max({0, x}) \in Nat
      BY <3>3
    <3> QED
      BY <3>1, <3>4
  <2>6. PICK d \in Nat : d = freshScore(m.age)
    <3>1. Decay \in [1..4 -> Nat]
      BY DEF Decay
    <3> QED
      BY <2>1, <3>1 DEF freshScore
  <2>7. score(m) = a * weights.volume + b * weights.depth + c * weights.spread + d * weights.freshness
    BY <2>3, <2>4, <2>5, <2>6
  <2>8. /\ a * weights.volume \in Nat /\ b * weights.depth \in Nat
        /\ c * weights.spread \in Nat /\ d * weights.freshness \in Nat
    BY <2>2
  <2>9. score(m) \in Nat
    <3> HIDE DEF score
    <3> QED
      BY <2>7, <2>8
  <2> QED
    BY <2>9 DEF m
<1> HIDE DEF score
<1>4. IsFiniteSet(admitted) /\ admitted \in SUBSET Nat
  <2>1. IsFiniteSet(1..n)
    BY FS_Interval
  <2>2. admitted \in SUBSET (1..n)
    BY <1>1
  <2> HIDE DEF admitted
  <2>3. IsFiniteSet(admitted)
    BY <2>1, <2>2, FS_Subset
  <2>4. admitted \in SUBSET Nat
    BY <2>2
  <2> QED
    BY <2>3, <2>4
<1>5. Graded(results) /\ Different(results) /\ \A i \in DOMAIN results : results[i] \in [id : Ids, score : Nat]
  <2>1. DOMAIN results = admitted /\ \A i \in admitted : i \in DOMAIN markets
    OBVIOUS
  <2>2. \A i \in admitted : /\ results[i].id = markets[i].id
                            /\ results[i] = [id |-> markets[i].id, score |-> score(markets[i])]
    OBVIOUS
  <2>3. \A i \in admitted : markets[i].id \in Ids /\ score(markets[i]) \in Nat
    BY <1>3, <2>1 DEF Listing
  <2> HIDE DEF admitted, results
  <2>4. \A i \in DOMAIN results : results[i] \in [id : Ids, score : Nat]
    BY <2>1, <2>2, <2>3
  <2>5. Graded(results)
    BY <1>4, <2>1, <2>4 DEF Graded
  <2>6. Different(results)
    BY <2>1, <2>2 DEF Different, Listing
  <2> QED
    BY <2>4, <2>5, <2>6
<1>6. scoreMarkets(markets, weights, maxSpreadBps) = Ranked(results)
  BY Zenon DEF scoreMarkets, maxVolume, maxDepth, score
<1> HIDE DEF results
<1> QED
  BY <1>5, <1>6, RankedResults DEF Scores

LEMMA RotationsAgree == AskedInv => RotationsSettle
<1> SUFFICES ASSUME AskedInv, Is("markets")
             PROVE  RotationSettles(scoreMarkets(asked.markets, Weights, 500), asked.count,
                                    asked.current, asked.threshold)
  BY DEF RotationsSettle
<1>1. asked \in Rotations
  BY DEF AskedInv, Is, Quotes, Portfolios, Diffs, Rotations, Oracles, Queues
<1>2. asked.count \in Nat /\ asked.threshold \in Nat
  BY <1>1 DEF Rotations
<1>3. Listing(asked.markets, 1..3)
  <2>1. PICK v \in [1..3 -> {1, 2, 4}], a \in [1..3 -> {0, 2}] :
          asked.markets = [i \in 1..3 |-> MarketOf(i, v[i], a[i])]
    BY <1>1 DEF Rotations
  <2>2. DOMAIN asked.markets = 1..3
    BY <2>1
  <2>3. ASSUME NEW i \in 1..3
        PROVE  /\ asked.markets[i].id = i /\ asked.markets[i].volume \in Nat
               /\ asked.markets[i].depth \in Nat /\ asked.markets[i].spreadBps \in Nat
               /\ asked.markets[i].age \in Nat
    <3>1. v[i] \in Nat /\ a[i] \in Nat
      OBVIOUS
    <3>2. asked.markets[i] = MarketOf(i, v[i], a[i])
      BY <2>1
    <3> QED
      BY <3>1, <3>2 DEF MarketOf
  <2>4. 3 \in Nat
    OBVIOUS
  <2> QED
    BY <2>2, <2>3, <2>4 DEF Listing
<1>4. Weighted(Weights)
  BY DEF Weighted, Weights
<1>5. PICK scores : scores = scoreMarkets(asked.markets, Weights, 500)
  OBVIOUS
<1>6. Scores(scores, 1..3) /\ Different(scores)
  <2>1. 500 \in Nat
    OBVIOUS
  <2> QED
    BY <1>3, <1>4, <1>5, <2>1, MarketsScored
<1> QED
  BY <1>2, <1>5, <1>6, RotatingSettles

LEMMA EdgesAgree == AskedInv => EdgesRank
<1> SUFFICES ASSUME AskedInv, Is("oracle")
             PROVE  EdgeRanks(<<1, 2>>, asked.books, asked.oracle, asked.market, asked.further)
  BY DEF EdgesRank
<1>1. asked \in Oracles
  BY DEF AskedInv, Is, Quotes, Portfolios, Diffs, Rotations, Oracles, Queues
<1>2. PICK markets : markets = <<1, 2>>
  OBVIOUS
<1>3. Markets(markets)
  <2>1. DOMAIN markets = 1..2 /\ markets[1] = 1 /\ markets[2] = 2 /\ 2 \in Nat
    BY <1>2
  <2> QED
    BY <2>1 DEF Markets
<1>4. DOMAIN asked.books = 1..2 /\ Books(asked.books)
  <2>1. asked.books \in [1..2 -> {[bid |-> b, ask |-> 8] : b \in {2, 6, 8}}]
    BY <1>1 DEF Oracles
  <2>2. ASSUME NEW m \in 1..2 PROVE asked.books[m].bid \in Nat /\ asked.books[m].ask \in Nat
    <3>1. asked.books[m] \in {[bid |-> b, ask |-> 8] : b \in {2, 6, 8}}
      BY <2>1
    <3> QED
      BY <3>1
  <2> QED
    BY <2>1, <2>2 DEF Books
<1>5. DOMAIN asked.oracle = 1..2 /\ OraclePrices(asked.oracle)
  BY <1>1 DEF Oracles, OraclePrices
<1>6. asked.market \in 1..2 /\ asked.further \in Nat
  BY <1>1 DEF Oracles
<1> QED
  BY <1>2, <1>3, <1>4, <1>5, <1>6, EdgesKeepRank DEF EdgeRanks, Mid

-----------------------------------------------------------------------------
(* The difference of orders.                                                *)

Numbers(orders) == \E n \in Nat : DOMAIN orders = 1..n

LEMMA NthOrders ==
  ASSUME NEW orders, Numbers(orders), NEW i \in DOMAIN orders, NEW j \in DOMAIN orders,
         orders[i].key = orders[j].key, i < j
  PROVE  /\ Nth(orders, i) \in Nat /\ Nth(orders, j) \in Nat /\ Nth(orders, i) < Nth(orders, j)
<1> DEFINE upTo(k) == {l \in 1..k : orders[l].key = orders[k].key}
<1>1. PICK n \in Nat : DOMAIN orders = 1..n
  BY DEF Numbers
<1>2. ASSUME NEW k \in 1..n PROVE IsFiniteSet(upTo(k)) /\ Cardinality(upTo(k)) \in Nat
  <2>1. IsFiniteSet(1..k)
    BY FS_Interval
  <2>2. upTo(k) \in SUBSET (1..k)
    OBVIOUS
  <2> HIDE DEF upTo
  <2> QED
    BY <2>1, <2>2, FS_Subset, FS_CardinalityType
<1>3. upTo(i) \in SUBSET upTo(j)
  BY <1>1
<1>4. j \in upTo(j) /\ j \notin upTo(i)
  BY <1>1
<1> HIDE DEF upTo
<1>5. IsFiniteSet(upTo(j)) /\ Cardinality(upTo(i)) \in Nat /\ Cardinality(upTo(j)) \in Nat
  BY <1>1, <1>2
<1>6. Cardinality(upTo(i)) <= Cardinality(upTo(j)) /\ Cardinality(upTo(i)) # Cardinality(upTo(j))
  BY <1>3, <1>4, <1>5, FS_Subset
<1> QED
  BY <1>5, <1>6 DEF Nth, upTo

LEMMA NthIsOne ==
  ASSUME NEW orders, Numbers(orders), NEW i \in DOMAIN orders, NEW j \in DOMAIN orders,
         orders[i].key = orders[j].key, Nth(orders, i) = Nth(orders, j)
  PROVE  i = j
<1>1. i \in Int /\ j \in Int
  BY DEF Numbers
<1>2. ~(i < j) /\ ~(j < i)
  BY NthOrders
<1> QED
  BY <1>1, <1>2

Met(desired, live, i, j) == i \in DOMAIN desired /\ j \in DOMAIN live /\ Meet(desired, i, live, j)

LEMMA MeetOnce ==
  ASSUME NEW desired, Numbers(desired), NEW live, Numbers(live)
  PROVE  /\ \A i, j, k : Met(desired, live, i, j) /\ Met(desired, live, i, k) => j = k
         /\ \A i, j, k : Met(desired, live, i, j) /\ Met(desired, live, k, j) => i = k
BY NthIsOne DEF Met, Meet

\* The actions of a difference, and the orders they leave.
Differs(actions, desired, live, c) ==
  \A a : a \in actions <=>
    \/ \E i, j : Met(desired, live, i, j) /\ a = Changed(desired[i], live[j], c)
    \/ \E i \in DOMAIN desired : (\A j : ~Met(desired, live, i, j)) /\ a = Place(desired[i])
    \/ \E j \in DOMAIN live : (\A i : ~Met(desired, live, i, j)) /\ a = Cancel(live[j])

LEMMA DiffOrdersIs ==
  ASSUME NEW desired, NEW live, NEW c
  PROVE  Differs(diffOrders(desired, live, c), desired, live, c)
<1> DEFINE pairs == {p \in (DOMAIN desired) \X (DOMAIN live) : Meet(desired, p[1], live, p[2])}
           unmet == {i \in DOMAIN desired : \A p \in pairs : p[1] # i}
           over  == {j \in DOMAIN live : \A p \in pairs : p[2] # j}
<1>1. \A i, j : Met(desired, live, i, j) <=> <<i, j>> \in pairs
  BY DEF Met
<1>2. \A p \in pairs : p = <<p[1], p[2]>>
  OBVIOUS
<1>3. diffOrders(desired, live, c) =
        {Changed(desired[p[1]], live[p[2]], c) : p \in pairs}
          \cup {Place(desired[i]) : i \in unmet} \cup {Cancel(live[j]) : j \in over}
  BY DEF diffOrders
<1>4. ASSUME NEW i \in DOMAIN desired PROVE i \in unmet <=> \A j : ~Met(desired, live, i, j)
  <2>0. i \in unmet <=> \A p \in pairs : p[1] # i
    OBVIOUS
  <2> HIDE DEF pairs, unmet
  <2>1. ASSUME \A j : ~Met(desired, live, i, j), NEW p \in pairs PROVE p[1] # i
    BY <1>1, <1>2, <2>1
  <2>2. ASSUME \A p \in pairs : p[1] # i, NEW j PROVE ~Met(desired, live, i, j)
    <3>1. /\ Met(desired, live, i, j) => <<i, j>> \in pairs
          /\ <<i, j>>[1] = i /\ <<i, j>>[2] = j
      BY <1>1
    <3> QED
      BY <2>2, <3>1
  <2> QED
    BY <2>0, <2>1, <2>2
<1>5. ASSUME NEW j \in DOMAIN live PROVE j \in over <=> \A i : ~Met(desired, live, i, j)
  <2>0. j \in over <=> \A p \in pairs : p[2] # j
    OBVIOUS
  <2> HIDE DEF pairs, over
  <2>1. ASSUME \A i : ~Met(desired, live, i, j), NEW p \in pairs PROVE p[2] # j
    BY <1>1, <1>2, <2>1
  <2>2. ASSUME \A p \in pairs : p[2] # j, NEW i PROVE ~Met(desired, live, i, j)
    <3>1. /\ Met(desired, live, i, j) => <<i, j>> \in pairs
          /\ <<i, j>>[1] = i /\ <<i, j>>[2] = j
      BY <1>1
    <3> QED
      BY <2>2, <3>1
  <2> QED
    BY <2>0, <2>1, <2>2
<1>6. unmet \in SUBSET DOMAIN desired /\ over \in SUBSET DOMAIN live
  OBVIOUS
<1> HIDE DEF pairs, unmet, over
<1> SUFFICES ASSUME NEW a
             PROVE  a \in diffOrders(desired, live, c) <=>
                    \/ \E i, j : Met(desired, live, i, j) /\ a = Changed(desired[i], live[j], c)
                    \/ \E i \in DOMAIN desired : (\A j : ~Met(desired, live, i, j)) /\ a = Place(desired[i])
                    \/ \E j \in DOMAIN live : (\A i : ~Met(desired, live, i, j)) /\ a = Cancel(live[j])
  BY DEF Differs
<1>7. (\E p \in pairs : a = Changed(desired[p[1]], live[p[2]], c))
        <=> \E i, j : Met(desired, live, i, j) /\ a = Changed(desired[i], live[j], c)
  <2>1. ASSUME NEW p \in pairs, a = Changed(desired[p[1]], live[p[2]], c)
        PROVE  \E i, j : Met(desired, live, i, j) /\ a = Changed(desired[i], live[j], c)
    BY <1>1, <1>2, <2>1
  <2>2. ASSUME NEW i, NEW j, Met(desired, live, i, j), a = Changed(desired[i], live[j], c)
        PROVE  \E p \in pairs : a = Changed(desired[p[1]], live[p[2]], c)
    <3>1. <<i, j>> \in pairs /\ <<i, j>>[1] = i /\ <<i, j>>[2] = j
      BY <1>1, <2>2
    <3> QED
      BY <2>2, <3>1
  <2> QED
    BY <2>1, <2>2
<1>8. (\E i \in unmet : a = Place(desired[i]))
        <=> \E i \in DOMAIN desired : (\A j : ~Met(desired, live, i, j)) /\ a = Place(desired[i])
  BY <1>4, <1>6
<1>9. (\E j \in over : a = Cancel(live[j]))
        <=> \E j \in DOMAIN live : (\A i : ~Met(desired, live, i, j)) /\ a = Cancel(live[j])
  BY <1>5, <1>6
<1>10. a \in diffOrders(desired, live, c) <=>
         \/ \E p \in pairs : a = Changed(desired[p[1]], live[p[2]], c)
         \/ \E i \in unmet : a = Place(desired[i])
         \/ \E j \in over : a = Cancel(live[j])
  BY <1>3
<1> QED
  BY <1>7, <1>8, <1>9, <1>10

\* Live orders have an id each, desired ones a price and a size; no order is desired twice.
Orders(desired, live) ==
  /\ Numbers(desired) /\ Numbers(live)
  /\ \A i \in DOMAIN desired : desired[i].price \in Nat /\ desired[i].size \in Nat
  /\ \A i, j \in DOMAIN desired :
       /\ desired[i].key = desired[j].key /\ desired[i].price = desired[j].price
       /\ desired[i].size = desired[j].size
       => i = j
  /\ \A j \in DOMAIN live : live[j].id # 0
  /\ \A i, j \in DOMAIN live : live[i].id = live[j].id => i = j

LEMMA AmendsAre ==
  ASSUME NEW desired, NEW live, NEW c, NEW actions, Differs(actions, desired, live, c), NEW a
  PROVE  /\ a \in actions /\ a.type = "amend"
              <=> \E i, j : /\ Met(desired, live, i, j) /\ ~isWithinTolerance(desired[i], live[j], c)
                            /\ a = Amend(live[j], desired[i])
         /\ a \in actions /\ a.type = "place"
              <=> \E i \in DOMAIN desired : (\A j : ~Met(desired, live, i, j)) /\ a = Place(desired[i])
         /\ a \in actions /\ a.type = "cancel"
              <=> \E j \in DOMAIN live : (\A i : ~Met(desired, live, i, j)) /\ a = Cancel(live[j])
<1>1. a \in actions <=>
    \/ \E i, j : Met(desired, live, i, j) /\ a = Changed(desired[i], live[j], c)
    \/ \E i \in DOMAIN desired : (\A j : ~Met(desired, live, i, j)) /\ a = Place(desired[i])
    \/ \E j \in DOMAIN live : (\A i : ~Met(desired, live, i, j)) /\ a = Cancel(live[j])
  BY DEF Differs
<1>2. \A want : Place(want).type = "place"
  BY DEF Place
<1>3. \A have : Cancel(have).type = "cancel"
  BY DEF Cancel
<1>4. \A want, have : /\ Amend(have, want).type = "amend"
                      /\ isWithinTolerance(want, have, c) => Changed(want, have, c).type = "keep"
                      /\ ~isWithinTolerance(want, have, c) => Changed(want, have, c) = Amend(have, want)
  BY DEF Changed, Keep, Amend
<1>5. "amend" # "place" /\ "amend" # "cancel" /\ "amend" # "keep" /\ "place" # "cancel"
      /\ "place" # "keep" /\ "cancel" # "keep"
  OBVIOUS
<1>6. a \in actions /\ a.type = "amend"
        <=> \E i, j : /\ Met(desired, live, i, j) /\ ~isWithinTolerance(desired[i], live[j], c)
                      /\ a = Amend(live[j], desired[i])
  BY <1>1, <1>2, <1>3, <1>4, <1>5
<1>7. a \in actions /\ a.type = "place"
        <=> \E i \in DOMAIN desired : (\A j : ~Met(desired, live, i, j)) /\ a = Place(desired[i])
  BY <1>1, <1>2, <1>3, <1>4, <1>5
<1>8. a \in actions /\ a.type = "cancel"
        <=> \E j \in DOMAIN live : (\A i : ~Met(desired, live, i, j)) /\ a = Cancel(live[j])
  BY <1>1, <1>2, <1>3, <1>4, <1>5
<1> QED
  BY <1>6, <1>7, <1>8

Leaves(x, desired, live, c) ==
  \/ \E i, j : /\ Met(desired, live, i, j) /\ isWithinTolerance(desired[i], live[j], c)
               /\ x = live[j]
  \/ \E i, j : /\ Met(desired, live, i, j) /\ ~isWithinTolerance(desired[i], live[j], c)
               /\ x = Amended(live[j], desired[i])
  \/ \E i \in DOMAIN desired : (\A j : ~Met(desired, live, i, j)) /\ x = Placed(desired[i])

LEMMA AfterIs ==
  ASSUME NEW desired, NEW live, Orders(desired, live), NEW c, NEW actions,
         Differs(actions, desired, live, c), NEW x
  PROVE  x \in After(live, actions) <=> Leaves(x, desired, live, c)
<1> DEFINE amends(o) == {a \in actions : a.type = "amend" /\ a.id = o.id}
           left == {o \in ToSet(live) : Cancel(o) \notin actions}
           placed == {a.order : a \in {a \in actions : a.type = "place"}}
<1>1. x \in After(live, actions) <=>
        \/ x \in left /\ amends(x) = {}
        \/ \E o \in left : \E a \in amends(o) : x = Amended(o, a)
        \/ \E w \in placed : x = Placed(w)
  <2> DEFINE pairs == {p \in left \X actions : p[2].type = "amend" /\ p[2].id = p[1].id}
             kept == {o \in left : \A p \in pairs : p[1] # o}
             changed == {Amended(p[1], p[2]) : p \in pairs}
             news == {Placed(w) : w \in placed}
  <2>1. After(live, actions) = kept \cup changed \cup news
    BY DEF After
  <2> HIDE DEF left, placed
  <2>2. \A o \in left : \A a : <<o, a>> \in pairs <=> a \in amends(o)
    OBVIOUS
  <2>3. \A p \in pairs : p = <<p[1], p[2]>> /\ p[1] \in left
    OBVIOUS
  <2>4. x \in kept <=> x \in left /\ \A p \in pairs : p[1] # x
    OBVIOUS
  <2>5. x \in changed <=> \E p \in pairs : x = Amended(p[1], p[2])
    OBVIOUS
  <2>6. x \in news <=> \E w \in placed : x = Placed(w)
    OBVIOUS
  <2> HIDE DEF pairs, kept, changed, news, amends
  <2>7. x \in kept <=> x \in left /\ amends(x) = {}
    <3>1. ASSUME x \in left, \A p \in pairs : p[1] # x, NEW a \in amends(x) PROVE FALSE
      <4>1. <<x, a>> \in pairs /\ <<x, a>>[1] = x
        BY <2>2, <3>1
      <4> QED
        BY <3>1, <4>1
    <3>2. ASSUME x \in left, amends(x) = {}, NEW p \in pairs PROVE p[1] # x
      BY <2>2, <2>3, <3>2
    <3> QED
      BY <2>4, <3>1, <3>2
  <2>8. x \in changed <=> \E o \in left : \E a \in amends(o) : x = Amended(o, a)
    <3>1. ASSUME NEW o \in left, NEW a \in amends(o), x = Amended(o, a) PROVE x \in changed
      <4>1. <<o, a>> \in pairs /\ <<o, a>>[1] = o /\ <<o, a>>[2] = a
        BY <2>2, <3>1
      <4> QED
        BY <2>5, <3>1, <4>1
    <3>2. ASSUME NEW p \in pairs, x = Amended(p[1], p[2])
          PROVE  \E o \in left : \E a \in amends(o) : x = Amended(o, a)
      BY <2>2, <2>3, <3>2
    <3> QED
      BY <2>5, <3>1, <3>2
  <2> QED
    BY <2>1, <2>6, <2>7, <2>8
<1>2. ToSet(live) = {live[j] : j \in DOMAIN live}
  BY DEF ToSet
<1>3. \A i, j \in DOMAIN live : live[i].id = live[j].id => i = j
  BY DEF Orders
<1>4. ASSUME NEW j \in DOMAIN live
      PROVE  Cancel(live[j]) \in actions <=> \A i : ~Met(desired, live, i, j)
  <2>1. \A o : Cancel(o).type = "cancel" /\ Cancel(o).id = o.id
    BY DEF Cancel
  <2>2. Cancel(live[j]) \in actions <=>
          \E k \in DOMAIN live : (\A i : ~Met(desired, live, i, k)) /\ Cancel(live[j]) = Cancel(live[k])
    <3>1. PICK a : a = Cancel(live[j])
      OBVIOUS
    <3>2. a \in actions /\ a.type = "cancel"
            <=> \E k \in DOMAIN live : (\A i : ~Met(desired, live, i, k)) /\ a = Cancel(live[k])
      BY AmendsAre
    <3> QED
      BY <2>1, <3>1, <3>2
  <2>3. ASSUME NEW k \in DOMAIN live, Cancel(live[j]) = Cancel(live[k]) PROVE k = j
    <3>1. live[k].id = live[j].id
      BY <2>1, <2>3
    <3> QED
      BY <1>3, <3>1
  <2> QED
    BY <2>2, <2>3
<1>5. \A o : o \in left <=> \E i, j : Met(desired, live, i, j) /\ o = live[j]
  BY <1>2, <1>4 DEF Met
<1>6. ASSUME NEW a, NEW j \in DOMAIN live
      PROVE  a \in amends(live[j]) <=>
               \E i : /\ Met(desired, live, i, j) /\ ~isWithinTolerance(desired[i], live[j], c)
                      /\ a = Amend(live[j], desired[i])
  <2>1. \A o, w : Amend(o, w).id = o.id
    BY DEF Amend
  <2>2. a \in amends(live[j]) <=> a \in actions /\ a.type = "amend" /\ a.id = live[j].id
    OBVIOUS
  <2>3. a \in actions /\ a.type = "amend"
          <=> \E i, k : /\ Met(desired, live, i, k) /\ ~isWithinTolerance(desired[i], live[k], c)
                        /\ a = Amend(live[k], desired[i])
    BY AmendsAre
  <2>4. \A i, k : Met(desired, live, i, k) => k \in DOMAIN live
    BY DEF Met
  <2> QED
    BY <1>3, <2>1, <2>2, <2>3, <2>4
<1>7. \A w : w \in placed <=> \E i \in DOMAIN desired : (\A j : ~Met(desired, live, i, j)) /\ w = desired[i]
  <2>1. \A w : Place(w).order = w
    BY DEF Place
  <2>2. \A a : a \in actions /\ a.type = "place"
          <=> \E i \in DOMAIN desired : (\A j : ~Met(desired, live, i, j)) /\ a = Place(desired[i])
    BY AmendsAre
  <2>3. \A w : w \in placed <=> \E a : a \in actions /\ a.type = "place" /\ w = a.order
    OBVIOUS
  <2> HIDE DEF placed
  <2> QED
    BY <2>1, <2>2, <2>3
<1> HIDE DEF left, placed
<1>8. Numbers(desired) /\ Numbers(live)
  BY DEF Orders
<1>9. x \in left /\ amends(x) = {} <=>
        \E i, j : /\ Met(desired, live, i, j) /\ isWithinTolerance(desired[i], live[j], c)
                  /\ x = live[j]
  <2>1. ASSUME x \in left, amends(x) = {}
        PROVE  \E i, j : /\ Met(desired, live, i, j) /\ isWithinTolerance(desired[i], live[j], c)
                         /\ x = live[j]
    <3>1. PICK i, j : Met(desired, live, i, j) /\ x = live[j]
      BY <1>5, <2>1
    <3>2. j \in DOMAIN live
      BY <3>1 DEF Met
    <3>3. Amend(live[j], desired[i]) \notin amends(live[j])
      BY <2>1, <3>1
    <3> HIDE DEF amends
    <3> QED
      BY <1>6, <3>1, <3>2, <3>3
  <2>2. ASSUME NEW i, NEW j, Met(desired, live, i, j), isWithinTolerance(desired[i], live[j], c),
               x = live[j]
        PROVE  x \in left /\ amends(x) = {}
    <3>1. j \in DOMAIN live
      BY <2>2 DEF Met
    <3>2. \A k : Met(desired, live, k, j) => k = i
      BY <1>8, <2>2, MeetOnce
    <3>3. ASSUME NEW a \in amends(live[j]) PROVE FALSE
      <4> HIDE DEF amends
      <4> QED
        BY <1>6, <2>2, <3>1, <3>2, <3>3
    <3>4. amends(live[j]) = {}
      <4> HIDE DEF amends
      <4> QED
        BY <3>3
    <3>5. x \in left
      BY <1>5, <2>2
    <3> QED
      BY <2>2, <3>4, <3>5
  <2> QED
    BY <2>1, <2>2
<1>10. (\E o \in left : \E a \in amends(o) : x = Amended(o, a)) <=>
         \E i, j : /\ Met(desired, live, i, j) /\ ~isWithinTolerance(desired[i], live[j], c)
                   /\ x = Amended(live[j], desired[i])
  <2>0. \A o, w : Amend(o, w).price = w.price /\ Amend(o, w).size = w.size
    BY DEF Amend
  <2>1. ASSUME NEW o \in left, NEW a \in amends(o), x = Amended(o, a)
        PROVE  \E i, j : /\ Met(desired, live, i, j) /\ ~isWithinTolerance(desired[i], live[j], c)
                         /\ x = Amended(live[j], desired[i])
    <3>1. PICK k, j : Met(desired, live, k, j) /\ o = live[j]
      BY <1>5
    <3>2. j \in DOMAIN live /\ a \in amends(live[j])
      BY <3>1 DEF Met
    <3> HIDE DEF amends
    <3>3. PICK i : /\ Met(desired, live, i, j) /\ ~isWithinTolerance(desired[i], live[j], c)
                   /\ a = Amend(live[j], desired[i])
      BY <1>6, <3>2
    <3>4. x = Amended(live[j], desired[i])
      BY <2>0, <2>1, <3>1, <3>3 DEF Amended
    <3> QED
      BY <3>3, <3>4
  <2>2. ASSUME NEW i, NEW j, Met(desired, live, i, j), ~isWithinTolerance(desired[i], live[j], c),
               x = Amended(live[j], desired[i])
        PROVE  \E o \in left : \E a \in amends(o) : x = Amended(o, a)
    <3>1. j \in DOMAIN live
      BY <2>2 DEF Met
    <3> HIDE DEF amends
    <3>2. PICK a : a = Amend(live[j], desired[i])
      OBVIOUS
    <3>3. a \in amends(live[j])
      BY <1>6, <2>2, <3>1, <3>2
    <3>4. x = Amended(live[j], a)
      BY <2>0, <2>2, <3>2 DEF Amended
    <3>5. live[j] \in left
      BY <1>5, <2>2
    <3> QED
      BY <3>3, <3>4, <3>5
  <2> HIDE DEF amends
  <2> QED
    BY <2>1, <2>2
<1>11. (\E w \in placed : x = Placed(w)) <=>
         \E i \in DOMAIN desired : (\A j : ~Met(desired, live, i, j)) /\ x = Placed(desired[i])
  BY <1>7
<1> HIDE DEF amends
<1> QED
  BY <1>1, <1>9, <1>10, <1>11 DEF Leaves

\* Carried out, the difference of live and desired orders gives each desired order one of its own
\* within tolerance (order-differ.ts), for any orders, live ones of different ids, and tolerances.
THEOREM DifferencesSettle ==
  ASSUME NEW desired, NEW live, Orders(desired, live), NEW c,
         c.priceTolerance \in Nat, c.sizeTolerancePct \in Nat
  PROVE  DiffSettles(desired, live, c)
<1>1. PICK left : left = After(live, diffOrders(desired, live, c))
  OBVIOUS
<1>2. \A x : x \in left <=> Leaves(x, desired, live, c)
  BY <1>1, DiffOrdersIs, AfterIs
<1>3. /\ \A i, j, k : Met(desired, live, i, j) /\ Met(desired, live, i, k) => j = k
      /\ \A i, j, k : Met(desired, live, i, j) /\ Met(desired, live, k, j) => i = k
  BY MeetOnce DEF Orders
<1> DEFINE met(i) == \E j : Met(desired, live, i, j)
           its(i) == CHOOSE j : Met(desired, live, i, j)
           mine == [i \in DOMAIN desired |->
                      IF ~met(i) THEN Placed(desired[i])
                      ELSE IF isWithinTolerance(desired[i], live[its(i)], c) THEN live[its(i)]
                      ELSE Amended(live[its(i)], desired[i])]
<1>4. \A i, j : Met(desired, live, i, j) => met(i) /\ its(i) = j /\ j \in DOMAIN live
  <2>1. ASSUME NEW i, NEW j, Met(desired, live, i, j) PROVE met(i) /\ its(i) = j /\ j \in DOMAIN live
    <3>1. Met(desired, live, i, its(i))
      BY <2>1
    <3> HIDE DEF its
    <3> QED
      BY <1>3, <2>1, <3>1 DEF Met
  <2> QED
    BY <2>1
<1> HIDE DEF its
<1>5. ASSUME NEW i \in DOMAIN desired
      PROVE  \/ /\ \A j : ~Met(desired, live, i, j)
                /\ mine[i] = Placed(desired[i])
             \/ \E j \in DOMAIN live : /\ Met(desired, live, i, j)
                                       /\ isWithinTolerance(desired[i], live[j], c)
                                       /\ mine[i] = live[j]
             \/ \E j \in DOMAIN live : /\ Met(desired, live, i, j)
                                       /\ ~isWithinTolerance(desired[i], live[j], c)
                                       /\ mine[i] = Amended(live[j], desired[i])
  BY <1>4, Zenon
<1>6. ASSUME NEW j \in DOMAIN live, NEW w
      PROVE  LET x == Amended(live[j], w) IN
             x.id = live[j].id /\ x.key = live[j].key /\ x.price = w.price /\ x.size = w.size
  BY DEF Amended
<1>7. ASSUME NEW w
      PROVE  LET x == Placed(w) IN x.id = 0 /\ x.key = w.key /\ x.price = w.price /\ x.size = w.size
  BY DEF Placed
<1>8. DOMAIN mine = DOMAIN desired /\ mine = [i \in DOMAIN mine |-> mine[i]]
  OBVIOUS
<1> HIDE DEF mine, met
<1>9. ASSUME NEW i \in DOMAIN desired, NEW o, o.price = desired[i].price, o.size = desired[i].size
      PROVE  isWithinTolerance(desired[i], o, c)
  <2>1. desired[i].price \in Nat /\ desired[i].size \in Nat
    BY DEF Orders
  <2> QED
    BY <1>9, <2>1 DEF isWithinTolerance, isPriceWithinTolerance, isSizeWithinTolerance, Gap
<1>10. ASSUME NEW i \in DOMAIN desired
       PROVE  mine[i].key = desired[i].key /\ isWithinTolerance(desired[i], mine[i], c)
  <2>1. \A j : Met(desired, live, i, j) => live[j].key = desired[i].key
    BY DEF Met, Meet
  <2> QED
    BY <1>5, <1>6, <1>7, <1>9, <2>1
<1>11. \A i \in DOMAIN desired : mine[i] \in left
  BY <1>2, <1>5 DEF Leaves
<1>12. ASSUME NEW x \in left PROVE \E i \in DOMAIN desired : mine[i] = x
  <2>1. Leaves(x, desired, live, c)
    BY <1>2
  <2>2. \A i, j : Met(desired, live, i, j) => i \in DOMAIN desired
    BY DEF Met
  <2> QED
    BY <1>3, <1>5, <2>1, <2>2 DEF Leaves
<1>13. ASSUME NEW i \in DOMAIN desired, NEW k \in DOMAIN desired, mine[i] = mine[k] PROVE i = k
  <2>1. \A j \in DOMAIN live : live[j].id # 0
    BY DEF Orders
  <2>2. \A j, l \in DOMAIN live : live[j].id = live[l].id => j = l
    BY DEF Orders
  <2>3. CASE mine[i].id = 0
    <3>1. mine[i] = Placed(desired[i]) /\ mine[k] = Placed(desired[k])
      BY <1>5, <1>6, <1>13, <2>1, <2>3
    <3>2. Placed(desired[i]) = Placed(desired[k])
      BY <1>13, <3>1
    <3>3. /\ desired[i].key = desired[k].key /\ desired[i].price = desired[k].price
          /\ desired[i].size = desired[k].size
      BY ONLY <3>2 DEF Placed
    <3> QED
      BY <3>3 DEF Orders
  <2>4. CASE mine[i].id # 0
    <3>1. PICK j \in DOMAIN live : Met(desired, live, i, j) /\ mine[i].id = live[j].id
      BY <1>5, <1>6, <1>7, <2>4
    <3>2. PICK l \in DOMAIN live : Met(desired, live, k, l) /\ mine[k].id = live[l].id
      BY <1>5, <1>6, <1>7, <1>13, <2>4
    <3>3. j = l
      BY <1>13, <2>2, <3>1, <3>2
    <3> QED
      BY <1>3, <3>1, <3>2, <3>3
  <2> QED
    BY <2>3, <2>4
<1>14. mine \in Bijection(DOMAIN desired, left)
  <2>1. mine \in [DOMAIN desired -> left]
    BY <1>8, <1>11
  <2>2. mine \in Injection(DOMAIN desired, left)
    BY <1>13, <2>1, Zenon DEF Injection, IsInjective
  <2>3. mine \in Surjection(DOMAIN desired, left)
    BY <1>12, <2>1, Zenon DEF Surjection
  <2> QED
    BY <2>2, <2>3, Zenon DEF Bijection
<1> QED
  BY <1>1, <1>10, <1>14, Zenon DEF DiffSettles

LEMMA WantedTyped ==
  ASSUME NEW w \in WantedLists
  PROVE  /\ \E n \in Nat : DOMAIN w = 1..n
         /\ \A i \in DOMAIN w : w[i].price \in Nat /\ w[i].size \in Nat
         /\ \A i, j \in DOMAIN w : /\ w[i].key = w[j].key /\ w[i].price = w[j].price
                                   /\ w[i].size = w[j].size
                                   => i = j
<1>1. \A a \in Wanted : a.price \in Nat /\ a.size \in Nat
  BY DEF Wanted
<1>2. ASSUME NEW a \in Wanted, NEW b \in Wanted, a.key = b.key, a.price = b.price, a.size = b.size
      PROVE  a = b
  <2>1. /\ a = [key |-> a.key, price |-> a.price, size |-> a.size]
        /\ b = [key |-> b.key, price |-> b.price, size |-> b.size]
    BY DEF Wanted
  <2> QED
    BY <1>2, <2>1
<1> USE DEF WantedLists
<1>3. CASE w = <<>>
  BY <1>3
<1>4. CASE w \in {<<a>> : a \in Wanted}
  <2>1. PICK a \in Wanted : w = <<a>>
    BY <1>4
  <2> QED
    BY <1>1, <2>1
<1>5. CASE w \in Wanted \X Wanted /\ w[1] # w[2]
  <2>1. DOMAIN w = 1..2 /\ w[1] \in Wanted /\ w[2] \in Wanted /\ 2 \in Nat
    BY <1>5
  <2>2. \A i, j \in DOMAIN w : w[i].key = w[j].key /\ w[i].price = w[j].price /\ w[i].size = w[j].size
                               => w[i] = w[j]
    <3>1. \A i \in DOMAIN w : w[i] \in Wanted
      BY <2>1
    <3> QED
      BY <1>2, <3>1
  <2>3. \A i, j \in DOMAIN w : w[i] = w[j] => i = j
    BY <1>5, <2>1
  <2> QED
    BY <1>1, <2>1, <2>2, <2>3
<1> QED
  BY <1>3, <1>4, <1>5

LEMMA DifferencesAgree == AskedInv => DiffsSettle
<1> SUFFICES ASSUME AskedInv, Is("orders")
             PROVE  DiffSettles(asked.desired, asked.live, asked.config)
  BY DEF DiffsSettle
<1>1. asked \in Diffs
  BY DEF AskedInv, Is, Quotes, Portfolios, Diffs, Rotations, Oracles, Queues
<1>2. asked.desired \in WantedLists
  BY <1>1 DEF Diffs
<1>3. PICK w \in WantedLists : asked.live = Numbered(w)
  BY <1>1 DEF Diffs
<1>4. asked.config.priceTolerance \in Nat /\ asked.config.sizeTolerancePct \in Nat
  BY <1>1 DEF Diffs
<1>5. DOMAIN asked.live = DOMAIN w /\ \A i \in DOMAIN w : asked.live[i].id = i
  BY <1>3 DEF Numbered
<1>6. PICK n \in Nat : DOMAIN w = 1..n
  BY WantedTyped
<1>7. Orders(asked.desired, asked.live)
  <2>1. \A j \in DOMAIN asked.live : asked.live[j].id # 0
    BY <1>5, <1>6
  <2>2. \A i, j \in DOMAIN asked.live : asked.live[i].id = asked.live[j].id => i = j
    BY <1>5
  <2>3. Numbers(asked.desired) /\ Numbers(asked.live)
    BY <1>2, <1>5, <1>6, WantedTyped DEF Numbers
  <2> QED
    BY <1>2, <2>1, <2>2, <2>3, WantedTyped DEF Orders
<1> QED
  BY <1>4, <1>7, DifferencesSettle

-----------------------------------------------------------------------------
(* Fractions: what Rational.tla computes is right.                           *)

Divides(d, a) == \E x \in Nat : a = d * x
Common(a, b) == {d \in Nat \ {0} : Divides(d, a) /\ Divides(d, b)}

\* A number and what is left of another have the divisors the two numbers have.
LEMMA RestDivides ==
  ASSUME NEW a \in Nat, NEW b \in Nat \ {0}
  PROVE  a % b \in Nat /\ a % b < b /\ Common(a, b) = Common(b, a % b)
<1>1. PICK q \in Nat, r \in Nat : q = a \div b /\ r = a % b /\ r < b /\ a = b * q + r
  <2>1. a \div b \in Nat /\ a % b \in 0..(b - 1)
    OBVIOUS
  <2>2. a = b * (a \div b) + (a % b)
    OBVIOUS
  <2> QED
    BY <2>1, <2>2
<1>2. ASSUME NEW d \in Nat \ {0}, Divides(d, b), Divides(d, r) PROVE Divides(d, a)
  <2>1. PICK x \in Nat, y \in Nat : b = d * x /\ r = d * y
    BY <1>2 DEF Divides
  <2>2. x * q + y \in Nat
    OBVIOUS
  <2>3. d * (x * q + y) = (d * x) * q + d * y
    OBVIOUS
  <2>4. a = d * (x * q + y)
    BY <1>1, <2>1, <2>3
  <2> QED
    BY <2>2, <2>4 DEF Divides
<1>3. ASSUME NEW d \in Nat \ {0}, Divides(d, b), Divides(d, a) PROVE Divides(d, r)
  <2>1. PICK x \in Nat, y \in Nat : b = d * x /\ a = d * y
    BY <1>3 DEF Divides
  <2>2. d * (y - x * q) = d * y - (d * x) * q
    OBVIOUS
  <2>3. r = d * (y - x * q)
    <3>1. PICK u \in Int : u = (d * x) * q
      OBVIOUS
    <3>2. b * q = u
      BY <2>1, <3>1
    <3>3. PICK v \in Int : v = d * y
      OBVIOUS
    <3>4. v = u + r
      BY <1>1, <2>1, <3>2, <3>3
    <3>5. r = v - u
      BY <3>4, <1>1
    <3> QED
      BY <2>2, <3>1, <3>3, <3>5
  <2>4. y - x * q \in Nat
    <3>1. PICK z \in Int : z = y - x * q
      OBVIOUS
    <3>2. d * z \in Nat
      BY <2>3, <3>1
    <3>3. z >= 0
      <4> SUFFICES ASSUME z < 0 PROVE FALSE
        OBVIOUS
      <4>1. d * z < d * 0
        BY Scaled
      <4> QED
        BY <3>2, <4>1
    <3> QED
      BY <3>1, <3>3
  <2> QED
    BY <2>3, <2>4 DEF Divides
<1>4. Common(a, b) = Common(b, r)
  BY <1>2, <1>3 DEF Common
<1> QED
  BY <1>1, <1>4

\* A divisor of a positive number is at most the number.
LEMMA DivisorAtMost ==
  ASSUME NEW d \in Nat \ {0}, NEW b \in Nat \ {0}, Divides(d, b)
  PROVE  d <= b
<1>1. PICK x \in Nat : b = d * x
  BY DEF Divides
<1>2. x # 0
  BY <1>1
<1>3. d * 1 <= d * x
  BY <1>2, Scaled
<1> QED
  BY <1>1, <1>3

Euclid(f) == f = [b \in Nat |-> [a \in Nat |-> IF b = 0 THEN a ELSE f[a % b][b]]]

\* There is a function that Euclid's algorithm computes.
LEMMA EuclidWorks == Euclid(gcd)
<1> DEFINE f == [b \in Nat |-> [a \in Nat |-> IF b = 0 THEN a ELSE Max(Common(a, b))]]
<1>1. ASSUME NEW a \in Nat, NEW b \in Nat \ {0} PROVE f[b][a] = f[a % b][b]
  <2>1. a % b \in Nat /\ Common(a, b) = Common(b, a % b)
    BY RestDivides
  <2>2. f[b][a] = Max(Common(a, b)) /\ f[a % b][b] = IF a % b = 0 THEN b ELSE Max(Common(b, a % b))
    BY <2>1
  <2> HIDE DEF f
  <2>3. ASSUME a % b = 0 PROVE Max(Common(a, b)) = b
    <3>1. b \in Common(b, 0)
      <4>1. b = b * 1 /\ 0 = b * 0 /\ 1 \in Nat /\ 0 \in Nat
        OBVIOUS
      <4> QED
        BY <4>1 DEF Common, Divides
    <3>2. \A d \in Common(b, 0) : d \in Nat /\ d <= b
      BY DivisorAtMost DEF Common
    <3>3. Max(Common(b, 0)) = b
      <4>1. \E x \in Common(b, 0) : \A y \in Common(b, 0) : x >= y
        BY <3>1, <3>2
      <4>2. Max(Common(b, 0)) \in Common(b, 0) /\ Max(Common(b, 0)) >= b
        BY <3>1, <4>1, Zenon DEF Max
      <4> QED
        BY <3>2, <4>2
    <3> QED
      BY <2>1, <2>3, <3>3
  <2> QED
    BY <2>1, <2>2, <2>3
<1>2. \A a, b \in Nat : f[b][a] = IF b = 0 THEN a ELSE f[a % b][b]
  BY <1>1
<1>3. Euclid(f)
  <2>1. ASSUME NEW b \in Nat PROVE f[b] = [a \in Nat |-> IF b = 0 THEN a ELSE f[a % b][b]]
    <3>1. f[b] = [a \in Nat |-> f[b][a]]
      OBVIOUS
    <3>2. \A a \in Nat : f[b][a] = IF b = 0 THEN a ELSE f[a % b][b]
      BY <1>2
    <3> HIDE DEF f
    <3> QED
      BY <3>1, <3>2, Zenon
  <2>2. f = [b \in Nat |-> f[b]]
    OBVIOUS
  <2> HIDE DEF f
  <2> QED
    BY <2>1, <2>2, Zenon DEF Euclid
<1>4. gcd = CHOOSE h : Euclid(h)
  BY Zenon DEF gcd, Euclid
<1> HIDE DEF f
<1> QED
  BY <1>3, <1>4, Zenon

\* What it computes of numbers not both 0 is a number, not 0, that divides both.
LEMMA GcdDivides ==
  ASSUME NEW b \in Nat, NEW a \in Nat, a # 0 \/ b # 0
  PROVE  gcd[b][a] \in Nat \ {0} /\ Divides(gcd[b][a], a) /\ Divides(gcd[b][a], b)
<1>1. \A x, y \in Nat : gcd[y][x] = IF y = 0 THEN x ELSE gcd[x % y][y]
  BY EuclidWorks DEF Euclid
<1> DEFINE Good(y) == \A x \in Nat : x # 0 \/ y # 0 =>
             gcd[y][x] \in Nat \ {0} /\ Divides(gcd[y][x], x) /\ Divides(gcd[y][x], y)
           K == {k \in Nat : \A y \in 0..k : Good(y)}
<1>2. Good(0)
  <2> SUFFICES ASSUME NEW x \in Nat \ {0} PROVE gcd[0][x] \in Nat \ {0} /\ Divides(gcd[0][x], x) /\ Divides(gcd[0][x], 0)
    OBVIOUS
  <2>1. gcd[0][x] = x
    BY <1>1
  <2>2. x = x * 1 /\ 0 = x * 0 /\ 1 \in Nat /\ 0 \in Nat
    OBVIOUS
  <2> QED
    BY <2>1, <2>2 DEF Divides
<1>3. ASSUME NEW k \in Nat, \A y \in 0..k : Good(y) PROVE Good(k + 1)
  <2> SUFFICES ASSUME NEW x \in Nat
               PROVE  /\ gcd[k + 1][x] \in Nat \ {0} /\ Divides(gcd[k + 1][x], x)
                      /\ Divides(gcd[k + 1][x], k + 1)
    OBVIOUS
  <2>1. PICK y \in Nat \ {0} : y = k + 1
    OBVIOUS
  <2>2. PICK r : r = x % y
    OBVIOUS
  <2>3. r \in 0..k /\ Common(x, y) = Common(y, r)
    <3>1. r \in Nat /\ r < y /\ Common(x, y) = Common(y, r)
      BY <2>2, RestDivides
    <3> QED
      BY <2>1, <3>1
  <2>4. PICK g : g = gcd[r][y]
    OBVIOUS
  <2>5. g \in Nat \ {0} /\ Divides(g, y) /\ Divides(g, r)
    BY <1>3, <2>3, <2>4
  <2>6. g \in Common(x, y)
    BY <2>3, <2>5 DEF Common
  <2>7. gcd[y][x] = g
    BY <1>1, <2>2, <2>4
  <2> QED
    BY <2>1, <2>5, <2>6, <2>7 DEF Common
<1> HIDE DEF Good
<1>4. 0 \in K
  BY <1>2
<1>5. ASSUME NEW k \in Nat, k \in K PROVE k + 1 \in K
  <2>1. Good(k + 1)
    BY <1>3, <1>5
  <2>2. \A y \in 0..(k + 1) : y \in 0..k \/ y = k + 1
    OBVIOUS
  <2> QED
    BY <1>5, <2>1, <2>2
<1>6. \A k \in Nat : k \in K
  <2> HIDE DEF K
  <2> QED
    BY <1>4, <1>5, AllNumbers
<1>7. Good(b)
  <2>1. b \in K /\ b \in 0..b
    BY <1>6
  <2> QED
    BY <2>1
<1> QED
  BY <1>7 DEF Good

Fractions == Int \X (Nat \ {0})

\* A fraction is n over d.
IsOver(x, n, d) == x \in Fractions /\ n \in Int /\ d \in Nat \ {0} /\ x[1] * d = n * x[2]

LEMMA QuotientOfProduct ==
  ASSUME NEW g \in Nat \ {0}, NEW x \in Int
  PROVE  (g * x) \div g = x
<1>1. PICK p \in Int : p = g * x
  OBVIOUS
<1>2. PICK q \in Int : q = p \div g
  OBVIOUS
<1>3. p = g * q + (p % g) /\ p % g \in 0..(g - 1)
  BY <1>2
<1>4. PICK r \in 0..(g - 1) : p = g * q + r
  BY <1>3
<1>5. ~(q < x)
  <2> SUFFICES ASSUME q < x PROVE FALSE
    OBVIOUS
  <2>1. q + 1 <= x /\ q + 1 \in Int
    OBVIOUS
  <2>2. g * (q + 1) <= g * x
    BY <2>1, Scaled
  <2>3. g * (q + 1) = g * q + g
    OBVIOUS
  <2>4. g * q \in Int
    OBVIOUS
  <2> QED
    BY <1>1, <1>4, <2>2, <2>3, <2>4
<1>6. ~(x < q)
  <2> SUFFICES ASSUME x < q PROVE FALSE
    OBVIOUS
  <2>1. x + 1 <= q /\ x + 1 \in Int
    OBVIOUS
  <2>2. g * (x + 1) <= g * q
    BY <2>1, Scaled
  <2>3. g * (x + 1) = g * x + g
    OBVIOUS
  <2>4. g * q \in Int
    OBVIOUS
  <2> QED
    BY <1>1, <1>4, <2>2, <2>3, <2>4
<1> QED
  BY <1>1, <1>2, <1>5, <1>6

\* What the numerator and the denominator of a fraction are divided by.
LEMMA RatioParts ==
  ASSUME NEW n \in Int, NEW d \in Nat \ {0}
  PROVE  \E g \in Nat \ {0}, x \in Int, y \in Nat \ {0} :
           g = gcd[d][Magnitude(n)] /\ n = g * x /\ d = g * y /\ Ratio(n, d) = <<x, y>>
<1>1. Magnitude(n) \in Nat
  BY DEF Magnitude
<1>2. PICK g \in Nat \ {0} : g = gcd[d][Magnitude(n)] /\ Divides(g, Magnitude(n)) /\ Divides(g, d)
  BY <1>1, GcdDivides
<1>3. PICK y \in Nat : d = g * y
  BY <1>2 DEF Divides
<1>4. PICK x \in Int : n = g * x
  <2>1. PICK z \in Nat : Magnitude(n) = g * z
    BY <1>2 DEF Divides
  <2>2. PICK w \in Int : w = g * z
    OBVIOUS
  <2>3. n = w \/ n = -w
    BY <2>1, <2>2 DEF Magnitude
  <2>4. -z \in Int /\ g * (-z) = -w
    BY <2>2
  <2>5. CASE n = w
    BY <2>2, <2>5
  <2>6. CASE n = -w
    <3>1. n = g * (-z)
      BY <2>4, <2>6
    <3> QED
      BY <2>4, <3>1
  <2> QED
    BY <2>3, <2>5, <2>6
<1>5. Ratio(n, d) = <<n \div g, d \div g>>
  BY <1>2 DEF Ratio, Divided
<1>6. Ratio(n, d) = <<x, y>>
  <2>1. (g * x) \div g = x /\ (g * y) \div g = y
    BY QuotientOfProduct
  <2> QED
    BY <1>3, <1>4, <1>5, <2>1
<1>7. y # 0
  BY <1>3
<1> QED
  BY <1>2, <1>3, <1>4, <1>6, <1>7

LEMMA RatioIs ==
  ASSUME NEW n \in Int, NEW d \in Nat \ {0}
  PROVE  IsOver(Ratio(n, d), n, d)
<1>1. PICK g \in Nat \ {0}, x \in Int, y \in Nat \ {0} :
        g = gcd[d][Magnitude(n)] /\ n = g * x /\ d = g * y /\ Ratio(n, d) = <<x, y>>
  BY RatioParts
<1>2. x * (g * y) = (g * x) * y
  OBVIOUS
<1> QED
  BY <1>1, <1>2 DEF IsOver, Fractions

LEMMA PlusIs ==
  ASSUME NEW a \in Fractions, NEW b \in Fractions
  PROVE  IsOver(Plus(a, b), a[1] * b[2] + b[1] * a[2], a[2] * b[2])
<1>1. PICK p \in Int, d \in Nat \ {0} : a = <<p, d>>
  BY DEF Fractions
<1>2. PICK q \in Int, e \in Nat \ {0} : b = <<q, e>>
  BY DEF Fractions
<1>3. PICK g \in Nat \ {0} : g = gcd[d][e] /\ Divides(g, e) /\ Divides(g, d)
  BY GcdDivides
<1>4. PICK u \in Nat, v \in Nat : d = g * u /\ e = g * v
  BY <1>3 DEF Divides
<1>5. u # 0 /\ v # 0
  BY <1>4
<1>6. d \div g = u /\ e \div g = v
  BY <1>4, QuotientOfProduct
<1>7. Plus(a, b) = Ratio(p * v + q * u, d * v)
  BY <1>1, <1>2, <1>3, <1>6 DEF Plus, PlusBy
<1>8. d * v \in Nat \ {0} /\ d * e \in Nat \ {0} /\ p * v + q * u \in Int /\ p * e + q * d \in Int
  BY <1>5, PositiveProduct
<1>9. PICK r \in Fractions : r = Plus(a, b) /\ r[1] * (d * v) = (p * v + q * u) * r[2]
  BY <1>7, <1>8, RatioIs DEF IsOver
<1>10. PICK s \in Int, t \in Nat \ {0} : r = <<s, t>>
  BY DEF Fractions
<1>11. s * (d * v) = (p * v + q * u) * t
  BY <1>9, <1>10
<1>12. g * (s * (d * v)) = g * ((p * v + q * u) * t)
  BY <1>11
<1>13. g * (s * (d * v)) = s * (d * (g * v))
  OBVIOUS
<1>14. g * ((p * v + q * u) * t) = (p * (g * v) + q * (g * u)) * t
  OBVIOUS
<1>15. s * (d * e) = (p * e + q * d) * t
  BY <1>4, <1>12, <1>13, <1>14
<1> QED
  BY <1>1, <1>2, <1>8, <1>9, <1>10, <1>15 DEF IsOver

LEMMA TimesIs ==
  ASSUME NEW a \in Fractions, NEW b \in Fractions
  PROVE  IsOver(Times(a, b), a[1] * b[1], a[2] * b[2])
<1>1. PICK p \in Int, d \in Nat \ {0} : a = <<p, d>>
  BY DEF Fractions
<1>2. PICK q \in Int, e \in Nat \ {0} : b = <<q, e>>
  BY DEF Fractions
<1>3. PICK s \in Int, t \in Nat \ {0} : Ratio(p, e) = <<s, t>> /\ s * e = p * t
  <2>1. IsOver(Ratio(p, e), p, e)
    BY RatioIs
  <2> QED
    BY <2>1 DEF IsOver, Fractions
<1>4. PICK y \in Int, z \in Nat \ {0} : Ratio(q, d) = <<y, z>> /\ y * d = q * z
  <2>1. IsOver(Ratio(q, d), q, d)
    BY RatioIs
  <2> QED
    BY <2>1 DEF IsOver, Fractions
<1>5. Times(a, b) = <<s * y, t * z>>
  BY <1>1, <1>2, <1>3, <1>4 DEF Times, Crossed
<1>6. d * e \in Nat \ {0} /\ t * z \in Nat \ {0} /\ p * q \in Int /\ s * y \in Int
  BY PositiveProduct
<1>7. (s * y) * (d * e) = (s * e) * (y * d)
  OBVIOUS
<1>8. (p * t) * (q * z) = (p * q) * (t * z)
  OBVIOUS
<1>9. (s * y) * (d * e) = (p * q) * (t * z)
  BY <1>3, <1>4, <1>7, <1>8
<1> QED
  BY <1>1, <1>2, <1>5, <1>6, <1>9 DEF IsOver, Fractions

Leq(x, y) == x[1] * y[2] <= y[1] * x[2]

LEMMA SameOver ==
  ASSUME NEW x, NEW n, NEW d, IsOver(x, n, d), NEW m \in Int, NEW e \in Nat \ {0}, n * e = m * d
  PROVE  IsOver(x, m, e)
<1>1. PICK p \in Int, q \in Nat \ {0} : x = <<p, q>>
  BY DEF IsOver, Fractions
<1>2. n \in Int /\ d \in Nat \ {0} /\ p * d = n * q /\ x \in Fractions
  BY <1>1 DEF IsOver
<1>3. d * (p * e) = (p * d) * e /\ d * (m * q) = (m * d) * q
  BY <1>2
<1>4. (n * q) * e = (n * e) * q
  BY <1>2
<1>5. d * (p * e) = d * (m * q)
  BY <1>2, <1>3, <1>4
<1>6. p * e \in Int /\ m * q \in Int
  OBVIOUS
<1>7. p * e = m * q
  BY <1>2, <1>5, <1>6, Scaled
<1> QED
  BY <1>1, <1>2, <1>7 DEF IsOver

\* Fractions compare as what they are fractions of does.
LEMMA LeqBy ==
  ASSUME NEW x, NEW n, NEW d, IsOver(x, n, d), NEW y, NEW m, NEW e, IsOver(y, m, e)
  PROVE  Leq(x, y) <=> n * e <= m * d
<1>1. PICK p \in Int, q \in Nat \ {0} : x = <<p, q>>
  BY DEF IsOver, Fractions
<1>2. PICK s \in Int, t \in Nat \ {0} : y = <<s, t>>
  BY DEF IsOver, Fractions
<1>3. /\ n \in Int /\ d \in Nat \ {0} /\ p * d = n * q
      /\ m \in Int /\ e \in Nat \ {0} /\ s * e = m * t
  BY <1>1, <1>2 DEF IsOver
<1>4. d * e \in Nat \ {0} /\ q * t \in Nat \ {0}
  BY <1>3, PositiveProduct
<1>5. p * t \in Int /\ s * q \in Int /\ n * e \in Int /\ m * d \in Int
  BY <1>3
<1>6. (d * e) * (p * t) = (p * d) * (e * t) /\ (d * e) * (s * q) = (s * e) * (d * q)
  BY <1>3
<1>7. (q * t) * (n * e) = (n * q) * (e * t) /\ (q * t) * (m * d) = (m * t) * (d * q)
  BY <1>3
<1>8. (d * e) * (p * t) = (q * t) * (n * e) /\ (d * e) * (s * q) = (q * t) * (m * d)
  BY <1>3, <1>6, <1>7
<1>9. p * t <= s * q <=> (d * e) * (p * t) <= (d * e) * (s * q)
  BY <1>4, <1>5, Scaled
<1>10. n * e <= m * d <=> (q * t) * (n * e) <= (q * t) * (m * d)
  BY <1>4, <1>5, Scaled
<1> QED
  BY <1>1, <1>2, <1>8, <1>9, <1>10 DEF Leq

LEMMA SignBy ==
  ASSUME NEW x, NEW n, NEW d, IsOver(x, n, d)
  PROVE  /\ x[1] < 0 <=> n < 0
         /\ x[1] > 0 <=> n > 0
<1>1. PICK p \in Int, q \in Nat \ {0} : x = <<p, q>>
  BY DEF IsOver, Fractions
<1>2. n \in Int /\ d \in Nat \ {0} /\ p * d = n * q
  BY <1>1 DEF IsOver
<1>3. d * p = q * n
  BY <1>2
<1>4. (d * 0 <= d * p <=> 0 <= p) /\ (d * p <= d * 0 <=> p <= 0) /\ d * 0 = 0
  BY <1>2, Scaled
<1>5. (q * 0 <= q * n <=> 0 <= n) /\ (q * n <= q * 0 <=> n <= 0) /\ q * 0 = 0
  BY <1>2, Scaled
<1>6. (0 <= p <=> 0 <= n) /\ (p <= 0 <=> n <= 0)
  BY <1>3, <1>4, <1>5
<1> QED
  BY <1>1, <1>2, <1>6

LEMMA MinusIs ==
  ASSUME NEW a \in Fractions, NEW b \in Fractions
  PROVE  IsOver(Minus(a, b), a[1] * b[2] - b[1] * a[2], a[2] * b[2])
<1>1. PICK p \in Int, d \in Nat \ {0} : a = <<p, d>>
  BY DEF Fractions
<1>2. PICK q \in Int, e \in Nat \ {0} : b = <<q, e>>
  BY DEF Fractions
<1>3. PICK c \in Fractions : c = <<-q, e>>
  <2>1. -q \in Int /\ e \in Nat \ {0}
    OBVIOUS
  <2>2. <<-q, e>> \in Fractions
    BY <2>1 DEF Fractions
  <2> QED
    BY <2>2
<1>4. c[1] = -q /\ c[2] = e /\ a[1] = p /\ a[2] = d
  BY <1>1, <1>3
<1>5. IsOver(Plus(a, c), p * e + (-q) * d, d * e)
  BY <1>4, PlusIs
<1>6. p * e + (-q) * d = p * e - q * d
  OBVIOUS
<1>7. Minus(a, b) = Plus(a, c)
  BY <1>2, <1>3 DEF Minus
<1> QED
  BY <1>1, <1>2, <1>5, <1>6, <1>7

LEMMA AtMostIs ==
  ASSUME NEW a \in Fractions, NEW b \in Fractions
  PROVE  (AtMost(a, b) <=> Leq(a, b)) /\ (Less(a, b) <=> ~Leq(b, a))
<1>1. ASSUME NEW x \in Fractions, NEW y \in Fractions PROVE Less(x, y) <=> ~Leq(y, x)
  <2>1. PICK p \in Int, d \in Nat \ {0} : x = <<p, d>>
    BY DEF Fractions
  <2>2. PICK q \in Int, e \in Nat \ {0} : y = <<q, e>>
    BY DEF Fractions
  <2>3. IsOver(Minus(x, y), p * e - q * d, d * e)
    BY <2>1, <2>2, MinusIs
  <2>4. Less(x, y) <=> p * e - q * d < 0
    BY <2>3, SignBy DEF Less
  <2>5. p * e \in Int /\ q * d \in Int
    OBVIOUS
  <2> QED
    BY <2>1, <2>2, <2>4, <2>5 DEF Leq
<1> QED
  BY <1>1 DEF AtMost

LEMMA LeqTotal ==
  ASSUME NEW a \in Fractions, NEW b \in Fractions
  PROVE  Leq(a, a) /\ (Leq(a, b) \/ Leq(b, a))
BY DEF Leq, Fractions

LEMMA LeqChain ==
  ASSUME NEW a \in Fractions, NEW b \in Fractions, NEW c \in Fractions, Leq(a, b), Leq(b, c)
  PROVE  Leq(a, c)
<1>1. PICK p \in Int, d \in Nat \ {0} : a = <<p, d>>
  BY DEF Fractions
<1>2. PICK q \in Int, e \in Nat \ {0} : b = <<q, e>>
  BY DEF Fractions
<1>3. PICK r \in Int, f \in Nat \ {0} : c = <<r, f>>
  BY DEF Fractions
<1>4. p * e <= q * d /\ q * f <= r * e
  BY <1>1, <1>2, <1>3 DEF Leq
<1>5. f * (p * e) <= f * (q * d)
  BY <1>4, Scaled
<1>6. d * (q * f) <= d * (r * e)
  BY <1>4, Scaled
<1>7. f * (q * d) = d * (q * f) /\ f * (p * e) = e * (p * f) /\ d * (r * e) = e * (r * d)
  OBVIOUS
<1>8. e * (p * f) \in Int /\ e * (r * d) \in Int /\ d * (q * f) \in Int
  OBVIOUS
<1>9. e * (p * f) <= e * (r * d)
  BY <1>5, <1>6, <1>7, <1>8
<1>10. p * f <= r * d
  BY <1>9, Scaled
<1> QED
  BY <1>1, <1>3, <1>10 DEF Leq

LEMMA PlusGrows ==
  ASSUME NEW a \in Fractions, NEW b \in Fractions, NEW x \in Fractions, NEW y \in Fractions,
         Leq(a, b), Leq(x, y)
  PROVE  /\ Plus(a, x) \in Fractions /\ Plus(b, y) \in Fractions
         /\ Leq(Plus(a, x), Plus(b, y))
<1>1. PICK p \in Int, d \in Nat \ {0} : a = <<p, d>>
  BY DEF Fractions
<1>2. PICK q \in Int, e \in Nat \ {0} : b = <<q, e>>
  BY DEF Fractions
<1>3. PICK r \in Int, f \in Nat \ {0} : x = <<r, f>>
  BY DEF Fractions
<1>4. PICK s \in Int, g \in Nat \ {0} : y = <<s, g>>
  BY DEF Fractions
<1>5. p * e <= q * d /\ r * g <= s * f
  BY <1>1, <1>2, <1>3, <1>4 DEF Leq
<1>6. IsOver(Plus(a, x), p * f + r * d, d * f) /\ IsOver(Plus(b, y), q * g + s * e, e * g)
  BY <1>1, <1>2, <1>3, <1>4, PlusIs
<1>7. f * g \in Nat \ {0} /\ d * e \in Nat \ {0}
  BY PositiveProduct
<1>8. (f * g) * (p * e) <= (f * g) * (q * d) /\ (d * e) * (r * g) <= (d * e) * (s * f)
  BY <1>5, <1>7, Scaled
<1>9. (p * f + r * d) * (e * g) = (f * g) * (p * e) + (d * e) * (r * g)
  OBVIOUS
<1>10. (q * g + s * e) * (d * f) = (f * g) * (q * d) + (d * e) * (s * f)
  OBVIOUS
<1>11. /\ (f * g) * (p * e) \in Int /\ (f * g) * (q * d) \in Int
       /\ (d * e) * (r * g) \in Int /\ (d * e) * (s * f) \in Int
  OBVIOUS
<1>12. (p * f + r * d) * (e * g) <= (q * g + s * e) * (d * f)
  BY <1>8, <1>9, <1>10, <1>11
<1>13. Leq(Plus(a, x), Plus(b, y))
  BY <1>6, <1>12, LeqBy
<1> QED
  BY <1>6, <1>13 DEF IsOver

LEMMA MinusGrows ==
  ASSUME NEW a \in Fractions, NEW b \in Fractions, NEW x \in Fractions, NEW y \in Fractions,
         Leq(a, b), Leq(y, x)
  PROVE  /\ Minus(a, x) \in Fractions /\ Minus(b, y) \in Fractions
         /\ Leq(Minus(a, x), Minus(b, y))
<1>1. PICK r \in Int, f \in Nat \ {0} : x = <<r, f>>
  BY DEF Fractions
<1>2. PICK s \in Int, g \in Nat \ {0} : y = <<s, g>>
  BY DEF Fractions
<1>3. PICK u \in Fractions, v \in Fractions : u = <<-r, f>> /\ v = <<-s, g>>
  <2>1. -r \in Int /\ -s \in Int
    OBVIOUS
  <2>2. <<-r, f>> \in Fractions /\ <<-s, g>> \in Fractions
    BY <2>1 DEF Fractions
  <2> QED
    BY <2>2
<1>4. s * f <= r * g
  BY <1>1, <1>2 DEF Leq
<1>5. (-r) * g = -(r * g) /\ (-s) * f = -(s * f) /\ r * g \in Int /\ s * f \in Int
  OBVIOUS
<1>6. (-r) * g <= (-s) * f
  BY <1>4, <1>5
<1>7. Leq(u, v)
  BY <1>3, <1>6 DEF Leq
<1>8. Minus(a, x) = Plus(a, u) /\ Minus(b, y) = Plus(b, v)
  BY <1>1, <1>2, <1>3 DEF Minus
<1> QED
  BY <1>7, <1>8, PlusGrows

LEMMA TimesGrows ==
  ASSUME NEW k \in Fractions, k[1] >= 0, NEW a \in Fractions, NEW b \in Fractions, Leq(a, b)
  PROVE  /\ Times(k, a) \in Fractions /\ Times(k, b) \in Fractions
         /\ Leq(Times(k, a), Times(k, b))
<1>1. PICK p \in Int, d \in Nat \ {0} : a = <<p, d>>
  BY DEF Fractions
<1>2. PICK q \in Int, e \in Nat \ {0} : b = <<q, e>>
  BY DEF Fractions
<1>3. PICK r \in Nat, f \in Nat \ {0} : k = <<r, f>>
  BY DEF Fractions
<1>4. p * e <= q * d
  BY <1>1, <1>2 DEF Leq
<1>5. IsOver(Times(k, a), r * p, f * d) /\ IsOver(Times(k, b), r * q, f * e)
  BY <1>1, <1>2, <1>3, TimesIs
<1>6. (r * f) * (p * e) <= (r * f) * (q * d)
  <2>1. CASE r = 0
    BY <2>1
  <2>2. CASE r # 0
    <3>1. r * f \in Nat \ {0}
      BY <2>2, PositiveProduct
    <3> QED
      BY <1>4, <3>1, Scaled
  <2> QED
    BY <2>1, <2>2
<1>7. (r * p) * (f * e) = (r * f) * (p * e) /\ (r * q) * (f * d) = (r * f) * (q * d)
  OBVIOUS
<1>8. (r * p) * (f * e) <= (r * q) * (f * d)
  BY <1>6, <1>7
<1>9. Leq(Times(k, a), Times(k, b))
  BY <1>5, <1>8, LeqBy
<1> QED
  BY <1>5, <1>9 DEF IsOver

LEMMA LargerGrows ==
  ASSUME NEW k \in Fractions, NEW a \in Fractions, NEW b \in Fractions, Leq(a, b)
  PROVE  /\ Larger(k, a) \in Fractions /\ Larger(k, b) \in Fractions /\ Leq(Larger(k, a), Larger(k, b))
         /\ Smaller(k, a) \in Fractions /\ Smaller(k, b) \in Fractions
         /\ Leq(Smaller(k, a), Smaller(k, b))
<1>1. \A x \in Fractions : /\ Larger(k, x) = IF Leq(x, k) THEN k ELSE x
                           /\ Smaller(k, x) = IF ~Leq(k, x) THEN x ELSE k
  BY AtMostIs DEF Larger, Smaller
<1>2. Leq(a, k) \/ Leq(k, a)
  BY LeqTotal
<1>3. Leq(b, k) \/ Leq(k, b)
  BY LeqTotal
<1>4. Leq(k, k) /\ Leq(a, a) /\ Leq(b, b)
  BY LeqTotal
<1>5. /\ Leq(a, b) /\ Leq(b, k) => Leq(a, k)
      /\ Leq(k, a) /\ Leq(a, b) => Leq(k, b)
  BY LeqChain
<1> QED
  BY <1>1, <1>2, <1>3, <1>4, <1>5

Positive(x) == x \in Fractions /\ x[1] > 0
NotNegative(x) == x \in Fractions /\ x[1] >= 0

LEMMA OverIs ==
  ASSUME NEW a \in Fractions, NEW b, Positive(b)
  PROVE  /\ IsOver(Over(a, b), a[1] * b[2], a[2] * b[1])
         /\ Over(a, b)[1] > 0 <=> a[1] > 0
<1>1. PICK p \in Int, d \in Nat \ {0} : a = <<p, d>>
  BY DEF Fractions
<1>2. PICK q \in Nat \ {0}, e \in Nat \ {0} : b = <<q, e>>
  BY DEF Fractions, Positive
<1>3. PICK r \in Fractions : r = Ratio(e, q) /\ IsOver(r, e, q)
  BY RatioIs DEF IsOver
<1>4. PICK s \in Int, t \in Nat \ {0} : r = <<s, t>> /\ s * q = e * t
  BY <1>3 DEF Fractions, IsOver
<1>5. Over(a, b) = Times(a, r)
  BY <1>2, <1>3 DEF Over
<1>6. IsOver(Over(a, b), p * s, d * t)
  BY <1>1, <1>4, <1>5, TimesIs
<1>7. (p * s) * (d * q) = (p * d) * (s * q) /\ (p * d) * (e * t) = (p * e) * (d * t)
  OBVIOUS
<1>8. (p * s) * (d * q) = (p * e) * (d * t)
  BY <1>4, <1>7
<1>9. p * e \in Int /\ d * q \in Nat \ {0}
  BY PositiveProduct
<1>10. IsOver(Over(a, b), p * e, d * q)
  BY <1>6, <1>8, <1>9, SameOver
<1>11. Over(a, b)[1] > 0 <=> p * e > 0
  BY <1>10, SignBy
<1>12. p * e > 0 <=> p > 0
  <2>1. e * p <= e * 0 <=> p <= 0
    BY Scaled
  <2>2. e * p = p * e /\ e * 0 = 0 /\ p * e \in Int
    OBVIOUS
  <2> QED
    BY <2>1, <2>2
<1> QED
  BY <1>1, <1>2, <1>10, <1>11, <1>12

\* A price's distance from another, relative to it: one less the ratio of the two.
LEMMA RelativeIs ==
  ASSUME NEW p, Positive(p), NEW x \in Fractions
  PROVE  /\ Minus(p, x) \in Fractions
         /\ IsOver(Over(Minus(p, x), p), p[1] * x[2] - x[1] * p[2], x[2] * p[1])
         /\ Minus(x, p) \in Fractions
         /\ IsOver(Over(Minus(x, p), p), x[1] * p[2] - p[1] * x[2], x[2] * p[1])
<1>1. PICK q \in Nat \ {0}, e \in Nat \ {0} : p = <<q, e>>
  BY DEF Fractions, Positive
<1>2. PICK s \in Int, t \in Nat \ {0} : x = <<s, t>>
  BY DEF Fractions
<1>3. p \in Fractions
  BY DEF Positive
<1>4. t * q \in Nat \ {0} /\ e * t \in Nat \ {0} /\ t * e \in Nat \ {0} /\ q * t - s * e \in Int /\ s * e - q * t \in Int
  BY PositiveProduct
<1>5. ASSUME NEW m \in Fractions, NEW n \in Int, IsOver(m, n, e * t)
      PROVE  IsOver(Over(m, p), n, t * q)
  <2>1. PICK y \in Int, z \in Nat \ {0} : m = <<y, z>> /\ y * (e * t) = n * z
    BY <1>5 DEF Fractions, IsOver
  <2>2. IsOver(Over(m, p), y * e, z * q)
    BY <1>1, <2>1, OverIs
  <2>3. (y * e) * (t * q) = (y * (e * t)) * q /\ (n * z) * q = n * (z * q)
    OBVIOUS
  <2>4. (y * e) * (t * q) = n * (z * q)
    BY <2>1, <2>3
  <2> QED
    BY <1>4, <2>2, <2>4, SameOver
<1>6. IsOver(Minus(p, x), q * t - s * e, e * t) /\ Minus(p, x) \in Fractions
  BY <1>1, <1>2, <1>3, MinusIs DEF IsOver
<1>7. IsOver(Minus(x, p), s * e - q * t, e * t) /\ Minus(x, p) \in Fractions
  <2>1. t * e = e * t
    OBVIOUS
  <2> QED
    BY <1>1, <1>2, <1>3, <2>1, MinusIs DEF IsOver
<1>8. IsOver(Over(Minus(p, x), p), q * t - s * e, t * q)
  BY <1>4, <1>5, <1>6
<1>9. IsOver(Over(Minus(x, p), p), s * e - q * t, t * q)
  BY <1>4, <1>5, <1>7
<1> QED
  BY <1>1, <1>2, <1>6, <1>7, <1>8, <1>9

\* A higher price is further above another and less below it.
LEMMA RelativeGrows ==
  ASSUME NEW p, Positive(p), NEW q, Positive(q), Leq(q, p), NEW x, NotNegative(x)
  PROVE  /\ Leq(Over(Minus(q, x), q), Over(Minus(p, x), p))
         /\ Leq(Over(Minus(x, p), p), Over(Minus(x, q), q))
<1>1. PICK a \in Nat \ {0}, d \in Nat \ {0} : p = <<a, d>>
  BY DEF Fractions, Positive
<1>2. PICK b \in Nat \ {0}, e \in Nat \ {0} : q = <<b, e>>
  BY DEF Fractions, Positive
<1>3. PICK s \in Nat, t \in Nat \ {0} : x = <<s, t>>
  BY DEF Fractions, NotNegative
<1>4. b * d <= a * e /\ x \in Fractions
  BY <1>1, <1>2 DEF Leq, NotNegative
<1>5. /\ IsOver(Over(Minus(p, x), p), a * t - s * d, t * a)
      /\ IsOver(Over(Minus(q, x), q), b * t - s * e, t * b)
      /\ IsOver(Over(Minus(x, p), p), s * d - a * t, t * a)
      /\ IsOver(Over(Minus(x, q), q), s * e - b * t, t * b)
  BY <1>1, <1>2, <1>3, <1>4, RelativeIs
<1>6. (s * t) * (b * d) <= (s * t) * (a * e)
  <2>1. CASE s = 0
    BY <2>1
  <2>2. CASE s # 0
    <3>1. s * t \in Nat \ {0}
      BY <2>2, PositiveProduct
    <3> QED
      BY <1>4, <3>1, Scaled
  <2> QED
    BY <2>1, <2>2
<1>7. PICK u \in Int, v \in Int, w \in Int :
        u = (s * t) * (b * d) /\ v = (s * t) * (a * e) /\ w = (t * t) * (a * b)
  OBVIOUS
<1>8. /\ (b * t - s * e) * (t * a) = w - v
      /\ (a * t - s * d) * (t * b) = w - u
      /\ (s * d - a * t) * (t * b) = u - w
      /\ (s * e - b * t) * (t * a) = v - w
  <2>1. /\ (b * t - s * e) * (t * a) = (t * t) * (a * b) - (s * t) * (a * e)
        /\ (a * t - s * d) * (t * b) = (t * t) * (a * b) - (s * t) * (b * d)
    OBVIOUS
  <2>2. /\ (s * d - a * t) * (t * b) = (s * t) * (b * d) - (t * t) * (a * b)
        /\ (s * e - b * t) * (t * a) = (s * t) * (a * e) - (t * t) * (a * b)
    OBVIOUS
  <2> QED
    BY <1>7, <2>1, <2>2
<1>9. u <= v
  BY <1>6, <1>7
<1>10. /\ (b * t - s * e) * (t * a) <= (a * t - s * d) * (t * b)
       /\ (s * d - a * t) * (t * b) <= (s * e - b * t) * (t * a)
  BY <1>8, <1>9
<1>11. Leq(Over(Minus(q, x), q), Over(Minus(p, x), p))
  BY <1>5, <1>10, LeqBy
<1>12. Leq(Over(Minus(x, p), p), Over(Minus(x, q), q))
  BY <1>5, <1>10, LeqBy
<1> QED
  BY <1>11, <1>12

Gain(k, through, price) == IF IsPositive(through) THEN Times(k, Over(through, price)) ELSE Zero

LEMMA GainGrows ==
  ASSUME NEW k, NotNegative(k), NEW p, Positive(p), NEW q, Positive(q),
         NEW x \in Fractions, NEW y \in Fractions, Leq(Over(x, p), Over(y, q))
  PROVE  /\ Gain(k, x, p) \in Fractions /\ Gain(k, y, q) \in Fractions
         /\ Leq(Gain(k, x, p), Gain(k, y, q))
<1>1. PICK u \in Fractions, v \in Fractions :
        /\ u = Over(x, p) /\ v = Over(y, q)
        /\ u[1] > 0 <=> x[1] > 0
        /\ v[1] > 0 <=> y[1] > 0
  BY OverIs DEF IsOver
<1>2. Leq(u, v) /\ k \in Fractions /\ k[1] >= 0
  BY <1>1 DEF NotNegative
<1>3. /\ Gain(k, x, p) = IF u[1] > 0 THEN Times(k, u) ELSE Zero
      /\ Gain(k, y, q) = IF v[1] > 0 THEN Times(k, v) ELSE Zero
  BY <1>1 DEF Gain, IsPositive
<1>4. Zero \in Fractions /\ Leq(Zero, Zero)
  BY DEF Zero, Q, Fractions, Leq
<1>5. Times(k, u) \in Fractions /\ Times(k, v) \in Fractions /\ Leq(Times(k, u), Times(k, v))
  BY <1>2, TimesGrows
<1>6. u[1] > 0 => v[1] > 0
  <2>1. PICK a \in Int, d \in Nat \ {0}, b \in Int, e \in Nat \ {0} : u = <<a, d>> /\ v = <<b, e>>
    BY DEF Fractions
  <2> SUFFICES ASSUME a > 0 PROVE b > 0
    BY <2>1
  <2>2. a * e <= b * d
    BY <1>2, <2>1 DEF Leq
  <2>3. a * e \in Nat \ {0}
    BY PositiveProduct
  <2>4. d * b <= d * 0 <=> b <= 0
    BY Scaled
  <2>5. d * b = b * d /\ d * 0 = 0 /\ b * d \in Int
    OBVIOUS
  <2> QED
    BY <2>2, <2>3, <2>4, <2>5
<1>7. v[1] > 0 => Leq(Zero, Times(k, v))
  <2> SUFFICES ASSUME v[1] > 0 PROVE Leq(Zero, Times(k, v))
    OBVIOUS
  <2>1. Leq(Zero, v)
    BY DEF Leq, Zero, Q, Fractions
  <2>2. Leq(Times(k, Zero), Times(k, v)) /\ Times(k, Zero) \in Fractions
    BY <1>2, <1>4, <2>1, TimesGrows
  <2>3. Leq(Zero, Times(k, Zero))
    <3>1. PICK r \in Nat, f \in Nat \ {0} : k = <<r, f>>
      BY <1>2 DEF Fractions
    <3>2. Zero[1] = 0 /\ Zero[2] = 1
      BY DEF Zero, Q
    <3>3. IsOver(Times(k, Zero), r * 0, f * 1)
      BY <1>2, <1>4, <3>1, <3>2, TimesIs
    <3>4. ~(Times(k, Zero)[1] < 0)
      <4>1. r * 0 = 0
        OBVIOUS
      <4> QED
        BY <3>3, <4>1, SignBy
    <3> QED
      BY <2>2, <3>2, <3>4 DEF Leq, Fractions
  <2> QED
    BY <1>4, <1>5, <2>2, <2>3, LeqChain
<1> QED
  BY <1>3, <1>4, <1>5, <1>6, <1>7

-----------------------------------------------------------------------------
(* The queue of resting orders.                                              *)

Rates(c) == /\ NotNegative(c.baseFillRate) /\ NotNegative(c.adverseSelectionFactor)
            /\ NotNegative(c.sizePenalty) /\ NotNegative(c.queueDecayRate)
Entry(e) == /\ Positive(e.price) /\ e.size \in Fractions /\ e.enqueuedAt \in Int
            /\ e.isBuy \in BOOLEAN /\ e.queuePosition = Q(1)

LEMMA NumberIs ==
  ASSUME NEW n \in Int
  PROVE  Q(n) \in Fractions /\ Q(n)[1] = n /\ Q(n)[2] = 1
BY DEF Q, Fractions

\* An order that waits longer, is smaller, or is priced more generously is at least as likely
\* to fill (queue-model.ts), for any rates, orders, quotes and time.
THEOREM QueueKeepsFair ==
  ASSUME NEW c, Rates(c), NEW a, Entry(a), NEW b, Entry(b), NEW bid, NotNegative(bid),
         NEW ask, NotNegative(ask), NEW now \in Int
  PROVE  QueueIsFair(c, a, b, bid, ask, now)
<1> SUFFICES ASSUME a.isBuy = b.isBuy, a.enqueuedAt <= b.enqueuedAt, AtMost(a.size, b.size),
                    IF a.isBuy THEN AtMost(b.price, a.price) ELSE AtMost(a.price, b.price)
             PROVE  AtMost(fillProbability(c, b, bid, ask, now), fillProbability(c, a, bid, ask, now))
  BY DEF QueueIsFair
<1>1. /\ a.price \in Fractions /\ b.price \in Fractions /\ a.size \in Fractions /\ b.size \in Fractions
      /\ bid \in Fractions /\ ask \in Fractions
      /\ a.enqueuedAt \in Int /\ b.enqueuedAt \in Int /\ a.queuePosition = Q(1) /\ b.queuePosition = Q(1)
  BY DEF Entry, Positive, NotNegative
<1>2. Leq(a.size, b.size) /\ IF a.isBuy THEN Leq(b.price, a.price) ELSE Leq(a.price, b.price)
  BY <1>1, AtMostIs
<1>3. /\ c.baseFillRate \in Fractions /\ c.baseFillRate[1] >= 0
      /\ c.sizePenalty \in Fractions /\ c.sizePenalty[1] >= 0
      /\ c.queueDecayRate \in Fractions /\ c.queueDecayRate[1] >= 0
  BY DEF Rates, NotNegative
<1>4. Zero \in Fractions /\ Q(1) \in Fractions /\ Leq(Q(1), Q(1))
  BY NumberIs, LeqTotal DEF Zero
<1>5. PICK agedA \in Fractions, agedB \in Fractions :
        agedA = Q(now - a.enqueuedAt) /\ agedB = Q(now - b.enqueuedAt) /\ Leq(agedB, agedA)
  <2>1. now - a.enqueuedAt \in Int /\ now - b.enqueuedAt \in Int
        /\ now - b.enqueuedAt <= now - a.enqueuedAt
    BY <1>1
  <2> QED
    BY <2>1, NumberIs DEF Leq
<1>6. PICK decayA \in Fractions, decayB \in Fractions :
        /\ decayA = Times(c.queueDecayRate, agedA) /\ decayB = Times(c.queueDecayRate, agedB)
        /\ Leq(decayB, decayA)
  BY <1>3, <1>5, TimesGrows
<1>7. PICK restA \in Fractions, restB \in Fractions :
        restA = Minus(Q(1), decayA) /\ restB = Minus(Q(1), decayB) /\ Leq(restA, restB)
  BY <1>4, <1>6, MinusGrows
<1>8. PICK positionA \in Fractions, positionB \in Fractions :
        /\ positionA = Larger(Zero, restA) /\ positionB = Larger(Zero, restB)
        /\ Leq(positionA, positionB)
  BY <1>4, <1>7, LargerGrows
<1>9. PICK wentA \in Fractions, wentB \in Fractions :
        wentA = Minus(Q(1), positionA) /\ wentB = Minus(Q(1), positionB) /\ Leq(wentB, wentA)
  BY <1>4, <1>8, MinusGrows
<1>10. PICK baseA \in Fractions, baseB \in Fractions :
         /\ baseA = Times(c.baseFillRate, wentA) /\ baseB = Times(c.baseFillRate, wentB)
         /\ Leq(baseB, baseA)
  BY <1>3, <1>9, TimesGrows
<1>11. PICK bonusA \in Fractions, bonusB \in Fractions :
         /\ bonusA = computeAdverseBonus(c, a, bid, ask)
         /\ bonusB = computeAdverseBonus(c, b, bid, ask)
         /\ Leq(bonusB, bonusA)
  <2>1. Positive(a.price) /\ Positive(b.price) /\ NotNegative(c.adverseSelectionFactor)
    BY DEF Entry, Rates
  <2>2. /\ Minus(a.price, ask) \in Fractions /\ Minus(b.price, ask) \in Fractions
        /\ Minus(bid, a.price) \in Fractions /\ Minus(bid, b.price) \in Fractions
    BY <1>1, <2>1, RelativeIs
  <2>3. CASE a.isBuy
    <3>1. Leq(Over(Minus(b.price, ask), b.price), Over(Minus(a.price, ask), a.price))
      BY <1>2, <2>1, <2>3, RelativeGrows
    <3>2. /\ computeAdverseBonus(c, a, bid, ask) = Gain(c.adverseSelectionFactor, Minus(a.price, ask), a.price)
          /\ computeAdverseBonus(c, b, bid, ask) = Gain(c.adverseSelectionFactor, Minus(b.price, ask), b.price)
      BY <2>3 DEF computeAdverseBonus, Gain
    <3> QED
      BY <2>1, <2>2, <3>1, <3>2, GainGrows
  <2>4. CASE ~a.isBuy
    <3>1. Leq(Over(Minus(bid, b.price), b.price), Over(Minus(bid, a.price), a.price))
      BY <1>2, <2>1, <2>4, RelativeGrows
    <3>2. /\ computeAdverseBonus(c, a, bid, ask) = Gain(c.adverseSelectionFactor, Minus(bid, a.price), a.price)
          /\ computeAdverseBonus(c, b, bid, ask) = Gain(c.adverseSelectionFactor, Minus(bid, b.price), b.price)
      BY <2>4 DEF computeAdverseBonus, Gain
    <3> QED
      BY <2>1, <2>2, <3>1, <3>2, GainGrows
  <2> QED
    BY <2>3, <2>4
<1>12. PICK excessA \in Fractions, excessB \in Fractions :
         excessA = Minus(a.size, Q(1)) /\ excessB = Minus(b.size, Q(1)) /\ Leq(excessA, excessB)
  BY <1>1, <1>2, <1>4, MinusGrows
<1>13. PICK costA \in Fractions, costB \in Fractions :
         /\ costA = Times(c.sizePenalty, excessA) /\ costB = Times(c.sizePenalty, excessB)
         /\ Leq(costA, costB)
  BY <1>3, <1>12, TimesGrows
<1>14. PICK penaltyA \in Fractions, penaltyB \in Fractions :
         /\ penaltyA = computeSizePenalty(c, a.size) /\ penaltyB = computeSizePenalty(c, b.size)
         /\ Leq(penaltyA, penaltyB)
  BY <1>4, <1>12, <1>13, LargerGrows DEF computeSizePenalty
<1>15. PICK sumA \in Fractions, sumB \in Fractions :
         sumA = Plus(baseA, bonusA) /\ sumB = Plus(baseB, bonusB) /\ Leq(sumB, sumA)
  BY <1>10, <1>11, PlusGrows
<1>16. PICK chanceA \in Fractions, chanceB \in Fractions :
         chanceA = Minus(sumA, penaltyA) /\ chanceB = Minus(sumB, penaltyB) /\ Leq(chanceB, chanceA)
  BY <1>14, <1>15, MinusGrows
<1>17. PICK cappedA \in Fractions, cappedB \in Fractions :
         /\ cappedA = Smaller(Q(1), chanceA) /\ cappedB = Smaller(Q(1), chanceB)
         /\ Leq(cappedB, cappedA)
  BY <1>4, <1>16, LargerGrows
<1>18. PICK resultA \in Fractions, resultB \in Fractions :
         /\ resultA = Larger(Zero, cappedA) /\ resultB = Larger(Zero, cappedB)
         /\ Leq(resultB, resultA)
  BY <1>4, <1>17, LargerGrows
<1>19. resultA = fillProbability(c, a, bid, ask, now)
  BY <1>1, <1>5, <1>6, <1>7, <1>8, <1>9, <1>10, <1>11, <1>14, <1>15, <1>16, <1>17, <1>18
     DEF fillProbability
<1>20. resultB = fillProbability(c, b, bid, ask, now)
  BY <1>1, <1>5, <1>6, <1>7, <1>8, <1>9, <1>10, <1>11, <1>14, <1>15, <1>16, <1>17, <1>18
     DEF fillProbability
<1> QED
  BY <1>18, <1>19, <1>20, AtMostIs

LEMMA NumberNotNegative ==
  ASSUME NEW n \in Nat
  PROVE  NotNegative(Q(n)) /\ (n # 0 => Positive(Q(n)))
BY NumberIs DEF NotNegative, Positive

LEMMA RatioPositive ==
  ASSUME NEW n \in Nat \ {0}, NEW d \in Nat \ {0}
  PROVE  Positive(Ratio(n, d)) /\ NotNegative(Ratio(n, d))
<1>1. IsOver(Ratio(n, d), n, d)
  BY RatioIs
<1>2. Ratio(n, d)[1] > 0 /\ Ratio(n, d) \in Fractions
  BY <1>1, SignBy DEF IsOver
<1> QED
  BY <1>2 DEF Positive, NotNegative, Fractions

LEMMA QueuesAgree == AskedInv => QueuesFair
<1> SUFFICES ASSUME AskedInv, Is("queue")
             PROVE  QueueIsFair(QueueConfig, asked.a, asked.b, asked.bid,
                                Plus(asked.bid, asked.spread), asked.now)
  BY DEF QueuesFair
<1>1. asked \in Queues
  BY DEF AskedInv, Is, Quotes, Portfolios, Diffs, Rotations, Oracles, Queues
<1>2. Rates(QueueConfig)
  <2>1. /\ NotNegative(Ratio(3, 10)) /\ NotNegative(Ratio(1, 2)) /\ NotNegative(Ratio(1, 4))
        /\ NotNegative(Q(2))
    BY RatioPositive, NumberNotNegative
  <2> QED
    BY <2>1 DEF Rates, QueueConfig
<1>3. ASSUME NEW e \in Resting PROVE Entry(e)
  <2>1. PICK price \in {4, 5}, size \in {Ratio(1, 2), Q(1), Ratio(3, 2)}, isBuy \in BOOLEAN, at \in {0, 3} :
          e = enqueue(Q(price), size, isBuy, at)
    BY <1>3 DEF Resting
  <2>2. Positive(Q(price))
    BY NumberNotNegative
  <2>3. size \in Fractions
    BY RatioPositive, NumberIs DEF Positive
  <2>4. /\ e.price = Q(price) /\ e.size = size /\ e.isBuy = isBuy /\ e.enqueuedAt = at
        /\ e.queuePosition = Q(1)
    BY <2>1 DEF enqueue
  <2> QED
    BY <2>2, <2>3, <2>4 DEF Entry
<1>4. asked.a \in Resting /\ asked.b \in Resting /\ asked.now \in Int
      /\ asked.bid \in {Q(3), Q(5), Q(6)} /\ asked.spread \in {Q(0), Q(1)}
  BY <1>1 DEF Queues
<1>5. NotNegative(asked.bid) /\ NotNegative(asked.spread)
  BY <1>4, NumberNotNegative
<1>6. NotNegative(Plus(asked.bid, asked.spread))
  <2>1. PICK b \in Fractions, s \in Fractions : b = asked.bid /\ s = asked.spread
    BY <1>5 DEF NotNegative
  <2>2. PICK p \in Nat, d \in Nat \ {0}, q \in Nat, e \in Nat \ {0} : b = <<p, d>> /\ s = <<q, e>>
    BY <1>5, <2>1 DEF NotNegative, Fractions
  <2>3. IsOver(Plus(b, s), p * e + q * d, d * e)
    BY <2>2, PlusIs
  <2>4. PICK n \in Nat : n = p * e + q * d
    OBVIOUS
  <2>5. ~(Plus(b, s)[1] < 0) /\ Plus(b, s) \in Fractions
    <3>1. IsOver(Plus(b, s), n, d * e)
      BY <2>3, <2>4
    <3>2. Plus(b, s)[1] < 0 <=> n < 0
      BY <3>1, SignBy
    <3> QED
      BY <3>1, <3>2 DEF IsOver
  <2> QED
    BY <2>1, <2>5 DEF NotNegative, Fractions
<1> QED
  BY <1>2, <1>3, <1>4, <1>5, <1>6, QueueKeepsFair

\* ChoicesConsistent, of everything asked.
THEOREM ChoicesAlwaysConsistent == Spec => []ChoicesConsistent
<1>1. AskedInv => ChoicesConsistent
  BY DifferencesAgree, RotationsAgree, EdgesAgree, QueuesAgree DEF ChoicesConsistent
<1> QED
  BY <1>1, AskedStays, PTL

-----------------------------------------------------------------------------
(* The numbers of the indicators: exact fractions, of which equal ones that   *)
(* are sums are the same.                                                  *)

\* A common factor of two numbers is one of their greatest common divisor.
LEMMA RestScales ==
  ASSUME NEW k \in Nat \ {0}, NEW a \in Nat, NEW b \in Nat \ {0}
  PROVE  (k * a) % (k * b) = k * (a % b)
<1>1. PICK q \in Nat, r \in Nat : q = a \div b /\ r = a % b /\ r < b /\ a = b * q + r
  <2>1. a \div b \in Nat /\ a % b \in 0..(b - 1)
    OBVIOUS
  <2>2. a = b * (a \div b) + (a % b)
    OBVIOUS
  <2> QED
    BY <2>1, <2>2
<1>2. PICK m \in Nat \ {0}, s \in Nat : m = k * b /\ s = k * r /\ s < m
  <2>1. k * b \in Nat \ {0}
    BY PositiveProduct
  <2>2. ~(k * b <= k * r)
    BY <1>1, Scaled
  <2>3. k * r \in Nat
    OBVIOUS
  <2> QED
    BY <2>1, <2>2, <2>3
<1>3. PICK t \in Nat : t = k * a
  OBVIOUS
<1>4. t = m * q + s
  <2>1. k * (b * q + r) = (k * b) * q + k * r
    OBVIOUS
  <2> QED
    BY <1>1, <1>2, <1>3, <2>1
<1>5. PICK u \in Nat, v \in Nat : u = t \div m /\ v = t % m /\ v < m /\ t = m * u + v
  <2>1. t \div m \in Nat /\ t % m \in 0..(m - 1)
    OBVIOUS
  <2>2. t = m * (t \div m) + (t % m)
    OBVIOUS
  <2> QED
    BY <2>1, <2>2
<1>6. ~(u < q)
  <2> SUFFICES ASSUME u < q PROVE FALSE
    OBVIOUS
  <2>1. u + 1 <= q /\ u + 1 \in Nat
    OBVIOUS
  <2>2. m * (u + 1) <= m * q
    BY <2>1, Scaled
  <2>3. m * (u + 1) = m * u + m /\ m * u \in Nat /\ m * q \in Nat
    OBVIOUS
  <2> QED
    BY <1>4, <1>5, <2>2, <2>3
<1>7. ~(q < u)
  <2> SUFFICES ASSUME q < u PROVE FALSE
    OBVIOUS
  <2>1. q + 1 <= u /\ q + 1 \in Nat
    OBVIOUS
  <2>2. m * (q + 1) <= m * u
    BY <2>1, Scaled
  <2>3. m * (q + 1) = m * q + m /\ m * u \in Nat /\ m * q \in Nat
    OBVIOUS
  <2> QED
    BY <1>2, <1>4, <1>5, <2>2, <2>3
<1>8. u = q
  BY <1>6, <1>7
<1>9. v = s
  <2>1. m * q \in Nat
    OBVIOUS
  <2> QED
    BY <1>4, <1>5, <1>8, <2>1
<1> QED
  BY <1>1, <1>2, <1>3, <1>5, <1>9

LEMMA GcdScales ==
  ASSUME NEW k \in Nat \ {0}, NEW a \in Nat, NEW b \in Nat
  PROVE  gcd[k * b][k * a] = k * gcd[b][a]
<1> DEFINE Scales(c) == \A x \in Nat : gcd[k * c][k * x] = k * gcd[c][x]
           K == {n \in Nat : \A c \in 0..n : Scales(c)}
<1>1. Scales(0)
  <2>1. ASSUME NEW x \in Nat PROVE gcd[k * 0][k * x] = k * gcd[0][x]
    <3>1. k * 0 = 0 /\ k * x \in Nat
      OBVIOUS
    <3>2. gcd[0][x] = x /\ gcd[0][k * x] = k * x
      BY <3>1, EuclidWorks DEF Euclid
    <3> QED
      BY <3>1, <3>2
  <2> QED
    BY <2>1
<1>2. ASSUME NEW n \in Nat, n \in K PROVE Scales(n + 1)
  <2>1. ASSUME NEW x \in Nat PROVE gcd[k * (n + 1)][k * x] = k * gcd[n + 1][x]
    <3>1. n + 1 \in Nat \ {0} /\ k * (n + 1) \in Nat \ {0} /\ k * x \in Nat
      BY PositiveProduct
    <3>2. PICK c \in Nat \ {0} : c = n + 1
      BY <3>1
    <3>3. x % c \in Nat /\ x % c \in 0..n
      <4>1. x % c \in 0..(c - 1)
        OBVIOUS
      <4> QED
        BY <3>2, <4>1
    <3>4. (k * x) % (k * c) = k * (x % c)
      BY RestScales
    <3>5. gcd[c][x] = gcd[x % c][c]
      BY EuclidWorks DEF Euclid
    <3>6. gcd[k * c][k * x] = gcd[(k * x) % (k * c)][k * c]
      BY <3>1, <3>2, EuclidWorks DEF Euclid
    <3>7. Scales(x % c)
      BY <1>2, <3>3
    <3>8. gcd[k * (x % c)][k * c] = k * gcd[x % c][c]
      BY <3>7
    <3> QED
      BY <3>2, <3>4, <3>5, <3>6, <3>8
  <2> QED
    BY <2>1
<1> HIDE DEF Scales
<1>3. 0 \in K
  BY <1>1
<1>4. ASSUME NEW n \in Nat, n \in K PROVE n + 1 \in K
  <2>1. Scales(n + 1)
    BY <1>2, <1>4
  <2>2. \A c \in 0..(n + 1) : c \in 0..n \/ c = n + 1
    OBVIOUS
  <2> QED
    BY <1>4, <2>1, <2>2
<1>5. \A n \in Nat : n \in K
  <2> HIDE DEF K
  <2> QED
    BY <1>3, <1>4, AllNumbers
<1>6. Scales(b)
  BY <1>5
<1> QED
  BY <1>6 DEF Scales

\* Equal numbers have the same lowest terms.
LEMMA LowestTerms ==
  ASSUME NEW n \in Int, NEW d \in Nat \ {0}, NEW m \in Int, NEW e \in Nat \ {0}, n * e = m * d
  PROVE  Ratio(n, d) = Ratio(m, e)
<1>1. PICK g \in Nat \ {0}, x \in Int, y \in Nat \ {0} :
        g = gcd[d][Magnitude(n)] /\ n = g * x /\ d = g * y /\ Ratio(n, d) = <<x, y>>
  BY RatioParts
<1>2. PICK h \in Nat \ {0}, z \in Int, w \in Nat \ {0} :
        h = gcd[e][Magnitude(m)] /\ m = h * z /\ e = h * w /\ Ratio(m, e) = <<z, w>>
  BY RatioParts
<1>3. Magnitude(n) \in Nat /\ Magnitude(m) \in Nat
  BY DEF Magnitude
<1>4. ASSUME NEW c \in Nat \ {0}, NEW v \in Int
      PROVE  c * Magnitude(v) = Magnitude(c * v) /\ Magnitude(v * c) = Magnitude(c * v)
  <2>1. c * (-v) = -(c * v) /\ c * v = v * c /\ c * v \in Int
    OBVIOUS
  <2>2. c * 0 <= c * v <=> 0 <= v
    BY Scaled
  <2>3. c * v < 0 <=> v < 0
    BY <2>1, <2>2
  <2> QED
    BY <2>1, <2>3 DEF Magnitude
<1>5. e * Magnitude(n) = d * Magnitude(m)
  <2>1. e * n = d * m
    BY <1>1, <1>2
  <2>2. e * Magnitude(n) = Magnitude(e * n) /\ d * Magnitude(m) = Magnitude(d * m)
    BY <1>4
  <2> QED
    BY <2>1, <2>2
<1>6. e * d = d * e
  OBVIOUS
<1>7. gcd[e * d][e * Magnitude(n)] = e * g /\ gcd[d * e][d * Magnitude(m)] = d * h
  <2>1. PICK u \in Nat, v \in Nat : u = Magnitude(n) /\ v = Magnitude(m)
    BY <1>3
  <2>2. gcd[e * d][e * u] = e * gcd[d][u]
    BY GcdScales
  <2>3. gcd[d * e][d * v] = d * gcd[e][v]
    BY GcdScales
  <2> QED
    BY <1>1, <1>2, <2>1, <2>2, <2>3
<1>8. e * g = d * h
  BY <1>5, <1>6, <1>7
<1>9. PICK f \in Nat \ {0} : f = g * h
  BY PositiveProduct
<1>10. w = y
  <2>1. (h * w) * g = (g * h) * w /\ (g * y) * h = (g * h) * y
    OBVIOUS
  <2>2. f * w = f * y
    BY <1>1, <1>2, <1>8, <1>9, <2>1
  <2>3. f * w <= f * y /\ f * y <= f * w
    BY <2>2
  <2>4. w <= y /\ y <= w
    BY <2>3, Scaled
  <2> QED
    BY <2>4
<1>11. x = z
  <2>1. (g * x) * (h * w) = (g * h) * (w * x) /\ (h * z) * (g * w) = (g * h) * (w * z)
    OBVIOUS
  <2>2. f * (w * x) = f * (w * z)
    BY <1>1, <1>2, <1>9, <1>10, <2>1
  <2>3. f * (w * x) <= f * (w * z) /\ f * (w * z) <= f * (w * x) /\ w * x \in Int /\ w * z \in Int
    BY <2>2
  <2>4. w * x <= w * z /\ w * z <= w * x
    BY <2>3, Scaled
  <2>5. x <= z /\ z <= x
    BY <2>4, Scaled
  <2> QED
    BY <2>5
<1> QED
  BY <1>1, <1>2, <1>10, <1>11

\* The numbers that arise: only 0 is a fraction of 0.  Ratios are in lowest terms, too.
Exact == {x \in Fractions : x[1] = 0 => x = Zero}
Reduced == {Ratio(n, d) : n \in Int, d \in Nat \ {0}}
Span(low, high) == {x \in Exact : Leq(Q(low), x) /\ Leq(x, Q(high))}

LEMMA UnitRatio ==
  ASSUME NEW n \in Int
  PROVE  Ratio(n, 1) = Q(n)
<1>1. PICK g \in Nat \ {0}, x \in Int, y \in Nat \ {0} :
        g = gcd[1][Magnitude(n)] /\ n = g * x /\ 1 = g * y /\ Ratio(n, 1) = <<x, y>>
  <2>1. 1 \in Nat \ {0}
    OBVIOUS
  <2> QED
    BY <2>1, RatioParts
<1>2. Divides(g, 1)
  BY <1>1 DEF Divides
<1>3. g = 1
  BY <1>2, DivisorAtMost
<1> QED
  BY <1>1, <1>3 DEF Q

LEMMA ZeroRatio ==
  ASSUME NEW d \in Nat \ {0}
  PROVE  Ratio(0, d) = Zero
<1>1. 0 * 1 = 0 * d
  OBVIOUS
<1>2. Ratio(0, d) = Ratio(0, 1)
  BY <1>1, LowestTerms
<1> QED
  BY <1>2, UnitRatio DEF Zero

LEMMA ReducedNumbers ==
  ASSUME NEW a \in Reduced
  PROVE  a \in Exact /\ a \in Fractions
<1>1. PICK n \in Int, d \in Nat \ {0} : a = Ratio(n, d)
  BY DEF Reduced
<1>2. IsOver(a, n, d)
  BY <1>1, RatioIs
<1>3. ASSUME a[1] = 0 PROVE a = Zero
  <2>1. n \in Int /\ (a[1] < 0 <=> n < 0) /\ (a[1] > 0 <=> n > 0)
    BY <1>2, SignBy
  <2>2. n = 0
    BY <1>3, <2>1
  <2> QED
    BY <1>1, <2>2, ZeroRatio
<1> QED
  BY <1>2, <1>3 DEF Exact, IsOver

LEMMA NumberReduced ==
  ASSUME NEW n \in Int
  PROVE  Q(n) \in Reduced /\ Q(n) \in Exact /\ Q(n) \in Fractions
<1>1. Ratio(n, 1) \in Reduced
  BY DEF Reduced
<1> QED
  BY <1>1, UnitRatio, ReducedNumbers

\* In lowest terms equal numbers are the same.
LEMMA ReducedEqual ==
  ASSUME NEW a \in Reduced, NEW b \in Reduced, Leq(a, b), Leq(b, a)
  PROVE  a = b
<1>1. PICK n \in Int, d \in Nat \ {0} : a = Ratio(n, d)
  BY DEF Reduced
<1>2. PICK m \in Int, e \in Nat \ {0} : b = Ratio(m, e)
  BY DEF Reduced
<1>3. IsOver(a, n, d) /\ IsOver(b, m, e)
  BY <1>1, <1>2, RatioIs
<1>4. n * e <= m * d /\ m * d <= n * e
  BY <1>3, LeqBy
<1>5. n * e = m * d
  <2>1. n * e \in Int /\ m * d \in Int
    OBVIOUS
  <2> QED
    BY <1>4, <2>1
<1> QED
  BY <1>1, <1>2, <1>5, LowestTerms

LEMMA SumsReduced ==
  ASSUME NEW a \in Fractions, NEW b \in Fractions
  PROVE  /\ Plus(a, b) \in Reduced /\ Plus(a, b) \in Exact /\ Plus(a, b) \in Fractions
         /\ Minus(a, b) \in Reduced /\ Minus(a, b) \in Exact /\ Minus(a, b) \in Fractions
<1>1. ASSUME NEW x \in Fractions, NEW y \in Fractions PROVE Plus(x, y) \in Reduced
  <2>1. PICK p \in Int, d \in Nat \ {0} : x = <<p, d>>
    BY DEF Fractions
  <2>2. PICK q \in Int, e \in Nat \ {0} : y = <<q, e>>
    BY DEF Fractions
  <2>3. PICK g \in Nat \ {0} : g = gcd[d][e] /\ Divides(g, e) /\ Divides(g, d)
    BY GcdDivides
  <2>4. PICK u \in Nat, v \in Nat : d = g * u /\ e = g * v
    BY <2>3 DEF Divides
  <2>5. u # 0 /\ v # 0
    BY <2>4
  <2>6. d \div g = u /\ e \div g = v
    BY <2>4, QuotientOfProduct
  <2>7. Plus(x, y) = Ratio(p * v + q * u, d * v)
    BY <2>1, <2>2, <2>3, <2>6 DEF Plus, PlusBy
  <2>8. d * v \in Nat \ {0} /\ p * v + q * u \in Int
    BY <2>5, PositiveProduct
  <2> QED
    BY <2>7, <2>8 DEF Reduced
<1>2. PICK c \in Fractions : c = <<-b[1], b[2]>>
  <2>1. PICK q \in Int, e \in Nat \ {0} : b = <<q, e>>
    BY DEF Fractions
  <2>2. -q \in Int
    OBVIOUS
  <2>3. <<-q, e>> \in Fractions
    BY <2>2 DEF Fractions
  <2> QED
    BY <2>1, <2>3
<1>3. Minus(a, b) = Plus(a, c)
  BY <1>2 DEF Minus
<1>4. Plus(a, b) \in Reduced /\ Minus(a, b) \in Reduced
  BY <1>1, <1>3
<1> QED
  BY <1>4, ReducedNumbers

LEMMA ProductsNumbers ==
  ASSUME NEW a \in Exact, NEW b \in Exact
  PROVE  /\ Times(a, b) \in Exact
         /\ Positive(b) => Over(a, b) \in Exact
<1>1. ASSUME NEW x \in Exact, NEW y \in Exact PROVE Times(x, y) \in Exact
  <2>1. PICK p \in Int, d \in Nat \ {0} : x = <<p, d>>
    BY DEF Fractions, Exact
  <2>2. PICK q \in Int, e \in Nat \ {0} : y = <<q, e>>
    BY DEF Fractions, Exact
  <2>3. IsOver(Times(x, y), p * q, d * e)
    BY <2>1, <2>2, TimesIs DEF Exact
  <2>4. Times(x, y) = Crossed(Ratio(p, e), Ratio(q, d))
    BY <2>1, <2>2 DEF Times
  <2>5. ASSUME Times(x, y)[1] = 0 PROVE Times(x, y) = Zero
    <3>1. p * q = 0
      <4>1. p * q \in Int
        OBVIOUS
      <4> QED
        BY <2>3, <2>5, <4>1, SignBy
    <3>2. p = 0 \/ q = 0
      BY <3>1
    <3>3. CASE p = 0
      <4>1. d = 1
        BY <2>1, <3>3 DEF Exact, Zero, Q
      <4>2. Ratio(p, e) = <<0, 1>> /\ Ratio(q, d) = <<q, 1>>
        BY <3>3, <4>1, ZeroRatio, UnitRatio DEF Zero, Q
      <4> QED
        BY <2>4, <4>2 DEF Crossed, Zero, Q
    <3>4. CASE q = 0
      <4>1. e = 1
        BY <2>2, <3>4 DEF Exact, Zero, Q
      <4>2. Ratio(p, e) = <<p, 1>> /\ Ratio(q, d) = <<0, 1>>
        BY <3>4, <4>1, ZeroRatio, UnitRatio DEF Zero, Q
      <4> QED
        BY <2>4, <4>2 DEF Crossed, Zero, Q
    <3> QED
      BY <3>2, <3>3, <3>4
  <2> QED
    BY <2>3, <2>5 DEF Exact, IsOver
<1>2. ASSUME Positive(b) PROVE Ratio(b[2], b[1]) \in Exact
  <2>1. b[2] \in Int /\ b[1] \in Nat \ {0}
    BY <1>2 DEF Positive, Fractions
  <2>2. Ratio(b[2], b[1]) \in Reduced
    BY <2>1 DEF Reduced
  <2> QED
    BY <2>2, ReducedNumbers
<1> QED
  BY <1>1, <1>2 DEF Over

LEMMA ChoiceOfTwo ==
  ASSUME NEW a \in Fractions, NEW b \in Fractions
  PROVE  /\ Larger(a, b) \in {a, b} /\ Leq(a, Larger(a, b)) /\ Leq(b, Larger(a, b))
         /\ Smaller(a, b) \in {a, b} /\ Leq(Smaller(a, b), a) /\ Leq(Smaller(a, b), b)
<1>1. (Less(a, b) <=> ~Leq(b, a)) /\ (Less(b, a) <=> ~Leq(a, b))
  BY AtMostIs
<1>2. Leq(a, a) /\ Leq(b, b) /\ (Leq(a, b) \/ Leq(b, a))
  BY LeqTotal
<1> QED
  BY <1>1, <1>2 DEF Larger, Smaller

\* The sign of a difference tells which is larger; a magnitude is neither less than what it is of
\* nor negative.
LEMMA Differences ==
  ASSUME NEW a \in Fractions, NEW b \in Fractions
  PROVE  /\ Leq(b, a) <=> Minus(a, b)[1] >= 0
         /\ Leq(a, b) <=> Minus(a, b)[1] <= 0
<1>1. IsOver(Minus(a, b), a[1] * b[2] - b[1] * a[2], a[2] * b[2])
  BY MinusIs
<1>2. a[1] * b[2] \in Int /\ b[1] * a[2] \in Int /\ Minus(a, b)[1] \in Int
  BY <1>1 DEF Fractions, IsOver
<1> QED
  BY <1>1, <1>2, SignBy DEF Leq

LEMMA Magnitudes ==
  ASSUME NEW a \in Exact
  PROVE  /\ Abs(a) \in Exact /\ NotNegative(Abs(a)) /\ Leq(a, Abs(a))
         /\ Abs(a)[1] = Magnitude(a[1]) /\ Abs(a)[2] = a[2]
<1>1. PICK p \in Int, d \in Nat \ {0} : a = <<p, d>>
  BY DEF Fractions, Exact
<1>2. p = 0 => a = Zero
  BY <1>1 DEF Exact
<1>3. CASE p < 0
  <2>1. Abs(a) = <<-p, d>> /\ -p \in Int /\ -p > 0
    BY <1>1, <1>3 DEF Abs
  <2>2. <<-p, d>> \in Fractions
    BY <2>1 DEF Fractions
  <2>3. p * d <= (-p) * d
    <3>1. d * p <= d * (-p)
      BY <1>3, Scaled
    <3>2. d * p = p * d /\ d * (-p) = (-p) * d
      OBVIOUS
    <3> QED
      BY <3>1, <3>2
  <2> QED
    BY <1>1, <1>3, <2>1, <2>2, <2>3 DEF Exact, NotNegative, Leq, Magnitude
<1>4. CASE ~(p < 0)
  <2>1. Abs(a) = a
    BY <1>1, <1>4 DEF Abs
  <2>2. a \in Fractions /\ Leq(a, a)
    BY LeqTotal DEF Exact
  <2> QED
    BY <1>1, <1>4, <2>1, <2>2 DEF NotNegative, Magnitude
<1> QED
  BY <1>3, <1>4

LEMMA SignOfNumber ==
  ASSUME NEW a \in Exact
  PROVE  /\ a \in Fractions /\ (IsZero(a) <=> a[1] = 0)
         /\ NotNegative(a) <=> Leq(Zero, a)
         /\ NotNegative(a) /\ ~IsZero(a) => Positive(a)
         /\ Zero \in Exact /\ Zero \in Fractions
<1>1. Zero = <<0, 1>>
  BY DEF Zero, Q
<1>2. a \in Fractions /\ Zero[1] = 0 /\ Zero[2] = 1
  BY <1>1 DEF Exact
<1>3. Zero \in Fractions
  BY <1>1 DEF Fractions
<1>4. a[1] \in Int /\ a[2] \in Int
  BY <1>2 DEF Fractions
<1>5. Leq(Zero, a) <=> a[1] >= 0
  BY <1>2, <1>4 DEF Leq
<1> QED
  BY <1>2, <1>3, <1>4, <1>5 DEF Exact, IsZero, NotNegative, Positive

-----------------------------------------------------------------------------
(* Ranges: quotients, percentages and the strength index.                   *)

LEMMA SpanIsWithin ==
  ASSUME NEW low \in Int, NEW high \in Int, NEW x \in Span(low, high)
  PROVE  Within(x, low, high)
<1>1. x \in Fractions /\ Leq(Q(low), x) /\ Leq(x, Q(high))
  BY DEF Span, Exact
<1>2. Q(low) \in Fractions /\ Q(high) \in Fractions
  BY NumberReduced
<1> QED
  BY <1>1, <1>2, AtMostIs DEF Within

LEMMA NumberInSpan ==
  ASSUME NEW low \in Int, NEW n \in Int, NEW high \in Int, low <= n, n <= high
  PROVE  Q(n) \in Span(low, high)
<1>1. Q(n) \in Exact
  BY NumberReduced
<1>2. Leq(Q(low), Q(n)) /\ Leq(Q(n), Q(high))
  BY DEF Leq, Q
<1> QED
  BY <1>1, <1>2 DEF Span

\* The quotient of a number by a larger one.
LEMMA OverWithin ==
  ASSUME NEW a \in Exact, NEW b \in Exact, Positive(b), NEW low \in Int, NEW high \in Int,
         low * (a[2] * b[1]) <= a[1] * b[2], a[1] * b[2] <= high * (a[2] * b[1])
  PROVE  Over(a, b) \in Span(low, high)
<1>1. PICK p \in Int, d \in Nat \ {0} : a = <<p, d>> /\ a \in Fractions
  BY DEF Exact, Fractions
<1>2. PICK q \in Nat \ {0}, e \in Nat \ {0} : b = <<q, e>>
  BY DEF Positive, Fractions
<1>3. IsOver(Over(a, b), p * e, d * q)
  BY <1>1, <1>2, OverIs
<1>4. IsOver(Q(low), low, 1) /\ IsOver(Q(high), high, 1)
  BY DEF IsOver, Q, Fractions
<1>5. /\ Leq(Q(low), Over(a, b)) <=> low * (d * q) <= (p * e) * 1
      /\ Leq(Over(a, b), Q(high)) <=> (p * e) * 1 <= high * (d * q)
  BY <1>3, <1>4, LeqBy
<1>6. low * (d * q) <= p * e /\ p * e <= high * (d * q) /\ p * e \in Int
  BY <1>1, <1>2
<1>7. Over(a, b) \in Exact
  BY ProductsNumbers
<1> QED
  BY <1>5, <1>6, <1>7 DEF Span

LEMMA PartInSpan ==
  ASSUME NEW a \in Exact, NotNegative(a), NEW b \in Exact, Positive(b), Leq(a, b)
  PROVE  Over(a, b) \in Span(0, 1)
<1>1. PICK p \in Nat, d \in Nat \ {0} : a = <<p, d>>
  BY DEF NotNegative, Fractions
<1>2. PICK q \in Nat \ {0}, e \in Nat \ {0} : b = <<q, e>>
  BY DEF Positive, Fractions
<1>3. p * e <= q * d /\ p * e \in Nat /\ d * q = q * d /\ d * q \in Nat
  BY <1>1, <1>2 DEF Leq
<1>4. 0 * (a[2] * b[1]) <= a[1] * b[2] /\ a[1] * b[2] <= 1 * (a[2] * b[1])
  BY <1>1, <1>2, <1>3
<1> QED
  BY <1>4, OverWithin

\* A part of a whole, in percent: of the size of the factor, on its side of 0.
LEMMA TimesHundred ==
  ASSUME NEW o \in Span(0, 1)
  PROVE  Times(o, Q(100)) \in Span(0, 100) /\ Times(o, Q(-100)) \in Span(-100, 0)
<1>1. o \in Exact /\ Q(100) \in Exact /\ Q(-100) \in Exact
  BY NumberReduced DEF Span
<1>2. PICK s \in Int, t \in Nat \ {0} : o = <<s, t>> /\ o \in Fractions
  BY <1>1 DEF Exact, Fractions
<1>3. 0 <= s /\ s <= t
  BY <1>2 DEF Span, Leq, Q
<1>4. IsOver(Times(o, Q(100)), s * 100, t * 1) /\ IsOver(Times(o, Q(-100)), s * (-100), t * 1)
  <2>1. /\ Q(100) \in Fractions /\ Q(100)[1] = 100 /\ Q(100)[2] = 1
        /\ Q(-100) \in Fractions /\ Q(-100)[1] = -100 /\ Q(-100)[2] = 1
    BY NumberIs
  <2> QED
    BY <1>2, <2>1, TimesIs
<1>5. IsOver(Q(0), 0, 1) /\ IsOver(Q(100), 100, 1) /\ IsOver(Q(-100), -100, 1)
  BY DEF IsOver, Q, Fractions
<1>6. Leq(Q(0), Times(o, Q(100))) /\ Leq(Times(o, Q(100)), Q(100))
  <2>1. /\ Leq(Q(0), Times(o, Q(100))) <=> 0 * (t * 1) <= (s * 100) * 1
        /\ Leq(Times(o, Q(100)), Q(100)) <=> (s * 100) * 1 <= 100 * (t * 1)
    BY <1>4, <1>5, LeqBy
  <2> QED
    BY <1>3, <2>1
<1>7. Leq(Q(-100), Times(o, Q(-100))) /\ Leq(Times(o, Q(-100)), Q(0))
  <2>1. /\ Leq(Q(-100), Times(o, Q(-100))) <=> -100 * (t * 1) <= (s * (-100)) * 1
        /\ Leq(Times(o, Q(-100)), Q(0)) <=> (s * (-100)) * 1 <= 0 * (t * 1)
    BY <1>4, <1>5, LeqBy
  <2> QED
    BY <1>3, <2>1
<1>8. Times(o, Q(100)) \in Exact /\ Times(o, Q(-100)) \in Exact
  BY <1>1, ProductsNumbers
<1> QED
  BY <1>6, <1>7, <1>8 DEF Span

LEMMA ShareInSpan ==
  ASSUME NEW a \in Exact, NotNegative(a), NEW b \in Exact, Positive(b), Leq(a, b)
  PROVE  Percent(Over(a, b)) \in Span(0, 100)
BY PartInSpan, TimesHundred DEF Percent

LEMMA PositionInSpan ==
  ASSUME NEW value \in Reduced, NEW low \in Reduced, NEW high \in Reduced,
         Leq(low, value), Leq(value, high)
  PROVE  Position(value, low, high) \in Span(0, 100)
<1>1. value \in Fractions /\ low \in Fractions /\ high \in Fractions
  BY ReducedNumbers
<1>2. CASE low = high
  BY <1>2, NumberInSpan DEF Position
<1>3. CASE low # high
  <2>1. Leq(low, high)
    BY <1>1, LeqChain
  <2>2. ~Leq(high, low)
    BY <1>3, <2>1, ReducedEqual
  <2>3. PICK a \in Exact : a = Minus(value, low)
    BY <1>1, SumsReduced
  <2>4. PICK b \in Exact : b = Minus(high, low)
    BY <1>1, SumsReduced
  <2>5. a[1] >= 0 /\ ~(b[1] <= 0) /\ a \in Fractions /\ b \in Fractions
    BY <1>1, <2>2, <2>3, <2>4, Differences DEF Exact
  <2>6. NotNegative(a) /\ Positive(b)
    BY <2>5 DEF NotNegative, Positive, Fractions
  <2>7. Leq(a, b)
    BY <1>1, <2>3, <2>4, LeqTotal, MinusGrows
  <2>8. Percent(Over(a, b)) \in Span(0, 100)
    BY <2>6, <2>7, ShareInSpan
  <2> QED
    BY <1>3, <2>3, <2>4, <2>8 DEF Position
<1> QED
  BY <1>2, <1>3

\* The strength index of average gains and losses, which is also how the money flow's is computed.
LEMMA RsiInSpan ==
  ASSUME NEW gain \in Exact, NotNegative(gain), NEW loss \in Exact, NotNegative(loss)
  PROVE  RsiOf(gain, loss) \in Span(0, 100) /\ RsiOf(gain, loss) \in Reduced
<1>1. CASE IsZero(loss)
  BY <1>1, NumberInSpan, NumberReduced DEF RsiOf
<1>2. CASE ~IsZero(loss)
  <2>1. Positive(loss) /\ gain \in Fractions
    BY <1>2, SignOfNumber
  <2>2. PICK o \in Exact : o = Over(gain, loss)
    BY <2>1, ProductsNumbers
  <2>3. NotNegative(o)
    <3>1. PICK p \in Nat, d \in Nat \ {0} : gain = <<p, d>>
      BY DEF NotNegative, Fractions
    <3>2. PICK q \in Nat \ {0}, e \in Nat \ {0} : loss = <<q, e>>
      BY <2>1 DEF Positive, Fractions
    <3>3. IsOver(o, p * e, d * q) /\ p * e \in Nat
      BY <2>1, <2>2, <3>1, <3>2, OverIs
    <3>4. o[1] < 0 <=> p * e < 0
      BY <3>3, SignBy
    <3>5. o \in Fractions /\ o[1] \in Int
      BY <3>3 DEF IsOver, Fractions
    <3> QED
      BY <3>3, <3>4, <3>5 DEF NotNegative
  <2>4. PICK c \in Fractions : c = Plus(Q(1), o)
    BY NumberReduced, SumsReduced DEF Exact
  <2>5. PICK s \in Nat, t \in Nat \ {0} : c = <<s, t>> /\ t <= s
    <3>1. PICK s \in Int, t \in Nat \ {0} : c = <<s, t>>
      BY DEF Fractions
    <3>2. PICK p \in Nat, d \in Nat \ {0} : o = <<p, d>>
      BY <2>3 DEF NotNegative, Fractions
    <3>3. Q(1) \in Fractions /\ Q(1)[1] = 1 /\ Q(1)[2] = 1
      BY NumberIs
    <3>4. o \in Fractions /\ Zero \in Fractions /\ Leq(Zero, o) /\ Leq(Q(1), Q(1))
      BY <2>3, <3>3, SignOfNumber, LeqTotal
    <3>5. Leq(Plus(Q(1), Zero), c)
      BY <2>4, <3>3, <3>4, PlusGrows
    <3>6. IsOver(Plus(Q(1), Zero), 1 * 1 + 0 * 1, 1 * 1)
      <4>1. Zero[1] = 0 /\ Zero[2] = 1
        BY DEF Zero, Q
      <4> QED
        BY <3>3, <3>4, <4>1, PlusIs
    <3>7. IsOver(c, s, t)
      BY <3>1 DEF IsOver, Fractions
    <3>8. (1 * 1 + 0 * 1) * t <= s * (1 * 1)
      BY <3>5, <3>6, <3>7, LeqBy
    <3> QED
      BY <3>1, <3>8
  <2>6. Positive(c)
    BY <2>5 DEF Positive, Fractions
  <2>7. IsOver(Over(Q(100), c), 100 * t, 1 * s)
    <3>1. Q(100) \in Fractions /\ Q(100)[1] = 100 /\ Q(100)[2] = 1
      BY NumberIs
    <3> QED
      BY <2>5, <2>6, <3>1, OverIs
  <2>8. PICK r \in Fractions : r = Over(Q(100), c)
    BY <2>7 DEF IsOver
  <2>9. PICK u \in Int, v \in Nat \ {0} : r = <<u, v>>
    BY DEF Fractions
  <2>10. 0 <= u /\ u <= 100 * v
    <3>1. IsOver(Q(0), 0, 1) /\ IsOver(Q(100), 100, 1)
      BY DEF IsOver, Q, Fractions
    <3>2. Leq(Q(0), r) <=> 0 * (1 * s) <= (100 * t) * 1
      BY <2>7, <2>8, <3>1, LeqBy
    <3>3. Leq(r, Q(100)) <=> (100 * t) * 1 <= 100 * (1 * s)
      BY <2>7, <2>8, <3>1, LeqBy
    <3>4. Leq(Q(0), r) /\ Leq(r, Q(100))
      BY <2>5, <3>2, <3>3
    <3> QED
      BY <2>9, <3>4 DEF Leq, Q
  <2>11. PICK x : x = Minus(Q(100), r)
    OBVIOUS
  <2>12. IsOver(x, 100 * v - u * 1, 1 * v)
    <3>1. Q(100) \in Fractions /\ Q(100)[1] = 100 /\ Q(100)[2] = 1
      BY NumberIs
    <3> QED
      BY <2>9, <2>11, <3>1, MinusIs
  <2>13. Leq(Q(0), x) /\ Leq(x, Q(100))
    <3>1. IsOver(Q(0), 0, 1) /\ IsOver(Q(100), 100, 1)
      BY DEF IsOver, Q, Fractions
    <3>2. Leq(Q(0), x) <=> 0 * (1 * v) <= (100 * v - u * 1) * 1
      BY <2>12, <3>1, LeqBy
    <3>3. Leq(x, Q(100)) <=> (100 * v - u * 1) * 1 <= 100 * (1 * v)
      BY <2>12, <3>1, LeqBy
    <3> QED
      BY <2>10, <3>2, <3>3
  <2>14. x \in Reduced /\ x \in Exact
    BY <2>11, NumberReduced, SumsReduced
  <2>15. RsiOf(gain, loss) = x
    BY <1>2, <2>2, <2>4, <2>8, <2>11 DEF RsiOf
  <2> QED
    BY <2>13, <2>14, <2>15 DEF Span
<1> QED
  BY <1>1, <1>2

-----------------------------------------------------------------------------
(* Sums, extremes and averages of sequences.                                *)

\* The sums of a sequence, one place after the other.
LEMMA SumRuns ==
  ASSUME NEW seq \in Seq(Exact)
  PROVE  \E chain \in [0..Len(seq) -> Exact] :
           /\ chain[0] = Zero /\ chain[Len(seq)] = SumOf(seq)
           /\ \A i \in 1..Len(seq) : chain[i] = Plus(chain[i - 1], seq[i])
<1> DEFINE n == Len(seq)
           Next1(r, i) == Plus(r, seq[i])
           Step(t, h) == IF t = {} THEN Zero ELSE Next1(h[t \ {Max(t)}], Max(t))
           Adds(h) == h = [t \in SUBSET (1..n) |-> Step(t, h)]
           iter == CHOOSE h : Adds(h)
           g == [x \in (1..n) \X Exact |-> Next1(x[2], x[1])]
<1>2. n \in Nat /\ DOMAIN seq = 1..n
  OBVIOUS
<1>3. SumOf(seq) = iter[1..n]
  BY <1>2 DEF SumOf, FoldLeft, MapThenFoldSet
<1>4. Zero \in Exact /\ \A i \in 1..n : \A r \in Exact : Next1(r, i) \in Exact
  <2>1. Zero \in Exact
    BY NumberReduced DEF Zero
  <2>2. ASSUME NEW i \in 1..n, NEW r \in Exact PROVE Plus(r, seq[i]) \in Exact
    <3>1. seq[i] \in Exact /\ r \in Fractions
      BY ElementOfSeq DEF Exact
    <3>2. seq[i] \in Fractions
      BY <3>1 DEF Exact
    <3> QED
      BY <3>1, <3>2, SumsReduced
  <2> QED
    BY <2>1, <2>2
<1>5. g \in [(1..n) \X Exact -> Exact]
  <2> HIDE DEF Next1
  <2> QED
    BY <1>4
<1>6. \E h \in [SUBSET (1..n) -> Exact] : Adds(h)
  <2>1. PICK h \in [SUBSET (1..n) -> Exact] : Folded(h, Zero, g, n)
    <3> HIDE DEF g
    <3> QED
      BY <1>2, <1>4, <1>5, FoldsExist
  <2>2. ASSUME NEW t \in SUBSET (1..n) PROVE h[t] = Step(t, h)
    <3>1. CASE t = {}
      BY <2>1, <3>1 DEF Folded
    <3>2. CASE t # {}
      <4>1. Max(t) \in 1..n
        <5>1. t \in SUBSET (0..n)
          OBVIOUS
        <5>2. Max(t) \in t
          BY <1>2, <3>2, <5>1, GreatestIsMember
        <5> QED
          BY <5>2
      <4>2. h[t] = g[<<Max(t), h[t \ {Max(t)}]>>]
        BY <2>1, <3>2 DEF Folded
      <4>3. h[t \ {Max(t)}] \in Exact
        OBVIOUS
      <4>4. <<Max(t), h[t \ {Max(t)}]>> \in (1..n) \X Exact
        BY <4>1, <4>3
      <4> HIDE DEF Next1
      <4>5. g[<<Max(t), h[t \ {Max(t)}]>>] = Next1(h[t \ {Max(t)}], Max(t))
        BY <4>4
      <4> QED
        BY <3>2, <4>2, <4>5
    <3> QED
      BY <3>1, <3>2
  <2>3. Adds(h)
    <3> HIDE DEF Step
    <3> QED
      BY <2>1, <2>2, Zenon
  <2> QED
    BY <2>3
<1>7. Adds(iter)
  <2> HIDE DEF Adds
  <2> QED
    BY <1>6, Zenon
<1> HIDE DEF iter, Next1
<1>8. iter[1..0] = Zero
  <2>1. {} \in SUBSET (1..n) /\ 1..0 = {}
    OBVIOUS
  <2>2. iter[{}] = Step({}, iter)
    BY <1>7, <2>1
  <2> QED
    BY <2>1, <2>2
<1>9. ASSUME NEW i \in 1..n PROVE iter[1..i] = Next1(iter[1..(i - 1)], i)
  <2>1. /\ 1..i \in SUBSET (1..n) /\ 1..i # {} /\ Max(1..i) = i /\ (1..i) \ {i} = 1..(i - 1)
    BY <1>2, FoldSteps
  <2>2. iter[1..i] = Step(1..i, iter)
    BY <1>7, <2>1
  <2> QED
    BY <2>1, <2>2
<1>10. \A i \in 0..n : iter[1..i] \in Exact
  <2> DEFINE I == {i \in Nat : i <= n => iter[1..i] \in Exact}
  <2> HIDE DEF n
  <2>1. 0 \in I
    BY <1>4, <1>8
  <2>2. ASSUME NEW i \in Nat, i \in I PROVE i + 1 \in I
    <3> SUFFICES ASSUME i + 1 <= n PROVE iter[1..(i + 1)] \in Exact
      OBVIOUS
    <3>1. i + 1 \in 1..n /\ i + 1 - 1 = i /\ iter[1..i] \in Exact
      BY <1>2, <2>2
    <3>2. iter[1..(i + 1)] = Next1(iter[1..i], i + 1)
      BY <1>9, <3>1
    <3> QED
      BY <1>4, <3>1, <3>2
  <2>3. \A i \in Nat : i \in I
    <3> HIDE DEF I
    <3> QED
      BY <2>1, <2>2, AllNumbers
  <2> QED
    BY <1>2, <2>3
<1>11. PICK chain \in [0..n -> Exact] : chain = [i \in 0..n |-> iter[1..i]]
  BY <1>10
<1>12. chain[0] = Zero /\ chain[n] = SumOf(seq)
  BY <1>2, <1>3, <1>8, <1>11
<1>13. ASSUME NEW i \in 1..n PROVE chain[i] = Next1(chain[i - 1], i)
  <2>1. i \in 0..n /\ i - 1 \in 0..n
    BY <1>2
  <2> QED
    BY <1>9, <1>11, <2>1
<1> QED
  BY <1>12, <1>13 DEF Next1

LEMMA LargestRuns ==
  ASSUME NEW P \in SUBSET Fractions, NEW seq \in Seq(P), Len(seq) > 0
  PROVE  \E chain \in [0..Len(seq) -> P] :
           /\ chain[0] = seq[1] /\ chain[Len(seq)] = LargestOf(seq)
           /\ \A i \in 1..Len(seq) : chain[i] = Larger(chain[i - 1], seq[i])
<1>1. seq[1] = Head(seq) /\ seq[1] \in P
  <2>1. 1 \in 1..Len(seq)
    OBVIOUS
  <2> QED
    BY <2>1, ElementOfSeq
<1> DEFINE n == Len(seq)
           Next1(r, i) == Larger(r, seq[i])
           Step(t, h) == IF t = {} THEN seq[1] ELSE Next1(h[t \ {Max(t)}], Max(t))
           Adds(h) == h = [t \in SUBSET (1..n) |-> Step(t, h)]
           iter == CHOOSE h : Adds(h)
           g == [x \in (1..n) \X P |-> Next1(x[2], x[1])]
<1>2. n \in Nat /\ DOMAIN seq = 1..n
  OBVIOUS
<1>3. LargestOf(seq) = iter[1..n]
  BY <1>2, <1>1 DEF LargestOf, FoldLeft, MapThenFoldSet
<1>4. seq[1] \in P /\ \A i \in 1..n : \A r \in P : Next1(r, i) \in P
  <2>2. ASSUME NEW i \in 1..n, NEW r \in P PROVE Larger(r, seq[i]) \in P
    <3>1. seq[i] \in P
      BY ElementOfSeq
    <3>2. seq[i] \in Fractions /\ r \in Fractions
      BY <3>1
    <3> QED
      BY <3>1, <3>2, ChoiceOfTwo
  <2> QED
    BY <1>1, <2>2
<1>5. g \in [(1..n) \X P -> P]
  <2> HIDE DEF Next1
  <2> QED
    BY <1>4
<1>6. \E h \in [SUBSET (1..n) -> P] : Adds(h)
  <2>1. PICK h \in [SUBSET (1..n) -> P] : Folded(h, seq[1], g, n)
    <3> HIDE DEF g
    <3> QED
      BY <1>2, <1>4, <1>5, FoldsExist
  <2>2. ASSUME NEW t \in SUBSET (1..n) PROVE h[t] = Step(t, h)
    <3>1. CASE t = {}
      BY <2>1, <3>1 DEF Folded
    <3>2. CASE t # {}
      <4>1. Max(t) \in 1..n
        <5>1. t \in SUBSET (0..n)
          OBVIOUS
        <5>2. Max(t) \in t
          BY <1>2, <3>2, <5>1, GreatestIsMember
        <5> QED
          BY <5>2
      <4>2. h[t] = g[<<Max(t), h[t \ {Max(t)}]>>]
        BY <2>1, <3>2 DEF Folded
      <4>3. h[t \ {Max(t)}] \in P
        OBVIOUS
      <4>4. <<Max(t), h[t \ {Max(t)}]>> \in (1..n) \X P
        BY <4>1, <4>3
      <4> HIDE DEF Next1
      <4>5. g[<<Max(t), h[t \ {Max(t)}]>>] = Next1(h[t \ {Max(t)}], Max(t))
        BY <4>4
      <4> QED
        BY <3>2, <4>2, <4>5
    <3> QED
      BY <3>1, <3>2
  <2>3. Adds(h)
    <3> HIDE DEF Step
    <3> QED
      BY <2>1, <2>2, Zenon
  <2> QED
    BY <2>3
<1>7. Adds(iter)
  <2> HIDE DEF Adds
  <2> QED
    BY <1>6, Zenon
<1> HIDE DEF iter, Next1
<1>8. iter[1..0] = seq[1]
  <2>1. {} \in SUBSET (1..n) /\ 1..0 = {}
    OBVIOUS
  <2>2. iter[{}] = Step({}, iter)
    BY <1>7, <2>1
  <2> QED
    BY <2>1, <2>2
<1>9. ASSUME NEW i \in 1..n PROVE iter[1..i] = Next1(iter[1..(i - 1)], i)
  <2>1. /\ 1..i \in SUBSET (1..n) /\ 1..i # {} /\ Max(1..i) = i /\ (1..i) \ {i} = 1..(i - 1)
    BY <1>2, FoldSteps
  <2>2. iter[1..i] = Step(1..i, iter)
    BY <1>7, <2>1
  <2> QED
    BY <2>1, <2>2
<1>10. \A i \in 0..n : iter[1..i] \in P
  <2> DEFINE I == {i \in Nat : i <= n => iter[1..i] \in P}
  <2> HIDE DEF n
  <2>1. 0 \in I
    BY <1>4, <1>8
  <2>2. ASSUME NEW i \in Nat, i \in I PROVE i + 1 \in I
    <3> SUFFICES ASSUME i + 1 <= n PROVE iter[1..(i + 1)] \in P
      OBVIOUS
    <3>1. i + 1 \in 1..n /\ i + 1 - 1 = i /\ iter[1..i] \in P
      BY <1>2, <2>2
    <3>2. iter[1..(i + 1)] = Next1(iter[1..i], i + 1)
      BY <1>9, <3>1
    <3> QED
      BY <1>4, <3>1, <3>2
  <2>3. \A i \in Nat : i \in I
    <3> HIDE DEF I
    <3> QED
      BY <2>1, <2>2, AllNumbers
  <2> QED
    BY <1>2, <2>3
<1>11. PICK chain \in [0..n -> P] : chain = [i \in 0..n |-> iter[1..i]]
  BY <1>10
<1>12. chain[0] = seq[1] /\ chain[n] = LargestOf(seq)
  BY <1>2, <1>3, <1>8, <1>11
<1>13. ASSUME NEW i \in 1..n PROVE chain[i] = Next1(chain[i - 1], i)
  <2>1. i \in 0..n /\ i - 1 \in 0..n
    BY <1>2
  <2> QED
    BY <1>9, <1>11, <2>1
<1> QED
  BY <1>12, <1>13 DEF Next1

LEMMA SmallestRuns ==
  ASSUME NEW P \in SUBSET Fractions, NEW seq \in Seq(P), Len(seq) > 0
  PROVE  \E chain \in [0..Len(seq) -> P] :
           /\ chain[0] = seq[1] /\ chain[Len(seq)] = SmallestOf(seq)
           /\ \A i \in 1..Len(seq) : chain[i] = Smaller(chain[i - 1], seq[i])
<1>1. seq[1] = Head(seq) /\ seq[1] \in P
  <2>1. 1 \in 1..Len(seq)
    OBVIOUS
  <2> QED
    BY <2>1, ElementOfSeq
<1> DEFINE n == Len(seq)
           Next1(r, i) == Smaller(r, seq[i])
           Step(t, h) == IF t = {} THEN seq[1] ELSE Next1(h[t \ {Max(t)}], Max(t))
           Adds(h) == h = [t \in SUBSET (1..n) |-> Step(t, h)]
           iter == CHOOSE h : Adds(h)
           g == [x \in (1..n) \X P |-> Next1(x[2], x[1])]
<1>2. n \in Nat /\ DOMAIN seq = 1..n
  OBVIOUS
<1>3. SmallestOf(seq) = iter[1..n]
  BY <1>2, <1>1 DEF SmallestOf, FoldLeft, MapThenFoldSet
<1>4. seq[1] \in P /\ \A i \in 1..n : \A r \in P : Next1(r, i) \in P
  <2>2. ASSUME NEW i \in 1..n, NEW r \in P PROVE Smaller(r, seq[i]) \in P
    <3>1. seq[i] \in P
      BY ElementOfSeq
    <3>2. seq[i] \in Fractions /\ r \in Fractions
      BY <3>1
    <3> QED
      BY <3>1, <3>2, ChoiceOfTwo
  <2> QED
    BY <1>1, <2>2
<1>5. g \in [(1..n) \X P -> P]
  <2> HIDE DEF Next1
  <2> QED
    BY <1>4
<1>6. \E h \in [SUBSET (1..n) -> P] : Adds(h)
  <2>1. PICK h \in [SUBSET (1..n) -> P] : Folded(h, seq[1], g, n)
    <3> HIDE DEF g
    <3> QED
      BY <1>2, <1>4, <1>5, FoldsExist
  <2>2. ASSUME NEW t \in SUBSET (1..n) PROVE h[t] = Step(t, h)
    <3>1. CASE t = {}
      BY <2>1, <3>1 DEF Folded
    <3>2. CASE t # {}
      <4>1. Max(t) \in 1..n
        <5>1. t \in SUBSET (0..n)
          OBVIOUS
        <5>2. Max(t) \in t
          BY <1>2, <3>2, <5>1, GreatestIsMember
        <5> QED
          BY <5>2
      <4>2. h[t] = g[<<Max(t), h[t \ {Max(t)}]>>]
        BY <2>1, <3>2 DEF Folded
      <4>3. h[t \ {Max(t)}] \in P
        OBVIOUS
      <4>4. <<Max(t), h[t \ {Max(t)}]>> \in (1..n) \X P
        BY <4>1, <4>3
      <4> HIDE DEF Next1
      <4>5. g[<<Max(t), h[t \ {Max(t)}]>>] = Next1(h[t \ {Max(t)}], Max(t))
        BY <4>4
      <4> QED
        BY <3>2, <4>2, <4>5
    <3> QED
      BY <3>1, <3>2
  <2>3. Adds(h)
    <3> HIDE DEF Step
    <3> QED
      BY <2>1, <2>2, Zenon
  <2> QED
    BY <2>3
<1>7. Adds(iter)
  <2> HIDE DEF Adds
  <2> QED
    BY <1>6, Zenon
<1> HIDE DEF iter, Next1
<1>8. iter[1..0] = seq[1]
  <2>1. {} \in SUBSET (1..n) /\ 1..0 = {}
    OBVIOUS
  <2>2. iter[{}] = Step({}, iter)
    BY <1>7, <2>1
  <2> QED
    BY <2>1, <2>2
<1>9. ASSUME NEW i \in 1..n PROVE iter[1..i] = Next1(iter[1..(i - 1)], i)
  <2>1. /\ 1..i \in SUBSET (1..n) /\ 1..i # {} /\ Max(1..i) = i /\ (1..i) \ {i} = 1..(i - 1)
    BY <1>2, FoldSteps
  <2>2. iter[1..i] = Step(1..i, iter)
    BY <1>7, <2>1
  <2> QED
    BY <2>1, <2>2
<1>10. \A i \in 0..n : iter[1..i] \in P
  <2> DEFINE I == {i \in Nat : i <= n => iter[1..i] \in P}
  <2> HIDE DEF n
  <2>1. 0 \in I
    BY <1>4, <1>8
  <2>2. ASSUME NEW i \in Nat, i \in I PROVE i + 1 \in I
    <3> SUFFICES ASSUME i + 1 <= n PROVE iter[1..(i + 1)] \in P
      OBVIOUS
    <3>1. i + 1 \in 1..n /\ i + 1 - 1 = i /\ iter[1..i] \in P
      BY <1>2, <2>2
    <3>2. iter[1..(i + 1)] = Next1(iter[1..i], i + 1)
      BY <1>9, <3>1
    <3> QED
      BY <1>4, <3>1, <3>2
  <2>3. \A i \in Nat : i \in I
    <3> HIDE DEF I
    <3> QED
      BY <2>1, <2>2, AllNumbers
  <2> QED
    BY <1>2, <2>3
<1>11. PICK chain \in [0..n -> P] : chain = [i \in 0..n |-> iter[1..i]]
  BY <1>10
<1>12. chain[0] = seq[1] /\ chain[n] = SmallestOf(seq)
  BY <1>2, <1>3, <1>8, <1>11
<1>13. ASSUME NEW i \in 1..n PROVE chain[i] = Next1(chain[i - 1], i)
  <2>1. i \in 0..n /\ i - 1 \in 0..n
    BY <1>2
  <2> QED
    BY <1>9, <1>11, <2>1
<1> QED
  BY <1>12, <1>13 DEF Next1

LEMMA SumGrows ==
  ASSUME NEW a \in Seq(Exact), NEW b \in Seq(Exact), Len(a) = Len(b),
         \A i \in 1..Len(a) : Leq(a[i], b[i])
  PROVE  SumOf(a) \in Exact /\ SumOf(b) \in Exact /\ Leq(SumOf(a), SumOf(b))
<1> DEFINE n == Len(a)
<1>1. n \in Nat /\ n = Len(b) /\ \A i \in 1..n : a[i] \in Fractions /\ b[i] \in Fractions
  <2>1. \A i \in 1..n : a[i] \in Exact /\ b[i] \in Exact
    BY ElementOfSeq
  <2> QED
    BY <2>1 DEF Exact
<1>2. PICK x \in [0..n -> Exact] : /\ x[0] = Zero /\ x[n] = SumOf(a)
                                     /\ \A i \in 1..n : x[i] = Plus(x[i - 1], a[i])
  BY SumRuns
<1>3. PICK y \in [0..n -> Exact] : /\ y[0] = Zero /\ y[n] = SumOf(b)
                                     /\ \A i \in 1..n : y[i] = Plus(y[i - 1], b[i])
  <2>1. \E y \in [0..Len(b) -> Exact] : /\ y[0] = Zero /\ y[Len(b)] = SumOf(b)
                                     /\ \A i \in 1..Len(b) : y[i] = Plus(y[i - 1], b[i])
    BY SumRuns
  <2> QED
    BY <1>1, <2>1
<1> DEFINE K == {i \in Nat : i <= n => Leq(x[i], y[i])}
<1>4. 0 \in K
  <2>1. Leq(Zero, Zero)
    BY DEF Leq, Zero, Q
  <2> QED
    BY <1>2, <1>3, <2>1
<1>5. ASSUME NEW i \in Nat, i \in K PROVE i + 1 \in K
  <2> SUFFICES ASSUME i + 1 <= n PROVE Leq(x[i + 1], y[i + 1])
    OBVIOUS
  <2>1. i + 1 \in 1..n /\ i + 1 - 1 = i /\ i \in 0..n /\ i <= n
    BY <1>1
  <2>2. x[i + 1] = Plus(x[i], a[i + 1]) /\ y[i + 1] = Plus(y[i], b[i + 1])
    BY <1>2, <1>3, <2>1
  <2>3. x[i] \in Exact /\ y[i] \in Exact
    BY <2>1
  <2>4. x[i] \in Fractions /\ y[i] \in Fractions
    BY <2>3 DEF Exact
  <2>5. Leq(x[i], y[i])
    BY <1>5, <2>1
  <2>6. a[i + 1] \in Fractions /\ b[i + 1] \in Fractions /\ Leq(a[i + 1], b[i + 1])
    BY <1>1, <2>1
  <2> QED
    BY <2>2, <2>4, <2>5, <2>6, PlusGrows
<1>6. \A i \in Nat : i \in K
  <2> HIDE DEF K
  <2> QED
    BY <1>4, <1>5, AllNumbers
<1>7. n \in K /\ n \in 0..n
  BY <1>1, <1>6
<1> QED
  BY <1>2, <1>3, <1>7

Neg(x) == <<-x[1], x[2]>>

LEMMA NegIs ==
  ASSUME NEW x, NEW n, NEW d, IsOver(x, n, d)
  PROVE  IsOver(Neg(x), -n, d)
<1>1. PICK p \in Int, q \in Nat \ {0} : x = <<p, q>>
  BY DEF IsOver, Fractions
<1>2. n \in Int /\ d \in Nat \ {0} /\ p * d = n * q
  BY <1>1 DEF IsOver
<1>3. (-p) * d = -(p * d) /\ (-n) * q = -(n * q)
  BY <1>2
<1>4. Neg(x) = <<-p, q>> /\ -p \in Int /\ -n \in Int
  BY <1>1, <1>2 DEF Neg
<1> QED
  BY <1>2, <1>3, <1>4 DEF IsOver, Fractions

\* What is nowhere less than the opposites sums up to no less than the opposite of their sum.
LEMMA SumMirrors ==
  ASSUME NEW a \in Seq(Exact), NEW b \in Seq(Exact), Len(a) = Len(b),
         \A i \in 1..Len(a) : Leq(Neg(a[i]), b[i])
  PROVE  Leq(Neg(SumOf(a)), SumOf(b))
<1> DEFINE n == Len(a)
<1>1. n \in Nat /\ n = Len(b) /\ \A i \in 1..n : a[i] \in Fractions /\ b[i] \in Fractions
  <2>1. \A i \in 1..n : a[i] \in Exact /\ b[i] \in Exact
    BY ElementOfSeq
  <2> QED
    BY <2>1 DEF Exact
<1>2. PICK x \in [0..n -> Exact] : /\ x[0] = Zero /\ x[n] = SumOf(a)
                                     /\ \A i \in 1..n : x[i] = Plus(x[i - 1], a[i])
  BY SumRuns
<1>3. PICK y \in [0..n -> Exact] : /\ y[0] = Zero /\ y[n] = SumOf(b)
                                     /\ \A i \in 1..n : y[i] = Plus(y[i - 1], b[i])
  <2>1. \E y \in [0..Len(b) -> Exact] : /\ y[0] = Zero /\ y[Len(b)] = SumOf(b)
                                     /\ \A i \in 1..Len(b) : y[i] = Plus(y[i - 1], b[i])
    BY SumRuns
  <2> QED
    BY <1>1, <2>1
<1> DEFINE K == {i \in Nat : i <= n => Leq(Neg(x[i]), y[i])}
<1>4. 0 \in K
  <2>1. Leq(Neg(Zero), Zero)
    BY DEF Leq, Zero, Q, Neg
  <2> QED
    BY <1>2, <1>3, <2>1
<1>5. ASSUME NEW i \in Nat, i \in K PROVE i + 1 \in K
  <2> SUFFICES ASSUME i + 1 <= n PROVE Leq(Neg(x[i + 1]), y[i + 1])
    OBVIOUS
  <2>1. i + 1 \in 1..n /\ i + 1 - 1 = i /\ i \in 0..n /\ i <= n
    BY <1>1
  <2>2. x[i + 1] = Plus(x[i], a[i + 1]) /\ y[i + 1] = Plus(y[i], b[i + 1])
    BY <1>2, <1>3, <2>1
  <2>3. x[i] \in Exact /\ y[i] \in Exact
    BY <2>1
  <2>4. x[i] \in Fractions /\ y[i] \in Fractions
    BY <2>3 DEF Exact
  <2>5. Leq(Neg(x[i]), y[i])
    BY <1>5, <2>1
  <2>6. a[i + 1] \in Fractions /\ b[i + 1] \in Fractions /\ Leq(Neg(a[i + 1]), b[i + 1])
    BY <1>1, <2>1
  <2>7. PICK p \in Int, d \in Nat \ {0} : x[i] = <<p, d>>
    BY <2>4 DEF Fractions
  <2>8. PICK q \in Int, e \in Nat \ {0} : a[i + 1] = <<q, e>>
    BY <2>6 DEF Fractions
  <2>9. PICK u \in Fractions, v \in Fractions : u = Neg(x[i]) /\ v = Neg(a[i + 1])
    <3>1. -p \in Int /\ -q \in Int
      OBVIOUS
    <3>2. <<-p, d>> \in Fractions /\ <<-q, e>> \in Fractions
      BY <3>1 DEF Fractions
    <3> QED
      BY <2>7, <2>8, <3>2 DEF Neg
  <2>10. u[1] = -p /\ u[2] = d /\ v[1] = -q /\ v[2] = e
    BY <2>7, <2>8, <2>9 DEF Neg
  <2>11. IsOver(Plus(u, v), (-p) * e + (-q) * d, d * e)
    BY <2>10, PlusIs
  <2>12. IsOver(Plus(x[i], a[i + 1]), p * e + q * d, d * e)
    BY <2>4, <2>6, <2>7, <2>8, PlusIs
  <2>13. IsOver(Neg(Plus(x[i], a[i + 1])), -(p * e + q * d), d * e)
    BY <2>12, NegIs
  <2>14. (-p) * e + (-q) * d = -(p * e + q * d) /\ -(p * e + q * d) \in Int /\ d * e \in Int
    OBVIOUS
  <2>15. (-(p * e + q * d)) * (d * e) <= (-(p * e + q * d)) * (d * e)
    OBVIOUS
  <2>16. Leq(Neg(Plus(x[i], a[i + 1])), Plus(u, v))
    BY <2>11, <2>13, <2>14, <2>15, LeqBy
  <2>17. Leq(Plus(u, v), Plus(y[i], b[i + 1])) /\ Plus(y[i], b[i + 1]) \in Fractions
    BY <2>4, <2>5, <2>6, <2>9, PlusGrows
  <2>18. Plus(u, v) \in Fractions /\ Neg(Plus(x[i], a[i + 1])) \in Fractions
    BY <2>11, <2>13 DEF IsOver
  <2> QED
    BY <2>2, <2>16, <2>17, <2>18, LeqChain
<1>6. \A i \in Nat : i \in K
  <2> HIDE DEF K
  <2> QED
    BY <1>4, <1>5, AllNumbers
<1>7. n \in K /\ n \in 0..n
  BY <1>1, <1>6
<1> QED
  BY <1>2, <1>3, <1>7

LEMMA SumOfSame ==
  ASSUME NEW h \in Int, NEW a \in Seq(Exact), \A i \in 1..Len(a) : a[i] = Q(h)
  PROVE  IsOver(SumOf(a), Len(a) * h, 1)
<1> DEFINE n == Len(a)
<1>1. n \in Nat
  OBVIOUS
<1>2. PICK x \in [0..n -> Exact] : /\ x[0] = Zero /\ x[n] = SumOf(a)
                                     /\ \A i \in 1..n : x[i] = Plus(x[i - 1], a[i])
  BY SumRuns
<1> DEFINE K == {i \in Nat : i <= n => IsOver(x[i], i * h, 1)}
<1>3. 0 \in K
  <2>1. IsOver(Zero, 0 * h, 1)
    BY DEF IsOver, Zero, Q, Fractions
  <2> QED
    BY <1>2, <2>1
<1>4. ASSUME NEW i \in Nat, i \in K PROVE i + 1 \in K
  <2> SUFFICES ASSUME i + 1 <= n PROVE IsOver(x[i + 1], (i + 1) * h, 1)
    OBVIOUS
  <2>1. i + 1 \in 1..n /\ i + 1 - 1 = i /\ i \in 0..n /\ i <= n
    BY <1>1
  <2>2. x[i + 1] = Plus(x[i], Q(h))
    BY <1>2, <2>1
  <2>3. IsOver(x[i], i * h, 1)
    BY <1>4, <2>1
  <2>4. PICK p \in Int, d \in Nat \ {0} : x[i] = <<p, d>> /\ x[i] \in Fractions
    BY <2>3 DEF IsOver, Fractions
  <2>5. p * 1 = (i * h) * d
    BY <2>3, <2>4 DEF IsOver
  <2>6. IsOver(x[i + 1], p * 1 + h * d, d * 1)
    <3>1. Q(h) \in Fractions /\ Q(h)[1] = h /\ Q(h)[2] = 1
      BY NumberIs
    <3> QED
      BY <2>2, <2>4, <3>1, PlusIs
  <2>7. (i + 1) * h = i * h + h /\ (i * h + h) * d = (i * h) * d + h * d /\ i * h \in Int
    OBVIOUS
  <2>8. (p * 1 + h * d) * 1 = ((i + 1) * h) * (d * 1)
    BY <2>5, <2>7
  <2>9. (i + 1) * h \in Int /\ 1 \in Nat \ {0}
    OBVIOUS
  <2> QED
    BY <2>6, <2>8, <2>9, SameOver
<1>5. \A i \in Nat : i \in K
  <2> HIDE DEF K
  <2> QED
    BY <1>3, <1>4, AllNumbers
<1>6. n \in K /\ n \in 0..n
  BY <1>1, <1>5
<1> QED
  BY <1>2, <1>6

LEMMA LargestIs ==
  ASSUME NEW P \in SUBSET Fractions, NEW seq \in Seq(P), Len(seq) > 0
  PROVE  LargestOf(seq) \in P /\ \A i \in 1..Len(seq) : Leq(seq[i], LargestOf(seq))
<1> DEFINE n == Len(seq)
<1>1. n \in Nat /\ \A i \in 1..n : seq[i] \in Fractions
  <2>1. \A i \in 1..n : seq[i] \in P
    BY ElementOfSeq
  <2> QED
    BY <2>1
<1>2. PICK x \in [0..n -> P] : /\ x[0] = seq[1] /\ x[n] = LargestOf(seq)
                               /\ \A i \in 1..n : x[i] = Larger(x[i - 1], seq[i])
  BY LargestRuns
<1> DEFINE K == {i \in Nat : i <= n => \A j \in 1..i : Leq(seq[j], x[i])}
<1>3. 0 \in K
  OBVIOUS
<1>4. ASSUME NEW i \in Nat, i \in K PROVE i + 1 \in K
  <2> SUFFICES ASSUME i + 1 <= n, NEW j \in 1..(i + 1) PROVE Leq(seq[j], x[i + 1])
    OBVIOUS
  <2>1. i + 1 \in 1..n /\ i + 1 - 1 = i /\ i \in 0..n /\ i <= n /\ j \in 1..n
    BY <1>1
  <2>2. x[i + 1] = Larger(x[i], seq[i + 1])
    BY <1>2, <2>1
  <2>3. x[i] \in P /\ x[i + 1] \in P
    BY <2>1
  <2>4. x[i] \in Fractions /\ x[i + 1] \in Fractions /\ seq[i + 1] \in Fractions /\ seq[j] \in Fractions
    BY <1>1, <2>1, <2>3
  <2>5. Leq(x[i], x[i + 1]) /\ Leq(seq[i + 1], x[i + 1])
    BY <2>2, <2>4, ChoiceOfTwo
  <2>6. CASE j = i + 1
    BY <2>5, <2>6
  <2>7. CASE j # i + 1
    <3>1. j \in 1..i
      BY <2>7
    <3>2. Leq(seq[j], x[i])
      BY <1>4, <2>1, <3>1
    <3> QED
      BY <2>4, <2>5, <3>2, LeqChain
  <2> QED
    BY <2>6, <2>7
<1>5. \A i \in Nat : i \in K
  <2> HIDE DEF K
  <2> QED
    BY <1>3, <1>4, AllNumbers
<1>6. n \in K /\ n \in 0..n
  BY <1>1, <1>5
<1> QED
  BY <1>2, <1>6

LEMMA SmallestIs ==
  ASSUME NEW P \in SUBSET Fractions, NEW seq \in Seq(P), Len(seq) > 0
  PROVE  SmallestOf(seq) \in P /\ \A i \in 1..Len(seq) : Leq(SmallestOf(seq), seq[i])
<1> DEFINE n == Len(seq)
<1>1. n \in Nat /\ \A i \in 1..n : seq[i] \in Fractions
  <2>1. \A i \in 1..n : seq[i] \in P
    BY ElementOfSeq
  <2> QED
    BY <2>1
<1>2. PICK x \in [0..n -> P] : /\ x[0] = seq[1] /\ x[n] = SmallestOf(seq)
                               /\ \A i \in 1..n : x[i] = Smaller(x[i - 1], seq[i])
  BY SmallestRuns
<1> DEFINE K == {i \in Nat : i <= n => \A j \in 1..i : Leq(x[i], seq[j])}
<1>3. 0 \in K
  OBVIOUS
<1>4. ASSUME NEW i \in Nat, i \in K PROVE i + 1 \in K
  <2> SUFFICES ASSUME i + 1 <= n, NEW j \in 1..(i + 1) PROVE Leq(x[i + 1], seq[j])
    OBVIOUS
  <2>1. i + 1 \in 1..n /\ i + 1 - 1 = i /\ i \in 0..n /\ i <= n /\ j \in 1..n
    BY <1>1
  <2>2. x[i + 1] = Smaller(x[i], seq[i + 1])
    BY <1>2, <2>1
  <2>3. x[i] \in P /\ x[i + 1] \in P
    BY <2>1
  <2>4. x[i] \in Fractions /\ x[i + 1] \in Fractions /\ seq[i + 1] \in Fractions /\ seq[j] \in Fractions
    BY <1>1, <2>1, <2>3
  <2>5. Leq(x[i + 1], x[i]) /\ Leq(x[i + 1], seq[i + 1])
    BY <2>2, <2>4, ChoiceOfTwo
  <2>6. CASE j = i + 1
    BY <2>5, <2>6
  <2>7. CASE j # i + 1
    <3>1. j \in 1..i
      BY <2>7
    <3>2. Leq(x[i], seq[j])
      BY <1>4, <2>1, <3>1
    <3> QED
      BY <2>4, <2>5, <3>2, LeqChain
  <2> QED
    BY <2>6, <2>7
<1>5. \A i \in Nat : i \in K
  <2> HIDE DEF K
  <2> QED
    BY <1>3, <1>4, AllNumbers
<1>6. n \in K /\ n \in 0..n
  BY <1>1, <1>5
<1> QED
  BY <1>2, <1>6

LEMMA OverGrows ==
  ASSUME NEW a \in Fractions, NEW c \in Fractions, Leq(a, c), NEW b, Positive(b)
  PROVE  Leq(Over(a, b), Over(c, b))
<1>1. PICK p \in Int, d \in Nat \ {0} : a = <<p, d>>
  BY DEF Fractions
<1>2. PICK r \in Int, f \in Nat \ {0} : c = <<r, f>>
  BY DEF Fractions
<1>3. PICK q \in Nat \ {0}, e \in Nat \ {0} : b = <<q, e>>
  BY DEF Fractions, Positive
<1>4. p * f <= r * d
  BY <1>1, <1>2 DEF Leq
<1>5. IsOver(Over(a, b), p * e, d * q) /\ IsOver(Over(c, b), r * e, f * q)
  BY <1>1, <1>2, <1>3, OverIs
<1>6. e * q \in Nat \ {0}
  BY PositiveProduct
<1>7. (e * q) * (p * f) <= (e * q) * (r * d)
  BY <1>4, <1>6, Scaled
<1>8. (p * e) * (f * q) = (e * q) * (p * f) /\ (r * e) * (d * q) = (e * q) * (r * d)
  OBVIOUS
<1>9. (p * e) * (f * q) <= (r * e) * (d * q)
  BY <1>7, <1>8
<1> QED
  BY <1>5, <1>9, LeqBy

LEMMA MeanIsNumber ==
  ASSUME NEW seq \in Seq(Exact), Len(seq) > 0
  PROVE  Mean(seq) \in Exact /\ SumOf(seq) \in Exact
<1>1. PICK chain \in [0..Len(seq) -> Exact] : chain[Len(seq)] = SumOf(seq)
  BY SumRuns
<1>2. Len(seq) \in Nat \ {0} /\ Len(seq) \in 0..Len(seq)
  OBVIOUS
<1>3. Q(Len(seq)) \in Exact /\ Positive(Q(Len(seq)))
  BY <1>2, NumberReduced, NumberNotNegative
<1> QED
  BY <1>1, <1>2, <1>3, ProductsNumbers DEF Mean

LEMMA MeanGrows ==
  ASSUME NEW a \in Seq(Exact), NEW b \in Seq(Exact), Len(a) = Len(b), Len(a) > 0,
         \A i \in 1..Len(a) : Leq(a[i], b[i])
  PROVE  Leq(Mean(a), Mean(b))
<1>1. SumOf(a) \in Fractions /\ SumOf(b) \in Fractions /\ Leq(SumOf(a), SumOf(b))
  BY SumGrows DEF Exact
<1>2. Len(a) \in Nat \ {0}
  OBVIOUS
<1>3. Positive(Q(Len(a)))
  BY <1>2, NumberNotNegative
<1>4. Leq(Over(SumOf(a), Q(Len(a))), Over(SumOf(b), Q(Len(a))))
  BY <1>1, <1>3, OverGrows
<1> QED
  BY <1>4 DEF Mean

LEMMA MeanOfSame ==
  ASSUME NEW h \in Int, NEW n \in Nat \ {0}
  PROVE  LET a == [i \in 1..n |-> Q(h)] IN
         a \in Seq(Exact) /\ Len(a) = n /\ (\A i \in 1..n : a[i] = Q(h)) /\ IsOver(Mean(a), h, 1)
<1> DEFINE a == [i \in 1..n |-> Q(h)]
<1>1. Q(h) \in Exact
  BY NumberReduced
<1>2. a \in Seq(Exact) /\ Len(a) = n /\ \A i \in 1..n : a[i] = Q(h)
  BY <1>1
<1> HIDE DEF a
<1>3. IsOver(SumOf(a), n * h, 1)
  BY <1>2, SumOfSame
<1>4. PICK s \in Int, t \in Nat \ {0} : SumOf(a) = <<s, t>> /\ SumOf(a) \in Fractions
  BY <1>3 DEF IsOver, Fractions
<1>5. s * 1 = (n * h) * t
  BY <1>3, <1>4 DEF IsOver
<1>6. Positive(Q(n)) /\ Q(n)[1] = n /\ Q(n)[2] = 1
  BY NumberNotNegative, NumberIs
<1>7. IsOver(Over(SumOf(a), Q(n)), s * 1, t * n)
  BY <1>4, <1>6, OverIs
<1>8. (s * 1) * 1 = h * (t * n)
  <2>1. (n * h) * t = h * (t * n)
    OBVIOUS
  <2> QED
    BY <1>5, <2>1
<1>9. IsOver(Over(SumOf(a), Q(n)), h, 1)
  BY <1>7, <1>8, SameOver
<1> QED
  BY <1>2, <1>9 DEF a, Mean

\* An average that takes in one more value, as Wilder's does.
Smooth(x, y, period) == Over(Plus(Times(x, Q(period - 1)), y), Q(period))

LEMMA TimesCommutes ==
  ASSUME NEW a \in Fractions, NEW b \in Fractions
  PROVE  Times(a, b) = Times(b, a)
<1>1. PICK p \in Int, d \in Nat \ {0} : a = <<p, d>>
  BY DEF Fractions
<1>2. PICK q \in Int, e \in Nat \ {0} : b = <<q, e>>
  BY DEF Fractions
<1>3. PICK x \in Fractions, y \in Fractions : x = Ratio(p, e) /\ y = Ratio(q, d)
  BY RatioIs DEF IsOver
<1>4. x[1] * y[1] = y[1] * x[1] /\ x[2] * y[2] = y[2] * x[2]
  BY DEF Fractions
<1> QED
  BY <1>1, <1>2, <1>3, <1>4 DEF Times, Crossed

LEMMA SmoothGrows ==
  ASSUME NEW a \in Exact, NEW b \in Exact, Leq(a, b), NEW x \in Exact, NEW y \in Exact,
         Leq(x, y), NEW period \in Nat \ {0}
  PROVE  /\ Smooth(a, x, period) \in Exact /\ Smooth(b, y, period) \in Exact
         /\ Leq(Smooth(a, x, period), Smooth(b, y, period))
<1>1. period - 1 \in Nat
  OBVIOUS
<1>2. PICK k \in Exact : k = Q(period - 1) /\ NotNegative(k) /\ k \in Fractions
  BY <1>1, NumberReduced, NumberNotNegative
<1>3. PICK m \in Exact : m = Q(period) /\ Positive(m)
  BY NumberReduced, NumberNotNegative
<1>4. a \in Fractions /\ b \in Fractions /\ x \in Fractions /\ y \in Fractions
  BY DEF Exact
<1>5. Times(a, k) = Times(k, a) /\ Times(b, k) = Times(k, b)
  BY <1>2, <1>4, TimesCommutes
<1>6. PICK u \in Fractions, v \in Fractions : u = Times(a, k) /\ v = Times(b, k) /\ Leq(u, v)
  BY <1>2, <1>4, <1>5, TimesGrows DEF NotNegative
<1>7. PICK s \in Exact, t \in Exact : s = Plus(u, x) /\ t = Plus(v, y) /\ Leq(s, t)
  BY <1>4, <1>6, PlusGrows, SumsReduced
<1>8. s \in Fractions /\ t \in Fractions
  BY DEF Exact
<1>9. Over(s, m) \in Exact /\ Over(t, m) \in Exact /\ Leq(Over(s, m), Over(t, m))
  BY <1>3, <1>7, <1>8, ProductsNumbers, OverGrows
<1> QED
  BY <1>2, <1>3, <1>6, <1>7, <1>9 DEF Smooth

LEMMA SmoothOfSame ==
  ASSUME NEW h \in Int, NEW period \in Nat \ {0}
  PROVE  IsOver(Smooth(Q(h), Q(h), period), h, 1)
<1>1. PICK m \in Nat : m = period - 1
  OBVIOUS
<1>2. /\ Q(h) \in Fractions /\ Q(h)[1] = h /\ Q(h)[2] = 1
      /\ Q(m) \in Fractions /\ Q(m)[1] = m /\ Q(m)[2] = 1
      /\ Positive(Q(period)) /\ Q(period)[1] = period /\ Q(period)[2] = 1
  BY NumberIs, NumberNotNegative
<1>3. IsOver(Times(Q(h), Q(m)), h * m, 1 * 1)
  BY <1>2, TimesIs
<1>4. PICK s \in Int, t \in Nat \ {0} : Times(Q(h), Q(m)) = <<s, t>> /\ <<s, t>> \in Fractions
  BY <1>3 DEF IsOver, Fractions
<1>5. s * (1 * 1) = (h * m) * t
  BY <1>3, <1>4 DEF IsOver
<1>6. PICK z \in Fractions : z = Plus(Times(Q(h), Q(m)), Q(h)) /\ IsOver(z, s * 1 + h * t, t * 1)
  BY <1>2, <1>4, PlusIs DEF IsOver
<1>7. PICK u \in Int, v \in Nat \ {0} : z = <<u, v>>
  BY DEF Fractions
<1>8. IsOver(z, h * period, 1)
  <2>1. h * period = h * m + h
    BY <1>1
  <2>2. (h * m + h) * t = (h * m) * t + h * t /\ h * m \in Int
    OBVIOUS
  <2>3. (s * 1 + h * t) * 1 = (h * period) * (t * 1)
    BY <1>5, <2>1, <2>2
  <2>4. h * period \in Int /\ 1 \in Nat \ {0}
    OBVIOUS
  <2> QED
    BY <1>6, <2>3, <2>4, SameOver
<1>9. u * 1 = (h * period) * v
  BY <1>7, <1>8 DEF IsOver
<1>10. IsOver(Over(z, Q(period)), u * 1, v * period)
  BY <1>2, <1>7, OverIs
<1>11. (u * 1) * 1 = h * (v * period)
  <2>1. (h * period) * v = h * (v * period)
    OBVIOUS
  <2> QED
    BY <1>9, <2>1
<1>12. IsOver(Over(z, Q(period)), h, 1)
  BY <1>10, <1>11, SameOver
<1> QED
  BY <1>1, <1>6, <1>12 DEF Smooth

\* A part of a sequence.
LEMMA PartIs ==
  ASSUME NEW S, NEW s \in Seq(S), NEW k \in Nat, NEW n \in Nat, k + n <= Len(s),
         NEW from, from = k + 1, NEW to, to = k + n
  PROVE  /\ SubSeq(s, from, to) \in Seq(S) /\ Len(SubSeq(s, from, to)) = n
         /\ \A i \in 1..n : SubSeq(s, from, to)[i] = s[k + i] /\ s[k + i] \in S
<1>1. from \in Nat /\ to \in Nat
  OBVIOUS
<1>2. \A i \in from..to : s[i] \in S
  <2>1. \A i \in from..to : i \in 1..Len(s)
    BY <1>1
  <2> QED
    BY <2>1, ElementOfSeq
<1>3. /\ SubSeq(s, from, to) \in Seq(S)
      /\ Len(SubSeq(s, from, to)) = IF from <= to THEN to - from + 1 ELSE 0
      /\ \A i \in 1..(to - from + 1) : SubSeq(s, from, to)[i] = s[from + i - 1]
  <2>1. from \in Int /\ to \in Int
    BY <1>1
  <2> QED
    BY <1>2, <2>1, SubSeqProperties
<1>4. to - from + 1 = n /\ (n # 0 => from <= to) /\ (n = 0 => ~(from <= to))
  BY <1>1
<1>5. Len(SubSeq(s, from, to)) = n
  BY <1>3, <1>4
<1>6. ASSUME NEW i \in 1..n PROVE SubSeq(s, from, to)[i] = s[k + i] /\ s[k + i] \in S
  <2>1. from + i - 1 = k + i /\ k + i \in 1..Len(s)
    BY <1>1
  <2> QED
    BY <1>3, <1>4, <2>1, ElementOfSeq
<1> QED
  BY <1>3, <1>5, <1>6

\* The first members of a sequence.
LEMMA StartIs ==
  ASSUME NEW S, NEW s \in Seq(S), NEW n \in Nat, n <= Len(s)
  PROVE  /\ SubSeq(s, 1, n) \in Seq(S) /\ Len(SubSeq(s, 1, n)) = n
         /\ \A i \in 1..n : SubSeq(s, 1, n)[i] = s[i] /\ s[i] \in S
<1>1. 0 \in Nat /\ 0 + n <= Len(s) /\ 1 = 0 + 1 /\ n = 0 + n
  OBVIOUS
<1>2. /\ SubSeq(s, 1, n) \in Seq(S) /\ Len(SubSeq(s, 1, n)) = n
      /\ \A i \in 1..n : SubSeq(s, 1, n)[i] = s[0 + i] /\ s[0 + i] \in S
  BY <1>1, PartIs
<1>3. \A i \in 1..n : 0 + i = i
  OBVIOUS
<1> QED
  BY <1>2, <1>3

\* Sets of numbers that contain the averages of their members.
Averaged(P) ==
  /\ P \in SUBSET Exact
  /\ \A s \in Seq(P) : Len(s) > 0 => Mean(s) \in P
  /\ \A x, y \in P, period \in Nat \ {0} : Smooth(x, y, period) \in P

AtLeast(low) == {x \in Exact : Leq(Q(low), x)}

LEMMA AtLeastAveraged ==
  ASSUME NEW low \in Int
  PROVE  Averaged(AtLeast(low))
<1> DEFINE P == AtLeast(low)
<1>1. P \in SUBSET Exact
  BY DEF AtLeast
<1>2. Q(low) \in Exact /\ Q(low) \in Fractions /\ IsOver(Q(low), low, 1)
  BY NumberReduced DEF IsOver, Q
<1>3. ASSUME NEW z \in Exact, NEW w, IsOver(w, low, 1), Leq(w, z) PROVE z \in P
  <2>1. low * 1 <= low * 1
    OBVIOUS
  <2>2. Leq(Q(low), w)
    BY <1>2, <1>3, <2>1, LeqBy
  <2>3. w \in Fractions /\ z \in Fractions
    BY <1>3 DEF IsOver, Exact
  <2>4. Leq(Q(low), z)
    BY <1>2, <1>3, <2>2, <2>3, LeqChain
  <2> QED
    BY <1>3, <2>4 DEF AtLeast
<1>4. ASSUME NEW s \in Seq(P), Len(s) > 0 PROVE Mean(s) \in P
  <2>1. s \in Seq(Exact)
    BY <1>1
  <2>2. PICK n \in Nat \ {0} : n = Len(s)
    BY <1>4
  <2>3. PICK a \in Seq(Exact) : Len(a) = n /\ (\A i \in 1..n : a[i] = Q(low)) /\ IsOver(Mean(a), low, 1)
    BY MeanOfSame
  <2>4. ASSUME NEW i \in 1..n PROVE Leq(a[i], s[i])
    <3>1. s[i] \in P
      BY <2>2, ElementOfSeq
    <3> QED
      BY <2>3, <3>1 DEF AtLeast
  <2>5. Leq(Mean(a), Mean(s))
    BY <2>1, <2>2, <2>3, <2>4, MeanGrows
  <2>6. Mean(s) \in Exact
    BY <1>4, <2>1, MeanIsNumber
  <2> QED
    BY <1>3, <2>3, <2>5, <2>6
<1>5. ASSUME NEW x \in P, NEW y \in P, NEW period \in Nat \ {0} PROVE Smooth(x, y, period) \in P
  <2>1. x \in Exact /\ y \in Exact /\ Leq(Q(low), x) /\ Leq(Q(low), y)
    BY DEF AtLeast
  <2>2. Smooth(x, y, period) \in Exact /\ Leq(Smooth(Q(low), Q(low), period), Smooth(x, y, period))
    BY <1>2, <2>1, SmoothGrows
  <2> QED
    BY <1>3, <2>2, SmoothOfSame
<1> QED
  BY <1>1, <1>4, <1>5 DEF Averaged

LEMMA SpanAveraged ==
  ASSUME NEW low \in Int, NEW high \in Int
  PROVE  Averaged(Span(low, high))
<1> DEFINE P == Span(low, high)
<1>1. P \in SUBSET Exact /\ P \in SUBSET AtLeast(low)
  BY DEF Span, AtLeast
<1>2. Q(high) \in Exact /\ Q(high) \in Fractions /\ IsOver(Q(high), high, 1)
  BY NumberReduced DEF IsOver, Q
<1>3. ASSUME NEW z \in AtLeast(low), NEW w, IsOver(w, high, 1), Leq(z, w) PROVE z \in P
  <2>1. high * 1 <= high * 1
    OBVIOUS
  <2>2. Leq(w, Q(high))
    BY <1>2, <1>3, <2>1, LeqBy
  <2>3. z \in Exact /\ Leq(Q(low), z)
    BY DEF AtLeast
  <2>4. w \in Fractions /\ z \in Fractions
    BY <1>3, <2>3 DEF IsOver, Exact
  <2>5. Leq(z, Q(high))
    BY <1>2, <1>3, <2>2, <2>4, LeqChain
  <2> QED
    BY <2>3, <2>5 DEF Span
<1>4. ASSUME NEW s \in Seq(P), Len(s) > 0 PROVE Mean(s) \in P
  <2>1. s \in Seq(Exact) /\ s \in Seq(AtLeast(low))
    BY <1>1
  <2>2. PICK n \in Nat \ {0} : n = Len(s)
    BY <1>4
  <2>3. PICK a \in Seq(Exact) : Len(a) = n /\ (\A i \in 1..n : a[i] = Q(high)) /\ IsOver(Mean(a), high, 1)
    BY MeanOfSame
  <2>4. ASSUME NEW i \in 1..n PROVE Leq(s[i], a[i])
    <3>1. s[i] \in P
      BY <2>2, ElementOfSeq
    <3> QED
      BY <2>3, <3>1 DEF Span
  <2>5. Leq(Mean(s), Mean(a))
    BY <2>1, <2>2, <2>3, <2>4, MeanGrows
  <2>6. Mean(s) \in AtLeast(low)
    BY <1>4, <2>1, AtLeastAveraged DEF Averaged
  <2> QED
    BY <1>3, <2>3, <2>5, <2>6
<1>5. ASSUME NEW x \in P, NEW y \in P, NEW period \in Nat \ {0} PROVE Smooth(x, y, period) \in P
  <2>1. x \in Exact /\ y \in Exact /\ Leq(x, Q(high)) /\ Leq(y, Q(high))
    BY DEF Span
  <2>2. Leq(Smooth(x, y, period), Smooth(Q(high), Q(high), period))
    BY <1>2, <2>1, SmoothGrows
  <2>3. Smooth(x, y, period) \in AtLeast(low)
    BY <1>1, AtLeastAveraged DEF Averaged
  <2> QED
    BY <1>3, <2>2, <2>3, SmoothOfSame
<1> QED
  BY <1>1, <1>4, <1>5 DEF Averaged

LEMMA NumbersAveraged == Averaged(Exact)
<1>1. ASSUME NEW x \in Exact, NEW y \in Exact, NEW period \in Nat \ {0}
      PROVE  Smooth(x, y, period) \in Exact
  <2>1. Leq(x, x) /\ Leq(y, y)
    BY LeqTotal DEF Exact
  <2> QED
    BY <2>1, SmoothGrows
<1> QED
  BY <1>1, MeanIsNumber DEF Averaged

\* wilderSmooth after its first value.
SmoothedFrom(first, rest, period) ==
  LET next(s, x) == Append(s, Over(Plus(Times(Last(s), Q(period - 1)), x), Q(period))) IN
  FoldLeft(next, <<first>>, rest)

Smoothing(chain, first, rest, period, out) ==
  /\ chain[0] = <<first>> /\ chain[Len(rest)] = out
  /\ \A i \in 1..Len(rest) :
       chain[i] = Append(chain[i - 1], Smooth(Last(chain[i - 1]), rest[i], period))

LEMMA WilderRuns ==
  ASSUME NEW P, Averaged(P), NEW first \in P, NEW rest \in Seq(P), NEW period \in Nat \ {0}
  PROVE  \E chain \in [0..Len(rest) -> Seq(P) \ {<<>>}] :
           Smoothing(chain, first, rest, period, SmoothedFrom(first, rest, period))
<1> DEFINE n == Len(rest)
           Next1(r, i) == Append(r, Over(Plus(Times(Last(r), Q(period - 1)), rest[i]), Q(period)))
           Step(t, h) == IF t = {} THEN <<first>> ELSE Next1(h[t \ {Max(t)}], Max(t))
           Adds(h) == h = [t \in SUBSET (1..n) |-> Step(t, h)]
           iter == CHOOSE h : Adds(h)
           g == [x \in (1..n) \X (Seq(P) \ {<<>>}) |-> Next1(x[2], x[1])]
<1>2. n \in Nat /\ DOMAIN rest = 1..n
  OBVIOUS
<1>3. SmoothedFrom(first, rest, period) = iter[1..n]
  BY <1>2 DEF SmoothedFrom, FoldLeft, MapThenFoldSet
<1>4. <<first>> \in (Seq(P) \ {<<>>}) /\ \A i \in 1..n : \A r \in (Seq(P) \ {<<>>}) : Next1(r, i) \in (Seq(P) \ {<<>>})
  <2>2. ASSUME NEW i \in 1..n, NEW r \in Seq(P) \ {<<>>} PROVE Next1(r, i) \in Seq(P) \ {<<>>}
    <3>1. Last(r) \in P
      <4>1. Len(r) \in 1..Len(r)
        OBVIOUS
      <4> QED
        BY <4>1, ElementOfSeq DEF Last
    <3>2. rest[i] \in P
      BY <1>2, ElementOfSeq
    <3>3. PICK x \in P : x = Smooth(Last(r), rest[i], period)
      BY <3>1, <3>2 DEF Averaged
    <3>4. Append(r, x) \in Seq(P) /\ Len(Append(r, x)) = Len(r) + 1
      BY <3>3
    <3>5. Append(r, x) # <<>>
      BY <3>4
    <3> QED
      BY <3>3, <3>4, <3>5 DEF Smooth
  <2>3. <<first>> \in Seq(P) /\ <<first>> # <<>>
    OBVIOUS
  <2> HIDE DEF Next1
  <2> QED
    BY <2>2, <2>3
<1>5. g \in [(1..n) \X (Seq(P) \ {<<>>}) -> (Seq(P) \ {<<>>})]
  <2> HIDE DEF Next1
  <2> QED
    BY <1>4
<1>6. \E h \in [SUBSET (1..n) -> (Seq(P) \ {<<>>})] : Adds(h)
  <2>1. PICK h \in [SUBSET (1..n) -> (Seq(P) \ {<<>>})] : Folded(h, <<first>>, g, n)
    <3> HIDE DEF g
    <3> QED
      BY <1>2, <1>4, <1>5, FoldsExist
  <2>2. ASSUME NEW t \in SUBSET (1..n) PROVE h[t] = Step(t, h)
    <3>1. CASE t = {}
      BY <2>1, <3>1 DEF Folded
    <3>2. CASE t # {}
      <4>1. Max(t) \in 1..n
        <5>1. t \in SUBSET (0..n)
          OBVIOUS
        <5>2. Max(t) \in t
          BY <1>2, <3>2, <5>1, GreatestIsMember
        <5> QED
          BY <5>2
      <4>2. h[t] = g[<<Max(t), h[t \ {Max(t)}]>>]
        BY <2>1, <3>2 DEF Folded
      <4>3. h[t \ {Max(t)}] \in (Seq(P) \ {<<>>})
        OBVIOUS
      <4>4. <<Max(t), h[t \ {Max(t)}]>> \in (1..n) \X (Seq(P) \ {<<>>})
        BY <4>1, <4>3
      <4> HIDE DEF Next1
      <4>5. g[<<Max(t), h[t \ {Max(t)}]>>] = Next1(h[t \ {Max(t)}], Max(t))
        BY <4>4
      <4> QED
        BY <3>2, <4>2, <4>5
    <3> QED
      BY <3>1, <3>2
  <2>3. Adds(h)
    <3> HIDE DEF Step
    <3> QED
      BY <2>1, <2>2, Zenon
  <2> QED
    BY <2>3
<1>7. Adds(iter)
  <2> HIDE DEF Adds
  <2> QED
    BY <1>6, Zenon
<1> HIDE DEF iter, Next1
<1>8. iter[1..0] = <<first>>
  <2>1. {} \in SUBSET (1..n) /\ 1..0 = {}
    OBVIOUS
  <2>2. iter[{}] = Step({}, iter)
    BY <1>7, <2>1
  <2> QED
    BY <2>1, <2>2
<1>9. ASSUME NEW i \in 1..n PROVE iter[1..i] = Next1(iter[1..(i - 1)], i)
  <2>1. /\ 1..i \in SUBSET (1..n) /\ 1..i # {} /\ Max(1..i) = i /\ (1..i) \ {i} = 1..(i - 1)
    BY <1>2, FoldSteps
  <2>2. iter[1..i] = Step(1..i, iter)
    BY <1>7, <2>1
  <2> QED
    BY <2>1, <2>2
<1>10. \A i \in 0..n : iter[1..i] \in (Seq(P) \ {<<>>})
  <2> DEFINE I == {i \in Nat : i <= n => iter[1..i] \in (Seq(P) \ {<<>>})}
  <2> HIDE DEF n
  <2>1. 0 \in I
    BY <1>4, <1>8
  <2>2. ASSUME NEW i \in Nat, i \in I PROVE i + 1 \in I
    <3> SUFFICES ASSUME i + 1 <= n PROVE iter[1..(i + 1)] \in (Seq(P) \ {<<>>})
      OBVIOUS
    <3>1. i + 1 \in 1..n /\ i + 1 - 1 = i /\ iter[1..i] \in (Seq(P) \ {<<>>})
      BY <1>2, <2>2
    <3>2. iter[1..(i + 1)] = Next1(iter[1..i], i + 1)
      BY <1>9, <3>1
    <3> QED
      BY <1>4, <3>1, <3>2
  <2>3. \A i \in Nat : i \in I
    <3> HIDE DEF I
    <3> QED
      BY <2>1, <2>2, AllNumbers
  <2> QED
    BY <1>2, <2>3
<1>11. PICK chain \in [0..n -> (Seq(P) \ {<<>>})] : chain = [i \in 0..n |-> iter[1..i]]
  BY <1>10
<1>12. chain[0] = <<first>> /\ chain[n] = SmoothedFrom(first, rest, period)
  BY <1>2, <1>3, <1>8, <1>11
<1>13. ASSUME NEW i \in 1..n PROVE chain[i] = Next1(chain[i - 1], i)
  <2>1. i \in 0..n /\ i - 1 \in 0..n
    BY <1>2
  <2> QED
    BY <1>9, <1>11, <2>1
<1> QED
  BY <1>12, <1>13 DEF Next1, Smooth, Smoothing

\* Place by place, the smoothed values.
LEMMA WilderIs ==
  ASSUME NEW P, Averaged(P), NEW values \in Seq(P), NEW period \in Nat \ {0}, Len(values) >= period
  PROVE  /\ wilderSmooth(values, period) \in Seq(P)
         /\ Len(wilderSmooth(values, period)) = Len(values) - period + 1
         /\ wilderSmooth(values, period)[1] = Mean(SubSeq(values, 1, period))
         /\ \A i \in 1..(Len(values) - period) :
              wilderSmooth(values, period)[i + 1] =
                Smooth(wilderSmooth(values, period)[i], values[period + i], period)
<1>1. PICK m \in Nat : m = Len(values) - period
  OBVIOUS
<1>11. PICK out, first, rest :
         /\ first = Mean(SubSeq(values, 1, period)) /\ rest = SubSeq(values, period + 1, Len(values))
         /\ out = SmoothedFrom(first, rest, period)
  OBVIOUS
<1>12. out = wilderSmooth(values, period)
  BY <1>11 DEF wilderSmooth, SmoothedFrom
<1>13. rest \in Seq(P) /\ Len(rest) = m /\ \A i \in 1..m : rest[i] = values[period + i]
  <2>1. period + m <= Len(values) /\ Len(values) = period + m /\ period \in Nat
    BY <1>1
  <2> QED
    BY <1>11, <2>1, PartIs
<1>14. first \in P
  <2>1. period \in Nat /\ period <= Len(values)
    OBVIOUS
  <2>2. SubSeq(values, 1, period) \in Seq(P) /\ Len(SubSeq(values, 1, period)) = period
    BY <2>1, StartIs
  <2>3. PICK c : c = SubSeq(values, 1, period)
    OBVIOUS
  <2>5. c \in Seq(P) /\ Len(c) > 0
    BY <2>2, <2>3
  <2>4. Mean(c) \in P
    BY <2>5 DEF Averaged
  <2> QED
    BY <1>11, <2>3, <2>4
<1>2. PICK x \in [0..m -> Seq(P) \ {<<>>}] :
        /\ x[0] = <<first>> /\ x[m] = out
        /\ \A i \in 1..m : x[i] = Append(x[i - 1], Smooth(Last(x[i - 1]), rest[i], period))
  <2>1. PICK x \in [0..Len(rest) -> Seq(P) \ {<<>>}] : Smoothing(x, first, rest, period, out)
    <3>1. \E x \in [0..Len(rest) -> Seq(P) \ {<<>>}] :
             Smoothing(x, first, rest, period, SmoothedFrom(first, rest, period))
      BY <1>13, <1>14, WilderRuns
    <3> QED
      BY <1>11, <3>1
  <2> QED
    BY <1>13, <2>1 DEF Smoothing
<1> DEFINE Good(i) == /\ Len(x[i]) = i + 1 /\ x[i][1] = first
                      /\ \A j \in 1..i : x[i][j + 1] = Smooth(x[i][j], rest[j], period)
           K == {i \in Nat : i <= m => Good(i)}
<1>3. 0 \in K
  <2>1. Len(<<first>>) = 1 /\ <<first>>[1] = first /\ 1..0 = {}
    OBVIOUS
  <2>2. Good(0)
    BY <1>2, <2>1
  <2> HIDE DEF Good
  <2> QED
    BY <2>2
<1>4. ASSUME NEW i \in Nat, i \in K PROVE i + 1 \in K
  <2> SUFFICES ASSUME i + 1 <= m PROVE Good(i + 1)
    OBVIOUS
  <2>1. i + 1 \in 1..m /\ i + 1 - 1 = i /\ i \in 0..m /\ i <= m
    OBVIOUS
  <2>2. Good(i)
    BY <1>4, <2>1
  <2>3. PICK old \in Seq(P) : old = x[i]
    BY <2>1
  <2>4. PICK z : z = Smooth(Last(old), rest[i + 1], period)
    OBVIOUS
  <2>5. x[i + 1] = Append(old, z)
    BY <1>2, <2>1, <2>3, <2>4
  <2>6. Len(old) = i + 1 /\ Last(old) = old[i + 1]
    BY <2>2, <2>3 DEF Last
  <2>7. /\ Len(x[i + 1]) = i + 2
        /\ x[i + 1][i + 2] = z
        /\ \A j \in 1..(i + 1) : x[i + 1][j] = old[j]
    BY <2>5, <2>6
  <2>8. x[i + 1][1] = first
    BY <2>2, <2>3, <2>7
  <2>9. ASSUME NEW j \in 1..(i + 1)
        PROVE  x[i + 1][j + 1] = Smooth(x[i + 1][j], rest[j], period)
    <3>1. CASE j = i + 1
      BY <2>4, <2>6, <2>7, <3>1
    <3>2. CASE j # i + 1
      <4>1. j \in 1..i /\ j + 1 \in 1..(i + 1)
        BY <3>2
      <4> QED
        BY <2>2, <2>3, <2>7, <4>1
    <3> QED
      BY <3>1, <3>2
  <2> QED
    BY <2>7, <2>8, <2>9
<1> HIDE DEF Good
<1>5. \A i \in Nat : i \in K
  <2> HIDE DEF K
  <2> QED
    BY <1>3, <1>4, AllNumbers
<1>6. Good(m) /\ m \in 0..m
  BY <1>5
<1>7. out \in Seq(P) /\ Len(out) = m + 1 /\ out[1] = first
  BY <1>2, <1>6 DEF Good
<1>8. \A i \in 1..m : out[i + 1] = Smooth(out[i], values[period + i], period)
  BY <1>2, <1>6, <1>13 DEF Good
<1> QED
  BY <1>1, <1>7, <1>8, <1>11, <1>12

\* Smoothing keeps the order of two series.
LEMMA WilderGrows ==
  ASSUME NEW a \in Seq(Exact), NEW b \in Seq(Exact), NEW period \in Nat \ {0},
         Len(a) = Len(b), Len(a) >= period, \A i \in 1..Len(a) : Leq(a[i], b[i])
  PROVE  \A i \in 1..(Len(a) - period + 1) : Leq(wilderSmooth(a, period)[i], wilderSmooth(b, period)[i])
<1>1. PICK m \in Nat : m = Len(a) - period /\ m = Len(b) - period
  OBVIOUS
<1>2. PICK u \in Seq(Exact) :
        /\ u = wilderSmooth(a, period) /\ Len(u) = m + 1 /\ u[1] = Mean(SubSeq(a, 1, period))
        /\ \A i \in 1..m : u[i + 1] = Smooth(u[i], a[period + i], period)
  <2>1. Len(a) >= period
    OBVIOUS
  <2> QED
    BY <1>1, <2>1, WilderIs, NumbersAveraged
<1>3. PICK v \in Seq(Exact) :
        /\ v = wilderSmooth(b, period) /\ Len(v) = m + 1 /\ v[1] = Mean(SubSeq(b, 1, period))
        /\ \A i \in 1..m : v[i + 1] = Smooth(v[i], b[period + i], period)
  <2>1. Len(b) >= period
    OBVIOUS
  <2>2. /\ wilderSmooth(b, period) \in Seq(Exact)
        /\ Len(wilderSmooth(b, period)) = Len(b) - period + 1
        /\ wilderSmooth(b, period)[1] = Mean(SubSeq(b, 1, period))
        /\ \A i \in 1..(Len(b) - period) :
             wilderSmooth(b, period)[i + 1] =
               Smooth(wilderSmooth(b, period)[i], b[period + i], period)
    BY <2>1, WilderIs, NumbersAveraged, Zenon
  <2>3. Len(b) - period + 1 = m + 1
    BY <1>1
  <2> QED
    BY <1>1, <2>2, <2>3
<1>4. \A i \in 1..(m + period) : a[i] \in Exact /\ b[i] \in Exact /\ Leq(a[i], b[i])
  BY <1>1, ElementOfSeq
<1> DEFINE K == {i \in Nat : i <= m => Leq(u[i + 1], v[i + 1])}
<1>5. 0 \in K
  <2>1. \A i \in 1..period : a[i] \in Exact /\ b[i] \in Exact
    BY <1>4
  <2>0. period \in Nat /\ period <= Len(a) /\ period <= Len(b)
    OBVIOUS
  <2>2. PICK c \in Seq(Exact) : c = SubSeq(a, 1, period) /\ Len(c) = period /\ \A i \in 1..period : c[i] = a[i]
    <3>1. /\ SubSeq(a, 1, period) \in Seq(Exact) /\ Len(SubSeq(a, 1, period)) = period
          /\ \A i \in 1..period : SubSeq(a, 1, period)[i] = a[i]
      BY <2>0, StartIs
    <3> QED
      BY <3>1
  <2>3. PICK d \in Seq(Exact) : d = SubSeq(b, 1, period) /\ Len(d) = period /\ \A i \in 1..period : d[i] = b[i]
    <3>1. /\ SubSeq(b, 1, period) \in Seq(Exact) /\ Len(SubSeq(b, 1, period)) = period
          /\ \A i \in 1..period : SubSeq(b, 1, period)[i] = b[i]
      BY <2>0, StartIs
    <3> QED
      BY <3>1
  <2>4. \A i \in 1..period : Leq(c[i], d[i])
    BY <1>4, <2>2, <2>3
  <2>5. Leq(Mean(c), Mean(d))
    <3>1. Len(c) > 0 /\ Len(c) = Len(d) /\ \A i \in 1..Len(c) : Leq(c[i], d[i])
      BY <2>2, <2>3, <2>4
    <3> QED
      BY <3>1, MeanGrows
  <2> QED
    BY <1>2, <1>3, <2>2, <2>3, <2>5
<1>6. ASSUME NEW i \in Nat, i \in K PROVE i + 1 \in K
  <2> SUFFICES ASSUME i + 1 <= m PROVE Leq(u[(i + 1) + 1], v[(i + 1) + 1])
    OBVIOUS
  <2> HIDE DEF K
  <2>1. PICK k \in 1..m : k = i + 1 /\ i <= m /\ k \in 1..(m + 1) /\ period + k \in 1..(m + period)
    OBVIOUS
  <2>2. Leq(u[k], v[k])
    BY <1>6, <2>1 DEF K
  <2>3. u[k] \in Exact /\ v[k] \in Exact
    BY <1>2, <1>3, <2>1, ElementOfSeq
  <2>4. /\ u[k + 1] = Smooth(u[k], a[period + k], period)
        /\ v[k + 1] = Smooth(v[k], b[period + k], period)
    BY <1>2, <1>3
  <2>5. /\ a[period + k] \in Exact /\ b[period + k] \in Exact
        /\ Leq(a[period + k], b[period + k])
    BY <1>4, <2>1
  <2>6. Leq(Smooth(u[k], a[period + k], period), Smooth(v[k], b[period + k], period))
    BY <2>2, <2>3, <2>5, SmoothGrows
  <2>7. Leq(u[k + 1], v[k + 1])
    BY <2>4, <2>6
  <2> QED
    BY <2>1, <2>7
<1>7. \A i \in Nat : i \in K
  <2> HIDE DEF K
  <2> QED
    BY <1>5, <1>6, AllNumbers
<1>8. ASSUME NEW i \in 1..(Len(a) - period + 1) PROVE Leq(u[i], v[i])
  <2>1. i - 1 \in Nat /\ i - 1 <= m /\ (i - 1) + 1 = i
    BY <1>1
  <2> QED
    BY <1>7, <2>1
<1> QED
  BY <1>2, <1>3, <1>8

-----------------------------------------------------------------------------
(* The oscillators (momentum-indicators.ts, volume-indicators.ts,           *)
(* trend-indicators.ts) stay in their ranges.                               *)

\* The averages of calcRSI after the first.
Averages == [gain : AtLeast(0), loss : AtLeast(0)]
AveragesFrom(start, rest, period) ==
  LET smooths(avg, x) ==
        [gain |-> Over(Plus(Times(avg.gain, Q(period - 1)), x.gain), Q(period)),
         loss |-> Over(Plus(Times(avg.loss, Q(period - 1)), x.loss), Q(period))]
  IN  FoldLeft(smooths, start, rest)

LEMMA AveragesStay ==
  ASSUME NEW start \in Averages, NEW rest \in Seq(Averages), NEW period \in Nat \ {0}
  PROVE  AveragesFrom(start, rest, period) \in Averages
<1> DEFINE n == Len(rest)
           Next1(r, i) == [gain |-> Over(Plus(Times(r.gain, Q(period - 1)), rest[i].gain), Q(period)),
                           loss |-> Over(Plus(Times(r.loss, Q(period - 1)), rest[i].loss), Q(period))]
           Step(t, h) == IF t = {} THEN start ELSE Next1(h[t \ {Max(t)}], Max(t))
           Adds(h) == h = [t \in SUBSET (1..n) |-> Step(t, h)]
           iter == CHOOSE h : Adds(h)
           g == [x \in (1..n) \X Averages |-> Next1(x[2], x[1])]
<1>2. n \in Nat /\ DOMAIN rest = 1..n
  OBVIOUS
<1>3. AveragesFrom(start, rest, period) = iter[1..n]
  BY <1>2 DEF AveragesFrom, FoldLeft, MapThenFoldSet
<1>4. start \in Averages /\ \A i \in 1..n : \A r \in Averages : Next1(r, i) \in Averages
  <2>1. ASSUME NEW i \in 1..n, NEW r \in Averages PROVE Next1(r, i) \in Averages
    <3>1. PICK x \in Averages : x = rest[i]
      BY <1>2, ElementOfSeq
    <3>2. r.gain \in AtLeast(0) /\ r.loss \in AtLeast(0) /\ x.gain \in AtLeast(0) /\ x.loss \in AtLeast(0)
      BY DEF Averages
    <3>3. Averaged(AtLeast(0))
      BY AtLeastAveraged
    <3>4. Smooth(r.gain, x.gain, period) \in AtLeast(0) /\ Smooth(r.loss, x.loss, period) \in AtLeast(0)
      BY <3>2, <3>3 DEF Averaged
    <3>5. [gain |-> Smooth(r.gain, x.gain, period), loss |-> Smooth(r.loss, x.loss, period)] \in Averages
      BY <3>4 DEF Averages
    <3> QED
      BY <3>1, <3>5 DEF Smooth
  <2> HIDE DEF Next1
  <2> QED
    BY <2>1
<1>5. g \in [(1..n) \X Averages -> Averages]
  <2> HIDE DEF Next1
  <2> QED
    BY <1>4
<1>6. \E h \in [SUBSET (1..n) -> Averages] : Adds(h)
  <2>1. PICK h \in [SUBSET (1..n) -> Averages] : Folded(h, start, g, n)
    <3> HIDE DEF g
    <3> QED
      BY <1>2, <1>4, <1>5, FoldsExist
  <2>2. ASSUME NEW t \in SUBSET (1..n) PROVE h[t] = Step(t, h)
    <3>1. CASE t = {}
      BY <2>1, <3>1 DEF Folded
    <3>2. CASE t # {}
      <4>1. Max(t) \in 1..n
        <5>1. t \in SUBSET (0..n)
          OBVIOUS
        <5>2. Max(t) \in t
          BY <1>2, <3>2, <5>1, GreatestIsMember
        <5> QED
          BY <5>2
      <4>2. h[t] = g[<<Max(t), h[t \ {Max(t)}]>>]
        BY <2>1, <3>2 DEF Folded
      <4>3. h[t \ {Max(t)}] \in Averages
        OBVIOUS
      <4>4. <<Max(t), h[t \ {Max(t)}]>> \in (1..n) \X Averages
        BY <4>1, <4>3
      <4> HIDE DEF Next1
      <4>5. g[<<Max(t), h[t \ {Max(t)}]>>] = Next1(h[t \ {Max(t)}], Max(t))
        BY <4>4
      <4> QED
        BY <3>2, <4>2, <4>5
    <3> QED
      BY <3>1, <3>2
  <2>3. Adds(h)
    <3> HIDE DEF Step
    <3> QED
      BY <2>1, <2>2, Zenon
  <2> QED
    BY <2>3
<1>7. Adds(iter)
  <2> HIDE DEF Adds
  <2> QED
    BY <1>6, Zenon
<1> HIDE DEF iter, Next1
<1>8. iter[1..0] = start
  <2>1. {} \in SUBSET (1..n) /\ 1..0 = {}
    OBVIOUS
  <2>2. iter[{}] = Step({}, iter)
    BY <1>7, <2>1
  <2> QED
    BY <2>1, <2>2
<1>9. ASSUME NEW i \in 1..n PROVE iter[1..i] = Next1(iter[1..(i - 1)], i)
  <2>1. /\ 1..i \in SUBSET (1..n) /\ 1..i # {} /\ Max(1..i) = i /\ (1..i) \ {i} = 1..(i - 1)
    BY <1>2, FoldSteps
  <2>2. iter[1..i] = Step(1..i, iter)
    BY <1>7, <2>1
  <2> QED
    BY <2>1, <2>2
<1>10. \A i \in 0..n : iter[1..i] \in Averages
  <2> DEFINE I == {i \in Nat : i <= n => iter[1..i] \in Averages}
  <2> HIDE DEF n
  <2>1. 0 \in I
    BY <1>4, <1>8
  <2>2. ASSUME NEW i \in Nat, i \in I PROVE i + 1 \in I
    <3> SUFFICES ASSUME i + 1 <= n PROVE iter[1..(i + 1)] \in Averages
      OBVIOUS
    <3>1. i + 1 \in 1..n /\ i + 1 - 1 = i /\ iter[1..i] \in Averages
      BY <1>2, <2>2
    <3>2. iter[1..(i + 1)] = Next1(iter[1..i], i + 1)
      BY <1>9, <3>1
    <3> QED
      BY <1>4, <3>1, <3>2
  <2>3. \A i \in Nat : i \in I
    <3> HIDE DEF I
    <3> QED
      BY <2>1, <2>2, AllNumbers
  <2> QED
    BY <1>2, <2>3
<1> QED
  BY <1>2, <1>3, <1>10

LEMMA ZeroAtLeast ==
  ASSUME NEW x \in Exact
  PROVE  x \in AtLeast(0) <=> NotNegative(x)
BY SignOfNumber DEF AtLeast, Zero

LEMMA GainsAre ==
  ASSUME NEW closes \in Seq(Reduced), Len(closes) > 0
  PROVE  GainsAndLosses(closes) \in Seq(Averages) /\ Len(GainsAndLosses(closes)) = Len(closes) - 1
<1>1. PICK n \in Nat : n = Len(closes) - 1
  OBVIOUS
<1> DEFINE change(i) == Minus(closes[i + 1], closes[i])
           each(i) == [gain |-> Larger(change(i), Zero), loss |-> Larger(Minus(Zero, change(i)), Zero)]
<1>2. ASSUME NEW i \in 1..n PROVE each(i) \in Averages
  <2>1. i \in 1..Len(closes) /\ i + 1 \in 1..Len(closes)
    BY <1>1
  <2>2. closes[i] \in Reduced /\ closes[i + 1] \in Reduced
    BY <2>1, ElementOfSeq
  <2>3. Zero \in Exact /\ Zero \in Fractions
    BY NumberReduced DEF Zero
  <2>4. PICK c \in Exact : c = change(i) /\ c \in Fractions
    BY <2>2, ReducedNumbers, SumsReduced
  <2>5. PICK d \in Exact : d = Minus(Zero, c) /\ d \in Fractions
    BY <2>3, <2>4, SumsReduced
  <2>6. ASSUME NEW x \in Exact, x \in Fractions PROVE Larger(x, Zero) \in AtLeast(0)
    <3>1. Larger(x, Zero) \in {x, Zero} /\ Leq(Zero, Larger(x, Zero))
      BY <2>3, <2>6, ChoiceOfTwo
    <3> QED
      BY <2>3, <3>1 DEF AtLeast, Zero
  <2>7. Larger(c, Zero) \in AtLeast(0) /\ Larger(d, Zero) \in AtLeast(0)
    BY <2>4, <2>5, <2>6
  <2>8. [gain |-> Larger(c, Zero), loss |-> Larger(d, Zero)] \in Averages
    BY <2>7 DEF Averages
  <2> QED
    BY <2>4, <2>5, <2>8
<1> HIDE DEF each
<1>3. [i \in 1..n |-> each(i)] \in Seq(Averages) /\ Len([i \in 1..n |-> each(i)]) = n
  BY <1>2
<1>4. GainsAndLosses(closes) = [i \in 1..n |-> each(i)]
  BY <1>1 DEF GainsAndLosses, each
<1> QED
  BY <1>1, <1>3, <1>4

\* A field of each of a sequence of such pairs.
LEMMA FieldsAre ==
  ASSUME NEW s \in Seq(Averages)
  PROVE  /\ [i \in DOMAIN s |-> s[i].gain] \in Seq(AtLeast(0))
         /\ [i \in DOMAIN s |-> s[i].loss] \in Seq(AtLeast(0))
         /\ Len([i \in DOMAIN s |-> s[i].gain]) = Len(s) /\ Len([i \in DOMAIN s |-> s[i].loss]) = Len(s)
<1>1. PICK n \in Nat : n = Len(s) /\ DOMAIN s = 1..n
  OBVIOUS
<1>2. \A i \in 1..n : s[i].gain \in AtLeast(0) /\ s[i].loss \in AtLeast(0)
  <2>1. \A i \in 1..n : s[i] \in Averages
    BY <1>1, ElementOfSeq
  <2> QED
    BY <2>1 DEF Averages
<1> QED
  BY <1>1, <1>2

\* calcRSI and calcRSISeries, of any closes and period.
LEMMA RsiStays ==
  ASSUME NEW closes \in Seq(Reduced), NEW period \in Nat \ {0}
  PROVE  calcRSI(closes, period) = Null \/ calcRSI(closes, period) \in Span(0, 100)
<1> SUFFICES ASSUME Enough(closes, period, period + 1)
             PROVE  calcRSI(closes, period) \in Span(0, 100)
  BY DEF calcRSI
<1>1. Len(closes) >= period + 1 /\ Len(closes) > 0
  BY DEF Enough
<1>2. PICK changes \in Seq(Averages) : changes = GainsAndLosses(closes) /\ Len(changes) = Len(closes) - 1
  BY <1>1, GainsAre
<1>3. PICK first : first = SubSeq(changes, 1, period)
  OBVIOUS
<1>4. first \in Seq(Averages) /\ Len(first) = period
  <2>1. period \in Nat /\ period <= Len(changes)
    BY <1>1, <1>2
  <2> QED
    BY <1>3, <2>1, StartIs
<1>5. PICK gains, losses : /\ gains = [i \in DOMAIN first |-> first[i].gain]
                           /\ losses = [i \in DOMAIN first |-> first[i].loss]
  OBVIOUS
<1>6. /\ gains \in Seq(AtLeast(0)) /\ losses \in Seq(AtLeast(0))
      /\ Len(gains) > 0 /\ Len(losses) > 0
  <2>1. /\ [i \in DOMAIN first |-> first[i].gain] \in Seq(AtLeast(0))
        /\ [i \in DOMAIN first |-> first[i].loss] \in Seq(AtLeast(0))
        /\ Len([i \in DOMAIN first |-> first[i].gain]) = Len(first)
        /\ Len([i \in DOMAIN first |-> first[i].loss]) = Len(first)
    BY <1>4, FieldsAre
  <2>2. gains \in Seq(AtLeast(0)) /\ losses \in Seq(AtLeast(0)) /\ Len(gains) = Len(first) /\ Len(losses) = Len(first)
    BY <1>5, <2>1, Zenon
  <2>3. Len(first) > 0
    BY <1>4
  <2> QED
    BY <2>2, <2>3
<1>7. Mean(gains) \in AtLeast(0) /\ Mean(losses) \in AtLeast(0)
  BY <1>6, AtLeastAveraged DEF Averaged
<1>8. PICK start \in Averages : start = [gain |-> Mean(gains), loss |-> Mean(losses)]
  BY <1>7 DEF Averages
<1>9. PICK rest : rest = SubSeq(changes, period + 1, Len(changes))
  OBVIOUS
<1>10. rest \in Seq(Averages)
  <2>1. Len(changes) \in Nat /\ Len(closes) \in Nat
    OBVIOUS
  <2>2. Len(changes) >= period /\ period \in Nat
    BY <1>1, <1>2, <2>1
  <2>3. Len(changes) - period \in Nat
    BY <2>1, <2>2
  <2>4. PICK m \in Nat : m = Len(changes) - period
    BY <2>3
  <2>5. period \in Nat /\ period + m <= Len(changes) /\ Len(changes) = period + m
    BY <2>1, <2>4
  <2> QED
    BY <1>9, <2>5, PartIs
<1>11. PICK avg \in Averages : avg = AveragesFrom(start, rest, period)
  BY <1>10, AveragesStay
<1>12. calcRSI(closes, period) = IF ~IsZero(avg.loss) /\ IsZero(avg.gain) THEN Zero
                                 ELSE RsiOf(avg.gain, avg.loss)
  BY <1>2, <1>3, <1>5, <1>8, <1>9, <1>11 DEF calcRSI, AveragesFrom
<1>13. /\ avg.gain \in Exact /\ NotNegative(avg.gain)
       /\ avg.loss \in Exact /\ NotNegative(avg.loss)
  <2>1. avg.gain \in AtLeast(0) /\ avg.loss \in AtLeast(0)
    BY DEF Averages
  <2>2. avg.gain \in Exact /\ avg.loss \in Exact
    BY <2>1 DEF AtLeast
  <2> QED
    BY <2>1, <2>2, ZeroAtLeast
<1>14. RsiOf(avg.gain, avg.loss) \in Span(0, 100)
  BY <1>13, RsiInSpan
<1>15. Zero \in Span(0, 100)
  BY NumberInSpan DEF Zero
<1> QED
  BY <1>12, <1>14, <1>15

LEMMA RsiSeriesStays ==
  ASSUME NEW closes \in Seq(Reduced), NEW period \in Nat \ {0}, Len(closes) > period
  PROVE  /\ calcRSISeries(closes, period) \in Seq(Span(0, 100) \cap Reduced)
         /\ Len(calcRSISeries(closes, period)) = Len(closes) - period
<1>1. PICK changes \in Seq(Averages) : changes = GainsAndLosses(closes) /\ Len(changes) = Len(closes) - 1
  BY GainsAre
<1>2. PICK up, down : /\ up = [i \in DOMAIN changes |-> changes[i].gain]
                      /\ down = [i \in DOMAIN changes |-> changes[i].loss]
  OBVIOUS
<1>3. /\ up \in Seq(AtLeast(0)) /\ down \in Seq(AtLeast(0))
      /\ Len(up) = Len(changes) /\ Len(down) = Len(changes)
  BY <1>2, FieldsAre
<1>4. Len(up) >= period /\ Len(down) >= period /\ Averaged(AtLeast(0))
  BY <1>1, <1>3, AtLeastAveraged
<1>5. PICK gains : gains = wilderSmooth(up, period)
  OBVIOUS
<1>6. PICK losses : losses = wilderSmooth(down, period)
  OBVIOUS
<1>7. gains \in Seq(AtLeast(0)) /\ Len(gains) = Len(up) - period + 1
  BY <1>3, <1>4, <1>5, WilderIs
<1>8. losses \in Seq(AtLeast(0)) /\ Len(losses) = Len(down) - period + 1
  BY <1>3, <1>4, <1>6, WilderIs
<1>9. PICK n \in Nat : n = Len(closes) - period
  OBVIOUS
<1>10. Len(gains) = n /\ Len(losses) = n
  BY <1>1, <1>3, <1>7, <1>8, <1>9
<1>11. ASSUME NEW i \in 1..n PROVE RsiOf(gains[i], losses[i]) \in Span(0, 100) \cap Reduced
  <2>1. gains[i] \in AtLeast(0) /\ losses[i] \in AtLeast(0)
    BY <1>7, <1>8, <1>10, ElementOfSeq
  <2>2. gains[i] \in Exact /\ losses[i] \in Exact
    BY <2>1 DEF AtLeast
  <2>3. NotNegative(gains[i]) /\ NotNegative(losses[i])
    BY <2>1, <2>2, ZeroAtLeast
  <2> QED
    BY <2>2, <2>3, RsiInSpan
<1>12. calcRSISeries(closes, period) = [i \in DOMAIN gains |-> RsiOf(gains[i], losses[i])]
  <2>1. ~(Len(closes) < period + 1)
    OBVIOUS
  <2> QED
    BY <1>1, <1>2, <1>5, <1>6, <2>1 DEF calcRSISeries
<1>13. DOMAIN gains = 1..n
  BY <1>7, <1>10
<1> QED
  BY <1>9, <1>11, <1>12, <1>13

\* The last of a sequence and the mean of its last ones, as a line and its signal.
LEMMA LinesStay ==
  ASSUME NEW P, Averaged(P), NEW k \in Seq(P), Len(k) > 0, NEW period \in Nat \ {0}
  PROVE  Lines(k, period).k \in P /\ (Lines(k, period).d = Null \/ Lines(k, period).d \in P)
<1>1. Last(k) \in P
  <2>1. Len(k) \in 1..Len(k)
    OBVIOUS
  <2> QED
    BY <2>1, ElementOfSeq DEF Last
<1>2. ASSUME Enough(k, period, period) PROVE calcSMA(k, period) \in P
  <2>1. Len(k) >= period
    BY <1>2 DEF Enough
  <2>2. PICK m \in Nat : m = Len(k) - period
    BY <2>1
  <2>3. m + period <= Len(k) /\ Len(k) - period + 1 = m + 1 /\ Len(k) = m + period /\ period \in Nat
    BY <2>2
  <2>4. PICK w : w = SubSeq(k, Len(k) - period + 1, Len(k))
    OBVIOUS
  <2>5. w \in Seq(P) /\ Len(w) = period
    BY <2>3, <2>4, PartIs
  <2>6. Len(w) > 0
    BY <2>5
  <2>7. Mean(w) \in P
    BY <2>5, <2>6 DEF Averaged
  <2> QED
    BY <1>2, <2>4, <2>7 DEF calcSMA, Window
<1> QED
  BY <1>1, <1>2 DEF Lines, calcSMA

LEMMA PartsWithin ==
  ASSUME NEW r, NEW names, \A n \in names : r # Null => r[n] = Null \/ r[n] \in Span(0, 100)
  PROVE  \A x \in Parts(r, names) : Within(x, 0, 100)
<1> SUFFICES ASSUME NEW x \in Parts(r, names) PROVE Within(x, 0, 100)
  OBVIOUS
<1>1. x = Null \/ x \in Span(0, 100)
  BY DEF Parts
<1>2. x = Null => Within(x, 0, 100)
  BY DEF Within
<1>3. x \in Span(0, 100) => Within(x, 0, 100)
  BY SpanIsWithin
<1> QED
  BY <1>1, <1>2, <1>3

\* What the indicators are given: exact prices and volumes, the close between the ends.
WellFormed == {c \in [low : Reduced, close : Reduced, high : Reduced, volume : Reduced] :
                 /\ Leq(c.low, c.close) /\ Leq(c.close, c.high)
                 /\ NotNegative(c.low) /\ NotNegative(c.volume)}

LEMMA WellFormedIs ==
  ASSUME NEW c \in WellFormed
  PROVE  /\ c.low \in Reduced /\ c.close \in Reduced /\ c.high \in Reduced /\ c.volume \in Reduced
         /\ Leq(c.low, c.close) /\ Leq(c.close, c.high) /\ Leq(c.low, c.high)
         /\ NotNegative(c.low) /\ NotNegative(c.volume)
<1>1. /\ c.low \in Reduced /\ c.close \in Reduced /\ c.high \in Reduced /\ c.volume \in Reduced
      /\ Leq(c.low, c.close) /\ Leq(c.close, c.high) /\ NotNegative(c.low) /\ NotNegative(c.volume)
  BY DEF WellFormed
<1>2. c.low \in Fractions /\ c.close \in Fractions /\ c.high \in Fractions
  BY <1>1, ReducedNumbers
<1> QED
  BY <1>1, <1>2, LeqChain

\* A field of each candle.
LEMMA SeriesOf ==
  ASSUME NEW cs \in Seq(WellFormed)
  PROVE  /\ Closes(cs) \in Seq(Reduced) /\ Len(Closes(cs)) = Len(cs)
         /\ Highs(cs) \in Seq(Reduced) /\ Len(Highs(cs)) = Len(cs)
         /\ Lows(cs) \in Seq(Reduced) /\ Len(Lows(cs)) = Len(cs)
         /\ \A i \in 1..Len(cs) : /\ Closes(cs)[i] = cs[i].close /\ Highs(cs)[i] = cs[i].high
                                  /\ Lows(cs)[i] = cs[i].low /\ cs[i] \in WellFormed
<1>1. PICK n \in Nat : n = Len(cs) /\ DOMAIN cs = 1..n
  OBVIOUS
<1>2. \A i \in 1..n : cs[i] \in WellFormed
  BY <1>1, ElementOfSeq
<1>3. \A i \in 1..n : cs[i].close \in Reduced /\ cs[i].high \in Reduced /\ cs[i].low \in Reduced
  BY <1>2, WellFormedIs
<1>4. Closes(cs) = [i \in 1..n |-> cs[i].close]
  BY <1>1 DEF Closes
<1>5. Highs(cs) = [i \in 1..n |-> cs[i].high]
  BY <1>1 DEF Highs
<1>6. Lows(cs) = [i \in 1..n |-> cs[i].low]
  BY <1>1 DEF Lows
<1>7. Closes(cs) \in Seq(Reduced) /\ Len(Closes(cs)) = n /\ \A i \in 1..n : Closes(cs)[i] = cs[i].close
  BY <1>3, <1>4
<1>8. Highs(cs) \in Seq(Reduced) /\ Len(Highs(cs)) = n /\ \A i \in 1..n : Highs(cs)[i] = cs[i].high
  BY <1>3, <1>5
<1>9. Lows(cs) \in Seq(Reduced) /\ Len(Lows(cs)) = n /\ \A i \in 1..n : Lows(cs)[i] = cs[i].low
  BY <1>3, <1>6
<1> QED
  BY <1>1, <1>2, <1>7, <1>8, <1>9

LEMMA ReducedFractions == Reduced \in SUBSET Fractions /\ Reduced \in SUBSET Exact
BY ReducedNumbers

\* The last values of a sequence.
LEMMA WindowIs ==
  ASSUME NEW S, NEW s \in Seq(S), NEW n \in Nat, n <= Len(s)
  PROVE  /\ Window(s, n) \in Seq(S) /\ Len(Window(s, n)) = n
         /\ \A i \in 1..n : Window(s, n)[i] = s[Len(s) - n + i] /\ s[Len(s) - n + i] \in S
<1>1. Len(s) \in Nat
  OBVIOUS
<1>2. Len(s) - n \in Nat
  BY <1>1
<1>3. PICK m \in Nat : m = Len(s) - n
  BY <1>2
<1>4. m + n <= Len(s) /\ Len(s) - n + 1 = m + 1 /\ Len(s) = m + n
  BY <1>1, <1>3
<1>5. PICK w : w = SubSeq(s, Len(s) - n + 1, Len(s))
  OBVIOUS
<1>6. w \in Seq(S) /\ Len(w) = n /\ \A i \in 1..n : w[i] = s[m + i] /\ s[m + i] \in S
  BY <1>4, <1>5, PartIs
<1> QED
  BY <1>3, <1>5, <1>6 DEF Window

\* A window reaches from its lowest low to its highest high, with every close in between.
LEMMA RangeHolds ==
  ASSUME NEW w \in Seq(WellFormed), Len(w) > 0
  PROVE  /\ SmallestOf(Lows(w)) \in Reduced /\ LargestOf(Highs(w)) \in Reduced
         /\ \A i \in 1..Len(w) : /\ Leq(SmallestOf(Lows(w)), w[i].close)
                                 /\ Leq(w[i].close, LargestOf(Highs(w)))
<1>1. PICK low : low = SmallestOf(Lows(w))
  OBVIOUS
<1>2. PICK high : high = LargestOf(Highs(w))
  OBVIOUS
<1>3. low \in Reduced /\ \A i \in 1..Len(w) : Leq(low, Lows(w)[i])
  <2>1. Lows(w) \in Seq(Reduced) /\ Len(Lows(w)) = Len(w)
    BY SeriesOf
  <2> QED
    BY <1>1, <2>1, ReducedFractions, SmallestIs
<1>4. high \in Reduced /\ \A i \in 1..Len(w) : Leq(Highs(w)[i], high)
  <2>1. Highs(w) \in Seq(Reduced) /\ Len(Highs(w)) = Len(w)
    BY SeriesOf
  <2> QED
    BY <1>2, <2>1, ReducedFractions, LargestIs
<1>5. ASSUME NEW i \in 1..Len(w) PROVE Leq(low, w[i].close) /\ Leq(w[i].close, high)
  <2>1. Lows(w)[i] = w[i].low /\ Highs(w)[i] = w[i].high /\ w[i] \in WellFormed
    BY SeriesOf
  <2>2. PICK c \in WellFormed : c = w[i]
    BY <2>1
  <2>3. /\ c.low \in Fractions /\ c.close \in Fractions /\ c.high \in Fractions
        /\ low \in Fractions /\ high \in Fractions
    BY <1>3, <1>4, WellFormedIs, ReducedNumbers
  <2>4. Leq(low, c.low) /\ Leq(c.low, c.close) /\ Leq(c.close, c.high) /\ Leq(c.high, high)
    BY <1>3, <1>4, <2>1, <2>2, WellFormedIs
  <2> QED
    BY <2>2, <2>3, <2>4, LeqChain
<1> QED
  BY <1>1, <1>2, <1>3, <1>4, <1>5

\* %K of each window and its average.
LEMMA StochasticStays ==
  ASSUME NEW cs \in Seq(WellFormed), NEW kPeriod \in Nat \ {0}, NEW dPeriod \in Nat \ {0}
  PROVE  LET lines == calcStochastic(cs, kPeriod, dPeriod) IN
         lines # Null => /\ lines.k = Null \/ lines.k \in Span(0, 100)
                         /\ lines.d = Null \/ lines.d \in Span(0, 100)
<1> SUFFICES ASSUME calcStochastic(cs, kPeriod, dPeriod) # Null
             PROVE  LET lines == calcStochastic(cs, kPeriod, dPeriod) IN
                    /\ lines.k = Null \/ lines.k \in Span(0, 100)
                    /\ lines.d = Null \/ lines.d \in Span(0, 100)
  OBVIOUS
<1>1. Enough(cs, dPeriod, kPeriod + dPeriod - 1)
  BY DEF calcStochastic
<1>2. Len(cs) \in Nat /\ Len(cs) >= kPeriod
  <2>1. Len(cs) >= kPeriod + dPeriod - 1 /\ Len(cs) \in Nat
    BY <1>1 DEF Enough
  <2> QED
    BY <2>1
<1>3. PICK n \in Nat \ {0} : n = Len(cs) - kPeriod + 1
  <2>1. Len(cs) - kPeriod + 1 \in Nat \ {0}
    BY <1>2
  <2> QED
    BY <2>1
<1> DEFINE at(i) == SubSeq(cs, i, i + kPeriod - 1)
           value(i) == Position(cs[i + kPeriod - 1].close, SmallestOf(Lows(at(i))), LargestOf(Highs(at(i))))
<1>4. ASSUME NEW i \in 1..n PROVE value(i) \in Span(0, 100)
  <2>1. PICK m \in Nat : m = i - 1
    BY <1>3
  <2>2. /\ m + kPeriod <= Len(cs) /\ i = m + 1 /\ i + kPeriod - 1 = m + kPeriod /\ kPeriod \in Nat
    BY <1>2, <1>3, <2>1
  <2>3. PICK w : w = at(i)
    OBVIOUS
  <2>4. w \in Seq(WellFormed) /\ Len(w) = kPeriod /\ \A j \in 1..kPeriod : w[j] = cs[m + j]
    BY <2>2, <2>3, PartIs
  <2>5. kPeriod \in 1..kPeriod /\ Len(w) > 0
    BY <2>4
  <2>6. w[kPeriod] = cs[i + kPeriod - 1] /\ w[kPeriod] \in WellFormed
    BY <2>2, <2>4, <2>5, ElementOfSeq
  <2>7. PICK low, high : low = SmallestOf(Lows(w)) /\ high = LargestOf(Highs(w))
    OBVIOUS
  <2>8. /\ low \in Reduced /\ high \in Reduced
        /\ Leq(low, w[kPeriod].close) /\ Leq(w[kPeriod].close, high)
    BY <2>4, <2>5, <2>7, RangeHolds
  <2>9. w[kPeriod].close \in Reduced
    BY <2>6, WellFormedIs
  <2>10. Position(w[kPeriod].close, low, high) \in Span(0, 100)
    BY <2>8, <2>9, PositionInSpan
  <2> QED
    BY <2>3, <2>6, <2>7, <2>10
<1>5. PICK k : k = [i \in 1..n |-> value(i)]
  OBVIOUS
<1>6. calcStochastic(cs, kPeriod, dPeriod) = Lines(k, dPeriod)
  <2>1. ~(kPeriod < 1)
    OBVIOUS
  <2> QED
    BY <1>1, <1>3, <1>5, <2>1 DEF calcStochastic
<1> HIDE DEF value
<1>7. k \in Seq(Span(0, 100)) /\ Len(k) > 0
  BY <1>4, <1>5
<1>8. Averaged(Span(0, 100))
  BY SpanAveraged
<1> QED
  BY <1>6, <1>7, <1>8, LinesStay

\* %R, how far the close is below the highest high.
LEMMA WilliamsStays ==
  ASSUME NEW cs \in Seq(WellFormed), NEW period \in Nat \ {0}
  PROVE  calcWilliamsR(cs, period) = Null \/ calcWilliamsR(cs, period) \in Span(-100, 0)
<1> SUFFICES ASSUME Enough(cs, period, period) PROVE calcWilliamsR(cs, period) \in Span(-100, 0)
  BY DEF calcWilliamsR
<1>1. Len(cs) \in Nat /\ Len(cs) >= period /\ period \in Nat /\ period \in 1..period
      /\ Len(cs) - period + period = Len(cs)
  BY DEF Enough
<1>2. PICK high : high = Highest(cs, period)
  OBVIOUS
<1>3. PICK low : low = Lowest(cs, period)
  OBVIOUS
<1>4. Last(cs) = cs[Len(cs)] /\ Len(cs) \in 1..Len(cs)
  BY <1>1 DEF Last
<1>5. PICK c \in WellFormed : c = Last(cs)
  BY <1>4, ElementOfSeq
<1>6. high \in Reduced /\ Leq(c.high, high)
  <2>1. Highs(cs) \in Seq(Reduced) /\ Len(Highs(cs)) = Len(cs) /\ Highs(cs)[Len(cs)] = c.high
    BY <1>4, <1>5, SeriesOf
  <2>2. PICK s \in Seq(Reduced) : s = Highs(cs)
    BY <2>1
  <2>3. PICK w : w = Window(s, period)
    OBVIOUS
  <2>4. w \in Seq(Reduced) /\ Len(w) = period /\ w[period] = s[Len(s)]
    <3>1. period \in Nat /\ period <= Len(s) /\ Len(s) \in Nat
      BY <1>1, <2>1, <2>2
    <3>2. /\ Window(s, period) \in Seq(Reduced) /\ Len(Window(s, period)) = period
          /\ \A i \in 1..period : /\ Window(s, period)[i] = s[Len(s) - period + i]
                                 /\ s[Len(s) - period + i] \in Reduced
      BY <3>1, WindowIs, Zenon
    <3>3. Len(s) - period + period = Len(s)
      BY <3>1
    <3> QED
      BY <1>1, <2>3, <3>2, <3>3
  <2>5. w[period] = c.high /\ Len(w) > 0 /\ period \in 1..Len(w)
    BY <1>1, <2>1, <2>2, <2>4
  <2>6. LargestOf(w) \in Reduced /\ Leq(w[period], LargestOf(w))
    BY <2>4, <2>5, LargestIs, ReducedFractions
  <2> QED
    BY <1>2, <2>2, <2>3, <2>5, <2>6 DEF Highest
<1>7. low \in Reduced /\ Leq(low, c.low)
  <2>1. Lows(cs) \in Seq(Reduced) /\ Len(Lows(cs)) = Len(cs) /\ Lows(cs)[Len(cs)] = c.low
    BY <1>4, <1>5, SeriesOf
  <2>2. PICK s \in Seq(Reduced) : s = Lows(cs)
    BY <2>1
  <2>3. PICK w : w = Window(s, period)
    OBVIOUS
  <2>4. w \in Seq(Reduced) /\ Len(w) = period /\ w[period] = s[Len(s)]
    <3>1. period \in Nat /\ period <= Len(s) /\ Len(s) \in Nat
      BY <1>1, <2>1, <2>2
    <3>2. /\ Window(s, period) \in Seq(Reduced) /\ Len(Window(s, period)) = period
          /\ \A i \in 1..period : /\ Window(s, period)[i] = s[Len(s) - period + i]
                                 /\ s[Len(s) - period + i] \in Reduced
      BY <3>1, WindowIs, Zenon
    <3>3. Len(s) - period + period = Len(s)
      BY <3>1
    <3> QED
      BY <1>1, <2>3, <3>2, <3>3
  <2>5. w[period] = c.low /\ Len(w) > 0 /\ period \in 1..Len(w)
    BY <1>1, <2>1, <2>2, <2>4
  <2>6. SmallestOf(w) \in Reduced /\ Leq(SmallestOf(w), w[period])
    BY <2>4, <2>5, SmallestIs, ReducedFractions
  <2> QED
    BY <1>3, <2>2, <2>3, <2>5, <2>6 DEF Lowest
<1>8. /\ c.low \in Fractions /\ c.close \in Fractions /\ c.high \in Fractions
      /\ low \in Fractions /\ high \in Fractions
      /\ Leq(c.low, c.close) /\ Leq(c.close, c.high)
  BY <1>6, <1>7, WellFormedIs, ReducedNumbers
<1>9. Leq(low, c.close) /\ Leq(c.close, high)
  BY <1>6, <1>7, <1>8, LeqChain
<1>10. Leq(low, high)
  BY <1>8, <1>9, LeqChain
<1>11. CASE high = low
  <2>1. Q(-50) \in Span(-100, 0)
    BY NumberInSpan
  <2> QED
    BY <1>2, <1>3, <1>11, <2>1 DEF calcWilliamsR
<1>12. CASE high # low
  <2>1. ~Leq(high, low)
    BY <1>6, <1>7, <1>10, <1>12, ReducedEqual
  <2>2. PICK a \in Exact : a = Minus(high, c.close)
    BY <1>8, SumsReduced
  <2>3. PICK b \in Exact : b = Minus(high, low)
    BY <1>8, SumsReduced
  <2>4. a[1] >= 0 /\ ~(b[1] <= 0) /\ a \in Fractions /\ b \in Fractions
    BY <1>8, <1>9, <2>1, <2>2, <2>3, Differences DEF Exact
  <2>5. NotNegative(a) /\ Positive(b)
    BY <2>4 DEF NotNegative, Positive, Fractions
  <2>6. Leq(a, b)
    BY <1>8, <1>9, <2>2, <2>3, LeqTotal, MinusGrows
  <2>7. Times(Over(a, b), Q(-100)) \in Span(-100, 0)
    BY <2>5, <2>6, PartInSpan, TimesHundred
  <2> QED
    BY <1>2, <1>3, <1>5, <1>12, <2>2, <2>3, <2>7 DEF calcWilliamsR
<1> QED
  BY <1>11, <1>12

LEMMA NotNegatives ==
  ASSUME NEW x \in AtLeast(0), NEW y \in AtLeast(0)
  PROVE  Plus(x, y) \in AtLeast(0) /\ Times(x, y) \in AtLeast(0)
<1>1. x \in Exact /\ y \in Exact /\ NotNegative(x) /\ NotNegative(y)
  BY ZeroAtLeast DEF AtLeast
<1>2. PICK p \in Nat, d \in Nat \ {0} : x = <<p, d>> /\ x \in Fractions
  BY <1>1 DEF NotNegative, Fractions
<1>3. PICK q \in Nat, e \in Nat \ {0} : y = <<q, e>> /\ y \in Fractions
  BY <1>1 DEF NotNegative, Fractions
<1>4. Plus(x, y) \in Exact /\ Times(x, y) \in Exact
  BY <1>1, <1>2, <1>3, SumsReduced, ProductsNumbers
<1>5. p * e + q * d \in Nat /\ p * q \in Nat
  OBVIOUS
<1>6. IsOver(Plus(x, y), p * e + q * d, d * e) /\ IsOver(Times(x, y), p * q, d * e)
  BY <1>2, <1>3, PlusIs, TimesIs
<1>7. NotNegative(Plus(x, y)) /\ NotNegative(Times(x, y))
  <2>1. /\ Plus(x, y)[1] < 0 <=> p * e + q * d < 0
        /\ Times(x, y)[1] < 0 <=> p * q < 0
    BY <1>6, SignBy
  <2>2. Plus(x, y)[1] \in Int /\ Times(x, y)[1] \in Int /\ Plus(x, y) \in Fractions /\ Times(x, y) \in Fractions
    BY <1>6 DEF IsOver, Fractions
  <2> QED
    BY <1>5, <2>1, <2>2 DEF NotNegative
<1> QED
  BY <1>4, <1>7, ZeroAtLeast

LEMMA NumberAtLeast ==
  ASSUME NEW n \in Nat
  PROVE  Q(n) \in AtLeast(0)
<1>1. Q(n) \in Exact /\ Leq(Q(0), Q(n))
  BY NumberReduced DEF Leq, Q
<1> QED
  BY <1>1 DEF AtLeast

LEMMA SumNotNegative ==
  ASSUME NEW s \in Seq(AtLeast(0))
  PROVE  SumOf(s) \in AtLeast(0)
<1>1. PICK n \in Nat : n = Len(s)
  OBVIOUS
<1>2. s \in Seq(Exact)
  <2>1. AtLeast(0) \in SUBSET Exact
    BY DEF AtLeast
  <2> QED
    BY <2>1
<1>3. PICK z : z = [i \in 1..n |-> Q(0)]
  OBVIOUS
<1>4. z \in Seq(Exact) /\ Len(z) = n /\ \A i \in 1..n : z[i] = Q(0)
  BY <1>3, NumberReduced
<1>5. \A i \in 1..n : Leq(z[i], s[i])
  <2>1. \A i \in 1..n : s[i] \in AtLeast(0)
    BY <1>1, ElementOfSeq
  <2> QED
    BY <1>4, <2>1 DEF AtLeast
<1>6. SumOf(z) \in Exact /\ SumOf(s) \in Exact /\ Leq(SumOf(z), SumOf(s))
  BY <1>1, <1>2, <1>4, <1>5, SumGrows
<1>7. IsOver(SumOf(z), Len(z) * 0, 1)
  BY <1>4, SumOfSame
<1>8. IsOver(Q(0), 0, 1)
  BY DEF IsOver, Q, Fractions
<1>9. Leq(Q(0), SumOf(z))
  <2>1. Leq(Q(0), SumOf(z)) <=> 0 * 1 <= (Len(z) * 0) * 1
    BY <1>7, <1>8, LeqBy
  <2> QED
    BY <1>4, <2>1
<1>10. Q(0) \in Fractions /\ SumOf(z) \in Fractions /\ SumOf(s) \in Fractions
  BY <1>6, <1>8 DEF IsOver, Exact
<1>11. Leq(Q(0), SumOf(s))
  BY <1>6, <1>9, <1>10, LeqChain
<1> QED
  BY <1>6, <1>11 DEF AtLeast

\* The flow index is the strength index of the flows up and down.
LEMMA FlowStays ==
  ASSUME NEW cs \in Seq(WellFormed), NEW period \in Nat \ {0}
  PROVE  calcMFI(cs, period) = Null \/ calcMFI(cs, period) \in Span(0, 100)
<1> SUFFICES ASSUME Enough(cs, period, period + 1) PROVE calcMFI(cs, period) \in Span(0, 100)
  BY DEF calcMFI
<1>1. PICK n \in Nat : n = period + 1
  OBVIOUS
<1>2. n <= Len(cs)
  BY <1>1 DEF Enough
<1>3. PICK w : w = Window(cs, n)
  OBVIOUS
<1>4. w \in Seq(WellFormed) /\ Len(w) = n
  BY <1>2, <1>3, WindowIs
<1>5. PICK tp : tp = TypicalPrices(w)
  OBVIOUS
<1>6. ASSUME NEW i \in 1..n PROVE Times(tp[i], w[i].volume) \in AtLeast(0)
  <2>1. PICK c \in WellFormed : c = w[i]
    BY <1>4, ElementOfSeq
  <2>2. /\ c.low \in Exact /\ c.close \in Exact /\ c.high \in Exact /\ c.volume \in Exact
        /\ c.low \in Fractions /\ c.close \in Fractions /\ c.high \in Fractions
        /\ NotNegative(c.low) /\ Leq(c.low, c.close) /\ Leq(c.low, c.high) /\ NotNegative(c.volume)
    BY WellFormedIs, ReducedNumbers
  <2>3. Leq(Zero, c.low) /\ Zero \in Fractions
    BY <2>2, SignOfNumber
  <2>4. Leq(Zero, c.close) /\ Leq(Zero, c.high)
    BY <2>2, <2>3, LeqChain
  <2>5. /\ c.low \in AtLeast(0) /\ c.close \in AtLeast(0) /\ c.high \in AtLeast(0)
        /\ c.volume \in AtLeast(0)
    BY <2>2, <2>3, <2>4, ZeroAtLeast DEF AtLeast, Zero
  <2>6. PICK sum \in AtLeast(0) : sum = Plus(Plus(c.high, c.low), c.close)
    BY <2>5, NotNegatives
  <2>7. Over(sum, Q(3)) \in AtLeast(0)
    <3>1. Q(3) = <<3, 1>> /\ Ratio(1, 3) \in Reduced
      <4>1. Q(3) = <<3, 1>>
        BY DEF Q
      <4>2. PICK k \in Int, d \in Nat \ {0} : k = 1 /\ d = 3
        OBVIOUS
      <4>3. Ratio(k, d) \in Reduced
        BY DEF Reduced
      <4> QED
        BY <4>1, <4>2, <4>3
    <3>2. Over(sum, Q(3)) = Times(sum, Ratio(1, 3))
      BY <3>1 DEF Over
    <3>3. IsOver(Ratio(1, 3), 1, 3)
      BY RatioIs
    <3>4. Leq(Q(0), Ratio(1, 3))
      <4>1. IsOver(Q(0), 0, 1)
        BY DEF IsOver, Q, Fractions
      <4>2. Leq(Q(0), Ratio(1, 3)) <=> 0 * 3 <= 1 * 1
        BY <3>3, <4>1, LeqBy
      <4> QED
        BY <4>2
    <3>5. Ratio(1, 3) \in AtLeast(0)
      BY <3>1, <3>4, ReducedNumbers DEF AtLeast
    <3> QED
      BY <3>2, <3>5, NotNegatives
  <2>8. tp[i] = Over(sum, Q(3))
    <3>1. i \in DOMAIN w
      BY <1>4
    <3> QED
      BY <1>5, <2>1, <2>6, <3>1 DEF TypicalPrices
  <2> QED
    BY <2>1, <2>5, <2>7, <2>8, NotNegatives
<1> DEFINE flow(places) == [i \in 1..period |->
             IF i \in places THEN Times(tp[i + 1], w[i + 1].volume) ELSE Zero]
<1>7. ASSUME NEW places PROVE SumOf(flow(places)) \in AtLeast(0)
  <2>1. \A i \in 1..period : i + 1 \in 1..n
    BY <1>1
  <2>2. Zero \in AtLeast(0)
    BY NumberAtLeast DEF Zero
  <2>3. \A i \in 1..period : (IF i \in places THEN Times(tp[i + 1], w[i + 1].volume) ELSE Zero) \in AtLeast(0)
    BY <1>6, <2>1, <2>2
  <2>4. flow(places) \in Seq(AtLeast(0))
    BY <2>3
  <2> HIDE DEF flow
  <2> QED
    BY <2>4, SumNotNegative
<1>8. PICK positive \in AtLeast(0) : positive = SumOf(flow({i \in 1..period : Less(tp[i], tp[i + 1])}))
  <2> HIDE DEF flow
  <2> QED
    BY <1>7
<1>9. PICK negative \in AtLeast(0) : negative = SumOf(flow({i \in 1..period : Less(tp[i + 1], tp[i])}))
  <2> HIDE DEF flow
  <2> QED
    BY <1>7
<1>10. calcMFI(cs, period) = IF IsZero(negative) THEN Q(100)
                             ELSE IF IsZero(positive) THEN Zero
                             ELSE Minus(Q(100), Over(Q(100), Plus(Q(1), Over(positive, negative))))
  BY <1>1, <1>3, <1>5, <1>8, <1>9 DEF calcMFI
<1>11. RsiOf(positive, negative) \in Span(0, 100)
  BY RsiInSpan, ZeroAtLeast DEF AtLeast
<1>12. Q(100) \in Span(0, 100) /\ Zero \in Span(0, 100)
  BY NumberInSpan DEF Zero
<1> QED
  BY <1>10, <1>11, <1>12 DEF RsiOf

\* Where the close lies in its candle: no further than an end from the middle.
LEMMA PlaceOfClose ==
  ASSUME NEW c \in WellFormed
  PROVE  clv(c) \in Span(-1, 1)
<1>1. /\ c.low \in Fractions /\ c.close \in Fractions /\ c.high \in Fractions
      /\ Leq(c.low, c.close) /\ Leq(c.close, c.high)
  BY WellFormedIs, ReducedNumbers
<1>2. PICK range \in Exact : range = Minus(c.high, c.low)
  BY <1>1, SumsReduced
<1>3. CASE IsZero(range)
  BY <1>2, <1>3, NumberInSpan DEF clv, Zero
<1>4. CASE ~IsZero(range)
  <2>1. PICK a \in Exact : a = Minus(c.close, c.low)
    BY <1>1, SumsReduced
  <2>2. PICK b \in Exact : b = Minus(c.high, c.close)
    BY <1>1, SumsReduced
  <2>3. PICK x \in Exact : x = Minus(a, b)
    BY <2>1, <2>2, SumsReduced DEF Exact
  <2>4. PICK l \in Int, s \in Nat \ {0} : c.low = <<l, s>>
    BY <1>1 DEF Fractions
  <2>5. PICK m \in Int, t \in Nat \ {0} : c.close = <<m, t>>
    BY <1>1 DEF Fractions
  <2>6. PICK h \in Int, u \in Nat \ {0} : c.high = <<h, u>>
    BY <1>1 DEF Fractions
  <2>7. /\ IsOver(a, m * s - l * t, t * s) /\ IsOver(b, h * t - m * u, u * t)
        /\ IsOver(range, h * s - l * u, u * s)
    BY <1>1, <1>2, <2>1, <2>2, <2>4, <2>5, <2>6, MinusIs
  <2>8. a[1] >= 0 /\ b[1] >= 0 /\ range[1] >= 0 /\ a \in Fractions /\ b \in Fractions /\ range \in Fractions
    <3>1. Leq(c.low, c.high)
      BY <1>1, LeqChain
    <3> QED
      BY <1>1, <1>2, <2>1, <2>2, <3>1, Differences DEF Exact
  <2>9. NotNegative(a) /\ NotNegative(b) /\ NotNegative(range)
    BY <2>8 DEF NotNegative
  <2>10. Positive(range)
    BY <1>4, <2>9, SignOfNumber
  <2>11. Leq(a, range) /\ Leq(b, range)
    <3>1. Leq(c.high, c.high) /\ Leq(c.low, c.low)
      BY <1>1, LeqTotal
    <3> QED
      BY <1>1, <1>2, <2>1, <2>2, <3>1, MinusGrows
  <2>12. Over(x, range) \in Span(-1, 1)
    <3>1. PICK p \in Nat, d \in Nat \ {0} : a = <<p, d>>
      BY <2>9 DEF NotNegative, Fractions
    <3>2. PICK q \in Nat, e \in Nat \ {0} : b = <<q, e>>
      BY <2>9 DEF NotNegative, Fractions
    <3>3. PICK r \in Nat \ {0}, f \in Nat \ {0} : range = <<r, f>>
      BY <2>10 DEF Positive, Fractions
    <3>4. IsOver(x, p * e - q * d, d * e) /\ x \in Fractions
      BY <2>3, <2>8, <3>1, <3>2, MinusIs DEF IsOver
    <3>5. p * f <= r * d /\ q * f <= r * e
      BY <2>11, <3>1, <3>2, <3>3 DEF Leq
    <3>6. PICK y \in Int, z \in Nat \ {0} : x = <<y, z>>
      BY <3>4 DEF Fractions
    <3>7. y * (d * e) = (p * e - q * d) * z
      BY <3>4, <3>6 DEF IsOver
    <3>8. -1 * (z * r) <= y * f /\ y * f <= 1 * (z * r)
      <4>1. PICK g \in Nat \ {0} : g = d * e
        BY PositiveProduct
      <4>2. e * (p * f) <= e * (r * d) /\ d * (q * f) <= d * (r * e)
        BY <3>5, Scaled
      <4>3. PICK j \in Nat, k \in Nat : j = e * (p * f) /\ k = d * (q * f) /\ j <= r * g /\ k <= r * g
        <5>1. e * (r * d) = r * (d * e) /\ d * (r * e) = r * (d * e)
          OBVIOUS
        <5>2. e * (p * f) \in Nat /\ d * (q * f) \in Nat
          OBVIOUS
        <5> QED
          BY <4>1, <4>2, <5>1, <5>2
      <4>4. PICK rg \in Nat : rg = r * g
        BY <4>1
      <4>5. -rg <= j - k /\ j - k <= rg /\ j - k \in Int /\ -rg \in Int
        BY <4>3, <4>4
      <4>6. z * (-rg) <= z * (j - k) /\ z * (j - k) <= z * rg
        BY <4>5, Scaled
      <4>7. z * (j - k) = g * (y * f)
        <5>1. (y * (d * e)) * f = ((p * e - q * d) * z) * f
          BY <3>7
        <5>2. ((p * e - q * d) * z) * f = z * (e * (p * f) - d * (q * f))
          OBVIOUS
        <5>3. (y * (d * e)) * f = (d * e) * (y * f)
          OBVIOUS
        <5> QED
          BY <4>1, <4>3, <5>1, <5>2, <5>3
      <4>8. z * rg = g * (z * r) /\ z * (-rg) = g * (-1 * (z * r))
        <5>1. z * (r * g) = g * (z * r) /\ z * (-(r * g)) = g * (-1 * (z * r))
          OBVIOUS
        <5> QED
          BY <4>4, <5>1
      <4>9. g * (-1 * (z * r)) <= g * (y * f) /\ g * (y * f) <= g * (z * r)
        BY <4>6, <4>7, <4>8
      <4>10. y * f \in Int /\ z * r \in Int /\ -1 * (z * r) \in Int
        OBVIOUS
      <4>11. -1 * (z * r) <= y * f /\ y * f <= z * r
        BY <4>9, <4>10, Scaled
      <4> QED
        BY <4>10, <4>11
    <3>9. PICK low \in Int, high \in Int : low = -1 /\ high = 1
      OBVIOUS
    <3>10. low * (z * r) <= y * f /\ y * f <= high * (z * r)
      BY <3>8, <3>9
    <3>11. low * (x[2] * range[1]) <= x[1] * range[2] /\ x[1] * range[2] <= high * (x[2] * range[1])
      BY <3>3, <3>6, <3>10
    <3>12. Over(x, range) \in Span(low, high)
      BY <2>10, <3>11, OverWithin
    <3> QED
      BY <3>9, <3>12
  <2> QED
    BY <1>2, <1>4, <2>1, <2>2, <2>3, <2>12 DEF clv
<1> QED
  BY <1>3, <1>4

\* A volume, taken in a part between its opposite and itself.
LEMMA PartOfVolume ==
  ASSUME NEW v \in AtLeast(0), NEW x \in Span(-1, 1)
  PROVE  /\ Times(x, v) \in Exact
         /\ Leq(Times(x, v), v) /\ Leq(Neg(Times(x, v)), v)
<1>1. v \in Exact /\ NotNegative(v) /\ x \in Exact
  BY ZeroAtLeast DEF AtLeast, Span
<1>2. PICK p \in Nat, d \in Nat \ {0} : v = <<p, d>> /\ v \in Fractions
  BY <1>1 DEF NotNegative, Fractions
<1>3. PICK q \in Int, e \in Nat \ {0} : x = <<q, e>> /\ x \in Fractions
  BY <1>1 DEF Exact, Fractions
<1>4. -e <= q /\ q <= e
  <2>1. Leq(Q(-1), x) /\ Leq(x, Q(1))
    BY DEF Span
  <2> QED
    BY <1>3, <2>1 DEF Leq, Q
<1>5. Times(x, v) \in Exact
  BY <1>1, ProductsNumbers
<1>6. IsOver(Times(x, v), q * p, e * d)
  BY <1>2, <1>3, TimesIs
<1>7. IsOver(Neg(Times(x, v)), -(q * p), e * d)
  BY <1>6, NegIs
<1>8. IsOver(v, p, d)
  BY <1>2 DEF IsOver
<1>9. PICK g \in Nat : g = p * d
  OBVIOUS
<1>10. g * q <= g * e /\ g * (-e) <= g * q
  <2>1. CASE g = 0
    BY <2>1
  <2>2. CASE g # 0
    <3>1. g \in Nat \ {0} /\ -e \in Int
      BY <2>2
    <3> QED
      BY <1>4, <3>1, Scaled
  <2> QED
    BY <2>1, <2>2
<1>11. /\ (q * p) * d <= p * (e * d) /\ -(q * p) * d <= p * (e * d)
  <2>1. /\ (q * p) * d = (p * d) * q /\ p * (e * d) = (p * d) * e
        /\ -(q * p) * d = -((p * d) * q) /\ (p * d) * (-e) = -((p * d) * e)
        /\ (p * d) * q \in Int /\ (p * d) * e \in Int
    OBVIOUS
  <2>2. (p * d) * q <= (p * d) * e /\ -((p * d) * e) <= (p * d) * q
    BY <1>9, <1>10, <2>1
  <2> QED
    BY <2>1, <2>2
<1>12. /\ Leq(Times(x, v), v) <=> (q * p) * d <= p * (e * d)
       /\ Leq(Neg(Times(x, v)), v) <=> -(q * p) * d <= p * (e * d)
  BY <1>6, <1>7, <1>8, LeqBy
<1> QED
  BY <1>5, <1>11, <1>12

\* The money flow is no more than the volume, in either direction.
LEMMA MoneyFlowStays ==
  ASSUME NEW cs \in Seq(WellFormed), NEW period \in Nat \ {0}
  PROVE  calcCMF(cs, period) = Null \/ calcCMF(cs, period) \in Span(-1, 1)
<1> SUFFICES ASSUME Enough(cs, period, period), ~IsZero(VolumeOf(Window(cs, period)))
             PROVE  calcCMF(cs, period) \in Span(-1, 1)
  BY DEF calcCMF
<1>1. PICK w : w = Window(cs, period)
  OBVIOUS
<1>2. w \in Seq(WellFormed) /\ Len(w) = period
  <2>1. period \in Nat /\ period <= Len(cs)
    BY DEF Enough
  <2> QED
    BY <1>1, <2>1, WindowIs
<1>3. ASSUME NEW i \in 1..period
      PROVE  /\ w[i].volume \in AtLeast(0) /\ w[i].volume \in Exact
             /\ Times(clv(w[i]), w[i].volume) \in Exact
             /\ Leq(Times(clv(w[i]), w[i].volume), w[i].volume)
             /\ Leq(Neg(Times(clv(w[i]), w[i].volume)), w[i].volume)
  <2>1. PICK c \in WellFormed : c = w[i]
    BY <1>2, ElementOfSeq
  <2>2. c.volume \in Exact /\ NotNegative(c.volume)
    BY WellFormedIs, ReducedNumbers
  <2>3. c.volume \in AtLeast(0)
    BY <2>2, ZeroAtLeast
  <2>4. clv(c) \in Span(-1, 1)
    BY PlaceOfClose
  <2> QED
    BY <2>1, <2>2, <2>3, <2>4, PartOfVolume
<1>4. PICK flows : flows = [i \in 1..period |-> Times(clv(w[i]), w[i].volume)]
  OBVIOUS
<1>5. PICK volumes : volumes = [i \in 1..period |-> w[i].volume]
  OBVIOUS
<1>6. /\ flows \in Seq(Exact) /\ Len(flows) = period
      /\ volumes \in Seq(Exact) /\ volumes \in Seq(AtLeast(0)) /\ Len(volumes) = period
  BY <1>3, <1>4, <1>5
<1>7. PICK m \in Exact : m = SumOf(flows)
  BY <1>6, MeanIsNumber
<1>8. PICK v \in AtLeast(0) : v = SumOf(volumes)
  BY <1>6, SumNotNegative
<1>9. MoneyFlow(w) = m /\ VolumeOf(w) = v
  <2>1. DOMAIN w = 1..period
    BY <1>2
  <2> QED
    BY <1>4, <1>5, <1>7, <1>8, <2>1 DEF MoneyFlow, VolumeOf
<1>10. Leq(m, v)
  <2>1. \A i \in 1..Len(flows) : Leq(flows[i], volumes[i])
    BY <1>3, <1>4, <1>5, <1>6
  <2> QED
    BY <1>6, <1>7, <1>8, <2>1, SumGrows
<1>11. Leq(Neg(m), v)
  <2>1. \A i \in 1..Len(flows) : Leq(Neg(flows[i]), volumes[i])
    BY <1>3, <1>4, <1>5, <1>6
  <2> QED
    BY <1>6, <1>7, <1>8, <2>1, SumMirrors
<1>12. v \in Exact /\ NotNegative(v)
  BY ZeroAtLeast DEF AtLeast
<1>13. Positive(v)
  BY <1>1, <1>9, <1>12, SignOfNumber
<1>14. Over(m, v) \in Span(-1, 1)
  <2>1. PICK y \in Int, z \in Nat \ {0} : m = <<y, z>>
    BY DEF Exact, Fractions
  <2>2. PICK r \in Nat \ {0}, f \in Nat \ {0} : v = <<r, f>>
    BY <1>13 DEF Positive, Fractions
  <2>3. y * f <= r * z /\ (-y) * f <= r * z
    BY <1>10, <1>11, <2>1, <2>2 DEF Leq, Neg
  <2>4. PICK low \in Int, high \in Int : low = -1 /\ high = 1
    OBVIOUS
  <2>5. low * (z * r) <= y * f /\ y * f <= high * (z * r)
    <3>1. (-y) * f = -(y * f) /\ r * z = z * r /\ y * f \in Int /\ z * r \in Int
      OBVIOUS
    <3> QED
      BY <2>3, <2>4, <3>1
  <2>6. low * (m[2] * v[1]) <= m[1] * v[2] /\ m[1] * v[2] <= high * (m[2] * v[1])
    BY <2>1, <2>2, <2>5
  <2>7. Over(m, v) \in Span(low, high)
    BY <1>12, <1>13, <2>6, OverWithin
  <2> QED
    BY <2>4, <2>7
<1>15. calcCMF(cs, period) = Over(m, v)
  BY <1>1, <1>9 DEF calcCMF
<1> QED
  BY <1>14, <1>15

\* The place of the strength index among its last values, twice averaged.
LEMMA StochRsiStays ==
  ASSUME NEW closes \in Seq(Reduced), NEW rsiPeriod \in Nat \ {0}, NEW stochPeriod \in Nat \ {0},
         NEW kPeriod \in Nat \ {0}, NEW dPeriod \in Nat \ {0}
  PROVE  LET lines == calcStochRSI(closes, rsiPeriod, stochPeriod, kPeriod, dPeriod) IN
         lines # Null => /\ lines.k = Null \/ lines.k \in Span(0, 100)
                         /\ lines.d = Null \/ lines.d \in Span(0, 100)
<1>1. \A p \in {rsiPeriod, stochPeriod, kPeriod, dPeriod} : ~(p < 1)
  OBVIOUS
<1>2. CASE Len(closes) < rsiPeriod + stochPeriod + kPeriod + dPeriod - 1
  BY <1>2 DEF calcStochRSI
<1>3. CASE ~(Len(closes) < rsiPeriod + stochPeriod + kPeriod + dPeriod - 1)
  <2>1. Len(closes) \in Nat
    OBVIOUS
  <2>2. Len(closes) > rsiPeriod /\ Len(closes) - rsiPeriod >= stochPeriod + kPeriod
    BY <1>3, <2>1
  <2>3. PICK rsi : rsi = calcRSISeries(closes, rsiPeriod)
    OBVIOUS
  <2>4. rsi \in Seq(Span(0, 100) \cap Reduced) /\ Len(rsi) >= stochPeriod + kPeriod /\ Len(rsi) \in Nat
    <3>1. rsi \in Seq(Span(0, 100) \cap Reduced) /\ Len(rsi) = Len(closes) - rsiPeriod
      BY <2>2, <2>3, RsiSeriesStays
    <3>2. Len(rsi) \in Nat
      BY <3>1
    <3> QED
      BY <2>2, <3>1, <3>2
  <2>5. PICK n \in Nat \ {0} : n = Len(rsi) - stochPeriod + 1 /\ n >= kPeriod
    <3>1. Len(rsi) - stochPeriod + 1 \in Nat \ {0} /\ Len(rsi) - stochPeriod + 1 >= kPeriod
      BY <2>4
    <3> QED
      BY <3>1
  <2> DEFINE over(i) == SubSeq(rsi, i, i + stochPeriod - 1)
             value(i) == Position(Last(over(i)), SmallestOf(over(i)), LargestOf(over(i)))
  <2>6. ASSUME NEW i \in 1..n PROVE value(i) \in Span(0, 100)
    <3>1. PICK m \in Nat : m = i - 1
      BY <2>5
    <3>2. /\ m + stochPeriod <= Len(rsi) /\ i = m + 1 /\ i + stochPeriod - 1 = m + stochPeriod
          /\ stochPeriod \in Nat
      BY <2>4, <2>5, <3>1
    <3>3. PICK w : w = over(i)
      OBVIOUS
    <3>4. w \in Seq(Span(0, 100) \cap Reduced) /\ Len(w) = stochPeriod
      BY <2>4, <3>2, <3>3, PartIs
    <3>5. w \in Seq(Reduced) /\ Len(w) > 0 /\ Len(w) \in 1..Len(w)
      BY <3>4
    <3>6. PICK low, high : low = SmallestOf(w) /\ high = LargestOf(w)
      OBVIOUS
    <3>7. low \in Reduced /\ Leq(low, w[Len(w)])
      BY <3>5, <3>6, SmallestIs, ReducedFractions
    <3>8. high \in Reduced /\ Leq(w[Len(w)], high)
      BY <3>5, <3>6, LargestIs, ReducedFractions
    <3>9. PICK x \in Reduced : x = Last(w) /\ x = w[Len(w)]
      BY <3>5, ElementOfSeq DEF Last
    <3>10. Position(x, low, high) \in Span(0, 100)
      BY <3>7, <3>8, <3>9, PositionInSpan
    <3> QED
      BY <3>3, <3>6, <3>9, <3>10
  <2>7. PICK raw : raw = [i \in 1..n |-> value(i)]
    OBVIOUS
  <2>8. raw \in Seq(Span(0, 100)) /\ Len(raw) = n
    <3> HIDE DEF value
    <3> QED
      BY <2>6, <2>7
  <2>9. Averaged(Span(0, 100))
    BY SpanAveraged
  <2>10. PICK l \in Nat \ {0} : l = Len(raw) - kPeriod + 1
    <3>1. Len(raw) - kPeriod + 1 \in Nat \ {0}
      BY <2>5, <2>8
    <3> QED
      BY <3>1
  <2> DEFINE mean(i) == Mean(SubSeq(raw, i, i + kPeriod - 1))
  <2>11. ASSUME NEW i \in 1..l PROVE mean(i) \in Span(0, 100)
    <3>1. PICK m \in Nat : m = i - 1
      BY <2>10
    <3>2. /\ m + kPeriod <= Len(raw) /\ i = m + 1 /\ i + kPeriod - 1 = m + kPeriod /\ kPeriod \in Nat
      BY <2>5, <2>8, <2>10, <3>1
    <3>3. PICK w : w = SubSeq(raw, i, i + kPeriod - 1)
      OBVIOUS
    <3>4. w \in Seq(Span(0, 100)) /\ Len(w) = kPeriod
      BY <2>8, <3>2, <3>3, PartIs
    <3>5. Len(w) > 0
      BY <3>4
    <3>6. Mean(w) \in Span(0, 100)
      BY <2>9, <3>4, <3>5 DEF Averaged
    <3> QED
      BY <3>3, <3>6
  <2>12. PICK k : k = [i \in 1..l |-> mean(i)]
    OBVIOUS
  <2>13. k \in Seq(Span(0, 100)) /\ Len(k) > 0
    <3> HIDE DEF mean
    <3> QED
      BY <2>11, <2>12
  <2>14. calcStochRSI(closes, rsiPeriod, stochPeriod, kPeriod, dPeriod) = Lines(k, dPeriod)
    BY <1>1, <1>3, <2>3, <2>5, <2>7, <2>10, <2>12 DEF calcStochRSI
  <2> QED
    BY <2>9, <2>13, <2>14, LinesStay
<1> QED
  BY <1>2, <1>3

LEMMA AroonStays ==
  ASSUME NEW cs \in Seq(WellFormed), NEW period \in Nat \ {0}
  PROVE  LET lines == calcAroon(cs, period) IN
         lines # Null => /\ lines.up = Null \/ lines.up \in Span(0, 100)
                         /\ lines.down = Null \/ lines.down \in Span(0, 100)
<1>1. CASE ~Enough(cs, period, period + 1)
  BY <1>1 DEF calcAroon
<1>2. CASE Enough(cs, period, period + 1)
  <2>1. PICK n \in Nat : n = period + 1
    OBVIOUS
  <2>2. PICK w : w = Window(cs, n)
    OBVIOUS
  <2>3. w \in Seq(WellFormed) /\ Len(w) = n /\ DOMAIN w = 1..n
    <3>1. n <= Len(cs)
      BY <1>2, <2>1 DEF Enough
    <3>2. w \in Seq(WellFormed) /\ Len(w) = n
      BY <2>2, <3>1, WindowIs
    <3> QED
      BY <3>2
  <2>4. /\ Highs(w) \in Seq(Reduced) /\ Len(Highs(w)) = n
        /\ Lows(w) \in Seq(Reduced) /\ Len(Lows(w)) = n
        /\ \A i \in 1..n : Highs(w)[i] = w[i].high /\ Lows(w)[i] = w[i].low /\ w[i] \in WellFormed
    BY <2>3, SeriesOf
  <2>5. \A i \in 1..n : w[i].high \in Fractions /\ w[i].low \in Fractions
    BY <2>4, WellFormedIs, ReducedNumbers
  <2>6. PICK tops : tops = {i \in DOMAIN w : \A j \in DOMAIN w : AtMost(w[j].high, w[i].high)}
    OBVIOUS
  <2>7. PICK bottoms : bottoms = {i \in DOMAIN w : \A j \in DOMAIN w : AtMost(w[i].low, w[j].low)}
    OBVIOUS
  <2>8. tops # {}
    <3>1. PICK P : P = {w[i].high : i \in 1..n}
      OBVIOUS
    <3>2. PICK s : s = Highs(w)
      OBVIOUS
    <3>3. P \in SUBSET Fractions /\ s \in Seq(P) /\ Len(s) > 0 /\ Len(s) = n
      <4>1. P \in SUBSET Fractions
        BY <2>5, <3>1
      <4>2. \A i \in 1..n : s[i] \in P
        BY <2>4, <3>1, <3>2
      <4>3. s \in Seq(P)
        BY <2>4, <3>2, <4>2
      <4> QED
        BY <2>1, <2>4, <3>2, <4>1, <4>3
    <3>4. PICK x \in P : x = LargestOf(s) /\ \A i \in 1..n : Leq(s[i], x)
      BY <3>3, LargestIs
    <3>5. PICK k \in 1..n : x = w[k].high
      BY <3>1
    <3>6. \A j \in 1..n : AtMost(w[j].high, w[k].high)
      BY <2>4, <2>5, <3>2, <3>4, <3>5, AtMostIs
    <3> QED
      BY <2>3, <2>6, <3>6
  <2>9. bottoms # {}
    <3>1. PICK P : P = {w[i].low : i \in 1..n}
      OBVIOUS
    <3>2. PICK s : s = Lows(w)
      OBVIOUS
    <3>3. P \in SUBSET Fractions /\ s \in Seq(P) /\ Len(s) > 0 /\ Len(s) = n
      <4>1. P \in SUBSET Fractions
        BY <2>5, <3>1
      <4>2. \A i \in 1..n : s[i] \in P
        BY <2>4, <3>1, <3>2
      <4>3. s \in Seq(P)
        BY <2>4, <3>2, <4>2
      <4> QED
        BY <2>1, <2>4, <3>2, <4>1, <4>3
    <3>4. PICK x \in P : x = SmallestOf(s) /\ \A i \in 1..n : Leq(x, s[i])
      BY <3>3, SmallestIs
    <3>5. PICK k \in 1..n : x = w[k].low
      BY <3>1
    <3>6. \A j \in 1..n : AtMost(w[k].low, w[j].low)
      BY <2>4, <2>5, <3>2, <3>4, <3>5, AtMostIs
    <3> QED
      BY <2>3, <2>7, <3>6
  <2>10. Max(tops) \in 1..n /\ Max(bottoms) \in 1..n
    <3>1. tops \in SUBSET (1..n) /\ bottoms \in SUBSET (1..n) /\ 1..n \in SUBSET (0..n)
      BY <2>3, <2>6, <2>7
    <3>2. tops \in SUBSET (0..n) /\ bottoms \in SUBSET (0..n)
      BY <3>1
    <3>3. Max(tops) \in tops /\ Max(bottoms) \in bottoms
      BY <2>8, <2>9, <3>2, GreatestIsMember
    <3> QED
      BY <3>1, <3>3
  <2> DEFINE score(i) == Percent(Ratio(period - (Len(w) - i), period))
  <2>11. ASSUME NEW i \in 1..n PROVE score(i) \in Span(0, 100)
    <3>1. PICK a \in Nat : a = period - (Len(w) - i) /\ a <= period
      BY <2>1, <2>3
    <3>2. PICK r : r = Ratio(a, period)
      OBVIOUS
    <3>3. IsOver(r, a, period)
      BY <3>2, RatioIs
    <3>4. r \in Exact
      BY <3>2, ReducedNumbers DEF Reduced
    <3>5. IsOver(Q(0), 0, 1) /\ IsOver(Q(1), 1, 1)
      BY DEF IsOver, Q, Fractions
    <3>6. Leq(Q(0), r) /\ Leq(r, Q(1))
      <4>1. (Leq(Q(0), r) <=> 0 * period <= a * 1) /\ (Leq(r, Q(1)) <=> a * 1 <= 1 * period)
        BY <3>3, <3>5, LeqBy
      <4> QED
        BY <3>1, <4>1
    <3>7. r \in Span(0, 1)
      BY <3>4, <3>6 DEF Span
    <3>8. Times(r, Q(100)) \in Span(0, 100)
      BY <3>7, TimesHundred
    <3> QED
      BY <3>1, <3>2, <3>8 DEF Percent
  <2>12. calcAroon(cs, period) = [up |-> score(Max(tops)), down |-> score(Max(bottoms))]
    BY <1>2, <2>1, <2>2, <2>6, <2>7 DEF calcAroon
  <2>13. score(Max(tops)) \in Span(0, 100) /\ score(Max(bottoms)) \in Span(0, 100)
    <3> HIDE DEF score
    <3> QED
      BY <2>10, <2>11
  <2> HIDE DEF score
  <2> QED
    BY <2>12, <2>13
<1> QED
  BY <1>1, <1>2

LEMMA AbsIs ==
  ASSUME NEW x, NEW n, NEW d, IsOver(x, n, d)
  PROVE  IsOver(Abs(x), Magnitude(n), d)
<1>1. n \in Int /\ x[1] \in Int /\ (x[1] < 0 <=> n < 0)
  BY SignBy DEF IsOver, Fractions
<1>2. CASE n < 0
  <2>1. Abs(x) = Neg(x) /\ Magnitude(n) = -n
    BY <1>1, <1>2 DEF Abs, Neg, Magnitude
  <2> QED
    BY <2>1, NegIs
<1>3. CASE ~(n < 0)
  <2>1. Abs(x) = x /\ Magnitude(n) = n
    BY <1>1, <1>3 DEF Abs, Magnitude
  <2> QED
    BY <2>1
<1> QED
  BY <1>2, <1>3

\* A distance is no less than a difference, taken in either direction.
LEMMA DistanceIs ==
  ASSUME NEW a \in Fractions, NEW b \in Fractions
  PROVE  /\ Abs(Minus(a, b)) \in Exact
         /\ Leq(Minus(a, b), Abs(Minus(a, b))) /\ Leq(Minus(b, a), Abs(Minus(a, b)))
<1>1. PICK p \in Int, d \in Nat \ {0} : a = <<p, d>>
  BY DEF Fractions
<1>2. PICK q \in Int, e \in Nat \ {0} : b = <<q, e>>
  BY DEF Fractions
<1>3. IsOver(Minus(a, b), p * e - q * d, d * e) /\ IsOver(Minus(b, a), q * d - p * e, e * d)
  BY <1>1, <1>2, MinusIs
<1>4. PICK x \in Int : x = p * e - q * d
  OBVIOUS
<1>5. PICK g \in Nat \ {0} : g = d * e
  BY PositiveProduct
<1>6. q * d - p * e = -x /\ e * d = g /\ -x \in Int
  BY <1>4, <1>5
<1>7. IsOver(Minus(a, b), x, g) /\ IsOver(Minus(b, a), -x, g)
  BY <1>3, <1>4, <1>5, <1>6
<1>8. IsOver(Abs(Minus(a, b)), Magnitude(x), g)
  BY <1>7, AbsIs
<1>9. x <= Magnitude(x) /\ -x <= Magnitude(x) /\ Magnitude(x) \in Nat
  BY DEF Magnitude
<1>10. g * x <= g * Magnitude(x) /\ g * (-x) <= g * Magnitude(x)
  BY <1>6, <1>9, Scaled
<1>11. x * g = g * x /\ -x * g = g * (-x) /\ (-x) * g = g * (-x)
  OBVIOUS
<1>12. Magnitude(x) * g = g * Magnitude(x)
  BY <1>9
<1>13. /\ Leq(Minus(a, b), Abs(Minus(a, b))) <=> x * g <= Magnitude(x) * g
       /\ Leq(Minus(b, a), Abs(Minus(a, b))) <=> (-x) * g <= Magnitude(x) * g
  BY <1>7, <1>8, LeqBy
<1>14. Abs(Minus(a, b)) \in Exact
  BY SumsReduced, Magnitudes
<1> QED
  BY <1>10, <1>11, <1>12, <1>13, <1>14

\* The true range of a candle is no less than its move up or down from the one before.
LEMMA MovesInRange ==
  ASSUME NEW b \in WellFormed, NEW c \in WellFormed
  PROVE  LET range == trueRange(c, b.close) IN
         /\ range \in AtLeast(0)
         /\ Leq(Minus(c.high, b.high), range) /\ Leq(Minus(b.low, c.low), range)
<1>1. /\ b.low \in Fractions /\ b.close \in Fractions /\ b.high \in Fractions
      /\ c.low \in Fractions /\ c.close \in Fractions /\ c.high \in Fractions
      /\ Leq(b.low, b.close) /\ Leq(b.close, b.high) /\ Leq(c.low, c.high)
  BY WellFormedIs, ReducedNumbers
<1>2. PICK up \in Exact : up = Abs(Minus(c.high, b.close))
  BY <1>1, DistanceIs
<1>3. PICK down \in Exact : down = Abs(Minus(c.low, b.close))
  BY <1>1, DistanceIs
<1>4. PICK size \in Exact : size = Minus(c.high, c.low)
  BY <1>1, SumsReduced
<1>5. up \in Fractions /\ down \in Fractions /\ size \in Fractions
  BY DEF Exact
<1>6. PICK far \in Exact : far = Larger(up, down) /\ Leq(up, far) /\ Leq(down, far) /\ far \in Fractions
  <2>1. Larger(up, down) \in {up, down} /\ Leq(up, Larger(up, down)) /\ Leq(down, Larger(up, down))
    BY <1>5, ChoiceOfTwo
  <2>2. Larger(up, down) \in Exact /\ Larger(up, down) \in Fractions
    BY <1>5, <2>1
  <2> QED
    BY <2>1, <2>2
<1>7. PICK range \in Exact :
        range = Larger(size, far) /\ Leq(size, range) /\ Leq(far, range) /\ range \in Fractions
  <2>1. Larger(size, far) \in {size, far} /\ Leq(size, Larger(size, far)) /\ Leq(far, Larger(size, far))
    BY <1>5, <1>6, ChoiceOfTwo
  <2>2. Larger(size, far) \in Exact /\ Larger(size, far) \in Fractions
    BY <1>5, <1>6, <2>1
  <2> QED
    BY <2>1, <2>2
<1>8. trueRange(c, b.close) = range
  BY <1>2, <1>3, <1>4, <1>6, <1>7 DEF trueRange
<1>9. range \in AtLeast(0)
  <2>1. size[1] >= 0
    BY <1>1, <1>4, Differences
  <2>2. NotNegative(size)
    BY <1>5, <2>1 DEF NotNegative
  <2>3. Leq(Zero, size) /\ Zero \in Fractions
    BY <2>2, SignOfNumber
  <2>4. Leq(Zero, range)
    BY <1>5, <1>7, <2>3, LeqChain
  <2> QED
    BY <2>4 DEF AtLeast, Zero
<1>10. Leq(Minus(c.high, b.high), range)
  <2>1. PICK x \in Fractions : x = Minus(c.high, b.high)
    BY <1>1, SumsReduced
  <2>2. PICK y \in Fractions : y = Minus(c.high, b.close)
    BY <1>1, SumsReduced
  <2>3. Leq(x, y)
    BY <1>1, <2>1, <2>2, LeqTotal, MinusGrows
  <2>4. Leq(y, up)
    BY <1>1, <1>2, <2>2, DistanceIs
  <2>5. Leq(x, up) /\ Leq(up, range)
    BY <1>5, <1>6, <1>7, <2>3, <2>4, LeqChain
  <2> QED
    BY <1>5, <1>7, <2>1, <2>5, LeqChain
<1>11. Leq(Minus(b.low, c.low), range)
  <2>1. PICK x \in Fractions : x = Minus(b.low, c.low)
    BY <1>1, SumsReduced
  <2>2. PICK y \in Fractions : y = Minus(b.close, c.low)
    BY <1>1, SumsReduced
  <2>3. Leq(x, y)
    BY <1>1, <2>1, <2>2, LeqTotal, MinusGrows
  <2>4. Leq(y, down)
    BY <1>1, <1>3, <2>2, DistanceIs
  <2>5. Leq(x, down) /\ Leq(down, range)
    BY <1>5, <1>6, <1>7, <2>3, <2>4, LeqChain
  <2> QED
    BY <1>5, <1>7, <2>1, <2>5, LeqChain
<1> QED
  BY <1>8, <1>9, <1>10, <1>11

\* The directional moves, place by place within the true ranges.
LEMMA MovesAre ==
  ASSUME NEW cs \in Seq(WellFormed), NEW n \in Nat, Len(cs) = n + 1
  PROVE  /\ Directional(cs) \in Seq([plus : AtLeast(0), minus : AtLeast(0)])
         /\ Len(Directional(cs)) = n
         /\ TrueRanges(cs) \in Seq(AtLeast(0)) /\ Len(TrueRanges(cs)) = n
         /\ \A i \in 1..n : /\ Leq(Directional(cs)[i].plus, TrueRanges(cs)[i])
                            /\ Leq(Directional(cs)[i].minus, TrueRanges(cs)[i])
<1> DEFINE up(i) == Minus(cs[i + 1].high, cs[i].high)
           down(i) == Minus(cs[i].low, cs[i + 1].low)
           plus(i) == IF Less(down(i), up(i)) /\ IsPositive(up(i)) THEN up(i) ELSE Zero
           minus(i) == IF Less(up(i), down(i)) /\ IsPositive(down(i)) THEN down(i) ELSE Zero
           range(i) == trueRange(cs[i + 1], cs[i].close)
<1>1. ASSUME NEW i \in 1..n
      PROVE  /\ range(i) \in AtLeast(0)
             /\ plus(i) \in AtLeast(0) /\ Leq(plus(i), range(i))
             /\ minus(i) \in AtLeast(0) /\ Leq(minus(i), range(i))
  <2>1. i \in 1..Len(cs) /\ i + 1 \in 1..Len(cs)
    OBVIOUS
  <2>2. PICK b \in WellFormed : b = cs[i]
    BY <2>1, ElementOfSeq
  <2>3. PICK c \in WellFormed : c = cs[i + 1]
    BY <2>1, ElementOfSeq
  <2>4. PICK r \in AtLeast(0) : /\ r = range(i)
                                /\ Leq(Minus(c.high, b.high), r) /\ Leq(Minus(b.low, c.low), r)
    BY <2>2, <2>3, MovesInRange
  <2>5. b.low \in Fractions /\ b.high \in Fractions /\ c.low \in Fractions /\ c.high \in Fractions
    BY WellFormedIs, ReducedNumbers
  <2>6. PICK u \in Exact : u = up(i) /\ Leq(u, r)
    BY <2>2, <2>3, <2>4, <2>5, SumsReduced
  <2>7. PICK d \in Exact : d = down(i) /\ Leq(d, r)
    BY <2>2, <2>3, <2>4, <2>5, SumsReduced
  <2>8. Zero \in AtLeast(0) /\ Leq(Zero, r)
    BY NumberAtLeast DEF AtLeast, Zero
  <2>9. \A x \in Exact : IsPositive(x) => x \in AtLeast(0)
    <3>1. ASSUME NEW x \in Exact, IsPositive(x) PROVE x \in AtLeast(0)
      <4>1. x \in Fractions /\ x[1] \in Int /\ x[1] > 0
        BY <3>1 DEF IsPositive, Exact, Fractions
      <4>2. NotNegative(x)
        BY <4>1 DEF NotNegative
      <4> QED
        BY <4>2, ZeroAtLeast
    <3> QED
      BY <3>1
  <2>10. plus(i) = IF Less(d, u) /\ IsPositive(u) THEN u ELSE Zero
    BY <2>6, <2>7
  <2>11. minus(i) = IF Less(u, d) /\ IsPositive(d) THEN d ELSE Zero
    BY <2>6, <2>7
  <2> HIDE DEF plus, minus, range, up, down
  <2> QED
    BY <2>4, <2>6, <2>7, <2>8, <2>9, <2>10, <2>11
<1>2. Len(cs) - 1 = n
  OBVIOUS
<1>3. Directional(cs) = [i \in 1..n |-> [plus |-> plus(i), minus |-> minus(i)]]
  BY <1>2 DEF Directional
<1>4. TrueRanges(cs) = [i \in 1..n |-> range(i)]
  BY <1>2 DEF TrueRanges
<1> HIDE DEF plus, minus, range, up, down
<1>5. \A i \in 1..n : [plus |-> plus(i), minus |-> minus(i)] \in [plus : AtLeast(0), minus : AtLeast(0)]
  BY <1>1
<1>6. /\ Directional(cs) \in Seq([plus : AtLeast(0), minus : AtLeast(0)]) /\ Len(Directional(cs)) = n
      /\ \A i \in 1..n : Directional(cs)[i] = [plus |-> plus(i), minus |-> minus(i)]
  BY <1>3, <1>5
<1>7. /\ TrueRanges(cs) \in Seq(AtLeast(0)) /\ Len(TrueRanges(cs)) = n
      /\ \A i \in 1..n : TrueRanges(cs)[i] = range(i)
  BY <1>1, <1>4
<1>8. \A i \in 1..n : Directional(cs)[i].plus = plus(i) /\ Directional(cs)[i].minus = minus(i)
  BY <1>6
<1> QED
  BY <1>1, <1>6, <1>7, <1>8

\* How far two indices that are not negative lie apart, of their sum.
ApartOf(p, m) == LET sum == Plus(p, m) IN
                 IF IsZero(sum) THEN Zero ELSE Percent(Over(Abs(Minus(p, m)), sum))

LEMMA ApartStays ==
  ASSUME NEW p \in AtLeast(0), NEW m \in AtLeast(0)
  PROVE  ApartOf(p, m) \in Span(0, 100)
<1>1. PICK sum \in AtLeast(0) : sum = Plus(p, m)
  BY NotNegatives
<1>2. CASE IsZero(sum)
  BY <1>1, <1>2, NumberInSpan DEF ApartOf, Zero
<1>3. CASE ~IsZero(sum)
  <2>1. /\ sum \in Exact /\ NotNegative(sum) /\ p \in Exact /\ NotNegative(p)
        /\ m \in Exact /\ NotNegative(m)
    BY ZeroAtLeast DEF AtLeast
  <2>2. Positive(sum)
    BY <1>3, <2>1, SignOfNumber
  <2>3. PICK a \in Nat, d \in Nat \ {0} : p = <<a, d>> /\ p \in Fractions
    BY <2>1 DEF NotNegative, Fractions
  <2>4. PICK b \in Nat, e \in Nat \ {0} : m = <<b, e>> /\ m \in Fractions
    BY <2>1 DEF NotNegative, Fractions
  <2>5. IsOver(Minus(p, m), a * e - b * d, d * e) /\ IsOver(sum, a * e + b * d, d * e)
    BY <1>1, <2>3, <2>4, MinusIs, PlusIs
  <2>6. IsOver(Abs(Minus(p, m)), Magnitude(a * e - b * d), d * e)
    BY <2>5, AbsIs
  <2>7. PICK x \in Nat, y \in Nat : x = a * e /\ y = b * d
    OBVIOUS
  <2>8. PICK g \in Nat \ {0} : g = d * e
    BY PositiveProduct
  <2>9. Magnitude(x - y) \in Nat /\ Magnitude(x - y) <= x + y
    BY DEF Magnitude
  <2>10. Magnitude(x - y) * g <= (x + y) * g
    <3>1. g * Magnitude(x - y) <= g * (x + y)
      BY <2>9, Scaled
    <3> QED
      BY <2>9, <3>1
  <2>11. PICK apart \in Exact : apart = Abs(Minus(p, m)) /\ NotNegative(apart)
    BY <2>3, <2>4, SumsReduced, Magnitudes
  <2>12. IsOver(apart, Magnitude(x - y), g) /\ IsOver(sum, x + y, g)
    BY <2>5, <2>6, <2>7, <2>8, <2>11
  <2>13. Leq(apart, sum)
    BY <2>10, <2>12, LeqBy
  <2>14. Percent(Over(apart, sum)) \in Span(0, 100)
    BY <2>1, <2>2, <2>11, <2>13, ShareInSpan
  <2> QED
    BY <1>1, <1>3, <2>11, <2>14 DEF ApartOf
<1> QED
  BY <1>2, <1>3

LEMMA SpanNotNegative == \A x \in Span(0, 100) : x \in AtLeast(0)
BY DEF Span, AtLeast

\* The directional indices are smoothed moves in smoothed ranges.
LEMMA DirectionStays ==
  ASSUME NEW cs \in Seq(WellFormed), NEW period \in Nat \ {0}
  PROVE  LET r == calcADX(cs, period) IN
         r # Null => /\ r.adx = Null \/ r.adx \in Span(0, 100)
                     /\ r.plusDI = Null \/ r.plusDI \in Span(0, 100)
                     /\ r.minusDI = Null \/ r.minusDI \in Span(0, 100)
<1>1. CASE ~Enough(cs, period, 2 * period + 1)
  BY <1>1 DEF calcADX
<1>2. CASE Enough(cs, period, 2 * period + 1)
  <2>1. Len(cs) \in Nat /\ Len(cs) >= 2 * period + 1
    BY <1>2 DEF Enough
  <2>2. Len(cs) - 1 \in Nat
    BY <2>1
  <2>3. PICK n \in Nat : n = Len(cs) - 1 /\ Len(cs) = n + 1 /\ n >= 2 * period
    BY <2>1, <2>2
  <2>4. PICK dm : dm = Directional(cs)
    OBVIOUS
  <2>5. PICK ranges : ranges = TrueRanges(cs)
    OBVIOUS
  <2>6. /\ dm \in Seq([plus : AtLeast(0), minus : AtLeast(0)]) /\ Len(dm) = n
        /\ ranges \in Seq(AtLeast(0)) /\ Len(ranges) = n
        /\ \A i \in 1..n : Leq(dm[i].plus, ranges[i]) /\ Leq(dm[i].minus, ranges[i])
    BY <2>3, <2>4, <2>5, MovesAre
  <2>7. DOMAIN dm = 1..n /\ \A i \in 1..n : dm[i].plus \in AtLeast(0) /\ dm[i].minus \in AtLeast(0)
    <3>1. \A i \in 1..n : dm[i] \in [plus : AtLeast(0), minus : AtLeast(0)]
      BY <2>6, ElementOfSeq
    <3>2. DOMAIN dm = 1..n
      BY <2>6
    <3> QED
      BY <3>1, <3>2
  <2>8. PICK pluses : pluses = [i \in DOMAIN dm |-> dm[i].plus]
    OBVIOUS
  <2>9. PICK minuses : minuses = [i \in DOMAIN dm |-> dm[i].minus]
    OBVIOUS
  <2>10. /\ pluses \in Seq(AtLeast(0)) /\ Len(pluses) = n
         /\ minuses \in Seq(AtLeast(0)) /\ Len(minuses) = n
         /\ \A i \in 1..n : Leq(pluses[i], ranges[i]) /\ Leq(minuses[i], ranges[i])
    BY <2>6, <2>7, <2>8, <2>9
  <2>11. PICK plusDM : plusDM = wilderSmooth(pluses, period)
    OBVIOUS
  <2>12. PICK minusDM : minusDM = wilderSmooth(minuses, period)
    OBVIOUS
  <2>13. PICK tr : tr = wilderSmooth(ranges, period)
    OBVIOUS
  <2>14. PICK l \in Nat : l = n - period + 1 /\ l >= period
    <3>1. n - period + 1 \in Nat /\ n - period + 1 >= period
      BY <2>3
    <3> QED
      BY <3>1
  <2>15. n >= period
    BY <2>3
  <2>16. /\ plusDM \in Seq(AtLeast(0)) /\ Len(plusDM) = l
         /\ minusDM \in Seq(AtLeast(0)) /\ Len(minusDM) = l
         /\ tr \in Seq(AtLeast(0)) /\ Len(tr) = l
    <3>1. Averaged(AtLeast(0))
      BY AtLeastAveraged
    <3>2. plusDM \in Seq(AtLeast(0)) /\ Len(plusDM) = l
      BY <2>10, <2>11, <2>14, <2>15, <3>1, WilderIs
    <3>3. minusDM \in Seq(AtLeast(0)) /\ Len(minusDM) = l
      BY <2>10, <2>12, <2>14, <2>15, <3>1, WilderIs
    <3>4. tr \in Seq(AtLeast(0)) /\ Len(tr) = l
      BY <2>6, <2>13, <2>14, <2>15, <3>1, WilderIs
    <3> QED
      BY <3>2, <3>3, <3>4
  <2>17. \A i \in 1..l : Leq(plusDM[i], tr[i]) /\ Leq(minusDM[i], tr[i])
    <3>1. AtLeast(0) \in SUBSET Exact
      BY DEF AtLeast
    <3>2. pluses \in Seq(Exact) /\ minuses \in Seq(Exact) /\ ranges \in Seq(Exact)
      BY <2>6, <2>10, <3>1
    <3>3. \A i \in 1..(n - period + 1) : Leq(plusDM[i], tr[i])
      BY <2>6, <2>10, <2>11, <2>13, <2>15, <3>2, WilderGrows
    <3>4. \A i \in 1..(n - period + 1) : Leq(minusDM[i], tr[i])
      BY <2>6, <2>10, <2>12, <2>13, <2>15, <3>2, WilderGrows
    <3> QED
      BY <2>14, <3>3, <3>4
  <2> DEFINE DI(dms, i) == Percent(Over(dms[i], tr[i]))
             dx(i) == ApartOf(DI(plusDM, i), DI(minusDM, i))
  <2>18. CASE \E i \in DOMAIN tr : IsZero(tr[i])
    BY <1>2, <2>5, <2>13, <2>18 DEF calcADX
  <2>19. CASE ~\E i \in DOMAIN tr : IsZero(tr[i])
    <3>1. ASSUME NEW i \in 1..l PROVE DI(plusDM, i) \in Span(0, 100) /\ DI(minusDM, i) \in Span(0, 100)
      <4>1. PICK p \in AtLeast(0), m \in AtLeast(0), t \in AtLeast(0) :
              p = plusDM[i] /\ m = minusDM[i] /\ t = tr[i]
        BY <2>16, ElementOfSeq
      <4>2. /\ p \in Exact /\ NotNegative(p) /\ m \in Exact /\ NotNegative(m)
            /\ t \in Exact /\ NotNegative(t)
        BY ZeroAtLeast DEF AtLeast
      <4>3. ~IsZero(t)
        <5>1. i \in DOMAIN tr
          BY <2>16
        <5> QED
          BY <2>19, <4>1, <5>1
      <4>4. Positive(t)
        BY <4>2, <4>3, SignOfNumber
      <4>5. Leq(p, t) /\ Leq(m, t)
        BY <2>17, <4>1
      <4>6. Percent(Over(p, t)) \in Span(0, 100) /\ Percent(Over(m, t)) \in Span(0, 100)
        BY <4>2, <4>4, <4>5, ShareInSpan
      <4> QED
        BY <4>1, <4>6
    <3>2. ASSUME NEW i \in 1..l PROVE dx(i) \in Span(0, 100)
      <4>1. PICK p \in Span(0, 100), m \in Span(0, 100) : p = DI(plusDM, i) /\ m = DI(minusDM, i)
        BY <3>1
      <4>2. p \in AtLeast(0) /\ m \in AtLeast(0)
        BY SpanNotNegative
      <4> HIDE DEF DI
      <4> QED
        BY <4>1, <4>2, ApartStays
    <3>3. PICK moves : moves = [i \in DOMAIN tr |-> dx(i)]
      OBVIOUS
    <3>4. moves \in Seq(Span(0, 100)) /\ Len(moves) = l
      <4>1. DOMAIN tr = 1..l
        BY <2>16
      <4> HIDE DEF dx
      <4> QED
        BY <3>2, <3>3, <4>1
    <3>5. PICK s : s = wilderSmooth(moves, period)
      OBVIOUS
    <3>6. s \in Seq(Span(0, 100)) /\ Len(s) = l - period + 1
      <4>1. Averaged(Span(0, 100))
        BY SpanAveraged
      <4> QED
        BY <2>14, <3>4, <3>5, <4>1, WilderIs
    <3>7. Last(s) \in Span(0, 100)
      <4>1. Len(s) \in 1..Len(s)
        BY <2>14, <3>6
      <4> QED
        BY <3>6, <4>1, ElementOfSeq DEF Last
    <3>8. l \in 1..l /\ Len(tr) = l
      BY <2>14, <2>16
    <3>9. DI(plusDM, Len(tr)) \in Span(0, 100) /\ DI(minusDM, Len(tr)) \in Span(0, 100)
      BY <3>1, <3>8
    <3>10. calcADX(cs, period) = [adx |-> Last(s), plusDI |-> DI(plusDM, Len(tr)),
                                  minusDI |-> DI(minusDM, Len(tr))]
      BY <1>2, <2>4, <2>5, <2>8, <2>9, <2>11, <2>12, <2>13, <2>19, <3>3, <3>5 DEF calcADX, ApartOf
    <3> HIDE DEF DI
    <3> QED
      BY <3>7, <3>9, <3>10
  <2> QED
    BY <2>18, <2>19
<1> QED
  BY <1>1, <1>2

\* The records of the parabolic stop.
Parabolic == [sar : Seq(Fractions) \ {<<>>}, up : BOOLEAN, ep : Fractions, af : Fractions]

LEMMA FractionsClosed ==
  ASSUME NEW a \in Fractions, NEW b \in Fractions
  PROVE  /\ Plus(a, b) \in Fractions /\ Minus(a, b) \in Fractions /\ Times(a, b) \in Fractions
         /\ Smaller(a, b) \in Fractions /\ Larger(a, b) \in Fractions
<1>1. Smaller(a, b) \in {a, b} /\ Larger(a, b) \in {a, b}
  BY ChoiceOfTwo
<1>2. Times(a, b) \in Fractions
  BY TimesIs DEF IsOver
<1> QED
  BY <1>1, <1>2, SumsReduced

\* A step keeps to these records, and its stop lies beyond the candle on the side of the trend.
BeyondCandle(r, c) == IF r.up THEN AtMost(Last(r.sar), c.low) ELSE AtMost(c.high, Last(r.sar))

LEMMA ReversalIs ==
  ASSUME NEW cs \in Seq(WellFormed), NEW r \in Parabolic, NEW i \in 2..Len(cs),
         NEW step \in Fractions, NEW max \in Fractions
  PROVE  /\ StopAndReverse(cs, r, i, step, max) \in Parabolic
         /\ BeyondCandle(StopAndReverse(cs, r, i, step, max), cs[i])
<1>1. r.sar \in Seq(Fractions) /\ r.sar # <<>> /\ r.up \in BOOLEAN /\ r.ep \in Fractions /\ r.af \in Fractions
  BY DEF Parabolic
<1>2. PICK before : before = IF i > 2 THEN i - 2 ELSE i - 1
  OBVIOUS
<1>3. before \in 1..Len(cs) /\ i - 1 \in 1..Len(cs) /\ i \in 1..Len(cs)
  BY <1>2
<1>4. PICK c \in WellFormed, b \in WellFormed, a \in WellFormed :
        c = cs[i] /\ b = cs[i - 1] /\ a = cs[before]
  BY <1>3, ElementOfSeq
<1>5. /\ c.low \in Fractions /\ c.high \in Fractions /\ b.low \in Fractions /\ b.high \in Fractions
      /\ a.low \in Fractions /\ a.high \in Fractions
  BY WellFormedIs, ReducedNumbers
<1>6. PICK p \in Fractions : p = Last(r.sar)
  <2>1. Len(r.sar) \in 1..Len(r.sar)
    BY <1>1
  <2> QED
    BY <1>1, <2>1, ElementOfSeq DEF Last
<1>7. PICK moved \in Fractions : moved = Plus(p, Times(r.af, Minus(r.ep, p)))
  <2>1. Minus(r.ep, p) \in Fractions
    BY <1>1, FractionsClosed
  <2>2. Times(r.af, Minus(r.ep, p)) \in Fractions
    BY <1>1, <2>1, FractionsClosed
  <2> QED
    BY <2>2, FractionsClosed
<1>8. PICK sar \in Fractions : sar = IF r.up THEN Smaller(moved, Smaller(b.low, a.low))
                                     ELSE Larger(moved, Larger(b.high, a.high))
  <2>1. Smaller(b.low, a.low) \in Fractions /\ Larger(b.high, a.high) \in Fractions
    BY <1>5, FractionsClosed
  <2>2. Smaller(moved, Smaller(b.low, a.low)) \in Fractions /\ Larger(moved, Larger(b.high, a.high)) \in Fractions
    BY <2>1, FractionsClosed
  <2> QED
    BY <2>2
<1>9. PICK further \in BOOLEAN : further <=> (IF r.up THEN Less(r.ep, c.high) ELSE Less(c.low, r.ep))
  OBVIOUS
<1>10. PICK ep \in Fractions : ep = IF ~further THEN r.ep ELSE IF r.up THEN c.high ELSE c.low
  BY <1>1, <1>5
<1>11. PICK af \in Fractions : af = IF further THEN Smaller(Plus(r.af, step), max) ELSE r.af
  <2>1. Plus(r.af, step) \in Fractions
    BY <1>1, FractionsClosed
  <2>2. Smaller(Plus(r.af, step), max) \in Fractions
    BY <2>1, FractionsClosed
  <2> QED
    BY <1>1, <2>2
<1>12. PICK turns \in BOOLEAN : turns <=> (IF r.up THEN Less(c.low, sar) ELSE Less(sar, c.high))
  OBVIOUS
<1>13. PICK next : next = IF turns
                          THEN [sar |-> Append(r.sar, ep), up |-> ~r.up,
                                ep |-> IF r.up THEN c.low ELSE c.high, af |-> step]
                          ELSE [sar |-> Append(r.sar, sar), up |-> r.up, ep |-> ep, af |-> af]
  OBVIOUS
<1>14. StopAndReverse(cs, r, i, step, max) = next
  BY <1>2, <1>4, <1>6, <1>7, <1>8, <1>9, <1>10, <1>11, <1>12, <1>13, Zenon DEF StopAndReverse
<1>15. ASSUME NEW x \in Fractions
       PROVE  Append(r.sar, x) \in Seq(Fractions) \ {<<>>} /\ Last(Append(r.sar, x)) = x
  BY <1>1, <1>15 DEF Last
<1>16. CASE turns
  <2>1. next = [sar |-> Append(r.sar, ep), up |-> ~r.up, ep |-> IF r.up THEN c.low ELSE c.high, af |-> step]
    BY <1>13, <1>16
  <2>2. next \in Parabolic
    BY <1>1, <1>5, <1>15, <2>1 DEF Parabolic
  <2>3. next.up = ~r.up /\ Last(next.sar) = ep
    BY <1>15, <2>1
  <2>4. CASE r.up
    <3>1. AtMost(c.high, ep)
      <4>1. CASE further
        <5>1. ep = c.high
          BY <1>10, <2>4, <4>1
        <5> QED
          BY <1>5, <5>1, LeqTotal, AtMostIs
      <4>2. CASE ~further
        BY <1>9, <1>10, <2>4, <4>2 DEF AtMost
      <4> QED
        BY <4>1, <4>2
    <3> QED
      BY <1>4, <1>14, <2>2, <2>3, <2>4, <3>1 DEF BeyondCandle
  <2>5. CASE ~r.up
    <3>1. AtMost(ep, c.low)
      <4>1. CASE further
        <5>1. ep = c.low
          BY <1>10, <2>5, <4>1
        <5> QED
          BY <1>5, <5>1, LeqTotal, AtMostIs
      <4>2. CASE ~further
        BY <1>9, <1>10, <2>5, <4>2 DEF AtMost
      <4> QED
        BY <4>1, <4>2
    <3> QED
      BY <1>4, <1>14, <2>2, <2>3, <2>5, <3>1 DEF BeyondCandle
  <2> QED
    BY <2>4, <2>5
<1>17. CASE ~turns
  <2>1. next = [sar |-> Append(r.sar, sar), up |-> r.up, ep |-> ep, af |-> af]
    BY <1>13, <1>17
  <2>2. next \in Parabolic
    BY <1>1, <1>15, <2>1 DEF Parabolic
  <2>3. next.up = r.up /\ Last(next.sar) = sar
    BY <1>15, <2>1
  <2>4. IF r.up THEN AtMost(sar, c.low) ELSE AtMost(c.high, sar)
    BY <1>12, <1>17 DEF AtMost
  <2> QED
    BY <1>4, <1>14, <2>2, <2>3, <2>4 DEF BeyondCandle
<1> QED
  BY <1>16, <1>17

\* The steps at the given places.
ParabolicFrom(cs, first, places, step, max) ==
  FoldLeft(LAMBDA r, i : StopAndReverse(cs, r, i, step, max), first, places)

LEMMA ParabolicRuns ==
  ASSUME NEW cs \in Seq(WellFormed), NEW first \in Parabolic, NEW places \in Seq(2..Len(cs)),
         Len(places) > 0, NEW step \in Fractions, NEW max \in Fractions
  PROVE  \E r \in Parabolic :
           ParabolicFrom(cs, first, places, step, max) =
             StopAndReverse(cs, r, places[Len(places)], step, max)
<1> DEFINE n == Len(places)
           Next1(r, i) == StopAndReverse(cs, r, places[i], step, max)
           Step(t, h) == IF t = {} THEN first ELSE Next1(h[t \ {Max(t)}], Max(t))
           Adds(h) == h = [t \in SUBSET (1..n) |-> Step(t, h)]
           iter == CHOOSE h : Adds(h)
           g == [x \in (1..n) \X Parabolic |-> Next1(x[2], x[1])]
<1>2. n \in Nat /\ DOMAIN places = 1..n
  OBVIOUS
<1>3. ParabolicFrom(cs, first, places, step, max) = iter[1..n]
  BY <1>2 DEF ParabolicFrom, FoldLeft, MapThenFoldSet
<1>4. first \in Parabolic /\ \A i \in 1..n : \A r \in Parabolic : Next1(r, i) \in Parabolic
  <2>1. ASSUME NEW i \in 1..n, NEW r \in Parabolic PROVE Next1(r, i) \in Parabolic
    <3>1. PICK j \in 2..Len(cs) : j = places[i]
      BY <1>2, ElementOfSeq
    <3> QED
      BY <3>1, ReversalIs
  <2> HIDE DEF Next1
  <2> QED
    BY <2>1
<1>5. g \in [(1..n) \X Parabolic -> Parabolic]
  <2> HIDE DEF Next1
  <2> QED
    BY <1>4
<1>6. \E h \in [SUBSET (1..n) -> Parabolic] : Adds(h)
  <2>1. PICK h \in [SUBSET (1..n) -> Parabolic] : Folded(h, first, g, n)
    <3> HIDE DEF g
    <3> QED
      BY <1>2, <1>4, <1>5, FoldsExist
  <2>2. ASSUME NEW t \in SUBSET (1..n) PROVE h[t] = Step(t, h)
    <3>1. CASE t = {}
      BY <2>1, <3>1 DEF Folded
    <3>2. CASE t # {}
      <4>1. Max(t) \in 1..n
        <5>1. t \in SUBSET (0..n)
          OBVIOUS
        <5>2. Max(t) \in t
          BY <1>2, <3>2, <5>1, GreatestIsMember
        <5> QED
          BY <5>2
      <4>2. h[t] = g[<<Max(t), h[t \ {Max(t)}]>>]
        BY <2>1, <3>2 DEF Folded
      <4>3. h[t \ {Max(t)}] \in Parabolic
        OBVIOUS
      <4>4. <<Max(t), h[t \ {Max(t)}]>> \in (1..n) \X Parabolic
        BY <4>1, <4>3
      <4> HIDE DEF Next1
      <4>5. g[<<Max(t), h[t \ {Max(t)}]>>] = Next1(h[t \ {Max(t)}], Max(t))
        BY <4>4
      <4> QED
        BY <3>2, <4>2, <4>5
    <3> QED
      BY <3>1, <3>2
  <2>3. Adds(h)
    <3> HIDE DEF Step
    <3> QED
      BY <2>1, <2>2, Zenon
  <2> QED
    BY <2>3
<1>7. Adds(iter)
  <2> HIDE DEF Adds
  <2> QED
    BY <1>6, Zenon
<1> HIDE DEF iter, Next1
<1>8. iter[1..0] = first
  <2>1. {} \in SUBSET (1..n) /\ 1..0 = {}
    OBVIOUS
  <2>2. iter[{}] = Step({}, iter)
    BY <1>7, <2>1
  <2> QED
    BY <2>1, <2>2
<1>9. ASSUME NEW i \in 1..n PROVE iter[1..i] = Next1(iter[1..(i - 1)], i)
  <2>1. /\ 1..i \in SUBSET (1..n) /\ 1..i # {} /\ Max(1..i) = i /\ (1..i) \ {i} = 1..(i - 1)
    BY <1>2, FoldSteps
  <2>2. iter[1..i] = Step(1..i, iter)
    BY <1>7, <2>1
  <2> QED
    BY <2>1, <2>2
<1>10. \A i \in 0..n : iter[1..i] \in Parabolic
  <2> DEFINE I == {i \in Nat : i <= n => iter[1..i] \in Parabolic}
  <2> HIDE DEF n
  <2>1. 0 \in I
    BY <1>4, <1>8
  <2>2. ASSUME NEW i \in Nat, i \in I PROVE i + 1 \in I
    <3> SUFFICES ASSUME i + 1 <= n PROVE iter[1..(i + 1)] \in Parabolic
      OBVIOUS
    <3>1. i + 1 \in 1..n /\ i + 1 - 1 = i /\ iter[1..i] \in Parabolic
      BY <1>2, <2>2
    <3>2. iter[1..(i + 1)] = Next1(iter[1..i], i + 1)
      BY <1>9, <3>1
    <3> QED
      BY <1>4, <3>1, <3>2
  <2>3. \A i \in Nat : i \in I
    <3> HIDE DEF I
    <3> QED
      BY <2>1, <2>2, AllNumbers
  <2> QED
    BY <1>2, <2>3
<1>11. n \in 1..n /\ n - 1 \in 0..n
  BY <1>2
<1>12. iter[1..n] = Next1(iter[1..(n - 1)], n) /\ iter[1..(n - 1)] \in Parabolic
  BY <1>9, <1>10, <1>11
<1> QED
  BY <1>3, <1>12 DEF Next1

LEMMA ParabolicBeyond ==
  ASSUME NEW cs \in Seq(WellFormed), NEW step \in Fractions, NEW max \in Fractions
  PROVE  LET psar == calcPSAR(cs, step, max) IN
         psar # Null => IF psar.up THEN AtMost(Last(psar.sar), Last(cs).low)
                                   ELSE AtMost(Last(cs).high, Last(psar.sar))
<1>1. CASE Len(cs) < 2
  BY <1>1 DEF calcPSAR
<1>2. CASE ~(Len(cs) < 2)
  <2>1. PICK n \in Nat : n = Len(cs) /\ n >= 2
    BY <1>2
  <2>2. PICK c \in WellFormed : c = cs[1] /\ 1 \in 1..n
    BY <2>1, ElementOfSeq
  <2>3. PICK first \in Parabolic : first = [sar |-> <<c.low>>, up |-> TRUE, ep |-> c.high, af |-> step]
    <3>1. c.low \in Fractions /\ c.high \in Fractions
      BY WellFormedIs, ReducedNumbers
    <3>2. <<c.low>> \in Seq(Fractions) \ {<<>>}
      BY <3>1
    <3> QED
      BY <3>1, <3>2 DEF Parabolic
  <2>4. PICK places : places = [i \in 1..(Len(cs) - 1) |-> i + 1]
    OBVIOUS
  <2>5. places \in Seq(2..Len(cs)) /\ Len(places) > 0 /\ places[Len(places)] = Len(cs)
    <3>1. PICK m \in Nat : m = n - 1 /\ m > 0 /\ m + 1 = n
      <4>1. n - 1 \in Nat /\ n - 1 > 0
        BY <2>1
      <4> QED
        BY <4>1
    <3>2. \A i \in 1..m : i + 1 \in 2..n
      BY <3>1
    <3>3. places = [i \in 1..m |-> i + 1]
      BY <2>1, <2>4, <3>1
    <3>4. places \in Seq(2..n) /\ Len(places) = m /\ places[m] = m + 1
      BY <3>1, <3>2, <3>3
    <3> QED
      BY <2>1, <3>1, <3>4
  <2>6. calcPSAR(cs, step, max) = ParabolicFrom(cs, first, places, step, max)
    BY <1>2, <2>2, <2>3, <2>4 DEF calcPSAR, ParabolicFrom
  <2>7. PICK r \in Parabolic : calcPSAR(cs, step, max) = StopAndReverse(cs, r, Len(cs), step, max)
    <3>1. \E r \in Parabolic :
            ParabolicFrom(cs, first, places, step, max) =
              StopAndReverse(cs, r, places[Len(places)], step, max)
      BY <2>5, ParabolicRuns
    <3> QED
      BY <2>5, <2>6, <3>1
  <2>8. Len(cs) \in 2..Len(cs)
    BY <2>1
  <2>9. BeyondCandle(StopAndReverse(cs, r, Len(cs), step, max), cs[Len(cs)])
    BY <2>8, ReversalIs
  <2> QED
    BY <2>7, <2>9 DEF BeyondCandle, Last
<1> QED
  BY <1>1, <1>2

LEMMA SpanOrNull ==
  ASSUME NEW low \in Int, NEW high \in Int, NEW x, x = Null \/ x \in Span(low, high)
  PROVE  Within(x, low, high)
BY SpanIsWithin DEF Within

\* For any candles and any period, the indices are percentages, %R and the money flow stay between
\* their ends, and the parabolic stop lies beyond its candle (calcRSI, indicators.ts:67; calcADX and
\* calcPSAR, trend-indicators.ts:123; momentum-indicators.ts; volume-indicators.ts).
THEOREM RangesHold ==
  ASSUME NEW cs \in Seq(WellFormed), NEW p \in Nat \ {0}
  PROVE  InRange(cs, p)
<1>1. PICK closes \in Seq(Reduced) : closes = Closes(cs)
  BY SeriesOf
<1>2. PICK one \in Nat \ {0}, two \in Nat \ {0} : one = 1 /\ two = 2
  OBVIOUS
<1>3. ASSUME NEW x \in {calcRSI(closes, p), calcMFI(cs, p)} PROVE Within(x, 0, 100)
  <2>1. calcRSI(closes, p) = Null \/ calcRSI(closes, p) \in Span(0, 100)
    BY RsiStays
  <2>2. calcMFI(cs, p) = Null \/ calcMFI(cs, p) \in Span(0, 100)
    BY FlowStays
  <2>3. x = Null \/ x \in Span(0, 100)
    BY <2>1, <2>2
  <2> QED
    BY <2>3, SpanOrNull
<1>4. ASSUME NEW x \in Parts(calcStochastic(cs, p, p), {"k", "d"}) PROVE Within(x, 0, 100)
  <2>1. PICK r : r = calcStochastic(cs, p, p)
    OBVIOUS
  <2>2. r # Null => (r.k = Null \/ r.k \in Span(0, 100)) /\ (r.d = Null \/ r.d \in Span(0, 100))
    BY <2>1, StochasticStays
  <2>3. \A n \in {"k", "d"} : r # Null => r[n] = Null \/ r[n] \in Span(0, 100)
    BY <2>2
  <2> QED
    BY <2>1, <2>3, PartsWithin
<1>5. ASSUME NEW x \in Parts(calcStochRSI(closes, p, 2, 1, 1), {"k", "d"}) PROVE Within(x, 0, 100)
  <2>1. PICK r : r = calcStochRSI(closes, p, two, one, one)
    OBVIOUS
  <2>2. r # Null => (r.k = Null \/ r.k \in Span(0, 100)) /\ (r.d = Null \/ r.d \in Span(0, 100))
    BY <2>1, StochRsiStays
  <2>3. \A n \in {"k", "d"} : r # Null => r[n] = Null \/ r[n] \in Span(0, 100)
    BY <2>2
  <2> QED
    BY <1>2, <2>1, <2>3, PartsWithin
<1>6. ASSUME NEW x \in Parts(calcAroon(cs, p), {"up", "down"}) PROVE Within(x, 0, 100)
  <2>1. PICK r : r = calcAroon(cs, p)
    OBVIOUS
  <2>2. r # Null => (r.up = Null \/ r.up \in Span(0, 100)) /\ (r.down = Null \/ r.down \in Span(0, 100))
    BY <2>1, AroonStays
  <2>3. \A n \in {"up", "down"} : r # Null => r[n] = Null \/ r[n] \in Span(0, 100)
    BY <2>2
  <2> QED
    BY <2>1, <2>3, PartsWithin
<1>7. ASSUME NEW x \in Parts(calcADX(cs, p), {"adx", "plusDI", "minusDI"}) PROVE Within(x, 0, 100)
  <2>1. PICK r : r = calcADX(cs, p)
    OBVIOUS
  <2>2. r # Null => /\ r.adx = Null \/ r.adx \in Span(0, 100)
                    /\ r.plusDI = Null \/ r.plusDI \in Span(0, 100)
                    /\ r.minusDI = Null \/ r.minusDI \in Span(0, 100)
    BY <2>1, DirectionStays
  <2>3. \A n \in {"adx", "plusDI", "minusDI"} : r # Null => r[n] = Null \/ r[n] \in Span(0, 100)
    BY <2>2
  <2> QED
    BY <2>1, <2>3, PartsWithin
<1>8. Within(calcWilliamsR(cs, p), -100, 0)
  <2>1. calcWilliamsR(cs, p) = Null \/ calcWilliamsR(cs, p) \in Span(-100, 0)
    BY WilliamsStays
  <2> QED
    BY <2>1, SpanOrNull
<1>9. Within(calcCMF(cs, p), -1, 1)
  <2>1. calcCMF(cs, p) = Null \/ calcCMF(cs, p) \in Span(-1, 1)
    BY MoneyFlowStays
  <2> QED
    BY <2>1, SpanOrNull
<1>10. PICK step \in Fractions, max \in Fractions : step = Ratio(1, 2) /\ max = Q(1)
  <2>1. Ratio(1, two) \in Fractions
    BY RatioIs DEF IsOver
  <2> QED
    BY <1>2, <2>1, NumberIs
<1>11. PICK psar : psar = calcPSAR(cs, Ratio(1, 2), Q(1))
  OBVIOUS
<1>12. psar # Null => IF psar.up THEN AtMost(Last(psar.sar), Last(cs).low)
                                 ELSE AtMost(Last(cs).high, Last(psar.sar))
  <2>1. psar = calcPSAR(cs, step, max)
    BY <1>10, <1>11
  <2> QED
    BY <2>1, ParabolicBeyond
<1>13. PICK percents : percents = {calcRSI(closes, p), calcMFI(cs, p)}
                                  \cup Parts(calcStochastic(cs, p, p), {"k", "d"})
                                  \cup Parts(calcStochRSI(closes, p, 2, 1, 1), {"k", "d"})
                                  \cup Parts(calcAroon(cs, p), {"up", "down"})
                                  \cup Parts(calcADX(cs, p), {"adx", "plusDI", "minusDI"})
  OBVIOUS
<1>14. \A x \in percents : Within(x, 0, 100)
  BY <1>3, <1>4, <1>5, <1>6, <1>7, <1>13
<1> QED
  BY <1>1, <1>8, <1>9, <1>11, <1>12, <1>13, <1>14, Zenon DEF InRange

\* The oscillators stay in the ranges their documentation gives (momentum-indicators.ts,
\* trend-indicators.ts, volume-indicators.ts), in every state.
THEOREM OscillatorsStayInRange == Spec => []OscillatorsInRange
<1> DEFINE Inv == candles \in Seq(Shapes)
<1>1. Init => Inv
  BY DEF Init
<1>2. Inv /\ [Next]_algorithmVars => Inv'
  <2> SUFFICES ASSUME candles \in Seq(Shapes), [Next]_algorithmVars PROVE candles' \in Seq(Shapes)
    OBVIOUS
  <2>1. CASE Ask
    BY <2>1 DEF Ask
  <2>2. CASE AddCandle
    <3>1. PICK c \in Shapes : candles' = Append(candles, c)
      BY <2>2 DEF AddCandle
    <3> QED
      BY <3>1
  <2>3. CASE AddTrade
    BY <2>3 DEF AddTrade
  <2>4. CASE UNCHANGED algorithmVars
    BY <2>4 DEF algorithmVars
  <2> QED
    BY <2>1, <2>2, <2>3, <2>4 DEF Next
<1>3. Shapes \in SUBSET WellFormed
  <2>1. ASSUME NEW l \in Nat, NEW c \in Nat, NEW h \in Nat, NEW v \in Nat, l <= c, c <= h
        PROVE  Candle(l, c, h, v) \in WellFormed
    <3>1. Q(l) \in Reduced /\ Q(c) \in Reduced /\ Q(h) \in Reduced /\ Q(v) \in Reduced
      BY NumberReduced
    <3>2. Leq(Q(l), Q(c)) /\ Leq(Q(c), Q(h))
      BY <2>1 DEF Leq, Q
    <3>3. NotNegative(Q(l)) /\ NotNegative(Q(v))
      BY NumberIs DEF NotNegative
    <3> QED
      BY <3>1, <3>2, <3>3 DEF Candle, WellFormed
  <2>2. /\ Candle(1, 1, 1, 1) \in WellFormed /\ Candle(1, 2, 3, 1) \in WellFormed
        /\ Candle(2, 4, 4, 2) \in WellFormed /\ Candle(0, 0, 1, 0) \in WellFormed
    BY <2>1
  <2> QED
    BY <2>2 DEF Shapes
<1>4. Inv => OscillatorsInRange
  <2> SUFFICES ASSUME candles \in Seq(Shapes), NEW p \in Periods PROVE InRange(candles, p)
    BY DEF OscillatorsInRange
  <2>1. candles \in Seq(WellFormed)
    BY <1>3
  <2>2. p \in Nat \ {0}
    BY DEF Periods
  <2> QED
    BY <2>1, <2>2, RangesHold
<1> QED
  BY <1>1, <1>2, <1>4, PTL DEF Spec
=============================================================================
