---------------------------- MODULE TradingProofs ----------------------------
(***************************************************************************)
(* Proofs about Trading, for any finite set of markets, any books, readings,  *)
(* fee model, guards, exits and sizes, and any number of steps.               *)
(*                                                                         *)
(* An exit loop sells any number of positions within one step, and a book is  *)
(* a sum over any number of markets.  Both are folds; what they compute is     *)
(* established by induction, of which the one principle assumed is that        *)
(* < is well founded on Nat: a set of numbers has a least member              *)
(* (LeastNumber), so one that holds 0 and every successor holds all           *)
(* (AllNumbers), and likewise for the subsets of a finite set (AllSubsets).    *)
(*                                                                         *)
(* ExitsKeep and TickKeeps say once what is needed of a set of accounts for    *)
(* a whole tick to stay in it: that a single sale does, and a single entry.    *)
(* The types and the ledger are two such sets.                              *)
(***************************************************************************)
EXTENDS Trading, FiniteSetTheorems, SequenceTheorems, WellFoundedInduction, TLAPS

-----------------------------------------------------------------------------
(* Induction.                                                              *)

LEMMA LeastNumber ==
  ASSUME NEW T \in SUBSET Nat, T # {}
  PROVE  \E x \in T : \A y \in T : x <= y
<1> DEFINE R == {ss \in Nat \X Nat : ss[1] < ss[2]}
<1>1. R = OpToRel(<, Nat)
  BY DEF OpToRel
<1>2. IsWellFoundedOn(R, Nat)
  BY <1>1, NatLessThanWellFounded
<1>3. PICK x \in T : \A y \in T : ~ (<<y, x>> \in R)
  BY <1>2, WFMin
<1>4. ASSUME NEW y \in T PROVE x <= y
  <2>1. x \in Nat /\ y \in Nat /\ (y < x => <<y, x>> \in R)
    OBVIOUS
  <2> HIDE DEF R
  <2>2. QED
    BY <2>1, <1>3
<1>5. QED
  BY <1>4

\* A set with 0 and the successor of each of its numbers has them all.
LEMMA AllNumbers ==
  ASSUME NEW S, 0 \in S, \A n \in Nat : n \in S => n + 1 \in S
  PROVE  \A n \in Nat : n \in S
<1> SUFFICES ASSUME Nat \ S # {} PROVE FALSE
  OBVIOUS
<1>1. PICK x \in Nat \ S : \A y \in Nat \ S : x <= y
  BY LeastNumber
<1>2. x - 1 \in Nat /\ x - 1 + 1 = x
  BY <1>1
<1>3. QED
  BY <1>1, <1>2

\* A set of numbers up to n has a greatest, which Max returns.
LEMMA GreatestNumber ==
  ASSUME NEW n \in Nat, NEW T \in SUBSET (0..n), T # {}
  PROVE  Max(T) \in T /\ \A y \in T : y <= Max(T)
<1> DEFINE D == {n - x : x \in T}
<1>1. D \in SUBSET Nat /\ D # {}
  OBVIOUS
<1>2. PICK d \in D : \A y \in D : d <= y
  BY <1>1, LeastNumber
<1>3. PICK x \in T : d = n - x
  BY <1>2
<1>4. ASSUME NEW y \in T PROVE x >= y
  <2>1. n - y \in D
    OBVIOUS
  <2> HIDE DEF D
  <2>2. QED
    BY <1>2, <1>3, <2>1
<1>5. \A y \in T : Max(T) \in T /\ Max(T) >= y
  BY <1>4, Zenon DEF Max
<1>6. QED
  BY <1>5

-----------------------------------------------------------------------------
(* The exits of a tick, one after the other.                               *)

\* The i-th sale, and the accounts after the sales of each set of positions in the order.
Sold(a, order, i, c, priced) == sell(a, order[i], exitPrice(order[i], c, priced))

Sales(iter, base, order, k, c, priced) ==
  iter = [t \in SUBSET (1..k) |->
            IF t = {} THEN base
            ELSE Sold(iter[t \ {Max(t)}], order, Max(t), c, priced)]

LEMMA SalesExist ==
  ASSUME NEW base, NEW order, NEW c, NEW priced, NEW n \in Nat
  PROVE  \E iter : Sales(iter, base, order, n, c, priced)
<1> DEFINE S == {k \in Nat : \E g : Sales(g, base, order, k, c, priced)}
<1>1. 0 \in S
  <2> DEFINE g == [t \in SUBSET (1..0) |-> base]
  <2>1. Sales(g, base, order, 0, c, priced)
    BY DEF Sales
  <2>2. QED
    BY <2>1
<1>2. ASSUME NEW k \in Nat, k \in S PROVE k + 1 \in S
  <2>1. PICK g : Sales(g, base, order, k, c, priced)
    BY <1>2
  <2> DEFINE h == [t \in SUBSET (1..(k + 1)) |->
                     IF k + 1 \in t THEN Sold(g[t \ {k + 1}], order, k + 1, c, priced) ELSE g[t]]
             next(t) == IF t = {} THEN base
                        ELSE Sold(h[t \ {Max(t)}], order, Max(t), c, priced)
  <2>2. ASSUME NEW t \in SUBSET (1..(k + 1)) PROVE h[t] = next(t)
    <3>1. CASE k + 1 \in t
      <4>1. Max(t) = k + 1
        <5>1. k + 1 \in Nat /\ t \in SUBSET (0..(k + 1)) /\ t # {}
          BY <3>1
        <5>2. Max(t) \in t /\ \A y \in t : y <= Max(t)
          BY <5>1, GreatestNumber
        <5>3. Max(t) \in 1..(k + 1) /\ k + 1 <= Max(t)
          BY <3>1, <5>2
        <5>4. QED
          BY <5>3
      <4>2. t \ {k + 1} \in SUBSET (1..k) /\ t \ {k + 1} \in SUBSET (1..(k + 1))
        OBVIOUS
      <4>3. h[t \ {k + 1}] = g[t \ {k + 1}]
        BY <4>2
      <4>4. h[t] = Sold(g[t \ {k + 1}], order, k + 1, c, priced)
        BY <3>1
      <4>5. QED
        BY <3>1, <4>1, <4>3, <4>4
    <3>2. CASE k + 1 \notin t
      <4>1. t \in SUBSET (1..k) /\ h[t] = g[t]
        BY <3>2
      <4>2. CASE t = {}
        BY <2>1, <4>1, <4>2 DEF Sales
      <4>3. CASE t # {}
        <5>1. t \ {Max(t)} \in SUBSET (1..k) /\ t \ {Max(t)} \in SUBSET (1..(k + 1))
          BY <4>1
        <5>2. h[t \ {Max(t)}] = g[t \ {Max(t)}]
          BY <5>1, <3>2
        <5>3. g[t] = Sold(g[t \ {Max(t)}], order, Max(t), c, priced)
          BY <2>1, <4>1, <4>3 DEF Sales
        <5>4. QED
          BY <4>1, <4>3, <5>2, <5>3
      <4>4. QED
        BY <4>2, <4>3
    <3>3. QED
      BY <3>1, <3>2
  <2>3. h = [t \in SUBSET (1..(k + 1)) |-> next(t)]
    BY <2>2, Zenon
  <2>4. Sales(h, base, order, k + 1, c, priced)
    BY <2>3 DEF Sales
  <2>5. QED
    BY <2>4
<1>3. \A k \in Nat : k \in S
  <2> HIDE DEF S
  <2>1. QED
    BY <1>1, <1>2, AllNumbers
<1>4. QED
  BY <1>3

\* processExits() leads through a chain of accounts, a sale at each link.
LEMMA SoldInTurn ==
  ASSUME NEW order \in Seq(Markets), NEW c, NEW priced
  PROVE  \E chain : /\ chain = [i \in 0..Len(order) |-> chain[i]]
                    /\ chain[0] = Accounts
                    /\ \A i \in 1..Len(order) : chain[i] = Sold(chain[i - 1], order, i, c, priced)
                    /\ exitsOf(order, c, priced) = chain[Len(order)]
<1> DEFINE n == Len(order)
           iter == CHOOSE iter : Sales(iter, Accounts, order, n, c, priced)
           chain == [i \in 0..n |-> iter[1..i]]
<1>1. n \in Nat /\ DOMAIN order = 1..n
  OBVIOUS
<1>2. Sales(iter, Accounts, order, n, c, priced)
  <2> HIDE DEF n
  <2>1. QED
  BY <1>1, SalesExist, Zenon
<1>3. exitsOf(order, c, priced) = iter[1..n]
  BY <1>1 DEF exitsOf, FoldLeft, MapThenFoldSet, Sales, Sold
<1> HIDE DEF iter, n
<1>4. 1..0 = {} /\ iter[{}] = Accounts
  BY <1>1, <1>2 DEF Sales
<1>5. ASSUME NEW i \in 1..n PROVE iter[1..i] = Sold(iter[1..(i - 1)], order, i, c, priced)
  <2>1. 1..i \in SUBSET (0..n) /\ 1..i \in SUBSET (1..n) /\ i \in 1..i
    BY <1>1
  <2>2. Max(1..i) = i
    <3>1. Max(1..i) \in 1..i /\ \A y \in 1..i : y <= Max(1..i)
      BY <1>1, <2>1, GreatestNumber
    <3>2. QED
      BY <3>1
  <2>3. (1..i) \ {i} = 1..(i - 1)
    BY <1>1
  <2>4. QED
    BY <1>2, <2>1, <2>2, <2>3 DEF Sales
<1>6. QED
  <2>1. /\ chain = [i \in 0..n |-> chain[i]] /\ chain[0] = Accounts
        /\ \A i \in 1..n : chain[i] = Sold(chain[i - 1], order, i, c, priced)
        /\ exitsOf(order, c, priced) = chain[n]
    BY <1>1, <1>3, <1>4, <1>5
  <2>2. QED
    BY <2>1 DEF n

-----------------------------------------------------------------------------
(* Types.                                                                   *)

LEMMA FeeTyped ==
  ASSUME NEW cost \in Nat, NEW pnl \in Int
  PROVE  computeFee(FeeModel, cost, pnl) \in Nat
<1>1. CASE FeeModel \in [type : {"none"}]
  BY <1>1 DEF computeFee
<1>2. CASE FeeModel \in [type : {"fixed_notional"}, bps : Nat]
  <2>1. FeeModel.bps \in Nat /\ FeeModel.type = "fixed_notional"
    BY <1>2
  <2>2. cost * FeeModel.bps \in Nat
    BY <2>1
  <2>3. QED
    BY <2>1, <2>2 DEF computeFee
<1>3. CASE FeeModel \in [type : {"profit_based"}, pct : Nat]
  <2>1. FeeModel.pct \in Nat /\ FeeModel.type = "profit_based"
    BY <1>3
  <2>2. pnl > 0 => pnl * FeeModel.pct \in Nat
    BY <2>1
  <2>3. pnl > 0 => pnl * FeeModel.pct * 100 \in Nat
    BY <2>2
  <2>4. QED
    BY <2>1, <2>3 DEF computeFee
<1>4. QED
  BY <1>1, <1>2, <1>3, ConfigurationAssumption

LEMMA ResultTyped ==
  ASSUME NEW p \in Position, NEW price \in Nat
  PROVE  /\ pnlTotal(p, price) \in Int /\ price * p.size \in Nat
         /\ computeFee(FeeModel, p.cost, pnlTotal(p, price)) \in Nat
<1>1. p.size \in Nat /\ p.cost \in Nat
  BY DEF Position
<1>2. price * p.size \in Nat
  BY <1>1
<1>3. pnlTotal(p, price) \in Int
  BY <1>1, <1>2 DEF pnlTotal
<1>4. QED
  BY <1>1, <1>2, <1>3, FeeTyped

LEMMA StatisticsTyped ==
  ASSUME NEW s \in Statistics, NEW pnl \in Int, NEW fee \in Nat
  PROVE  handlePositionClosed(s, pnl, fee) \in Statistics
<1>1. /\ s.trades \in Nat /\ s.wins \in Nat /\ s.losses \in Nat /\ s.pnl \in Int
      /\ s.fees \in Nat /\ s.peak \in Nat /\ s.drawdown \in Nat /\ s.best \in Int
      /\ s.worst \in Int
  BY DEF Statistics
<1> DEFINE equity == Unit * (s.pnl + pnl) - (s.fees + fee)
<1>2. equity \in Int
  BY <1>1 DEF Unit
<1> HIDE DEF equity
<1>3. /\ (IF equity > s.peak THEN equity ELSE s.peak) \in Nat
      /\ (IF s.peak - equity > s.drawdown THEN s.peak - equity ELSE s.drawdown) \in Nat
  BY <1>1, <1>2
<1>4. QED
  BY <1>1, <1>3 DEF handlePositionClosed, equity, Statistics

\* The recent history is the end of it.
LEMMA EndOfHistory ==
  ASSUME NEW C, NEW all \in Seq(C)
  PROVE  /\ SubSeq(all, Larger(Len(all) - MaxClosed, 0) + 1, Len(all)) \in Seq(C)
         /\ Len(SubSeq(all, Larger(Len(all) - MaxClosed, 0) + 1, Len(all)))
              = Smaller(MaxClosed, Len(all))
         /\ \A i \in 1..Smaller(MaxClosed, Len(all)) :
              SubSeq(all, Larger(Len(all) - MaxClosed, 0) + 1, Len(all))[i]
                = all[Len(all) - Smaller(MaxClosed, Len(all)) + i]
<1> DEFINE n == Len(all)
           lo == Larger(n - MaxClosed, 0) + 1
           k == Smaller(MaxClosed, n)
<1>1. n \in Nat /\ MaxClosed \in Nat
  BY ConfigurationAssumption
<1>2. lo \in Nat /\ lo >= 1 /\ k \in Nat /\ k = n - lo + 1 /\ n - k = lo - 1
  <2> HIDE DEF n
  <2>1. QED
    BY <1>1 DEF Larger, Smaller
<1>3. \A i \in lo..n : all[i] \in C
  <2>1. \A i \in lo..n : i \in 1..n
    BY <1>1, <1>2
  <2>2. QED
    BY <2>1, ElementOfSeq
<1> HIDE DEF n, lo, k
<1>4. /\ SubSeq(all, lo, n) \in Seq(C) /\ Len(SubSeq(all, lo, n)) = k
      /\ \A i \in 1..k : SubSeq(all, lo, n)[i] = all[n - k + i]
  <2>1. n \in Int /\ lo \in Int
    BY <1>1, <1>2
  <2>2. /\ SubSeq(all, lo, n) \in Seq(C)
        /\ Len(SubSeq(all, lo, n)) = IF lo <= n THEN n - lo + 1 ELSE 0
        /\ \A i \in 1..(n - lo + 1) : SubSeq(all, lo, n)[i] = all[lo + i - 1]
    BY <1>3, <2>1, SubSeqProperties
  <2>3. Len(SubSeq(all, lo, n)) = k
    BY <1>1, <1>2, <2>2
  <2>4. ASSUME NEW i \in 1..k PROVE SubSeq(all, lo, n)[i] = all[n - k + i]
    <3>1. lo + i - 1 = n - k + i /\ i \in 1..(n - lo + 1)
      BY <1>1, <1>2
    <3>2. QED
      BY <2>2, <3>1
  <2>5. QED
    BY <2>2, <2>3, <2>4
<1>5. QED
  BY <1>4 DEF n, lo, k

LEMMA CloseTyped ==
  ASSUME NEW M \in SUBSET Markets, NEW b \in Manager(M), NEW m \in M, NEW price \in Nat
  PROVE  close(b, m, price) \in Manager(M \ {m})
<1> DEFINE p == b.positions[m]
           pnl == pnlTotal(p, price)
           C == [market : Markets, size : Nat, pnl : Int]
           entry == [market |-> m, size |-> p.size, pnl |-> pnl]
           all == Append(b.closed, entry)
<1>1. /\ p \in Position /\ b.positions \in [M -> Position] /\ b.closed \in Seq(C)
      /\ b.accRealizedPnl \in Int
  BY DEF Manager
<1>2. p.size \in Nat /\ pnl \in Int
  <2>1. p.size \in Nat
    BY <1>1 DEF Position
  <2> HIDE DEF p
  <2>2. QED
    BY <1>1, <2>1, ResultTyped
<1>3. m \in Held(b) /\ Without(b, m) \in [M \ {m} -> Position]
  BY <1>1 DEF Held, Without
<1>4. entry \in C
  BY <1>2
<1>5. all \in Seq(C)
  <2> HIDE DEF entry, C
  <2>1. QED
    BY <1>1, <1>4
<1>6. SubSeq(all, Larger(Len(all) - MaxClosed, 0) + 1, Len(all)) \in Seq(C)
  <2> HIDE DEF all, C
  <2>1. QED
    BY <1>5, EndOfHistory
<1>7. b.accRealizedPnl + pnl \in Int
  <2> HIDE DEF pnl
  <2>1. QED
    BY <1>1, <1>2
<1>8. close(b, m, price)
        = [positions |-> Without(b, m),
           closed |-> SubSeq(all, Larger(Len(all) - MaxClosed, 0) + 1, Len(all)),
           accRealizedPnl |-> b.accRealizedPnl + pnl]
  BY <1>3 DEF close
<1> HIDE DEF all, pnl
<1>9. QED
  BY <1>3, <1>6, <1>7, <1>8 DEF Manager

LEMMA SellTyped ==
  ASSUME NEW M \in SUBSET Markets, NEW a \in Account(M), NEW m \in M, NEW price \in Nat
  PROVE  sell(a, m, price) \in Account(M \ {m})
<1> DEFINE p == a.manager.positions[m]
           pnl == pnlTotal(p, price)
           fee == computeFee(FeeModel, p.cost, pnl)
<1>1. /\ p \in Position /\ a.manager \in Manager(M) /\ a.stats \in Statistics /\ a.cash \in Int
      /\ a.trades \in Seq([pnl : Int, fee : Nat])
  BY DEF Account, Manager
<1>2. sell(a, m, price) = [manager |-> close(a.manager, m, price),
                           stats |-> handlePositionClosed(a.stats, pnl, fee),
                           cash |-> a.cash + price * p.size,
                           trades |-> Append(a.trades, [pnl |-> pnl, fee |-> fee])]
  BY DEF sell
<1>3. pnl \in Int /\ fee \in Nat /\ price * p.size \in Nat
  <2> HIDE DEF p
  <2>1. QED
    BY <1>1, ResultTyped
<1> HIDE DEF p, pnl, fee
<1>4. /\ close(a.manager, m, price) \in Manager(M \ {m})
      /\ handlePositionClosed(a.stats, pnl, fee) \in Statistics
      /\ a.cash + price * p.size \in Int
      /\ Append(a.trades, [pnl |-> pnl, fee |-> fee]) \in Seq([pnl : Int, fee : Nat])
  <2>1. close(a.manager, m, price) \in Manager(M \ {m})
    BY <1>1, CloseTyped
  <2>2. handlePositionClosed(a.stats, pnl, fee) \in Statistics
    BY <1>1, <1>3, StatisticsTyped
  <2>3. a.cash + price * p.size \in Int
    BY <1>1, <1>3
  <2>4. Append(a.trades, [pnl |-> pnl, fee |-> fee]) \in Seq([pnl : Int, fee : Nat])
    <3>1. [pnl |-> pnl, fee |-> fee] \in [pnl : Int, fee : Nat]
      BY <1>3
    <3>2. QED
      BY <1>1, <3>1, AppendProperties
  <2>5. QED
    BY <2>1, <2>2, <2>3, <2>4
<1>5. QED
  BY <1>2, <1>4 DEF Account

-----------------------------------------------------------------------------
(* The context of a tick.                                                  *)

Quoted == [bid : Nat \cup {None}, ask : Nat \cup {None}]

LEMMA LossStreakTyped ==
  ASSUME TradingTypeOK
  PROVE  LossStreak \in Nat
<1> DEFINE S == {k \in 0..Len(trades) :
                   \A i \in (Len(trades) - k + 1)..Len(trades) : trades[i].pnl < 0}
<1>1. Len(trades) \in Nat
  BY DEF TradingTypeOK, Accounts, Account
<1>2. 0 \in S
  BY <1>1
<1>3. S \in SUBSET (0..Len(trades)) /\ S # {}
  BY <1>2
<1> HIDE DEF S
<1>4. Max(S) \in S
  BY <1>1, <1>3, GreatestNumber
<1>5. QED
  BY <1>1, <1>3, <1>4 DEF LossStreak, S

LEMMA LastEntryTyped ==
  ASSUME TradingTypeOK, NEW m \in Markets
  PROVE  LastEntry(m) \in Nat \cup {None}
<1> DEFINE mine == {i \in DOMAIN entries : entries[i].market = m}
<1>1. entries \in Seq([market : Markets, at : Nat]) /\ Len(entries) \in Nat
      /\ DOMAIN entries = 1..Len(entries)
  BY DEF TradingTypeOK
<1>2. mine \in SUBSET (0..Len(entries))
  BY <1>1
<1>3. mine # {} => Max(mine) \in mine
  <2> HIDE DEF mine
  <2>1. QED
    BY <1>1, <1>2, GreatestNumber
<1>4. mine # {} => Max(mine) \in 1..Len(entries)
  BY <1>1, <1>3
<1> HIDE DEF mine
<1>5. mine # {} => entries[Max(mine)].at \in Nat
  <2>1. ASSUME NEW i \in 1..Len(entries) PROVE entries[i].at \in Nat
    <3>1. entries[i] \in [market : Markets, at : Nat]
      BY <1>1, ElementOfSeq
    <3>2. QED
      BY <3>1
  <2>2. QED
    BY <1>4, <2>1
<1>6. QED
  BY <1>5 DEF LastEntry, mine

LEMMA ContextTyped ==
  ASSUME TradingTypeOK, NEW m \in Markets, NEW reading \in Reading, NEW c,
         c = Context(m, reading)
  PROVE  /\ c.book \in [Sides -> Quoted] /\ c.market = m /\ c.now = now
         /\ c.positions = manager.positions /\ c.pnl = manager.accRealizedPnl
         /\ c.remaining = Expiry - now /\ c.oracle \in Nat \cup {None}
         /\ c.bookAge = reading.bookAge
         /\ c.losses = LossStreak /\ c.lastTrade = LastEntry(m)
         /\ (c.book = NoBook \/ c.book = books[m])
<1>1. /\ c.book = (IF reading.silent THEN NoBook ELSE books[m]) /\ c.market = m /\ c.now = now
      /\ c.positions = manager.positions /\ c.pnl = manager.accRealizedPnl
      /\ c.remaining = Expiry - now /\ c.oracle = reading.oracle
      /\ c.bookAge = reading.bookAge /\ c.losses = LossStreak /\ c.lastTrade = LastEntry(m)
  <2> DEFINE r == [market |-> m, now |-> now,
                   book |-> IF reading.silent THEN NoBook ELSE books[m],
                   positions |-> manager.positions, remaining |-> Expiry - now,
                   balance |-> Deposit + cash, pnl |-> manager.accRealizedPnl,
                   losses |-> LossStreak, lastTrade |-> LastEntry(m)]
  <2>1. c = [x \in DOMAIN reading \cup DOMAIN r |->
               IF x \in DOMAIN r THEN r[x] ELSE reading[x]]
    <3>1. c = Joined(reading, r)
      BY DEF Context
    <3> HIDE DEF r
    <3>2. QED
      BY <3>1 DEF Joined
  <2>2. DOMAIN reading = {"silent", "oracle", "bookAge", "vpin", "p95", "p99", "pending",
                          "drawdownPct", "streak", "trades", "winPct"}
    BY DEF Reading
  <2>3. DOMAIN r = {"market", "now", "book", "positions", "remaining", "balance", "pnl", "losses",
                    "lastTrade"}
    OBVIOUS
  <2>4. /\ r.book = (IF reading.silent THEN NoBook ELSE books[m]) /\ r.market = m /\ r.now = now
        /\ r.positions = manager.positions /\ r.pnl = manager.accRealizedPnl
        /\ r.remaining = Expiry - now /\ r.losses = LossStreak /\ r.lastTrade = LastEntry(m)
    OBVIOUS
  <2> HIDE DEF r
  <2>5. /\ c.book = r.book /\ c.market = r.market /\ c.now = r.now /\ c.positions = r.positions
        /\ c.pnl = r.pnl /\ c.remaining = r.remaining /\ c.oracle = reading.oracle
        /\ c.bookAge = reading.bookAge /\ c.losses = r.losses /\ c.lastTrade = r.lastTrade
    BY <2>1, <2>2, <2>3
  <2>6. QED
    BY <2>4, <2>5
<1>2. NoBook \in [Sides -> Quoted]
  BY DEF NoBook, Sides, Quoted
<1>3. books[m] \in [Sides -> Quoted]
  <2>1. books[m] \in Quotation
    BY MarketAssumption DEF TradingTypeOK
  <2>2. QED
    BY <2>1 DEF Quotation, Quoted
<1>4. reading.oracle \in Nat \cup {None}
  BY DEF Reading
<1>5. QED
  BY <1>1, <1>2, <1>3, <1>4

LEMMA ExitPriceTyped ==
  ASSUME TradingTypeOK, NEW c, c.book \in [Sides -> Quoted], NEW m \in Held(manager), NEW priced
  PROVE  exitPrice(m, c, priced) \in Nat
<1> DEFINE p == manager.positions[m]
<1>1. p \in Position /\ m \in Markets /\ books[m] \in Quotation
  BY MarketAssumption DEF TradingTypeOK, Accounts, Account, Manager, Held
<1>2. p.side \in Sides /\ p.entry \in Nat
  BY <1>1 DEF Position
<1>3. books[m][p.side].bid \in Nat
  BY <1>1, <1>2 DEF Quotation
<1>4. spot2(c, "yes") \in Nat \cup {None}
  <2>1. c.book["yes"].bid \in Nat \cup {None} /\ c.book["yes"].ask \in Nat \cup {None}
    BY DEF Quoted, Sides
  <2>2. QED
    BY <2>1 DEF spot2, TwoSided, bestBid, bestAsk
<1> HIDE DEF p
<1>5. intentPrice(p, c) \in Nat
  BY <1>2, <1>4 DEF intentPrice
<1>6. QED
  BY <1>3, <1>5 DEF exitPrice, p

-----------------------------------------------------------------------------
(* What each sale keeps, the exits of a tick keep.                          *)

LEMMA ExitsKeep ==
  ASSUME TradingTypeOK, NEW c, c.book \in [Sides -> Quoted], NEW priced,
         NEW sold \in SUBSET Held(manager), NEW order \in SetToSeqs(sold),
         NEW K, Accounts \in K[Held(manager)],
         \A M \in SUBSET Markets : \A a \in K[M], m \in M, price \in Nat :
           sell(a, m, price) \in K[M \ {m}]
  PROVE  \E M \in SUBSET Held(manager) : exitsOf(order, c, priced) \in K[M]
<1> DEFINE n == Len(order)
           Left(i) == Held(manager) \ {order[j] : j \in 1..i}
<1>1. Held(manager) \in SUBSET Markets
  BY DEF TradingTypeOK, Accounts, Account, Manager, Held
<1>2. IsFiniteSet(sold) /\ Cardinality(sold) \in Nat
  BY <1>1, MarketAssumption, FS_Subset, FS_CardinalityType
<1>3. /\ order \in [1..Cardinality(sold) -> sold]
      /\ \A i, j \in 1..Cardinality(sold) : i # j => order[i] # order[j]
  BY DEF SetToSeqs
<1>4. order \in Seq(Markets) /\ n = Cardinality(sold)
  <2>1. order \in Seq(sold) /\ n = Cardinality(sold)
    BY <1>2, <1>3
  <2>2. QED
    BY <1>1, <2>1
<1>5. n \in Nat /\ \A i \in 1..n : order[i] \in Held(manager)
  BY <1>2, <1>3, <1>4
<1>6. PICK chain : /\ chain[0] = Accounts /\ exitsOf(order, c, priced) = chain[n]
                   /\ \A i \in 1..n : chain[i] = Sold(chain[i - 1], order, i, c, priced)
  BY <1>4, SoldInTurn
<1> HIDE DEF n
<1> DEFINE S == {i \in Nat : i <= n => chain[i] \in K[Left(i)]}
<1>7. 0 \in S
  <2>1. Left(0) = Held(manager)
    OBVIOUS
  <2>2. QED
    BY <1>6, <2>1
<1>8. ASSUME NEW i \in Nat, i \in S PROVE i + 1 \in S
  <2> SUFFICES ASSUME i + 1 <= n PROVE chain[i + 1] \in K[Left(i + 1)]
    OBVIOUS
  <2>1. i + 1 \in 1..n /\ i \in 0..n /\ i + 1 - 1 = i
    BY <1>5
  <2>2. chain[i + 1] = sell(chain[i], order[i + 1], exitPrice(order[i + 1], c, priced))
    BY <1>6, <2>1 DEF Sold
  <2>3. chain[i] \in K[Left(i)]
    BY <1>8, <2>1
  <2>4. order[i + 1] \in Left(i)
    <3>1. \A j \in 1..i : order[j] # order[i + 1]
      BY <1>3, <1>4, <1>5, <2>1 DEF n
    <3>2. QED
      BY <1>5, <2>1, <3>1
  <2>5. Left(i + 1) = Left(i) \ {order[i + 1]}
    <3>1. 1..(i + 1) = (1..i) \cup {i + 1}
      OBVIOUS
    <3>2. QED
      BY <3>1
  <2>6. exitPrice(order[i + 1], c, priced) \in Nat
    BY <1>5, <2>1, ExitPriceTyped
  <2>7. Left(i) \in SUBSET Markets
    BY <1>1
  <2> HIDE DEF Left
  <2>8. QED
    <3>1. \A a \in K[Left(i)], x \in Left(i), price \in Nat : sell(a, x, price) \in K[Left(i) \ {x}]
      BY <2>7
    <3>2. sell(chain[i], order[i + 1], exitPrice(order[i + 1], c, priced))
            \in K[Left(i) \ {order[i + 1]}]
      BY <2>3, <2>4, <2>6, <3>1
    <3>3. QED
      BY <2>2, <2>5, <3>2
<1>9. \A i \in Nat : i \in S
  <2> HIDE DEF S
  <2>1. QED
    BY <1>7, <1>8, AllNumbers
<1>10. chain[n] \in K[Left(n)] /\ Left(n) \in SUBSET Held(manager)
  BY <1>5, <1>9
<1>11. QED
  <2> HIDE DEF Left
  <2>1. QED
    BY <1>6, <1>10

-----------------------------------------------------------------------------
(* Every step keeps the types.                                              *)

LEMMA RecentTyped ==
  ASSUME NEW c, stamps \in Seq(Nat)
  PROVE  Recent(c) \in Seq(Nat)
<1> DEFINE fresh == {i \in DOMAIN stamps : stamps[i] >= c.now - Window}
<1>1. Len(stamps) \in Nat /\ DOMAIN stamps = 1..Len(stamps)
  OBVIOUS
<1>2. CASE fresh = {}
  BY <1>2 DEF Recent
<1>3. CASE fresh # {}
  <2>1. fresh \in SUBSET Nat /\ fresh \subseteq 1..Len(stamps)
    BY <1>1
  <2> HIDE DEF fresh
  <2>2. PICK x \in fresh : \A y \in fresh : x <= y
    BY <1>3, <2>1, LeastNumber
  <2>3. Min(fresh) \in 1..Len(stamps)
    BY <2>1, <2>2, Zenon DEF Min
  <2>4. SubSeq(stamps, Min(fresh), Len(stamps)) \in Seq(Nat)
    <3> DEFINE lo == Min(fresh)
    <3>1. lo \in 1..Len(stamps)
      BY <2>3
    <3> HIDE DEF lo
    <3>2. \A i \in lo..Len(stamps) : stamps[i] \in Nat
      BY <1>1, <3>1, ElementOfSeq
    <3>3. SubSeq(stamps, lo, Len(stamps)) \in Seq(Nat)
      BY <1>1, <3>1, <3>2, SubSeqProperties
    <3>4. QED
      BY <3>3 DEF lo
  <2>5. QED
    BY <1>3, <2>4 DEF Recent, fresh
<1>4. QED
  BY <1>2, <1>3

GuardsTyped ==
  /\ trippedAt \in Nat \cup {None} /\ killSwitch \in {"off", "exits_only", "full"}
  /\ stamps \in Seq(Nat) /\ counts \in [Markets -> Nat] /\ toxic \subseteq Markets

LEMMA AsksTyped ==
  ASSUME GuardsTyped, NEW c, c.now \in Nat, c.market \in Markets, NEW blocks, NEW order \in BOOLEAN,
         asks(c, blocks, order)
  PROVE  GuardsTyped'
<1>1. trippedAt' \in Nat \cup {None}
  BY DEF asks, tripsAt, GuardsTyped
<1>2. killSwitch' \in {"off", "exits_only", "full"}
  BY DEF asks, engages, GuardsTyped
<1>3. stamps' \in Seq(Nat)
  <2>1. Recent(c) \in Seq(Nat) /\ stamps \in Seq(Nat)
    BY RecentTyped DEF GuardsTyped
  <2>2. \A kept \in Seq(Nat) : Append(kept, c.now) \in Seq(Nat)
    BY AppendProperties
  <2>3. QED
    BY <2>1, <2>2 DEF asks
<1>4. counts' \in [Markets -> Nat] /\ toxic' \subseteq Markets
  BY DEF asks, GuardsTyped
<1>5. QED
  BY <1>1, <1>2, <1>3, <1>4 DEF GuardsTyped

LEMMA OpenTyped ==
  ASSUME NEW M \in SUBSET Markets, NEW b \in Manager(M), NEW m \in Markets, NEW side \in Sides,
         NEW price \in Nat, NEW size \in Nat \ {0}, NEW time \in Nat
  PROVE  open(b, m, side, price, size, time) \in Manager(M \cup {m})
<1> DEFINE p == SdkPosition(side, price, size, time)
           positions == [n \in Held(b) \cup {m} |-> IF n = m THEN p ELSE b.positions[n]]
<1>1. p \in Position
  <2>1. price * size \in Nat
    OBVIOUS
  <2>2. QED
    BY <2>1 DEF SdkPosition, Position, addFill, EmptyBasis
<1>2. Held(b) = M /\ b.positions \in [M -> Position]
  BY DEF Held, Manager
<1>3. CASE m \in Held(b)
  <2>1. M \cup {m} = M
    BY <1>2, <1>3
  <2>2. QED
    BY <1>3, <2>1 DEF open
<1>4. CASE m \notin Held(b)
  <2>1. open(b, m, side, price, size, time) = [b EXCEPT !.positions = positions]
    BY <1>4 DEF open
  <2> HIDE DEF p
  <2>2. positions \in [M \cup {m} -> Position]
    BY <1>1, <1>2
  <2> HIDE DEF positions
  <2>3. QED
    BY <2>1, <2>2 DEF Manager
<1>5. QED
  BY <1>3, <1>4

LEMMA ReduceTyped ==
  ASSUME NEW M \in SUBSET Markets, NEW b \in Manager(M), NEW m \in M, NEW size \in Nat \ {0},
         size <= b.positions[m].size, NEW price \in Nat
  PROVE  \E N \in SUBSET M : reduce(b, m, size, price) \in Manager(N)
<1> DEFINE old == b.positions[m]
           p == tryReduce(old, size, price)
           positions == IF p.size = 0 THEN Without(b, m) ELSE [b.positions EXCEPT ![m] = p]
<1>1. Held(b) = M /\ b.positions \in [M -> Position] /\ old \in Position /\ b.accRealizedPnl \in Int
  BY DEF Held, Manager
<1>2. old.size \in Nat /\ old.entry \in Nat /\ old.realized \in Int
  BY <1>1 DEF Position
<1>3. reduce(b, m, size, price)
        = [positions |-> positions, closed |-> b.closed,
           accRealizedPnl |-> b.accRealizedPnl + p.realized - old.realized]
  <2>1. b = [positions |-> b.positions, closed |-> b.closed, accRealizedPnl |-> b.accRealizedPnl]
    BY DEF Manager
  <2>2. reduce(b, m, size, price)
          = [b EXCEPT !.positions = positions, !.accRealizedPnl = @ + p.realized - old.realized]
    BY <1>1, <1>2 DEF reduce
  <2> HIDE DEF positions, p, old
  <2>3. QED
    BY <2>1, <2>2
<1> HIDE DEF old
<1>4. p = [old EXCEPT !.size = old.size - size, !.cost = old.entry * (old.size - size),
                      !.realized = old.realized + (price - old.entry) * size]
  BY DEF tryReduce
<1>5. old.size - size \in Nat
  BY <1>2 DEF old
<1>6. /\ old.entry * (old.size - size) \in Nat
      /\ old.realized + (price - old.entry) * size \in Int
  BY <1>2, <1>5
<1>7. p.size = old.size - size /\ p.realized \in Int /\ (p.size # 0 => p \in Position)
  BY <1>1, <1>4, <1>5, <1>6 DEF Position
<1> HIDE DEF p
<1>8. b.accRealizedPnl + p.realized - old.realized \in Int
      /\ b.closed \in Seq([market : Markets, size : Nat, pnl : Int])
  BY <1>1, <1>2, <1>7 DEF Manager
<1>9. CASE p.size = 0
  <2>1. positions \in [M \ {m} -> Position]
    BY <1>1, <1>9 DEF Without
  <2> HIDE DEF positions
  <2>2. reduce(b, m, size, price) \in Manager(M \ {m})
    BY <1>3, <1>8, <2>1 DEF Manager
  <2>3. QED
    BY <2>2
<1>10. CASE p.size # 0
  <2>1. positions \in [M -> Position]
    BY <1>1, <1>7, <1>10
  <2> HIDE DEF positions
  <2>2. reduce(b, m, size, price) \in Manager(M)
    BY <1>3, <1>8, <2>1 DEF Manager
  <2>3. QED
    BY <2>2
<1>11. QED
  BY <1>9, <1>10

\* What an entry order that is filled does to the books.
Entered(a, m, side, price, size) ==
  [manager |-> open(a.manager, m, side, price, size, now), stats |-> a.stats,
   cash |-> IF m \notin Held(a.manager) THEN a.cash - price * size ELSE a.cash,
   trades |-> a.trades]

LEMMA EnteredTyped ==
  ASSUME now \in Nat, NEW M \in SUBSET Markets, NEW a \in Account(M), NEW m \in Markets,
         NEW side \in Sides, NEW price \in Nat, NEW size \in Nat \ {0}
  PROVE  Entered(a, m, side, price, size) \in Account(M \cup {m})
<1>1. a.manager \in Manager(M) /\ a.stats \in Statistics /\ a.cash \in Int
      /\ a.trades \in Seq([pnl : Int, fee : Nat])
  BY DEF Account
<1>2. open(a.manager, m, side, price, size, now) \in Manager(M \cup {m})
  BY <1>1, OpenTyped
<1>3. (IF m \notin Held(a.manager) THEN a.cash - price * size ELSE a.cash) \in Int
  <2>1. price * size \in Int
    OBVIOUS
  <2>2. QED
    BY <1>1, <2>1
<1>4. QED
  BY <1>1, <1>2, <1>3 DEF Entered, Account

\* What each sale and each entry keep, a tick keeps.
LEMMA TickKeeps ==
  ASSUME TradingTypeOK, NEW m \in Markets, NEW reading \in Readings, Tick(m, reading),
         NEW K, Accounts \in K[Held(manager)],
         \A M \in SUBSET Markets : K[M] \subseteq Account(M),
         \A M \in SUBSET Markets : \A a \in K[M], n \in M, price \in Nat :
           sell(a, n, price) \in K[M \ {n}],
         \A M \in SUBSET Markets : \A a \in K[M], side \in Sides, price \in Nat, size \in Nat \ {0} :
           Entered(a, m, side, price, size) \in K[M \cup {m}]
  PROVE  /\ \E M \in SUBSET Markets : Accounts' \in K[M]
         /\ cash' \in Int /\ unbooked' \in Nat
<1> DEFINE c == Context(m, reading)
           blocks == Verdicts(c)
<1>1. reading \in Reading
  BY MarketAssumption
<1>2. c.book \in [Sides -> Quoted] /\ c.market = m
  <2> HIDE DEF c
  <2>1. c = Context(m, reading)
    BY DEF c
  <2>2. QED
    BY <1>1, <2>1, ContextTyped
<1>3. PICK sold \in SUBSET Due(c), priced \in BOOLEAN, e \in Orders(c, blocks) :
        \E order \in SetToSeqs(sold) :
          LET after == exitsOf(order, c, priced)
          IN IF e # NoEntry THEN settle(after, m, e, bestAsk(c, e.side)) ELSE settleExits(after)
  BY Zenon DEF Tick
<1> HIDE DEF blocks
<1>4. PICK order \in SetToSeqs(sold) :
        LET after == exitsOf(order, c, priced)
        IN IF e # NoEntry THEN settle(after, m, e, bestAsk(c, e.side)) ELSE settleExits(after)
  BY <1>3, Zenon
<1> DEFINE after == exitsOf(order, c, priced)
<1>5. sold \in SUBSET Held(manager)
  BY DEF Due
<1>6. Held(manager) \in SUBSET Markets
  BY DEF TradingTypeOK, Accounts, Account, Manager, Held
<1> HIDE DEF c
<1>7. PICK M \in SUBSET Held(manager) : after \in K[M]
  BY <1>2, <1>5, ExitsKeep
<1> HIDE DEF after
<1>8. after \in Account(M) /\ after.cash \in Int /\ unbooked \in Nat
  <2>1. after \in Account(M)
    BY <1>6, <1>7
  <2>2. after.cash \in Int
    BY <2>1 DEF Account
  <2>3. unbooked \in Nat
    BY DEF TradingTypeOK
  <2>4. QED
    BY <2>1, <2>2, <2>3
<1>9. CASE e = NoEntry
  <2>1. /\ manager' = after.manager /\ stats' = after.stats /\ trades' = after.trades
        /\ unbooked' = unbooked /\ cash' = after.cash - unbooked
    BY <1>4, <1>9 DEF after, settleExits
  <2>2. cash' + unbooked' = after.cash
    BY <1>8, <2>1
  <2>3. Accounts' = [manager |-> after.manager, stats |-> after.stats, cash |-> after.cash,
                     trades |-> after.trades]
    BY <2>1, <2>2 DEF Accounts
  <2>4. after = [manager |-> after.manager, stats |-> after.stats, cash |-> after.cash,
                 trades |-> after.trades]
    BY <1>8 DEF Account
  <2>5. QED
    BY <1>6, <1>7, <1>8, <2>1, <2>3, <2>4
<1>10. CASE e # NoEntry
  <2> DEFINE cost == bestAsk(c, e.side) * e.size
  <2>1. e.side \in Sides /\ e.size \in Nat \ {0} /\ bestAsk(c, e.side) \in Nat
    <3>1. e \in [side : Proposed[m], size : Sizes] /\ bestAsk(c, e.side) # None
      BY <1>2, <1>10 DEF Orders
    <3>2. e.side \in Sides /\ e.size \in Nat \ {0}
      BY <3>1, MarketAssumption, ConfigurationAssumption
    <3>3. c.book[e.side].ask \in Nat \cup {None}
      BY <1>2, <3>2 DEF Quoted
    <3>4. QED
      BY <3>1, <3>2, <3>3 DEF bestAsk
  <2>2. cost \in Nat
    BY <2>1
  <2>3. /\ manager' = open(after.manager, m, e.side, bestAsk(c, e.side), e.size, now)
        /\ stats' = after.stats /\ trades' = after.trades /\ cash' = after.cash - unbooked - cost
        /\ unbooked' = IF m \in Held(after.manager) THEN unbooked + cost ELSE unbooked
    BY <1>4, <1>10 DEF after, settle
  <2>4. Entered(after, m, e.side, bestAsk(c, e.side), e.size) =
          [manager |-> manager', stats |-> stats', trades |-> trades',
           cash |-> IF m \notin Held(after.manager) THEN after.cash - cost ELSE after.cash]
    BY <2>3 DEF Entered
  <2> HIDE DEF cost
  <2>5. cash' + unbooked' = IF m \notin Held(after.manager) THEN after.cash - cost ELSE after.cash
    BY <1>8, <2>2, <2>3
  <2>6. Accounts' = Entered(after, m, e.side, bestAsk(c, e.side), e.size)
    BY <2>4, <2>5 DEF Accounts
  <2>7. cash' \in Int /\ unbooked' \in Nat
    BY <1>8, <2>2, <2>3
  <2>8. QED
    BY <1>6, <1>7, <2>1, <2>6, <2>7
<1>11. QED
  BY <1>9, <1>10

LEMMA TypeInit ==
  Init => TradingTypeOK
<1> SUFFICES ASSUME Init PROVE TradingTypeOK
  OBVIOUS
<1>1. create \in Manager({}) /\ NoStats \in Statistics
  BY DEF create, NoStats, Manager, Statistics
<1>2. Accounts \in Account({})
  BY <1>1 DEF Init, Accounts, Account
<1>3. GuardsTyped
  BY DEF Init, GuardsInit, GuardsTyped
<1>4. /\ now \in Nat /\ books \in [Markets -> Books] /\ locker \in [pnl : Int, mark : Nat]
      /\ entries \in Seq([market : Markets, at : Nat]) /\ commands \in Nat
      /\ cash \in Int /\ unbooked \in Nat
  BY DEF Init, NoLocker
<1>5. QED
  BY <1>2, <1>3, <1>4 DEF TradingTypeOK, GuardsTyped

LEMMA TickTyped ==
  ASSUME TradingTypeOK, NEW m \in Markets, NEW reading \in Readings, Tick(m, reading)
  PROVE  TradingTypeOK'
<1> DEFINE K == [M \in SUBSET Markets |-> Account(M)]
           c == Context(m, reading)
           blocks == Verdicts(c)
<1>1. Held(manager) \in SUBSET Markets /\ Accounts \in Account(Held(manager)) /\ now \in Nat
      /\ manager.accRealizedPnl \in Int
  BY DEF TradingTypeOK, Accounts, Account, Manager, Held
<1>2. /\ \E M \in SUBSET Markets : Accounts' \in Account(M)
      /\ cash' \in Int /\ unbooked' \in Nat
  <2>1. (\E M \in SUBSET Markets : Accounts' \in K[M]) /\ cash' \in Int /\ unbooked' \in Nat
    <3>1. \A M \in SUBSET Markets : K[M] = Account(M)
      OBVIOUS
    <3>2. \A M \in SUBSET Markets : M \ {m} \in SUBSET Markets /\ M \cup {m} \in SUBSET Markets
      OBVIOUS
    <3> HIDE DEF K
    <3>3. \A M \in SUBSET Markets : \A a \in K[M], n \in M, price \in Nat :
            sell(a, n, price) \in K[M \ {n}]
      <4>1. ASSUME NEW M \in SUBSET Markets, NEW a \in K[M], NEW n \in M, NEW price \in Nat
            PROVE  sell(a, n, price) \in K[M \ {n}]
        <5>1. a \in Account(M) /\ M \ {n} \in SUBSET Markets
          BY <3>1
        <5>2. sell(a, n, price) \in Account(M \ {n})
          BY <5>1, SellTyped
        <5>3. QED
          BY <3>1, <5>1, <5>2
      <4>2. QED
        BY <4>1
    <3>4. \A M \in SUBSET Markets : \A a \in K[M], side \in Sides, price \in Nat, size \in Nat \ {0} :
            Entered(a, m, side, price, size) \in K[M \cup {m}]
      BY <1>1, <3>1, <3>2, EnteredTyped
    <3>5. QED
      BY <1>1, <3>1, <3>3, <3>4, TickKeeps
  <2>2. QED
    BY <2>1
<1>3. c.now = now /\ c.market = m /\ c.pnl = manager.accRealizedPnl
  <2>1. reading \in Reading
    BY MarketAssumption
  <2> HIDE DEF c
  <2>2. c = Context(m, reading)
    BY DEF c
  <2>3. QED
    BY <2>1, <2>2, ContextTyped
<1>4. PICK enters \in BOOLEAN :
        /\ asks(c, blocks, enters)
        /\ entries' = IF enters THEN Append(entries, [market |-> m, at |-> now]) ELSE entries
        /\ locker' = updatePnl(locker, c.pnl) /\ UNCHANGED <<now, books, commands>>
  BY Zenon DEF Tick
<1> HIDE DEF c, blocks
<1>5. GuardsTyped'
  <2>1. GuardsTyped
    BY DEF TradingTypeOK, GuardsTyped
  <2>2. QED
    BY <1>1, <1>3, <1>4, <2>1, AsksTyped
<1>6. entries' \in Seq([market : Markets, at : Nat])
  <2>1. /\ entries \in Seq([market : Markets, at : Nat])
        /\ [market |-> m, at |-> now] \in [market : Markets, at : Nat]
    BY <1>1 DEF TradingTypeOK
  <2>2. QED
    BY <1>4, <2>1, AppendProperties
<1>7. locker' \in [pnl : Int, mark : Nat]
  BY <1>1, <1>3, <1>4 DEF TradingTypeOK, updatePnl, Larger
<1>8. QED
  BY <1>2, <1>4, <1>5, <1>6, <1>7 DEF TradingTypeOK, GuardsTyped

LEMMA TypeStep ==
  TradingTypeOK /\ [Next]_vars => TradingTypeOK'
<1> SUFFICES ASSUME TradingTypeOK, [Next]_vars PROVE TradingTypeOK'
  OBVIOUS
<1>1. ASSUME NEW m \in Markets, NEW reading \in Readings, Tick(m, reading) PROVE TradingTypeOK'
  BY <1>1, TickTyped
<1>2. ASSUME NEW m \in Markets, NEW size \in ReduceSizes, Reduce(m, size) PROVE TradingTypeOK'
  <2> DEFINE p == manager.positions[m]
             price == books[m][p.side].bid
  <2>1. PICK M \in SUBSET Markets : Accounts \in Account(M)
    BY DEF TradingTypeOK
  <2>2. manager \in Manager(M) /\ stats \in Statistics /\ cash \in Int /\ unbooked \in Nat
        /\ trades \in Seq([pnl : Int, fee : Nat]) /\ Held(manager) = M
    BY <2>1 DEF TradingTypeOK, Accounts, Account, Manager, Held
  <2>3. m \in M /\ size \in Nat \ {0} /\ size <= p.size
    BY <1>2, <2>2, ConfigurationAssumption DEF Reduce
  <2>4. p \in Position /\ books[m] \in Quotation
    BY <2>2, <2>3, MarketAssumption DEF TradingTypeOK, Manager
  <2>5. price \in Nat
    BY <2>4 DEF Position, Quotation
  <2>6. /\ manager' = reduce(manager, m, size, price) /\ cash' = cash + price * size
        /\ commands' = commands + 1
        /\ UNCHANGED <<guardVars, locker, stats, unbooked, trades, entries, now, books>>
    BY <1>2 DEF Reduce
  <2> HIDE DEF price
  <2>7. PICK N \in SUBSET M : manager' \in Manager(N)
    BY <2>2, <2>3, <2>5, <2>6, ReduceTyped
  <2>8. cash' \in Int /\ cash' + unbooked' \in Int
    <3>1. price * size \in Int
      BY <2>3, <2>5
    <3>2. QED
      BY <2>2, <2>6, <3>1
  <2>9. Accounts' \in Account(N)
    BY <2>2, <2>6, <2>7, <2>8 DEF Accounts, Account
  <2>10. N \in SUBSET Markets
    BY <2>7
  <2>11. QED
    BY <2>6, <2>8, <2>9, <2>10 DEF TradingTypeOK, guardVars
<1>3. CASE Pass
  <2>1. now' \in Nat
    BY <1>3, ConfigurationAssumption DEF TradingTypeOK, Pass
  <2>2. QED
    BY <1>3, <2>1 DEF TradingTypeOK, Pass, guardVars, tradeVars, Accounts
<1>4. ASSUME NEW m \in Markets, Quote(m) PROVE TradingTypeOK'
  BY <1>4 DEF TradingTypeOK, Quote, guardVars, tradeVars, Accounts
<1>5. CASE Operator
  <2>1. GuardsTyped'
    <3>1. GuardsTyped
      BY DEF TradingTypeOK, GuardsTyped
    <3>2. ASSUME engage \/ engageExitsOnly \/ disengage PROVE GuardsTyped'
      BY <3>1, <3>2 DEF GuardsTyped, engage, engageExitsOnly, disengage
    <3>3. ASSUME reset PROVE GuardsTyped'
      BY <3>1, <3>3 DEF GuardsTyped, reset
    <3>4. ASSUME NEW m \in Markets, resetMarket(m) PROVE GuardsTyped'
      BY <3>1, <3>4 DEF GuardsTyped, resetMarket
    <3>5. ASSUME NEW m \in Markets, markToxic(m) \/ unmarkToxic(m) PROVE GuardsTyped'
      BY <3>1, <3>5 DEF GuardsTyped, markToxic, unmarkToxic
    <3>6. \A m \in Curated : m \in Markets
      BY MarketAssumption
    <3>7. QED
      BY <1>5, <3>2, <3>3, <3>4, <3>5, <3>6 DEF Operator
  <2>2. QED
    BY <1>5, <2>1 DEF TradingTypeOK, Operator, GuardsTyped, tradeVars, Accounts
<1>6. CASE UNCHANGED vars
  BY <1>6 DEF TradingTypeOK, vars, guardVars, tradeVars, Accounts
<1>7. QED
  BY <1>1, <1>2, <1>3, <1>4, <1>5, <1>6 DEF Next

\* The guards, the books and the statistics keep their types: sizes of open positions
\* stay positive, costs, fees, peak and drawdown are never negative.  (The guards'
\* check() and record(), PositionManager, SdkPosition and handlePositionClosed.)
THEOREM TradingTypeCorrect ==
  Spec => []TradingTypeOK
<1>1. QED
  BY TypeInit, TypeStep, PTL DEF Spec

-----------------------------------------------------------------------------
(* The presets.                                                             *)

LEMMA WiderSpread ==
  ASSUME NEW c, c.book \in [Sides -> Quoted], NEW x \in Nat, NEW y \in Nat, x <= y,
         spreadPctAbove(c, "yes", y)
  PROVE  spreadPctAbove(c, "yes", x)
<1> DEFINE bid == c.book["yes"].bid
           ask == c.book["yes"].ask
<1>1. bid \in Nat /\ ask \in Nat
  BY DEF spreadPctAbove, TwoSided, bestBid, bestAsk, Quoted, Sides
<1>2. bid + ask # 0 /\ 200 * (ask - bid) > y * (bid + ask)
  BY <1>1 DEF spreadPctAbove, TwoSided, spread, bestBid, bestAsk
<1> HIDE DEF bid, ask
<1>3. x * (bid + ask) <= y * (bid + ask)
  BY <1>1
<1>4. 200 * (ask - bid) > x * (bid + ask)
  <2>1. x * (bid + ask) \in Int /\ y * (bid + ask) \in Int /\ 200 * (ask - bid) \in Int
    BY <1>1
  <2>2. QED
    BY <1>2, <1>3, <2>1
<1>5. QED
  BY <1>2, <1>4 DEF spreadPctAbove, TwoSided, spread, bestBid, bestAsk, bid, ask

LEMMA StricterExit ==
  ASSUME NEW c, c.book \in [Sides -> Quoted], NEW p \in Position, NEW x \in Nat, NEW y \in Nat, x <= y
  PROVE  /\ TakeProfit(p, c, y) => TakeProfit(p, c, x)
         /\ StopLoss(p, c, y) => StopLoss(p, c, x)
         /\ TrailingStop(p, c, y) => TrailingStop(p, c, x)
<1> DEFINE bid == c.book[p.side].bid
           worth == p.entry * p.size
           pnl == pnlTotal(p, bid)
<1>1. p.side \in Sides /\ p.entry \in Nat /\ p.size \in Nat /\ p.cost \in Nat /\ p.mark \in Nat
  BY DEF Position
<1>2. bid \in Nat \cup {None} /\ worth \in Nat
  BY <1>1 DEF Quoted
<1>3. bid # None => pnl \in Int
  <2>1. bid # None => bid * p.size \in Int
    BY <1>1, <1>2
  <2>2. QED
    BY <1>1, <2>1 DEF pnlTotal
<1>4. /\ \A pct \in Nat : TakeProfit(p, c, pct)
           <=> bid # None /\ worth # 0 /\ 100 * pnl >= pct * p.entry * p.size
      /\ \A pct \in Nat : StopLoss(p, c, pct)
           <=> bid # None /\ worth # 0 /\ 100 * pnl <= -pct * p.entry * p.size
      /\ \A pct \in Nat : TrailingStop(p, c, pct)
           <=> bid # None /\ p.mark # 0 /\ 100 * Larger(p.mark - bid, 0) >= pct * p.mark
  BY DEF TakeProfit, StopLoss, TrailingStop, bestBid, Drawdown
<1>5. \A pct \in Nat : pct * p.entry * p.size = pct * worth /\ -pct * p.entry * p.size = -(pct * worth)
  BY <1>1
<1> HIDE DEF bid, worth, pnl
<1>6. x * worth <= y * worth /\ x * worth \in Int /\ y * worth \in Int
  BY <1>2
<1>7. x * p.mark <= y * p.mark /\ x * p.mark \in Int /\ y * p.mark \in Int
  BY <1>1
<1>8. bid # None => Larger(p.mark - bid, 0) \in Int
  BY <1>1, <1>2 DEF Larger
<1>9. TakeProfit(p, c, y) => TakeProfit(p, c, x)
  BY <1>3, <1>4, <1>5, <1>6
<1>10. StopLoss(p, c, y) => StopLoss(p, c, x)
  BY <1>3, <1>4, <1>5, <1>6
<1>11. TrailingStop(p, c, y) => TrailingStop(p, c, x)
  BY <1>4, <1>7, <1>8
<1>12. QED
  BY <1>9, <1>10, <1>11

LEMMA TypedOrdersPresets ==
  TradingTypeOK => PresetsOrdered
<1> SUFFICES ASSUME TradingTypeOK,
                    NEW m \in Markets, NEW reading \in Readings, NEW age \in BookAges
             PROVE  LET c == Context(m, [reading EXCEPT !.bookAge = age])
                    IN /\ conservative(c) => standard(c)
                       /\ standard(c) => aggressive(c)
                       /\ aggressive(c) => minimal(c)
                       /\ \A n \in Held(manager) : LET p == manager.positions[n] IN
                            /\ standardExits(p, c) => conservativeExits(p, c)
                            /\ aggressiveExits(p, c) \/ minimalExits(p, c) => standardExits(p, c)
  BY DEF PresetsOrdered
<1> DEFINE c == Context(m, [reading EXCEPT !.bookAge = age])
<1>1. [reading EXCEPT !.bookAge = age] \in Reading /\ [reading EXCEPT !.bookAge = age].bookAge = age
      /\ age \in Nat
  BY MarketAssumption DEF Reading
<1>2. /\ c.book \in [Sides -> Quoted] /\ c.now = now /\ c.positions = manager.positions
      /\ c.remaining = Expiry - now /\ c.bookAge = age /\ c.lastTrade = LastEntry(m)
  <2> DEFINE r == [reading EXCEPT !.bookAge = age]
  <2>1. r \in Reading /\ r.bookAge = age
    BY <1>1
  <2>2. c = Context(m, r)
    OBVIOUS
  <2> HIDE DEF c, r
  <2>3. QED
    BY <2>1, <2>2, ContextTyped
<1> HIDE DEF c
<1>3. c.lastTrade \in Nat \cup {None} /\ c.now \in Nat /\ c.remaining \in Int
  BY <1>2, LastEntryTyped, ConfigurationAssumption DEF TradingTypeOK
<1>4. openCount(c) \in Nat
  <2>1. Held(manager) \in SUBSET Markets
    BY DEF TradingTypeOK, Accounts, Account, Manager, Held
  <2>2. Cardinality(Held(manager)) \in Nat
    BY <2>1, MarketAssumption, FS_Subset, FS_CardinalityType
  <2>3. QED
    BY <1>2, <2>2 DEF openCount, Held
<1>5. /\ spreadPctAbove(c, "yes", 5) => spreadPctAbove(c, "yes", 3)
      /\ spreadPctAbove(c, "yes", 10) => spreadPctAbove(c, "yes", 5)
  BY <1>2, WiderSpread
<1>6. /\ Cooldown(c, 60) => Cooldown(c, 300)
      /\ BookStaleness(c, 30) => BookStaleness(c, 15)
      /\ MaxPositions(c, 5) => MaxPositions(c, 3)
      /\ MaxPositions(c, 10) => MaxPositions(c, 5)
  BY <1>1, <1>2, <1>3, <1>4 DEF Cooldown, BookStaleness, MaxPositions
<1>7. /\ conservative(c) => standard(c)
      /\ standard(c) => aggressive(c)
      /\ aggressive(c) => minimal(c)
  BY <1>5, <1>6 DEF conservative, standard, aggressive, minimal, MaxSpread
<1>8. ASSUME NEW n \in Held(manager), NEW p, p = manager.positions[n]
      PROVE  /\ standardExits(p, c) => conservativeExits(p, c)
             /\ aggressiveExits(p, c) \/ minimalExits(p, c) => standardExits(p, c)
  <2>1. p \in Position
    BY <1>8 DEF TradingTypeOK, Accounts, Account, Manager, Held
  <2>2. TimeExit(c, 300) => TimeExit(c, 600)
    BY <1>3 DEF TimeExit
  <2>3. TimeExit(c, 120) => TimeExit(c, 300)
    BY <1>3 DEF TimeExit
  <2>4. standardExits(p, c) => conservativeExits(p, c)
    BY <1>2, <2>1, <2>2, StricterExit DEF standardExits, conservativeExits
  <2>5. aggressiveExits(p, c) \/ minimalExits(p, c) => standardExits(p, c)
    BY <1>2, <2>1, <2>3, StricterExit DEF aggressiveExits, minimalExits, standardExits
  <2>6. QED
    BY <2>4, <2>5
<1>9. QED
  BY <1>7, <1>8 DEF c

\* In whatever book, at whatever time and after whatever trades, a stricter preset of
\* the guards admits no entry, and a stricter preset of the exits keeps no position,
\* that a looser one would not.  (guard-pipeline.ts, exit-pipeline.ts.)
THEOREM PresetsAreOrdered ==
  Spec => []PresetsOrdered
<1>1. QED
  BY TradingTypeCorrect, TypedOrdersPresets, PTL

-----------------------------------------------------------------------------
(* Reconciliation.                                                          *)

Holding == [market : Markets, side : Sides, size : Nat \ {0}]
KeysOf(S) == {positionKey(e) : e \in S}
Distinct(S) == \A e, f \in S : positionKey(e) = positionKey(f) => e = f

LEMMA KeysCount ==
  ASSUME NEW S, IsFiniteSet(S), Distinct(S)
  PROVE  IsFiniteSet(KeysOf(S)) /\ Cardinality(KeysOf(S)) = Cardinality(S)
<1> DEFINE f == [e \in S |-> positionKey(e)]
<1>1. f \in [S -> KeysOf(S)] /\ \A e \in S : f[e] = positionKey(e)
  BY DEF KeysOf
<1> HIDE DEF f
<1>2. f \in Injection(S, KeysOf(S))
  BY <1>1 DEF Injection, IsInjective, Distinct
<1>3. f \in Surjection(S, KeysOf(S))
  BY <1>1 DEF Surjection, KeysOf
<1>4. ExistsBijection(S, KeysOf(S))
  BY <1>2, <1>3 DEF ExistsBijection, Bijection
<1>5. QED
  BY <1>4, FS_Bijection

LEMMA OwnHoldings ==
  ASSUME TradingTypeOK
  PROVE  Own(manager) \in SUBSET Holding /\ Distinct(Own(manager)) /\ IsFiniteSet(Own(manager))
<1> DEFINE f == [m \in Held(manager) |-> [market |-> m, side |-> manager.positions[m].side,
                                          size |-> manager.positions[m].size]]
<1>1. Held(manager) \in SUBSET Markets /\ \A m \in Held(manager) : manager.positions[m] \in Position
  BY DEF TradingTypeOK, Accounts, Account, Manager, Held
<1>2. Own(manager) \in SUBSET Holding
  BY <1>1 DEF Own, Holding, Position
<1>3. Distinct(Own(manager))
  BY DEF Own, Distinct, positionKey
<1>4. IsFiniteSet(Own(manager))
  <2>1. f \in Surjection(Held(manager), Own(manager))
    BY DEF Surjection, Own
  <2>2. IsFiniteSet(Held(manager))
    BY <1>1, MarketAssumption, FS_Subset
  <2> HIDE DEF f
  <2>3. QED
    BY <2>1, <2>2, FS_Surjection
<1>5. QED
  BY <1>2, <1>3, <1>4

AtExchange(f) == {[market |-> k[1], side |-> k[2], size |-> f[k]] : k \in DOMAIN f}

LEMMA ExchangeHoldings ==
  ASSUME NEW f \in Reported
  PROVE  /\ AtExchange(f) \in SUBSET Holding /\ Distinct(AtExchange(f))
         /\ IsFiniteSet(AtExchange(f)) /\ KeysOf(AtExchange(f)) = DOMAIN f
<1> DEFINE g == [k \in DOMAIN f |-> [market |-> k[1], side |-> k[2], size |-> f[k]]]
<1>1. DOMAIN f \in SUBSET (Markets \X Sides) /\ \A k \in DOMAIN f : f[k] \in Nat \ {0}
  BY ConfigurationAssumption DEF Reported
<1>2. \A k \in DOMAIN f : k[1] \in Markets /\ k[2] \in Sides /\ k = <<k[1], k[2]>>
  BY <1>1
<1>3. AtExchange(f) \in SUBSET Holding
  BY <1>1, <1>2 DEF AtExchange, Holding
<1>4. Distinct(AtExchange(f))
  <2> SUFFICES ASSUME NEW j \in DOMAIN f, NEW k \in DOMAIN f, j[1] = k[1], j[2] = k[2]
               PROVE  j = k
    BY DEF AtExchange, Distinct, positionKey
  <2>1. QED
    BY <1>2
<1>5. KeysOf(AtExchange(f)) = DOMAIN f
  <2>1. ASSUME NEW k \in DOMAIN f PROVE k \in KeysOf(AtExchange(f))
    <3> DEFINE e == [market |-> k[1], side |-> k[2], size |-> f[k]]
    <3>1. e \in AtExchange(f)
      BY DEF AtExchange
    <3>2. positionKey(e) = k
      BY <1>2 DEF positionKey
    <3> HIDE DEF e
    <3>3. QED
      BY <3>1, <3>2 DEF KeysOf
  <2>2. ASSUME NEW e \in AtExchange(f) PROVE positionKey(e) \in DOMAIN f
    <3>1. PICK k \in DOMAIN f : e = [market |-> k[1], side |-> k[2], size |-> f[k]]
      BY DEF AtExchange
    <3>2. positionKey(e) = k
      BY <1>2, <3>1 DEF positionKey
    <3>3. QED
      BY <3>2
  <2>3. QED
    BY <2>1, <2>2 DEF KeysOf
<1>6. IsFiniteSet(AtExchange(f))
  <2>1. g \in Surjection(DOMAIN f, AtExchange(f))
    BY DEF Surjection, AtExchange
  <2>2. IsFiniteSet(DOMAIN f)
    <3>1. IsFiniteSet(Sides)
      <4>1. IsFiniteSet({"yes"}) /\ Sides = {"yes"} \cup {"no"}
        BY FS_Singleton DEF Sides
      <4>2. QED
        BY <4>1, FS_AddElement
    <3>2. QED
      BY <1>1, <3>1, MarketAssumption, FS_Product, FS_Subset
  <2> HIDE DEF g
  <2>3. QED
    BY <2>1, <2>2, FS_Surjection
<1>7. QED
  BY <1>3, <1>4, <1>5, <1>6

LEMMA NothingTolerated ==
  ASSUME ToleranceBps = 0, NEW x \in Nat \ {0}, NEW y \in Nat \ {0}
  PROVE  withinTolerance(x, y) <=> x = y
<1>1. Larger(Abs(x), Abs(y)) \in Nat \ {0}
  BY DEF Larger, Abs
<1>2. Larger(Abs(x), Abs(y)) * ToleranceBps = 0
  BY <1>1
<1>3. Abs(x - y) * 10000 <= 0 => x = y
  BY DEF Abs
<1>4. QED
  BY <1>1, <1>2, <1>3 DEF withinTolerance

LEMMA TypedReconciles ==
  ASSUME ToleranceBps = 0
  PROVE  TradingTypeOK => ReconcileFindsAll
<1> SUFFICES ASSUME TradingTypeOK, NEW f \in Reported
             PROVE  LET exchange == AtExchange(f)
                        found == reconcile(Own(manager), exchange)
                        known(S) == {<<e.market, e.side>> : e \in S}
                        alone == (known(Own(manager)) \ DOMAIN f)
                                   \cup (DOMAIN f \ known(Own(manager)))
                    IN /\ (found.orphans \cup found.unknown \cup found.mismatched = {})
                            <=> (Own(manager) = exchange)
                       /\ found.shouldHalt <=> Cardinality(alone) > HaltThreshold
  BY DEF ReconcileFindsAll, AtExchange
<1> DEFINE own == Own(manager)
           exchange == AtExchange(f)
           orphans == {e \in own : positionKey(e) \notin KeysOf(exchange)}
           unknown == {e \in exchange : positionKey(e) \notin KeysOf(own)}
           mismatched == {e \in own : \E g \in exchange :
                            positionKey(e) = positionKey(g) /\ ~withinTolerance(e.size, g.size)}
           found == reconcile(own, exchange)
           alone == (KeysOf(own) \ DOMAIN f) \cup (DOMAIN f \ KeysOf(own))
<1>1. /\ found.orphans = orphans /\ found.unknown = unknown /\ found.mismatched = mismatched
      /\ found.shouldHalt = (Cardinality(orphans) + Cardinality(unknown) > HaltThreshold)
  BY DEF reconcile, KeysOf
<1>2. own \in SUBSET Holding /\ Distinct(own) /\ IsFiniteSet(own)
  BY OwnHoldings
<1>3. /\ exchange \in SUBSET Holding /\ Distinct(exchange) /\ IsFiniteSet(exchange)
      /\ KeysOf(exchange) = DOMAIN f
  BY ExchangeHoldings
<1> HIDE DEF own, exchange
<1>4. orphans \cup unknown \cup mismatched = {} <=> own = exchange
  <2>1. \A e, g \in Holding : positionKey(e) = positionKey(g) /\ e.size = g.size => e = g
    BY DEF Holding, positionKey
  <2>2. \A e, g \in Holding : withinTolerance(e.size, g.size) <=> e.size = g.size
    BY NothingTolerated DEF Holding
  <2>3. ASSUME own = exchange PROVE orphans \cup unknown \cup mismatched = {}
    BY <1>2, <2>2, <2>3 DEF KeysOf, Distinct
  <2>4. ASSUME orphans = {}, unknown = {}, mismatched = {} PROVE own = exchange
    <3>1. ASSUME NEW e \in own PROVE e \in exchange
      BY <1>2, <1>3, <2>1, <2>2, <2>4 DEF KeysOf
    <3>2. ASSUME NEW e \in exchange PROVE e \in own
      BY <1>2, <1>3, <2>1, <2>2, <2>4 DEF KeysOf
    <3>3. QED
      BY <3>1, <3>2
  <2>5. QED
    BY <2>3, <2>4
<1>5. Cardinality(orphans) + Cardinality(unknown) = Cardinality(alone)
  <2>1. Distinct(orphans) /\ Distinct(unknown)
    BY <1>2, <1>3 DEF Distinct
  <2>2. IsFiniteSet(orphans) /\ IsFiniteSet(unknown)
    BY <1>2, <1>3, FS_Subset
  <2>3. KeysOf(orphans) = KeysOf(own) \ DOMAIN f /\ KeysOf(unknown) = DOMAIN f \ KeysOf(own)
    <3>1. KeysOf(orphans) = KeysOf(own) \ KeysOf(exchange)
      BY DEF KeysOf
    <3>2. KeysOf(unknown) = KeysOf(exchange) \ KeysOf(own)
      BY DEF KeysOf
    <3>3. QED
      BY <1>3, <3>1, <3>2
  <2> HIDE DEF orphans, unknown
  <2>4. /\ IsFiniteSet(KeysOf(orphans)) /\ Cardinality(KeysOf(orphans)) = Cardinality(orphans)
        /\ IsFiniteSet(KeysOf(unknown)) /\ Cardinality(KeysOf(unknown)) = Cardinality(unknown)
    BY <2>1, <2>2, KeysCount
  <2>5. KeysOf(orphans) \cap KeysOf(unknown) = {} /\ alone = KeysOf(orphans) \cup KeysOf(unknown)
    BY <2>3
  <2>6. Cardinality(alone) = Cardinality(KeysOf(orphans)) + Cardinality(KeysOf(unknown)) - Cardinality({})
    BY <2>4, <2>5, FS_Union
  <2>7. QED
    BY <2>2, <2>4, <2>6, FS_EmptySet, FS_CardinalityType
<1>6. KeysOf(own) = {<<e.market, e.side>> : e \in own}
  BY DEF KeysOf, positionKey
<1>7. QED
  BY <1>1, <1>4, <1>5, <1>6 DEF own, exchange

\* Without tolerance, reconciliation is silent exactly when the exchange reports the
\* manager's own holdings, and its call for a halt counts each holding only one of
\* them knows, market and side apart.  (PositionReconciler.reconcile.)
THEOREM ReconciliationFindsAll ==
  ASSUME ToleranceBps = 0
  PROVE  Spec => []ReconcileFindsAll
<1>1. TradingTypeOK => ReconcileFindsAll
  BY TypedReconciles
<1>2. QED
  BY <1>1, TradingTypeCorrect, PTL

-----------------------------------------------------------------------------
(* The limits on entries.                                                   *)

\* A list of stamps is the end of the entries, and has all that are in the window.
Follows(list) ==
  /\ Len(list) <= Len(entries)
  /\ \A i \in 1..Len(list) : list[i] = entries[Len(entries) - Len(list) + i].at
  /\ \A i \in 1..(Len(entries) - Len(list)) : entries[i].at < now - Window

StampsFollow ==
  /\ \A i \in 1..Len(entries) : entries[i].at <= now
  /\ \A i, j \in 1..Len(entries) : i <= j => entries[i].at <= entries[j].at
  /\ Follows(stamps)

LEMMA EntriesTyped ==
  ASSUME TradingTypeOK
  PROVE  /\ Len(entries) \in Nat /\ DOMAIN entries = 1..Len(entries)
         /\ \A i \in 1..Len(entries) : entries[i].at \in Nat
         /\ stamps \in Seq(Nat) /\ Len(stamps) \in Nat /\ DOMAIN stamps = 1..Len(stamps)
         /\ now \in Nat /\ Window \in Nat
<1>1. entries \in Seq([market : Markets, at : Nat]) /\ stamps \in Seq(Nat)
  BY DEF TradingTypeOK
<1>2. ASSUME NEW i \in 1..Len(entries) PROVE entries[i].at \in Nat
  <2>1. entries[i] \in [market : Markets, at : Nat]
    BY <1>1, ElementOfSeq
  <2>2. QED
    BY <2>1
<1>3. now \in Nat /\ Window \in Nat
  BY GuardAssumption DEF TradingTypeOK
<1>4. QED
  BY <1>1, <1>2, <1>3

LEMMA RecentFollows ==
  ASSUME TradingTypeOK, StampsFollow, NEW c, c.now = now
  PROVE  /\ Recent(c) \in Seq(Nat) /\ Follows(Recent(c))
         /\ \A i \in 1..Len(Recent(c)) : Recent(c)[i] >= now - Window
<1> DEFINE fresh == {i \in DOMAIN stamps : stamps[i] >= c.now - Window}
           n == Len(entries)
           k == Len(stamps)
<1>1. /\ n \in Nat /\ \A i \in 1..n : entries[i].at \in Nat
      /\ stamps \in Seq(Nat) /\ k \in Nat /\ DOMAIN stamps = 1..k /\ now \in Nat /\ Window \in Nat
  BY EntriesTyped
<1>2. /\ k <= n /\ \A i \in 1..k : stamps[i] = entries[n - k + i].at
      /\ \A i \in 1..(n - k) : entries[i].at < now - Window
      /\ \A i, j \in 1..n : i <= j => entries[i].at <= entries[j].at
  BY DEF StampsFollow, Follows
<1>3. fresh = {i \in 1..k : stamps[i] >= now - Window}
  BY <1>1
<1>4. ASSUME NEW i \in 1..k PROVE stamps[i] \in Nat
  BY <1>1, ElementOfSeq
<1> HIDE DEF n, k, fresh
<1>5. CASE fresh = {}
  <2>1. Recent(c) = <<>> /\ Len(Recent(c)) = 0
    BY <1>5 DEF Recent, fresh
  <2>2. ASSUME NEW i \in 1..n PROVE entries[i].at < now - Window
    <3>1. CASE i \in 1..(n - k)
      BY <1>2, <3>1
    <3>2. CASE i \notin 1..(n - k)
      <4>1. i - (n - k) \in 1..k /\ n - k + (i - (n - k)) = i
        BY <1>1, <1>2, <3>2
      <4>2. stamps[i - (n - k)] = entries[i].at
        BY <1>2, <4>1
      <4>3. ~(stamps[i - (n - k)] >= now - Window)
        BY <1>3, <1>5, <4>1
      <4>4. QED
        BY <1>1, <4>2, <4>3
    <3>3. QED
      BY <3>1, <3>2
  <2>3. QED
    BY <1>1, <2>1, <2>2 DEF Follows, n
<1>6. CASE fresh # {}
  <2> DEFINE lo == Min(fresh)
             r == SubSeq(stamps, lo, k)
  <2>1. fresh \in SUBSET Nat
    BY <1>1, <1>3
  <2>2. PICK x \in fresh : \A y \in fresh : x <= y
    BY <1>6, <2>1, LeastNumber
  <2>3. lo \in fresh /\ \A y \in fresh : lo <= y
    BY <2>2, Zenon DEF Min
  <2>4. Recent(c) = r
    BY <1>6 DEF Recent, fresh, k
  <2> HIDE DEF lo
  <2>5. lo \in 1..k /\ stamps[lo] >= now - Window
    BY <1>3, <2>3
  <2>6. \A i \in lo..k : stamps[i] \in Nat
    BY <1>1, <1>4, <2>5
  <2>7. r \in Seq(Nat) /\ Len(r) = k - lo + 1 /\ \A i \in 1..(k - lo + 1) : r[i] = stamps[lo + i - 1]
    BY <1>1, <2>5, <2>6, SubSeqProperties
  <2> HIDE DEF r
  <2>8. Len(r) <= n /\ n - Len(r) = n - k + lo - 1
    BY <1>1, <1>2, <2>5, <2>7
  <2>9. ASSUME NEW i \in 1..Len(r)
        PROVE  r[i] = entries[n - Len(r) + i].at /\ r[i] >= now - Window
    <3>1. lo + i - 1 \in 1..k /\ n - k + (lo + i - 1) = n - Len(r) + i /\ i \in 1..(k - lo + 1)
      <4>1. i \in 1..(k - lo + 1) /\ lo \in 1..k
        BY <2>5, <2>7
      <4>2. lo + i - 1 \in 1..k
        BY <1>1, <4>1
      <4>3. n - k + (lo + i - 1) = n - Len(r) + i
        <5>1. n \in Int /\ k \in Int /\ lo \in Int /\ i \in Int
          BY <1>1, <4>1
        <5>2. n - k + (lo + i - 1) = (n - k + lo - 1) + i
          BY <5>1
        <5>3. QED
          BY <2>8, <5>2
      <4>4. QED
        BY <4>1, <4>2, <4>3
    <3>2. r[i] = entries[n - Len(r) + i].at
      BY <1>2, <2>7, <3>1
    <3>3. n - k + lo \in 1..n /\ n - Len(r) + i \in 1..n /\ n - k + lo <= n - Len(r) + i
      BY <1>1, <1>2, <2>5, <2>7, <2>8
    <3>4. stamps[lo] = entries[n - k + lo].at
      BY <1>2, <2>5
    <3>5. entries[n - k + lo].at <= entries[n - Len(r) + i].at
      BY <1>2, <3>3
    <3>6. QED
      BY <1>1, <2>5, <3>2, <3>3, <3>4, <3>5
  <2>10. ASSUME NEW i \in 1..(n - Len(r)) PROVE entries[i].at < now - Window
    <3>1. CASE i \in 1..(n - k)
      BY <1>2, <3>1
    <3>2. CASE i \notin 1..(n - k)
      <4>1. i - (n - k) \in 1..k /\ n - k + (i - (n - k)) = i /\ i - (n - k) < lo /\ i \in 1..n
        BY <1>1, <1>2, <2>5, <2>8, <3>2
      <4>2. stamps[i - (n - k)] = entries[i].at
        BY <1>2, <4>1
      <4>3. i - (n - k) \notin fresh
        BY <1>1, <2>3, <2>5, <4>1
      <4>4. ~(stamps[i - (n - k)] >= now - Window)
        BY <1>3, <4>1, <4>3
      <4>5. QED
        BY <1>1, <4>1, <4>2, <4>4
    <3>3. QED
      BY <3>1, <3>2
  <2>11. QED
    BY <2>4, <2>7, <2>8, <2>9, <2>10 DEF Follows, n
<1>7. QED
  BY <1>5, <1>6

LEMMA FollowInit ==
  Init => StampsFollow
BY DEF Init, GuardsInit, StampsFollow, Follows

\* An order is appended to both lists, or to none.
LEMMA FollowTick ==
  ASSUME TradingTypeOK, StampsFollow, NEW m \in Markets, NEW reading \in Readings, Tick(m, reading)
  PROVE  StampsFollow'
<1> DEFINE c == Context(m, reading)
           blocks == Verdicts(c)
           n == Len(entries)
<1>1. /\ n \in Nat /\ \A i \in 1..n : entries[i].at \in Nat
      /\ stamps \in Seq(Nat) /\ Len(stamps) \in Nat /\ now \in Nat /\ Window \in Nat
      /\ entries \in Seq([market : Markets, at : Nat])
  BY EntriesTyped DEF TradingTypeOK
<1>2. c.now = now
  <2>1. reading \in Reading
    BY MarketAssumption
  <2> HIDE DEF c
  <2>2. c = Context(m, reading)
    BY DEF c
  <2>3. QED
    BY <2>1, <2>2, ContextTyped
<1>3. PICK enters \in BOOLEAN :
        /\ asks(c, blocks, enters)
        /\ entries' = IF enters THEN Append(entries, [market |-> m, at |-> now]) ELSE entries
        /\ UNCHANGED <<now, books, commands>>
  BY Zenon DEF Tick
<1> HIDE DEF c, blocks
<1> DEFINE kept == IF "RateLimit" \in Asked(blocks) THEN Recent(c) ELSE stamps
<1>4. kept \in Seq(Nat) /\ Follows(kept)
  BY <1>1, <1>2, RecentFollows DEF StampsFollow
<1>5. stamps' = (IF enters THEN Append(kept, now) ELSE kept) /\ now' = now
  BY <1>2, <1>3 DEF asks
<1> HIDE DEF kept
<1>6. CASE ~enters
  BY <1>3, <1>4, <1>5, <1>6 DEF StampsFollow, Follows
<1>7. CASE enters
  <2> DEFINE k == Len(kept)
             entry == [market |-> m, at |-> now]
  <2>1. /\ k \in Nat /\ k <= n /\ \A i \in 1..k : kept[i] = entries[n - k + i].at
        /\ \A i \in 1..(n - k) : entries[i].at < now - Window
    <3>1. k \in Nat
      BY <1>4
    <3>2. QED
      BY <1>4, <3>1, Zenon DEF Follows
  <2>2. entry \in [market : Markets, at : Nat] /\ entry.at = now
    BY <1>1
  <2> HIDE DEF entry
  <2>3. entries' = Append(entries, entry)
    BY <1>3, <1>7 DEF entry
  <2>4. Len(entries') = n + 1 /\ \A i \in 1..n : entries'[i] = entries[i]
    BY <1>1, <2>2, <2>3, AppendProperties
  <2>5. entries'[n + 1].at = now
    BY <1>1, <2>2, <2>3, AppendProperties
  <2>6. /\ Len(stamps') = k + 1 /\ \A i \in 1..k : stamps'[i] = kept[i]
        /\ stamps'[k + 1] = now
    BY <1>1, <1>4, <1>5, <1>7, AppendProperties
  <2> HIDE DEF n, k
  <2>7. ASSUME NEW i \in 1..(n + 1) PROVE entries'[i].at <= now /\ entries'[i].at \in Nat
    <3>1. i \in 1..n \/ i = n + 1
      BY <1>1
    <3>2. ASSUME NEW j \in 1..n PROVE entries[j].at <= now
      BY DEF StampsFollow, n
    <3>3. QED
      BY <1>1, <2>4, <2>5, <3>1, <3>2
  <2>8. ASSUME NEW i \in 1..(n + 1), NEW j \in 1..(n + 1), i <= j
        PROVE  entries'[i].at <= entries'[j].at
    <3>1. CASE j = n + 1
      BY <2>5, <2>7, <3>1
    <3>2. CASE j # n + 1
      <4>1. i \in 1..n /\ j \in 1..n
        BY <1>1, <2>8, <3>2
      <4>2. entries[i].at <= entries[j].at
        BY <2>8, <4>1 DEF StampsFollow, n
      <4>3. QED
        BY <2>4, <4>1, <4>2
    <3>3. QED
      BY <3>1, <3>2
  <2>9. ASSUME NEW i \in 1..Len(stamps')
        PROVE  stamps'[i] = entries'[Len(entries') - Len(stamps') + i].at
    <3> DEFINE j == Len(entries') - Len(stamps') + i
    <3>1. CASE i = k + 1
      <4>1. j = n + 1
        BY <1>1, <2>1, <2>4, <2>6, <3>1
      <4> HIDE DEF j
      <4>2. stamps'[i] = entries'[j].at
        BY <2>5, <2>6, <3>1, <4>1
      <4>3. QED
        BY <4>2, Zenon DEF j
    <3>2. CASE i # k + 1
      <4>1. i \in 1..k /\ j = n - k + i /\ n - k + i \in 1..n
        BY <1>1, <2>1, <2>4, <2>6, <3>2
      <4> HIDE DEF j
      <4>2. stamps'[i] = entries'[j].at
        BY <2>1, <2>4, <2>6, <4>1
      <4>3. QED
        BY <4>2, Zenon DEF j
    <3>3. QED
      BY <3>1, <3>2
  <2>10. ASSUME NEW i \in 1..(n + 1 - (k + 1)) PROVE entries'[i].at < now - Window
    <3>1. i \in 1..(n - k) /\ i \in 1..n
      BY <1>1, <2>1
    <3>2. QED
      BY <2>1, <2>4, <3>1
  <2>11. k + 1 <= n + 1
    BY <1>1, <2>1
  <2>12. QED
    <3>1. \A i \in 1..Len(entries') : entries'[i].at <= now'
      BY <1>5, <2>4, <2>7
    <3>2. \A i, j \in 1..Len(entries') : i <= j => entries'[i].at <= entries'[j].at
      BY <2>4, <2>8
    <3>3. Len(stamps') <= Len(entries')
      BY <2>4, <2>6, <2>11
    <3>4. \A i \in 1..Len(stamps') :
            stamps'[i] = entries'[Len(entries') - Len(stamps') + i].at
      BY <2>9, Zenon
    <3>5. \A i \in 1..(Len(entries') - Len(stamps')) : entries'[i].at < now' - Window
      <4> DEFINE n1 == n + 1
                 k1 == k + 1
      <4>1. Len(entries') = n1 /\ Len(stamps') = k1 /\ now' = now
            /\ \A i \in 1..(n1 - k1) : entries'[i].at < now - Window
        BY <1>1, <1>5, <2>1, <2>4, <2>6, <2>10
      <4> HIDE DEF n1, k1
      <4>2. QED
        BY <4>1
    <3>6. QED
      BY <3>1, <3>2, <3>3, <3>4, <3>5, Zenon DEF StampsFollow, Follows
<1>8. QED
  BY <1>6, <1>7

LEMMA FollowStep ==
  TradingTypeOK /\ StampsFollow /\ [Next]_vars => StampsFollow'
<1> SUFFICES ASSUME TradingTypeOK, StampsFollow, [Next]_vars PROVE StampsFollow'
  OBVIOUS
<1>1. ASSUME NEW m \in Markets, NEW reading \in Readings, Tick(m, reading) PROVE StampsFollow'
  BY <1>1, FollowTick
<1>2. ASSUME stamps' = stamps, entries' = entries, now' = now PROVE StampsFollow'
  BY <1>2 DEF StampsFollow, Follows
<1>3. CASE Pass
  <2>1. /\ now' >= now /\ now' \in Nat /\ now \in Nat /\ Window \in Nat
        /\ \A i \in 1..Len(entries) : entries[i].at \in Nat
        /\ Len(entries) \in Nat /\ Len(stamps) \in Nat
    BY <1>3, EntriesTyped, ConfigurationAssumption DEF Pass
  <2>2. stamps' = stamps /\ entries' = entries
    BY <1>3 DEF Pass, guardVars, tradeVars
  <2>3. \A i \in 1..(Len(entries) - Len(stamps)) : i \in 1..Len(entries)
    BY <2>1 DEF StampsFollow, Follows
  <2>4. \A i \in 1..(Len(entries) - Len(stamps)) : entries[i].at < now' - Window
    BY <2>1, <2>3 DEF StampsFollow, Follows
  <2>5. \A i \in 1..Len(entries) : entries[i].at <= now'
    BY <2>1 DEF StampsFollow
  <2>6. QED
    BY <2>2, <2>4, <2>5 DEF StampsFollow, Follows
<1>4. CASE Operator
  BY <1>2, <1>4 DEF Operator, tradeVars, engage, engageExitsOnly, disengage, reset, resetMarket,
                    markToxic, unmarkToxic
<1>5. ASSUME NEW m \in Markets, NEW size \in ReduceSizes, Reduce(m, size) PROVE StampsFollow'
  BY <1>2, <1>5 DEF Reduce, guardVars
<1>6. ASSUME NEW m \in Markets, Quote(m) PROVE StampsFollow'
  BY <1>2, <1>6 DEF Quote, guardVars, tradeVars
<1>7. CASE UNCHANGED vars
  BY <1>2, <1>7 DEF vars, guardVars, tradeVars
<1>8. QED
  BY <1>1, <1>3, <1>4, <1>5, <1>6, <1>7 DEF Next

LEMMA VerdictsOf ==
  ASSUME NEW c
  PROVE  /\ Verdicts(c)["CircuitBreaker"] = CircuitBreaker(c)
         /\ Verdicts(c)["KillSwitch"] = KillSwitch(c)
         /\ Verdicts(c)["RateLimit"] = RateLimit(c)
<1> DEFINE plain == Plain(c)
           own == [ CircuitBreaker |-> CircuitBreaker(c), KillSwitch |-> KillSwitch(c),
                    RateLimit |-> RateLimit(c), PerMarketLimit |-> PerMarketLimit(c),
                    Toxicity |-> Toxicity(c), Or |-> OrGuard(plain, OrOf),
                    Not |-> NotGuard(plain, NotOf),
                    Conditional |-> ConditionalGuard(openCount(c) > 0, plain.MinEdge) ]
<1>1. Verdicts(c) = Joined(plain, own)
  BY DEF Verdicts
<1>2. /\ {"CircuitBreaker", "KillSwitch", "RateLimit"} \subseteq DOMAIN own
      /\ own["CircuitBreaker"] = CircuitBreaker(c) /\ own["KillSwitch"] = KillSwitch(c)
      /\ own["RateLimit"] = RateLimit(c)
  OBVIOUS
<1> HIDE DEF own, plain
<1>3. QED
  BY <1>1, <1>2 DEF Joined

\* A window from which the first entries have gone holds as many as are left.
LEMMA InWindow ==
  ASSUME TradingTypeOK, NEW list, Len(list) \in Nat, Follows(list),
         \A i \in 1..Len(list) : list[i] >= now - Window
  PROVE  Cardinality({i \in DOMAIN entries : entries[i].at >= now - Window}) = Len(list)
<1> DEFINE n == Len(entries)
           k == Len(list)
<1>1. /\ n \in Nat /\ DOMAIN entries = 1..n /\ \A i \in 1..n : entries[i].at \in Nat
      /\ now \in Nat /\ Window \in Nat /\ k \in Nat
  BY EntriesTyped
<1>2. k <= n
  BY DEF Follows
<1>3. ASSUME NEW i \in 1..k PROVE entries[n - k + i].at >= now - Window
  BY DEF Follows
<1>4. ASSUME NEW i \in 1..(n - k) PROVE entries[i].at < now - Window
  BY DEF Follows
<1> HIDE DEF n, k
<1>5. ASSUME NEW i \in 1..n PROVE entries[i].at >= now - Window <=> i \in (n - k + 1)..n
  <2>1. CASE i \in 1..(n - k)
    BY <1>1, <1>2, <1>4, <2>1
  <2>2. CASE i \notin 1..(n - k)
    <3>1. i - (n - k) \in 1..k /\ n - k + (i - (n - k)) = i /\ i \in (n - k + 1)..n
      BY <1>1, <1>2, <2>2
    <3>2. QED
      BY <1>3, <3>1
  <2>3. QED
    BY <2>1, <2>2
<1>6. {i \in DOMAIN entries : entries[i].at >= now - Window} = (n - k + 1)..n
  BY <1>1, <1>2, <1>5
<1>7. Cardinality((n - k + 1)..n) = k
  <2>1. n - k + 1 \in Int /\ n \in Int
    BY <1>1
  <2>2. Cardinality((n - k + 1)..n) = IF n - k + 1 > n THEN 0 ELSE n - (n - k + 1) + 1
    BY <2>1, FS_Interval
  <2>3. QED
    BY <1>1, <2>2
<1>8. QED
  BY <1>6, <1>7 DEF k

LEMMA LimitsStep ==
  ASSUME {"CircuitBreaker", "KillSwitch", "RateLimit"} \subseteq {Pipeline[i] : i \in DOMAIN Pipeline},
         MaxDailyLoss # 0, TradingTypeOK, StampsFollow, [Next]_vars, entries' # entries
  PROVE  /\ manager.accRealizedPnl > -MaxDailyLoss /\ LossStreak < MaxLosses
         /\ trippedAt # None => now - trippedAt >= BreakerCooldown
         /\ killSwitch = "off" /\ killSwitch' = "off"
         /\ Cardinality({i \in DOMAIN entries : entries[i].at >= now - Window}) < MaxPerWindow
<1>1. PICK m \in Markets, reading \in Readings : Tick(m, reading)
  BY DEF Next, Reduce, Pass, Quote, Operator, vars, tradeVars
<1> DEFINE c == Context(m, reading)
           blocks == Verdicts(c)
<1>2. /\ c.now = now /\ c.pnl = manager.accRealizedPnl /\ c.losses = LossStreak
  <2>1. reading \in Reading
    BY MarketAssumption
  <2> HIDE DEF c
  <2>2. c = Context(m, reading)
    BY DEF c
  <2>3. QED
    BY <2>1, <2>2, ContextTyped
<1>3. PICK e \in Orders(c, blocks) :
        /\ asks(c, blocks, e # NoEntry)
        /\ entries' = IF e # NoEntry THEN Append(entries, [market |-> m, at |-> now]) ELSE entries
  BY <1>1, Zenon DEF Tick
<1>4. evaluate(blocks) /\ asks(c, blocks, TRUE)
  <2> HIDE DEF c, blocks
  <2>1. e # NoEntry
    BY <1>3
  <2>2. e \notin {NoEntry}
    BY <2>1
  <2>3. evaluate(blocks)
    BY <1>3, <2>2, Zenon DEF Orders
  <2>4. QED
    BY <1>3, <2>1, <2>3
<1>5. ~CircuitBreaker(c) /\ ~KillSwitch(c) /\ ~RateLimit(c)
  <2>1. ~blocks["CircuitBreaker"] /\ ~blocks["KillSwitch"] /\ ~blocks["RateLimit"]
    <3> HIDE DEF c, blocks
    <3>1. QED
      BY <1>4 DEF evaluate
  <2> HIDE DEF c
  <2>2. QED
    BY <2>1, VerdictsOf
<1> HIDE DEF c, blocks
<1>6. /\ trippedAt \in Nat \cup {None} /\ now \in Nat /\ manager.accRealizedPnl \in Int
      /\ LossStreak \in Nat
      /\ MaxDailyLoss \in Nat /\ MaxLosses \in Nat /\ BreakerCooldown \in Nat
      /\ MaxPerWindow \in Nat /\ Window \in Nat
  BY LossStreakTyped, GuardAssumption DEF TradingTypeOK, Accounts, Account, Manager
<1>7. manager.accRealizedPnl > -MaxDailyLoss /\ LossStreak < MaxLosses
  BY <1>2, <1>5, <1>6 DEF CircuitBreaker, LossLimit
<1>8. trippedAt # None => now - trippedAt >= BreakerCooldown
  BY <1>2, <1>5, <1>6 DEF CircuitBreaker, Cooling
<1>9. killSwitch = "off" /\ engages(c) = "off"
  BY <1>5 DEF KillSwitch, engages
<1>10. killSwitch' = "off"
  BY <1>4, <1>9 DEF asks
<1>11. Cardinality({i \in DOMAIN entries : entries[i].at >= now - Window}) < MaxPerWindow
  <2>1. /\ Recent(c) \in Seq(Nat) /\ Follows(Recent(c))
        /\ \A i \in 1..Len(Recent(c)) : Recent(c)[i] >= now - Window
    BY <1>2, RecentFollows
  <2>2. Len(Recent(c)) \in Nat
    BY <2>1
  <2>3. Cardinality({i \in DOMAIN entries : entries[i].at >= now - Window}) = Len(Recent(c))
    BY <2>1, <2>2, InWindow
  <2>4. QED
    BY <1>5, <1>6, <2>2, <2>3 DEF RateLimit
<1>12. QED
  BY <1>7, <1>8, <1>9, <1>10, <1>11

\* With the breaker, the kill switch and the rate limit in the pipeline, wherever and
\* among whatever others, no entry leaves against any of them, although the breaker
\* resets itself and the pipeline stops at the first guard that blocks.  A breaker
\* whose limit is no loss at all trips only below it, hence the last assumption.
\* (CircuitBreakerGuard, KillSwitchGuard, RateLimitGuard, GuardPipeline.evaluate.)
THEOREM EntriesStayWithinLimits ==
  ASSUME {"CircuitBreaker", "KillSwitch", "RateLimit"} \subseteq {Pipeline[i] : i \in DOMAIN Pipeline},
         MaxDailyLoss # 0
  PROVE  Spec => EntriesWithinLimits
<1>1. Init => TradingTypeOK /\ StampsFollow
  BY TypeInit, FollowInit
<1>2. TradingTypeOK /\ StampsFollow /\ [Next]_vars => (TradingTypeOK /\ StampsFollow)'
  BY TypeStep, FollowStep
<1>3. TradingTypeOK /\ StampsFollow /\ [Next]_vars
        => [entries' # entries =>
              /\ manager.accRealizedPnl > -MaxDailyLoss /\ LossStreak < MaxLosses
              /\ trippedAt # None => now - trippedAt >= BreakerCooldown
              /\ killSwitch = "off" /\ killSwitch' = "off"
              /\ Cardinality({i \in DOMAIN entries : entries[i].at >= now - Window}) < MaxPerWindow
           ]_vars
  BY LimitsStep
<1>4. QED
  BY <1>1, <1>2, <1>3, PTL DEF Spec, EntriesWithinLimits

-----------------------------------------------------------------------------
(* Sums over a finite set.                                                  *)

\* A family of subsets with {} and every set that is a member when all those
\* with one element less are.
LEMMA AllSubsets ==
  ASSUME NEW S, IsFiniteSet(S), NEW G, {} \in G,
         \A t \in SUBSET S : t # {} /\ (\A x \in t : t \ {x} \in G) => t \in G
  PROVE  \A t \in SUBSET S : t \in G
<1> DEFINE N == {n \in Nat : \A t \in SUBSET S : Cardinality(t) = n => t \in G}
<1>1. \A t \in SUBSET S : IsFiniteSet(t) /\ Cardinality(t) \in Nat
  BY FS_Subset, FS_CardinalityType
<1>2. 0 \in N
  BY <1>1, FS_EmptySet
<1>3. ASSUME NEW n \in Nat, n \in N PROVE n + 1 \in N
  <2> SUFFICES ASSUME NEW t \in SUBSET S, Cardinality(t) = n + 1 PROVE t \in G
    OBVIOUS
  <2>1. t # {}
    BY FS_EmptySet
  <2>2. ASSUME NEW x \in t PROVE t \ {x} \in G
    <3>1. Cardinality(t \ {x}) = n
      BY <1>1, FS_RemoveElement
    <3>2. QED
      BY <1>3, <3>1
  <2>3. QED
    BY <2>1, <2>2
<1>4. \A n \in Nat : n \in N
  <2> HIDE DEF N
  <2>1. QED
    BY <1>2, <1>3, AllNumbers
<1>5. QED
  BY <1>1, <1>4

\* The sums of w over the subsets of S, one element after the other.
SumsBy(g, w, choice, t) == IF t = {} THEN 0 ELSE w[choice[t]] + g[t \ {choice[t]}]
Sums(g, w, choice, S) == g = [t \in SUBSET S |-> SumsBy(g, w, choice, t)]
Chooses(choice, S) == \A t \in SUBSET S : t # {} => choice[t] \in t

LEMMA SumsExist ==
  ASSUME NEW S, IsFiniteSet(S), NEW w, NEW choice, Chooses(choice, S)
  PROVE  \E g : Sums(g, w, choice, S)
<1> DEFINE Small(n) == {t \in SUBSET S : Cardinality(t) <= n}
           N == {n \in Nat : \E g : g = [t \in Small(n) |-> SumsBy(g, w, choice, t)]}
<1>1. \A t \in SUBSET S : IsFiniteSet(t) /\ Cardinality(t) \in Nat
  BY FS_Subset, FS_CardinalityType
<1>2. 0 \in N
  <2> DEFINE g == [t \in Small(0) |-> 0]
  <2>1. \A t \in Small(0) : t = {}
    BY <1>1, FS_EmptySet
  <2>2. g = [t \in Small(0) |-> SumsBy(g, w, choice, t)]
    BY <2>1 DEF SumsBy
  <2>3. QED
    BY <2>2
<1>3. ASSUME NEW n \in Nat, n \in N PROVE n + 1 \in N
  <2>1. PICK g : g = [t \in Small(n) |-> SumsBy(g, w, choice, t)]
    BY <1>3
  <2> DEFINE h == [t \in Small(n + 1) |-> IF t \in Small(n) THEN g[t] ELSE SumsBy(g, w, choice, t)]
  <2>2. ASSUME NEW t \in Small(n + 1), t # {} PROVE t \ {choice[t]} \in Small(n)
    <3>1. choice[t] \in t
      BY <2>2 DEF Chooses
    <3>2. Cardinality(t \ {choice[t]}) = Cardinality(t) - 1
      BY <1>1, <3>1, FS_RemoveElement
    <3>3. QED
      BY <1>1, <3>2
  <2>3. Small(n) \subseteq Small(n + 1)
    BY <1>1
  <2> HIDE DEF Small
  <2>4. ASSUME NEW t \in Small(n + 1) PROVE h[t] = SumsBy(h, w, choice, t)
    <3>1. h[t] = SumsBy(g, w, choice, t)
      BY <2>1
    <3>2. t # {} => h[t \ {choice[t]}] = g[t \ {choice[t]}]
      BY <2>2, <2>3
    <3> HIDE DEF h
    <3>3. QED
      BY <3>1, <3>2 DEF SumsBy
  <2>5. h = [t \in Small(n + 1) |-> SumsBy(h, w, choice, t)]
    BY <2>4
  <2> HIDE DEF h
  <2>6. QED
    BY <2>5
<1>4. \A n \in Nat : n \in N
  <2> HIDE DEF N
  <2>1. QED
    BY <1>2, <1>3, AllNumbers
<1>5. Cardinality(S) \in Nat /\ Small(Cardinality(S)) = SUBSET S
  BY FS_CardinalityType, FS_Subset
<1>6. PICK g : g = [t \in Small(Cardinality(S)) |-> SumsBy(g, w, choice, t)]
  BY <1>4, <1>5
<1>7. Sums(g, w, choice, S)
  BY <1>5, <1>6 DEF Sums
<1>8. QED
  BY <1>7

LEMMA SumsTyped ==
  ASSUME NEW S, IsFiniteSet(S), NEW w \in [S -> Int], NEW choice, Chooses(choice, S),
         NEW g, Sums(g, w, choice, S)
  PROVE  \A t \in SUBSET S : g[t] \in Int
<1> DEFINE G == {t \in SUBSET S : g[t] \in Int}
<1>1. \A t \in SUBSET S : g[t] = SumsBy(g, w, choice, t)
  BY DEF Sums
<1>2. {} \in G
  BY <1>1 DEF SumsBy
<1>3. ASSUME NEW t \in SUBSET S, t # {}, \A x \in t : t \ {x} \in G PROVE t \in G
  <2> DEFINE c == choice[t]
  <2>1. c \in t /\ g[t] = w[c] + g[t \ {c}]
    BY <1>1, <1>3 DEF SumsBy, Chooses
  <2> HIDE DEF c
  <2>2. g[t \ {c}] \in Int /\ w[c] \in Int
    BY <1>3, <2>1
  <2>3. QED
    BY <2>1, <2>2
<1> HIDE DEF G
<1>4. \A t \in SUBSET S : t \in G
  BY <1>2, <1>3, AllSubsets
<1>5. QED
  BY <1>4 DEF G

Takes(g, w, S) == g[{}] = 0 /\ \A t \in SUBSET S : \A x \in t : g[t] = w[x] + g[t \ {x}]

\* Any element may be the last one added.
LEMMA SumsTake ==
  ASSUME NEW S, IsFiniteSet(S), NEW w \in [S -> Int], NEW choice, Chooses(choice, S),
         NEW g, Sums(g, w, choice, S)
  PROVE  Takes(g, w, S)
<1> DEFINE G == {t \in SUBSET S : \A x \in t : g[t] = w[x] + g[t \ {x}]}
<1>1. \A t \in SUBSET S : g[t] = SumsBy(g, w, choice, t) /\ g[t] \in Int
  BY SumsTyped DEF Sums
<1>2. {} \in G /\ g[{}] = 0
  BY <1>1 DEF SumsBy
<1>3. ASSUME NEW t \in SUBSET S, t # {}, \A x \in t : t \ {x} \in G PROVE t \in G
  <2> DEFINE c == choice[t]
  <2>1. c \in t /\ g[t] = w[c] + g[t \ {c}]
    BY <1>1, <1>3 DEF SumsBy, Chooses
  <2> HIDE DEF c
  <2>2. ASSUME NEW x \in t PROVE g[t] = w[x] + g[t \ {x}]
    <3>1. CASE x = c
      BY <2>1, <3>1
    <3>2. CASE x # c
      <4>1. x \in t \ {c} /\ c \in t \ {x} /\ (t \ {c}) \ {x} = (t \ {x}) \ {c}
        BY <2>1, <3>2
      <4>2. g[t \ {c}] = w[x] + g[(t \ {c}) \ {x}]
        BY <1>3, <2>1, <4>1
      <4>3. g[t \ {x}] = w[c] + g[(t \ {c}) \ {x}]
        BY <1>3, <4>1
      <4>4. w[x] \in Int /\ w[c] \in Int /\ g[(t \ {c}) \ {x}] \in Int
        BY <1>1, <2>1
      <4>5. QED
        BY <2>1, <4>2, <4>3, <4>4
    <3>3. QED
      BY <3>1, <3>2
  <2>3. QED
    BY <2>2
<1> HIDE DEF G
<1>4. \A t \in SUBSET S : t \in G
  BY <1>2, <1>3, AllSubsets
<1>5. QED
  BY <1>2, <1>4 DEF G, Takes

\* Sums of what is the same on both sides are the same.
LEMMA SumsAgree ==
  ASSUME NEW S, IsFiniteSet(S), NEW w \in [S -> Int], NEW choice, Chooses(choice, S),
         NEW g, Sums(g, w, choice, S),
         NEW T, IsFiniteSet(T), NEW v \in [T -> Int], NEW other, Chooses(other, T),
         NEW h, Sums(h, v, other, T),
         NEW U \in SUBSET (S \cap T), \A x \in U : w[x] = v[x]
  PROVE  g[U] = h[U]
<1> DEFINE G == {t \in SUBSET U : g[t] = h[t]}
<1>1. /\ g[{}] = 0 /\ \A t \in SUBSET S : \A x \in t : g[t] = w[x] + g[t \ {x}]
      /\ h[{}] = 0 /\ \A t \in SUBSET T : \A x \in t : h[t] = v[x] + h[t \ {x}]
  <2>1. g[{}] = 0 /\ \A t \in SUBSET S : \A x \in t : g[t] = w[x] + g[t \ {x}]
    BY SumsTake DEF Takes
  <2>2. h[{}] = 0 /\ \A t \in SUBSET T : \A x \in t : h[t] = v[x] + h[t \ {x}]
    BY SumsTake DEF Takes
  <2>3. QED
    BY <2>1, <2>2
<1>2. IsFiniteSet(U)
  BY FS_Subset
<1>3. {} \in G
  BY <1>1
<1>4. ASSUME NEW t \in SUBSET U, t # {}, \A x \in t : t \ {x} \in G PROVE t \in G
  <2>1. PICK x \in t : TRUE
    BY <1>4
  <2>2. t \in SUBSET S /\ t \in SUBSET T /\ w[x] = v[x] /\ g[t \ {x}] = h[t \ {x}]
    BY <1>4
  <2>3. QED
    BY <1>1, <2>1, <2>2
<1> HIDE DEF G
<1>5. \A t \in SUBSET U : t \in G
  BY <1>2, <1>3, <1>4, AllSubsets
<1>6. QED
  BY <1>5 DEF G

\* FoldFunction of the library is the sum that takes any element last.
Total(w) == FoldFunction(+, 0, w)
AnyOf(S) == [t \in SUBSET S |-> CHOOSE x \in t : TRUE]
Folded(g, w, S) ==
  g = [t \in SUBSET S |-> IF t = {} THEN 0
                          ELSE w[CHOOSE x \in t : TRUE] + g[t \ {CHOOSE x \in t : TRUE}]]

LEMMA TotalIs ==
  ASSUME NEW S, IsFiniteSet(S), NEW w \in [S -> Int]
  PROVE  \E g : Sums(g, w, AnyOf(S), S) /\ Total(w) = g[S]
<1> DEFINE g == CHOOSE g : Folded(g, w, S)
<1>1. Chooses(AnyOf(S), S)
  BY DEF Chooses, AnyOf
<1>2. \A h : Sums(h, w, AnyOf(S), S) <=> Folded(h, w, S)
  <2> SUFFICES ASSUME NEW h PROVE Sums(h, w, AnyOf(S), S) <=> Folded(h, w, S)
    OBVIOUS
  <2>1. \A t \in SUBSET S : SumsBy(h, w, AnyOf(S), t)
          = IF t = {} THEN 0 ELSE w[CHOOSE x \in t : TRUE] + h[t \ {CHOOSE x \in t : TRUE}]
    BY DEF SumsBy, AnyOf
  <2>2. QED
    BY <2>1 DEF Sums, Folded
<1>3. Folded(g, w, S)
  <2>1. \E h : Folded(h, w, S)
    BY <1>1, <1>2, SumsExist
  <2>2. QED
    BY <2>1, Zenon
<1>4. Total(w) = g[S]
  <2>1. DOMAIN w = S
    OBVIOUS
  <2>2. QED
    BY <2>1 DEF Total, FoldFunction, FoldFunctionOnSet, MapThenFoldSet, Folded
<1> HIDE DEF g
<1>5. QED
  BY <1>2, <1>3, <1>4

\* Each element adds its own to the total of the others.
AgreeOn(R, v, w) == \A y \in R : v[y] = w[y]
Splits(w, x, v) == /\ Total(w) = w[x] + Total(v)
                   /\ Total(w) \in Int /\ Total(v) \in Int

LEMMA TotalSplit ==
  ASSUME NEW S, IsFiniteSet(S), NEW w \in [S -> Int], NEW x \in S,
         NEW R, R = S \ {x}, NEW v \in [R -> Int], AgreeOn(R, v, w)
  PROVE  Splits(w, x, v)
<1>1. IsFiniteSet(R)
  BY FS_RemoveElement
<1>2. PICK g : Sums(g, w, AnyOf(S), S) /\ Total(w) = g[S]
  BY TotalIs
<1>3. PICK h : Sums(h, v, AnyOf(R), R) /\ Total(v) = h[R]
  BY <1>1, TotalIs
<1>4. Chooses(AnyOf(S), S) /\ Chooses(AnyOf(R), R)
  BY DEF Chooses, AnyOf
<1>5. g[S] = w[x] + g[R]
  <2>1. Takes(g, w, S)
    BY <1>2, <1>4, SumsTake
  <2>2. QED
    BY <2>1 DEF Takes
<1>6. g[R] = h[R]
  <2>1. /\ IsFiniteSet(R) /\ R \in SUBSET (S \cap R) /\ v \in [R -> Int] /\ Chooses(AnyOf(R), R)
        /\ Sums(h, v, AnyOf(R), R) /\ \A y \in R : w[y] = v[y]
    BY <1>1, <1>3, <1>4 DEF AgreeOn
  <2>2. QED
    BY <1>2, <1>4, <2>1, SumsAgree
<1>7. g[S] \in Int /\ h[R] \in Int
  <2>1. g[S] \in Int
    BY <1>2, <1>4, SumsTyped
  <2>2. h[R] \in Int
    BY <1>1, <1>3, <1>4, SumsTyped
  <2>3. QED
    BY <2>1, <2>2
<1>8. QED
  BY <1>2, <1>3, <1>5, <1>6, <1>7 DEF Splits

LEMMA NotionalOfNone ==
  ASSUME NEW positions, DOMAIN positions = {}
  PROVE  notionals(positions) = 0
<1> DEFINE w == [m \in DOMAIN positions |-> positions[m].cost]
<1>1. w \in [{} -> Int] /\ IsFiniteSet({})
  BY FS_EmptySet
<1>2. notionals(positions) = Total(w)
  BY DEF notionals, Total
<1> HIDE DEF w
<1>3. PICK g : Sums(g, w, AnyOf({}), {}) /\ Total(w) = g[{}]
  BY <1>1, TotalIs
<1>4. g[{}] = 0
  BY <1>3 DEF Sums, SumsBy
<1>5. QED
  BY <1>2, <1>3, <1>4

\* The notional of a market adds to that of the others.
LEMMA CostSplit ==
  ASSUME NEW M, IsFiniteSet(M), NEW m \in M, NEW positions, NEW others,
         DOMAIN positions = M, DOMAIN others = M \ {m},
         \A n \in M : positions[n].cost \in Int,
         \A n \in M \ {m} : others[n].cost = positions[n].cost
  PROVE  /\ notionals(positions) = positions[m].cost + notionals(others)
         /\ notionals(positions) \in Int /\ notionals(others) \in Int
<1>1. PICK R : R = M \ {m}
  OBVIOUS
<1>2. PICK w \in [M -> Int] : w = [n \in M |-> positions[n].cost]
  OBVIOUS
<1>3. PICK v \in [R -> Int] : v = [n \in M \ {m} |-> others[n].cost]
  BY <1>1
<1>4. AgreeOn(R, v, w) /\ w[m] = positions[m].cost
  BY <1>1, <1>2, <1>3 DEF AgreeOn
<1>5. notionals(positions) = Total(w) /\ notionals(others) = Total(v)
  BY <1>2, <1>3 DEF notionals, Total
<1>6. Splits(w, m, v)
  BY <1>1, <1>4, TotalSplit
<1>7. QED
  BY <1>4, <1>5, <1>6 DEF Splits

SplitsOff(positions, m, others) ==
  /\ notionals(positions) = positions[m].cost + notionals(others)
  /\ notionals(positions) \in Int /\ notionals(others) \in Int

LEMMA NotionalSplit ==
  ASSUME NEW M \in SUBSET Markets, NEW positions \in [M -> Position], NEW m \in M,
         NEW R, R = M \ {m}, NEW others \in [R -> Position], \A n \in R : others[n] = positions[n]
  PROVE  SplitsOff(positions, m, others)
<1>1. IsFiniteSet(M)
  BY MarketAssumption, FS_Subset
<1>2. \A n \in M : positions[n].cost \in Int
  BY DEF Position
<1>3. \A n \in M \ {m} : others[n].cost = positions[n].cost
  OBVIOUS
<1>4. DOMAIN positions = M /\ DOMAIN others = M \ {m}
  OBVIOUS
<1>5. QED
  BY <1>1, <1>2, <1>3, <1>4, CostSplit DEF SplitsOff

-----------------------------------------------------------------------------
(* The equity after each trade.                                            *)

Trade == [pnl : Int, fee : Nat]
Net(t) == Unit * t.pnl - t.fee
Level(s) == FoldLeft(LAMBDA x, t : x + Unit * t.pnl - t.fee, 0, s)
Levels(g, s) ==
  g = [t \in SUBSET DOMAIN s |->
         IF t = {} THEN 0 ELSE g[t \ {Max(t)}] + Unit * s[Max(t)].pnl - s[Max(t)].fee]
Nets(s) == [i \in DOMAIN s |-> Net(s[i])]
Latest(S) == [t \in SUBSET S |-> Max(t)]

LEMMA NetTyped ==
  ASSUME NEW t \in Trade
  PROVE  Net(t) \in Int /\ Unit * t.pnl \in Int /\ t.fee \in Int
BY DEF Trade, Net, Unit

LEMMA LatestChooses ==
  ASSUME NEW n \in Nat
  PROVE  Chooses(Latest(1..n), 1..n)
<1> SUFFICES ASSUME NEW t \in SUBSET (1..n), t # {} PROVE Max(t) \in t
  BY DEF Chooses, Latest
<1>1. t \in SUBSET (0..n)
  OBVIOUS
<1>2. QED
  BY <1>1, GreatestNumber

LEMMA LevelIs ==
  ASSUME NEW s \in Seq(Trade)
  PROVE  \E g : Sums(g, Nets(s), Latest(DOMAIN s), DOMAIN s) /\ Level(s) = g[DOMAIN s]
<1> DEFINE S == DOMAIN s
           w == Nets(s)
           g == CHOOSE g : Levels(g, s)
<1>1. S = 1..Len(s) /\ Len(s) \in Nat /\ IsFiniteSet(S) /\ \A i \in S : s[i] \in Trade
  BY FS_Interval, ElementOfSeq
<1>2. w \in [S -> Int]
  BY <1>1, NetTyped DEF Nets
<1>3. Chooses(Latest(S), S)
  BY <1>1, LatestChooses
<1>4. \A t \in SUBSET S : t # {} => Max(t) \in t /\ Latest(S)[t] = Max(t)
  BY <1>3 DEF Chooses, Latest
<1>5. ASSUME NEW t \in SUBSET S, t # {}, NEW x \in Int
      PROVE  w[Max(t)] + x = x + Unit * s[Max(t)].pnl - s[Max(t)].fee
  <2>1. Max(t) \in S /\ s[Max(t)] \in Trade
    BY <1>1, <1>4, <1>5
  <2>2. w[Max(t)] = Unit * s[Max(t)].pnl - s[Max(t)].fee
    BY <2>1 DEF Nets, Net
  <2>3. Unit * s[Max(t)].pnl \in Int /\ s[Max(t)].fee \in Int
    BY <2>1, NetTyped
  <2> HIDE DEF w
  <2>4. QED
    BY <2>2, <2>3
<1>6. Levels(g, s)
  <2>1. PICK h : Sums(h, w, Latest(S), S)
    BY <1>1, <1>3, SumsExist
  <2>2. \A t \in SUBSET S : h[t] \in Int
    BY <1>1, <1>2, <1>3, <2>1, SumsTyped
  <2>3. ASSUME NEW t \in SUBSET S
        PROVE  SumsBy(h, w, Latest(S), t)
                 = IF t = {} THEN 0 ELSE h[t \ {Max(t)}] + Unit * s[Max(t)].pnl - s[Max(t)].fee
    <3>1. t \ {Max(t)} \in SUBSET S
      OBVIOUS
    <3> HIDE DEF w, S
    <3>2. QED
      BY <1>4, <1>5, <2>2, <3>1 DEF SumsBy
  <2>4. Levels(h, s)
    BY <2>1, <2>3 DEF Sums, Levels
  <2>5. QED
    BY <2>4, Zenon
<1>7. Level(s) = g[S]
  BY DEF Level, FoldLeft, MapThenFoldSet, Levels
<1> HIDE DEF g
<1> DEFINE G == {t \in SUBSET S : g[t] \in Int}
<1>8. {} \in G
  BY <1>6 DEF Levels
<1>9. ASSUME NEW t \in SUBSET S, t # {}
      PROVE  g[t] = g[t \ {Max(t)}] + Unit * s[Max(t)].pnl - s[Max(t)].fee
  BY <1>6, <1>9, Zenon DEF Levels
<1>10. ASSUME NEW t \in SUBSET S, t # {}, \A x \in t : t \ {x} \in G PROVE t \in G
  <2>1. Max(t) \in t /\ g[t \ {Max(t)}] \in Int /\ s[Max(t)] \in Trade
    BY <1>1, <1>4, <1>10
  <2>2. Unit * s[Max(t)].pnl \in Int /\ s[Max(t)].fee \in Int
    BY <2>1, NetTyped
  <2>3. g[t] \in Int
    <3> HIDE DEF w, S, G
    <3>1. g[t] = g[t \ {Max(t)}] + Unit * s[Max(t)].pnl - s[Max(t)].fee
      BY <1>9, <1>10
    <3>2. QED
      BY <2>1, <2>2, <3>1
  <2>4. QED
    BY <2>3
<1>11. \A t \in SUBSET S : t \in G
  <2> HIDE DEF G, S, w
  <2>1. \A t \in SUBSET S : t # {} /\ (\A x \in t : t \ {x} \in G) => t \in G
    BY <1>10
  <2>2. IsFiniteSet(S)
    BY <1>1
  <2>3. QED
    BY <1>8, <2>1, <2>2, AllSubsets
<1>12. ASSUME NEW t \in SUBSET S PROVE g[t] = SumsBy(g, w, Latest(S), t)
  <2>1. t \ {Max(t)} \in SUBSET S
    OBVIOUS
  <2>2. g[{}] = 0
    BY <1>6 DEF Levels
  <2> HIDE DEF w
  <2>3. g[t \ {Max(t)}] \in Int
    BY <1>11, <2>1
  <2> HIDE DEF G, S
  <2>4. QED
    BY <1>4, <1>5, <1>9, <2>2, <2>3 DEF SumsBy
<1>13. Sums(g, w, Latest(S), S)
  <2>1. g = [t \in SUBSET S |-> g[t]]
    BY <1>6 DEF Levels
  <2>2. QED
    BY <1>12, <2>1 DEF Sums
<1>14. QED
  BY <1>7, <1>13

LEMMA LevelTyped ==
  ASSUME NEW s \in Seq(Trade)
  PROVE  Level(s) \in Int /\ (s = <<>> => Level(s) = 0)
<1> DEFINE S == DOMAIN s
           w == Nets(s)
<1>1. S = 1..Len(s) /\ Len(s) \in Nat /\ IsFiniteSet(S) /\ \A i \in S : s[i] \in Trade
  BY FS_Interval, ElementOfSeq
<1>2. w \in [S -> Int]
  BY <1>1, NetTyped DEF Nets
<1>3. Chooses(Latest(S), S)
  BY <1>1, LatestChooses
<1>4. PICK g : Sums(g, w, Latest(S), S) /\ Level(s) = g[S]
  BY LevelIs
<1>5. s = <<>> => S = {}
  BY <1>1
<1> HIDE DEF w, S
<1>6. g[S] \in Int
  BY <1>1, <1>2, <1>3, <1>4, SumsTyped
<1>7. S = {} => g[S] = 0
  BY <1>4 DEF Sums, SumsBy
<1>8. QED
  BY <1>4, <1>5, <1>6, <1>7

\* A trade adds its own result to the equity.
LEMMA LevelAppend ==
  ASSUME NEW s \in Seq(Trade), NEW t \in Trade
  PROVE  Level(Append(s, t)) = Level(s) + Net(t)
<1> DEFINE n == Len(s)
           all == Append(s, t)
<1>1. /\ all \in Seq(Trade) /\ n \in Nat /\ Len(all) = n + 1 /\ all[n + 1] = t
      /\ \A i \in 1..n : all[i] = s[i]
  BY AppendProperties
<1>2. PICK T : T = 1..(n + 1)
  OBVIOUS
<1>3. PICK S : S = 1..n
  OBVIOUS
<1>4. DOMAIN s = S /\ DOMAIN all = T
  BY <1>1, <1>2, <1>3
<1> HIDE DEF all
<1>5. PICK w : w = Nets(all)
  OBVIOUS
<1>6. PICK v : v = Nets(s)
  OBVIOUS
<1>7. PICK g : Sums(g, w, Latest(T), T) /\ Level(all) = g[T]
  BY <1>1, <1>4, <1>5, LevelIs
<1>8. PICK h : Sums(h, v, Latest(S), S) /\ Level(s) = h[S]
  BY <1>4, <1>6, LevelIs
<1>9. w \in [T -> Int] /\ v \in [S -> Int]
  BY <1>1, <1>4, <1>5, <1>6, NetTyped, ElementOfSeq DEF Nets
<1>10. w[n + 1] = Net(t) /\ \A i \in S : w[i] = v[i]
  BY <1>1, <1>2, <1>3, <1>4, <1>5, <1>6 DEF Nets
<1>11. IsFiniteSet(T) /\ IsFiniteSet(S)
  <2>1. 1 \in Int /\ n \in Int /\ n + 1 \in Int
    BY <1>1
  <2> HIDE DEF n
  <2>2. IsFiniteSet(1..(n + 1)) /\ IsFiniteSet(1..n)
    BY <2>1, FS_Interval
  <2>3. QED
    BY <1>2, <1>3, <2>2
<1>12. Chooses(Latest(T), T)
  <2>1. n + 1 \in Nat
    BY <1>1
  <2>2. QED
    BY <1>2, <2>1, LatestChooses
<1>13. Chooses(Latest(S), S)
  BY <1>1, <1>3, LatestChooses
<1>14. S \in SUBSET (T \cap S) /\ n + 1 \in T /\ T \ {n + 1} = S
  BY <1>1, <1>2, <1>3
<1> HIDE DEF n
<1>15. g[T] = Net(t) + g[S]
  <2>1. Takes(g, w, T)
    BY <1>7, <1>9, <1>11, <1>12, SumsTake
  <2>2. g[T] = w[n + 1] + g[T \ {n + 1}]
    BY <1>14, <2>1 DEF Takes
  <2>3. QED
    BY <1>10, <1>14, <2>2
<1>16. g[S] = h[S]
  BY <1>7, <1>8, <1>9, <1>10, <1>11, <1>12, <1>13, <1>14, SumsAgree
<1>17. Level(s) \in Int /\ Net(t) \in Int
  BY LevelTyped, NetTyped
<1>18. QED
  BY <1>7, <1>8, <1>15, <1>16, <1>17 DEF all

LEMMA EquityLevels ==
  ASSUME NEW s \in Seq(Trade), NEW k \in 0..Len(s)
  PROVE  /\ Equity(s, k) = Level(SubSeq(s, 1, k)) /\ SubSeq(s, 1, k) \in Seq(Trade)
         /\ Equity(s, k) \in Int /\ (k = 0 => Equity(s, k) = 0)
         /\ (k = Len(s) => Equity(s, k) = Level(s))
<1>1. Equity(s, k) = Level(SubSeq(s, 1, k))
  BY DEF Equity, Level
<1>2. /\ SubSeq(s, 1, k) \in Seq(Trade) /\ Len(SubSeq(s, 1, k)) = k
      /\ \A i \in 1..k : SubSeq(s, 1, k)[i] = s[i]
  <2>1. \A i \in 1..k : s[i] \in Trade
    BY ElementOfSeq
  <2>2. k \in Nat /\ (IF 1 <= k THEN k - 1 + 1 ELSE 0) = k
    OBVIOUS
  <2>3. /\ SubSeq(s, 1, k) \in Seq(Trade)
        /\ Len(SubSeq(s, 1, k)) = IF 1 <= k THEN k - 1 + 1 ELSE 0
        /\ \A i \in 1..(k - 1 + 1) : SubSeq(s, 1, k)[i] = s[1 + i - 1]
    BY <2>1, <2>2, SubSeqProperties
  <2>4. QED
    BY <2>2, <2>3
<1>3. k = 0 => SubSeq(s, 1, k) = <<>>
  BY <1>2, EmptySeq
<1>4. k = Len(s) => SubSeq(s, 1, k) = s
  BY <1>2, SeqEqual
<1>5. Level(SubSeq(s, 1, k)) \in Int /\ (SubSeq(s, 1, k) = <<>> => Level(SubSeq(s, 1, k)) = 0)
  BY <1>2, LevelTyped
<1>6. QED
  BY <1>1, <1>2, <1>3, <1>4, <1>5

\* The equity before a trade stays what it was.
LEMMA EquityAppend ==
  ASSUME NEW s \in Seq(Trade), NEW t \in Trade
  PROVE  /\ \A k \in 0..Len(s) : Equity(Append(s, t), k) = Equity(s, k)
         /\ Equity(Append(s, t), Len(s) + 1) = Equity(s, Len(s)) + Net(t)
<1> DEFINE all == Append(s, t)
<1>1. /\ all \in Seq(Trade) /\ Len(all) = Len(s) + 1 /\ Len(s) \in Nat
      /\ \A i \in 1..Len(s) : all[i] = s[i]
  BY AppendProperties
<1> HIDE DEF all
<1>2. ASSUME NEW k \in 0..Len(s) PROVE Equity(all, k) = Equity(s, k)
  <2>1. SubSeq(all, 1, k) = SubSeq(s, 1, k)
    BY <1>1
  <2>2. QED
    BY <2>1 DEF Equity
<1>3. Equity(all, Len(s) + 1) = Level(all) /\ Equity(s, Len(s)) = Level(s)
  <2>1. Len(s) + 1 \in 0..Len(all) /\ Len(s) \in 0..Len(s)
    BY <1>1
  <2>2. QED
    BY <1>1, <2>1, EquityLevels
<1>4. Level(all) = Level(s) + Net(t)
  BY LevelAppend DEF all
<1>5. QED
  BY <1>2, <1>3, <1>4 DEF all

-----------------------------------------------------------------------------
(* The statistics.                                                         *)

Greatest(S, x) == x \in S /\ \A y \in S : y <= x
Least(S, x) == x \in S /\ \A y \in S : x <= y

LEMMA GreatestIsMax ==
  ASSUME NEW S \in SUBSET Int, NEW x, Greatest(S, x)
  PROVE  Max(S) = x
<1>1. x \in S /\ \A y \in S : x >= y
  BY DEF Greatest
<1>2. Max(S) \in S /\ \A y \in S : Max(S) >= y
  BY <1>1, Zenon DEF Max
<1>3. Max(S) \in Int /\ x \in Int /\ Max(S) >= x /\ x >= Max(S)
  BY <1>1, <1>2
<1>4. QED
  BY <1>3

LEMMA LeastIsMin ==
  ASSUME NEW S \in SUBSET Int, NEW x, Least(S, x)
  PROVE  Min(S) = x
<1>1. x \in S /\ \A y \in S : x <= y
  BY DEF Least
<1>2. Min(S) \in S /\ \A y \in S : Min(S) <= y
  BY <1>1, Zenon DEF Min
<1>3. Min(S) \in Int /\ x \in Int /\ Min(S) <= x /\ x <= Min(S)
  BY <1>1, <1>2
<1>4. QED
  BY <1>3

LEMMA GreatestGrows ==
  ASSUME NEW S \in SUBSET Int, NEW x, Greatest(S, x), NEW e \in Int
  PROVE  Greatest(S \cup {e}, IF e > x THEN e ELSE x)
<1>1. x \in Int
  BY DEF Greatest
<1>2. QED
  BY <1>1 DEF Greatest

LEMMA LeastGrows ==
  ASSUME NEW S \in SUBSET Int, NEW x, Least(S, x), NEW e \in Int
  PROVE  Least(S \cup {e}, IF e < x THEN e ELSE x)
<1>1. x \in Int
  BY DEF Least
<1>2. QED
  BY <1>1 DEF Least

Pnls(list) == {list[i].pnl : i \in 1..Len(list)}
Wins(list) == {i \in 1..Len(list) : list[i].pnl > 0}
Equities(list) == {Equity(list, k) : k \in 0..Len(list)}
Ordered(n) == {q \in (0..n) \X (0..n) : q[1] <= q[2]}
Falls(list) == {Equity(list, p[1]) - Equity(list, p[2]) : p \in Ordered(Len(list))}

\* What the statistics say of a list of trades; the peak is the inductive part.
StatsOf(list, st) ==
  /\ st.trades = Len(list)
  /\ Unit * st.pnl - st.fees = Equity(list, Len(list))
  /\ Greatest(Equities(list), st.peak)
  /\ Greatest(Falls(list), st.drawdown)
  /\ Len(list) > 0 => Greatest(Pnls(list), st.best) /\ Least(Pnls(list), st.worst)
  /\ st.wins = Cardinality(Wins(list))

LEMMA EquitiesTyped ==
  ASSUME NEW list \in Seq(Trade)
  PROVE  Equities(list) \in SUBSET Int /\ Falls(list) \in SUBSET Int /\ Pnls(list) \in SUBSET Int
<1>1. \A k \in 0..Len(list) : Equity(list, k) \in Int
  BY EquityLevels
<1>2. \A i \in 1..Len(list) : list[i].pnl \in Int
  <2>1. \A i \in 1..Len(list) : list[i] \in Trade
    BY ElementOfSeq
  <2>2. QED
    BY <2>1 DEF Trade
<1>3. Falls(list) \in SUBSET Int
  BY <1>1 DEF Falls, Ordered
<1>4. QED
  BY <1>1, <1>2, <1>3 DEF Equities, Pnls

LEMMA StatsMatch ==
  ASSUME NEW a, a.trades \in Seq(Trade), StatsOf(a.trades, a.stats)
  PROVE  StatsMatchTrades(a)
<1> DEFINE list == a.trades
<1>1. Equities(list) \in SUBSET Int /\ Falls(list) \in SUBSET Int /\ Pnls(list) \in SUBSET Int
  BY EquitiesTyped
<1>2. a.stats.drawdown = Max(Falls(list))
  BY <1>1, GreatestIsMax DEF StatsOf
<1>3. Len(list) > 0 => a.stats.best = Max(Pnls(list)) /\ a.stats.worst = Min(Pnls(list))
  BY <1>1, GreatestIsMax, LeastIsMin DEF StatsOf
<1>4. QED
  BY <1>2, <1>3 DEF StatsOf, StatsMatchTrades, Falls, Ordered, Pnls, Wins

\* The falls that end with a new trade are from the peak or from where it ends.
LEMMA FallsGrow ==
  ASSUME NEW list \in Seq(Trade), NEW t \in Trade, NEW e, e = Equity(list, Len(list)) + Net(t)
  PROVE  /\ Equities(Append(list, t)) = Equities(list) \cup {e} /\ e \in Int
         /\ Falls(Append(list, t)) = Falls(list) \cup {x - e : x \in Equities(list)} \cup {0}
<1> DEFINE n == Len(list)
           all == Append(list, t)
<1>1. n \in Nat /\ Len(all) = n + 1
  BY AppendProperties
<1>2. /\ \A k \in 0..n : Equity(all, k) = Equity(list, k)
      /\ Equity(all, n + 1) = e
  BY EquityAppend
<1>3. (\A k \in 0..n : Equity(list, k) \in Int) /\ e \in Int
  <2>1. n \in 0..n /\ Net(t) \in Int
    BY <1>1, NetTyped
  <2>2. \A k \in 0..n : Equity(list, k) \in Int
    BY EquityLevels
  <2> HIDE DEF n
  <2>3. Equity(list, n) \in Int
    BY <2>1, <2>2
  <2>4. QED
    BY <2>1, <2>2, <2>3 DEF n
<1> HIDE DEF n, all
<1>4. 0..(n + 1) = (0..n) \cup {n + 1}
  BY <1>1
<1>5. Equities(all) = Equities(list) \cup {e}
  BY <1>1, <1>2, <1>4 DEF Equities, n
<1>6. Ordered(n + 1) = Ordered(n) \cup {<<k, n + 1>> : k \in 0..(n + 1)}
  BY <1>1 DEF Ordered
<1>7. Falls(all) = Falls(list) \cup {x - e : x \in Equities(list)} \cup {0}
  <2>1. Falls(all) = {Equity(all, p[1]) - Equity(all, p[2]) : p \in Ordered(n)}
                       \cup {Equity(all, k) - e : k \in 0..(n + 1)}
    <3> DEFINE D(p) == Equity(all, p[1]) - Equity(all, p[2])
               B == {<<k, n + 1>> : k \in 0..(n + 1)}
    <3>1. Falls(all) = {D(p) : p \in Ordered(n) \cup B}
      BY <1>1, <1>6 DEF Falls
    <3>2. \A k \in 0..(n + 1) : D(<<k, n + 1>>) = Equity(all, k) - e
      BY <1>2
    <3> HIDE DEF D
    <3>3. {D(p) : p \in B} = {Equity(all, k) - e : k \in 0..(n + 1)}
      BY <3>2
    <3> HIDE DEF B
    <3>4. Falls(all) = {D(p) : p \in Ordered(n)} \cup {D(p) : p \in B}
      BY <3>1
    <3>5. QED
      BY <3>3, <3>4 DEF D
  <2>2. {Equity(all, p[1]) - Equity(all, p[2]) : p \in Ordered(n)} = Falls(list)
    BY <1>2 DEF Falls, Ordered, n
  <2>3. {Equity(all, k) - e : k \in 0..(n + 1)} = {x - e : x \in Equities(list)} \cup {0}
    <3>1. {Equity(all, k) - e : k \in 0..n} = {x - e : x \in Equities(list)}
      BY <1>2 DEF Equities, n
    <3>2. Equity(all, n + 1) - e = 0
      BY <1>2, <1>3
    <3>3. {Equity(all, k) - e : k \in 0..(n + 1)}
            = {Equity(all, k) - e : k \in 0..n} \cup {Equity(all, n + 1) - e}
      BY <1>4
    <3>4. QED
      BY <3>1, <3>2, <3>3
  <2>4. QED
    BY <2>1, <2>2, <2>3
<1>8. QED
  BY <1>3, <1>5, <1>7 DEF all

LEMMA StatsStart ==
  StatsOf(<<>>, NoStats)
<1> DEFINE none == <<>>
<1>1. none \in Seq(Trade) /\ Len(none) = 0
  OBVIOUS
<1>2. Equity(none, 0) = 0
  <2>1. 0 \in 0..Len(none)
    BY <1>1
  <2> HIDE DEF none
  <2>2. QED
    BY <1>1, <2>1, EquityLevels
<1> HIDE DEF none
<1>3. Equities(none) = {0} /\ Wins(none) = {}
  BY <1>1, <1>2 DEF Equities, Wins
<1>4. Falls(none) = {0}
  <2>1. Ordered(0) = {<<0, 0>>}
    BY DEF Ordered
  <2>2. Falls(none) = {Equity(none, 0) - Equity(none, 0)}
    <3> DEFINE D(p) == Equity(none, p[1]) - Equity(none, p[2])
    <3>1. Falls(none) = {D(p) : p \in {<<0, 0>>}}
      BY <1>1, <2>1 DEF Falls
    <3> HIDE DEF D
    <3>2. Falls(none) = {D(<<0, 0>>)}
      BY <3>1
    <3>3. QED
      BY <3>2 DEF D
  <2>3. QED
    BY <1>2, <2>2
<1>5. Cardinality({}) = 0
  BY FS_EmptySet
<1>6. StatsOf(none, NoStats)
  BY <1>1, <1>2, <1>3, <1>4, <1>5 DEF StatsOf, NoStats, Unit, Greatest
<1>7. QED
  BY <1>6 DEF none

LEMMA WinsGrow ==
  ASSUME NEW list \in Seq(Trade), NEW t \in Trade
  PROVE  /\ Cardinality(Wins(Append(list, t)))
              = Cardinality(Wins(list)) + (IF t.pnl > 0 THEN 1 ELSE 0)
         /\ Pnls(Append(list, t)) = Pnls(list) \cup {t.pnl}
<1> DEFINE n == Len(list)
           all == Append(list, t)
<1>1. /\ n \in Nat /\ Len(all) = n + 1 /\ all[n + 1] = t
      /\ \A i \in 1..n : all[i] = list[i]
  BY AppendProperties
<1> HIDE DEF all, n
<1>2. 1..(n + 1) = (1..n) \cup {n + 1} /\ n + 1 \notin 1..n
  BY <1>1
<1>3. Pnls(all) = Pnls(list) \cup {t.pnl}
  <2>1. {all[i].pnl : i \in 1..n} = Pnls(list)
    BY <1>1 DEF Pnls, n
  <2>2. Pnls(all) = {all[i].pnl : i \in 1..n} \cup {all[n + 1].pnl}
    BY <1>1, <1>2 DEF Pnls
  <2>3. QED
    BY <1>1, <2>1, <2>2
<1>4. IsFiniteSet(Wins(list)) /\ Cardinality(Wins(list)) \in Nat
  <2>1. IsFiniteSet(1..n)
    <3>1. 1 \in Int /\ n \in Int
      BY <1>1
    <3>2. QED
      BY <3>1, FS_Interval
  <2>2. Wins(list) \in SUBSET (1..n)
    BY DEF Wins, n
  <2>3. QED
    BY <2>1, <2>2, FS_Subset, FS_CardinalityType
<1>5. Wins(all) = IF t.pnl > 0 THEN Wins(list) \cup {n + 1} ELSE Wins(list)
  <2>1. Wins(list) = {i \in 1..n : all[i].pnl > 0}
    BY <1>1 DEF Wins, n
  <2>2. Wins(all) = {i \in 1..(n + 1) : all[i].pnl > 0}
    BY <1>1 DEF Wins
  <2>3. QED
    BY <1>1, <1>2, <2>1, <2>2
<1>6. n + 1 \notin Wins(list)
  BY <1>2 DEF Wins, n
<1>7. Cardinality(Wins(list) \cup {n + 1}) = Cardinality(Wins(list)) + 1
  BY <1>4, <1>6, FS_AddElement
<1>8. QED
  BY <1>3, <1>4, <1>5, <1>7 DEF all

LEMMA NetAdds ==
  ASSUME NEW x \in Int, NEW y \in Int, NEW u \in Int, NEW v \in Int
  PROVE  Unit * (x + y) - (u + v) = (Unit * x - u) + (Unit * y - v)
BY DEF Unit

\* One more trade, and the statistics are those of the longer list.
LEMMA StatsGrow ==
  ASSUME NEW list \in Seq(Trade), NEW t \in Trade, NEW st \in Statistics, StatsOf(list, st)
  PROVE  StatsOf(Append(list, t), handlePositionClosed(st, t.pnl, t.fee))
<1> DEFINE n == Len(list)
           all == Append(list, t)
           next == handlePositionClosed(st, t.pnl, t.fee)
           e == Unit * (st.pnl + t.pnl) - (st.fees + t.fee)
<1>1. n \in Nat /\ Len(all) = n + 1 /\ t.pnl \in Int /\ t.fee \in Int
  BY AppendProperties DEF Trade
<1>2. /\ st.trades \in Nat /\ st.wins \in Nat /\ st.pnl \in Int /\ st.fees \in Int
      /\ st.peak \in Int /\ st.drawdown \in Nat /\ st.best \in Int /\ st.worst \in Int
  BY DEF Statistics
<1>3. /\ st.trades = n /\ Unit * st.pnl - st.fees = Equity(list, n)
      /\ Greatest(Equities(list), st.peak) /\ Greatest(Falls(list), st.drawdown)
      /\ st.wins = Cardinality(Wins(list))
      /\ n > 0 => Greatest(Pnls(list), st.best) /\ Least(Pnls(list), st.worst)
  BY DEF StatsOf
<1>4. next = [trades |-> st.trades + 1,
              wins |-> st.wins + (IF t.pnl > 0 THEN 1 ELSE 0),
              losses |-> st.losses + (IF t.pnl < 0 THEN 1 ELSE 0),
              pnl |-> st.pnl + t.pnl,
              fees |-> st.fees + t.fee,
              peak |-> IF e > st.peak THEN e ELSE st.peak,
              drawdown |-> IF st.peak - e > st.drawdown THEN st.peak - e ELSE st.drawdown,
              best |-> IF st.trades = 0 \/ t.pnl > st.best THEN t.pnl ELSE st.best,
              worst |-> IF st.trades = 0 \/ t.pnl < st.worst THEN t.pnl ELSE st.worst]
  BY DEF handlePositionClosed
<1>5. e = Equity(list, n) + Net(t)
  <2>1. st.pnl \in Int /\ st.fees \in Int /\ t.pnl \in Int /\ t.fee \in Int
    BY <1>1, <1>2
  <2> HIDE DEF all, next
  <2>2. e = (Unit * st.pnl - st.fees) + (Unit * t.pnl - t.fee)
    <3>1. PICK x \in Int : x = st.pnl
      BY <2>1
    <3>2. PICK y \in Int : y = t.pnl
      BY <2>1
    <3>3. PICK u \in Int : u = st.fees
      BY <2>1
    <3>4. PICK v \in Int : v = t.fee
      BY <2>1
    <3>5. Unit * (x + y) - (u + v) = (Unit * x - u) + (Unit * y - v)
      BY NetAdds
    <3>6. QED
      BY <3>1, <3>2, <3>3, <3>4, <3>5, Zenon
  <2>3. Equity(list, n) = Unit * st.pnl - st.fees /\ Net(t) = Unit * t.pnl - t.fee
    BY <1>3 DEF Net
  <2> HIDE DEF e
  <2>4. QED
    BY <2>2, <2>3
<1>6. /\ Equities(list) \in SUBSET Int /\ Falls(list) \in SUBSET Int /\ Pnls(list) \in SUBSET Int
  BY EquitiesTyped
<1> HIDE DEF next
<1>7. /\ Equities(all) = Equities(list) \cup {e} /\ e \in Int
      /\ Falls(all) = Falls(list) \cup {x - e : x \in Equities(list)} \cup {0}
      /\ Equity(all, n + 1) = e
  <2> HIDE DEF e
  <2>1. Equity(all, n + 1) = e
    BY <1>5, EquityAppend
  <2>2. QED
    BY <1>5, <2>1, FallsGrow
<1>8. Unit * next.pnl - next.fees = e
  BY <1>4
<1> HIDE DEF all, n, e
<1>9. Greatest(Equities(all), next.peak)
  <2>1. next.peak = IF e > st.peak THEN e ELSE st.peak
    BY <1>4
  <2>2. Greatest(Equities(list) \cup {e}, IF e > st.peak THEN e ELSE st.peak)
    BY <1>3, <1>6, <1>7, GreatestGrows
  <2>3. QED
    BY <1>7, <2>1, <2>2
<1>10. Greatest(Falls(all), next.drawdown)
  <2>1. st.peak \in Equities(list) /\ \A x \in Equities(list) : x \in Int /\ x - e <= st.peak - e
    BY <1>2, <1>3, <1>6, <1>7 DEF Greatest
  <2>2. st.drawdown \in Falls(list) /\ \A x \in Falls(list) : x \in Int /\ x <= st.drawdown
    BY <1>3, <1>6 DEF Greatest
  <2>3. next.drawdown = IF st.peak - e > st.drawdown THEN st.peak - e ELSE st.drawdown
    BY <1>4
  <2>4. next.drawdown \in Falls(all)
    BY <1>7, <2>1, <2>2, <2>3
  <2>5. ASSUME NEW x \in Falls(all) PROVE x <= next.drawdown
    <3>1. st.peak - e \in Int
      BY <1>2, <1>7
    <3>2. CASE x \in Falls(list)
      BY <1>2, <2>2, <2>3, <3>1, <3>2
    <3>3. CASE x \in {y - e : y \in Equities(list)}
      <4>1. x \in Int /\ x <= st.peak - e
        BY <1>7, <2>1, <3>3
      <4>2. QED
        BY <1>2, <2>3, <3>1, <4>1
    <3>4. CASE x = 0
      BY <1>2, <2>3, <3>1, <3>4
    <3>5. QED
      BY <1>7, <2>5, <3>2, <3>3, <3>4
  <2>6. QED
    BY <2>4, <2>5 DEF Greatest
<1>11. Pnls(all) = Pnls(list) \cup {t.pnl} /\ Cardinality(Wins(all)) = next.wins
  BY <1>3, <1>4, WinsGrow DEF all
<1>12. Greatest(Pnls(all), next.best) /\ Least(Pnls(all), next.worst)
  <2>1. CASE n = 0
    <3>1. Pnls(list) = {}
      BY <2>1 DEF Pnls, n
    <3>2. Pnls(all) = {t.pnl} /\ next.best = t.pnl /\ next.worst = t.pnl
      BY <1>3, <1>4, <1>11, <2>1, <3>1
    <3>3. QED
      BY <1>1, <3>2 DEF Greatest, Least
  <2>2. CASE n > 0
    <3>1. /\ next.best = IF t.pnl > st.best THEN t.pnl ELSE st.best
          /\ next.worst = IF t.pnl < st.worst THEN t.pnl ELSE st.worst
      BY <1>1, <1>3, <1>4, <2>2
    <3>2. QED
      BY <1>1, <1>3, <1>6, <1>11, <2>2, <3>1, GreatestGrows, LeastGrows
  <2>3. QED
    BY <1>1, <2>1, <2>2
<1>13. next.trades = Len(all)
  BY <1>1, <1>3, <1>4
<1>14. Unit * next.pnl - next.fees = Equity(all, Len(all))
  BY <1>1, <1>7, <1>8
<1>15. QED
  BY <1>9, <1>10, <1>11, <1>12, <1>13, <1>14 DEF StatsOf, all, next

-----------------------------------------------------------------------------
(* The books.                                                              *)

ClosedPosition == [market : Markets, size : Nat, pnl : Int]
\* A position is worth its entry price, and so is what was filled for it.
AtEntry(p) == p.cost = p.entry * p.size /\ p.fillTracker.cost = p.entry * p.fillTracker.size
EndsIn(closed, list) ==
  /\ Len(closed) = Smaller(MaxClosed, Len(list))
  /\ \A i \in 1..Len(closed) : closed[i].pnl = list[Len(list) - Len(closed) + i].pnl
BooksKept(a) ==
  /\ a.manager.accRealizedPnl = a.cash + notionals(a.manager.positions)
  /\ \A m \in Held(a.manager) : AtEntry(a.manager.positions[m])
  /\ EndsIn(a.manager.closed, a.trades)

LEMMA BooksAreKept ==
  ASSUME NEW M \in SUBSET Markets, NEW a \in Account(M), BooksKept(a)
  PROVE  BooksBalance(a)
<1>1. ASSUME NEW m \in Held(a.manager)
      PROVE  LET p == a.manager.positions[m]
             IN /\ p.size > 0 /\ p.cost = p.entry * p.size
                /\ p.fillTracker.cost * p.size = p.cost * p.fillTracker.size
  <2> DEFINE p == a.manager.positions[m]
  <2>1. p \in Position /\ AtEntry(p)
    BY <1>1 DEF Account, Manager, Held, BooksKept
  <2> HIDE DEF p
  <2>2. p.size \in Nat \ {0} /\ p.entry \in Nat /\ p.fillTracker.size \in Nat
    BY <2>1 DEF Position
  <2>3. p.cost = p.entry * p.size /\ p.fillTracker.cost = p.entry * p.fillTracker.size
    BY <2>1 DEF AtEntry
  <2>4. \A x, y, z \in Nat : (x * y) * z = (x * z) * y
    OBVIOUS
  <2>5. (p.entry * p.fillTracker.size) * p.size = (p.entry * p.size) * p.fillTracker.size
    BY <2>2, <2>4
  <2>6. QED
    BY <2>2, <2>3, <2>5 DEF p
<1>2. a.manager.closed \in Seq(ClosedPosition)
  BY DEF Account, Manager, ClosedPosition
<1>3. DOMAIN a.manager.closed = 1..Len(a.manager.closed)
  BY <1>2
<1>4. QED
  BY <1>1, <1>3 DEF BooksKept, BooksBalance, EndsIn

LEMMA EarlierEntry ==
  ASSUME NEW c \in Nat, NEW n \in Nat, NEW k \in Nat, k <= c + 1, c <= n,
         NEW i \in 1..k, i # k
  PROVE  /\ c + 1 - k + i \in 1..c /\ n + 1 - k + i \in 1..n
         /\ n - c + (c + 1 - k + i) = n + 1 - k + i
OBVIOUS

\* A position that is closed and its trade are the last of the two histories.
LEMMA HistoryGrows ==
  ASSUME NEW closed \in Seq(ClosedPosition), NEW list \in Seq(Trade), EndsIn(closed, list),
         NEW entry \in ClosedPosition, NEW t \in Trade, entry.pnl = t.pnl,
         NEW all, all = Append(closed, entry)
  PROVE  EndsIn(SubSeq(all, Larger(Len(all) - MaxClosed, 0) + 1, Len(all)), Append(list, t))
<1> DEFINE c == Len(closed)
           n == Len(list)
           k == Smaller(MaxClosed, c + 1)
           later == Append(list, t)
           recent == SubSeq(all, Larger(Len(all) - MaxClosed, 0) + 1, Len(all))
<1>1. /\ all \in Seq(ClosedPosition) /\ Len(all) = c + 1 /\ all[c + 1] = entry /\ c \in Nat
      /\ \A i \in 1..c : all[i] = closed[i]
  BY AppendProperties
<1>2. /\ Len(later) = n + 1 /\ later[n + 1] = t /\ n \in Nat
      /\ \A i \in 1..n : later[i] = list[i]
  BY AppendProperties
<1>3. c = Smaller(MaxClosed, n) /\ \A i \in 1..c : closed[i].pnl = list[n - c + i].pnl
  BY DEF EndsIn
<1> HIDE DEF c, n, later
<1>4. k \in Nat /\ k = Smaller(MaxClosed, n + 1) /\ k <= c + 1 /\ c <= n /\ MaxClosed \in Nat
  BY <1>1, <1>2, <1>3, ConfigurationAssumption DEF Smaller
<1> HIDE DEF k
<1>5. Len(recent) = k /\ \A i \in 1..k : recent[i] = all[Len(all) - k + i]
  <2>1. Smaller(MaxClosed, Len(all)) = k
    BY <1>1 DEF k
  <2>2. /\ Len(recent) = Smaller(MaxClosed, Len(all))
        /\ \A i \in 1..Smaller(MaxClosed, Len(all)) :
             recent[i] = all[Len(all) - Smaller(MaxClosed, Len(all)) + i]
    BY <1>1, EndOfHistory
  <2> HIDE DEF recent
  <2>3. QED
    BY <2>1, <2>2
<1> HIDE DEF recent
<1>6. ASSUME NEW i \in 1..k PROVE recent[i].pnl = later[n + 1 - k + i].pnl
  <2>1. CASE i = k
    <3>1. Len(all) - k + i = c + 1 /\ n + 1 - k + i = n + 1
      BY <1>1, <1>2, <1>4, <2>1
    <3>2. QED
      BY <1>1, <1>2, <1>5, <3>1
  <2>2. CASE i # k
    <3>1. /\ c + 1 - k + i \in 1..c /\ n + 1 - k + i \in 1..n
          /\ n - c + (c + 1 - k + i) = n + 1 - k + i
      <4>1. c \in Nat /\ n \in Nat /\ k \in Nat /\ k <= c + 1 /\ c <= n
        BY <1>1, <1>2, <1>4
      <4>2. QED
        BY <2>2, <4>1, EarlierEntry
    <3>2. recent[i].pnl = closed[c + 1 - k + i].pnl
      <4>1. Len(all) - k + i = c + 1 - k + i
        BY <1>1, <1>4
      <4>2. QED
        BY <1>1, <1>5, <3>1, <4>1
    <3>3. closed[c + 1 - k + i].pnl = list[n + 1 - k + i].pnl
      BY <1>3, <3>1
    <3>4. QED
      BY <1>2, <3>1, <3>2, <3>3
  <2>3. QED
    BY <2>1, <2>2
<1>7. EndsIn(recent, later)
  <2>1. Len(recent) = Smaller(MaxClosed, Len(later))
    BY <1>2, <1>4, <1>5
  <2>2. Len(later) = n + 1 /\ Len(recent) = k
    BY <1>2, <1>5
  <2>3. \A i \in 1..Len(recent) : recent[i].pnl = later[Len(later) - Len(recent) + i].pnl
    <3>1. n \in Int /\ k \in Int
      BY <1>2, <1>4
    <3>2. QED
      BY <1>6, <2>2, <3>1
  <2>4. QED
    BY <2>1, <2>3 DEF EndsIn
<1>8. QED
  BY <1>7 DEF recent, later

LEMMA SellKeepsBooks ==
  ASSUME NEW M \in SUBSET Markets, NEW a \in Account(M), BooksKept(a), NEW m \in M,
         NEW price \in Nat
  PROVE  BooksKept(sell(a, m, price))
<1> DEFINE b == a.manager
           p == b.positions[m]
           pnl == pnlTotal(p, price)
           fee == computeFee(FeeModel, p.cost, pnl)
           t == [pnl |-> pnl, fee |-> fee]
           entry == [market |-> m, size |-> p.size, pnl |-> pnl]
           all == Append(b.closed, entry)
           after == sell(a, m, price)
<1>1. /\ b.positions \in [M -> Position] /\ b.closed \in Seq(ClosedPosition)
      /\ b.accRealizedPnl \in Int /\ a.cash \in Int /\ a.trades \in Seq(Trade)
  BY DEF Account, Manager, ClosedPosition, Trade
<1>2. /\ p \in Position /\ p.size \in Nat /\ p.cost \in Nat /\ pnl = price * p.size - p.cost
      /\ pnl \in Int /\ fee \in Nat /\ price * p.size \in Nat
  <2>1. p \in Position
    BY <1>1
  <2>2. pnl = price * p.size - p.cost
    BY DEF pnlTotal
  <2> HIDE DEF p
  <2>3. p.size \in Nat /\ p.cost \in Nat
    BY <2>1 DEF Position
  <2>4. QED
    BY <2>1, <2>2, <2>3, ResultTyped
<1>3. Held(b) = M
  BY <1>1 DEF Held
<1>4. /\ after.manager.positions = Without(b, m)
      /\ after.manager.closed = SubSeq(all, Larger(Len(all) - MaxClosed, 0) + 1, Len(all))
      /\ after.manager.accRealizedPnl = b.accRealizedPnl + pnl
      /\ after.cash = a.cash + price * p.size /\ after.trades = Append(a.trades, t)
  BY <1>3 DEF sell, close
<1>5. /\ Without(b, m) \in [M \ {m} -> Position]
      /\ \A n \in M \ {m} : Without(b, m)[n] = b.positions[n]
  BY <1>1, <1>3 DEF Without
<1> HIDE DEF after
<1>6. /\ notionals(b.positions) = p.cost + notionals(Without(b, m))
      /\ notionals(b.positions) \in Int /\ notionals(Without(b, m)) \in Int
  <2>1. PICK P : P = b.positions
    OBVIOUS
  <2>2. PICK others : others = Without(b, m)
    OBVIOUS
  <2>3. PICK R : R = M \ {m}
    OBVIOUS
  <2>4. SplitsOff(P, m, others)
    <3> HIDE DEF b
    <3>1. P \in [M -> Position] /\ others \in [R -> Position] /\ \A n \in R : others[n] = P[n]
      BY <1>1, <1>5, <2>1, <2>2, <2>3
    <3>2. QED
      BY <2>3, <3>1, NotionalSplit
  <2>5. QED
    BY <2>1, <2>2, <2>4 DEF SplitsOff
<1>7. after.manager.accRealizedPnl = after.cash + notionals(after.manager.positions)
  <2>1. b.accRealizedPnl = a.cash + notionals(b.positions)
    BY DEF BooksKept
  <2>2. notionals(after.manager.positions) = notionals(Without(b, m))
    BY <1>4
  <2>3. after.manager.accRealizedPnl = b.accRealizedPnl + pnl /\ after.cash = a.cash + price * p.size
    BY <1>4
  <2>4. \A r, k, n, o, x, y \in Int : r = k + n /\ n = y + o => r + (x - y) = (k + x) + o
    OBVIOUS
  <2>5. a.cash \in Int /\ p.cost \in Int /\ price * p.size \in Int /\ b.accRealizedPnl \in Int
    BY <1>1, <1>2
  <2> HIDE DEF p, b
  <2>6. b.accRealizedPnl + (price * p.size - p.cost)
          = (a.cash + price * p.size) + notionals(Without(b, m))
    BY <1>6, <2>1, <2>4, <2>5
  <2> HIDE DEF pnl
  <2>7. QED
    BY <1>2, <2>2, <2>3, <2>6
<1>8. \A n \in Held(after.manager) : AtEntry(after.manager.positions[n])
  <2>1. Held(after.manager) = M \ {m}
    BY <1>4, <1>5 DEF Held
  <2>2. \A n \in M : AtEntry(b.positions[n])
    BY <1>3 DEF BooksKept
  <2>3. QED
    BY <1>4, <1>5, <2>1, <2>2
<1>9. EndsIn(after.manager.closed, after.trades)
  <2>1. EndsIn(b.closed, a.trades)
    BY DEF BooksKept
  <2>2. entry \in ClosedPosition /\ t \in Trade /\ entry.pnl = t.pnl
    BY <1>2 DEF ClosedPosition, Trade
  <2>3. all = Append(b.closed, entry)
    OBVIOUS
  <2> HIDE DEF all, entry, t, b
  <2>4. QED
    BY <1>1, <1>4, <2>1, <2>2, <2>3, HistoryGrows
<1>10. QED
  BY <1>7, <1>8, <1>9 DEF BooksKept, after

LEMMA EntryKeepsBooks ==
  ASSUME now \in Nat, NEW M \in SUBSET Markets, NEW a \in Account(M), BooksKept(a),
         NEW m \in Markets, NEW side \in Sides, NEW price \in Nat, NEW size \in Nat \ {0}
  PROVE  BooksKept(Entered(a, m, side, price, size))
<1> DEFINE b == a.manager
           p == SdkPosition(side, price, size, now)
           after == Entered(a, m, side, price, size)
           positions == [n \in M \cup {m} |-> IF n = m THEN p ELSE b.positions[n]]
<1>1. /\ b.positions \in [M -> Position] /\ b.accRealizedPnl \in Int /\ a.cash \in Int
      /\ Held(b) = M
  BY DEF Account, Manager, Held
<1>2. CASE m \in M
  <2>1. /\ after.manager = b /\ after.cash = a.cash /\ after.trades = a.trades
    BY <1>1, <1>2 DEF Entered, open
  <2> HIDE DEF after
  <2>2. BooksKept(after)
    BY <2>1 DEF BooksKept
  <2>3. QED
    BY <2>2 DEF after
<1>3. CASE m \notin M
  <2>1. /\ after.manager = [b EXCEPT !.positions = positions]
        /\ after.cash = a.cash - price * size /\ after.trades = a.trades
    BY <1>1, <1>3 DEF Entered, open
  <2>2. /\ after.manager.positions = positions /\ after.manager.closed = b.closed
        /\ after.manager.accRealizedPnl = b.accRealizedPnl
    <3>1. b \in Manager(M)
      BY DEF Account
    <3> HIDE DEF positions, after, b
    <3>2. QED
      BY <2>1, <3>1 DEF Manager
  <2>3. p \in Position /\ p.cost = price * size /\ AtEntry(p) /\ price * size \in Nat
    <3>1. price * size \in Nat
      OBVIOUS
    <3>2. QED
      BY <3>1 DEF SdkPosition, Position, addFill, EmptyBasis, AtEntry
  <2> HIDE DEF p, after
  <2>4. /\ positions \in [M \cup {m} -> Position] /\ positions[m] = p
        /\ \A n \in M : positions[n] = b.positions[n]
    BY <1>1, <1>3, <2>3
  <2> HIDE DEF positions
  <2>5. /\ notionals(positions) = p.cost + notionals(b.positions)
        /\ notionals(positions) \in Int /\ notionals(b.positions) \in Int
    <3>1. PICK N : N = M \cup {m}
      OBVIOUS
    <3>2. N \in SUBSET Markets /\ m \in N /\ N \ {m} = M
      BY <1>3, <3>1
    <3>3. PICK P : P = positions
      OBVIOUS
    <3>4. PICK others : others = b.positions
      OBVIOUS
    <3>5. SplitsOff(P, m, others)
      <4> HIDE DEF b
      <4>1. /\ P \in [N -> Position] /\ others \in [M -> Position] /\ M = N \ {m}
            /\ \A n \in M : others[n] = P[n]
        BY <1>1, <2>4, <3>1, <3>2, <3>3, <3>4
      <4>2. QED
        BY <3>2, <4>1, NotionalSplit
    <3>6. QED
      BY <2>4, <3>3, <3>4, <3>5 DEF SplitsOff
  <2>6. after.manager.accRealizedPnl = after.cash + notionals(after.manager.positions)
    <3>1. b.accRealizedPnl = a.cash + notionals(b.positions)
      BY DEF BooksKept
    <3> HIDE DEF b
    <3>2. QED
      BY <1>1, <2>1, <2>2, <2>3, <2>5, <3>1
  <2>7. \A n \in Held(after.manager) : AtEntry(after.manager.positions[n])
    <3>1. Held(after.manager) = M \cup {m}
      BY <2>2, <2>4 DEF Held
    <3>2. \A n \in M : AtEntry(b.positions[n])
      BY <1>1 DEF BooksKept
    <3>3. QED
      BY <2>2, <2>3, <2>4, <3>1, <3>2
  <2>8. BooksKept(after)
    BY <2>1, <2>2, <2>6, <2>7 DEF BooksKept
  <2>9. QED
    BY <2>8 DEF after
<1>4. QED
  BY <1>2, <1>3

\* What the owner's reduction does to the books.
Reduced(a, m, size, price) ==
  [manager |-> reduce(a.manager, m, size, price), stats |-> a.stats,
   cash |-> a.cash + price * size, trades |-> a.trades]

LEMMA ReduceKeepsBooks ==
  ASSUME NEW M \in SUBSET Markets, NEW a \in Account(M), BooksKept(a), NEW m \in M,
         NEW size \in Nat \ {0}, size <= a.manager.positions[m].size, NEW price \in Nat
  PROVE  BooksKept(Reduced(a, m, size, price))
<1> DEFINE b == a.manager
           old == b.positions[m]
           p == tryReduce(old, size, price)
           positions == IF p.size = 0 THEN Without(b, m) ELSE [b.positions EXCEPT ![m] = p]
           after == Reduced(a, m, size, price)
<1>1. /\ b.positions \in [M -> Position] /\ b.accRealizedPnl \in Int /\ a.cash \in Int
      /\ Held(b) = M /\ old \in Position
  BY DEF Account, Manager, Held
<1>2. old.size \in Nat /\ old.entry \in Nat /\ old.realized \in Int
  BY <1>1 DEF Position
<1>3. /\ after.manager.positions = positions /\ after.manager.closed = b.closed
      /\ after.manager.accRealizedPnl = b.accRealizedPnl + p.realized - old.realized
      /\ after.cash = a.cash + price * size /\ after.trades = a.trades
  <2>1. b \in Manager(M)
    BY DEF Account
  <2>2. reduce(b, m, size, price)
          = [b EXCEPT !.positions = positions, !.accRealizedPnl = @ + p.realized - old.realized]
    BY <1>1, <1>2 DEF reduce
  <2>3. /\ after.manager = reduce(b, m, size, price)
        /\ after.cash = a.cash + price * size /\ after.trades = a.trades
    BY DEF Reduced
  <2> HIDE DEF positions, p, old, b, after
  <2>4. QED
    BY <2>1, <2>2, <2>3 DEF Manager
<1> HIDE DEF old, after
<1>4. p = [old EXCEPT !.size = old.size - size, !.cost = old.entry * (old.size - size),
                      !.realized = old.realized + (price - old.entry) * size]
  BY DEF tryReduce
<1>5. old.size - size \in Nat
  BY <1>2 DEF old
<1>6. old.cost = old.entry * old.size /\ old.fillTracker.cost = old.entry * old.fillTracker.size
  <2>1. AtEntry(old)
    BY <1>1 DEF BooksKept, old
  <2>2. QED
    BY <2>1 DEF AtEntry
<1>7. /\ p.size = old.size - size /\ p.cost = old.entry * (old.size - size)
      /\ p.realized = old.realized + (price - old.entry) * size
      /\ p.entry = old.entry /\ p.fillTracker = old.fillTracker
      /\ p.size # 0 => p \in Position
  <2>1. /\ old.entry * (old.size - size) \in Nat
        /\ old.realized + (price - old.entry) * size \in Int
    BY <1>2, <1>5
  <2>2. QED
    BY <1>1, <1>4, <1>5, <2>1 DEF Position
<1> HIDE DEF p
<1>8. PICK gain \in Int : gain = (price - old.entry) * size
  BY <1>2
<1>9. PICK cost \in Int : cost = old.entry * (old.size - size)
  BY <1>2, <1>5
<1>10. PICK paid \in Int : paid = price * size
  OBVIOUS
<1>11. old.cost = cost + (paid - gain)
  <2>1. \A e, s, z, x \in Int : e * s = e * (s - z) + (x * z - (x - e) * z)
    OBVIOUS
  <2>2. old.entry * old.size
          = old.entry * (old.size - size) + (price * size - (price - old.entry) * size)
    BY <1>2, <2>1
  <2>3. QED
    BY <1>6, <1>8, <1>9, <1>10, <2>2
<1>12. after.manager.accRealizedPnl = b.accRealizedPnl + gain
  <2>1. after.manager.accRealizedPnl = b.accRealizedPnl + (old.realized + gain) - old.realized
    BY <1>3, <1>7, <1>8
  <2> HIDE DEF b
  <2>2. QED
    BY <1>1, <1>2, <2>1
<1>13. PICK others : others = Without(b, m)
  OBVIOUS
<1>14. PICK R : R = M \ {m}
  OBVIOUS
<1>15. others \in [R -> Position] /\ \A n \in R : others[n] = b.positions[n]
  BY <1>1, <1>13, <1>14 DEF Without
<1>16. notionals(b.positions) = old.cost + notionals(others) /\ notionals(others) \in Int
  <2>1. PICK P : P = b.positions
    OBVIOUS
  <2>2. SplitsOff(P, m, others)
    <3> HIDE DEF b
    <3>1. P \in [M -> Position] /\ \A n \in R : others[n] = P[n]
      BY <1>1, <1>15, <2>1
    <3>2. QED
      BY <1>14, <1>15, <3>1, NotionalSplit
  <2>3. QED
    BY <2>1, <2>2 DEF SplitsOff, old
<1>17. notionals(positions) = cost + notionals(others)
  <2>1. CASE p.size = 0
    <3>1. cost = 0 /\ positions = others
      <4>1. old.entry * 0 = 0
        BY <1>2
      <4>2. QED
        BY <1>7, <1>9, <1>13, <2>1, <4>1
    <3> HIDE DEF positions
    <3>2. QED
      BY <1>16, <3>1
  <2>2. CASE p.size # 0
    <3>1. PICK P : P = positions
      OBVIOUS
    <3>2. P \in [M -> Position] /\ P[m] = p /\ \A n \in R : others[n] = P[n]
      BY <1>1, <1>7, <1>14, <1>15, <2>2, <3>1
    <3>3. SplitsOff(P, m, others)
      BY <1>14, <1>15, <3>2, NotionalSplit
    <3> HIDE DEF positions
    <3>4. QED
      BY <1>7, <1>9, <3>1, <3>2, <3>3 DEF SplitsOff
  <2>3. QED
    BY <2>1, <2>2
<1>18. \A n \in DOMAIN positions : AtEntry(positions[n])
  <2>1. \A n \in M : AtEntry(b.positions[n])
    BY <1>1 DEF BooksKept
  <2>2. CASE p.size = 0
    <3>1. positions = others
      BY <1>13, <2>2
    <3> HIDE DEF positions
    <3>2. QED
      BY <1>14, <1>15, <2>1, <3>1
  <2>3. CASE p.size # 0
    <3>1. AtEntry(p)
      BY <1>6, <1>7 DEF AtEntry
    <3>2. /\ DOMAIN positions = M
          /\ \A n \in M : positions[n] = IF n = m THEN p ELSE b.positions[n]
      BY <1>1, <2>3
    <3> HIDE DEF positions
    <3>3. QED
      BY <2>1, <3>1, <3>2
  <2>4. QED
    BY <2>2, <2>3
<1>19. after.manager.accRealizedPnl = after.cash + notionals(after.manager.positions)
  <2>1. b.accRealizedPnl = a.cash + notionals(b.positions)
    BY DEF BooksKept
  <2>2. \A r, k, g, x, y, o \in Int : r = k + ((y + (x - g)) + o) => r + g = (k + x) + (y + o)
    OBVIOUS
  <2>3. after.cash = a.cash + paid /\ notionals(after.manager.positions) = cost + notionals(others)
    BY <1>3, <1>10, <1>17
  <2> HIDE DEF b
  <2>4. b.accRealizedPnl + gain = (a.cash + paid) + (cost + notionals(others))
    BY <1>1, <1>11, <1>16, <2>1, <2>2
  <2>5. QED
    BY <1>12, <2>3, <2>4
<1>20. BooksKept(after)
  <2>1. EndsIn(after.manager.closed, after.trades)
    BY <1>3 DEF BooksKept
  <2>2. QED
    BY <1>3, <1>18, <1>19, <2>1 DEF BooksKept, Held
<1>21. QED
  BY <1>20 DEF after

-----------------------------------------------------------------------------
(* The ledger.                                                             *)

\* The inductive invariant: the peak, and the entry price of each position.
LedgerKept(a) == BooksKept(a) /\ StatsOf(a.trades, a.stats)

LEMMA SellKeepsLedger ==
  ASSUME NEW M \in SUBSET Markets, NEW a \in Account(M), LedgerKept(a), NEW m \in M,
         NEW price \in Nat
  PROVE  LedgerKept(sell(a, m, price))
<1> DEFINE p == a.manager.positions[m]
           pnl == pnlTotal(p, price)
           fee == computeFee(FeeModel, p.cost, pnl)
           t == [pnl |-> pnl, fee |-> fee]
<1>1. p \in Position /\ a.stats \in Statistics /\ a.trades \in Seq(Trade)
  BY DEF Account, Manager, Trade
<1>2. /\ sell(a, m, price).stats = handlePositionClosed(a.stats, pnl, fee)
      /\ sell(a, m, price).trades = Append(a.trades, t)
  BY DEF sell
<1>3. t \in Trade /\ t.pnl = pnl /\ t.fee = fee
  <2> HIDE DEF p
  <2>1. pnl \in Int /\ fee \in Nat
    BY <1>1, ResultTyped
  <2>2. QED
    BY <2>1 DEF Trade
<1> HIDE DEF t, pnl, fee, p
<1>4. StatsOf(Append(a.trades, t), handlePositionClosed(a.stats, t.pnl, t.fee))
  <2>1. StatsOf(a.trades, a.stats)
    BY DEF LedgerKept
  <2>2. QED
    BY <1>1, <1>3, <2>1, StatsGrow
<1>5. BooksKept(sell(a, m, price))
  BY SellKeepsBooks DEF LedgerKept
<1>6. QED
  BY <1>2, <1>3, <1>4, <1>5 DEF LedgerKept

LEMMA LedgerInit ==
  Init => LedgerKept(Accounts)
<1> SUFFICES ASSUME Init PROVE LedgerKept(Accounts)
  OBVIOUS
<1>1. /\ Accounts.manager = create /\ Accounts.cash = 0 /\ Accounts.trades = <<>>
      /\ Accounts.stats = NoStats
  BY DEF Init, Accounts
<1>2. create.accRealizedPnl = 0 /\ DOMAIN create.positions = {} /\ create.closed = <<>>
  BY DEF create
<1>3. notionals(create.positions) = 0
  BY <1>2, NotionalOfNone
<1>4. EndsIn(<<>>, <<>>)
  BY ConfigurationAssumption DEF EndsIn, Smaller
<1>5. QED
  BY <1>1, <1>2, <1>3, <1>4, StatsStart DEF LedgerKept, BooksKept, Held

LEMMA LedgerStep ==
  TradingTypeOK /\ LedgerKept(Accounts) /\ [Next]_vars => LedgerKept(Accounts)'
<1> SUFFICES ASSUME TradingTypeOK, LedgerKept(Accounts), [Next]_vars
             PROVE  LedgerKept(Accounts')
  OBVIOUS
<1>1. PICK M \in SUBSET Markets : Accounts \in Account(M)
  BY DEF TradingTypeOK
<1>2. Held(manager) = M /\ now \in Nat
  BY <1>1 DEF TradingTypeOK, Accounts, Account, Manager, Held
<1>3. ASSUME NEW m \in Markets, NEW reading \in Readings, Tick(m, reading)
      PROVE  LedgerKept(Accounts')
  <2> DEFINE K == [N \in SUBSET Markets |-> {a \in Account(N) : LedgerKept(a)}]
  <2>1. \A N \in SUBSET Markets : \A a : a \in K[N] <=> a \in Account(N) /\ LedgerKept(a)
    OBVIOUS
  <2> HIDE DEF K
  <2>2. Accounts \in K[Held(manager)]
    BY <1>1, <1>2, <2>1
  <2>3. ASSUME NEW N \in SUBSET Markets, NEW a \in K[N], NEW n \in N, NEW price \in Nat
        PROVE  sell(a, n, price) \in K[N \ {n}]
    <3>1. a \in Account(N) /\ LedgerKept(a) /\ N \ {n} \in SUBSET Markets
      BY <2>1
    <3>2. sell(a, n, price) \in Account(N \ {n}) /\ LedgerKept(sell(a, n, price))
      BY <3>1, SellTyped, SellKeepsLedger
    <3>3. QED
      BY <2>1, <3>1, <3>2
  <2>4. ASSUME NEW N \in SUBSET Markets, NEW a \in K[N], NEW side \in Sides, NEW price \in Nat,
               NEW size \in Nat \ {0}
        PROVE  Entered(a, m, side, price, size) \in K[N \cup {m}]
    <3>1. a \in Account(N) /\ LedgerKept(a) /\ N \cup {m} \in SUBSET Markets
      BY <2>1
    <3>2. Entered(a, m, side, price, size) \in Account(N \cup {m})
      BY <1>2, <3>1, EnteredTyped
    <3>3. BooksKept(Entered(a, m, side, price, size))
      BY <1>2, <3>1, EntryKeepsBooks DEF LedgerKept
    <3>4. LedgerKept(Entered(a, m, side, price, size))
      BY <3>1, <3>3 DEF LedgerKept, Entered
    <3>5. QED
      BY <2>1, <3>1, <3>2, <3>4
  <2>5. \A N \in SUBSET Markets : K[N] \subseteq Account(N)
    BY <2>1
  <2>6. \E N \in SUBSET Markets : Accounts' \in K[N]
    BY <1>3, <2>2, <2>3, <2>4, <2>5, TickKeeps
  <2>7. QED
    BY <2>1, <2>6
<1>4. ASSUME NEW m \in Markets, NEW size \in ReduceSizes, Reduce(m, size)
      PROVE  LedgerKept(Accounts')
  <2> DEFINE p == manager.positions[m]
             price == books[m][p.side].bid
  <2>1. m \in M /\ size \in Nat \ {0} /\ size <= p.size
    BY <1>2, <1>4, ConfigurationAssumption DEF Reduce
  <2>2. p \in Position /\ books[m] \in Quotation
    BY <1>1, <2>1, MarketAssumption DEF TradingTypeOK, Accounts, Account, Manager
  <2>3. price \in Nat
    BY <2>2 DEF Position, Quotation
  <2>4. Accounts' = Reduced(Accounts, m, size, price)
    <3>1. /\ manager' = reduce(manager, m, size, price) /\ cash' = cash + price * size
          /\ UNCHANGED <<stats, unbooked, trades>>
      BY <1>4 DEF Reduce
    <3>2. price * size \in Int /\ cash \in Int /\ unbooked \in Int
      BY <2>1, <2>3 DEF TradingTypeOK
    <3> HIDE DEF price
    <3>3. cash' + unbooked' = (cash + unbooked) + price * size
      BY <3>1, <3>2
    <3>4. QED
      BY <3>1, <3>3 DEF Accounts, Reduced
  <2>5. Accounts.manager.positions[m] = p /\ Accounts.trades = trades /\ Accounts.stats = stats
    BY DEF Accounts
  <2> HIDE DEF price, p
  <2>6. BooksKept(Reduced(Accounts, m, size, price))
    BY <1>1, <2>1, <2>3, <2>5, ReduceKeepsBooks DEF LedgerKept
  <2>7. /\ Reduced(Accounts, m, size, price).trades = trades
        /\ Reduced(Accounts, m, size, price).stats = stats
    BY <2>5 DEF Reduced
  <2>8. QED
    BY <2>4, <2>5, <2>6, <2>7 DEF LedgerKept
<1>5. ASSUME UNCHANGED tradeVars PROVE LedgerKept(Accounts')
  <2>1. Accounts' = Accounts
    BY <1>5 DEF tradeVars, Accounts
  <2>2. QED
    BY <2>1
<1>6. QED
  BY <1>3, <1>4, <1>5 DEF Next, Pass, Quote, Operator, vars

\* Money, positions, history and statistics always tell the same story, whatever is
\* opened, reduced, closed or refused, and in whatever order: what was realized is the
\* cash and the cost of the fills no book took, less the cost of what is held, and the
\* drawdown is the deepest fall of the equity.  (PositionManager, SdkPosition.tryReduce
\* and the statistics.)
THEOREM LedgerIsKept ==
  Spec => []LedgerAgrees
<1>1. Spec => []TradingTypeOK
  BY TradingTypeCorrect
<1>2. TradingTypeOK /\ LedgerKept(Accounts) => LedgerAgrees
  <2> SUFFICES ASSUME TradingTypeOK, LedgerKept(Accounts) PROVE LedgerAgrees
    OBVIOUS
  <2>1. PICK M \in SUBSET Markets : Accounts \in Account(M)
    BY DEF TradingTypeOK
  <2>2. BooksBalance(Accounts)
    BY <2>1, BooksAreKept DEF LedgerKept
  <2>3. Accounts.trades \in Seq(Trade)
    BY <2>1 DEF Account, Trade
  <2>4. StatsMatchTrades(Accounts)
    BY <2>3, StatsMatch DEF LedgerKept
  <2>5. QED
    BY <2>2, <2>4 DEF LedgerAgrees
<1>3. QED
  BY <1>1, <1>2, LedgerInit, LedgerStep, PTL DEF Spec
=============================================================================
