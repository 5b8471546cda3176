-------------------------- MODULE BotTradingProofs --------------------------
(***************************************************************************)
(* Proofs about BotTrading for every set of markets, every feed and any    *)
(* number of trades: the sweep of the main thread and the exits of the     *)
(* WebSocket thread never sell a size that is not the position's, the      *)
(* account is overdrawn by one fee at most, and its cash, its profit and   *)
(* its positions balance.                                                  *)
(***************************************************************************)
EXTENDS BotTrading, FiniteSetTheorems, TLAPS

\* The shape of the state, as far as the argument needs it.
Shape ==
  /\ positions = [m \in Market |-> positions[m]]
  /\ net \in [Market -> Int]
  /\ phase \in [Market -> 0 .. 3]
  /\ order = [market |-> order.market, shares |-> order.shares, price |-> order.price]
  /\ order.market \in Market
  /\ expired \subseteq Market
  /\ tracked \subseteq Market

\* Between a decision to buy and the buy, the market has no position, and the
\* sweep is not about to close it.
PendingBuyIsNew ==
  wpc = "buy" => /\ ~ HasPosition(order.market)
                 /\ order.market \notin expired
                 /\ order.shares \in Int

\* The sweep closes markets in their grace period only.
SweepIsLate ==
  /\ \A m \in expired : Expiring(m)
  /\ mpc # "sweep" => expired = {}

\* The inductive invariant.
TradeInv ==
  /\ Shape
  /\ PendingBuyIsNew
  /\ SweepIsLate
  /\ PendingSellsMatch
  /\ SharesBalance

\* The bot starts without positions, orders or a sweep.
LEMMA InitEstablishesTradeInv == Init => TradeInv
  <1> SUFFICES ASSUME Init PROVE TradeInv
    OBVIOUS
  <1>1. (CHOOSE m \in Market : TRUE) \in Market
    BY MarketAssumption
  <1>2. Shape
    BY <1>1 DEF Init, Shape, Far
  <1>3. PendingBuyIsNew /\ SweepIsLate /\ PendingSellsMatch
    BY DEF Init, PendingBuyIsNew, SweepIsLate, PendingSellsMatch
  <1>4. SharesBalance
    BY DEF Init, SharesBalance, None
  <1> QED
    BY <1>2, <1>3, <1>4 DEF TradeInv

\* A sell of the size that the position has, if there is one, keeps what the
\* other thread relies on and the balance of the shares.
LEMMA SellKeepsBalance ==
  ASSUME Shape, SharesBalance,
         NEW k \in Market, NEW shares, NEW price,
         HasPosition(k) => shares = positions[k].shares,
         Sell(k, shares, price)
  PROVE  /\ positions' = [m \in Market |-> positions'[m]]
         /\ net' \in [Market -> Int]
         /\ \A m \in Market : positions'[m] = positions[m] \/ positions'[m] = None
         /\ \A m \in Market : net'[m] = positions'[m].shares
  <1>1. CASE HasPosition(k)
    <2>1. /\ positions' = [positions EXCEPT ![k] = None]
          /\ net' = [net EXCEPT ![k] = @ - shares]
      BY <1>1 DEF Sell
    <2>2. positions' = [m \in Market |-> IF m = k THEN None ELSE positions[m]]
      BY <2>1 DEF Shape
    <2>3. net[k] = shares /\ shares \in Int
      BY <1>1 DEF SharesBalance, Shape
    <2>4. net' = [m \in Market |-> IF m = k THEN 0 ELSE net[m]]
      <3>1. net' = [m \in Market |-> IF m = k THEN net[k] - shares ELSE net[m]]
        BY <2>1 DEF Shape
      <3>2. net[k] - shares = 0
        BY <2>3
      <3> QED
        BY <3>1, <3>2
    <2>5. \A m \in Market : net'[m] = positions'[m].shares
      BY <2>2, <2>4 DEF SharesBalance, None
    <2> QED
      BY <2>2, <2>4, <2>5 DEF Shape
  <1>2. CASE ~ HasPosition(k)
    BY <1>2 DEF Sell, gatewayVars, Shape, SharesBalance
  <1> QED
    BY <1>1, <1>2

\* OrderGateway::buy opens a position where there was none, so the shares
\* still add up and no pending sell or sweep is about that market.
LEMMA PlaceBuyKeepsTradeInv == TradeInv /\ PlaceBuy => TradeInv'
  <1> SUFFICES ASSUME TradeInv, PlaceBuy PROVE TradeInv'
    OBVIOUS
  <1> USE DEF TradeInv
  <1> DEFINE k == order.market
             n == order.shares
  <1>1. /\ wpc = "buy" /\ wpc' = "idle"
        /\ UNCHANGED <<bookVars, order, mainVars>>
        /\ positions' = [positions EXCEPT ![k] =
             [shares |-> n, price |-> order.price, fee |-> n * BuyFee[order.price]]]
        /\ net' = [net EXCEPT ![k] = @ + n]
    BY DEF PlaceBuy, Buy
  <1>2. k \in Market /\ k \notin expired /\ ~ HasPosition(k) /\ n \in Int
    BY <1>1 DEF Shape, PendingBuyIsNew
  <1>3. net[k] = 0
    BY <1>2 DEF SharesBalance, HasPosition, None
  <1>4. net' = [m \in Market |-> IF m = k THEN n ELSE net[m]]
    <2>1. net' = [m \in Market |-> IF m = k THEN net[k] + n ELSE net[m]]
      BY <1>1 DEF Shape
    <2>2. net[k] + n = n
      BY <1>2, <1>3
    <2> HIDE DEF k, n
    <2> QED
      BY <2>1, <2>2
  <1>5. positions' = [m \in Market |-> IF m = k
           THEN [shares |-> n, price |-> order.price, fee |-> n * BuyFee[order.price]]
           ELSE positions[m]]
    BY <1>1 DEF Shape
  <1>6. Shape'
    BY <1>1, <1>2, <1>4, <1>5 DEF Shape, bookVars, mainVars
  <1>7. SharesBalance'
    BY <1>4, <1>5 DEF SharesBalance, Shape
  <1>8. PendingBuyIsNew' /\ SweepIsLate'
    BY <1>1 DEF PendingBuyIsNew, SweepIsLate, Expiring, bookVars, mainVars
  <1>9. \A m \in expired : positions'[m] = positions[m]
    BY <1>2, <1>5 DEF Shape
  <1>10. PendingSellsMatch'
    BY <1>1, <1>9 DEF PendingSellsMatch, HasPosition, mainVars
  <1> QED
    BY <1>6, <1>7, <1>8, <1>10

\* on_tick decides to buy only far from the end of the market, so no sweep
\* has the market in its list.
LEMMA DecideBuyKeepsTradeInv == TradeInv /\ DecideBuy => TradeInv'
  <1> SUFFICES ASSUME TradeInv, DecideBuy PROVE TradeInv'
    OBVIOUS
  <1> USE DEF TradeInv
  <1>1. /\ wpc = "evaluate" /\ wpc' = "buy"
        /\ UNCHANGED <<bookVars, gatewayVars, mainVars>>
        /\ ~ HasPosition(order.market) /\ ~ TooSoon(order.market)
    BY DEF DecideBuy, WantsToBuy
  <1>2. PICK n \in KellySizes(book[order.market].no.ask) :
          order' = [order EXCEPT !.shares = n, !.price = book[order.market].no.ask]
    BY DEF DecideBuy
  <1>3. n \in Int
    BY DEF KellySizes
  <1>4. /\ order' = [market |-> order'.market, shares |-> order'.shares,
                     price |-> order'.price]
        /\ order'.market = order.market
        /\ order'.shares = n
    BY <1>2 DEF Shape
  <1>5. order.market \notin expired
    BY <1>1 DEF SweepIsLate, Expiring, TooSoon, InGrace, Near, Shape
  <1>6. PendingBuyIsNew'
    BY <1>1, <1>3, <1>4, <1>5 DEF PendingBuyIsNew, HasPosition, gatewayVars, mainVars
  <1>7. Shape'
    BY <1>1, <1>4 DEF Shape, bookVars, gatewayVars, mainVars
  <1>8. PendingSellsMatch' /\ SharesBalance' /\ SweepIsLate'
    BY <1>1 DEF PendingSellsMatch, SharesBalance, SweepIsLate, HasPosition, Expiring,
                bookVars, gatewayVars, mainVars
  <1> QED
    BY <1>6, <1>7, <1>8

\* The other steps of the WebSocket thread up to its sell.
LEMMA QuietWSKeepsTradeInv ==
  TradeInv /\ (Tick \/ DecideSell \/ DecideNothing \/ LookUp) => TradeInv'
  <1> SUFFICES ASSUME TradeInv, Tick \/ DecideSell \/ DecideNothing \/ LookUp
               PROVE TradeInv'
    OBVIOUS
  <1> USE DEF TradeInv
  <1>1. UNCHANGED <<tracked, phase, gatewayVars, mainVars>>
    BY DEF Tick, DecideSell, DecideNothing, LookUp, bookVars
  <1>2. wpc' # "buy"
    BY DEF Tick, DecideSell, DecideNothing, LookUp
  <1>3. wpc' = "sell" =>
          order'.market = order.market /\ order'.shares = positions[order.market].shares
    <2>1. SUFFICES ASSUME wpc' = "sell"
                   PROVE  /\ order'.market = order.market
                          /\ order'.shares = positions[order.market].shares
      OBVIOUS
    <2>2. LookUp
      BY <2>1 DEF Tick, DecideSell, DecideNothing
    <2>3. order' = [order EXCEPT !.shares = positions[order.market].shares]
      BY <2>2 DEF LookUp
    <2> QED
      BY <2>3 DEF Shape
  <1>4. /\ order' = [market |-> order'.market, shares |-> order'.shares,
                     price |-> order'.price]
        /\ order'.market \in Market
    <2>1. CASE Tick
      <3>1. PICK m \in tracked : order' = [market |-> m, shares |-> 0, price |-> 0]
        BY <2>1 DEF Tick
      <3>2. m \in Market
        BY DEF Shape
      <3> QED
        BY <3>1, <3>2
    <2>2. CASE DecideSell
      BY <2>2 DEF DecideSell, Shape
    <2>3. CASE DecideNothing
      BY <2>3 DEF DecideNothing, Shape
    <2>4. CASE LookUp
      BY <2>4 DEF LookUp, Shape
    <2> QED
      BY <2>1, <2>2, <2>3, <2>4
  <1>5. Shape'
    BY <1>1, <1>4 DEF Shape, gatewayVars, mainVars
  <1>6. PendingBuyIsNew' /\ SweepIsLate' /\ SharesBalance'
    BY <1>1, <1>2 DEF PendingBuyIsNew, SweepIsLate, SharesBalance, Expiring,
                      gatewayVars, mainVars
  <1>7. PendingSellsMatch'
    BY <1>1, <1>3 DEF PendingSellsMatch, HasPosition, gatewayVars, mainVars
  <1> QED
    BY <1>5, <1>6, <1>7

\* The exit of the WebSocket thread sells the size it looked up, which the
\* sweep may have sold already.
LEMMA PlaceSellKeepsTradeInv == TradeInv /\ PlaceSell => TradeInv'
  <1> SUFFICES ASSUME TradeInv, PlaceSell PROVE TradeInv'
    OBVIOUS
  <1> USE DEF TradeInv
  <1>1. /\ wpc = "sell" /\ wpc' = "idle"
        /\ Sell(order.market, order.shares, order.price)
        /\ UNCHANGED <<bookVars, order, mainVars>>
    BY DEF PlaceSell
  <1>2. HasPosition(order.market) => order.shares = positions[order.market].shares
    BY <1>1 DEF PendingSellsMatch
  <1>3. order.market \in Market
    BY DEF Shape
  <1>4. /\ positions' = [m \in Market |-> positions'[m]]
        /\ net' \in [Market -> Int]
        /\ \A m \in Market : positions'[m] = positions[m] \/ positions'[m] = None
        /\ \A m \in Market : net'[m] = positions'[m].shares
    BY <1>1, <1>2, <1>3, SellKeepsBalance
  <1>5. Shape' /\ SharesBalance'
    BY <1>1, <1>4 DEF Shape, SharesBalance, bookVars, mainVars
  <1>6. PendingBuyIsNew' /\ SweepIsLate'
    BY <1>1 DEF PendingBuyIsNew, SweepIsLate, Expiring, bookVars, mainVars
  <1>7. PendingSellsMatch'
    BY <1>1, <1>4 DEF PendingSellsMatch, Shape, HasPosition, mainVars
  <1> QED
    BY <1>5, <1>6, <1>7

\* The sweep picks positions in their grace period; the other thread may close
\* them before the sweep does, but it opens no position in such a market.
LEMMA SweepKeepsTradeInv == TradeInv /\ SweepSteps => TradeInv'
  <1> SUFFICES ASSUME TradeInv, SweepSteps PROVE TradeInv'
    OBVIOUS
  <1> USE DEF TradeInv
  <1>1. CASE SweepStarts
    <2>1. /\ snapshot' = positions
          /\ expired' = {m \in Market : HasPosition(m) /\ Expiring(m)}
          /\ mpc' = "sweep"
          /\ UNCHANGED <<running, bookVars, gatewayVars, wsVars>>
      BY <1>1 DEF SweepStarts
    <2>2. PendingBuyIsNew'
      BY <2>1 DEF PendingBuyIsNew, HasPosition, gatewayVars, wsVars
    <2>3. Shape' /\ SharesBalance' /\ SweepIsLate'
      BY <2>1 DEF Shape, SharesBalance, SweepIsLate, Expiring,
                  bookVars, gatewayVars, wsVars
    <2>4. PendingSellsMatch'
      BY <2>1 DEF PendingSellsMatch, HasPosition, gatewayVars, wsVars
    <2> QED
      BY <2>2, <2>3, <2>4
  <1>2. CASE SweepSells
    <2>1. PICK k \in expired :
            /\ Sell(k, snapshot[k].shares, SweepPrice(k))
            /\ expired' = expired \ {k}
      BY <1>2 DEF SweepSells
    <2>2. /\ mpc = "sweep" /\ mpc' = "sweep"
          /\ UNCHANGED <<running, snapshot, bookVars, wsVars>>
      BY <1>2 DEF SweepSells
    <2>3. k \in Market /\ (HasPosition(k) => snapshot[k].shares = positions[k].shares)
      BY <2>1, <2>2 DEF Shape, PendingSellsMatch
    <2>4. /\ positions' = [m \in Market |-> positions'[m]]
          /\ net' \in [Market -> Int]
          /\ \A m \in Market : positions'[m] = positions[m] \/ positions'[m] = None
          /\ \A m \in Market : net'[m] = positions'[m].shares
      BY <2>1, <2>3, SellKeepsBalance
    <2>5. Shape' /\ SharesBalance'
      BY <2>1, <2>2, <2>4 DEF Shape, SharesBalance, bookVars, wsVars
    <2>6. PendingBuyIsNew'
      BY <2>1, <2>2, <2>4 DEF PendingBuyIsNew, Shape, HasPosition, wsVars
    <2>7. SweepIsLate'
      BY <2>1, <2>2 DEF SweepIsLate, Expiring, bookVars
    <2>8. PendingSellsMatch'
      BY <2>1, <2>2, <2>4 DEF PendingSellsMatch, Shape, HasPosition, wsVars
    <2> QED
      BY <2>5, <2>6, <2>7, <2>8
  <1>3. CASE SweepEnds
    BY <1>3 DEF SweepEnds, Shape, SharesBalance, PendingBuyIsNew, SweepIsLate,
                PendingSellsMatch, HasPosition, Expiring, bookVars, gatewayVars, wsVars
  <1>4. CASE Stop
    BY <1>4 DEF Stop, Shape, SharesBalance, PendingBuyIsNew, SweepIsLate,
                PendingSellsMatch, HasPosition, Expiring, bookVars, gatewayVars, wsVars
  <1> QED
    BY <1>1, <1>2, <1>3, <1>4 DEF SweepSteps

\* Time only moves a market further into its grace period.
LEMMA EnvironmentKeepsTradeInv ==
  TradeInv /\ (Discover \/ Signal \/ TimePasses \/ UNCHANGED vars) => TradeInv'
  <1> SUFFICES ASSUME TradeInv, Discover \/ Signal \/ TimePasses \/ UNCHANGED vars
               PROVE TradeInv'
    OBVIOUS
  <1> USE DEF TradeInv
  <1>1. UNCHANGED <<gatewayVars, wsVars, mpc, snapshot, expired>>
    BY DEF Discover, Signal, TimePasses, vars, mainVars
  <1>2. /\ phase' \in [Market -> 0 .. 3]
        /\ \A m \in Market : Expiring(m) => Expiring(m)'
    <2>1. CASE TimePasses
      <3>1. PICK k \in Market : phase[k] < Ended /\ phase' = [phase EXCEPT ![k] = @ + 1]
        BY <2>1 DEF TimePasses
      <3>2. phase[k] \in 0 .. 3
        BY DEF Shape
      <3>3. phase[k] + 1 \in 0 .. 3
        BY <3>1, <3>2 DEF Ended
      <3>4. phase' = [m \in Market |-> IF m = k THEN phase[k] + 1 ELSE phase[m]]
        BY <3>1 DEF Shape
      <3>5. phase' \in [Market -> 0 .. 3]
        BY <3>3, <3>4 DEF Shape
      <3>6. \A m \in Market : Expiring(m) => Expiring(m)'
        BY <3>2, <3>4 DEF Expiring, InGrace
      <3> QED
        BY <3>5, <3>6
    <2>2. CASE UNCHANGED phase
      BY <2>2 DEF Expiring, Shape
    <2> QED
      BY <2>1, <2>2 DEF Discover, Signal, vars, bookVars
  <1>3. tracked' \subseteq Market
    <2>1. CASE Discover
      BY <2>1 DEF Discover, Shape
    <2> QED
      BY <2>1 DEF Signal, TimePasses, vars, bookVars, Shape
  <1>4. Shape' /\ SharesBalance'
    BY <1>1, <1>2, <1>3 DEF Shape, SharesBalance, gatewayVars, wsVars
  <1>5. PendingBuyIsNew' /\ PendingSellsMatch'
    BY <1>1 DEF PendingBuyIsNew, PendingSellsMatch, HasPosition, gatewayVars, wsVars
  <1>6. SweepIsLate'
    BY <1>1, <1>2 DEF SweepIsLate, Shape
  <1> QED
    BY <1>4, <1>5, <1>6

\* Every step of either thread, of the signal and of the clock keeps the
\* inductive invariant.
LEMMA NextKeepsTradeInv == TradeInv /\ [Next]_vars => TradeInv'
  BY PlaceBuyKeepsTradeInv, DecideBuyKeepsTradeInv, QuietWSKeepsTradeInv,
     PlaceSellKeepsTradeInv, SweepKeepsTradeInv, EnvironmentKeepsTradeInv
     DEF Next, WSThread, Stopped

\* The bot never leaves the states in which the pending orders fit the open
\* positions (StrategyEngine.hpp:44-168, OrderGateway.cpp:81-172).
THEOREM TradeInvariant == Spec => []TradeInv
  BY InitEstablishesTradeInv, NextKeepsTradeInv, PTL DEF Spec

\* A size that either thread read before the other sold is the size of the
\* position, if there still is one: MIN_REMAINING_S and EXPIRY_GRACE_S keep the
\* entries and the sweep apart (StrategyEngine.hpp:87-92, 125-168).
THEOREM SellsMatch == Spec => []PendingSellsMatch
  <1>1. TradeInv => PendingSellsMatch
    BY DEF TradeInv
  <1> QED
    BY <1>1, TradeInvariant, PTL

\* The open position of every market is what was bought less what was sold:
\* the race of the two threads for a sell credits it once
\* (OrderGateway.cpp:135-141).
THEOREM SharesBalanced == Spec => []SharesBalance
  <1>1. TradeInv => SharesBalance
    BY DEF TradeInv
  <1> QED
    BY <1>1, TradeInvariant, PTL

-----------------------------------------------------------------------------
(* The account: what every step leaves it *)

Fill == [shares : Nat, price : Nat, fee : Nat]

\* dynamic_fee_rate is never negative.
FeesAreNumbers == \A p \in Nat : BuyFee[p] \in Nat /\ SellFee[p] \in Nat

\* The types of what the account is computed from.
CashShape ==
  /\ positions \in [Market -> Fill]
  /\ snapshot \in [Market -> Fill]
  /\ expired \subseteq Market
  /\ book \in [Market -> [yes : Quote \union {NoQuote}, no : Quote \union {NoQuote}]]
  /\ order \in [market : Market, shares : Nat, price : Nat]
  /\ tracked \subseteq Market
  /\ capital \in Int
  /\ realised \in Int

\* What a leg shows is a number, and an ask that counts comes from the feed.
LEMMA LegsAreQuotes ==
  ASSUME CashShape, NEW m \in Market
  PROVE  /\ book[m].no.bid \in Nat /\ book[m].no.ask \in Nat
         /\ Valid(book[m].no) => \E q \in Quote : q.ask = book[m].no.ask
<1>1. book[m].no \in Quote \union {NoQuote}
  BY DEF CashShape
<1> QED BY <1>1, QuoteAssumption DEF Valid, NoQuote

\* A sell: nothing without a position, and otherwise the proceeds less the fee.
LEMMA SellFills ==
  ASSUME FeesAreNumbers, CashShape, NEW m \in Market, NEW shares \in Nat, NEW price \in Nat,
         Sell(m, shares, price)
  PROVE  /\ \/ ~ HasPosition(m) /\ UNCHANGED <<capital, realised, positions>>
            \/ /\ HasPosition(m)
               /\ capital' = capital + (shares * price - shares * SellFee[price])
               /\ realised' = realised + shares * price - shares * positions[m].price
                                - shares * SellFee[price] - positions[m].fee
               /\ positions' = [positions EXCEPT ![m] = None]
         /\ capital' \in Int /\ realised' \in Int
         /\ positions' \in [Market -> Fill]
<1>1. capital \in Int /\ realised \in Int /\ positions \in [Market -> Fill]
  BY DEF CashShape
<1>2. CASE HasPosition(m)
  <2>1. /\ capital' = capital + (shares * price - shares * SellFee[price])
        /\ realised' = realised + shares * price - shares * positions[m].price
                         - shares * SellFee[price] - positions[m].fee
        /\ positions' = [positions EXCEPT ![m] = None]
    BY <1>2 DEF Sell
  <2>2. /\ shares * price \in Nat /\ shares * SellFee[price] \in Nat
        /\ shares * positions[m].price \in Nat /\ positions[m].fee \in Nat
    <3>1. positions[m].price \in Nat /\ positions[m].fee \in Nat /\ SellFee[price] \in Nat
      BY <1>1 DEF Fill, FeesAreNumbers
    <3> QED BY <3>1
  <2>3. None \in Fill
    BY DEF None, Fill
  <2>4. capital' \in Int /\ realised' \in Int
    BY <1>1, <2>1, <2>2
  <2>5. positions' \in [Market -> Fill]
    BY <1>1, <2>1, <2>3
  <2> QED BY <1>2, <2>1, <2>4, <2>5
<1>3. CASE ~ HasPosition(m)
  BY <1>1, <1>3 DEF Sell, gatewayVars
<1> QED BY <1>2, <1>3

\* A buy: the price and the fee of every share.
LEMMA BuyFills ==
  ASSUME FeesAreNumbers, CashShape, PlaceBuy
  PROVE  LET n == order.shares
             p == order.price
             f == BuyFee[p]
         IN  /\ n \in Nat /\ p \in Nat /\ f \in Nat
             /\ n * p \in Nat /\ n * f \in Nat
             /\ capital' = capital - (n * p + n * f)
             /\ positions' = [positions EXCEPT ![order.market] =
                                [shares |-> n, price |-> p, fee |-> n * f]]
             /\ UNCHANGED realised
             /\ capital' \in Int /\ positions' \in [Market -> Fill]
<1> DEFINE n == order.shares
           p == order.price
           f == BuyFee[p]
<1>1. /\ capital' = capital - (n * p + n * f)
      /\ positions' = [positions EXCEPT ![order.market] =
                         [shares |-> n, price |-> p, fee |-> n * f]]
      /\ UNCHANGED realised
  BY DEF PlaceBuy, Buy
<1>2. capital \in Int /\ n \in Nat /\ p \in Nat
  BY DEF CashShape
<1>3. f \in Nat
  BY <1>2 DEF FeesAreNumbers
<1>4. n * p \in Nat /\ n * f \in Nat
  BY <1>2, <1>3
<1>5. positions' \in [Market -> Fill]
  BY <1>1, <1>2, <1>4 DEF CashShape, Fill
<1>6. capital' \in Int
  <2> HIDE DEF n, p, f
  <2> QED BY <1>1, <1>2, <1>4
<1> QED BY <1>1, <1>2, <1>3, <1>4, <1>5, <1>6

\* The steps that move no money.
LEMMA OthersMoveNoMoney ==
  ASSUME [Next]_vars, ~ PlaceBuy, ~ PlaceSell, ~ SweepSells
  PROVE  UNCHANGED <<capital, realised, positions>>
BY DEF Next, WSThread, Tick, DecideBuy, DecideSell, DecideNothing, LookUp, SweepSteps,
       SweepStarts, SweepEnds, Stop, Discover, Signal, TimePasses, Stopped, vars, gatewayVars

\* The sweep sells at a price that is a number.
LEMMA SweepOrders ==
  ASSUME CashShape, NEW m \in expired
  PROVE  m \in Market /\ snapshot[m].shares \in Nat /\ SweepPrice(m) \in Nat
<1>1. m \in Market /\ snapshot[m].shares \in Nat /\ snapshot[m].price \in Nat
  BY DEF CashShape, Fill
<1> QED BY <1>1, LegsAreQuotes DEF SweepPrice

\* The gateway starts with its capital and nothing else.
LEMMA CashShapeInit == Init => CashShape
<1> SUFFICES ASSUME Init PROVE CashShape
  OBVIOUS
<1>1. (CHOOSE m \in Market : TRUE) \in Market
  BY MarketAssumption
<1>2. None \in Fill
  BY DEF None, Fill
<1>3. order \in [market : Market, shares : Nat, price : Nat]
  BY <1>1 DEF Init
<1>4. capital \in Nat
  BY CapitalAssumption DEF Init
<1> QED BY <1>2, <1>3, <1>4 DEF Init, CashShape

\* What DecideBuy makes the order: some shares, which the capital can pay for.
LEMMA DecidedBuy ==
  ASSUME CashShape, DecideBuy
  PROVE  /\ order' \in [market : Market, shares : Nat, price : Nat]
         /\ \E q \in Quote : q.ask = order'.price
         /\ order'.price <= capital
         /\ order'.shares = 1 \/ order'.shares * order'.price * MaxPart <= capital
<1> DEFINE ask == book[order.market].no.ask
<1>1. order.market \in Market /\ order \in [market : Market, shares : Nat, price : Nat]
  BY DEF CashShape
<1>2. PICK n \in KellySizes(ask) : order' = [order EXCEPT !.shares = n, !.price = ask]
  BY DEF DecideBuy
<1>3. Valid(book[order.market].no) /\ capital >= ask
  BY DEF DecideBuy, WantsToBuy
<1>4. /\ n \in Nat
      /\ ask \in Nat
      /\ n = 1 \/ n * ask * MaxPart <= capital
      /\ \E q \in Quote : q.ask = ask
  BY <1>1, <1>2, <1>3, LegsAreQuotes, CapitalAssumption DEF KellySizes
<1> HIDE DEF ask
<1>5. order' = [market |-> order.market, shares |-> n, price |-> ask]
  BY <1>1, <1>2
<1>6. ask <= capital
  BY <1>3, <1>4 DEF CashShape
<1> QED BY <1>1, <1>4, <1>5, <1>6

\* Quantities stay numbers: no step makes a size or a fee negative.
LEMMA NextKeepsCashShape ==
  ASSUME FeesAreNumbers, CashShape, [Next]_vars
  PROVE  CashShape'
<1>1. order.market \in Market /\ order \in [market : Market, shares : Nat, price : Nat]
  BY DEF CashShape
<1>2. CASE PlaceBuy
  <2>1. UNCHANGED <<tracked, book, order, snapshot, expired, realised>>
    BY <1>2 DEF PlaceBuy, Buy, bookVars, mainVars
  <2>2. capital' \in Int /\ positions' \in [Market -> Fill]
    BY <1>2, BuyFills
  <2> QED BY <2>1, <2>2 DEF CashShape
<1>3. CASE PlaceSell
  <2>1. /\ UNCHANGED <<tracked, book, order, snapshot, expired>>
        /\ Sell(order.market, order.shares, order.price)
    BY <1>3 DEF PlaceSell, bookVars, mainVars
  <2>2. capital' \in Int /\ realised' \in Int /\ positions' \in [Market -> Fill]
    BY <1>1, <2>1, SellFills
  <2> QED BY <2>1, <2>2 DEF CashShape
<1>4. CASE SweepSells
  <2>1. PICK m \in expired : /\ Sell(m, snapshot[m].shares, SweepPrice(m))
                             /\ expired' = expired \ {m}
    BY <1>4 DEF SweepSells
  <2>2. UNCHANGED <<tracked, book, order, snapshot>>
    BY <1>4 DEF SweepSells, bookVars, wsVars
  <2>3. capital' \in Int /\ realised' \in Int /\ positions' \in [Market -> Fill]
    BY <2>1, SweepOrders, SellFills
  <2> QED BY <2>1, <2>2, <2>3 DEF CashShape
<1>5. CASE Tick
  <2>1. PICK m \in tracked, leg \in {"yes", "no"}, q \in Quote :
          /\ book' = [book EXCEPT ![m] = [@ EXCEPT ![leg] = q]]
          /\ order' = [market |-> m, shares |-> 0, price |-> 0]
    BY <1>5 DEF Tick
  <2>2. /\ m \in Market
        /\ UNCHANGED <<tracked, capital, realised, positions, snapshot, expired>>
    BY <1>5, <2>1 DEF Tick, CashShape, gatewayVars, mainVars
  <2>3. book' \in [Market -> [yes : Quote \union {NoQuote}, no : Quote \union {NoQuote}]]
    BY <2>1, <2>2 DEF CashShape
  <2>4. order' \in [market : Market, shares : Nat, price : Nat]
    BY <2>1, <2>2
  <2> QED BY <2>2, <2>3, <2>4 DEF CashShape
<1>6. CASE DecideBuy
  <2>1. UNCHANGED <<tracked, book, capital, realised, positions, snapshot, expired>>
    BY <1>6 DEF DecideBuy, bookVars, gatewayVars, mainVars
  <2> QED BY <1>6, <2>1, DecidedBuy DEF CashShape
<1>7. CASE DecideSell \/ DecideNothing \/ LookUp
  <2>1. UNCHANGED <<tracked, book, capital, realised, positions, snapshot, expired>>
    BY <1>7 DEF DecideSell, DecideNothing, LookUp, bookVars, gatewayVars, mainVars
  <2>2. book[order.market].no.bid \in Nat /\ positions[order.market].shares \in Nat
    BY <1>1, LegsAreQuotes DEF CashShape, Fill
  <2>3. order' \in [market : Market, shares : Nat, price : Nat]
    BY <1>1, <1>7, <2>2 DEF DecideSell, DecideNothing, LookUp
  <2> QED BY <2>1, <2>3 DEF CashShape
<1>8. CASE \/ SweepStarts \/ SweepEnds \/ Stop \/ Discover \/ Signal \/ TimePasses
           \/ Stopped \/ UNCHANGED vars
  <2>1. /\ UNCHANGED <<book, order, capital, realised, positions>>
        /\ tracked' \subseteq Market /\ expired' \subseteq Market
        /\ snapshot' \in {snapshot, positions, [m \in Market |-> None]}
    BY <1>8 DEF SweepStarts, SweepEnds, Stop, Discover, Signal, TimePasses, Stopped, vars,
                bookVars, gatewayVars, wsVars, mainVars, CashShape
  <2>2. snapshot' \in [Market -> Fill]
    BY <2>1 DEF CashShape, None, Fill
  <2> QED BY <2>1, <2>2 DEF CashShape
<1> QED
  BY <1>2, <1>3, <1>4, <1>5, <1>6, <1>7, <1>8 DEF Next, WSThread, SweepSteps

-----------------------------------------------------------------------------
(* The account: its floor *)

\* A fee is a part of the price, and a position at most half of the capital:
\* with dynamic_fee_rate and KELLY_MAX_PCT both hold by a wide margin.
SmallParts ==
  /\ MaxPart >= 2
  /\ \A p \in Nat : BuyFee[p] \in 0 .. p /\ SellFee[p] \in 0 .. p

\* A buy that is decided is one share that the capital pays for, or a part of the
\* capital; the sweep can only have added to the capital since.
BuyIsCovered ==
  wpc = "buy" =>
    /\ \E q \in Quote : q.ask = order.price
    /\ order.price <= capital
    /\ order.shares = 1 \/ order.shares * order.price * MaxPart <= capital

\* The inductive invariant of the floor.
CashInv == CashShape /\ BuyIsCovered /\ CapitalFloor

\* Of equally many, the cheaper cost no more.
LEMMA PartOf ==
  ASSUME NEW n \in Nat, NEW a \in Nat, NEW b \in Nat, a <= b
  PROVE  n * a \in Nat /\ n * b \in Nat /\ n * a <= n * b
<1>1. PICK d \in Nat : b = a + d
  <2>1. b - a \in Nat /\ b = a + (b - a)
    OBVIOUS
  <2> QED BY <2>1
<1>2. n * b = n * a + n * d /\ n * a \in Nat /\ n * d \in Nat
  BY <1>1
<1> QED BY <1>2

\* A fee that is a part of the price is a number.
LEMMA SmallPartsAreNumbers == SmallParts => FeesAreNumbers
BY DEF SmallParts, FeesAreNumbers

\* A sell never takes from the account.
LEMMA SellAdds ==
  ASSUME SmallParts, CashShape, NEW m \in Market, NEW shares \in Nat, NEW price \in Nat,
         Sell(m, shares, price)
  PROVE  capital' >= capital
<1>1. capital \in Int
  BY DEF CashShape
<1>2. /\ shares * price \in Nat /\ shares * SellFee[price] \in Nat
      /\ shares * SellFee[price] <= shares * price
  <2>1. SellFee[price] \in Nat /\ SellFee[price] <= price
    BY DEF SmallParts
  <2> QED BY <2>1, PartOf
<1>3. \/ capital' = capital
      \/ capital' = capital + (shares * price - shares * SellFee[price])
  BY SellFills, SmallPartsAreNumbers
<1> QED BY <1>1, <1>2, <1>3

\* A buy overdraws the account by the fee of one share at most.
LEMMA BuyIsPaid ==
  ASSUME SmallParts, CashInv, PlaceBuy
  PROVE  CapitalFloor'
<1> DEFINE n == order.shares
           p == order.price
           f == BuyFee[p]
<1>1. /\ n \in Nat /\ p \in Nat /\ f \in Nat
      /\ n * p \in Nat /\ n * f \in Nat
      /\ capital' = capital - (n * p + n * f)
  BY BuyFills, SmallPartsAreNumbers DEF CashInv
<1>2. capital \in Int /\ MaxPart \in Nat /\ MaxPart >= 2
  BY CapitalAssumption DEF CashInv, CashShape, SmallParts
<1>3. f <= p
  BY <1>1 DEF SmallParts
<1>4. n * f <= n * p
  BY <1>1, <1>3, PartOf
<1>5. \/ n = 1 /\ p <= capital /\ \E q \in Quote : q.ask = p
      \/ n * p * MaxPart <= capital
  BY DEF CashInv, BuyIsCovered, PlaceBuy
<1>6. CASE n = 1 /\ p <= capital /\ \E q \in Quote : q.ask = p
  <2>1. PICK q \in Quote : q.ask = p
    BY <1>6
  <2>2. 1 * p = p /\ 1 * f = f
    BY <1>1
  <2>3. capital' = capital - (p + f)
    BY <1>1, <1>6, <2>2
  <2> HIDE DEF n, p
  <2>4. capital' + f >= 0
    BY <1>1, <1>2, <1>6, <2>3
  <2>5. BuyFee[q.ask] = f
    BY <2>1
  <2> QED BY <2>4, <2>5 DEF CapitalFloor
<1>7. CASE n * p * MaxPart <= capital
  <2>1. PICK x \in Nat : x = n * p
    BY <1>1
  <2>2. x * 2 <= x * MaxPart /\ x * MaxPart \in Nat
    BY <1>2, <2>1, PartOf
  <2>3. x * 2 = x + x
    BY <2>1
  <2>4. x + x <= capital
    BY <1>2, <1>7, <2>1, <2>2, <2>3
  <2>5. capital' >= 0
    <3> HIDE DEF n, p, f
    <3> QED BY <1>1, <1>2, <1>4, <2>1, <2>4
  <2> QED BY <2>5 DEF CapitalFloor
<1> QED BY <1>5, <1>6, <1>7

\* More capital covers what less capital covered.
LEMMA MoreCapital ==
  ASSUME SmallParts, CashInv, capital' \in Int, capital' >= capital, UNCHANGED <<wpc, order>>
  PROVE  BuyIsCovered' /\ CapitalFloor'
<1>1. CapitalFloor'
  <2>1. \A q \in Quote : BuyFee[q.ask] \in Nat
    BY QuoteAssumption DEF SmallParts
  <2> QED BY <2>1 DEF CashInv, CashShape, CapitalFloor
<1>2. BuyIsCovered'
  <2> SUFFICES ASSUME wpc = "buy"  PROVE BuyIsCovered'
    BY DEF BuyIsCovered
  <2>1. PICK x \in Int : x = order.shares * order.price * MaxPart
    BY CapitalAssumption DEF CashInv, CashShape
  <2>2. capital \in Int /\ order.price \in Nat
    BY DEF CashInv, CashShape
  <2>3. order.shares = 1 \/ x <= capital
    BY <2>1 DEF CashInv, BuyIsCovered
  <2> QED BY <2>1, <2>2, <2>3 DEF CashInv, BuyIsCovered
<1> QED BY <1>1, <1>2

\* The floor holds over every step.
LEMMA NextKeepsCashInv ==
  ASSUME SmallParts, CashInv, [Next]_vars
  PROVE  CashInv'
<1>1. CashShape'
  BY NextKeepsCashShape, SmallPartsAreNumbers DEF CashInv
<1>2. capital \in Int /\ capital' \in Int
  BY <1>1 DEF CashInv, CashShape
<1>3. CASE PlaceBuy
  BY <1>1, <1>3, BuyIsPaid DEF CashInv, BuyIsCovered, PlaceBuy
<1>4. CASE PlaceSell
  <2>1. /\ wpc' = "idle" /\ order.market \in Market
        /\ order.shares \in Nat /\ order.price \in Nat
        /\ Sell(order.market, order.shares, order.price)
    BY <1>4 DEF PlaceSell, CashInv, CashShape
  <2>2. capital' >= capital
    BY <2>1, SellAdds DEF CashInv
  <2>3. CapitalFloor'
    <3>1. \A q \in Quote : BuyFee[q.ask] \in Nat
      BY QuoteAssumption DEF SmallParts
    <3> QED BY <1>2, <2>2, <3>1 DEF CashInv, CapitalFloor
  <2> QED BY <1>1, <2>1, <2>3 DEF CashInv, BuyIsCovered
<1>5. CASE SweepSells
  <2>1. PICK m \in expired : Sell(m, snapshot[m].shares, SweepPrice(m))
    BY <1>5 DEF SweepSells
  <2>2. UNCHANGED <<wpc, order>>
    BY <1>5 DEF SweepSells, wsVars
  <2>3. capital' >= capital
    BY <2>1, SweepOrders, SellAdds DEF CashInv
  <2> QED BY <1>1, <1>2, <2>2, <2>3, MoreCapital DEF CashInv
<1>6. CASE DecideBuy
  <2>1. UNCHANGED capital
    BY <1>6 DEF DecideBuy, gatewayVars
  <2>2. BuyIsCovered'
    BY <1>6, <2>1, DecidedBuy DEF CashInv, BuyIsCovered
  <2> QED BY <1>1, <2>1, <2>2 DEF CashInv, CapitalFloor
<1>7. CASE ~ PlaceBuy /\ ~ PlaceSell /\ ~ SweepSells /\ ~ DecideBuy
  <2>1. UNCHANGED capital
    BY <1>7, OthersMoveNoMoney
  <2>2. wpc' = "buy" => UNCHANGED <<wpc, order>>
    BY <1>7 DEF Next, WSThread, Tick, DecideSell, DecideNothing, LookUp, SweepSteps,
                SweepStarts, SweepEnds, Stop, Discover, Signal, TimePasses, Stopped, vars,
                wsVars
  <2> QED BY <1>1, <2>1, <2>2 DEF CashInv, BuyIsCovered, CapitalFloor
<1> QED BY <1>3, <1>4, <1>5, <1>6, <1>7

\* Whatever the feed, the entries and the sweep do, and however many positions
\* are open: the account is overdrawn by the fee of one share at most, although
\* on_tick reads the capital before the buy and does not count the fee
\* (StrategyEngine.hpp:71-84).
THEOREM AccountHasAFloor ==
  ASSUME SmallParts
  PROVE  Spec => []CapitalFloor
<1>1. Init => CashInv
  <2>1. Init => capital >= 0 /\ wpc # "buy"
    BY CapitalAssumption DEF Init
  <2> QED BY <2>1, CashShapeInit DEF CashInv, BuyIsCovered, CapitalFloor
<1>2. CashInv /\ [Next]_vars => CashInv'
  BY NextKeepsCashInv
<1>3. CashInv => CapitalFloor
  BY DEF CashInv
<1> QED BY <1>1, <1>2, <1>3, PTL DEF Spec

-----------------------------------------------------------------------------
(* The account: its balance.  Invested is a sum over the markets, by a fold  *)
(* that takes them in some order.  The laws of such a sum come by induction  *)
(* over the sets of markets, in its form without an operator: among sets     *)
(* that violate a law there is a smallest one.                               *)

\* The order in which the fold takes the markets.
Choice(S) == CHOOSE x \in S : TRUE

\* One step of the fold.
SumStep(g, h, S) == IF S = {} THEN 0 ELSE h[Choice(S)] + g[S \ {Choice(S)}]

\* g[S] is the sum of what h counts for the markets of S.
IsSum(g, h) == g = [S \in SUBSET Market |-> SumStep(g, h, S)]

\* What a position has cost.
Held(p) == [m \in Market |-> p[m].shares * p[m].price + p[m].fee]

\* What the fold takes next is one of the markets that are left.
LEMMA ChoiceIsIn ==
  ASSUME NEW S \in SUBSET Market, S # {}
  PROVE  Choice(S) \in S /\ Choice(S) \in Market /\ S \ {Choice(S)} \in SUBSET Market
BY DEF Choice

\* Induction over the numbers: a set of counterexamples has a least one.
LEMMA LeastNumber ==
  ASSUME NEW B \in SUBSET Nat, B # {}
  PROVE  \E m \in B : \A k \in B : m <= k
<1> DEFINE R == OpToRel(<, Nat)
<1>1. PICK m \in B : \A k \in B : ~ (<<k, m>> \in R)
  BY NatLessThanWellFounded, WFMin
<1>2. \A k \in B : ~ (k < m)
  BY <1>1 DEF OpToRel
<1> QED BY <1>2

\* Induction over sets of markets: a set of counterexamples has a smallest one.
LEMMA SmallestSet ==
  ASSUME NEW B \in SUBSET (SUBSET Market), B # {}
  PROVE  \E S \in B : \A T \in SUBSET S : T # S => T \notin B
<1>1. B \subseteq FiniteSubsetsOf(Market)
  BY FS_FiniteSubsetsOfFinite, MarketAssumption
<1>2. IsWellFoundedOn(StrictSubsetOrdering(Market), FiniteSubsetsOf(Market))
  BY FS_StrictSubsetOrderingWellFounded
<1>3. PICK S \in B : \A T \in B : ~ (<<T, S>> \in StrictSubsetOrdering(Market))
  BY <1>1, <1>2, WFMin
<1>4. ASSUME NEW T \in SUBSET S, T # S, T \in B PROVE FALSE
  BY <1>3, <1>4 DEF StrictSubsetOrdering
<1> QED BY <1>4

\* The recursion of the fold has a solution.  By induction on n there is a function
\* that solves it on all sets of up to n markets.
LEMMA SumExists ==
  ASSUME NEW h
  PROVE  \E g : IsSum(g, h)
<1> DEFINE Upto(n, g) == \A S \in SUBSET Market :
                           Cardinality(S) <= n => g[S] = SumStep(g, h, S)
           Good(n) == \E g : g = [S \in SUBSET Market |-> g[S]] /\ Upto(n, g)
           B == {n \in Nat : ~ Good(n)}
           top == Cardinality(Market)
<1>1. \A S \in SUBSET Market : IsFiniteSet(S) /\ Cardinality(S) \in Nat /\ Cardinality(S) <= top
  BY FS_Subset, FS_CardinalityType, MarketAssumption
<1>2. Good(0)
  <2> DEFINE g == [S \in SUBSET Market |-> 0]
  <2>1. \A S \in SUBSET Market : Cardinality(S) <= 0 => S = {}
    BY <1>1, FS_EmptySet
  <2>2. Upto(0, g)
    BY <2>1 DEF SumStep
  <2>3. g = [S \in SUBSET Market |-> g[S]]
    OBVIOUS
  <2> HIDE DEF g, Upto
  <2> QED BY <2>2, <2>3
<1>3. ASSUME NEW n \in Nat, Good(n) PROVE Good(n + 1)
  <2>1. PICK g : g = [S \in SUBSET Market |-> g[S]] /\ Upto(n, g)
    BY <1>3
  <2> DEFINE f == [S \in SUBSET Market |-> IF Cardinality(S) <= n THEN g[S]
                                                                  ELSE SumStep(g, h, S)]
  <2>2. ASSUME NEW S \in SUBSET Market, Cardinality(S) <= n + 1
        PROVE  f[S] = SumStep(f, h, S)
    <3>1. f[S] = SumStep(g, h, S)
      BY <2>1
    <3>2. CASE S = {}
      BY <3>1, <3>2 DEF SumStep
    <3>3. CASE S # {}
      <4> DEFINE R == S \ {Choice(S)}
      <4>1. Choice(S) \in S /\ R \in SUBSET Market
        BY <3>3, ChoiceIsIn
      <4>2. Cardinality(R) = Cardinality(S) - 1
        BY <1>1, <4>1, FS_RemoveElement
      <4>3. Cardinality(R) <= n
        BY <1>1, <2>2, <4>2
      <4>4. f[R] = g[R]
        BY <4>1, <4>3
      <4> HIDE DEF f
      <4> QED BY <3>1, <3>3, <4>4 DEF SumStep
    <3> QED BY <3>2, <3>3
  <2>3. f = [S \in SUBSET Market |-> f[S]]
    OBVIOUS
  <2> HIDE DEF f
  <2>4. Upto(n + 1, f)
    BY <2>2
  <2> HIDE DEF Upto
  <2> QED BY <2>3, <2>4
<1> HIDE DEF Good
<1>4. B = {}
  <2> SUFFICES ASSUME B # {} PROVE FALSE
    OBVIOUS
  <2>1. PICK m \in B : \A k \in B : m <= k
    BY LeastNumber
  <2>2. m \in Nat /\ m # 0
    BY <1>2
  <2>3. m - 1 \in Nat /\ ~ (m <= m - 1)
    BY <2>2
  <2>4. Good(m - 1)
    BY <2>1, <2>3
  <2>5. m - 1 + 1 = m
    BY <2>2
  <2>6. Good(m)
    BY <1>3, <2>3, <2>4, <2>5
  <2> QED BY <2>6
<1>5. Good(top)
  <2>1. top \in Nat
    BY <1>1
  <2> HIDE DEF top
  <2> QED BY <1>4, <2>1
<1>6. PICK g : g = [S \in SUBSET Market |-> g[S]] /\ Upto(top, g)
  BY <1>5 DEF Good
<1>7. \A S \in SUBSET Market : g[S] = SumStep(g, h, S)
  BY <1>1, <1>6
<1> HIDE DEF Upto
<1>8. IsSum(g, h)
  BY <1>6, <1>7 DEF IsSum
<1> QED BY <1>8

\* Two sums over markets of which all but k count the same differ by what k counts.
LEMMA SumsDiffer ==
  ASSUME NEW f, NEW h, NEW g, NEW i,
         IsSum(f, h), IsSum(g, i), NEW k \in Market,
         h \in [Market -> Int], i \in [Market -> Int],
         \A m \in Market : m # k => i[m] = h[m]
  PROVE  f[Market] \in Int /\ g[Market] = f[Market] + (i[k] - h[k])
<1> DEFINE Good(S) == /\ f[S] \in Int
                      /\ g[S] = f[S] + (IF k \in S THEN i[k] - h[k] ELSE 0)
           B == {S \in SUBSET Market : ~ Good(S)}
<1>1. \A S \in SUBSET Market : f[S] = SumStep(f, h, S) /\ g[S] = SumStep(g, i, S)
  BY DEF IsSum
<1>2. ASSUME NEW S \in SUBSET Market, \A T \in SUBSET S : T # S => Good(T)
      PROVE  Good(S)
  <2>1. CASE S = {}
    <3>1. f[S] = 0 /\ g[S] = 0 /\ k \notin S
      BY <1>1, <2>1 DEF SumStep
    <3> QED BY <3>1
  <2>2. CASE S # {}
    <3> DEFINE x == Choice(S)
               R == S \ {x}
    <3>1. x \in S /\ x \in Market /\ R \in SUBSET S /\ R # S
      BY <2>2, ChoiceIsIn
    <3>2. Good(R)
      BY <1>2, <3>1
    <3>3. f[S] = h[x] + f[R] /\ g[S] = i[x] + g[R]
      BY <1>1, <2>2 DEF SumStep
    <3>4. h[x] \in Int /\ i[x] \in Int /\ h[k] \in Int /\ i[k] \in Int
      BY <3>1
    <3>5. k \in S <=> k = x \/ k \in R
      BY <3>1
    <3>6. k = x => k \notin R
      OBVIOUS
    <3> HIDE DEF x, R
    <3> QED BY <3>1, <3>2, <3>3, <3>4, <3>5, <3>6
  <2> QED BY <2>1, <2>2
<1> HIDE DEF Good
<1>3. B = {}
  <2> SUFFICES ASSUME B # {} PROVE FALSE
    OBVIOUS
  <2>1. PICK S \in B : \A T \in SUBSET S : T # S => T \notin B
    BY SmallestSet
  <2> QED BY <1>2, <2>1
<1>4. Good(Market)
  BY <1>3
<1> QED BY <1>4 DEF Good

\* Markets that all count nothing sum up to nothing.
LEMMA SumOfNothing ==
  ASSUME NEW g, NEW h, IsSum(g, h), \A m \in Market : h[m] = 0
  PROVE  g[Market] = 0
<1> DEFINE B == {S \in SUBSET Market : g[S] # 0}
<1>1. B = {}
  <2> SUFFICES ASSUME B # {} PROVE FALSE
    OBVIOUS
  <2>1. PICK S \in B : \A T \in SUBSET S : T # S => T \notin B
    BY SmallestSet
  <2>2. g[S] = SumStep(g, h, S)
    BY DEF IsSum
  <2>3. CASE S = {}
    BY <2>2, <2>3 DEF SumStep
  <2>4. CASE S # {}
    <3>1. g[S \ {Choice(S)}] = 0 /\ h[Choice(S)] = 0
      BY <2>1, <2>4, ChoiceIsIn
    <3> QED BY <2>2, <2>4, <3>1 DEF SumStep
  <2> QED BY <2>3, <2>4
<1> QED BY <1>1

\* What the positions p have cost together.
Spent(p) == MapThenSumSet(LAMBDA m : p[m].shares * p[m].price + p[m].fee, Market)

\* The fold of the community module is a solution of that recursion.
LEMMA SpentIsSum ==
  ASSUME NEW p
  PROVE  \E g : IsSum(g, Held(p)) /\ Spent(p) = g[Market]
<1> DEFINE cost(x) == p[x].shares * p[x].price + p[x].fee
           Def(g) == g = [S \in SUBSET Market |->
                            IF S = {} THEN 0
                            ELSE cost(CHOOSE x \in S : TRUE) + g[S \ {CHOOSE x \in S : TRUE}]]
<1>1. Spent(p) = (CHOOSE g : Def(g))[Market]
  BY DEF Spent, MapThenSumSet, MapThenFoldSet
<1>2. ASSUME NEW g PROVE Def(g) <=> IsSum(g, Held(p))
  <2>1. \A S \in SUBSET Market : S # {} => Held(p)[Choice(S)] = cost(Choice(S))
    BY ChoiceIsIn DEF Held
  <2> HIDE DEF cost
  <2> QED BY <2>1 DEF IsSum, SumStep, Choice
<1>3. \E g : IsSum(g, Held(p))
  BY SumExists
<1> HIDE DEF Def
<1>4. Def(CHOOSE g : Def(g))
  BY <1>2, <1>3
<1> QED BY <1>1, <1>2, <1>4

\* Invested is what is spent on the present positions, now and after a step.
LEMMA InvestedIsSpent == Invested = Spent(positions) /\ Invested' = Spent(positions')
BY DEF Invested, Spent, MapThenSumSet, MapThenFoldSet

\* What is spent changes by what the one position that changes has cost.
LEMMA SpentChanges ==
  ASSUME NEW p \in [Market -> Fill], NEW q \in [Market -> Fill], NEW k \in Market,
         \A m \in Market : m # k => q[m] = p[m]
  PROVE  /\ Spent(p) \in Int
         /\ Spent(q) = Spent(p) + ((q[k].shares * q[k].price + q[k].fee)
                                     - (p[k].shares * p[k].price + p[k].fee))
<1>1. PICK f : IsSum(f, Held(p)) /\ Spent(p) = f[Market]
  BY SpentIsSum
<1>2. PICK g : IsSum(g, Held(q)) /\ Spent(q) = g[Market]
  BY SpentIsSum
<1>3. Held(p) \in [Market -> Int] /\ Held(q) \in [Market -> Int]
  <2>1. ASSUME NEW r \in [Market -> Fill] PROVE Held(r) \in [Market -> Int]
    BY DEF Held, Fill
  <2> QED BY <2>1
<1>4. \A m \in Market : m # k => Held(q)[m] = Held(p)[m]
  BY DEF Held
<1>5. f[Market] \in Int /\ g[Market] = f[Market] + (Held(q)[k] - Held(p)[k])
  BY <1>1, <1>2, <1>3, <1>4, SumsDiffer
<1> QED BY <1>1, <1>2, <1>5 DEF Held

\* Any sell that has a position to close sells the size of that position.
LEMMA SellBalances ==
  ASSUME FeesAreNumbers, CashShape, MoneyBalances,
         NEW k \in Market, NEW shares \in Nat, NEW price \in Nat,
         HasPosition(k) => shares = positions[k].shares,
         Sell(k, shares, price)
  PROVE  MoneyBalances'
<1>1. CASE ~ HasPosition(k)
  <2>1. UNCHANGED <<capital, realised, positions>>
    BY <1>1, SellFills
  <2> QED BY <2>1, InvestedIsSpent DEF MoneyBalances
<1>2. CASE HasPosition(k)
  <2> DEFINE old == positions[k]
             fee == shares * SellFee[price]
  <2>1. /\ capital' = capital + (shares * price - fee)
        /\ realised' = realised + shares * price - shares * old.price - fee - old.fee
        /\ positions' = [positions EXCEPT ![k] = None]
        /\ positions' \in [Market -> Fill]
    BY <1>2, SellFills
  <2>2. positions \in [Market -> Fill] /\ capital \in Int /\ realised \in Int
    BY DEF CashShape
  <2>3. positions'[k] = None /\ \A m \in Market : m # k => positions'[m] = positions[m]
    BY <2>1, <2>2
  <2>4. 0 * 0 + 0 = 0 /\ None.shares = 0 /\ None.price = 0 /\ None.fee = 0
    BY DEF None
  <2>5. /\ Invested \in Int
        /\ Invested' = Invested + (0 - (old.shares * old.price + old.fee))
    <3>1. /\ Spent(positions) \in Int
          /\ Spent(positions') = Spent(positions)
               + ((positions'[k].shares * positions'[k].price + positions'[k].fee)
                    - (old.shares * old.price + old.fee))
      BY <2>1, <2>2, <2>3, SpentChanges
    <3> QED BY <2>3, <2>4, <3>1, InvestedIsSpent
  <2>6. /\ old.shares = shares
        /\ old.shares * old.price \in Nat /\ old.fee \in Nat
        /\ shares * price \in Nat /\ fee \in Nat /\ Capital \in Nat
    <3>1. old.shares \in Nat /\ old.price \in Nat /\ old.fee \in Nat /\ SellFee[price] \in Nat
      BY <2>2 DEF Fill, FeesAreNumbers
    <3> QED BY <1>2, <3>1, CapitalAssumption
  <2>7. capital = Capital + realised - Invested
    BY DEF MoneyBalances
  <2> HIDE DEF old, fee
  <2>8. capital' = Capital + realised' - Invested'
    BY <2>1, <2>2, <2>5, <2>6, <2>7
  <2> QED BY <2>8 DEF MoneyBalances
<1> QED BY <1>1, <1>2

\* A buy opens a position where there was none.
LEMMA BuyBalances ==
  ASSUME FeesAreNumbers, CashShape, TradeInv, MoneyBalances, PlaceBuy
  PROVE  MoneyBalances'
<1> DEFINE k == order.market
           n == order.shares
           p == order.price
           f == BuyFee[p]
           new == [shares |-> n, price |-> p, fee |-> n * f]
<1>1. /\ n * p \in Nat /\ n * f \in Nat
      /\ capital' = capital - (n * p + n * f)
      /\ positions' = [positions EXCEPT ![k] = new]
      /\ UNCHANGED realised
      /\ positions' \in [Market -> Fill]
  BY BuyFills
<1>2. positions[k] = None /\ k \in Market
  BY DEF PlaceBuy, TradeInv, PendingBuyIsNew, HasPosition, Shape
<1>3. positions \in [Market -> Fill] /\ capital \in Int /\ realised \in Int /\ Capital \in Nat
  BY CapitalAssumption DEF CashShape
<1>4. positions'[k] = new /\ \A m \in Market : m # k => positions'[m] = positions[m]
  BY <1>1, <1>2, <1>3
<1>5. 0 * 0 + 0 = 0 /\ None.shares = 0 /\ None.price = 0 /\ None.fee = 0
  BY DEF None
<1>6. new.shares = n /\ new.price = p /\ new.fee = n * f
  OBVIOUS
<1>7. Invested \in Int /\ Invested' = Invested + ((n * p + n * f) - 0)
  <2>1. /\ Spent(positions) \in Int
        /\ Spent(positions') = Spent(positions)
             + ((positions'[k].shares * positions'[k].price + positions'[k].fee)
                  - (positions[k].shares * positions[k].price + positions[k].fee))
    BY <1>1, <1>2, <1>3, <1>4, SpentChanges
  <2> HIDE DEF k, n, p, f, new
  <2> QED BY <1>2, <1>4, <1>5, <1>6, <2>1, InvestedIsSpent
<1>8. capital = Capital + realised - Invested
  BY DEF MoneyBalances
<1> HIDE DEF n, p, f, new
<1>9. capital' = Capital + realised' - Invested'
  BY <1>1, <1>3, <1>7, <1>8
<1> QED BY <1>9 DEF MoneyBalances

\* Every step keeps the balance.
LEMMA NextKeepsMoney ==
  ASSUME FeesAreNumbers, CashShape, TradeInv, MoneyBalances, [Next]_vars
  PROVE  MoneyBalances'
<1>1. CASE PlaceSell
  <2>1. /\ order.market \in Market /\ order.shares \in Nat /\ order.price \in Nat
        /\ Sell(order.market, order.shares, order.price)
        /\ HasPosition(order.market) => order.shares = positions[order.market].shares
    BY <1>1 DEF PlaceSell, CashShape, TradeInv, PendingSellsMatch
  <2> QED BY <2>1, SellBalances
<1>2. CASE SweepSells
  <2>1. PICK m \in expired : Sell(m, snapshot[m].shares, SweepPrice(m))
    BY <1>2 DEF SweepSells
  <2>2. HasPosition(m) => snapshot[m].shares = positions[m].shares
    BY <1>2 DEF SweepSells, TradeInv, PendingSellsMatch
  <2> QED BY <2>1, <2>2, SweepOrders, SellBalances
<1>3. CASE ~ PlaceBuy /\ ~ PlaceSell /\ ~ SweepSells
  <2>1. UNCHANGED <<capital, realised, positions>>
    BY <1>3, OthersMoveNoMoney
  <2> QED BY <2>1, InvestedIsSpent DEF MoneyBalances
<1> QED BY <1>1, <1>2, <1>3, BuyBalances

\* At the start nothing is invested.
LEMMA MoneyInit == Init => MoneyBalances
<1> SUFFICES ASSUME Init PROVE MoneyBalances
  OBVIOUS
<1>1. PICK g : IsSum(g, Held(positions)) /\ Spent(positions) = g[Market]
  BY SpentIsSum
<1>2. 0 * 0 + 0 = 0 /\ None.shares = 0 /\ None.price = 0 /\ None.fee = 0
  BY DEF None
<1>3. \A m \in Market : Held(positions)[m] = 0
  BY <1>2 DEF Init, Held
<1>4. Invested = 0
  BY <1>1, <1>3, SumOfNothing, InvestedIsSpent
<1> QED BY <1>4, CapitalAssumption DEF Init, MoneyBalances

\* Cash, realised profit and open positions balance to the last unit, for any
\* markets, fees and trades: no sell is credited twice or in a size that is not
\* its position's, and no buy replaces a position whose cost would be forgotten
\* (OrderGateway.cpp:81-172).
THEOREM MoneyIsAccountedFor ==
  ASSUME FeesAreNumbers
  PROVE  Spec => []MoneyBalances
<1> DEFINE Inv == CashShape /\ TradeInv /\ MoneyBalances
<1>1. Init => Inv
  BY CashShapeInit, InitEstablishesTradeInv, MoneyInit
<1>2. Inv /\ [Next]_vars => Inv'
  BY NextKeepsCashShape, NextKeepsTradeInv, NextKeepsMoney
<1>3. Inv => MoneyBalances
  OBVIOUS
<1> QED BY <1>1, <1>2, <1>3, PTL DEF Spec
=============================================================================
