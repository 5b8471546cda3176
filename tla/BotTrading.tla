----------------------------- MODULE BotTrading -----------------------------
(***************************************************************************)
(* The paper-trading bot: src/bot/BookState.cpp, StrategyEngine.hpp,       *)
(* PaperGateway of OrderGateway.cpp and the main loop of main.cpp.  Two    *)
(* threads share the books and the gateway, each behind its own mutex:     *)
(*   - the WebSocket thread updates a book and runs on_tick, which buys or *)
(*     sells;                                                              *)
(*   - the main thread discovers markets and runs sweep_expired, which     *)
(*     sells.                                                              *)
(* Every critical section is one step.  The clock of a market is its phase:*)
(* more than MIN_REMAINING_S before its end, less than that, less than     *)
(* EXPIRY_GRACE_S, or past its end.  Prices are integers that include the  *)
(* slippage.                                                               *)
(***************************************************************************)
EXTENDS Integers, FiniteSets, FiniteSetsExt

CONSTANTS
  Market,       \* condition ids
  Quote,        \* the [bid, ask] that a feed reports
  Threshold,    \* THRESHOLD, as twice the YES mid
  ExitThresh,   \* EXIT_THRESHOLD, as twice the NO mid
  MaxEntryAsk,  \* MAX_ENTRY_ASK
  BuyFee,       \* BuyFee[p]: fee of a share bought at price p
  SellFee,      \* SellFee[p]: fee of a share sold at price p
  Capital,      \* the initial capital
  MaxPart,      \* one position spends at most capital / MaxPart (KELLY_MAX_PCT)
  MaxShares,    \* bound: shares in a position
  MaxBuys       \* bound: positions opened in the run

\* handle_book_snapshot and handle_price_change drop an update without both
\* prices, so a leg is 0 until its first update only.
ASSUME QuoteAssumption == \A q \in Quote : q.bid \in Nat \ {0} /\ q.ask \in Nat \ {0}
ASSUME MarketAssumption == Market # {} /\ IsFiniteSet(Market)
ASSUME CapitalAssumption == {Capital, MaxPart, MaxShares, MaxBuys} \subseteq Nat

NoQuote == [bid |-> 0, ask |-> 0]

\* The clock of a market.
Far     == 0
Near    == 1  \* within MIN_REMAINING_S of its end
InGrace == 2  \* within EXPIRY_GRACE_S of its end
Ended   == 3

VARIABLES
  running,    \* g_running
  tracked,    \* the markets in BookState
  book,       \* book[m]: both legs
  phase,      \* phase[m]: the clock
  positions,  \* positions[m]: the open position, or None
  capital,    \* capital_
  realised,   \* realised_pnl_
  buys,       \* how many buys there have been
  net,        \* history: net[m]: the shares of m bought less those sold
  wpc,        \* the WebSocket thread
  order,      \* its locals
  mpc,        \* the main thread
  snapshot,   \* its copy of the positions
  expired     \* its expired_cids

bookVars    == <<tracked, book, phase>>
gatewayVars == <<positions, capital, realised, buys, net>>
wsVars      == <<wpc, order>>
mainVars    == <<running, mpc, snapshot, expired>>
vars        == <<bookVars, gatewayVars, wsVars, mainVars>>

None == [shares |-> 0, price |-> 0, fee |-> 0]
HasPosition(m) == positions[m] # None

\* yes_valid, no_valid
Valid(leg) == leg.bid > 0 /\ leg.ask > leg.bid

Init ==
  /\ running = TRUE
  /\ tracked = {}
  /\ book = [m \in Market |-> [yes |-> NoQuote, no |-> NoQuote]]
  /\ phase = [m \in Market |-> Far]
  /\ positions = [m \in Market |-> None]
  /\ capital = Capital
  /\ realised = 0
  /\ buys = 0
  /\ net = [m \in Market |-> 0]
  /\ wpc = "idle"
  /\ order = [market |-> CHOOSE m \in Market : TRUE, shares |-> 0, price |-> 0]
  /\ mpc = "loop"
  /\ snapshot = [m \in Market |-> None]
  /\ expired = {}

-----------------------------------------------------------------------------
(* PaperGateway *)

\* buy(): positions_[cid] is assigned, whatever it held.
Buy(m, shares, price) ==
  LET cost == shares * price
      fee  == shares * BuyFee[price] IN
    /\ capital' = capital - (cost + fee)
    /\ positions' = [positions EXCEPT ![m] =
                       [shares |-> shares, price |-> price, fee |-> fee]]
    /\ buys' = buys + 1
    /\ net' = [net EXCEPT ![m] = @ + shares]
    /\ UNCHANGED realised

\* (mutant) the second of two raced sells is credited too
SellTwice(m, shares, price) ==
  LET proceeds == shares * price
      fee      == shares * SellFee[price]
      pos      == positions[m] IN
    /\ capital' = capital + (proceeds - fee)
    /\ realised' = realised + proceeds - shares * pos.price - fee - pos.fee
    /\ positions' = [positions EXCEPT ![m] = None]
    /\ net' = [net EXCEPT ![m] = @ - shares]
    /\ UNCHANGED buys

\* sell(): the shares are the caller's, the entry price and the fee are the
\* position's; with no position nothing happens.
Sell(m, shares, price) ==
  IF HasPosition(m)
    THEN LET proceeds == shares * price
             fee      == shares * SellFee[price]
             pos      == positions[m] IN
           /\ capital' = capital + (proceeds - fee)
           /\ realised' = realised + proceeds - shares * pos.price - fee - pos.fee
           /\ positions' = [positions EXCEPT ![m] = None]
           /\ net' = [net EXCEPT ![m] = @ - shares]
           /\ UNCHANGED buys
    ELSE UNCHANGED gatewayVars

-----------------------------------------------------------------------------
(* The WebSocket thread: BookState::on_tick, then StrategyEngine::on_tick. *)

\* An update of one leg of a tracked market.
Tick ==
  /\ wpc = "idle"
  /\ mpc # "stopped"
  /\ \E m \in tracked, leg \in {"yes", "no"}, q \in Quote :
       /\ book' = [book EXCEPT ![m] = [@ EXCEPT ![leg] = q]]
       /\ order' = [market |-> m, shares |-> 0, price |-> 0]
  /\ wpc' = "evaluate"
  /\ UNCHANGED <<tracked, phase, gatewayVars, mainVars>>

\* (mutants) the end of the market is not looked at; the grace period has an
\* end of its own
NeverTooSoon(m) == FALSE
InGraceOnly(m) == phase[m] = InGrace

\* MIN_REMAINING_S and EXPIRY_GRACE_S against the clock.
TooSoon(m) == phase[m] >= Near
Expiring(m) == phase[m] >= InGrace

\* (mutant) the sizing does not look at the capital
AnySize(price) == 1 .. MaxShares

\* kelly_size: a part of the capital, or else one share.
KellySizes(price) == {n \in 1 .. MaxShares : n = 1 \/ n * price * MaxPart <= capital}

\* (mutant) an open position does not keep the engine from entering again
WantsToBuyMore(m) ==
  /\ Valid(book[m].yes)
  /\ Valid(book[m].no)
  /\ book[m].yes.bid + book[m].yes.ask <= Threshold
  /\ book[m].no.ask <= MaxEntryAsk
  /\ ~ TooSoon(m)
  /\ capital >= book[m].no.ask

\* Entry: both legs valid, YES cheap, NO not dear, the end not near, and one
\* share affordable (its fee is not counted).
WantsToBuy(m) ==
  /\ ~ HasPosition(m)
  /\ Valid(book[m].yes)
  /\ Valid(book[m].no)
  /\ book[m].yes.bid + book[m].yes.ask <= Threshold
  /\ book[m].no.ask <= MaxEntryAsk
  /\ ~ TooSoon(m)
  /\ capital >= book[m].no.ask

\* Exit, by price or by time.
WantsToSell(m) ==
  /\ HasPosition(m)
  /\ Valid(book[m].no)
  /\ book[m].no.bid + book[m].no.ask >= ExitThresh \/ Expiring(m)

DecideBuy ==
  /\ wpc = "evaluate"
  /\ WantsToBuy(order.market)
  /\ buys < MaxBuys
  /\ LET price == book[order.market].no.ask IN
       \E n \in KellySizes(price) :
         order' = [order EXCEPT !.shares = n, !.price = price]
  /\ wpc' = "buy"
  /\ UNCHANGED <<bookVars, gatewayVars, mainVars>>

PlaceBuy ==
  /\ wpc = "buy"
  /\ Buy(order.market, order.shares, order.price)
  /\ wpc' = "idle"
  /\ UNCHANGED <<bookVars, order, mainVars>>

DecideSell ==
  /\ wpc = "evaluate"
  /\ WantsToSell(order.market)
  /\ order' = [order EXCEPT !.price = book[order.market].no.bid]
  /\ wpc' = "look_up"
  /\ UNCHANGED <<bookVars, gatewayVars, mainVars>>

\* on_tick returns without an order.
DecideNothing ==
  /\ wpc = "evaluate"
  /\ ~ (WantsToBuy(order.market) /\ buys < MaxBuys)
  /\ ~ WantsToSell(order.market)
  /\ wpc' = "idle"
  /\ UNCHANGED <<bookVars, gatewayVars, order, mainVars>>

\* positions(): the sweep may have closed it, or its shares are copied.
LookUp ==
  /\ wpc = "look_up"
  /\ order' = [order EXCEPT !.shares = positions[order.market].shares]
  /\ wpc' = IF HasPosition(order.market) THEN "sell" ELSE "idle"
  /\ UNCHANGED <<bookVars, gatewayVars, mainVars>>

PlaceSell ==
  /\ wpc = "sell"
  /\ Sell(order.market, order.shares, order.price)
  /\ wpc' = "idle"
  /\ UNCHANGED <<bookVars, order, mainVars>>

-----------------------------------------------------------------------------
(* The main thread. *)

\* scan_all and tail_poll: add_market for a market that is not about to end.
Discover ==
  /\ mpc = "loop"
  /\ running
  /\ \E m \in Market \ tracked : ~ TooSoon(m) /\ tracked' = tracked \union {m}
  /\ UNCHANGED <<book, phase, gatewayVars, wsVars, mainVars>>

\* sweep_expired copies the positions once and picks those about to end.
SweepStarts ==
  /\ mpc = "loop"
  /\ running
  /\ snapshot' = positions
  /\ expired' = {m \in Market : HasPosition(m) /\ Expiring(m)}
  /\ mpc' = "sweep"
  /\ UNCHANGED <<running, bookVars, gatewayVars, wsVars>>

\* The current bid, or half the entry price if there never was one.
SweepPrice(m) ==
  IF book[m].no.bid > 0 THEN book[m].no.bid ELSE snapshot[m].price \div 2

SweepSells ==
  /\ mpc = "sweep"
  /\ \E m \in expired :
       /\ Sell(m, snapshot[m].shares, SweepPrice(m))
       /\ expired' = expired \ {m}
  /\ UNCHANGED <<running, mpc, snapshot, bookVars, wsVars>>

SweepEnds ==
  /\ mpc = "sweep"
  /\ expired = {}
  /\ mpc' = "loop"
  /\ snapshot' = [m \in Market |-> None]
  /\ UNCHANGED <<running, expired, bookVars, gatewayVars, wsVars>>

\* The loop ends; ws.stop() joins the WebSocket thread.
Stop ==
  /\ mpc = "loop"
  /\ ~ running
  /\ wpc = "idle"
  /\ mpc' = "stopped"
  /\ UNCHANGED <<running, snapshot, expired, bookVars, gatewayVars, wsVars>>

\* on_signal
Signal ==
  /\ running
  /\ running' = FALSE
  /\ UNCHANGED <<mpc, snapshot, expired, bookVars, gatewayVars, wsVars>>

TimePasses ==
  /\ \E m \in Market :
       phase[m] < Ended /\ phase' = [phase EXCEPT ![m] = @ + 1]
  /\ UNCHANGED <<tracked, book, gatewayVars, wsVars, mainVars>>

Stopped == mpc = "stopped" /\ UNCHANGED vars

WSThread   == \/ Tick \/ DecideBuy \/ PlaceBuy \/ DecideSell \/ DecideNothing
              \/ LookUp \/ PlaceSell
SweepSteps == SweepStarts \/ SweepSells \/ SweepEnds \/ Stop

Next == \/ WSThread \/ SweepSteps \/ Discover \/ Signal \/ TimePasses \/ Stopped

Spec == Init /\ [][Next]_vars

\* The main loop sweeps every REDISCOVER_S seconds, whatever the feed does.
FairSpec == Spec /\ WF_vars(SweepSteps)

-----------------------------------------------------------------------------
(* Properties. *)

\* What the open positions have cost.
Invested == MapThenSumSet(LAMBDA m : positions[m].shares * positions[m].price
                                       + positions[m].fee, Market)

\* The cash, the realised profit and the open positions of the gateway
\* balance, whatever the two threads buy and sell: no cost or fee is lost when
\* a position is replaced or closed (OrderGateway.cpp:91-104, 148-153).
MoneyBalances == capital = Capital + realised - Invested

\* The open position of a market is what the fills add up to: it is never
\* credited twice, overwritten by a second buy, or closed in a size that is
\* not its own (OrderGateway.cpp:135-141: "exactly what prevents the
\* double-credit").
SharesBalance == \A m \in Market : net[m] = positions[m].shares

\* A size read before the other thread had a chance to sell is still the size
\* of the position, if there is one: a market in its grace period is closed
\* once and never entered again between a snapshot and its sell.
PendingSellsMatch ==
  /\ wpc = "sell" /\ HasPosition(order.market)
       => order.shares = positions[order.market].shares
  /\ mpc = "sweep"
       => \A m \in expired : HasPosition(m) => snapshot[m] = positions[m]

\* The paper account is overdrawn by the fee of one share at most.
CapitalFloor ==
  capital >= 0 \/ \E q \in Quote : capital + BuyFee[q.ask] >= 0

\* A position is closed in the end, although its market goes quiet or ends,
\* as long as the bot runs.
ExpiredPositionsClose ==
  \A m \in Market :
    (HasPosition(m) /\ Expiring(m)) ~> (~ HasPosition(m) \/ ~ running)
=============================================================================
