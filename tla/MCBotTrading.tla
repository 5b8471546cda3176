---------------------------- MODULE MCBotTrading ----------------------------
(* Instances of BotTrading for TLC: one quote that is cheap for both legs,  *)
(* and one that calls for an exit.                                          *)
EXTENDS BotTrading

CONSTANTS m1, m2

MCMarket == {m1, m2}
MCQuote  == {[bid |-> 1, ask |-> 2], [bid |-> 4, ask |-> 5]}
MCFee    == [p \in 0 .. 5 |-> IF p = 0 THEN 0 ELSE 1]
=============================================================================
