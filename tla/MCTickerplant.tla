--------------------------- MODULE MCTickerplant ---------------------------
(* Instances of Tickerplant for TLC. *)
EXTENDS Tickerplant

CONSTANTS yes, no, other

\* Three tokens for a table of two: both sides and a trade of the first, one kind
\* of each of the others.
MCBookTokens == {yes, no, other}
MCBookKinds ==
  [token : {yes}, side : Side, event_type : {0}]
  \union [token : {yes}, side : {"bid"}, event_type : {1}]
  \union [token : {no, other}, side : {"bid"}, event_type : {0}]

\* The token that finds the table full when it comes third.
MCReaders == {[token |-> yes, side |-> "bid"]}

\* The journal does not look at the ticks.
MCJournalTokens == {yes}
MCJournalKinds == [token : {yes}, side : {"bid"}, event_type : {1}]
=============================================================================
