----------------------------- MODULE MPSCQueue -----------------------------
(***************************************************************************)
(* What the ring buffer of include/polymarket/memory/RingBuffer.hpp        *)
(* promises, with every slot, index and sequence number hidden: items are  *)
(* accepted one after the other, and the one consumer receives exactly the *)
(* accepted items, once each, in the order in which they were accepted.    *)
(***************************************************************************)
EXTENDS Naturals, Sequences

CONSTANT Item

VARIABLES
  claims,     \* the accepted items, in acceptance order
  delivered   \* the items handed to the consumer, in delivery order

queueVars == <<claims, delivered>>

Init == claims = << >> /\ delivered = << >>

\* A producer's item is accepted: its place in the order is now fixed.
Accept ==
  /\ \E item \in Item : claims' = Append(claims, item)
  /\ UNCHANGED delivered

\* The consumer receives the oldest item it has not had yet.
Deliver ==
  /\ Len(delivered) < Len(claims)
  /\ delivered' = Append(delivered, claims[Len(delivered) + 1])
  /\ UNCHANGED claims

Next == Accept \/ Deliver

Spec == Init /\ [][Next]_queueVars
=============================================================================
