---------------------------- MODULE MCRingBuffer ----------------------------
(* Instances of RingBuffer for TLC. *)
EXTENDS RingBuffer, TLC

CONSTANTS p1, p2, p3, a, b

MCProducers == {p1, p2, p3}
MCItem == {a, b}
=============================================================================
