----------------------------- MODULE MCHarvester -----------------------------
(* Instances of Harvester for TLC: t1 ends on day 0, t2 on day 1. *)
EXTENDS Harvester

CONSTANTS t1, t2

MCToken  == {t1, t2}
MCEndDay == [t \in MCToken |-> IF t = t1 THEN 0 ELSE 1]
=============================================================================
