----------------------------- MODULE RingBuffer -----------------------------
(***************************************************************************)
(* include/polymarket/memory/RingBuffer.hpp: the bounded ring that joins   *)
(* the WebSocket threads to the tickerplant.  Every atomic access of the   *)
(* code is one step, and the plain copy of a payload is a step of its own, *)
(* so that two threads that could touch one slot at a time meet there.     *)
(*                                                                         *)
(* The 64-bit positions are natural numbers: they do not wrap in any run   *)
(* of the program.  `pos & MASK' is pos % Capacity, because Capacity is a  *)
(* power of two.  Interleaving is sequentially consistent: NoDataRace says *)
(* that plain data is never accessed concurrently, and each slot's data is *)
(* ordered by that slot's own acquire/release accesses.                    *)
(***************************************************************************)
EXTENDS Naturals, Sequences, FiniteSets

CONSTANTS
  Capacity,    \* slots of the ring (65536 in the harvester)
  Producers,   \* the threads that produce
  Item,        \* the payloads (ticks)
  NoItem,      \* what a slot holds before its first payload
  AnyThread,   \* the ring is shared: every thread calls produce() only
  MaxClaims    \* bound: how many positions the run may hand out

\* RingBuffer.hpp asserts a power of two greater than zero; only the latter
\* matters once `& MASK' is written as a remainder.
ASSUME CapacityAssumption == Capacity \in Nat /\ Capacity > 0
ASSUME MaxClaimsAssumption == MaxClaims \in Nat
ASSUME NoItemAssumption == NoItem \notin Item
ASSUME AnyThreadAssumption == AnyThread \notin Producers

VARIABLES
  sole,         \* the ring's only producer thread, or AnyThread; never changes
  write_index,  \* next position to hand out
  read_index,   \* next position to consume; touched by the consumer only
  sequence,     \* slots_[i].sequence
  data,         \* slots_[i].data
  pc,           \* pc[p]: where producer p stands in produce or try_produce
  pos,          \* pos[p]: its local `pos'
  item,         \* item[p]: its argument
  cpc,          \* where the consumer stands in consume
  out,          \* the consumer's out parameter
  claims,       \* history: the items in the order of their positions
  delivered     \* history: the items consume() returned

producerVars == <<sole, pc, pos, item>>
consumerVars == <<read_index, cpc, out, delivered>>
slotVars     == <<sequence, data>>
vars == <<sole, write_index, read_index, sequence, data, pc, pos, item, cpc, out,
          claims, delivered>>

Slots   == 0 .. Capacity - 1
Slot(q) == q % Capacity

\* The states of a producer: "spin", "copy" and "publish" hold a position;
\* "try" and "claim" belong to try_produce, which holds none yet.
Holding     == {"spin", "copy", "publish"}
Trying      == {"try", "claim"}
ProducerPCs == {"idle"} \union Holding \union Trying

Init ==
  /\ sole \in Producers \union {AnyThread}
  /\ write_index = 0
  /\ read_index = 0
  /\ sequence = [i \in Slots |-> i]
  /\ data = [i \in Slots |-> NoItem]
  /\ pc = [p \in Producers |-> "idle"]
  /\ pos = [p \in Producers |-> 0]
  /\ item = [p \in Producers |-> NoItem]
  /\ cpc = "idle"
  /\ out = NoItem
  /\ claims = << >>
  /\ delivered = << >>

-----------------------------------------------------------------------------
(* produce(item), called by any producer thread. *)

MayProduce(p) == sole \in {AnyThread, p}

\* The fetch_add: the producer takes the next position, full ring or not.
Claim(p) ==
  /\ MayProduce(p)
  /\ pc[p] = "idle"
  /\ write_index < MaxClaims
  /\ \E it \in Item :
       /\ item' = [item EXCEPT ![p] = it]
       /\ claims' = Append(claims, it)
  /\ pos' = [pos EXCEPT ![p] = write_index]
  /\ write_index' = write_index + 1
  /\ pc' = [pc EXCEPT ![p] = "spin"]
  /\ UNCHANGED <<sole, slotVars, consumerVars>>

\* (mutants) full is noticed one lap too late; one slot is always kept empty
SlotNotPublished(p) == sequence[Slot(pos[p])] # pos[p] + 1
SlotFreeKeepingOne(p) ==
  sequence[Slot(pos[p])] = pos[p] /\ write_index - read_index < Capacity - 1

\* The slot has been recycled for exactly this position.
SlotIsFree(p) == sequence[Slot(pos[p])] = pos[p]

\* (mutant) the sequence is published before the payload is copied
SpinEndsPublished(p) ==
  /\ pc[p] = "spin"
  /\ SlotIsFree(p)
  /\ sequence' = [sequence EXCEPT ![Slot(pos[p])] = pos[p] + 1]
  /\ pc' = [pc EXCEPT ![p] = "copy"]
  /\ UNCHANGED <<sole, write_index, data, pos, item, consumerVars, claims>>

\* The spin loop ends; an iteration that does not end it changes nothing.
SpinEnds(p) ==
  /\ pc[p] = "spin"
  /\ SlotIsFree(p)
  /\ pc' = [pc EXCEPT ![p] = "copy"]
  /\ UNCHANGED <<sole, write_index, slotVars, pos, item, consumerVars, claims>>

\* slot.data = item, a plain store.
CopyIn(p) ==
  /\ pc[p] = "copy"
  /\ data' = [data EXCEPT ![Slot(pos[p])] = item[p]]
  /\ pc' = [pc EXCEPT ![p] = "publish"]
  /\ UNCHANGED <<sole, write_index, sequence, pos, item, consumerVars, claims>>

\* (mutant) the sequence is left at pos
PublishNothing(p) ==
  /\ pc[p] = "publish"
  /\ pc' = [pc EXCEPT ![p] = "idle"]
  /\ UNCHANGED <<sole, write_index, slotVars, pos, item, consumerVars, claims>>

\* The release store of pos + 1.
Publish(p) ==
  /\ pc[p] = "publish"
  /\ sequence' = [sequence EXCEPT ![Slot(pos[p])] = pos[p] + 1]
  /\ pc' = [pc EXCEPT ![p] = "idle"]
  /\ UNCHANGED <<sole, write_index, data, pos, item, consumerVars, claims>>

-----------------------------------------------------------------------------
(* try_produce(item), for a ring with a single producer thread. *)

\* The contract of try_produce, which the debug build asserts: no second
\* producer thread exists.
SingleProducer(p) == sole = p

\* The relaxed load of write_index_.
TryLoad(p) ==
  /\ SingleProducer(p)
  /\ pc[p] = "idle"
  /\ write_index < MaxClaims
  /\ \E it \in Item : item' = [item EXCEPT ![p] = it]
  /\ pos' = [pos EXCEPT ![p] = write_index]
  /\ pc' = [pc EXCEPT ![p] = "try"]
  /\ UNCHANGED <<sole, write_index, slotVars, consumerVars, claims>>

\* The slot is not recycled yet: return false, the item is dropped.
TryFull(p) ==
  /\ pc[p] = "try"
  /\ ~ SlotIsFree(p)
  /\ pc' = [pc EXCEPT ![p] = "idle"]
  /\ UNCHANGED <<sole, write_index, slotVars, pos, item, consumerVars, claims>>

TryFree(p) ==
  /\ pc[p] = "try"
  /\ SlotIsFree(p)
  /\ pc' = [pc EXCEPT ![p] = "claim"]
  /\ UNCHANGED <<sole, write_index, slotVars, pos, item, consumerVars, claims>>

\* The fetch_add, whose result the code ignores: pos stays as it was loaded.
TryClaim(p) ==
  /\ pc[p] = "claim"
  /\ write_index' = write_index + 1
  /\ claims' = Append(claims, item[p])
  /\ pc' = [pc EXCEPT ![p] = "copy"]
  /\ UNCHANGED <<sole, slotVars, pos, item, consumerVars>>

Produce(p) == Claim(p) \/ SpinEnds(p) \/ CopyIn(p) \/ Publish(p)
TryProduce(p) == TryLoad(p) \/ TryFull(p) \/ TryFree(p) \/ TryClaim(p)

-----------------------------------------------------------------------------
(* consume(out), called by the one consumer; on an empty ring it returns   *)
(* false and changes nothing.                                              *)

\* The acquire load sees that read_index_ has been published.
Ready == sequence[Slot(read_index)] = read_index + 1

ConsumeReady ==
  /\ cpc = "idle"
  /\ Ready
  /\ cpc' = "copy"
  /\ UNCHANGED <<write_index, slotVars, producerVars, read_index, out,
                 claims, delivered>>

\* out = slot.data, a plain load.
CopyOut ==
  /\ cpc = "copy"
  /\ out' = data[Slot(read_index)]
  /\ cpc' = "free"
  /\ UNCHANGED <<write_index, slotVars, producerVars, read_index, claims,
                 delivered>>

\* (mutant) the lap is not counted
RecycledSameLap == read_index

\* What recycling stores: the position one lap later may use the slot.
RecycledFor == read_index + Capacity

\* The release store, the private ++read_index_, and return true.
Recycle ==
  /\ cpc = "free"
  /\ sequence' = [sequence EXCEPT ![Slot(read_index)] = RecycledFor]
  /\ read_index' = read_index + 1
  /\ delivered' = Append(delivered, out)
  /\ cpc' = "idle"
  /\ UNCHANGED <<write_index, data, producerVars, out, claims>>

Consume == ConsumeReady \/ CopyOut \/ Recycle

\* Every position has been handed out and consumed: the bounded run is over.
Finished ==
  /\ write_index = MaxClaims
  /\ read_index = MaxClaims
  /\ \A p \in Producers : pc[p] = "idle"
  /\ cpc = "idle"
  /\ UNCHANGED vars

Next ==
  \/ \E p \in Producers : Produce(p) \/ TryProduce(p)
  \/ Consume
  \/ Finished

Spec == Init /\ [][Next]_vars

\* A thread inside a call keeps running, and the consumer keeps polling (the
\* loop of Tickerplant::run).  Nobody is obliged to start a new call.
Fairness ==
  /\ \A p \in Producers :
       WF_vars(SpinEnds(p) \/ CopyIn(p) \/ Publish(p) \/ TryFull(p)
               \/ TryFree(p) \/ TryClaim(p))
  /\ WF_vars(Consume)

FairSpec == Spec /\ Fairness

-----------------------------------------------------------------------------
(* Properties. *)

TypeOK ==
  /\ sole \in Producers \union {AnyThread}
  /\ write_index \in Nat
  /\ read_index \in Nat
  /\ sequence \in [Slots -> Nat]
  /\ data \in [Slots -> Item \union {NoItem}]
  /\ pc \in [Producers -> ProducerPCs]
  /\ pos \in [Producers -> Nat]
  /\ item \in [Producers -> Item \union {NoItem}]
  /\ cpc \in {"idle", "copy", "free"}
  /\ out \in Item \union {NoItem}
  /\ claims \in Seq(Item)
  /\ delivered \in Seq(Item)

\* The plain accesses to one slot's payload exclude each other: no producer
\* writes a slot that another producer writes or that the consumer reads.
NoDataRace ==
  /\ \A p, q \in Producers :
       p # q /\ pc[p] = "copy" /\ pc[q] = "copy" => Slot(pos[p]) # Slot(pos[q])
  /\ \A p \in Producers :
       pc[p] = "copy" /\ cpc = "copy" => Slot(pos[p]) # Slot(read_index)

\* What consume() has returned so far is a prefix of the items in the order
\* of their positions: nothing lost, duplicated, invented or overtaken.
DeliveredInOrder ==
  /\ Len(delivered) <= Len(claims)
  /\ \A k \in 1 .. Len(delivered) : delivered[k] = claims[k]

\* The strengthening that makes NoDataRace, DeliveredInOrder and
\* DropsOnlyWhenFull inductive, in terms of positions.  The positions that a
\* slot can serve now:
Window == read_index .. read_index + Capacity - 1

IndicesMatch ==
  /\ Len(claims) = write_index
  /\ Len(delivered) = read_index
  /\ read_index <= write_index

\* In the window a slot is either recycled for its position or published with
\* that position's item, and then nobody holds the position any more.
WindowInv ==
  \A q \in Window :
    \/ sequence[Slot(q)] = q
    \/ /\ sequence[Slot(q)] = q + 1
       /\ q < write_index
       /\ data[Slot(q)] = claims[q + 1]
       /\ \A p \in Producers : pc[p] \in Holding => pos[p] # q

\* A claimed position that is not released is held or published.
ClaimedInv ==
  \A q \in read_index .. write_index - 1 :
    \/ \E p \in Producers : pc[p] \in Holding /\ pos[p] = q
    \/ q < read_index + Capacity /\ sequence[Slot(q)] = q + 1

\* What a producer may rely on at each point of its call.
HolderInv(p) ==
  /\ pc[p] \in Holding =>
       /\ read_index <= pos[p]
       /\ pos[p] < write_index
       /\ claims[pos[p] + 1] = item[p]
  /\ pc[p] \in {"copy", "publish"} =>
       /\ pos[p] < read_index + Capacity
       /\ sequence[Slot(pos[p])] = pos[p]
  /\ pc[p] = "publish" => data[Slot(pos[p])] = item[p]
  /\ pc[p] \in Trying => /\ SingleProducer(p)
                         /\ pos[p] = write_index
                         /\ item[p] \in Item
  /\ pc[p] = "claim" => /\ pos[p] < read_index + Capacity
                        /\ sequence[Slot(pos[p])] = pos[p]

HoldersInv ==
  /\ \A p \in Producers : HolderInv(p) /\ (pc[p] # "idle" => MayProduce(p))
  /\ \A p, q \in Producers :
       p # q /\ pc[p] \in Holding /\ pc[q] \in Holding => pos[p] # pos[q]

ConsumerInv ==
  /\ cpc # "idle" => sequence[Slot(read_index)] = read_index + 1
  /\ cpc = "free" => out = claims[read_index + 1]

RingInv ==
  /\ TypeOK
  /\ IndicesMatch
  /\ WindowInv
  /\ ClaimedInv
  /\ HoldersInv
  /\ ConsumerInv
  /\ DeliveredInOrder

\* The ring implements the abstract queue.
Queue == INSTANCE MPSCQueue WITH
  Item <- Item, claims <- claims, delivered <- delivered
ImplementsQueue == Queue!Spec

\* A false from try_produce means a full ring: Capacity items are accepted
\* and not yet released by the consumer.
DropsOnlyWhenFull ==
  [][\A p \in Producers :
       TryFull(p) => write_index - read_index = Capacity]_vars

\* The oldest position that is claimed and not consumed is never orphaned: the
\* consumer is at it or may start on it, or a producer holds it whose next step
\* does not wait.  A claim that nobody would ever publish, or a spin on a slot
\* that nobody would ever recycle, stops the whole ring.
HeadIsNeverStuck ==
  read_index < write_index =>
    \/ cpc # "idle"
    \/ Ready
    \/ \E p \in Producers : /\ pc[p] \in Holding
                            /\ pos[p] = read_index
                            /\ pc[p] = "spin" => SlotIsFree(p)

\* The steps that are left before the oldest position is consumed.
HeldAt(stage) == \E p \in Producers : pc[p] = stage /\ pos[p] = read_index
StepsLeft ==
  IF cpc = "free" THEN 1
  ELSE IF cpc = "copy" THEN 2
  ELSE IF Ready THEN 3
  ELSE IF HeldAt("publish") THEN 4
  ELSE IF HeldAt("copy") THEN 5
  ELSE 6

\* The thread that is at the oldest position takes a step.
HeadMoves ==
  \/ Consume
  \/ \E p \in Producers : /\ pc[p] \in Holding /\ pos[p] = read_index
                          /\ pc'[p] # pc[p]

\* No step of any thread undoes progress at the oldest position: it is released
\* or it has no more steps to go than before, and a step of the thread that is at
\* it, holder or consumer, takes it closer.
HeadOnlyAdvances ==
  [][read_index < write_index =>
       \/ read_index' = read_index + 1
       \/ /\ read_index' = read_index
          /\ StepsLeft' <= StepsLeft
          /\ HeadMoves => StepsLeft' < StepsLeft]_vars

\* Every claimed position is consumed in the end: neither a full ring, nor a
\* producer that stalls between claim and publish, blocks the others forever.
EveryClaimIsDelivered ==
  \A n \in 1 .. MaxClaims : (write_index >= n) ~> (Len(delivered) >= n)
=============================================================================
