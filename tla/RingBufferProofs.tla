-------------------------- MODULE RingBufferProofs --------------------------
EXTENDS RingBuffer, FiniteSetTheorems, TLAPS

\* A position always names a slot.
LEMMA SlotType ==
  ASSUME NEW q \in Nat
  PROVE  Slot(q) \in Slots
BY CapacityAssumption DEF Slot, Slots

\* Positions less than a lap apart use different slots.
LEMMA SlotsDiffer ==
  ASSUME NEW q \in Nat, NEW r \in Nat, q < r, r < q + Capacity
  PROVE  Slot(q) # Slot(r)
<1> SUFFICES ASSUME q % Capacity = r % Capacity PROVE FALSE
  BY DEF Slot
<1> DEFINE a == q \div Capacity
           b == r \div Capacity
           m == q % Capacity
<1>1. /\ a \in Nat /\ b \in Nat /\ m \in Nat
      /\ q = Capacity * a + m
      /\ r = Capacity * b + m
  BY CapacityAssumption
<1> HIDE DEF a, b, m
<1>2. Capacity * a < Capacity * b /\ Capacity * b < Capacity * a + Capacity
  BY <1>1, CapacityAssumption
<1>3. Capacity * (a + 1) = Capacity * a + Capacity
  BY <1>1, CapacityAssumption
<1>4. CASE b <= a
  <2>1. Capacity * b <= Capacity * a
    BY <1>1, <1>4, CapacityAssumption
  <2> QED BY <2>1, <1>2, <1>1, CapacityAssumption
<1>5. CASE b >= a + 1
  <2>1. Capacity * b >= Capacity * (a + 1)
    BY <1>1, <1>5, CapacityAssumption
  <2> QED BY <2>1, <1>2, <1>3, <1>1, CapacityAssumption
<1> QED BY <1>1, <1>4, <1>5

\* The remainder is the one m below Capacity that fits.
LEMMA RemainderUnique ==
  ASSUME NEW k \in Nat, NEW m \in 0 .. Capacity - 1
  PROVE  (Capacity * k + m) % Capacity = m
<1> DEFINE n == Capacity * k + m
           b == n \div Capacity
           s == n % Capacity
<1>0. n \in Nat /\ Capacity * k \in Nat
  BY CapacityAssumption
<1>1. b \in Nat /\ s \in 0 .. Capacity - 1 /\ n = Capacity * b + s
  BY <1>0, CapacityAssumption
<1>2. Capacity * k + m = Capacity * b + s
  BY <1>1
<1> HIDE DEF b, s
<1>3. Capacity * (k + 1) = Capacity * k + Capacity /\ Capacity * (b + 1) = Capacity * b + Capacity
  BY <1>1, CapacityAssumption
<1>4. ~ (b >= k + 1)
  <2> SUFFICES ASSUME b >= k + 1 PROVE FALSE
    OBVIOUS
  <2>1. Capacity * b >= Capacity * (k + 1)
    BY <1>1, CapacityAssumption
  <2> QED BY <2>1, <1>0, <1>1, <1>2, <1>3, CapacityAssumption
<1>5. ~ (k >= b + 1)
  <2> SUFFICES ASSUME k >= b + 1 PROVE FALSE
    OBVIOUS
  <2>1. Capacity * k >= Capacity * (b + 1)
    BY <1>1, CapacityAssumption
  <2> QED BY <2>1, <1>0, <1>1, <1>2, <1>3, CapacityAssumption
<1>6. b = k
  BY <1>1, <1>4, <1>5
<1>7. s = m
  BY <1>0, <1>1, <1>2, <1>6, CapacityAssumption
<1> QED BY <1>7 DEF s

\* The position one lap later uses the same slot.
LEMMA SlotNextLap ==
  ASSUME NEW q \in Nat
  PROVE  Slot(q + Capacity) = Slot(q)
<1> DEFINE a == q \div Capacity
           m == q % Capacity
<1>1. a \in Nat /\ m \in 0 .. Capacity - 1 /\ q = Capacity * a + m
  BY CapacityAssumption
<1> HIDE DEF a, m
<1>2. q + Capacity = Capacity * (a + 1) + m
  BY <1>1, CapacityAssumption
<1>3. (q + Capacity) % Capacity = m
  BY <1>1, <1>2, RemainderUnique
<1> QED BY <1>3 DEF Slot, m

\* Any position from r on uses the slot of a position less than a lap from r.
LEMMA SlotInLap ==
  ASSUME NEW r \in Nat, NEW q \in Nat, r <= q
  PROVE  \E w \in r .. r + Capacity - 1 :
           Slot(w) = Slot(q) /\ (w = q \/ w + Capacity <= q)
<1> DEFINE k == (q - r) \div Capacity
           d == (q - r) % Capacity
           a == (r + d) \div Capacity
           m == (r + d) % Capacity
<1>1. k \in Nat /\ d \in 0 .. Capacity - 1 /\ q - r = Capacity * k + d
  BY CapacityAssumption
<1> HIDE DEF k, d
<1>2. a \in Nat /\ m \in 0 .. Capacity - 1 /\ r + d = Capacity * a + m
  BY <1>1, CapacityAssumption
<1> HIDE DEF a, m
<1>3. Capacity * (a + k) = Capacity * a + Capacity * k /\ Capacity * k \in Nat
  BY <1>1, <1>2, CapacityAssumption
<1>4. q = Capacity * (a + k) + m
  BY <1>1, <1>2, <1>3, CapacityAssumption
<1>5. Slot(q) = m
  BY <1>1, <1>2, <1>4, RemainderUnique DEF Slot
<1>6. Slot(r + d) = Slot(q)
  BY <1>5 DEF Slot, m
<1>7. r + d = q \/ r + d + Capacity <= q
  <2>1. CASE k = 0
    BY <2>1, <1>1, CapacityAssumption
  <2>2. CASE k >= 1
    <3>1. Capacity * k >= Capacity
      BY <1>1, <2>2, CapacityAssumption
    <3> QED BY <3>1, <1>1, <1>3, CapacityAssumption
  <2> QED BY <2>1, <2>2, <1>1
<1>8. r + d \in r .. r + Capacity - 1
  BY <1>1, CapacityAssumption
<1> QED BY <1>6, <1>7, <1>8

\* What Append does to a sequence of items.
LEMMA AppendItem ==
  ASSUME NEW s \in Seq(Item), NEW e \in Item
  PROVE  /\ Append(s, e) \in Seq(Item)
         /\ Len(Append(s, e)) = Len(s) + 1
         /\ \A k \in 1 .. Len(s) : Append(s, e)[k] = s[k]
         /\ Append(s, e)[Len(s) + 1] = e
OBVIOUS

-----------------------------------------------------------------------------
\* The ring starts with every slot recycled for its own index.
LEMMA InitEstablishesInv == Init => RingInv
<1> SUFFICES ASSUME Init PROVE RingInv
  OBVIOUS
<1> USE CapacityAssumption
<1>1. TypeOK
  BY DEF Init, TypeOK, Slots, ProducerPCs, Holding, Trying
<1>2. IndicesMatch /\ DeliveredInOrder /\ ClaimedInv /\ ConsumerInv
  BY DEF Init, IndicesMatch, DeliveredInOrder, ClaimedInv, ConsumerInv
<1>3. WindowInv
  <2> SUFFICES ASSUME NEW q \in Window PROVE sequence[Slot(q)] = q
    BY DEF WindowInv
  <2>1. q \in 0 .. Capacity - 1
    BY DEF Window, Init
  <2>2. Slot(q) = q
    BY <2>1, RemainderUnique, Capacity * 0 + q = q DEF Slot
  <2> QED BY <2>1, <2>2 DEF Init, Slots
<1>4. HoldersInv
  BY DEF Init, HoldersInv, HolderInv, Holding, Trying
<1> QED BY <1>1, <1>2, <1>3, <1>4 DEF RingInv

\* fetch_add of produce(): the new position is held by p and by nobody else.
LEMMA ClaimKeepsInv ==
  ASSUME RingInv, NEW p \in Producers, Claim(p)
  PROVE  RingInv'
<1> USE CapacityAssumption DEF RingInv
<1>1. PICK it \in Item : /\ item' = [item EXCEPT ![p] = it]
                         /\ claims' = Append(claims, it)
  BY DEF Claim
<1>2. /\ Len(claims') = write_index + 1
      /\ claims' \in Seq(Item)
      /\ \A k \in 1 .. write_index : claims'[k] = claims[k]
      /\ claims'[write_index + 1] = it
  BY <1>1, AppendItem DEF TypeOK, IndicesMatch
<1>3. /\ write_index \in Nat /\ read_index \in Nat /\ read_index <= write_index
      /\ write_index' = write_index + 1 /\ read_index' = read_index
      /\ sole' = sole /\ MayProduce(p)
      /\ sequence' = sequence /\ data' = data /\ cpc' = cpc /\ out' = out
      /\ delivered' = delivered
      /\ pc' = [pc EXCEPT ![p] = "spin"]
      /\ pos' = [pos EXCEPT ![p] = write_index]
      /\ pc \in [Producers -> ProducerPCs] /\ pos \in [Producers -> Nat]
      /\ item \in [Producers -> Item \union {NoItem}]
  BY DEF Claim, TypeOK, IndicesMatch, slotVars, consumerVars
<1>4. TypeOK'
  BY <1>1, <1>2, <1>3 DEF TypeOK, ProducerPCs, Holding
<1>5. IndicesMatch' /\ DeliveredInOrder'
  BY <1>2, <1>3 DEF IndicesMatch, DeliveredInOrder
<1>6. WindowInv'
  <2> SUFFICES ASSUME NEW q \in Window, sequence[Slot(q)] # q
               PROVE  /\ sequence[Slot(q)] = q + 1
                      /\ q < write_index + 1
                      /\ data[Slot(q)] = claims'[q + 1]
                      /\ \A r \in Producers : pc'[r] \in Holding => pos'[r] # q
    BY <1>3 DEF WindowInv, Window
  <2>1. /\ sequence[Slot(q)] = q + 1 /\ q < write_index
        /\ data[Slot(q)] = claims[q + 1] /\ q \in Nat
        /\ \A r \in Producers : pc[r] \in Holding => pos[r] # q
    BY <1>3 DEF WindowInv, Window
  <2> QED BY <2>1, <1>2, <1>3
<1>7. ClaimedInv'
  <2> SUFFICES ASSUME NEW q \in read_index .. write_index
               PROVE  \/ \E r \in Producers : pc'[r] \in Holding /\ pos'[r] = q
                      \/ q < read_index + Capacity /\ sequence[Slot(q)] = q + 1
    BY <1>3 DEF ClaimedInv
  <2>1. CASE q = write_index
    BY <2>1, <1>3 DEF Holding
  <2>2. CASE q \in read_index .. write_index - 1
    <3>1. CASE \E r \in Producers : pc[r] \in Holding /\ pos[r] = q
      <4>1. PICK r \in Producers : pc[r] \in Holding /\ pos[r] = q
        BY <3>1
      <4>2. r # p
        BY <4>1 DEF Claim, Holding
      <4> QED BY <4>1, <4>2, <1>3
    <3>2. CASE ~ \E r \in Producers : pc[r] \in Holding /\ pos[r] = q
      BY <2>2, <3>2 DEF ClaimedInv
    <3> QED BY <3>1, <3>2
  <2> QED BY <2>1, <2>2, <1>3
<1>8. HoldersInv'
  <2>1. ASSUME NEW r \in Producers
        PROVE  HolderInv(r)' /\ (pc'[r] # "idle" => MayProduce(r)')
    <3>1. CASE r = p
      BY <3>1, <1>1, <1>2, <1>3 DEF HolderInv, Holding, Trying, MayProduce
    <3>2. CASE r # p
      <4>1. /\ pc'[r] = pc[r] /\ pos'[r] = pos[r] /\ item'[r] = item[r]
            /\ pos[r] \in Nat
        BY <3>2, <1>1, <1>3
      <4>2. pc[r] \notin Trying
        BY <3>2, <1>3, AnyThreadAssumption
           DEF HoldersInv, HolderInv, SingleProducer, MayProduce
      <4>3. HolderInv(r) /\ (pc[r] # "idle" => MayProduce(r))
        BY DEF HoldersInv
      <4> QED BY <4>1, <4>2, <4>3, <1>2, <1>3
              DEF HolderInv, Holding, Trying, MayProduce
    <3> QED BY <3>1, <3>2
  <2>2. ASSUME NEW q \in Producers, NEW r \in Producers, q # r,
               pc'[q] \in Holding, pc'[r] \in Holding
        PROVE  pos'[q] # pos'[r]
    <3>1. \A s \in Producers : pc[s] \in Holding => pos[s] < write_index
      BY DEF HoldersInv, HolderInv
    <3> QED BY <2>2, <3>1, <1>3 DEF HoldersInv
  <2> QED BY <2>1, <2>2 DEF HoldersInv
<1>9. ConsumerInv'
  <2>1. cpc # "idle" => read_index < write_index
    BY <1>3, SlotType DEF ConsumerInv, WindowInv, Window
  <2> QED BY <2>1, <1>2, <1>3 DEF ConsumerInv, TypeOK
<1> QED BY <1>4, <1>5, <1>6, <1>7, <1>8, <1>9

\* The end of the spin: the slot is recycled for a position in the window.
LEMMA SpinEndsKeepsInv ==
  ASSUME RingInv, NEW p \in Producers, SpinEnds(p), Capacity >= 2
  PROVE  RingInv'
<1> USE CapacityAssumption DEF RingInv
<1>1. /\ write_index' = write_index /\ read_index' = read_index
      /\ sole' = sole
      /\ sequence' = sequence /\ data' = data /\ pos' = pos /\ item' = item
      /\ cpc' = cpc /\ out' = out /\ claims' = claims /\ delivered' = delivered
      /\ pc' = [pc EXCEPT ![p] = "copy"] /\ pc[p] = "spin"
      /\ sequence[Slot(pos[p])] = pos[p]
  BY DEF SpinEnds, SlotIsFree, slotVars, consumerVars
<1>2. /\ write_index \in Nat /\ read_index \in Nat
      /\ pc \in [Producers -> ProducerPCs] /\ pos[p] \in Nat
  BY DEF TypeOK
<1>3. \A r \in Producers : pc'[r] \in Holding <=> pc[r] \in Holding
  BY <1>1, <1>2 DEF Holding
<1>4. TypeOK' /\ IndicesMatch' /\ DeliveredInOrder' /\ ConsumerInv'
  BY <1>1, <1>2 DEF TypeOK, IndicesMatch, DeliveredInOrder, ConsumerInv,
                    ProducerPCs, Holding
<1>5. WindowInv' /\ ClaimedInv'
  BY <1>1, <1>3 DEF WindowInv, Window, ClaimedInv
<1>6. pos[p] < read_index + Capacity
  <2> SUFFICES ASSUME pos[p] >= read_index + Capacity PROVE FALSE
    BY <1>2
  <2>1. PICK w \in read_index .. read_index + Capacity - 1 :
               Slot(w) = Slot(pos[p]) /\ (w = pos[p] \/ w + Capacity <= pos[p])
    BY <1>2, SlotInLap
  <2>2. sequence[Slot(w)] = w \/ sequence[Slot(w)] = w + 1
    BY DEF WindowInv, Window
  <2> QED BY <2>1, <2>2, <1>1, <1>2
<1>7. HoldersInv'
  <2>1. ASSUME NEW r \in Producers
        PROVE  HolderInv(r)' /\ (pc'[r] # "idle" => MayProduce(r)')
    <3>1. HolderInv(r) /\ (pc[r] # "idle" => MayProduce(r))
      BY DEF HoldersInv
    <3>2. CASE r = p
      BY <3>1, <3>2, <1>1, <1>2, <1>6 DEF HolderInv, Holding, Trying, MayProduce
    <3>3. CASE r # p
      <4>1. pc'[r] = pc[r]
        BY <3>3, <1>1, <1>2
      <4> QED BY <4>1, <3>1, <1>1 DEF HolderInv, SingleProducer, MayProduce
    <3> QED BY <3>2, <3>3
  <2> QED BY <2>1, <1>1, <1>3 DEF HoldersInv
<1> QED BY <1>4, <1>5, <1>7

\* The plain store touches a slot whose position is not published.
LEMMA CopyInKeepsInv ==
  ASSUME RingInv, NEW p \in Producers, CopyIn(p)
  PROVE  RingInv'
<1> USE CapacityAssumption DEF RingInv
<1>1. /\ write_index' = write_index /\ read_index' = read_index
      /\ sole' = sole
      /\ sequence' = sequence /\ pos' = pos /\ item' = item
      /\ cpc' = cpc /\ out' = out /\ claims' = claims /\ delivered' = delivered
      /\ pc' = [pc EXCEPT ![p] = "publish"] /\ pc[p] = "copy"
      /\ data' = [data EXCEPT ![Slot(pos[p])] = item[p]]
  BY DEF CopyIn, consumerVars
<1>2. /\ write_index \in Nat /\ read_index \in Nat
      /\ pc \in [Producers -> ProducerPCs] /\ pos \in [Producers -> Nat]
      /\ data \in [Slots -> Item \union {NoItem}] /\ sequence \in [Slots -> Nat]
  BY DEF TypeOK
<1>3. \A r \in Producers : pc'[r] \in Holding <=> pc[r] \in Holding
  BY <1>1, <1>2 DEF Holding
<1>4. /\ read_index <= pos[p] /\ pos[p] < read_index + Capacity
      /\ sequence[Slot(pos[p])] = pos[p] /\ Slot(pos[p]) \in Slots
  BY <1>1, <1>2, SlotType DEF HoldersInv, HolderInv, Holding
<1>5. TypeOK' /\ IndicesMatch' /\ DeliveredInOrder' /\ ConsumerInv'
  BY <1>1, <1>2, <1>4 DEF TypeOK, IndicesMatch, DeliveredInOrder, ConsumerInv,
                          ProducerPCs, Holding
<1>6. WindowInv'
  <2> SUFFICES ASSUME NEW q \in Window, sequence[Slot(q)] # q
               PROVE  /\ sequence[Slot(q)] = q + 1
                      /\ q < write_index
                      /\ data'[Slot(q)] = claims[q + 1]
                      /\ \A r \in Producers : pc'[r] \in Holding => pos[r] # q
    BY <1>1 DEF WindowInv, Window
  <2>1. /\ sequence[Slot(q)] = q + 1 /\ q < write_index /\ q \in Nat
        /\ data[Slot(q)] = claims[q + 1]
        /\ \A r \in Producers : pc[r] \in Holding => pos[r] # q
    BY <1>2 DEF WindowInv, Window
  <2>2. q # pos[p]
    BY <2>1, <1>1 DEF Holding
  <2>3. Slot(q) # Slot(pos[p])
    BY <2>1, <2>2, <1>2, <1>4, SlotsDiffer DEF Window
  <2>4. Slot(q) \in Slots
    BY <2>1, SlotType
  <2> QED BY <2>1, <2>3, <2>4, <1>1, <1>2, <1>3
<1>7. ClaimedInv'
  BY <1>1, <1>3 DEF ClaimedInv
<1>8. HoldersInv'
  <2>1. ASSUME NEW r \in Producers
        PROVE  HolderInv(r)' /\ (pc'[r] # "idle" => MayProduce(r)')
    <3>1. HolderInv(r) /\ (pc[r] # "idle" => MayProduce(r))
      BY DEF HoldersInv
    <3>2. CASE r = p
      BY <3>1, <3>2, <1>1, <1>2, <1>4 DEF HolderInv, Holding, Trying, MayProduce
    <3>3. CASE r # p
      <4>1. pc'[r] = pc[r] /\ pos[r] \in Nat
        BY <3>3, <1>1, <1>2
      <4>2. pc[r] = "publish" => data'[Slot(pos[r])] = item[r]
        <5> SUFFICES ASSUME pc[r] = "publish" PROVE data'[Slot(pos[r])] = item[r]
          OBVIOUS
        <5>1. /\ pos[r] # pos[p] /\ read_index <= pos[r]
              /\ pos[r] < read_index + Capacity
          BY <3>1, <3>3, <1>1 DEF HoldersInv, HolderInv, Holding
        <5>2. Slot(pos[r]) # Slot(pos[p])
          BY <5>1, <4>1, <1>2, <1>4, SlotsDiffer
        <5> QED BY <5>2, <3>1, <4>1, <1>1, <1>2, SlotType DEF HolderInv
      <4> QED BY <4>1, <4>2, <3>1, <1>1 DEF HolderInv, SingleProducer, MayProduce
    <3> QED BY <3>2, <3>3
  <2> QED BY <2>1, <1>1, <1>3 DEF HoldersInv
<1> QED BY <1>5, <1>6, <1>7, <1>8

\* The release store publishes the position and nobody holds it any more.
LEMMA PublishKeepsInv ==
  ASSUME RingInv, NEW p \in Producers, Publish(p)
  PROVE  RingInv'
<1> USE CapacityAssumption DEF RingInv
<1>1. /\ write_index' = write_index /\ read_index' = read_index
      /\ sole' = sole
      /\ data' = data /\ pos' = pos /\ item' = item
      /\ cpc' = cpc /\ out' = out /\ claims' = claims /\ delivered' = delivered
      /\ pc' = [pc EXCEPT ![p] = "idle"] /\ pc[p] = "publish"
      /\ sequence' = [sequence EXCEPT ![Slot(pos[p])] = pos[p] + 1]
  BY DEF Publish, consumerVars
<1>2. /\ write_index \in Nat /\ read_index \in Nat
      /\ pc \in [Producers -> ProducerPCs] /\ pos \in [Producers -> Nat]
      /\ sequence \in [Slots -> Nat]
  BY DEF TypeOK
<1>3. \A r \in Producers : pc'[r] \in Holding <=> r # p /\ pc[r] \in Holding
  BY <1>1, <1>2 DEF Holding
<1>4. /\ read_index <= pos[p] /\ pos[p] < read_index + Capacity
      /\ sequence[Slot(pos[p])] = pos[p] /\ Slot(pos[p]) \in Slots
      /\ data[Slot(pos[p])] = claims[pos[p] + 1] /\ pos[p] < write_index
      /\ pos[p] \in Nat
  BY <1>1, <1>2, SlotType DEF HoldersInv, HolderInv, Holding
<1>5. \A q \in Window : q # pos[p] =>
         Slot(q) # Slot(pos[p]) /\ sequence'[Slot(q)] = sequence[Slot(q)]
  <2> SUFFICES ASSUME NEW q \in Window, q # pos[p]
               PROVE  Slot(q) # Slot(pos[p]) /\ sequence'[Slot(q)] = sequence[Slot(q)]
    OBVIOUS
  <2>1. Slot(q) # Slot(pos[p])
    BY <1>2, <1>4, SlotsDiffer DEF Window
  <2> QED BY <2>1, <1>1, <1>2, SlotType DEF Window
<1>6. TypeOK' /\ IndicesMatch' /\ DeliveredInOrder'
  <2>1. pc' \in [Producers -> ProducerPCs]
    BY <1>1, <1>2 DEF ProducerPCs
  <2>2. sequence' \in [Slots -> Nat]
    BY <1>1, <1>2, <1>4
  <2>3. TypeOK'
    BY <2>1, <2>2, <1>1 DEF TypeOK
  <2>4. IndicesMatch' /\ DeliveredInOrder'
    BY <1>1 DEF IndicesMatch, DeliveredInOrder
  <2> QED BY <2>3, <2>4
<1>7. WindowInv'
  <2> SUFFICES ASSUME NEW q \in Window, sequence'[Slot(q)] # q
               PROVE  /\ sequence'[Slot(q)] = q + 1
                      /\ q < write_index
                      /\ data[Slot(q)] = claims[q + 1]
                      /\ \A r \in Producers : pc'[r] \in Holding => pos[r] # q
    BY <1>1 DEF WindowInv, Window
  <2>1. CASE q = pos[p]
    <3>1. sequence'[Slot(q)] = q + 1
      BY <2>1, <1>1, <1>2, <1>4
    <3>2. \A r \in Producers : r # p /\ pc[r] \in Holding => pos[r] # q
      BY <2>1, <1>1 DEF HoldersInv, Holding
    <3> QED BY <3>1, <3>2, <2>1, <1>3, <1>4
  <2>2. CASE q # pos[p]
    BY <2>2, <1>3, <1>5 DEF WindowInv
  <2> QED BY <2>1, <2>2
<1>8. ClaimedInv'
  <2> SUFFICES ASSUME NEW q \in read_index .. write_index - 1
               PROVE  \/ \E r \in Producers : pc'[r] \in Holding /\ pos[r] = q
                      \/ q < read_index + Capacity /\ sequence'[Slot(q)] = q + 1
    BY <1>1 DEF ClaimedInv
  <2>1. CASE q = pos[p]
    BY <2>1, <1>1, <1>2, <1>4
  <2>2. CASE q # pos[p]
    <3>1. CASE \E r \in Producers : pc[r] \in Holding /\ pos[r] = q
      BY <3>1, <2>2, <1>3
    <3>2. CASE q < read_index + Capacity /\ sequence[Slot(q)] = q + 1
      <4>1. q \in Window
        BY <3>2, <1>2 DEF Window
      <4> QED BY <4>1, <3>2, <2>2, <1>5
    <3> QED BY <3>1, <3>2 DEF ClaimedInv
  <2> QED BY <2>1, <2>2
<1>9. HoldersInv'
  <2>1. ASSUME NEW r \in Producers
        PROVE  HolderInv(r)' /\ (pc'[r] # "idle" => MayProduce(r)')
    <3>1. HolderInv(r) /\ (pc[r] # "idle" => MayProduce(r))
      BY DEF HoldersInv
    <3>2. CASE r = p
      BY <3>2, <1>1, <1>2 DEF HolderInv, Holding, Trying
    <3>3. CASE r # p
      <4>1. pc'[r] = pc[r] /\ pos[r] \in Nat
        BY <3>3, <1>1, <1>2
      <4>2. pc[r] \notin Trying
        <5>1. MayProduce(p)
          BY <1>1 DEF HoldersInv
        <5> QED BY <3>3, <3>1, <5>1, AnyThreadAssumption
                DEF HolderInv, SingleProducer, MayProduce
      <4>3. pc[r] \in {"copy", "publish"} =>
               sequence'[Slot(pos[r])] = sequence[Slot(pos[r])]
        <5> SUFFICES ASSUME pc[r] \in {"copy", "publish"}
                     PROVE  sequence'[Slot(pos[r])] = sequence[Slot(pos[r])]
          OBVIOUS
        <5>1. pos[r] \in Window /\ pos[r] # pos[p]
          BY <3>1, <3>3, <4>1, <1>1, <1>2
             DEF HoldersInv, HolderInv, Holding, Window
        <5> QED BY <5>1, <1>5
      <4> QED BY <4>1, <4>2, <4>3, <3>1, <1>1 DEF HolderInv, Trying, MayProduce
    <3> QED BY <3>2, <3>3
  <2> QED BY <2>1, <1>1, <1>3 DEF HoldersInv
<1>10. ConsumerInv'
  <2>1. cpc # "idle" => sequence[Slot(read_index)] = read_index + 1
    BY DEF ConsumerInv
  <2>2. cpc # "idle" => Slot(read_index) # Slot(pos[p])
    BY <2>1, <1>2, <1>4, SlotsDiffer
  <2> QED BY <2>2, <1>1, <1>2, SlotType DEF ConsumerInv
<1> QED BY <1>6, <1>7, <1>8, <1>9, <1>10

\* The first half of try_produce: nothing is claimed, so only p's own
\* knowledge changes.  A false costs nothing.
LEMMA TryPreludeKeepsInv ==
  ASSUME RingInv, NEW p \in Producers, TryLoad(p) \/ TryFull(p) \/ TryFree(p),
         Capacity >= 2
  PROVE  RingInv'
<1> USE CapacityAssumption DEF RingInv
<1>1. /\ write_index' = write_index /\ read_index' = read_index
      /\ sole' = sole
      /\ sequence' = sequence /\ data' = data
      /\ cpc' = cpc /\ out' = out /\ claims' = claims /\ delivered' = delivered
  BY DEF TryLoad, TryFull, TryFree, slotVars, consumerVars
<1>2. /\ write_index \in Nat /\ read_index \in Nat
      /\ pc \in [Producers -> ProducerPCs] /\ pos \in [Producers -> Nat]
      /\ item \in [Producers -> Item \union {NoItem}]
  BY DEF TypeOK
<1>3. sole = p
  BY DEF TryLoad, TryFull, TryFree, HoldersInv, HolderInv, Trying, SingleProducer
<1>4. \A r \in Producers : /\ r # p => pc[r] = "idle" /\ pc'[r] = "idle"
                           /\ pc[r] \notin Holding /\ pc'[r] \notin Holding
  BY <1>2, <1>3, AnyThreadAssumption
     DEF TryLoad, TryFull, TryFree, Holding, HoldersInv, MayProduce
<1>5. TypeOK'
  <2>1. item' \in [Producers -> Item \union {NoItem}] /\ pos' \in [Producers -> Nat]
    BY <1>2 DEF TryLoad, TryFull, TryFree
  <2>2. pc' \in [Producers -> ProducerPCs]
    BY <1>2 DEF TryLoad, TryFull, TryFree, ProducerPCs, Trying
  <2> QED BY <2>1, <2>2, <1>1 DEF TypeOK
<1>6. IndicesMatch' /\ DeliveredInOrder' /\ ConsumerInv'
  BY <1>1 DEF IndicesMatch, DeliveredInOrder, ConsumerInv
<1>7. WindowInv' /\ ClaimedInv'
  BY <1>1, <1>3, <1>4 DEF WindowInv, Window, ClaimedInv
<1>8. HolderInv(p)'
  <2>1. CASE TryLoad(p)
    BY <2>1, <1>1, <1>2 DEF TryLoad, HolderInv, Holding, Trying, SingleProducer
  <2>2. CASE TryFull(p)
    BY <2>2, <1>1, <1>2 DEF TryFull, HolderInv, Holding, Trying, SingleProducer
  <2>3. CASE TryFree(p)
    <3>1. /\ pos' = pos /\ item' = item /\ pc' = [pc EXCEPT ![p] = "claim"]
          /\ pc[p] = "try" /\ sequence[Slot(pos[p])] = pos[p]
      BY <2>3 DEF TryFree, SlotIsFree
    <3>2. pos[p] = write_index /\ item[p] \in Item
      BY <3>1 DEF HoldersInv, HolderInv, Trying
    <3>3. write_index < read_index + Capacity
      <4> SUFFICES ASSUME write_index >= read_index + Capacity PROVE FALSE
        BY <1>2
      <4>1. write_index - 1 \in read_index .. write_index - 1
        BY <1>2
      <4>2. /\ write_index - 1 < read_index + Capacity
            /\ sequence[Slot(write_index - 1)] = write_index
        BY <4>1, <1>2, <1>3, <1>4 DEF ClaimedInv
      <4>3. write_index = read_index + Capacity
        BY <4>2, <1>2
      <4>4. Slot(write_index) = Slot(read_index)
        BY <4>3, <1>2, SlotNextLap
      <4>5. sequence[Slot(read_index)] = read_index + 1
        BY <4>3, <1>2, <1>3, <1>4 DEF ClaimedInv
      <4> QED BY <4>3, <4>4, <4>5, <3>1, <3>2, <1>2
    <3> QED BY <3>1, <3>2, <3>3, <1>1, <1>2, <1>3
           DEF HolderInv, Holding, Trying, SingleProducer
  <2> QED BY <2>1, <2>2, <2>3
<1>9. HoldersInv'
  BY <1>1, <1>3, <1>4, <1>8 DEF HoldersInv, HolderInv, Holding, Trying, MayProduce
<1> QED BY <1>5, <1>6, <1>7, <1>9

\* fetch_add of try_produce: the position that was loaded is still the next.
LEMMA TryClaimKeepsInv ==
  ASSUME RingInv, NEW p \in Producers, TryClaim(p)
  PROVE  RingInv'
<1> USE CapacityAssumption DEF RingInv
<1>1. /\ write_index' = write_index + 1 /\ read_index' = read_index
      /\ sole' = sole
      /\ sequence' = sequence /\ data' = data /\ pos' = pos /\ item' = item
      /\ cpc' = cpc /\ out' = out /\ delivered' = delivered
      /\ pc' = [pc EXCEPT ![p] = "copy"] /\ pc[p] = "claim"
      /\ claims' = Append(claims, item[p])
  BY DEF TryClaim, slotVars, consumerVars
<1>2. /\ write_index \in Nat /\ read_index \in Nat /\ read_index <= write_index
      /\ pc \in [Producers -> ProducerPCs] /\ pos \in [Producers -> Nat]
      /\ Len(claims) = write_index
  BY DEF TypeOK, IndicesMatch
<1>3. /\ sole = p /\ pos[p] = write_index /\ item[p] \in Item
      /\ pos[p] < read_index + Capacity /\ sequence[Slot(pos[p])] = pos[p]
  BY <1>1 DEF HoldersInv, HolderInv, Trying, SingleProducer
<1>4. /\ Len(claims') = write_index + 1
      /\ claims' \in Seq(Item)
      /\ \A k \in 1 .. write_index : claims'[k] = claims[k]
      /\ claims'[write_index + 1] = item[p]
  BY <1>1, <1>2, <1>3, AppendItem DEF TypeOK
<1>5. /\ pc[p] \notin Holding /\ pc'[p] = "copy"
      /\ \A r \in Producers : r # p => pc[r] = "idle" /\ pc'[r] = "idle"
      /\ "idle" \notin Holding
  BY <1>1, <1>2, <1>3, AnyThreadAssumption DEF Holding, HoldersInv, MayProduce
<1>6. TypeOK' /\ IndicesMatch' /\ DeliveredInOrder'
  BY <1>1, <1>2, <1>4 DEF TypeOK, IndicesMatch, DeliveredInOrder, ProducerPCs, Holding
<1>7. WindowInv'
  <2> SUFFICES ASSUME NEW q \in Window, sequence[Slot(q)] # q
               PROVE  /\ sequence[Slot(q)] = q + 1
                      /\ q < write_index + 1
                      /\ data[Slot(q)] = claims'[q + 1]
                      /\ pos[p] # q
    BY <1>1, <1>3, <1>5 DEF WindowInv, Window
  <2> QED BY <1>2, <1>3, <1>4 DEF WindowInv, Window
<1>8. ClaimedInv'
  <2> SUFFICES ASSUME NEW q \in read_index .. write_index
               PROVE  \/ pos[p] = q
                      \/ q < read_index + Capacity /\ sequence[Slot(q)] = q + 1
    BY <1>1, <1>2, <1>3, <1>5 DEF ClaimedInv, Holding
  <2>1. CASE q = write_index
    BY <2>1, <1>3
  <2>2. CASE q # write_index
    BY <2>2, <1>2, <1>3, <1>5 DEF ClaimedInv
  <2> QED BY <2>1, <2>2
<1>9. HoldersInv'
  BY <1>1, <1>2, <1>3, <1>4, <1>5
     DEF HoldersInv, HolderInv, Holding, Trying, MayProduce
<1>10. ConsumerInv'
  <2>1. cpc # "idle" => read_index < write_index
    BY <1>2 DEF ConsumerInv, WindowInv, Window
  <2> QED BY <2>1, <1>1, <1>2, <1>4 DEF ConsumerInv
<1> QED BY <1>6, <1>7, <1>8, <1>9, <1>10

\* The consumer's first two steps leave the slots alone; what it copies is
\* the item of its position, because the slot is published.
LEMMA ReadKeepsInv ==
  ASSUME RingInv, ConsumeReady \/ CopyOut
  PROVE  RingInv'
<1> USE CapacityAssumption DEF RingInv
<1>1. /\ write_index' = write_index /\ read_index' = read_index
      /\ sole' = sole
      /\ sequence' = sequence /\ data' = data
      /\ pc' = pc /\ pos' = pos /\ item' = item
      /\ claims' = claims /\ delivered' = delivered
  BY DEF ConsumeReady, CopyOut, slotVars, producerVars
<1>2. IndicesMatch' /\ DeliveredInOrder' /\ WindowInv' /\ ClaimedInv'
  BY <1>1 DEF IndicesMatch, DeliveredInOrder, WindowInv, Window, ClaimedInv
<1>3. HoldersInv'
  BY <1>1 DEF HoldersInv, HolderInv, SingleProducer, MayProduce
<1>4. ConsumerInv'
  <2>1. CASE ConsumeReady
    BY <2>1, <1>1 DEF ConsumeReady, Ready, ConsumerInv
  <2>2. CASE CopyOut
    <3>1. sequence[Slot(read_index)] = read_index + 1
      BY <2>2 DEF CopyOut, ConsumerInv
    <3>2. read_index \in Window /\ read_index \in Nat
      BY DEF Window, TypeOK
    <3>3. data[Slot(read_index)] = claims[read_index + 1]
      BY <3>1, <3>2 DEF WindowInv
    <3> QED BY <3>1, <3>3, <2>2, <1>1 DEF CopyOut, ConsumerInv
  <2> QED BY <2>1, <2>2
<1>5. TypeOK'
  <2>1. out' \in Item \union {NoItem} /\ cpc' \in {"idle", "copy", "free"}
    BY SlotType DEF TypeOK, ConsumeReady, CopyOut
  <2> QED BY <2>1, <1>1 DEF TypeOK
<1> QED BY <1>2, <1>3, <1>4, <1>5

\* Recycling moves the window by one: the slot now serves the position that
\* enters it, and the position that leaves it was published, so unheld.
LEMMA RecycleKeepsInv ==
  ASSUME RingInv, Recycle, Capacity >= 2
  PROVE  RingInv'
<1> USE CapacityAssumption DEF RingInv
<1>1. /\ write_index' = write_index /\ read_index' = read_index + 1
      /\ sole' = sole
      /\ data' = data /\ pc' = pc /\ pos' = pos /\ item' = item
      /\ out' = out /\ claims' = claims /\ delivered' = Append(delivered, out)
      /\ cpc' = "idle" /\ cpc = "free"
      /\ sequence' = [sequence EXCEPT ![Slot(read_index)] = read_index + Capacity]
  BY DEF Recycle, RecycledFor, producerVars
<1>2. /\ write_index \in Nat /\ read_index \in Nat /\ Len(claims) = write_index
      /\ Len(delivered) = read_index /\ claims \in Seq(Item)
      /\ delivered \in Seq(Item) /\ sequence \in [Slots -> Nat]
      /\ pos \in [Producers -> Nat]
  BY DEF TypeOK, IndicesMatch
<1>3. /\ sequence[Slot(read_index)] = read_index + 1
      /\ out = claims[read_index + 1]
      /\ read_index \in Window
  BY <1>1, <1>2 DEF ConsumerInv, Window
<1>4. /\ read_index < write_index
      /\ \A p \in Producers : pc[p] \in Holding => pos[p] # read_index
  BY <1>2, <1>3 DEF WindowInv
<1>5. out \in Item
  BY <1>2, <1>3, <1>4
<1>6. /\ delivered' \in Seq(Item)
      /\ Len(delivered') = read_index + 1
      /\ \A k \in 1 .. read_index : delivered'[k] = delivered[k]
      /\ delivered'[read_index + 1] = out
  BY <1>1, <1>2, <1>5, AppendItem
<1>7. \A q \in Window : q # read_index => sequence'[Slot(q)] = sequence[Slot(q)]
  <2> SUFFICES ASSUME NEW q \in Window, q # read_index
               PROVE  sequence'[Slot(q)] = sequence[Slot(q)]
    OBVIOUS
  <2>1. Slot(q) # Slot(read_index)
    BY <1>2, SlotsDiffer DEF Window
  <2> QED BY <2>1, <1>1, <1>2, SlotType DEF Window
<1>8. TypeOK'
  <2>1. read_index + Capacity \in Nat /\ Slot(read_index) \in Slots
    BY <1>2, SlotType
  <2>2. sequence' \in [Slots -> Nat]
    BY <2>1, <1>1, <1>2
  <2> QED BY <2>2, <1>1, <1>2, <1>6 DEF TypeOK
<1>9. IndicesMatch' /\ DeliveredInOrder'
  BY <1>1, <1>2, <1>3, <1>4, <1>6 DEF IndicesMatch, DeliveredInOrder
<1>10. WindowInv'
  <2> SUFFICES ASSUME NEW q \in read_index + 1 .. read_index + Capacity,
                      sequence'[Slot(q)] # q
               PROVE  /\ sequence'[Slot(q)] = q + 1
                      /\ q < write_index
                      /\ data[Slot(q)] = claims[q + 1]
                      /\ \A r \in Producers : pc[r] \in Holding => pos[r] # q
    BY <1>1, <1>2 DEF WindowInv, Window
  <2>1. q # read_index + Capacity
    <3>1. /\ Slot(read_index + Capacity) = Slot(read_index)
          /\ Slot(read_index) \in Slots
      BY <1>2, SlotNextLap, SlotType
    <3>2. sequence'[Slot(read_index + Capacity)] = read_index + Capacity
      BY <3>1, <1>1, <1>2
    <3> QED BY <3>2
  <2>2. q \in Window /\ q # read_index
    BY <2>1, <1>2 DEF Window
  <2> QED BY <2>2, <1>7 DEF WindowInv
<1>11. ClaimedInv'
  <2> SUFFICES ASSUME NEW q \in read_index + 1 .. write_index - 1
               PROVE  \/ \E r \in Producers : pc[r] \in Holding /\ pos[r] = q
                      \/ /\ q < read_index + 1 + Capacity
                         /\ sequence'[Slot(q)] = q + 1
    BY <1>1 DEF ClaimedInv
  <2>1. CASE q < read_index + Capacity
    <3>1. q \in Window /\ q # read_index
      BY <2>1, <1>2 DEF Window
    <3> QED BY <3>1, <1>2, <1>7 DEF ClaimedInv
  <2>2. CASE q >= read_index + Capacity
    BY <2>2, <1>2 DEF ClaimedInv
  <2> QED BY <2>1, <2>2, <1>2
<1>12. HoldersInv'
  <2>1. ASSUME NEW r \in Producers
        PROVE  HolderInv(r)' /\ (pc'[r] # "idle" => MayProduce(r)')
    <3>1. HolderInv(r) /\ pos[r] \in Nat /\ (pc[r] # "idle" => MayProduce(r))
      BY <1>2 DEF HoldersInv
    <3>2. pc[r] \in Holding => read_index + 1 <= pos[r]
      BY <3>1, <1>2, <1>4 DEF HolderInv
    <3>3. pc[r] \in {"copy", "publish", "claim"} =>
             /\ pos[r] < read_index + 1 + Capacity
             /\ sequence'[Slot(pos[r])] = sequence[Slot(pos[r])]
      <4> SUFFICES ASSUME pc[r] \in {"copy", "publish", "claim"}
                   PROVE  /\ pos[r] < read_index + 1 + Capacity
                          /\ sequence'[Slot(pos[r])] = sequence[Slot(pos[r])]
        OBVIOUS
      <4>1. pos[r] \in Window /\ pos[r] # read_index
        BY <3>1, <3>2, <1>2, <1>4 DEF HolderInv, Window, Holding, Trying
      <4> QED BY <4>1, <1>2, <1>7 DEF Window
    <3> QED BY <3>1, <3>2, <3>3, <1>1 DEF HolderInv, SingleProducer, MayProduce
  <2> QED BY <2>1, <1>1 DEF HoldersInv
<1>13. ConsumerInv'
  BY <1>1 DEF ConsumerInv
<1> QED BY <1>8, <1>9, <1>10, <1>11, <1>12, <1>13

-----------------------------------------------------------------------------
\* Every step of a producer or of the consumer keeps the ring's invariant.
LEMMA NextKeepsInv ==
  ASSUME RingInv, [Next]_vars, Capacity >= 2
  PROVE  RingInv'
<1>1. ASSUME NEW p \in Producers, Produce(p) PROVE RingInv'
  BY <1>1, ClaimKeepsInv, SpinEndsKeepsInv, CopyInKeepsInv, PublishKeepsInv DEF Produce
<1>2. ASSUME NEW p \in Producers, TryProduce(p) PROVE RingInv'
  BY <1>2, TryPreludeKeepsInv, TryClaimKeepsInv DEF TryProduce
<1>3. CASE Consume
  BY <1>3, ReadKeepsInv, RecycleKeepsInv DEF Consume
<1>4. CASE UNCHANGED vars
  BY <1>4 DEF vars, RingInv, TypeOK, IndicesMatch, WindowInv, Window, ClaimedInv,
              HoldersInv, HolderInv, SingleProducer, MayProduce, ConsumerInv,
              DeliveredInOrder
<1> QED BY <1>1, <1>2, <1>3, <1>4 DEF Next, Finished

\* The inductive invariant holds in every reachable state of a ring of at
\* least two slots, with any number of producers (produce, try_produce and
\* consume of RingBuffer.hpp).
THEOREM RingInvariant ==
  ASSUME Capacity >= 2
  PROVE  Spec => []RingInv
<1>1. Init => RingInv
  BY InitEstablishesInv
<1>2. RingInv /\ [Next]_vars => RingInv'
  BY NextKeepsInv
<1> QED BY <1>1, <1>2, PTL DEF Spec

\* Type correctness of every variable of the ring.
THEOREM TypeCorrect ==
  ASSUME Capacity >= 2
  PROVE  Spec => []TypeOK
<1>1. RingInv => TypeOK
  BY DEF RingInv
<1> QED BY <1>1, RingInvariant, PTL

\* consume() returns a prefix of the items in claim order: nothing is lost,
\* duplicated or overtaken.
THEOREM InOrderDelivery ==
  ASSUME Capacity >= 2
  PROVE  Spec => []DeliveredInOrder
<1>1. RingInv => DeliveredInOrder
  BY DEF RingInv
<1> QED BY <1>1, RingInvariant, PTL

\* The plain accesses to a slot's payload never overlap, whatever the number
\* of producers and the interleaving.
THEOREM DataRaceFreedom ==
  ASSUME Capacity >= 2
  PROVE  Spec => []NoDataRace
<1>1. RingInv => NoDataRace
  <2> SUFFICES ASSUME RingInv PROVE NoDataRace
    OBVIOUS
  <2> USE CapacityAssumption DEF RingInv
  <2>1. \A p \in Producers : pc[p] = "copy" =>
           /\ pos[p] \in Nat
           /\ read_index <= pos[p]
           /\ pos[p] < read_index + Capacity
           /\ sequence[Slot(pos[p])] = pos[p]
    BY DEF TypeOK, HoldersInv, HolderInv, Holding
  <2>2. ASSUME NEW p \in Producers, NEW q \in Producers, p # q,
               pc[p] = "copy", pc[q] = "copy"
        PROVE  Slot(pos[p]) # Slot(pos[q])
    <3>1. pos[p] # pos[q]
      BY <2>2 DEF HoldersInv, Holding
    <3> QED BY <2>1, <2>2, <3>1
  <2>3. ASSUME NEW p \in Producers, pc[p] = "copy", cpc = "copy"
        PROVE  Slot(pos[p]) # Slot(read_index)
    <3>1. sequence[Slot(read_index)] = read_index + 1
      BY <2>3 DEF ConsumerInv
    <3>2. read_index \in Nat
      BY DEF TypeOK
    <3>3. pos[p] # read_index
      BY <2>1, <2>3, <3>1, <3>2
    <3> QED BY <2>1, <2>3, <3>2, <3>3, SlotsDiffer
  <2> QED BY <2>2, <2>3 DEF NoDataRace
<1> QED BY <1>1, RingInvariant, PTL

\* size_approx never exceeds the ring by more than the producers that are
\* blocked on it.
OccupancyBound ==
  /\ read_index <= write_index
  /\ write_index - read_index <= Capacity + Cardinality(Producers)

\* What size_approx reports (RingBuffer.hpp:249-252) is bounded.  Every position that
\* is handed out a lap or more ahead of the consumer is held by a producer, and no
\* producer holds two: these positions inject into the producers.
THEOREM Occupancy ==
  ASSUME Capacity >= 2, IsFiniteSet(Producers)
  PROVE  Spec => []OccupancyBound
<1>1. RingInv => OccupancyBound
  <2> SUFFICES ASSUME RingInv PROVE OccupancyBound
    OBVIOUS
  <2> DEFINE Ahead  == read_index + Capacity .. write_index - 1
             Holder == [q \in Ahead |->
                          CHOOSE p \in Producers : pc[p] \in Holding /\ pos[p] = q]
  <2>1. /\ read_index \in Nat /\ write_index \in Nat /\ Capacity \in Nat
        /\ read_index <= write_index
    BY CapacityAssumption DEF RingInv, TypeOK, IndicesMatch
  <2>2. \A q \in Ahead : \E p \in Producers : pc[p] \in Holding /\ pos[p] = q
    BY <2>1 DEF RingInv, ClaimedInv
  <2>3. \A q \in Ahead : Holder[q] \in Producers /\ pos[Holder[q]] = q
    BY <2>2
  <2>4. Holder \in Injection(Ahead, Producers)
    BY <2>3 DEF Injection, IsInjective
  <2>5. Cardinality(Ahead) <= Cardinality(Producers)
    BY <2>4, FS_Injection
  <2>6. /\ Cardinality(Ahead) = IF read_index + Capacity > write_index - 1 THEN 0
                                ELSE write_index - 1 - (read_index + Capacity) + 1
        /\ Cardinality(Producers) \in Nat
    BY <2>1, FS_Interval, FS_CardinalityType
  <2> HIDE DEF Ahead
  <2> QED BY <2>1, <2>5, <2>6 DEF OccupancyBound
<1> QED BY <1>1, RingInvariant, PTL

\* try_produce returns false only when the ring is full: Capacity items are
\* accepted and not yet released.
THEOREM NoSpuriousDrop ==
  ASSUME Capacity >= 2
  PROVE  Spec => DropsOnlyWhenFull
<1>1. ASSUME RingInv, NEW p \in Producers, TryFull(p)
      PROVE  write_index - read_index = Capacity
  <2> USE CapacityAssumption DEF RingInv
  <2>1. /\ write_index \in Nat /\ read_index \in Nat /\ read_index <= write_index
    BY <1>1 DEF TypeOK, IndicesMatch
  <2>2. /\ sole = p /\ pos[p] = write_index /\ pc[p] = "try"
        /\ sequence[Slot(write_index)] # write_index
        /\ \A r \in Producers : pc[r] \notin Holding
    BY <1>1, AnyThreadAssumption DEF TryFull, SlotIsFree, HoldersInv, HolderInv,
       Trying, Holding, SingleProducer, MayProduce
  <2>3. write_index >= read_index + Capacity
    <3> SUFFICES ASSUME write_index < read_index + Capacity PROVE FALSE
      BY <2>1
    <3>1. write_index \in Window
      BY <2>1 DEF Window
    <3> QED BY <3>1, <2>1, <2>2, <1>1 DEF WindowInv
  <2>4. write_index - 1 < read_index + Capacity
    <3>1. write_index - 1 \in read_index .. write_index - 1
      BY <2>1, <2>3
    <3> QED BY <3>1, <2>1, <2>2, <1>1 DEF ClaimedInv, Holding
  <2> QED BY <2>1, <2>3, <2>4
<1>2. RingInv /\ [Next]_vars =>
        [\A p \in Producers : TryFull(p) => write_index - read_index = Capacity]_vars
  BY <1>1
<1> QED BY <1>2, RingInvariant, PTL DEF Spec, DropsOnlyWhenFull

\* The ring implements the abstract FIFO queue: a claim accepts an item, the
\* consumer's release delivers the oldest one, every other step is invisible.
THEOREM Refinement ==
  ASSUME Capacity >= 2
  PROVE  Spec => ImplementsQueue
<1>1. Init => Queue!Init
  BY DEF Init, Queue!Init
<1>2. ASSUME RingInv, [Next]_vars PROVE [Queue!Next]_(Queue!queueVars)
  <2> USE DEF RingInv
  <2>1. ASSUME NEW p \in Producers, Claim(p) PROVE Queue!Accept
    BY <2>1 DEF Claim, consumerVars, Queue!Accept
  <2>2. ASSUME NEW p \in Producers, TryClaim(p) PROVE Queue!Accept
    <3>1. item[p] \in Item
      BY <2>2, <1>2 DEF TryClaim, HoldersInv, HolderInv, Trying
    <3> QED BY <2>2, <3>1 DEF TryClaim, consumerVars, Queue!Accept
  <2>3. ASSUME Recycle PROVE Queue!Deliver
    <3>1. /\ out = claims[read_index + 1] /\ Len(delivered) = read_index
          /\ Len(claims) = write_index /\ read_index \in Nat /\ write_index \in Nat
      BY <2>3, <1>2 DEF Recycle, ConsumerInv, IndicesMatch, TypeOK
    <3>2. read_index \in Window /\ sequence[Slot(read_index)] = read_index + 1
      BY <2>3, <3>1, <1>2, CapacityAssumption DEF Recycle, ConsumerInv, Window
    <3>3. read_index < write_index
      BY <3>1, <3>2, <1>2 DEF WindowInv
    <3> QED BY <2>3, <3>1, <3>3 DEF Recycle, Queue!Deliver
  <2>4. ASSUME NEW p \in Producers,
               SpinEnds(p) \/ CopyIn(p) \/ Publish(p) \/ TryLoad(p) \/ TryFull(p)
               \/ TryFree(p)
        PROVE  UNCHANGED Queue!queueVars
    BY <2>4 DEF SpinEnds, CopyIn, Publish, TryLoad, TryFull, TryFree, consumerVars,
                Queue!queueVars
  <2>5. CASE ConsumeReady \/ CopyOut \/ UNCHANGED vars
    BY <2>5 DEF ConsumeReady, CopyOut, vars, Queue!queueVars
  <2> QED BY <1>2, <2>1, <2>2, <2>3, <2>4, <2>5
          DEF Next, Produce, TryProduce, Consume, Finished, Queue!Next
<1> QED BY <1>1, <1>2, RingInvariant, PTL DEF Spec, ImplementsQueue, Queue!Spec

-----------------------------------------------------------------------------
(* Progress at the oldest position: what is left of `every claim is        *)
(* delivered' when the scheduling, which is fairness, is taken away.       *)

\* The head of the ring is never orphaned: whenever a claimed position is not
\* consumed, the consumer or the producer that holds the oldest one can step.
THEOREM HeadCanMove ==
  ASSUME Capacity >= 2
  PROVE  Spec => []HeadIsNeverStuck
<1>1. RingInv => HeadIsNeverStuck
  <2> SUFFICES ASSUME RingInv, read_index < write_index, ~ Ready
               PROVE  \E p \in Producers : /\ pc[p] \in Holding
                                           /\ pos[p] = read_index
                                           /\ pc[p] = "spin" => SlotIsFree(p)
    BY DEF HeadIsNeverStuck
  <2>1. /\ read_index \in read_index .. write_index - 1
        /\ read_index \in Window
    BY CapacityAssumption DEF RingInv, TypeOK, Window
  <2>2. PICK p \in Producers : pc[p] \in Holding /\ pos[p] = read_index
    BY <2>1 DEF RingInv, ClaimedInv, Ready
  <2>3. SlotIsFree(p)
    BY <2>1, <2>2 DEF RingInv, WindowInv, Ready, SlotIsFree
  <2> QED BY <2>2, <2>3
<1> QED BY <1>1, RingInvariant, PTL

\* At the oldest position nobody but its holder stands, and while it is held the
\* consumer waits for it.
LEMMA HolderAtHead ==
  ASSUME RingInv, NEW p \in Producers, pc[p] \in Holding, pos[p] = read_index
  PROVE  /\ ~ Ready
         /\ cpc = "idle"
         /\ \A q \in Producers : pc[q] \in Holding /\ pos[q] = read_index => q = p
<1>1. read_index \in Window /\ read_index \in Nat
  BY CapacityAssumption DEF RingInv, TypeOK, Window
<1>2. ~ Ready
  BY <1>1 DEF RingInv, WindowInv, Ready
<1>3. cpc = "idle"
  BY <1>2 DEF RingInv, ConsumerInv, Ready
<1> QED BY <1>2, <1>3 DEF RingInv, HoldersInv

\* A step that leaves the head's slot, its holder and the consumer alone leaves
\* the number of its steps alone.
LEMMA HeadUndisturbed ==
  ASSUME read_index' = read_index, cpc' = cpc,
         sequence'[Slot(read_index)] = sequence[Slot(read_index)],
         \A q \in Producers : \A stage \in {"copy", "publish"} :
           (pc[q] = stage /\ pos[q] = read_index)
             <=> (pc'[q] = stage /\ pos'[q] = read_index)
  PROVE  StepsLeft' = StepsLeft
<1>1. Ready' <=> Ready
  BY DEF Ready
<1>2. /\ HeldAt("publish")' <=> HeldAt("publish")
      /\ HeldAt("copy")' <=> HeldAt("copy")
  BY DEF HeldAt
<1> HIDE DEF Ready, HeldAt
<1> QED BY <1>1, <1>2 DEF StepsLeft

\* produce() and try_produce() take the head one step closer when they hold it,
\* and leave it alone otherwise.
LEMMA ProducerAtHead ==
  ASSUME RingInv, read_index < write_index, NEW p \in Producers,
         Produce(p) \/ TryProduce(p)
  PROVE  /\ read_index' = read_index
         /\ StepsLeft' <= StepsLeft
         /\ pc[p] \in Holding /\ pos[p] = read_index => StepsLeft' < StepsLeft
<1>1. /\ read_index' = read_index /\ cpc' = cpc
      /\ \A q \in Producers : q # p => pc'[q] = pc[q] /\ pos'[q] = pos[q]
  BY DEF RingInv, TypeOK, Produce, TryProduce, Claim, SpinEnds, CopyIn, Publish, TryLoad,
         TryFull, TryFree, TryClaim, consumerVars
<1>2. /\ read_index \in Nat /\ write_index \in Nat /\ pos \in [Producers -> Nat]
      /\ pc \in [Producers -> ProducerPCs] /\ sequence \in [Slots -> Nat]
      /\ Slot(read_index) \in Slots
  BY SlotType DEF RingInv, TypeOK
<1>3. StepsLeft \in 1 .. 6 /\ StepsLeft' \in 1 .. 6
  BY DEF StepsLeft
<1>4. CASE pc[p] \in Holding /\ pos[p] = read_index
  <2>1. /\ ~ Ready /\ cpc = "idle"
        /\ \A q \in Producers : pc[q] \in Holding /\ pos[q] = read_index => q = p
    BY <1>4, HolderAtHead
  <2>2. CASE SpinEnds(p)
    <3>1. StepsLeft = 6
      BY <2>1, <2>2 DEF StepsLeft, HeldAt, Holding, SpinEnds
    <3>2. pc'[p] = "copy" /\ pos'[p] = read_index /\ sequence' = sequence
      BY <1>2, <1>4, <2>2 DEF SpinEnds, slotVars
    <3>3. ~ Ready' /\ cpc' = "idle" /\ HeldAt("copy")'
      BY <1>1, <2>1, <3>2 DEF Ready, HeldAt
    <3>4. StepsLeft' <= 5
      BY <3>3 DEF StepsLeft
    <3> QED BY <1>1, <1>3, <3>1, <3>4
  <2>3. CASE CopyIn(p)
    <3>1. StepsLeft = 5
      BY <2>1, <2>3, <1>4 DEF StepsLeft, HeldAt, Holding, CopyIn
    <3>2. pc'[p] = "publish" /\ pos'[p] = read_index
      BY <1>2, <1>4, <2>3 DEF CopyIn
    <3>3. cpc' = "idle" /\ HeldAt("publish")'
      BY <1>1, <2>1, <3>2 DEF HeldAt
    <3>4. StepsLeft' <= 4
      BY <3>3 DEF StepsLeft
    <3> QED BY <1>1, <1>3, <3>1, <3>4
  <2>4. CASE Publish(p)
    <3>1. StepsLeft = 4
      BY <2>1, <2>4, <1>4 DEF StepsLeft, HeldAt, Holding, Publish
    <3>2. sequence'[Slot(read_index)] = read_index + 1
      BY <1>2, <1>4, <2>4 DEF Publish
    <3>3. cpc' = "idle" /\ Ready'
      BY <1>1, <2>1, <3>2 DEF Ready
    <3>4. StepsLeft' = 3
      BY <3>3 DEF StepsLeft
    <3> QED BY <1>1, <1>3, <3>1, <3>4
  <2> QED BY <1>4, <2>2, <2>3, <2>4
          DEF Produce, TryProduce, Claim, TryLoad, TryFull, TryFree, TryClaim, Holding
<1>5. CASE ~ (pc[p] \in Holding /\ pos[p] = read_index)
  <2>1. sequence'[Slot(read_index)] = sequence[Slot(read_index)]
    <3>1. CASE Publish(p)
      <4>1. /\ pos[p] # read_index /\ read_index <= pos[p]
            /\ pos[p] < read_index + Capacity
        BY <1>5, <3>1 DEF RingInv, HoldersInv, HolderInv, Publish, Holding
      <4>2. Slot(pos[p]) # Slot(read_index)
        BY <4>1, <1>2, SlotsDiffer
      <4> QED BY <3>1, <4>2, <1>2 DEF Publish
    <3>2. CASE ~ Publish(p)
      BY <3>2 DEF Produce, TryProduce, Claim, SpinEnds, CopyIn, TryLoad, TryFull,
                  TryFree, TryClaim, slotVars
    <3> QED BY <3>1, <3>2
  <2>2. \A stage \in {"copy", "publish"} :
          /\ ~ (pc[p] = stage /\ pos[p] = read_index)
          /\ ~ (pc'[p] = stage /\ pos'[p] = read_index)
    <3>1. pc[p] \in Trying => pos[p] = write_index
      BY DEF RingInv, HoldersInv, HolderInv
    <3> QED BY <1>2, <1>5, <3>1 DEF Holding, Trying, Produce, TryProduce, Claim, SpinEnds,
            CopyIn, Publish, TryLoad, TryFull, TryFree, TryClaim
  <2>3. \A q \in Producers : \A stage \in {"copy", "publish"} :
          (pc[q] = stage /\ pos[q] = read_index)
            <=> (pc'[q] = stage /\ pos'[q] = read_index)
    BY <1>1, <2>2
  <2>4. StepsLeft' = StepsLeft
    BY <1>1, <2>1, <2>3, HeadUndisturbed
  <2> QED BY <1>1, <1>3, <1>5, <2>4
<1> QED BY <1>4, <1>5

\* consume() takes the head one step closer, or releases it.
LEMMA ConsumerAtHead ==
  ASSUME RingInv, Consume
  PROVE  \/ read_index' = read_index + 1
         \/ read_index' = read_index /\ StepsLeft' < StepsLeft
<1>1. CASE ConsumeReady
  <2>1. StepsLeft = 3
    BY <1>1 DEF ConsumeReady, StepsLeft
  <2>2. read_index' = read_index /\ cpc' = "copy"
    BY <1>1 DEF ConsumeReady
  <2>3. StepsLeft' = 2
    BY <2>2 DEF StepsLeft
  <2> QED BY <2>1, <2>2, <2>3
<1>2. CASE CopyOut
  <2>1. StepsLeft = 2
    BY <1>2 DEF CopyOut, StepsLeft
  <2>2. read_index' = read_index /\ cpc' = "free"
    BY <1>2 DEF CopyOut
  <2>3. StepsLeft' = 1
    BY <2>2 DEF StepsLeft
  <2> QED BY <2>1, <2>2, <2>3
<1>3. CASE Recycle
  BY <1>3 DEF Recycle
<1> QED BY <1>1, <1>2, <1>3 DEF Consume

\* No thread undoes progress at the head, and the thread that is at it makes
\* some: at most six steps of the holder and the consumer, however the others
\* interleave, release the oldest claimed position.
THEOREM HeadProgress ==
  ASSUME Capacity >= 2
  PROVE  Spec => HeadOnlyAdvances
<1> DEFINE Advance == read_index < write_index =>
             \/ read_index' = read_index + 1
             \/ /\ read_index' = read_index
                /\ StepsLeft' <= StepsLeft
                /\ HeadMoves => StepsLeft' < StepsLeft
<1>1. ASSUME RingInv, Next, read_index < write_index PROVE Advance
  <2>1. ASSUME NEW p \in Producers, Produce(p) \/ TryProduce(p) PROVE Advance
    <3>1. /\ read_index' = read_index /\ StepsLeft' <= StepsLeft
          /\ pc[p] \in Holding /\ pos[p] = read_index => StepsLeft' < StepsLeft
      BY <1>1, <2>1, ProducerAtHead
    <3>2. ~ Consume
      <4>1. cpc' = cpc /\ read_index' = read_index
        BY <2>1 DEF Produce, TryProduce, Claim, SpinEnds, CopyIn, Publish, TryLoad,
                    TryFull, TryFree, TryClaim, consumerVars
      <4> QED BY <4>1, <1>1 DEF Consume, ConsumeReady, CopyOut, Recycle
    <3>3. \A q \in Producers : pc'[q] # pc[q] => q = p
      BY <1>1, <2>1 DEF RingInv, TypeOK, Produce, TryProduce, Claim, SpinEnds, CopyIn,
         Publish, TryLoad, TryFull, TryFree, TryClaim
    <3> QED BY <3>1, <3>2, <3>3 DEF HeadMoves
  <2>2. CASE Consume
    <3>1. StepsLeft \in 1 .. 6
      BY DEF StepsLeft
    <3>2. StepsLeft' \in 1 .. 6
      BY DEF StepsLeft
    <3> QED BY <1>1, <2>2, <3>1, <3>2, ConsumerAtHead
  <2>3. CASE Finished
    BY <1>1, <2>3 DEF Finished, RingInv, TypeOK
  <2> QED BY <1>1, <2>1, <2>2, <2>3 DEF Next
<1>2. RingInv /\ [Next]_vars => [Advance]_vars
  BY <1>1
<1> QED BY <1>2, RingInvariant, PTL DEF Spec, HeadOnlyAdvances
=============================================================================
