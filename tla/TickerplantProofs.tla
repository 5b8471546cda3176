------------------------- MODULE TickerplantProofs -------------------------
(***************************************************************************)
(* Proofs about the live book for every table size, every set of tokens    *)
(* and readers and any sequence of ticks, rotations, crashes and restarts: *)
(* tokens never share a slot, and a reader sees every tick it has seen     *)
(* counted.  TickerplantJournalProofs has the journal.                     *)
(***************************************************************************)
EXTENDS Tickerplant, SequenceTheorems, TLAPS

\* A consumed tick that is not counted yet.
Uncounted ==
  {"apply", "store", "count", "drain_apply", "drain_store", "drain_count"}

Others == {"top", "consume", "maintain", "drain", "returned", "closed", "down"}

\* The counter follows the ticks consumed.
CountInv ==
  /\ ring \in Seq(Tick)
  /\ consumed \in Seq(Tick)
  /\ ticks_written \in Nat
  /\ budget \in [ticks : Nat, crashes : Nat, failures : Nat, forced : Nat]
  /\ pc \in Uncounted \union Others
  /\ pc \in Others => ticks_written = Len(consumed)
  /\ pc \in Uncounted => /\ ticks_written + 1 = Len(consumed)
                         /\ tick = consumed[Len(consumed)]

\* The slots in use are the first next_idx slots, each by one token; the others
\* are blank.
BookInv ==
  /\ next_idx \in 0 .. MaxTokens
  /\ books \in [Indices -> [Side -> [Word -> Nat]]]
  /\ to_store \subseteq Word
  /\ DOMAIN token_to_idx \subseteq Token
  /\ \A t \in DOMAIN token_to_idx : token_to_idx[t] \in 0 .. next_idx - 1
  /\ \A t, u \in DOMAIN token_to_idx : token_to_idx[t] = token_to_idx[u] => t = u
  /\ \A i \in Indices, side \in Side, word \in Word :
       i >= next_idx => books[i][side][word] = NoQuote

\* How many of the consumed ticks a word of the book, or the token map, has.
WordHas(word) ==
  IF \/ pc \in {"count", "drain_count"}
     \/ pc \in {"store", "drain_store"} /\ word \notin to_store
    THEN Len(consumed)
    ELSE ticks_written

MapHas == IF pc \in {"apply", "drain_apply"} THEN ticks_written ELSE Len(consumed)

\* The book is the history of the consumed ticks.
BookHistory ==
  /\ \A token \in DOMAIN token_to_idx, side \in Side, word \in Word :
       IsLastUpdate(books[token_to_idx[token]][side][word], WordHas(word), token, side)
  /\ \A token \in Token \ DOMAIN token_to_idx, side \in Side :
       Updates(MapHas, token, side) = {} \/ TableFull
  /\ pc \in {"store", "drain_store"} => IsBookEvent(tick) /\ Known(tick.token)

\* What a reader r with the locals me knows.
ReaderOK(r, me) ==
  /\ me.at \in {"idle", "find", "missed", "load"}
  /\ me.at # "idle" => me.count \in 0 .. ticks_written
  /\ me.at = "missed" => Updates(me.count, r.token, r.side) = {} \/ TableFull
  /\ me.at = "load" =>
       /\ Known(r.token)
       /\ me.slot = token_to_idx[r.token]
       /\ \A word \in DOMAIN me.seen : \E n \in me.count .. Len(consumed) :
            IsLastUpdate(me.seen[word], n, r.token, r.side)

ReaderInv ==
  /\ DOMAIN reader = Readers
  /\ \A r \in Readers : ReaderOK(r, reader[r])

-----------------------------------------------------------------------------
(* What the steps are to the book *)

\* Steps that neither consume, apply, count nor read.
Bystander ==
  /\ UNCHANGED <<consumed, tick, ticks_written, applyVars, reader>>
  /\ ring' \in Seq(Tick)
  /\ budget' \in [ticks : Nat, crashes : Nat, failures : Nat, forced : Nat]
  /\ \/ pc' = pc
     \/ pc \in Others /\ pc' \in Others

ConsumeStep ==
  /\ pc \in Others
  /\ pc' \in {"apply", "drain_apply"}
  /\ \E next \in {"apply", "drain_apply"} : ConsumeAndWrite(next)
  /\ UNCHANGED <<ticks_written, budget, applyVars, reader>>

ApplyStep ==
  \/ Apply("apply", "store", "count")
  \/ Apply("drain_apply", "drain_store", "drain_count")

StoreStep == Store("store", "count") \/ Store("drain_store", "drain_count")

CountStep == Count("count", "maintain") \/ Count("drain_count", "drain")

\* Reopen may count a failure.
LEMMA ReopenBudget ==
  ASSUME CountInv, NEW slot, NEW opens, Reopen(slot, opens)
  PROVE  budget' \in [ticks : Nat, crashes : Nat, failures : Nat, forced : Nat]
BY DEF CountInv, Reopen

\* Every step is of one of these kinds.
LEMMA StepKinds ==
  ASSUME CountInv, [Next]_vars
  PROVE  \/ Bystander \/ ConsumeStep \/ ApplyStep \/ StoreStep \/ CountStep
         \/ Crash \/ Read
<1> USE DEF CountInv
<1>1. CASE LoopTop \/ LoopEnds \/ ConsumeEmpty \/ NoMaintenance
  BY <1>1 DEF LoopTop, LoopEnds, ConsumeEmpty, NoMaintenance, Bystander, Others, applyVars,
               logVars
<1>2. CASE ForcedRotation
  BY <1>2, ReopenBudget DEF ForcedRotation, Bystander, Others, applyVars
<1>3. CASE Maintain
  <2>1. budget' \in [ticks : Nat, crashes : Nat, failures : Nat, forced : Nat]
    BY <1>3, ReopenBudget DEF Maintain
  <2> QED
    BY <1>3, <2>1 DEF Maintain, Bystander, Others, applyVars
<1>4. CASE Consume \/ Drain
  BY <1>4 DEF Consume, Drain, ConsumeAndWrite, ConsumeStep, Others, applyVars
<1>5. CASE \/ BufferSpills \/ DrainEnds \/ FeedStops \/ Stop \/ Destroy
           \/ Restart \/ Advance \/ FlushFinds \/ FlushUploads \/ FlushDeletes
           \/ Terminated \/ UNCHANGED vars
  BY <1>5
     DEF BufferSpills, DrainEnds, FeedStops, Stop, Destroy, Restart, Advance,
         FlushFinds, FlushUploads, FlushDeletes, Terminated, Bystander, Others, vars,
         runVars, logVars, applyVars
<1>6. CASE ForceRotate
  BY <1>6 DEF ForceRotate, Bystander, applyVars, logVars
<1>7. CASE TickArrives
  <2>1. ASSUME NEW kind \in Kinds
        PROVE  [id |-> budget.ticks + 1, token |-> kind.token, side |-> kind.side,
                event_type |-> kind.event_type] \in Tick
    BY KindsAssumption DEF Tick
  <2>0. /\ UNCHANGED <<consumed, tick, ticks_written, applyVars, reader, pc>>
        /\ budget' \in [ticks : Nat, crashes : Nat, failures : Nat, forced : Nat]
    BY <1>7 DEF TickArrives, runVars, logVars
  <2>2. CASE UNCHANGED ring
    BY <2>0, <2>2 DEF Bystander
  <2>3. CASE \E kind \in Kinds :
               ring' = Append(ring, [id |-> budget.ticks + 1, token |-> kind.token,
                                     side |-> kind.side,
                                     event_type |-> kind.event_type])
    <3>1. ring' \in Seq(Tick)
      BY <2>1, <2>3
    <3> QED
      BY <2>0, <3>1 DEF Bystander
  <2>4. \/ UNCHANGED ring
        \/ \E kind \in Kinds :
             ring' = Append(ring, [id |-> budget.ticks + 1, token |-> kind.token,
                                   side |-> kind.side, event_type |-> kind.event_type])
    BY <1>7 DEF TickArrives
  <2> QED
    BY <2>2, <2>3, <2>4
<1> QED
  BY <1>1, <1>2, <1>3, <1>4, <1>5, <1>6, <1>7
     DEF Next, HotLoop, DrainLoop, HourlyFlush, ApplyStep, StoreStep, CountStep

\* Consuming takes a tick off the ring.
LEMMA ConsumeFacts ==
  ASSUME CountInv, ConsumeStep
  PROVE  /\ tick' \in Tick
         /\ tick' = Head(ring)
         /\ consumed' = Append(consumed, tick')
         /\ consumed' \in Seq(Tick)
         /\ Len(consumed') = Len(consumed) + 1
         /\ consumed'[Len(consumed')] = tick'
         /\ \A k \in 1 .. Len(consumed) : consumed'[k] = consumed[k]
         /\ ring' \in Seq(Tick)
<1>1. ring # << >> /\ ring' = Tail(ring) /\ tick' = Head(ring)
      /\ consumed' = Append(consumed, Head(ring))
  BY DEF ConsumeStep, ConsumeAndWrite
<1>2. Head(ring) \in Tick /\ Tail(ring) \in Seq(Tick)
  BY <1>1 DEF CountInv
<1> QED
  BY <1>1, <1>2 DEF CountInv

\* The counter at each step.
LEMMA StepKeepsCountInv == CountInv /\ [Next]_vars => CountInv'
<1> SUFFICES ASSUME CountInv, [Next]_vars PROVE CountInv'
  OBVIOUS
<1> USE DEF CountInv, Uncounted, Others
<1>1. CASE Bystander
  BY <1>1 DEF Bystander
<1>2. CASE ConsumeStep
  BY <1>2, ConsumeFacts DEF ConsumeStep
<1>3. CASE ApplyStep
  BY <1>3 DEF ApplyStep, Apply, logVars
<1>4. CASE StoreStep
  BY <1>4 DEF StoreStep, Store, logVars
<1>5. CASE CountStep
  BY <1>5 DEF CountStep, Count, logVars
<1>6. CASE Crash
  BY <1>6 DEF Crash
<1>7. CASE Read
  BY <1>7 DEF Read, ReadCount, FindIndex, Load, runVars, logVars
<1> QED
  BY <1>1, <1>2, <1>3, <1>4, <1>5, <1>6, <1>7, StepKinds

\* Nothing is consumed at the start.
LEMMA InitEstablishesCountInv == Init => CountInv
BY DEF Init, CountInv, Uncounted, Others

-----------------------------------------------------------------------------
(* Slots *)

\* What apply_tick maintains gives the property.
LEMMA BookInvImpliesOneSlot == BookInv => OneSlotPerToken
BY IndexAssumption DEF BookInv, OneSlotPerToken, IsInjective, Indices

\* What a step that finds or claims a slot does to the map.
LEMMA SlotFound ==
  ASSUME BookInv, NEW t \in Token, FindOrClaimSlot(t)
  PROVE  /\ next_idx \in Nat /\ next_idx' \in next_idx .. MaxTokens
         /\ DOMAIN token_to_idx' = DOMAIN token_to_idx \union {t}
         /\ \A u \in DOMAIN token_to_idx : token_to_idx'[u] = token_to_idx[u]
         /\ t \notin DOMAIN token_to_idx =>
              /\ ~ TableFull
              /\ token_to_idx'[t] = next_idx
              /\ next_idx' = next_idx + 1
              /\ next_idx \in Indices
<1>0. next_idx \in Nat /\ MaxTokens \in Nat /\ next_idx <= MaxTokens
  BY IndexAssumption DEF BookInv
<1>1. CASE Known(t) /\ UNCHANGED <<token_to_idx, next_idx>>
  <2>1. t \in DOMAIN token_to_idx
    BY <1>1 DEF Known
  <2>2. next_idx' \in next_idx .. MaxTokens
    BY <1>0, <1>1
  <2> QED
    BY <1>0, <1>1, <2>1, <2>2
<1>2. CASE /\ ~ Known(t)
           /\ ~ TableFull
           /\ next_idx' = Increment(next_idx)
           /\ token_to_idx' = [u \in DOMAIN token_to_idx \union {t} |->
                                 IF u = t THEN next_idx ELSE token_to_idx[u]]
  <2>1. next_idx \in Nat /\ next_idx < MaxTokens /\ MaxTokens \in Nat
    BY <1>0, <1>2 DEF TableFull
  <2>2. next_idx' = next_idx + 1
    <3>1. next_idx + 1 < IndexRange /\ IndexRange \in Nat
      BY <2>1, IndexAssumption
    <3> QED
      BY <1>2, <2>1, <3>1 DEF Increment
  <2> QED
    BY <1>2, <2>1, <2>2 DEF Known, Indices
<1> QED
  BY <1>1, <1>2 DEF FindOrClaimSlot

\* A store changes one word of the token's slot.
LEMMA WordStored ==
  ASSUME BookInv, NEW t \in Tick, Known(t.token), NEW word \in Word, StoreWord(t, word)
  PROVE  /\ books' \in [Indices -> [Side -> [Word -> Nat]]]
         /\ \A i \in Indices, s \in Side, w \in Word :
              books'[i][s][w] = IF i = token_to_idx[t.token] /\ s = t.side /\ w = word
                                  THEN t.id
                                  ELSE books[i][s][w]
<1>1. t.side \in Side /\ t.id \in Nat
  BY DEF Tick
<1>2. token_to_idx[t.token] \in Indices
  BY IndexAssumption DEF BookInv, Known, Indices
<1>3. books \in [Indices -> [Side -> [Word -> Nat]]]
  BY DEF BookInv
<1> DEFINE i0 == token_to_idx[t.token]
           row == [books[i0] EXCEPT ![t.side] = [@ EXCEPT ![word] = t.id]]
<1>4. row \in [Side -> [Word -> Nat]]
  BY <1>1, <1>2, <1>3
<1>5. books' = [books EXCEPT ![i0] = row]
  BY DEF StoreWord
<1> QED
  BY <1>1, <1>2, <1>3, <1>4, <1>5

\* The tick that is being applied.
LEMMA TickIsConsumed ==
  ASSUME CountInv, pc \in Uncounted
  PROVE  /\ tick \in Tick /\ tick.token \in Token /\ tick.side \in Side
         /\ tick.id \in Nat /\ tick = consumed[Len(consumed)] /\ Len(consumed) \in Nat \ {0}
         /\ ticks_written + 1 = Len(consumed)
<1>1. consumed \in Seq(Tick) /\ ticks_written \in Nat /\ ticks_written + 1 = Len(consumed)
      /\ tick = consumed[Len(consumed)]
  BY DEF CountInv
<1>2. Len(consumed) \in Nat \ {0}
  BY <1>1
<1>3. tick \in Tick
  BY <1>1, <1>2
<1> QED
  BY <1>1, <1>2, <1>3 DEF Tick

\* The counter stops at the table's size, below the range of its 16 bits.
LEMMA StepKeepsBookInv ==
  CountInv /\ BookHistory /\ BookInv /\ [Next]_vars => BookInv'
<1> SUFFICES ASSUME CountInv, BookHistory, BookInv, [Next]_vars PROVE BookInv'
  OBVIOUS
<1>1. ASSUME UNCHANGED <<bookVars, to_store>> PROVE BookInv'
  BY <1>1 DEF BookInv, bookVars
<1>2. CASE ApplyStep
  <2>1. CASE UNCHANGED <<bookVars, to_store>>
    BY <1>1, <2>1
  <2>2. CASE FindOrClaimSlot(tick.token) /\ UNCHANGED books
    <3>1. tick.token \in Token
      BY <1>2, TickIsConsumed DEF ApplyStep, Apply, Uncounted
    <3>2. to_store' \subseteq Word
      BY <1>2 DEF ApplyStep, Apply, BookInv
    <3> DEFINE t == tick.token
    <3>3. /\ next_idx \in Nat /\ next_idx' \in next_idx .. MaxTokens
          /\ DOMAIN token_to_idx' = DOMAIN token_to_idx \union {t}
          /\ \A u \in DOMAIN token_to_idx : token_to_idx'[u] = token_to_idx[u]
          /\ t \notin DOMAIN token_to_idx =>
               token_to_idx'[t] = next_idx /\ next_idx' = next_idx + 1
      BY <2>2, <3>1, SlotFound
    <3>4. next_idx' \in 0 .. MaxTokens
      BY <3>3, IndexAssumption
    <3>5. CASE t \in DOMAIN token_to_idx
      BY <2>2, <3>2, <3>3, <3>4, <3>5 DEF BookInv, Indices
    <3>6. CASE t \notin DOMAIN token_to_idx
      <4>1. \A u \in DOMAIN token_to_idx' : token_to_idx'[u] \in 0 .. next_idx' - 1
        BY <3>3, <3>6 DEF BookInv
      <4>2. \A u, v \in DOMAIN token_to_idx' : token_to_idx'[u] = token_to_idx'[v] => u = v
        BY <3>3, <3>6 DEF BookInv
      <4> QED
        BY <2>2, <3>1, <3>2, <3>3, <3>4, <4>1, <4>2 DEF BookInv, Indices
    <3> QED
      BY <3>5, <3>6
  <2> QED
    BY <1>2, <2>1, <2>2 DEF ApplyStep, Apply, bookVars
<1>3. CASE StoreStep
  <2>1. pc \in {"store", "drain_store"}
    BY <1>3 DEF StoreStep, Store
  <2>2. tick \in Tick /\ Known(tick.token)
    BY <2>1, TickIsConsumed DEF BookHistory, Uncounted
  <2>3. PICK word \in Word : StoreWord(tick, word)
    BY <1>3 DEF StoreStep, Store, BookInv
  <2>4. UNCHANGED <<token_to_idx, next_idx>>
    BY <1>3 DEF StoreStep, Store
  <2>5. token_to_idx[tick.token] < next_idx /\ next_idx \in Nat
    BY <2>2, IndexAssumption DEF BookInv, Known
  <2>6. to_store' \subseteq Word
    BY <1>3 DEF StoreStep, Store, BookInv
  <2>7. /\ books' \in [Indices -> [Side -> [Word -> Nat]]]
        /\ \A i \in Indices, s \in Side, w \in Word :
             i >= next_idx => books'[i][s][w] = NoQuote
    <3>1. /\ books' \in [Indices -> [Side -> [Word -> Nat]]]
          /\ \A i \in Indices, s \in Side, w \in Word :
               i # token_to_idx[tick.token] => books'[i][s][w] = books[i][s][w]
      BY <2>2, <2>3, WordStored
    <3>2. \A i \in Indices : i >= next_idx => i # token_to_idx[tick.token]
      <4>1. token_to_idx[tick.token] \in 0 .. next_idx - 1
        BY <2>2 DEF BookInv, Known
      <4> QED
        BY <2>5, <4>1 DEF Indices
    <3> QED
      BY <3>1, <3>2 DEF BookInv
  <2>8. /\ next_idx' \in 0 .. MaxTokens
        /\ DOMAIN token_to_idx' \subseteq Token
        /\ \A t \in DOMAIN token_to_idx' : token_to_idx'[t] \in 0 .. next_idx' - 1
        /\ \A t, u \in DOMAIN token_to_idx' : token_to_idx'[t] = token_to_idx'[u] => t = u
    BY <2>4 DEF BookInv
  <2> HIDE DEF BookInv
  <2> QED
    BY <2>4, <2>6, <2>7, <2>8 DEF BookInv
<1>4. CASE Crash
  BY <1>4, IndexAssumption DEF Crash, BookInv, NoQuote
<1>5. CASE Bystander \/ ConsumeStep \/ CountStep \/ Read
  BY <1>1, <1>5
     DEF Bystander, ConsumeStep, CountStep, Count, Read, ReadCount, FindIndex, Load,
         applyVars
<1> QED
  BY <1>2, <1>3, <1>4, <1>5, StepKinds

\* The book starts without tokens.
LEMMA InitEstablishesBookInv == Init => BookInv
BY IndexAssumption DEF Init, BookInit, BookInv, NoQuote

-----------------------------------------------------------------------------
(* The history in the book *)

Moves(t, token, side) == t.token = token /\ t.side = side /\ t.event_type = 0

\* One more tick: the last update is that tick, if it moves the side, or the old one.
LEMMA NextUpdate ==
  ASSUME NEW n \in Nat \ {0}, NEW token, NEW side
  PROVE  /\ Moves(consumed[n], token, side) =>
              IsLastUpdate(consumed[n].id, n, token, side)
         /\ ~ Moves(consumed[n], token, side) =>
              /\ Updates(n, token, side) = Updates(n - 1, token, side)
              /\ \A quote : IsLastUpdate(quote, n - 1, token, side) =>
                             IsLastUpdate(quote, n, token, side)
<1> DEFINE hits == Updates(n, token, side)
<1>1. ASSUME Moves(consumed[n], token, side)
      PROVE  IsLastUpdate(consumed[n].id, n, token, side)
  <2>1. n \in hits /\ \A j \in hits : j <= n
    BY <1>1 DEF Updates, Moves
  <2> QED
    BY <2>1 DEF IsLastUpdate
<1>2. ASSUME ~ Moves(consumed[n], token, side)
      PROVE  Updates(n, token, side) = Updates(n - 1, token, side)
  BY <1>2 DEF Updates, Moves
<1>3. ASSUME ~ Moves(consumed[n], token, side), NEW quote,
             IsLastUpdate(quote, n - 1, token, side)
      PROVE  IsLastUpdate(quote, n, token, side)
  BY <1>2, <1>3 DEF IsLastUpdate
<1> QED
  BY <1>1, <1>2, <1>3

\* The history of the ticks consumed before does not change.
LEMMA HistoryStays ==
  ASSUME NEW n \in Nat, \A k \in 1 .. n : consumed'[k] = consumed[k],
         NEW token, NEW side
  PROVE  /\ Updates(n, token, side)' = Updates(n, token, side)
         /\ \A quote : IsLastUpdate(quote, n, token, side) =>
                        IsLastUpdate(quote, n, token, side)'
<1>1. Updates(n, token, side)' = Updates(n, token, side)
  BY DEF Updates
<1>2. \A k \in Updates(n, token, side) : consumed'[k] = consumed[k]
  BY DEF Updates
<1> QED
  BY <1>1, <1>2 DEF IsLastUpdate

\* Nothing is in the book at the start.
LEMMA InitEstablishesHistory == Init => BookHistory /\ ReaderInv
<1> SUFFICES ASSUME Init PROVE BookHistory /\ ReaderInv
  OBVIOUS
<1>1. \A token, side : Updates(0, token, side) = {}
  BY DEF Updates
<1> QED
  BY <1>1 DEF Init, BookInit, BookHistory, ReaderInv, ReaderOK, MapHas, Idle

\* Steps that do not touch the book, the counter or the readers.
LEMMA BystanderKeepsHistory ==
  ASSUME CountInv, BookHistory, Bystander
  PROVE  BookHistory'
<1>1. UNCHANGED <<consumed, ticks_written, token_to_idx, next_idx, books, to_store, tick>>
  BY DEF Bystander, applyVars, bookVars
<1>2. ASSUME NEW w PROVE WordHas(w)' = WordHas(w)
  BY <1>1 DEF Bystander, WordHas, Others
<1>3. MapHas' = MapHas
  BY <1>1 DEF Bystander, MapHas, Others
<1>4. ASSUME NEW n, NEW token, NEW side
      PROVE  /\ Updates(n, token, side)' = Updates(n, token, side)
             /\ \A quote : IsLastUpdate(quote, n, token, side)' <=>
                           IsLastUpdate(quote, n, token, side)
  BY <1>1 DEF IsLastUpdate, Updates
<1>5. pc' \in {"store", "drain_store"} => pc \in {"store", "drain_store"}
  BY DEF Bystander, Others
<1> QED
  BY <1>1, <1>2, <1>3, <1>4, <1>5 DEF BookHistory, TableFull, Known, IsBookEvent

\* A consumed tick is not in the book yet.
LEMMA ConsumeKeepsHistory ==
  ASSUME CountInv, BookHistory, ConsumeStep
  PROVE  BookHistory'
<1>1. UNCHANGED <<ticks_written, token_to_idx, next_idx, books>>
  BY DEF ConsumeStep, applyVars, bookVars
<1>2. ticks_written = Len(consumed) /\ ticks_written \in Nat
  BY DEF CountInv, ConsumeStep
<1>3. ASSUME NEW w PROVE WordHas(w)' = WordHas(w) /\ WordHas(w) = ticks_written
  BY <1>1, <1>2 DEF ConsumeStep, WordHas, Others
<1>4. MapHas' = MapHas /\ MapHas = ticks_written
  BY <1>1, <1>2 DEF ConsumeStep, MapHas, Others
<1>5. ASSUME NEW token, NEW side
      PROVE  /\ Updates(ticks_written, token, side)' = Updates(ticks_written, token, side)
             /\ \A quote : IsLastUpdate(quote, ticks_written, token, side) =>
                           IsLastUpdate(quote, ticks_written, token, side)'
  <2>1. \A k \in 1 .. ticks_written : consumed'[k] = consumed[k]
    BY <1>2, ConsumeFacts
  <2>2. Updates(ticks_written', token, side) = Updates(ticks_written, token, side)
    BY <1>1
  <2> QED
    BY <1>1, <1>2, <2>1, <2>2, HistoryStays DEF Updates, IsLastUpdate
<1>6. \A token \in DOMAIN token_to_idx', side \in Side, word \in Word :
        IsLastUpdate(books[token_to_idx[token]][side][word], WordHas(word), token, side)'
  BY <1>1, <1>3, <1>5 DEF BookHistory
<1>7. \A token \in Token \ DOMAIN token_to_idx', side \in Side :
        Updates(MapHas, token, side)' = {} \/ TableFull'
  BY <1>1, <1>4, <1>5 DEF BookHistory, TableFull
<1>8. pc' \notin {"store", "drain_store"}
  BY DEF ConsumeStep
<1> QED
  BY <1>6, <1>7, <1>8 DEF BookHistory

\* The tick's slot is found or claimed; a new token has had no updates, and its
\* slot is blank.
LEMMA ApplyKeepsHistory ==
  ASSUME CountInv, BookInv, BookHistory, ApplyStep
  PROVE  BookHistory'
<1> DEFINE n == Len(consumed)
<1>1. /\ pc \in {"apply", "drain_apply"}
      /\ UNCHANGED <<consumed, ticks_written, tick, books>>
      /\ tick \in Tick /\ tick.token \in Token
      /\ tick = consumed[n] /\ n \in Nat \ {0} /\ ticks_written = n - 1
  <2>1. /\ pc \in {"apply", "drain_apply"}
        /\ UNCHANGED <<consumed, ticks_written, tick, books>>
    BY DEF ApplyStep, Apply, logVars
  <2>2. pc \in Uncounted /\ ticks_written \in Nat
    BY <2>1 DEF Uncounted, CountInv
  <2> QED
    BY <2>1, <2>2, TickIsConsumed
<1>2. ASSUME NEW m, NEW token, NEW side
      PROVE  /\ Updates(m, token, side)' = Updates(m', token, side)
             /\ \A quote : IsLastUpdate(quote, m, token, side)' <=>
                           IsLastUpdate(quote, m', token, side)
  BY <1>1 DEF Updates, IsLastUpdate
<1>3. MapHas = n - 1 /\ \A w : WordHas(w) = n - 1
  BY <1>1 DEF MapHas, WordHas
<1>4. pc' \in {"store", "drain_store", "count", "drain_count"} /\ MapHas' = n
  BY <1>1 DEF ApplyStep, Apply, MapHas
<1>5. CASE IsBookEvent(tick) /\ ~ Dropped(tick.token)
  <2>1. /\ FindOrClaimSlot(tick.token)
        /\ to_store' = Word
        /\ pc' \in {"store", "drain_store"}
    BY <1>5 DEF ApplyStep, Apply
  <2> DEFINE t == tick.token
  <2>2. /\ next_idx \in Nat /\ next_idx' \in next_idx .. MaxTokens
        /\ DOMAIN token_to_idx' = DOMAIN token_to_idx \union {t}
        /\ \A u \in DOMAIN token_to_idx : token_to_idx'[u] = token_to_idx[u]
        /\ t \notin DOMAIN token_to_idx =>
             /\ ~ TableFull
             /\ token_to_idx'[t] = next_idx
             /\ next_idx \in Indices
    BY <1>1, <2>1, SlotFound
  <2>3. \A w \in Word : WordHas(w)' = n - 1
    BY <1>1, <2>1 DEF WordHas
  <2>4. ASSUME NEW token \in DOMAIN token_to_idx', NEW side \in Side, NEW word \in Word
        PROVE  IsLastUpdate(books[token_to_idx'[token]][side][word], n - 1, token, side)
    <3>1. CASE token \in DOMAIN token_to_idx
      BY <1>3, <2>2, <3>1 DEF BookHistory
    <3>2. CASE token = t /\ t \notin DOMAIN token_to_idx
      <4>1. Updates(n - 1, token, side) = {}
        BY <1>1, <1>3, <2>2, <3>2 DEF BookHistory
      <4>2. books[next_idx][side][word] = NoQuote
        BY <2>2, <3>2 DEF BookInv
      <4> QED
        BY <2>2, <3>2, <4>1, <4>2 DEF IsLastUpdate
    <3> QED
      BY <2>2, <3>1, <3>2
  <2>5. \A token \in DOMAIN token_to_idx', side \in Side, word \in Word :
          IsLastUpdate(books[token_to_idx[token]][side][word], WordHas(word), token, side)'
    BY <1>1, <1>2, <2>3, <2>4
  <2>6. ASSUME NEW token \in Token \ DOMAIN token_to_idx', NEW side \in Side
        PROVE  Updates(MapHas, token, side)' = {} \/ TableFull'
    <3>1. token # t /\ token \notin DOMAIN token_to_idx
      BY <2>2
    <3>2. ~ Moves(consumed[n], token, side)
      BY <1>1, <3>1 DEF Moves
    <3>3. Updates(n, token, side) = {} \/ TableFull
      BY <1>1, <1>3, <3>1, <3>2, NextUpdate DEF BookHistory
    <3>4. TableFull => TableFull'
      BY <2>2, IndexAssumption DEF TableFull
    <3> QED
      BY <1>2, <1>4, <3>3, <3>4
  <2>7. IsBookEvent(tick)' /\ Known(tick.token)'
    BY <1>1, <1>5, <2>2 DEF IsBookEvent, Known
  <2> QED
    BY <2>5, <2>6, <2>7 DEF BookHistory
<1>6. CASE ~ IsBookEvent(tick) \/ Dropped(tick.token)
  <2>1. /\ UNCHANGED <<token_to_idx, next_idx>>
        /\ pc' \in {"count", "drain_count"}
    BY <1>6 DEF ApplyStep, Apply
  <2>2. \A w \in Word : WordHas(w)' = n
    BY <1>1, <2>1 DEF WordHas
  <2>3. ASSUME NEW token \in DOMAIN token_to_idx, NEW side \in Side
        PROVE  ~ Moves(consumed[n], token, side)
    BY <1>1, <1>6 DEF Moves, IsBookEvent, Dropped, Known
  <2>4. \A token \in DOMAIN token_to_idx', side \in Side, word \in Word :
          IsLastUpdate(books[token_to_idx[token]][side][word], WordHas(word), token, side)'
    BY <1>1, <1>2, <1>3, <2>1, <2>2, <2>3, NextUpdate DEF BookHistory
  <2>5. ASSUME NEW token \in Token \ DOMAIN token_to_idx', NEW side \in Side
        PROVE  Updates(MapHas, token, side)' = {} \/ TableFull'
    <3>1. Moves(consumed[n], token, side) => TableFull
      BY <1>1, <1>6 DEF Moves, IsBookEvent, Dropped
    <3>2. Updates(n, token, side) = {} \/ TableFull
      BY <1>1, <1>3, <2>1, <3>1, NextUpdate DEF BookHistory
    <3> QED
      BY <1>2, <1>4, <2>1, <3>2 DEF TableFull
  <2> QED
    BY <2>1, <2>4, <2>5 DEF BookHistory
<1> QED
  BY <1>5, <1>6

\* A store brings one word of the tick's side up to date.
LEMMA StoreKeepsHistory ==
  ASSUME CountInv, BookInv, BookHistory, StoreStep
  PROVE  BookHistory'
<1> DEFINE n == Len(consumed)
           t == tick.token
<1>1. /\ pc \in {"store", "drain_store"}
      /\ UNCHANGED <<consumed, ticks_written, tick, token_to_idx, next_idx>>
  BY DEF StoreStep, Store, logVars
<1>2. /\ tick \in Tick /\ t \in Token /\ tick.side \in Side
      /\ tick = consumed[n] /\ n \in Nat \ {0} /\ ticks_written = n - 1
  <2>1. pc \in Uncounted /\ ticks_written \in Nat
    BY <1>1 DEF Uncounted, CountInv
  <2> QED
    BY <2>1, TickIsConsumed
<1>3. Known(t) /\ Moves(consumed[n], t, tick.side)
  BY <1>1, <1>2 DEF BookHistory, IsBookEvent, Moves
<1>4. PICK word \in Word :
        /\ word \in to_store
        /\ StoreWord(tick, word)
        /\ to_store' = to_store \ {word}
  BY DEF StoreStep, Store, BookInv
<1>5. /\ \/ pc' \in {"store", "drain_store"}
         \/ pc' \in {"count", "drain_count"} /\ to_store' = {}
  BY DEF StoreStep, Store
<1>6. \A w \in Word : /\ WordHas(w) = (IF w \in to_store THEN n - 1 ELSE n)
                      /\ WordHas(w)' = (IF w \in to_store' THEN n - 1 ELSE n)
  BY <1>1, <1>2, <1>5 DEF WordHas
<1>7. \A i \in Indices, side \in Side, w \in Word :
        books'[i][side][w] = IF i = token_to_idx[t] /\ side = tick.side /\ w = word
                               THEN tick.id
                               ELSE books[i][side][w]
  BY <1>2, <1>3, <1>4, WordStored
<1>8. \A u \in DOMAIN token_to_idx :
        token_to_idx[u] \in Indices /\ (token_to_idx[u] = token_to_idx[t] => u = t)
  BY <1>3, IndexAssumption DEF BookInv, Known, Indices
<1>9. ASSUME NEW token \in DOMAIN token_to_idx, NEW side \in Side, NEW w \in Word
      PROVE  IsLastUpdate(books'[token_to_idx[token]][side][w],
                          IF w \in to_store' THEN n - 1 ELSE n, token, side)
  <2>1. CASE token = t /\ side = tick.side /\ w = word
    <3>1. books'[token_to_idx[token]][side][w] = consumed[n].id
      BY <1>2, <1>7, <1>8, <2>1
    <3>2. w \notin to_store'
      BY <1>4, <2>1
    <3> QED
      BY <1>2, <1>3, <2>1, <3>1, <3>2, NextUpdate
  <2>2. CASE ~ (token = t /\ side = tick.side) /\ w = word
    <3>1. books'[token_to_idx[token]][side][w] = books[token_to_idx[token]][side][w]
      BY <1>7, <1>8, <2>2
    <3>2. IsLastUpdate(books[token_to_idx[token]][side][w], n - 1, token, side)
      BY <1>4, <1>6, <2>2 DEF BookHistory
    <3>3. ~ Moves(consumed[n], token, side)
      BY <1>2, <2>2 DEF Moves
    <3>4. w \notin to_store'
      BY <1>4, <2>2
    <3> QED
      BY <1>2, <3>1, <3>2, <3>3, <3>4, NextUpdate
  <2>3. CASE w # word
    <3>1. books'[token_to_idx[token]][side][w] = books[token_to_idx[token]][side][w]
      BY <1>7, <1>8, <2>3
    <3>2. w \in to_store' <=> w \in to_store
      BY <1>4, <2>3
    <3>3. IsLastUpdate(books[token_to_idx[token]][side][w], WordHas(w), token, side)
      BY DEF BookHistory
    <3> QED
      BY <1>6, <3>1, <3>2, <3>3
  <2> QED
    BY <2>1, <2>2, <2>3
<1>10. ASSUME NEW m, NEW token, NEW side
       PROVE  /\ Updates(m, token, side)' = Updates(m', token, side)
              /\ \A quote : IsLastUpdate(quote, m, token, side)' <=>
                            IsLastUpdate(quote, m', token, side)
  BY <1>1 DEF Updates, IsLastUpdate
<1>11. ASSUME NEW token \in DOMAIN token_to_idx', NEW side \in Side, NEW w \in Word
       PROVE  IsLastUpdate(books[token_to_idx[token]][side][w], WordHas(w), token, side)'
  <2>1. IsLastUpdate(books'[token_to_idx'[token]][side][w], WordHas(w)', token, side)
    BY <1>1, <1>6, <1>9
  <2> QED
    BY <1>10, <2>1
<1>12. MapHas' = MapHas
  BY <1>1, <1>5 DEF MapHas
<1>13. \A token \in Token \ DOMAIN token_to_idx', side \in Side :
         Updates(MapHas, token, side)' = {} \/ TableFull'
  BY <1>1, <1>10, <1>12 DEF BookHistory, TableFull
<1>14. pc' \in {"store", "drain_store"} => IsBookEvent(tick)' /\ Known(tick.token)'
  BY <1>1 DEF BookHistory, IsBookEvent, Known
<1> QED
  BY <1>11, <1>13, <1>14 DEF BookHistory

\* When the tick is counted, it is in the book.
LEMMA CountKeepsHistory ==
  ASSUME CountInv, BookHistory, CountStep
  PROVE  BookHistory'
<1>1. /\ pc \in {"count", "drain_count"}
      /\ pc' \in {"maintain", "drain"}
      /\ UNCHANGED <<consumed, tick, applyVars>>
      /\ ticks_written' = Len(consumed)
  BY DEF CountStep, Count, logVars, CountInv, Uncounted
<1>2. /\ \A w : WordHas(w) = Len(consumed) /\ WordHas(w)' = Len(consumed)
      /\ MapHas = Len(consumed) /\ MapHas' = Len(consumed)
  BY <1>1 DEF WordHas, MapHas
<1>3. ASSUME NEW m, NEW token, NEW side
      PROVE  /\ Updates(m, token, side)' = Updates(m', token, side)
             /\ \A quote : IsLastUpdate(quote, m, token, side)' <=>
                           IsLastUpdate(quote, m', token, side)
  BY <1>1 DEF Updates, IsLastUpdate
<1>4. \A token \in DOMAIN token_to_idx', side \in Side, w \in Word :
        IsLastUpdate(books[token_to_idx[token]][side][w], WordHas(w), token, side)'
  BY <1>1, <1>2, <1>3 DEF BookHistory, applyVars, bookVars
<1>5. \A token \in Token \ DOMAIN token_to_idx', side \in Side :
        Updates(MapHas, token, side)' = {} \/ TableFull'
  BY <1>1, <1>2, <1>3 DEF BookHistory, applyVars, bookVars, TableFull
<1> QED
  BY <1>1, <1>4, <1>5 DEF BookHistory

LEMMA StepKeepsHistory ==
  CountInv /\ BookInv /\ BookHistory /\ [Next]_vars => BookHistory'
<1> SUFFICES ASSUME CountInv, BookInv, BookHistory, [Next]_vars PROVE BookHistory'
  OBVIOUS
<1>1. CASE Crash
  <2>1. \A token, side : Updates(0, token, side)' = {}
    BY DEF Updates
  <2> QED
    BY <1>1, <2>1 DEF Crash, BookHistory, MapHas
<1>2. CASE Read
  <2>1. UNCHANGED <<consumed, tick, ticks_written, pc, to_store, bookVars>>
    BY <1>2 DEF Read, ReadCount, FindIndex, Load, runVars, logVars, applyVars
  <2> QED
    BY <2>1 DEF BookHistory, bookVars, WordHas, MapHas, Updates, IsLastUpdate, TableFull,
                Known, IsBookEvent
<1> QED
  BY <1>1, <1>2, StepKinds, BystanderKeepsHistory, ConsumeKeepsHistory, ApplyKeepsHistory,
     StoreKeepsHistory, CountKeepsHistory

-----------------------------------------------------------------------------
(* Readers *)

\* A read is of the book as it is.
LEMMA ReadKeepsReaderInv ==
  ASSUME CountInv, BookInv, BookHistory, ReaderInv, Read
  PROVE  ReaderInv'
<1> DEFINE n == Len(consumed)
<1>1. ticks_written \in Nat /\ n \in Nat /\ ticks_written <= n
  BY DEF CountInv
<1>2. UNCHANGED <<consumed, ticks_written, token_to_idx, next_idx>>
  BY DEF Read, ReadCount, FindIndex, Load, runVars, logVars, applyVars, bookVars
<1>3. \A r \in Readers : ReaderOK(r, reader[r])
  BY DEF ReaderInv
<1>4. PICK r0 \in Readers : ReadCount(r0) \/ FindIndex(r0) \/ \E word \in Word : Load(r0, word)
  BY DEF Read
<1>5. r0.token \in Token /\ r0.side \in Side
  BY ReadersAssumption
<1>6. ASSUME NEW new, ReaderOK(r0, new), reader' = [reader EXCEPT ![r0] = new]
      PROVE  ReaderInv'
  <2>1. DOMAIN reader' = Readers
    BY <1>6 DEF ReaderInv
  <2>2. \A r \in Readers : ReaderOK(r, reader'[r])
    BY <1>3, <1>6 DEF ReaderInv
  <2>3. \A r, me : ReaderOK(r, me)' <=> ReaderOK(r, me)
    BY <1>2 DEF ReaderOK, Updates, IsLastUpdate, Known, TableFull
  <2> QED
    BY <2>1, <2>2, <2>3 DEF ReaderInv
<1>7. CASE ReadCount(r0)
  <2>1. ReaderOK(r0, Asking(ticks_written))
    BY <1>1 DEF Asking, ReaderOK
  <2> QED
    BY <1>6, <1>7, <2>1 DEF ReadCount
<1>8. CASE FindIndex(r0)
  <2> DEFINE me == reader[r0]
  <2>1. me.at = "find" /\ me.count \in 0 .. ticks_written
    BY <1>3, <1>8 DEF FindIndex, ReaderOK
  <2>2. CASE Known(r0.token)
    <3>1. ReaderOK(r0, Loading(me, token_to_idx[r0.token], << >>))
      BY <1>1, <2>1, <2>2 DEF Loading, ReaderOK
    <3> QED
      BY <1>6, <1>8, <2>2, <3>1 DEF FindIndex
  <2>3. CASE ~ Known(r0.token)
    <3>1. Updates(MapHas, r0.token, r0.side) = {} \/ TableFull
      BY <1>5, <2>3 DEF BookHistory, Known
    <3>2. MapHas \in {ticks_written, n}
      BY DEF MapHas
    <3>3. Updates(me.count, r0.token, r0.side) \subseteq Updates(MapHas, r0.token, r0.side)
      BY <1>1, <2>1, <3>2 DEF Updates
    <3>4. ReaderOK(r0, Missed(me))
      BY <2>1, <3>1, <3>3 DEF Missed, ReaderOK
    <3> QED
      BY <1>6, <1>8, <2>3, <3>4 DEF FindIndex
  <2> QED
    BY <2>2, <2>3
<1>9. ASSUME NEW word \in Word, Load(r0, word) PROVE ReaderInv'
  <2> DEFINE me == reader[r0]
             quote == books[me.slot][r0.side][word]
             seen == With(me.seen, word, quote)
  <2>1. ReaderOK(r0, me) /\ me.at = "load"
    BY <1>3, <1>9 DEF Load
  <2>2. IsLastUpdate(quote, WordHas(word), r0.token, r0.side)
    BY <1>5, <2>1 DEF BookHistory, Known, ReaderOK
  <2>3. WordHas(word) \in me.count .. n
    BY <1>1, <2>1 DEF WordHas, ReaderOK
  <2>4. \A w \in DOMAIN seen : \E k \in me.count .. n :
          IsLastUpdate(seen[w], k, r0.token, r0.side)
    BY <2>1, <2>2, <2>3 DEF With, ReaderOK
  <2>5. ReaderOK(r0, Loading(me, me.slot, seen))
    BY <2>1, <2>4 DEF Loading, ReaderOK
  <2> QED
    BY <1>6, <1>9, <2>5 DEF Load
<1> QED
  BY <1>4, <1>7, <1>8, <1>9

\* No other step takes back what a reader knows.
LEMMA StepKeepsReaderInv ==
  CountInv /\ BookInv /\ BookHistory /\ ReaderInv /\ [Next]_vars => ReaderInv'
<1> SUFFICES ASSUME CountInv, BookInv, BookHistory, ReaderInv, [Next]_vars
             PROVE  ReaderInv'
  OBVIOUS
<1>1. CASE Crash
  BY <1>1 DEF Crash, ReaderInv, ReaderOK, Idle
<1>2. ASSUME Bystander \/ ConsumeStep \/ ApplyStep \/ StoreStep \/ CountStep
      PROVE  ReaderInv'
  <2>1. /\ reader' = reader
        /\ ticks_written \in Nat /\ ticks_written' \in Nat
        /\ ticks_written <= ticks_written'
        /\ Len(consumed) \in Nat /\ ticks_written <= Len(consumed)
    BY <1>2
       DEF Bystander, ConsumeStep, ApplyStep, Apply, StoreStep, Store, CountStep, Count,
           CountInv, logVars
  <2>2. /\ Len(consumed') \in Nat /\ Len(consumed) <= Len(consumed')
        /\ \A k \in 1 .. Len(consumed) : consumed'[k] = consumed[k]
    <3>1. CASE ConsumeStep
      BY <2>1, <3>1, ConsumeFacts
    <3>2. CASE UNCHANGED consumed
      BY <2>1, <3>2
    <3> QED
      BY <1>2, <3>1, <3>2
         DEF Bystander, ApplyStep, Apply, StoreStep, Store, CountStep, Count, logVars
  <2>3. /\ \A u \in DOMAIN token_to_idx :
             u \in DOMAIN token_to_idx' /\ token_to_idx'[u] = token_to_idx[u]
        /\ next_idx <= next_idx' /\ next_idx \in Nat /\ next_idx' \in Nat
    <3>0. next_idx \in Nat
      BY DEF BookInv
    <3>1. CASE UNCHANGED <<token_to_idx, next_idx>>
      BY <3>0, <3>1
    <3>2. CASE ApplyStep /\ FindOrClaimSlot(tick.token)
      <4>1. tick.token \in Token
        BY <3>2, TickIsConsumed DEF ApplyStep, Apply, Uncounted
      <4>2. /\ next_idx' \in next_idx .. MaxTokens
            /\ DOMAIN token_to_idx' = DOMAIN token_to_idx \union {tick.token}
            /\ \A u \in DOMAIN token_to_idx : token_to_idx'[u] = token_to_idx[u]
        BY <3>2, <4>1, SlotFound
      <4> QED
        BY <3>0, <4>2, IndexAssumption
    <3> QED
      BY <1>2, <3>1, <3>2
         DEF Bystander, ConsumeStep, ApplyStep, Apply, StoreStep, Store, CountStep, Count,
             applyVars, bookVars
  <2>4. ASSUME NEW m \in 0 .. Len(consumed), NEW token, NEW side
        PROVE  /\ Updates(m, token, side)' = Updates(m, token, side)
               /\ \A quote : IsLastUpdate(quote, m, token, side) =>
                             IsLastUpdate(quote, m, token, side)'
    <3>1. m \in Nat /\ \A k \in 1 .. m : consumed'[k] = consumed[k]
      BY <2>1, <2>2
    <3> QED
      BY <3>1, HistoryStays
  <2>5. ASSUME NEW r, NEW me, ReaderOK(r, me)
        PROVE  ReaderOK(r, me)'
    <3>1. me.at # "idle" => me.count \in 0 .. Len(consumed) /\ me.count \in 0 .. ticks_written'
      BY <2>1, <2>5 DEF ReaderOK
    <3>2. me.at = "missed" => Updates(me.count, r.token, r.side)' = {} \/ TableFull'
      BY <2>3, <2>4, <2>5, <3>1, IndexAssumption DEF ReaderOK, TableFull
    <3>3. ASSUME me.at = "load", NEW word \in DOMAIN me.seen
          PROVE  \E n \in me.count .. Len(consumed') :
                   IsLastUpdate(me.seen[word], n, r.token, r.side)'
      <4>1. PICK n \in me.count .. Len(consumed) :
              IsLastUpdate(me.seen[word], n, r.token, r.side)
        BY <2>5, <3>3 DEF ReaderOK
      <4>2. n \in 0 .. Len(consumed) /\ n \in me.count .. Len(consumed')
        BY <2>1, <2>2, <3>1, <3>3, <4>1
      <4> QED
        BY <2>4, <4>1, <4>2
    <3>4. me.at = "load" => Known(r.token)' /\ me.slot = token_to_idx'[r.token]
      BY <2>3, <2>5 DEF ReaderOK, Known
    <3> QED
      BY <2>5, <3>1, <3>2, <3>3, <3>4 DEF ReaderOK
  <2> QED
    BY <2>1, <2>5 DEF ReaderInv
<1> QED
  BY <1>1, <1>2, StepKinds, ReadKeepsReaderInv

-----------------------------------------------------------------------------
BookIInv == CountInv /\ BookInv /\ BookHistory /\ ReaderInv

LEMMA BookIInvHolds == Spec => []BookIInv
<1>1. Init => BookIInv
  BY InitEstablishesCountInv, InitEstablishesBookInv, InitEstablishesHistory DEF BookIInv
<1>2. BookIInv /\ [Next]_vars => BookIInv'
  BY StepKeepsCountInv, StepKeepsBookInv, StepKeepsHistory, StepKeepsReaderInv
     DEF BookIInv
<1> QED
  BY <1>1, <1>2, PTL DEF Spec

\* The table never gives one slot to two tokens and never a slot outside it,
\* whatever arrives (OrderBook.hpp:132-177).
THEOREM SlotPerToken == Spec => []OneSlotPerToken
<1>1. BookIInv => OneSlotPerToken
  BY BookInvImpliesOneSlot DEF BookIInv
<1> QED
  BY <1>1, BookIInvHolds, PTL

\* What a reader finds in the book is never behind the counter it has read
\* (Tickerplant.cpp:225-230), in whatever order words are stored and loaded.
THEOREM ReadersSeeCountedTicks == Spec => []ReaderSeesCountedTicks
<1>1. BookIInv => ReaderSeesCountedTicks
  BY DEF BookIInv, ReaderInv, ReaderOK, ReaderSeesCountedTicks
<1> QED
  BY <1>1, BookIInvHolds, PTL
=============================================================================
