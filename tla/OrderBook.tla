----------------------------- MODULE OrderBook -----------------------------
(***************************************************************************)
(* include/polymarket/rdb/OrderBook.hpp: the live top-of-book table that   *)
(* the tickerplant thread updates and that any thread may read.  A side of *)
(* the book is two words, a price and a size, each abstracted to the id of *)
(* the tick that wrote it; they are stored one by one, and the compiler    *)
(* may swap the two stores.                                                *)
(***************************************************************************)
EXTENDS Naturals, Functions

CONSTANTS
  Token,       \* asset ids that occur in ticks
  MaxTokens,   \* MAX_TOKENS, 4096 in the code
  IndexRange   \* values of the uint16_t counter, 2^16 in the code

ASSUME IndexAssumption ==
  /\ MaxTokens \in Nat /\ MaxTokens > 0
  /\ IndexRange \in Nat /\ MaxTokens < IndexRange

VARIABLES
  token_to_idx,  \* the map: a function from the known tokens
  books,         \* books_[idx]
  next_idx       \* next_idx_

bookVars == <<token_to_idx, books, next_idx>>

Indices == 0 .. MaxTokens - 1
Side    == {"bid", "ask"}
Word    == {"price", "size"}
NoQuote == 0

BookInit ==
  /\ token_to_idx = << >>
  /\ books = [i \in Indices |-> [s \in Side |-> [w \in Word |-> NoQuote]]]
  /\ next_idx = 0

Known(token) == token \in DOMAIN token_to_idx

\* (mutant) the guard one too late
TableFullLate == next_idx > MaxTokens

TableFull == next_idx >= MaxTokens

\* The counter is a uint16_t.
Increment(idx) == (idx + 1) % IndexRange

\* A new token that finds the table full: apply_tick returns.
Dropped(token) == ~ Known(token) /\ TableFull

\* The first half of apply_tick: a known token has its slot, a new one takes
\* the next.
FindOrClaimSlot(token) ==
  \/ /\ Known(token)
     /\ UNCHANGED <<token_to_idx, next_idx>>
  \/ /\ ~ Known(token)
     /\ ~ TableFull
     /\ next_idx' = Increment(next_idx)
     /\ token_to_idx' =
          [t \in DOMAIN token_to_idx \union {token} |->
             IF t = token THEN next_idx ELSE token_to_idx[t]]

\* The second half: one of the two assignments to the slot.
StoreWord(tick, word) ==
  books' = [books EXCEPT ![token_to_idx[tick.token]][tick.side][word] = tick.id]

\* No two tokens ever share a slot, and every slot is inside the table: the
\* 16-bit counter does not wrap back onto slots that are owned.
OneSlotPerToken ==
  /\ IsInjective(token_to_idx)
  /\ \A t \in DOMAIN token_to_idx : token_to_idx[t] \in Indices
=============================================================================
