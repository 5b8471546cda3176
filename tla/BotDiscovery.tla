---------------------------- MODULE BotDiscovery ----------------------------
(***************************************************************************)
(* How the bot finds its markets: src/bot/BotDiscovery.cpp, whose scan_all *)
(* walks the pages of the Gamma REST API with parallel workers and whose   *)
(* tail_poll looks for newer markets from last_offset_ on, and the main    *)
(* loop of src/bot/main.cpp, which subscribes what they return on a        *)
(* connection that comes and goes.                                         *)
(*                                                                         *)
(* The API pages through one list, which changes between two requests: a   *)
(* market is created, or leaves the list when it closes.  A request may    *)
(* fail.  Markets are numbered in the order of their creation; one market  *)
(* stands for its two tokens, and a list of tokens, whose order does not   *)
(* matter, is how often each market is on it.                              *)
(***************************************************************************)
EXTENDS Integers, Sequences, SequencesExt, FiniteSets

CONSTANTS
  Eligible,        \* the markets that pass the filter, with tokens and time left
  Malformed,       \* the markets whose record may come without a question
  Anonymous,       \* those that pass the filter and may come without a conditionId
  PAGE_SIZE,
  MAX_PAGES,
  N_SCAN_WORKERS,
  Initial,         \* markets on the list at the start
  MaxMarkets,      \* bound: markets ever created
  MaxClosed,       \* bound: markets that leave the list
  MaxWorkerErrors, \* bound: pages a scan worker gives up on after MAX_ATTEMPTS
  MaxTailErrors,   \* bound: failed requests of tail_poll, its retry included
  MaxDrops         \* bound: lost connections

Market == 1..MaxMarkets

ASSUME PageAssumption ==
  {PAGE_SIZE, MAX_PAGES, N_SCAN_WORKERS} \subseteq Nat \ {0}
ASSUME MarketAssumption ==
  MaxMarkets \in Nat /\ Initial \in 0..MaxMarkets /\ Eligible \subseteq Market

VARIABLES
  listing,           \* the list behind the API
  malformed,         \* the markets whose record comes without a question
  anonymous,         \* those whose record comes without a conditionId
  pc,                \* main(): see the actions
  running,           \* g_running
  books,             \* the markets in BookState
  last_offset_,
  next_offset,       \* scan_all: offset of the batch
  results,           \* scan_all: worker -> page, Pending or Failed
  merged,            \* scan_all: pages of the batch that are merged
  offset,            \* tail_poll: offset of the page
  page,              \* tail_poll: pages so far
  tokens,            \* all_tokens or new_tokens: what the present call has found
  subscribed_tokens, \* everything to subscribe on a reconnect
  ws,                \* "off", "down", "open", "sending" or "live"
  sub_json,          \* the Open callback's copy of subscribed_tokens
  live,              \* the markets subscribed on the present connection
  shifted,           \* history: a market has moved to another place on the list
  missed,            \* history: offsets of the pages that workers gave up on
  budget             \* how many of the bounded events have happened

scanVars == <<next_offset, results, merged>>
tailVars == <<offset, page>>
wsVars   == <<ws, sub_json, live>>
apiVars  == <<listing, malformed, anonymous>>
vars == <<apiVars, pc, running, books, last_offset_, scanVars, tailVars, tokens,
          subscribed_tokens, wsVars, shifted, missed, budget>>

\* The page of a worker; page_count is -1 for a page that has failed.
Pending == [markets |-> {}, page_count |-> -2]
Failed  == [markets |-> {}, page_count |-> -1]

NoTokens == [m \in Market |-> 0]
OnList(list) == {m \in Market : list[m] > 0}

-----------------------------------------------------------------------------
(* The API and the parser *)

\* The places of the page at offset off.
Places(off) == {i \in DOMAIN listing : off < i /\ i <= off + PAGE_SIZE}

\* The parsed page: records without a question or conditionId are skipped, and
\* those that are skipped before they are counted make the page look shorter.
Page(off, uncounted) ==
  [markets    |-> {listing[i] : i \in Places(off)} \ (malformed \union anonymous),
   page_count |-> Cardinality({i \in Places(off) : listing[i] \notin uncounted})]

\* fetch_gamma_page_worker counts every record with a question ...
WorkerPage(off) == Page(off, malformed)

\* ... fetch_gamma_page, of those that pass the filter, the ones with a conditionId.
TailPage(off) == Page(off, malformed \union anonymous)

\* (mutant) no check whether the market is tracked
TrackAgain(markets) ==
  /\ books' = books \union (markets \intersect Eligible)
  /\ tokens' = [m \in Market |-> IF m \in markets \intersect Eligible
                                   THEN tokens[m] + 1 ELSE tokens[m]]

\* The markets of a page: add_market and its tokens, unless it is known already.
Track(markets) ==
  LET fresh == (markets \intersect Eligible) \ books IN
  /\ books' = books \union fresh
  /\ tokens' = [m \in Market |-> IF m \in fresh THEN tokens[m] + 1 ELSE tokens[m]]

\* A market is created and gets its place by volume.
Create ==
  /\ budget.created < MaxMarkets
  /\ budget' = [budget EXCEPT !.created = @ + 1]
  /\ \E i \in 1..Len(listing) + 1 :
       /\ listing' = InsertAt(listing, i, budget.created + 1)
       /\ shifted' = (shifted \/ i <= Len(listing))
  /\ UNCHANGED <<malformed, anonymous, pc, running, books, last_offset_, scanVars, tailVars,
                 tokens, subscribed_tokens, wsVars, missed>>

\* A market closes and leaves the list.
Close ==
  /\ budget.closed < MaxClosed
  /\ budget' = [budget EXCEPT !.closed = @ + 1]
  /\ \E i \in DOMAIN listing : listing' = RemoveAt(listing, i)
  /\ shifted' = TRUE
  /\ UNCHANGED <<malformed, anonymous, pc, running, books, last_offset_, scanVars, tailVars,
                 tokens, subscribed_tokens, wsVars, missed>>

-----------------------------------------------------------------------------
(* scan_all *)

Init ==
  /\ listing = [i \in 1..Initial |-> i]
  /\ malformed \in SUBSET Malformed
  /\ anonymous \in SUBSET (Anonymous \ malformed)
  /\ pc = "batch"
  /\ running = TRUE
  /\ books = {}
  /\ last_offset_ = 0
  /\ next_offset = 0
  /\ results = << >>
  /\ merged = 0
  /\ offset = 0
  /\ page = 0
  /\ tokens = NoTokens
  /\ subscribed_tokens = NoTokens
  /\ ws = "off"
  /\ sub_json = {}
  /\ live = {}
  /\ shifted = FALSE
  /\ missed = {}
  /\ budget = [created |-> Initial, closed |-> 0, worker |-> 0, tail |-> 0, drops |-> 0]

remaining_pages == MAX_PAGES - (next_offset \div PAGE_SIZE)
batch_size == IF N_SCAN_WORKERS <= remaining_pages THEN N_SCAN_WORKERS ELSE remaining_pages

\* Dispatch one worker per page.
StartBatch ==
  /\ pc = "batch"
  /\ batch_size > 0
  /\ results' = [w \in 1..batch_size |-> Pending]
  /\ merged' = 0
  /\ pc' = "workers"
  /\ UNCHANGED <<apiVars, running, books, last_offset_, next_offset, tailVars, tokens,
                 subscribed_tokens, wsVars, shifted, missed, budget>>

WorkerOffset(w) == next_offset + (w - 1) * PAGE_SIZE

\* fetch_gamma_page_worker: a page, in one of the attempts.
WorkerFetch(w) ==
  /\ pc = "workers"
  /\ w <= batch_size
  /\ results[w] = Pending
  /\ results' = [results EXCEPT ![w] = WorkerPage(WorkerOffset(w))]
  /\ UNCHANGED <<apiVars, pc, running, books, last_offset_, next_offset, merged, tailVars,
                 tokens, subscribed_tokens, wsVars, shifted, missed, budget>>

\* All attempts have failed, or the body is no array.
WorkerFails(w) ==
  /\ pc = "workers"
  /\ w <= batch_size
  /\ results[w] = Pending
  /\ budget.worker < MaxWorkerErrors
  /\ budget' = [budget EXCEPT !.worker = @ + 1]
  /\ results' = [results EXCEPT ![w] = Failed]
  /\ missed' = missed \union {WorkerOffset(w)}
  /\ UNCHANGED <<apiVars, pc, running, books, last_offset_, next_offset, merged, tailVars,
                 tokens, subscribed_tokens, wsVars, shifted>>

\* t.join() for every worker
JoinWorkers ==
  /\ pc = "workers"
  /\ \A w \in 1..batch_size : results[w] # Pending
  /\ pc' = "merge"
  /\ UNCHANGED <<apiVars, running, books, last_offset_, scanVars, tailVars, tokens,
                 subscribed_tokens, wsVars, shifted, missed, budget>>

\* (mutant) a failed page taken for the last one
ShortOrFailed(result) == result.page_count < PAGE_SIZE

\* The page is the last one; a page that has failed is not.
IsLastPage(result) == 0 <= result.page_count /\ result.page_count < PAGE_SIZE

\* The next page, in the order of the offsets, goes into the books.  The last
\* page ends the scan, and the rest of the batch is dropped.
MergePage ==
  /\ pc = "merge"
  /\ merged < batch_size
  /\ LET w == merged + 1 IN
       /\ Track(results[w].markets)
       /\ merged' = w
       /\ IF IsLastPage(results[w])
            THEN last_offset_' = WorkerOffset(w) /\ pc' = "start"
            ELSE UNCHANGED <<last_offset_, pc>>
  /\ UNCHANGED <<apiVars, running, next_offset, results, tailVars, subscribed_tokens,
                 wsVars, shifted, missed, budget>>

\* No page of the batch was the last one.
NextBatch ==
  /\ pc = "merge"
  /\ merged = batch_size
  /\ next_offset' = next_offset + batch_size * PAGE_SIZE
  /\ results' = << >>
  /\ merged' = 0
  /\ pc' = IF next_offset' < MAX_PAGES * PAGE_SIZE THEN "batch" ELSE "start"
  /\ UNCHANGED <<apiVars, running, books, last_offset_, tailVars, tokens,
                 subscribed_tokens, wsVars, shifted, missed, budget>>

-----------------------------------------------------------------------------
(* tail_poll *)

\* fetch_gamma_page: the page at offset, parsed into the books at once.
TailFetch ==
  /\ pc = "tail"
  /\ Track(TailPage(offset).markets)
  /\ page' = page + 1
  /\ IF IsLastPage(TailPage(offset))
       THEN last_offset_' = offset /\ pc' = "push" /\ UNCHANGED offset
       ELSE /\ offset' = offset + PAGE_SIZE
            /\ pc' = IF page' < MAX_PAGES THEN "tail" ELSE "push"
            /\ UNCHANGED last_offset_
  /\ UNCHANGED <<apiVars, running, scanVars, subscribed_tokens, wsVars, shifted, missed,
                 budget>>

\* (mutant) a failed page passed over, as in scan_all
TailSkips ==
  /\ pc = "tail"
  /\ budget.tail < MaxTailErrors
  /\ budget' = [budget EXCEPT !.tail = @ + 1]
  /\ last_offset_' = offset + PAGE_SIZE
  /\ pc' = "push"
  /\ UNCHANGED <<apiVars, running, books, scanVars, tailVars, tokens, subscribed_tokens,
                 wsVars, shifted, missed>>

\* The request fails, after its retry: it counts as an empty page.
TailFails ==
  /\ pc = "tail"
  /\ budget.tail < MaxTailErrors
  /\ budget' = [budget EXCEPT !.tail = @ + 1]
  /\ last_offset_' = offset
  /\ pc' = "push"
  /\ UNCHANGED <<apiVars, running, books, scanVars, tailVars, tokens, subscribed_tokens,
                 wsVars, shifted, missed>>

-----------------------------------------------------------------------------
(* main() *)

\* subscribed_tokens = scan_all(); ws.start()
Start ==
  /\ pc = "start"
  /\ subscribed_tokens' = tokens
  /\ tokens' = NoTokens
  /\ results' = << >>
  /\ ws' = "down"
  /\ pc' = "sleep"
  /\ UNCHANGED <<apiVars, running, books, last_offset_, next_offset, merged, tailVars,
                 sub_json, live, shifted, missed, budget>>

\* REDISCOVER_S have passed: tail_poll() begins.
Wake ==
  /\ pc = "sleep"
  /\ running
  /\ pc' = "tail"
  /\ offset' = last_offset_
  /\ page' = 0
  /\ UNCHANGED <<apiVars, running, books, last_offset_, scanVars, tokens, subscribed_tokens,
                 wsVars, shifted, missed, budget>>

\* The new tokens, under tokens_mutex.
Push ==
  /\ pc = "push"
  /\ subscribed_tokens' = [m \in Market |-> subscribed_tokens[m] + tokens[m]]
  /\ pc' = "send"
  /\ UNCHANGED <<apiVars, running, books, last_offset_, scanVars, tailVars, tokens, wsVars,
                 shifted, missed, budget>>

\* ws.send: without a connection the message is lost.
Send ==
  /\ pc = "send"
  /\ live' = IF ws \in {"open", "sending", "live"} THEN live \union OnList(tokens) ELSE live
  /\ tokens' = NoTokens
  /\ pc' = "sleep"
  /\ UNCHANGED <<apiVars, running, books, last_offset_, scanVars, tailVars,
                 subscribed_tokens, ws, sub_json, shifted, missed, budget>>

\* Ctrl-C, and the end of the main loop with ws.stop().
Signal ==
  /\ running
  /\ running' = FALSE
  /\ UNCHANGED <<apiVars, pc, books, last_offset_, scanVars, tailVars, tokens,
                 subscribed_tokens, wsVars, shifted, missed, budget>>

End ==
  /\ pc = "sleep"
  /\ ~ running
  /\ pc' = "ended"
  /\ ws' = "off"
  /\ live' = {}
  /\ sub_json' = {}
  /\ UNCHANGED <<apiVars, running, books, last_offset_, scanVars, tailVars, tokens,
                 subscribed_tokens, shifted, missed, budget>>

-----------------------------------------------------------------------------
(* The WebSocket thread *)

Connect ==
  /\ ws = "down"
  /\ ws' = "open"
  /\ UNCHANGED <<apiVars, pc, running, books, last_offset_, scanVars, tailVars, tokens,
                 subscribed_tokens, sub_json, live, shifted, missed, budget>>

\* (mutant) the copy of an earlier connection sent again
OpenReusesCopy ==
  /\ ws = "open"
  /\ ws' = "sending"
  /\ sub_json' = IF sub_json = {} THEN OnList(subscribed_tokens) ELSE sub_json
  /\ UNCHANGED <<apiVars, pc, running, books, last_offset_, scanVars, tailVars, tokens,
                 subscribed_tokens, live, shifted, missed, budget>>

\* The Open callback copies the tokens under the mutex ...
OpenCopies ==
  /\ ws = "open"
  /\ ws' = "sending"
  /\ sub_json' = OnList(subscribed_tokens)
  /\ UNCHANGED <<apiVars, pc, running, books, last_offset_, scanVars, tailVars, tokens,
                 subscribed_tokens, live, shifted, missed, budget>>

\* ... and sends them after it has released it.
OpenSends ==
  /\ ws = "sending"
  /\ ws' = "live"
  /\ live' = live \union sub_json
  /\ UNCHANGED <<apiVars, pc, running, books, last_offset_, scanVars, tailVars, tokens,
                 subscribed_tokens, sub_json, shifted, missed, budget>>

Drop ==
  /\ ws \in {"open", "sending", "live"}
  /\ budget.drops < MaxDrops
  /\ budget' = [budget EXCEPT !.drops = @ + 1]
  /\ ws' = "down"
  /\ live' = {}
  /\ UNCHANGED <<apiVars, pc, running, books, last_offset_, scanVars, tailVars, tokens,
                 subscribed_tokens, sub_json, shifted, missed>>

Workers == \E w \in 1..N_SCAN_WORKERS : WorkerFetch(w) \/ WorkerFails(w)
MainThread ==
  \/ StartBatch \/ JoinWorkers \/ MergePage \/ NextBatch
  \/ Start \/ Wake \/ TailFetch \/ TailFails \/ Push \/ Send \/ End
WebSocketThread == Connect \/ OpenCopies \/ OpenSends
Environment == Create \/ Close \/ Signal \/ Drop

Next == Workers \/ MainThread \/ WebSocketThread \/ Environment

\* The main thread and the workers go on by themselves.
Spec == Init /\ [][Next]_vars /\ WF_vars(Workers) /\ WF_vars(MainThread)

-----------------------------------------------------------------------------
(* Properties *)

\* A walk ends at a page with a record that it does not count, although more
\* pages follow: the market at place i is behind such a page.
CutOff(i, uncounted) ==
  \E k \in DOMAIN listing : /\ listing[k] \in uncounted
                            /\ (k - 1) \div PAGE_SIZE < (i - 1) \div PAGE_SIZE

\* The walk over the pages in parallel batches misses no market but those on a
\* page that a worker has given up on and those behind a page that counted
\* short, as long as nothing moves on the list and the list fits into MAX_PAGES.
\* (On a list that moves, a market can slip from a page that is not read yet to
\* one that is.)
ScanMissesFailedPagesOnly ==
  pc = "start" /\ ~ shifted =>
    \A i \in 1..Initial :
      listing[i] \in Eligible \ (malformed \union anonymous) =>
        \/ listing[i] \in books
        \/ ((i - 1) \div PAGE_SIZE) * PAGE_SIZE \in missed
        \/ CutOff(i, malformed)
        \/ i > MAX_PAGES * PAGE_SIZE

\* last_offset_ never passes a market with an id, since no poll looks before it again: on a list on
\* which nothing moves everything in front of it is in the books, but for the pages
\* that scan_all gave up on, although the list grows while it is read, polls fail and
\* end at any page, and pages count short.
OffsetPassesNoMarket ==
  ~ shifted =>
    \A i \in DOMAIN listing :
      i <= last_offset_ /\ listing[i] \in Eligible \ anonymous =>
        \/ listing[i] \in books
        \/ ((i - 1) \div PAGE_SIZE) * PAGE_SIZE \in missed

\* Whatever moves on the list and whichever pages overlap, the markets that the
\* bot tracks are the ones it has on its subscription list, each of them once.
TrackedMarketsAreSubscribedOnce ==
  pc = "sleep" => \A m \in Market : subscribed_tokens[m] = IF m \in books THEN 1 ELSE 0

\* A connection on which the Open callback is through carries every market on
\* the subscription list, however that list grew while it was opened.
LiveConnectionHasAllTokens ==
  ws = "live" /\ pc # "send" => OnList(subscribed_tokens) \subseteq live

\* A market that joins a list on which nothing else moves is found, whatever
\* requests of tail_poll fail, unless a worker of scan_all has given up on a page
\* or a page before it counts short.
AppendedMarketsAreFound ==
  \A m \in Eligible :
    m \in ToSet(listing) ~>
      \/ m \in OnList(subscribed_tokens)
      \/ ~ running \/ shifted \/ missed # {}
      \/ m \in malformed \union anonymous
      \/ \E i \in DOMAIN listing : listing[i] = m /\ CutOff(i, malformed \union anonymous)

\* "re-scans from last_offset_ to detect new markets created since the last
\* scan": a market that stays on the list is found in the end.
NewMarketsAreFound ==
  \A m \in Eligible :
    m \in ToSet(listing) ~>
      (m \in OnList(subscribed_tokens) \/ ~ running \/ m \notin ToSet(listing))
=============================================================================
