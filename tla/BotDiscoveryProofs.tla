------------------------- MODULE BotDiscoveryProofs -------------------------
(***************************************************************************)
(* What BotDiscovery promises for every page size, number of workers and   *)
(* length of the list, and whatever the API answers.                       *)
(*                                                                         *)
(* Four invariants.  ListInv is the bookkeeping of the main thread: the    *)
(* books and the lists of tokens.  WsInv adds the connection.  ScanInv     *)
(* follows scan_all over the pages: what the workers hold is what the list *)
(* has there, and every page that is merged is dealt with.  OffsetInv says *)
(* that no walk, and so last_offset_, ever stands behind an unseen market. *)
(***************************************************************************)
EXTENDS BotDiscovery, FiniteSetTheorems, TLAPS

-----------------------------------------------------------------------------
(* The lists of tokens *)

Scanning == {"batch", "workers", "merge", "start"}

In(set, m) == IF m \in set THEN 1 ELSE 0

\* Each tracked market's tokens are once on the subscription list or among what
\* the present call of scan_all or tail_poll has found, never on both.
ListInv ==
  /\ pc \in Scanning \union {"sleep", "tail", "push", "send", "ended"}
  /\ tokens \in [Market -> Nat]
  /\ subscribed_tokens \in [Market -> Nat]
  /\ pc \in Scanning => \A m \in Market : subscribed_tokens[m] = 0
  /\ pc \in {"sleep", "ended"} => \A m \in Market : tokens[m] = 0
  /\ pc = "send" => \A m \in Market : subscribed_tokens[m] = In(books, m)
  /\ pc # "send" => \A m \in Market : subscribed_tokens[m] + tokens[m] = In(books, m)

LEMMA NoTokensType ==
  NoTokens \in [Market -> Nat] /\ \A m \in Market : NoTokens[m] = 0
BY DEF NoTokens

\* Track puts a market on the list exactly when it puts it into the books.
LEMMA TrackCounts ==
  ASSUME NEW markets, Track(markets), tokens \in [Market -> Nat]
  PROVE  /\ tokens' \in [Market -> Nat]
         /\ \A m \in Market : /\ In(books, m)' \in {0, 1}
                              /\ tokens'[m] + In(books, m) = tokens[m] + In(books', m)
BY DEF Track, In

LEMMA ListInvInit == Init => ListInv
BY NoTokensType DEF Init, ListInv, Scanning, In

LEMMA ListInvStep ==
  ASSUME ListInv, [Next]_vars
  PROVE  ListInv'
<1> USE DEF ListInv, Scanning
<1>1. CASE MergePage \/ TailFetch
  <2>1. PICK markets : Track(markets)
    BY <1>1 DEF MergePage, TailFetch
  <2>2. /\ tokens' \in [Market -> Nat]
        /\ \A m \in Market : /\ In(books, m)' \in {0, 1}
                             /\ tokens'[m] + In(books, m) = tokens[m] + In(books', m)
    BY <2>1, TrackCounts
  <2>3. /\ subscribed_tokens' = subscribed_tokens
        /\ \/ pc = "merge" /\ pc' \in {"merge", "start"}
           \/ pc = "tail" /\ pc' \in {"tail", "push"}
    BY <1>1 DEF MergePage, TailFetch
  <2>4. \A m \in Market : In(books, m) \in {0, 1} /\ In(books', m) \in {0, 1}
    BY DEF In
  <2>5. ASSUME NEW m \in Market
        PROVE  subscribed_tokens'[m] + tokens'[m] = In(books', m)
    <3>1. subscribed_tokens[m] + tokens[m] = In(books, m)
      BY <2>3
    <3> QED BY <2>2, <2>3, <2>4, <3>1
  <2>6. pc' \in Scanning => \A m \in Market : subscribed_tokens'[m] = 0
    BY <2>3
  <2>7. \A m \in Market : In(books, m)' = In(books', m)
    BY DEF In
  <2> QED BY <2>2, <2>3, <2>5, <2>6, <2>7
<1>2. CASE Start
  <2>1. /\ subscribed_tokens' = tokens /\ tokens' = NoTokens /\ books' = books
        /\ pc = "start" /\ pc' = "sleep"
    BY <1>2 DEF Start
  <2>2. ASSUME NEW m \in Market
        PROVE  tokens[m] = In(books, m) /\ tokens'[m] = 0
    <3>1. subscribed_tokens[m] = 0 /\ subscribed_tokens[m] + tokens[m] = In(books, m)
      BY <2>1
    <3> QED BY <2>1, <3>1, NoTokensType
  <2> QED BY <2>1, <2>2, NoTokensType DEF In
<1>3. CASE Push
  <2>1. /\ subscribed_tokens' = [m \in Market |-> subscribed_tokens[m] + tokens[m]]
        /\ tokens' = tokens /\ books' = books /\ pc = "push" /\ pc' = "send"
    BY <1>3 DEF Push
  <2> QED BY <2>1 DEF In
<1>4. CASE Send
  <2>1. /\ tokens' = NoTokens /\ pc = "send" /\ pc' = "sleep"
        /\ UNCHANGED <<books, subscribed_tokens>>
    BY <1>4 DEF Send
  <2> QED BY <2>1, NoTokensType DEF In
<1>5. CASE \/ Workers \/ StartBatch \/ JoinWorkers \/ NextBatch \/ Wake \/ TailFails \/ End
           \/ WebSocketThread \/ Environment \/ UNCHANGED vars
  <2>1. UNCHANGED <<tokens, subscribed_tokens, books>>
    BY <1>5 DEF Workers, WorkerFetch, WorkerFails, StartBatch, JoinWorkers, NextBatch, Wake,
                TailFails, End, WebSocketThread, Connect, OpenCopies, OpenSends,
                Environment, Create, Close, Signal, Drop, vars
  <2>2. \/ pc' = pc
        \/ pc \in Scanning /\ pc' \in Scanning
        \/ pc = "sleep" /\ pc' \in {"tail", "ended"}
        \/ pc = "tail" /\ pc' = "push"
    BY <1>5 DEF Workers, WorkerFetch, WorkerFails, StartBatch, JoinWorkers, NextBatch, Wake,
                TailFails, End, WebSocketThread, Connect, OpenCopies, OpenSends,
                Environment, Create, Close, Signal, Drop, vars
  <2> QED BY <2>1, <2>2 DEF In
<1> QED BY <1>1, <1>2, <1>3, <1>4, <1>5 DEF Next, MainThread

LEMMA ListInvHolds == Spec => []ListInv
BY ListInvInit, ListInvStep, PTL DEF Spec

-----------------------------------------------------------------------------
(* The connection *)

\* What the main thread is about to send itself.
BeingSent == IF pc = "send" THEN OnList(tokens) ELSE {}

\* Every listed market is on the connection, in the Open callback's copy, or in
\* the message that the main thread is about to send.
WsInv ==
  /\ ws \in {"off", "down", "open", "sending", "live"}
  /\ pc \in Scanning => ws = "off"
  /\ ws = "sending" => OnList(subscribed_tokens) \subseteq live \union sub_json \union BeingSent
  /\ ws = "live" => OnList(subscribed_tokens) \subseteq live \union BeingSent

LEMMA WsInvStep ==
  ASSUME ListInv, WsInv, [Next]_vars
  PROVE  WsInv'
<1> USE DEF WsInv, Scanning
<1>1. CASE Push
  <2>1. /\ subscribed_tokens' = [m \in Market |-> subscribed_tokens[m] + tokens[m]]
        /\ pc = "push" /\ pc' = "send" /\ UNCHANGED <<tokens, ws, sub_json, live>>
    BY <1>1 DEF Push, wsVars
  <2>2. OnList(subscribed_tokens') \subseteq OnList(subscribed_tokens) \union OnList(tokens)
    BY <2>1 DEF OnList, ListInv
  <2>3. BeingSent' = OnList(tokens) /\ BeingSent = {}
    BY <2>1 DEF BeingSent, OnList
  <2>4. OnList(subscribed_tokens)' = OnList(subscribed_tokens')
    BY DEF OnList
  <2> QED BY <2>1, <2>2, <2>3, <2>4
<1>2. CASE Send
  <2>1. /\ live' = IF ws \in {"open", "sending", "live"} THEN live \union OnList(tokens) ELSE live
        /\ pc = "send" /\ pc' = "sleep" /\ UNCHANGED <<subscribed_tokens, ws, sub_json>>
    BY <1>2 DEF Send
  <2>2. BeingSent = OnList(tokens)
    BY <2>1 DEF BeingSent
  <2>3. OnList(subscribed_tokens)' = OnList(subscribed_tokens)
    BY <2>1 DEF OnList
  <2>4. live \union BeingSent \subseteq live' \/ ws \notin {"sending", "live"}
    BY <2>1, <2>2
  <2> QED BY <2>1, <2>3, <2>4
<1>3. CASE OpenCopies
  <2>1. /\ ws' = "sending" /\ ws = "open" /\ sub_json' = OnList(subscribed_tokens)
        /\ UNCHANGED <<pc, subscribed_tokens>>
    BY <1>3 DEF OpenCopies
  <2>2. OnList(subscribed_tokens)' = OnList(subscribed_tokens)
    BY <2>1 DEF OnList
  <2> QED BY <2>1, <2>2
<1>4. CASE OpenSends
  <2>1. /\ ws = "sending" /\ ws' = "live" /\ live' = live \union sub_json
        /\ UNCHANGED <<pc, tokens, subscribed_tokens>>
    BY <1>4 DEF OpenSends
  <2>2. OnList(subscribed_tokens)' = OnList(subscribed_tokens) /\ BeingSent' = BeingSent
    BY <2>1 DEF OnList, BeingSent
  <2> QED BY <2>1, <2>2
<1>5. CASE Start \/ End \/ Connect \/ Drop
  BY <1>5 DEF Start, End, Connect, Drop
<1>6. CASE \/ Workers \/ StartBatch \/ JoinWorkers \/ MergePage \/ NextBatch \/ Wake
           \/ TailFetch \/ TailFails \/ Create \/ Close \/ Signal \/ UNCHANGED vars
  <2>1. /\ UNCHANGED <<subscribed_tokens, ws, sub_json, live>>
        /\ pc' \in Scanning => pc \in Scanning
        /\ pc = "send" <=> pc' = "send"
        /\ pc = "send" => tokens' = tokens
    BY <1>6 DEF Workers, WorkerFetch, WorkerFails, StartBatch, JoinWorkers, MergePage,
                NextBatch, Wake, TailFetch, TailFails, Create, Close, Signal, vars, wsVars
  <2>2. OnList(subscribed_tokens)' = OnList(subscribed_tokens) /\ BeingSent' = BeingSent
    BY <2>1 DEF OnList, BeingSent
  <2> QED BY <2>1, <2>2
<1> QED BY <1>1, <1>2, <1>3, <1>4, <1>5, <1>6
        DEF Next, MainThread, WebSocketThread, Environment

LEMMA WsInvHolds == Spec => []WsInv
<1>1. Init => WsInv
  BY DEF Init, WsInv
<1> QED BY <1>1, WsInvStep, ListInvHolds, PTL DEF Spec

-----------------------------------------------------------------------------
(* scan_all *)

Pages(i) == (i - 1) \div PAGE_SIZE

LEMMA DivBounds ==
  ASSUME NEW x \in Nat, NEW p \in Nat \ {0}
  PROVE  /\ x \div p \in Nat
         /\ (x \div p) * p <= x /\ x < (x \div p) * p + p
OBVIOUS

LEMMA PageIndex ==
  ASSUME NEW i \in Nat \ {0}, NEW a \in Nat
  PROVE  /\ Pages(i) \in Nat
         /\ Pages(i) = a <=> a * PAGE_SIZE < i /\ i <= a * PAGE_SIZE + PAGE_SIZE
         /\ Pages(i) > a <=> i > a * PAGE_SIZE + PAGE_SIZE
<1> DEFINE q == (i - 1) \div PAGE_SIZE
           r == i - 1 - PAGE_SIZE * q
<1>0. /\ i - 1 \in Nat /\ q \in Nat
      /\ q * PAGE_SIZE <= i - 1 /\ i - 1 < q * PAGE_SIZE + PAGE_SIZE
      /\ Pages(i) = q
  BY DivBounds, PageAssumption DEF Pages
<1> HIDE DEF q
<1> USE PageAssumption
<1>1. r \in 0..PAGE_SIZE - 1 /\ i - 1 = PAGE_SIZE * q + r /\ q \in Nat
  <2>1. PAGE_SIZE * q = q * PAGE_SIZE /\ q * PAGE_SIZE \in Nat
    BY <1>0
  <2> QED BY <1>0, <2>1
<1> HIDE DEF r
<1>2. ASSUME q > a  PROVE  i > a * PAGE_SIZE + PAGE_SIZE
  <2>1. PICK d \in Nat : q = a + 1 + d
    <3>1. q - a - 1 \in Nat /\ q = a + 1 + (q - a - 1)
      BY <1>1, <1>2
    <3> QED BY <3>1
  <2>2. PAGE_SIZE * q = a * PAGE_SIZE + PAGE_SIZE + PAGE_SIZE * d
    BY <1>1, <2>1
  <2>3. PAGE_SIZE * d \in Nat
    BY <2>1
  <2> QED BY <1>1, <2>2, <2>3
<1>3. ASSUME q < a  PROVE  i <= a * PAGE_SIZE
  <2>1. PICK d \in Nat : a = q + 1 + d
    <3>1. a - q - 1 \in Nat /\ a = q + 1 + (a - q - 1)
      BY <1>1, <1>3
    <3> QED BY <3>1
  <2>2. a * PAGE_SIZE = PAGE_SIZE * q + PAGE_SIZE + PAGE_SIZE * d
    BY <1>1, <2>1
  <2>3. PAGE_SIZE * d \in Nat /\ PAGE_SIZE * q \in Nat
    BY <1>1, <2>1
  <2> QED BY <1>1, <2>2, <2>3
<1>4. ASSUME q = a  PROVE  a * PAGE_SIZE < i /\ i <= a * PAGE_SIZE + PAGE_SIZE
  <2>1. i - 1 = a * PAGE_SIZE + r
    BY <1>1, <1>4
  <2>2. a * PAGE_SIZE \in Nat
    OBVIOUS
  <2> QED BY <1>1, <2>1, <2>2
<1>5. a * PAGE_SIZE \in Nat
  OBVIOUS
<1>6. q < a \/ q = a \/ q > a
  BY <1>1
<1> QED BY <1>0, <1>1, <1>2, <1>3, <1>4, <1>5, <1>6

LEMMA WholePages ==
  ASSUME NEW a \in Nat
  PROVE  (a * PAGE_SIZE) \div PAGE_SIZE = a
<1>1. a * PAGE_SIZE + 1 \in Nat \ {0} /\ PAGE_SIZE >= 1
  BY PageAssumption
<1>2. Pages(a * PAGE_SIZE + 1) = a
  <2>1. PICK i \in Nat \ {0} : i = a * PAGE_SIZE + 1
    BY <1>1
  <2>2. a * PAGE_SIZE < i /\ i <= a * PAGE_SIZE + PAGE_SIZE
    BY <1>1, <2>1, PageAssumption
  <2> QED BY <2>1, <2>2, PageIndex
<1> QED BY <1>1, <1>2, PageAssumption DEF Pages

\* The walk has dealt with the market at place i.
Covered(i) ==
  listing[i] \in Eligible \ (malformed \union anonymous) =>
    listing[i] \in books \/ Pages(i) * PAGE_SIZE \in missed \/ CutOff(i, malformed)

\* What a worker's result says of page a.
GoodPage(result, a) ==
  \/ result = Pending
  \/ result = Failed /\ a * PAGE_SIZE \in missed
  \/ /\ \A i \in 1..Initial :
          Pages(i) = a /\ listing[i] \notin malformed \union anonymous =>
            listing[i] \in result.markets
     /\ IsLastPage(result) => \A i \in 1..Initial : Pages(i) > a => CutOff(i, malformed)

\* The first page of the batch.
first == next_offset \div PAGE_SIZE

\* As long as nothing has moved, every page that is merged is dealt with, and so
\* is the rest of the list when the scan has ended before MAX_PAGES.
ScanInv ==
  /\ first \in Nat /\ next_offset = first * PAGE_SIZE
  /\ merged \in Nat
  /\ pc \in {"workers", "merge"} =>
       /\ batch_size \in Nat \ {0}
       /\ merged <= batch_size
       /\ results = [w \in 1..batch_size |-> results[w]]
       /\ \A w \in 1..batch_size : GoodPage(results[w], first + w - 1)
  /\ pc = "merge" => \A w \in 1..batch_size : results[w] # Pending
  /\ pc \in {"batch", "workers", "merge"} =>
       \A i \in 1..Initial : Pages(i) < first + merged => Covered(i)
  /\ pc = "start" => \A i \in 1..Initial : Covered(i) \/ i > MAX_PAGES * PAGE_SIZE
  /\ pc = "batch" => merged = 0

\* As long as nothing has moved, the list has grown at its end only.
ApiInv ==
  /\ budget \in [created : Nat, closed : Nat, worker : Nat, tail : Nat, drops : Nat]
  /\ shifted \in BOOLEAN
  /\ ~ shifted => listing \in Seq(Nat) /\ Len(listing) >= Initial

LEMMA InsertedLast ==
  ASSUME NEW list \in Seq(Nat), NEW e \in Nat
  PROVE  LET longer == InsertAt(list, Len(list) + 1, e) IN
         /\ longer \in Seq(Nat) /\ Len(longer) = Len(list) + 1
         /\ \A j \in 1..Len(list) : longer[j] = list[j]
<1>1. PICK p \in Nat : p = Len(list) + 1
  OBVIOUS
<1>2. SubSeq(list, 1, p - 1) = list /\ SubSeq(list, p, Len(list)) = << >>
  BY <1>1
<1>3. InsertAt(list, p, e) = list \o <<e>>
  <2>1. InsertAt(list, p, e) = list \o <<e>> \o << >>
    BY <1>2, Zenon DEF InsertAt
  <2>2. list \o <<e>> \in Seq(Nat)
    OBVIOUS
  <2> QED BY <2>1, <2>2
<1>4. /\ list \o <<e>> \in Seq(Nat) /\ Len(list \o <<e>>) = Len(list) + 1
      /\ \A j \in 1..Len(list) : (list \o <<e>>)[j] = list[j]
  OBVIOUS
<1>5. InsertAt(list, Len(list) + 1, e) = list \o <<e>>
  BY <1>1, <1>3, Zenon
<1> QED BY <1>4, <1>5

LEMMA ApiInvStep ==
  ASSUME ApiInv, [Next]_vars
  PROVE  ApiInv'
<1> USE DEF ApiInv
<1>1. CASE Create
  <2>1. PICK i \in 1..Len(listing) + 1 :
          /\ listing' = InsertAt(listing, i, budget.created + 1)
          /\ shifted' = (shifted \/ i <= Len(listing))
    BY <1>1 DEF Create
  <2>2. ASSUME ~ shifted'
        PROVE  listing' \in Seq(Nat) /\ Len(listing') >= Initial
    <3>1. ~ shifted /\ ~ i <= Len(listing)
      BY <2>1, <2>2
    <3>2. i = Len(listing) + 1
      BY <3>1
    <3> QED BY <2>1, <3>1, <3>2, InsertedLast, MarketAssumption
  <2>3. budget' = [budget EXCEPT !.created = @ + 1] /\ shifted' \in BOOLEAN
    BY <1>1, <2>1 DEF Create
  <2> QED BY <2>2, <2>3
<1>2. CASE Close
  BY <1>2 DEF Close
<1>3. CASE Workers \/ MainThread \/ WebSocketThread \/ Signal \/ Drop \/ UNCHANGED vars
  <2>1. UNCHANGED <<listing, shifted>>
    BY <1>3 DEF Workers, MainThread, WebSocketThread, WorkerFetch, WorkerFails, StartBatch,
                JoinWorkers, MergePage, NextBatch, Start, Wake, TailFetch, TailFails, Push,
                Send, End, Connect, OpenCopies, OpenSends, Signal, Drop, apiVars, vars
  <2>2. \/ budget' = budget
        \/ \E f \in {"worker", "tail", "drops"} : budget' = [budget EXCEPT ![f] = @ + 1]
    BY <1>3 DEF Workers, MainThread, WebSocketThread, WorkerFetch, WorkerFails, StartBatch,
                JoinWorkers, MergePage, NextBatch, Start, Wake, TailFetch, TailFails, Push,
                Send, End, Connect, OpenCopies, OpenSends, Signal, Drop, vars
  <2> QED BY <2>1, <2>2
<1> QED BY <1>1, <1>2, <1>3 DEF Next, Environment

\* What is dealt with stays so: a step leaves the places of the list alone, and
\* takes no market out of the books.
LEMMA Steady ==
  ASSUME ApiInv, [Next]_vars, ~ shifted'
  PROVE  /\ ~ shifted
         /\ UNCHANGED <<malformed, anonymous>>
         /\ DOMAIN listing \subseteq DOMAIN listing'
         /\ \A i \in DOMAIN listing : listing'[i] = listing[i]
         /\ 1..Initial \subseteq DOMAIN listing
         /\ books \subseteq books' /\ missed \subseteq missed'
<1>1. ~ shifted
  BY DEF Next, Workers, MainThread, WebSocketThread, Environment, WorkerFetch, WorkerFails,
         StartBatch, JoinWorkers, MergePage, NextBatch, Start, Wake, TailFetch, TailFails,
         Push, Send, End, Connect, OpenCopies, OpenSends, Signal, Drop, Create, Close, vars
<1>2. /\ UNCHANGED <<malformed, anonymous>> /\ missed \subseteq missed'
      /\ listing' = listing \/ Create
  BY DEF Next, Workers, MainThread, WebSocketThread, Environment, WorkerFetch, WorkerFails,
         StartBatch, JoinWorkers, MergePage, NextBatch, Start, Wake, TailFetch, TailFails,
         Push, Send, End, Connect, OpenCopies, OpenSends, Signal, Drop, Create, Close,
         apiVars, vars
<1>3. books \subseteq books'
  <2>1. books' = books \/ MergePage \/ TailFetch
    BY DEF Next, Workers, MainThread, WebSocketThread, Environment, WorkerFetch, WorkerFails,
           StartBatch, JoinWorkers, NextBatch, Start, Wake, TailFails, Push, Send, End,
           Connect, OpenCopies, OpenSends, Signal, Drop, Create, Close, vars
  <2> QED BY <2>1 DEF MergePage, TailFetch, Track
<1>4. listing \in Seq(Nat) /\ Len(listing) >= Initial
  BY <1>1 DEF ApiInv
<1>5. 1..Initial \subseteq DOMAIN listing
  BY <1>4, MarketAssumption
<1>6. CASE Create
  <2>1. PICK i \in 1..Len(listing) + 1 :
          /\ listing' = InsertAt(listing, i, budget.created + 1)
          /\ shifted' = (shifted \/ i <= Len(listing))
    BY <1>6 DEF Create
  <2>2. i = Len(listing) + 1 /\ budget.created + 1 \in Nat
    <3>1. ~ i <= Len(listing)
      BY <1>1, <2>1
    <3> QED BY <1>4, <3>1 DEF ApiInv
  <2>3. /\ Len(listing') = Len(listing) + 1 /\ listing' \in Seq(Nat)
        /\ \A j \in 1..Len(listing) : listing'[j] = listing[j]
    BY <1>4, <2>1, <2>2, InsertedLast
  <2>4. /\ DOMAIN listing \subseteq DOMAIN listing'
        /\ \A j \in DOMAIN listing : listing'[j] = listing[j]
    <3>1. DOMAIN listing = 1..Len(listing) /\ DOMAIN listing' = 1..Len(listing')
      BY <1>4, <2>3
    <3> QED BY <1>4, <2>3, <3>1
  <2> QED BY <1>1, <1>2, <1>3, <1>5, <2>4
<1> QED BY <1>1, <1>2, <1>3, <1>5, <1>6

\* A page that is read while nothing has moved holds what the list has there, and
\* when it counts short, the list ends or a record of it does not count.
LEMMA PageIsGood ==
  ASSUME ApiInv, ~ shifted, NEW a \in Nat
  PROVE  GoodPage(WorkerPage(a * PAGE_SIZE), a)
<1> DEFINE off == a * PAGE_SIZE
<1>1. off \in Nat /\ PAGE_SIZE \in Nat \ {0}
  BY PageAssumption
<1>2. listing \in Seq(Nat) /\ Len(listing) >= Initial /\ Initial \in Nat
  BY MarketAssumption DEF ApiInv
<1>3. \A i \in 1..Initial : /\ i \in Nat \ {0} /\ i \in DOMAIN listing
                            /\ Pages(i) \in Nat
                            /\ Pages(i) = a <=> off < i /\ i <= off + PAGE_SIZE
                            /\ Pages(i) > a <=> i > off + PAGE_SIZE
  BY <1>2, PageIndex
<1> HIDE DEF off
<1>4. ASSUME NEW i \in 1..Initial, Pages(i) = a, listing[i] \notin malformed \union anonymous
      PROVE  listing[i] \in WorkerPage(off).markets
  BY <1>3, <1>4 DEF WorkerPage, Page, Places
<1>5. ASSUME IsLastPage(WorkerPage(off)), NEW i \in 1..Initial, Pages(i) > a
      PROVE  CutOff(i, malformed)
  <2>1. off + PAGE_SIZE < i /\ i <= Len(listing)
    BY <1>2, <1>3, <1>5
  <2>2. Places(off) = off + 1 .. off + PAGE_SIZE
    BY <1>1, <1>2, <2>1 DEF Places
  <2>3. Cardinality(Places(off)) = PAGE_SIZE
    BY <1>1, <2>2, FS_Interval
  <2>4. WorkerPage(off).page_count < PAGE_SIZE
    BY <1>5 DEF IsLastPage
  <2>5. PICK k \in Places(off) : listing[k] \in malformed
    <3> SUFFICES ASSUME \A k \in Places(off) : listing[k] \notin malformed  PROVE FALSE
      OBVIOUS
    <3>1. {j \in Places(off) : listing[j] \notin malformed} = Places(off)
      OBVIOUS
    <3> QED BY <1>1, <2>3, <2>4, <3>1 DEF WorkerPage, Page
  <2>6. k \in DOMAIN listing /\ k \in Nat \ {0} /\ off < k /\ k <= off + PAGE_SIZE
    BY <1>1, <1>2 DEF Places
  <2>7. Pages(k) = a
    BY <2>6, PageIndex DEF off
  <2> QED BY <1>5, <2>5, <2>6, <2>7 DEF CutOff, Pages
<1> QED BY <1>4, <1>5 DEF GoodPage, off

\* What the walk has dealt with stays so.
LEMMA GoodStaysGood ==
  ASSUME ApiInv, [Next]_vars, ~ shifted'
  PROVE  /\ \A i \in 1..Initial : CutOff(i, malformed) => CutOff(i, malformed)'
         /\ \A i \in 1..Initial : Covered(i) => Covered(i)'
<1>1. \A i \in 1..Initial : CutOff(i, malformed) => CutOff(i, malformed)'
  BY Steady DEF CutOff
<1> QED BY <1>1, Steady DEF Covered

LEMMA GoodPageStays ==
  ASSUME ApiInv, [Next]_vars, ~ shifted', NEW w, UNCHANGED <<next_offset, results[w]>>,
         GoodPage(results[w], first + w - 1)
  PROVE  GoodPage(results[w], first + w - 1)'
BY Steady, GoodStaysGood DEF GoodPage, first, IsLastPage, Pending, Failed

LEMMA ScanInvInit == Init => ScanInv
<1> SUFFICES ASSUME Init PROVE ScanInv
  OBVIOUS
<1>1. first = 0 /\ next_offset = 0 /\ 0 * PAGE_SIZE = 0
  BY PageAssumption DEF Init, first
<1>2. \A i \in 1..Initial : ~ Pages(i) < 0
  BY PageIndex, MarketAssumption
<1> QED BY <1>1, <1>2 DEF Init, ScanInv

LEMMA OffsetOfWorker ==
  ASSUME ScanInv, NEW w \in Nat \ {0}
  PROVE  WorkerOffset(w) = (first + w - 1) * PAGE_SIZE /\ first + w - 1 \in Nat
<1>1. first \in Nat /\ next_offset = first * PAGE_SIZE /\ PAGE_SIZE \in Nat
  BY PageAssumption DEF ScanInv
<1>2. (first + (w - 1)) * PAGE_SIZE = first * PAGE_SIZE + (w - 1) * PAGE_SIZE
  BY <1>1
<1> QED BY <1>1, <1>2 DEF WorkerOffset

LEMMA WorkerStep ==
  ASSUME ApiInv, ScanInv, [Next]_vars, ~ shifted', NEW w \in 1..N_SCAN_WORKERS,
         WorkerFetch(w) \/ WorkerFails(w)
  PROVE  ScanInv'
<1> DEFINE a == first + w - 1
<1>1. /\ pc = "workers" /\ pc' = "workers" /\ w \in 1..batch_size
      /\ UNCHANGED <<next_offset, merged>> /\ ~ shifted
      /\ results' = [results EXCEPT ![w] = results'[w]]
      /\ \/ results'[w] = WorkerPage(WorkerOffset(w)) /\ UNCHANGED missed
         \/ results'[w] = Failed /\ WorkerOffset(w) \in missed'
  BY Steady DEF WorkerFetch, WorkerFails, ScanInv, apiVars
<1>2. /\ batch_size' = batch_size /\ first' = first
      /\ batch_size \in Nat \ {0} /\ merged <= batch_size /\ first \in Nat
  BY <1>1 DEF batch_size, remaining_pages, first, ScanInv
<1>3. WorkerOffset(w) = a * PAGE_SIZE /\ a \in Nat
  BY <1>1, OffsetOfWorker, PageAssumption
<1>4. ASSUME NEW v \in 1..batch_size
      PROVE  GoodPage(results[v], first + v - 1)'
  <2>1. CASE v = w
    <3>1. GoodPage(WorkerPage(a * PAGE_SIZE), a)
      BY <1>1, <1>3, PageIsGood
    <3>2. PICK res : res = WorkerPage(a * PAGE_SIZE)
      OBVIOUS
    <3>3. CASE results'[w] = Failed /\ WorkerOffset(w) \in missed'
      BY <1>2, <1>3, <2>1, <3>3 DEF GoodPage
    <3>4. CASE results'[w] = res
      BY <1>2, <2>1, <3>1, <3>2, <3>4, Steady, GoodStaysGood
         DEF GoodPage, IsLastPage, Pending, Failed
    <3> QED BY <1>1, <1>3, <3>2, <3>3, <3>4
  <2>2. CASE v # w
    <3>1. results'[v] = results[v] /\ GoodPage(results[v], first + v - 1)
      BY <1>1, <2>2 DEF ScanInv
    <3> QED BY <1>1, <3>1, GoodPageStays
  <2> QED BY <2>1, <2>2
<1>5. results' = [v \in 1..batch_size' |-> results'[v]]
  BY <1>1, <1>2 DEF ScanInv
<1>6. \A i \in 1..Initial : Pages(i) < first + merged => Covered(i)'
  BY <1>1, GoodStaysGood DEF ScanInv
<1> QED BY <1>1, <1>2, <1>4, <1>5, <1>6 DEF ScanInv

LEMMA MergeStep ==
  ASSUME ApiInv, ScanInv, [Next]_vars, ~ shifted', MergePage
  PROVE  ScanInv'
<1> DEFINE w == merged + 1
           a == first + w - 1
<1>1. /\ pc = "merge" /\ w \in 1..batch_size /\ merged' = w /\ merged \in Nat
      /\ UNCHANGED <<next_offset, results, missed, listing>>
      /\ Track(results[w].markets)
      /\ IF IsLastPage(results[w]) THEN pc' = "start" ELSE pc' = "merge"
      /\ batch_size \in Nat \ {0}
  BY DEF MergePage, ScanInv, apiVars
<1>2. batch_size' = batch_size /\ first' = first /\ first \in Nat /\ a \in Nat
  BY <1>1 DEF batch_size, remaining_pages, first, ScanInv
<1>3. \A v \in 1..batch_size : GoodPage(results[v], first + v - 1)'
  BY <1>1, GoodPageStays DEF ScanInv
<1>4. GoodPage(results[w], a) /\ results[w] # Pending
  BY <1>1 DEF ScanInv
<1>5. \A i \in 1..Initial : Pages(i) < a => Covered(i)'
  BY <1>1, <1>2, GoodStaysGood DEF ScanInv
<1>6. ASSUME NEW i \in 1..Initial, Pages(i) = a
      PROVE  Covered(i)'
  <2>1. CASE results[w] = Failed /\ a * PAGE_SIZE \in missed
    BY <1>1, <1>6, <2>1 DEF Covered
  <2>2. CASE listing[i] \notin malformed \union anonymous => listing[i] \in results[w].markets
    BY <1>1, <2>2, Steady DEF Covered, Track
  <2> QED BY <1>4, <1>6, <2>1, <2>2 DEF GoodPage
<1>7. ASSUME IsLastPage(results[w]), NEW i \in 1..Initial, Pages(i) > a
      PROVE  Covered(i)'
  <2>1. CutOff(i, malformed)
    BY <1>4, <1>7 DEF GoodPage, IsLastPage, Failed
  <2> QED BY <2>1, GoodStaysGood DEF Covered
<1>8. \A i \in 1..Initial : Pages(i) \in Nat
  BY PageIndex, MarketAssumption
<1>9. CASE IsLastPage(results[w])
  <2>1. \A i \in 1..Initial : Covered(i)'
    BY <1>2, <1>5, <1>6, <1>7, <1>8, <1>9
  <2> QED BY <1>1, <1>2, <1>9, <2>1 DEF ScanInv
<1>10. CASE ~ IsLastPage(results[w])
  <2>1. \A i \in 1..Initial : Pages(i) < first + w => Covered(i)'
    BY <1>1, <1>2, <1>5, <1>6, <1>8
  <2> QED BY <1>1, <1>2, <1>3, <1>10, <2>1 DEF ScanInv
<1> QED BY <1>9, <1>10

LEMMA BatchStep ==
  ASSUME ApiInv, ScanInv, [Next]_vars, ~ shifted', NextBatch
  PROVE  ScanInv'
<1>1. /\ pc = "merge" /\ merged = batch_size /\ merged' = 0
      /\ next_offset' = next_offset + batch_size * PAGE_SIZE
      /\ pc' = IF next_offset' < MAX_PAGES * PAGE_SIZE THEN "batch" ELSE "start"
      /\ batch_size \in Nat /\ first \in Nat /\ next_offset = first * PAGE_SIZE
  BY DEF NextBatch, ScanInv
<1>2. PICK n \in Nat : n = first + batch_size
  BY <1>1
<1>3. next_offset' = n * PAGE_SIZE
  <2>1. (first + batch_size) * PAGE_SIZE = first * PAGE_SIZE + batch_size * PAGE_SIZE
    BY <1>1, PageAssumption
  <2> QED BY <1>1, <1>2, <2>1
<1>4. first' = n
  BY <1>3, PageIndex, PageAssumption, WholePages DEF first
<1>5. \A i \in 1..Initial : Pages(i) < n => Covered(i)'
  BY <1>1, <1>2, GoodStaysGood DEF ScanInv
<1>6. ASSUME NEW i \in 1..Initial, ~ next_offset' < MAX_PAGES * PAGE_SIZE
      PROVE  Covered(i)' \/ i > MAX_PAGES * PAGE_SIZE
  <2>1. SUFFICES ASSUME i <= n * PAGE_SIZE  PROVE Pages(i) < n
    BY <1>3, <1>5, <1>6, PageAssumption, MarketAssumption
  <2>2. n * PAGE_SIZE \in Nat /\ i \in Nat \ {0} /\ 0 * PAGE_SIZE = 0
    BY PageAssumption, MarketAssumption
  <2>3. n # 0
    BY <2>1, <2>2
  <2>4. PICK a \in Nat : n = a + 1
    <3>1. n - 1 \in Nat /\ n = n - 1 + 1
      BY <2>3
    <3> QED BY <3>1
  <2>5. n * PAGE_SIZE = a * PAGE_SIZE + PAGE_SIZE
    BY <2>4, PageAssumption
  <2>6. Pages(i) \in Nat /\ ~ Pages(i) > a
    BY <2>1, <2>2, <2>5, PageIndex, PageAssumption
  <2> QED BY <2>4, <2>6
<1> QED BY <1>1, <1>3, <1>4, <1>5, <1>6 DEF ScanInv

LEMMA ScanInvStep ==
  ASSUME ApiInv, ScanInv, [Next]_vars, ~ shifted'
  PROVE  ScanInv'
<1>1. CASE StartBatch
  <2>1. /\ pc = "batch" /\ pc' = "workers" /\ batch_size > 0 /\ merged = 0 /\ merged' = 0
        /\ results' = [w \in 1..batch_size |-> Pending]
        /\ next_offset' = next_offset
    BY <1>1 DEF StartBatch, ScanInv
  <2>2. batch_size' = batch_size /\ first' = first
    BY <2>1 DEF batch_size, remaining_pages, first
  <2>3. batch_size \in Nat \ {0}
    BY <2>1, PageAssumption DEF batch_size, remaining_pages, ScanInv, first
  <2>4. \A w \in 1..batch_size : GoodPage(results[w], first + w - 1)'
    BY <2>1 DEF GoodPage, Pending
  <2>5. \A i \in 1..Initial : Pages(i) < first + merged => Covered(i)'
    BY <2>1, GoodStaysGood DEF ScanInv
  <2> QED BY <2>1, <2>2, <2>3, <2>4, <2>5 DEF ScanInv
<1>2. CASE Workers
  BY <1>2, WorkerStep DEF Workers
<1>3. CASE MergePage
  BY <1>3, MergeStep
<1>4. CASE NextBatch
  BY <1>4, BatchStep
<1>5. CASE JoinWorkers \/ Start \/ Wake \/ TailFetch \/ TailFails \/ Push \/ Send \/ End
           \/ WebSocketThread \/ Environment \/ UNCHANGED vars
  <2>1. /\ UNCHANGED <<next_offset, merged>>
        /\ \/ pc' = pc /\ UNCHANGED results
           \/ pc = "workers" /\ pc' = "merge" /\ UNCHANGED results
              /\ \A w \in 1..batch_size : results[w] # Pending
           \/ pc' \notin {"batch", "workers", "merge", "start"}
    BY <1>5 DEF JoinWorkers, Start, Wake, TailFetch, TailFails, Push, Send, End,
                WebSocketThread, Connect, OpenCopies, OpenSends, Environment, Create, Close,
                Signal, Drop, scanVars, vars
  <2>2. batch_size' = batch_size /\ first' = first
    BY <2>1 DEF batch_size, remaining_pages, first
  <2>3. ASSUME UNCHANGED results, pc \in {"workers", "merge"}
        PROVE  \A w \in 1..batch_size : GoodPage(results[w], first + w - 1)'
    BY <2>1, <2>3, GoodPageStays DEF ScanInv
  <2>4. \A i \in 1..Initial : Covered(i) => Covered(i)'
    BY GoodStaysGood
  <2>5. CASE pc' \notin {"batch", "workers", "merge", "start"}
    BY <2>1, <2>2, <2>5 DEF ScanInv
  <2>6. CASE UNCHANGED results
    BY <2>1, <2>2, <2>3, <2>4, <2>6 DEF ScanInv, Pending
  <2> QED BY <2>1, <2>5, <2>6
<1> QED BY <1>1, <1>2, <1>3, <1>4, <1>5 DEF Next, MainThread

LEMMA ApiInvHolds == Spec => []ApiInv
<1>1. ASSUME Init  PROVE ApiInv
  <2>1. Initial \in Nat /\ [i \in 1..Initial |-> i] \in Seq(Nat)
        /\ Len([i \in 1..Initial |-> i]) = Initial
    BY MarketAssumption
  <2>2. listing = [i \in 1..Initial |-> i] /\ shifted = FALSE
    BY <1>1 DEF Init
  <2>3. budget \in [created : Nat, closed : Nat, worker : Nat, tail : Nat, drops : Nat]
    BY <1>1, <2>1 DEF Init
  <2>4. listing \in Seq(Nat) /\ Len(listing) >= Initial
    <3>1. Len(listing) = Initial /\ Initial >= Initial
      BY <2>1, <2>2
    <3> QED BY <2>1, <2>2, <3>1
  <2>5. shifted \in BOOLEAN
    BY <2>2
  <2> QED BY <2>3, <2>4, <2>5, Zenon DEF ApiInv
<1> QED BY <1>1, ApiInvStep, PTL DEF Spec

LEMMA ScanInvHolds == Spec => [](~ shifted => ScanInv)
<1>1. [Next]_vars /\ ApiInv /\ ~ shifted' => ~ shifted
  BY Steady
<1> QED BY <1>1, ApiInvHolds, ScanInvInit, ScanInvStep, PTL DEF Spec

-----------------------------------------------------------------------------
(* last_offset_ *)

Place == Nat \ {0}

\* The market at place i is there and in the books, if it is to be tracked, or its
\* page was given up.
Passed(i) ==
  \/ i \in DOMAIN listing /\ (listing[i] \in Eligible \ anonymous => listing[i] \in books)
  \/ Pages(i) * PAGE_SIZE \in missed

\* The market at place i is there and among those of a page, if it has an id.
OnPage(i, markets) ==
  i \in DOMAIN listing /\ (listing[i] \notin anonymous => listing[i] \in markets)

\* A worker's result of page a that is not the last one has every market with an id.
WholePage(result, a) ==
  \/ result = Pending
  \/ result = Failed /\ a * PAGE_SIZE \in missed
  \/ /\ result.page_count \in Nat
     /\ ~ IsLastPage(result) =>
          \A i \in Place : Pages(i) = a => OnPage(i, result.markets)

\* As long as nothing has moved, the walk of scan_all, that of tail_poll and
\* last_offset_ stand behind passed places only.
OffsetInv ==
  /\ last_offset_ \in Nat /\ \E n \in Nat : last_offset_ = n * PAGE_SIZE
  /\ \A i \in Place : i <= last_offset_ => Passed(i)
  /\ pc = "tail" =>
       /\ \E n \in Nat : offset = n * PAGE_SIZE
       /\ \A i \in Place : i <= offset => Passed(i)
  /\ pc \in {"batch", "workers", "merge"} =>
       \A i \in Place : i <= (first + merged) * PAGE_SIZE => Passed(i)
  /\ pc \in {"workers", "merge"} =>
       \A w \in 1..batch_size : WholePage(results[w], first + w - 1)

\* A page that does not count short is full of markets that count.
LEMMA PageIsWhole ==
  ASSUME ApiInv, ~ shifted, NEW a \in Nat,
         NEW uncounted, malformed \subseteq uncounted
  PROVE  LET result == Page(a * PAGE_SIZE, uncounted) IN
         /\ result.page_count \in Nat
         /\ ~ IsLastPage(result) =>
              \A i \in Place : Pages(i) = a => OnPage(i, result.markets)
<1> DEFINE off == a * PAGE_SIZE
           P == off + 1 .. off + PAGE_SIZE
           C == {i \in Places(off) : listing[i] \notin uncounted}
<1>1. off \in Nat /\ PAGE_SIZE \in Nat \ {0}
  BY PageAssumption
<1>2. listing \in Seq(Nat)
  BY DEF ApiInv
<1> HIDE DEF off
<1>3. IsFiniteSet(P) /\ Cardinality(P) = PAGE_SIZE
  BY <1>1, FS_Interval
<1>4. C \in SUBSET P
  BY <1>1, <1>2 DEF Places
<1>5. Cardinality(C) \in Nat /\ (Cardinality(C) >= PAGE_SIZE => C = P)
  <2>1. /\ IsFiniteSet(C) /\ Cardinality(C) <= Cardinality(P)
        /\ Cardinality(P) = Cardinality(C) => P = C
    BY <1>3, <1>4, FS_Subset
  <2>2. Cardinality(C) \in Nat
    BY <2>1, FS_CardinalityType
  <2> QED BY <1>1, <1>3, <2>1, <2>2
<1>6. Page(off, uncounted).page_count = Cardinality(C)
  BY DEF Page
<1>7. ASSUME ~ IsLastPage(Page(off, uncounted)), NEW i \in Place, Pages(i) = a
      PROVE  OnPage(i, Page(off, uncounted).markets)
  <2>1. C = P
    BY <1>1, <1>5, <1>6, <1>7 DEF IsLastPage
  <2>2. off < i /\ i <= off + PAGE_SIZE
    BY <1>7, PageIndex DEF off, Place
  <2>3. i \in C
    BY <1>1, <2>1, <2>2 DEF Place
  <2> QED BY <2>3 DEF OnPage, Page, Places
<1> QED BY <1>5, <1>6, <1>7 DEF off

\* What is passed stays so.
LEMMA PassedStays ==
  ASSUME ApiInv, [Next]_vars, ~ shifted'
  PROVE  /\ \A i \in Place : Passed(i) => Passed(i)'
         /\ \A w : UNCHANGED <<first, results[w]>> /\ WholePage(results[w], first + w - 1)
                  => WholePage(results[w], first + w - 1)'
BY Steady DEF Passed, WholePage, OnPage, IsLastPage, Pending, Failed

\* The next page of a walk: what is up to its end is what is up to its start, and it.
LEMMA NextPage ==
  ASSUME NEW a \in Nat, NEW i \in Place, i <= a * PAGE_SIZE + PAGE_SIZE
  PROVE  i <= a * PAGE_SIZE \/ Pages(i) = a
BY PageIndex, PageAssumption DEF Place

LEMMA NextMultiple ==
  ASSUME NEW a \in Nat
  PROVE  a * PAGE_SIZE \in Nat /\ (a + 1) * PAGE_SIZE = a * PAGE_SIZE + PAGE_SIZE
BY PageAssumption

LEMMA OffsetMergeStep ==
  ASSUME ApiInv, ScanInv, OffsetInv, [Next]_vars, ~ shifted', MergePage
  PROVE  OffsetInv'
<1> DEFINE w == merged + 1
           a == first + merged
<1>1. /\ pc = "merge" /\ w \in 1..batch_size /\ merged' = w /\ merged \in Nat
      /\ UNCHANGED <<next_offset, results, missed, listing>>
      /\ Track(results[w].markets)
      /\ IF IsLastPage(results[w])
           THEN last_offset_' = WorkerOffset(w) /\ pc' = "start"
           ELSE last_offset_' = last_offset_ /\ pc' = "merge"
  BY DEF MergePage, ScanInv, apiVars
<1>2. /\ batch_size' = batch_size /\ first' = first /\ first \in Nat /\ a \in Nat
      /\ a = first + w - 1 /\ first' + merged' = a + 1
  BY <1>1 DEF batch_size, remaining_pages, first, ScanInv
<1>3. WorkerOffset(w) = a * PAGE_SIZE /\ a * PAGE_SIZE \in Nat
  BY <1>1, <1>2, OffsetOfWorker, NextMultiple
<1>4. \A i \in Place : i <= a * PAGE_SIZE => Passed(i)'
  BY <1>1, PassedStays DEF OffsetInv
<1>5. \A i \in Place : i <= last_offset_ => Passed(i)'
  BY PassedStays DEF OffsetInv
<1>6. \A v \in 1..batch_size : WholePage(results[v], first + v - 1)'
  BY <1>1, <1>2, PassedStays DEF OffsetInv
<1>7. CASE IsLastPage(results[w])
  BY <1>1, <1>2, <1>3, <1>4, <1>7 DEF OffsetInv
<1>8. CASE ~ IsLastPage(results[w])
  <2>1. ASSUME NEW i \in Place, Pages(i) = a
        PROVE  Passed(i)'
    <3>1. WholePage(results[w], a) /\ results[w] # Pending
      BY <1>1, <1>2 DEF OffsetInv, ScanInv
    <3>2. CASE results[w] = Failed /\ a * PAGE_SIZE \in missed
      BY <1>1, <2>1, <3>2 DEF Passed
    <3>3. CASE OnPage(i, results[w].markets)
      BY <1>1, <3>3, Steady DEF OnPage, Passed, Track
    <3> QED BY <1>8, <2>1, <3>1, <3>2, <3>3 DEF WholePage
  <2>2. \A i \in Place : i <= (first' + merged') * PAGE_SIZE => Passed(i)'
    BY <1>2, <1>4, <2>1, NextPage, NextMultiple
  <2> QED BY <1>1, <1>2, <1>5, <1>6, <1>8, <2>2 DEF OffsetInv
<1> QED BY <1>7, <1>8

LEMMA OffsetTailStep ==
  ASSUME ApiInv, OffsetInv, [Next]_vars, ~ shifted', TailFetch
  PROVE  OffsetInv'
<1>1. PICK a \in Nat : offset = a * PAGE_SIZE
  BY DEF TailFetch, OffsetInv
<1>2. /\ pc = "tail" /\ UNCHANGED listing /\ Track(TailPage(offset).markets)
      /\ IF IsLastPage(TailPage(offset))
           THEN last_offset_' = offset /\ pc' = "push"
           ELSE /\ offset' = offset + PAGE_SIZE /\ last_offset_' = last_offset_
                /\ pc' \in {"tail", "push"}
  BY DEF TailFetch, apiVars
<1>3. \A i \in Place : i <= offset => Passed(i)'
  BY <1>2, PassedStays DEF OffsetInv
<1>4. \A i \in Place : i <= last_offset_ => Passed(i)'
  BY PassedStays DEF OffsetInv
<1>5. CASE IsLastPage(TailPage(offset))
  BY <1>1, <1>2, <1>3, <1>5, NextMultiple DEF OffsetInv
<1>6. CASE ~ IsLastPage(TailPage(offset))
  <2>1. ASSUME NEW i \in Place, Pages(i) = a
        PROVE  Passed(i)'
    <3>1. OnPage(i, TailPage(offset).markets)
      BY <1>1, <1>6, <2>1, PageIsWhole, Steady DEF TailPage
    <3> QED BY <1>2, <3>1, Steady DEF OnPage, Passed, Track
  <2>2. \A i \in Place : i <= offset' => Passed(i)'
    BY <1>1, <1>2, <1>3, <1>6, <2>1, NextPage
  <2>3. offset' = (a + 1) * PAGE_SIZE
    BY <1>1, <1>2, <1>6, NextMultiple
  <2> QED BY <1>2, <1>4, <1>6, <2>2, <2>3 DEF OffsetInv
<1> QED BY <1>5, <1>6

LEMMA OffsetInvStep ==
  ASSUME ApiInv, ScanInv, OffsetInv, [Next]_vars, ~ shifted'
  PROVE  OffsetInv'
<1>1. CASE MergePage
  BY <1>1, OffsetMergeStep
<1>2. CASE TailFetch
  BY <1>2, OffsetTailStep
<1>3. CASE Workers
  <2>1. PICK w \in 1..N_SCAN_WORKERS : WorkerFetch(w) \/ WorkerFails(w)
    BY <1>3 DEF Workers
  <2>2. /\ pc = "workers" /\ pc' = "workers" /\ w \in 1..batch_size
        /\ UNCHANGED <<next_offset, merged, last_offset_>>
        /\ results' = [results EXCEPT ![w] = results'[w]]
        /\ \/ results'[w] = WorkerPage(WorkerOffset(w)) /\ UNCHANGED apiVars
           \/ results'[w] = Failed /\ WorkerOffset(w) \in missed'
    BY <2>1 DEF WorkerFetch, WorkerFails, ScanInv, apiVars
  <2>3. /\ batch_size' = batch_size /\ first' = first
        /\ WorkerOffset(w) = (first + w - 1) * PAGE_SIZE /\ first + w - 1 \in Nat
    BY <2>2, OffsetOfWorker, PageAssumption DEF batch_size, remaining_pages, first
  <2>4. WholePage(results[w], first + w - 1)'
    <3>1. CASE results'[w] = Failed /\ WorkerOffset(w) \in missed'
      BY <2>3, <3>1 DEF WholePage
    <3>2. CASE results'[w] = WorkerPage(WorkerOffset(w)) /\ UNCHANGED apiVars
      <4>1. PICK res : res = WorkerPage(WorkerOffset(w))
        OBVIOUS
      <4>2. /\ res.page_count \in Nat
            /\ ~ IsLastPage(res) =>
                 \A i \in Place : Pages(i) = first + w - 1 => OnPage(i, res.markets)
        BY <2>3, <4>1, PageIsWhole, Steady DEF WorkerPage
      <4> QED BY <2>3, <3>2, <4>1, <4>2 DEF WholePage, OnPage, IsLastPage, apiVars
    <3> QED BY <2>2, <3>1, <3>2
  <2>5. \A v \in 1..batch_size : WholePage(results[v], first + v - 1)'
    <3> SUFFICES ASSUME NEW v \in 1..batch_size, v # w
                 PROVE  WholePage(results[v], first + v - 1)'
      BY <2>4
    <3>1. results'[v] = results[v] /\ WholePage(results[v], first + v - 1)
      BY <2>2 DEF ScanInv, OffsetInv
    <3> QED BY <2>3, <3>1, PassedStays
  <2> QED BY <2>2, <2>3, <2>5, PassedStays DEF OffsetInv
<1>4. CASE StartBatch
  <2>1. /\ pc = "batch" /\ pc' = "workers" /\ merged = 0 /\ merged' = 0
        /\ results' = [w \in 1..batch_size |-> Pending]
        /\ UNCHANGED <<next_offset, last_offset_>>
    BY <1>4 DEF StartBatch, ScanInv
  <2>2. batch_size' = batch_size /\ first' = first
    BY <2>1 DEF batch_size, remaining_pages, first
  <2>3. \A w \in 1..batch_size : WholePage(results[w], first + w - 1)'
    BY <2>1 DEF WholePage, Pending
  <2> QED BY <2>1, <2>2, <2>3, PassedStays DEF OffsetInv
<1>5. CASE NextBatch
  <2>1. /\ pc = "merge" /\ merged = batch_size /\ merged' = 0
        /\ next_offset' = next_offset + batch_size * PAGE_SIZE
        /\ pc' \in {"batch", "start"} /\ UNCHANGED last_offset_
        /\ batch_size \in Nat /\ first \in Nat /\ next_offset = first * PAGE_SIZE
    BY <1>5 DEF NextBatch, ScanInv
  <2>2. PICK n \in Nat : n = first + batch_size
    BY <2>1
  <2>3. next_offset' = n * PAGE_SIZE
    <3>1. (first + batch_size) * PAGE_SIZE = first * PAGE_SIZE + batch_size * PAGE_SIZE
      BY <2>1, PageAssumption
    <3> QED BY <2>1, <2>2, <3>1
  <2>4. first' = n /\ first' + merged' = n
    BY <2>1, <2>3, WholePages DEF first
  <2>5. \A i \in Place : i <= n * PAGE_SIZE => Passed(i)'
    BY <2>1, <2>2, PassedStays DEF OffsetInv
  <2> QED BY <2>1, <2>4, <2>5, PassedStays DEF OffsetInv
<1>6. CASE Wake
  <2>1. pc' = "tail" /\ offset' = last_offset_ /\ UNCHANGED last_offset_
    BY <1>6 DEF Wake
  <2> QED BY <2>1, PassedStays DEF OffsetInv
<1>7. CASE TailFails
  <2>1. pc = "tail" /\ pc' = "push" /\ last_offset_' = offset
    BY <1>7 DEF TailFails
  <2> QED BY <2>1, PassedStays, NextMultiple DEF OffsetInv
<1>8. CASE \/ JoinWorkers \/ Start \/ Push \/ Send \/ End
           \/ WebSocketThread \/ Environment \/ UNCHANGED vars
  <2>1. /\ UNCHANGED <<next_offset, merged, last_offset_, offset>>
        /\ \/ pc' = pc /\ UNCHANGED results
           \/ pc = "workers" /\ pc' = "merge" /\ UNCHANGED results
           \/ pc' \notin {"batch", "workers", "merge", "tail"}
    BY <1>8 DEF JoinWorkers, Start, Push, Send, End, WebSocketThread, Connect, OpenCopies,
                OpenSends, Environment, Create, Close, Signal, Drop, scanVars, tailVars, vars
  <2>2. batch_size' = batch_size /\ first' = first
    BY <2>1 DEF batch_size, remaining_pages, first
  <2>3. ASSUME UNCHANGED results, pc \in {"workers", "merge"}
        PROVE  \A w \in 1..batch_size : WholePage(results[w], first + w - 1)'
    BY <2>2, <2>3, PassedStays DEF OffsetInv
  <2> QED BY <2>1, <2>2, <2>3, PassedStays DEF OffsetInv
<1> QED BY <1>1, <1>2, <1>3, <1>4, <1>5, <1>6, <1>7, <1>8 DEF Next, MainThread

LEMMA OffsetInvInit == Init => OffsetInv
<1> SUFFICES ASSUME Init PROVE OffsetInv
  OBVIOUS
<1>1. first = 0 /\ merged = 0 /\ last_offset_ = 0 /\ 0 * PAGE_SIZE = 0 /\ pc = "batch"
  BY PageAssumption DEF Init, first
<1> QED BY <1>1 DEF OffsetInv, Place

-----------------------------------------------------------------------------
(* The theorems *)

\* What the bot tracks is what it has on its subscription list, once: whatever
\* the pages hold, however they overlap, and whichever requests fail.
THEOREM TrackedOnce == Spec => []TrackedMarketsAreSubscribedOnce
<1>1. ListInv => TrackedMarketsAreSubscribedOnce
  BY DEF ListInv, TrackedMarketsAreSubscribedOnce, In
<1> QED BY <1>1, ListInvHolds, PTL

\* No token is missing on a connection that has been opened: a tail poll that
\* finds markets while the Open callback sends its copy, and a connection that
\* is lost in between, included.
THEOREM LiveHasAll == Spec => []LiveConnectionHasAllTokens
<1>1. WsInv => LiveConnectionHasAllTokens
  BY DEF WsInv, BeingSent, LiveConnectionHasAllTokens
<1> QED BY <1>1, WsInvHolds, PTL

\* On a list on which nothing moves, scan_all misses only what the pages that its
\* workers gave up on hold, and what is behind a page that counted short: for
\* every page size, every number of workers and every list.
THEOREM ScanMissesNothingElse == Spec => []ScanMissesFailedPagesOnly
<1>1. (~ shifted => ScanInv) => ScanMissesFailedPagesOnly
  BY DEF ScanInv, Covered, Pages, ScanMissesFailedPagesOnly
<1> QED BY <1>1, ScanInvHolds, PTL

\* last_offset_ is never put behind a market that has not been seen, by scan_all or by
\* any poll, for every page size, number of workers, list and failure: with it a poll
\* that fails loses nothing (BotDiscovery.cpp:476-483, 501-516).
THEOREM OffsetIsSafe == Spec => []OffsetPassesNoMarket
<1>1. ApiInv /\ (~ shifted => OffsetInv) => OffsetPassesNoMarket
  <2> SUFFICES ASSUME ApiInv, OffsetInv, ~ shifted, NEW i \in DOMAIN listing, i <= last_offset_
               PROVE  Passed(i)
    BY DEF OffsetPassesNoMarket, Passed, Pages
  <2>1. i \in Place
    BY DEF ApiInv, Place
  <2> QED BY <2>1 DEF OffsetInv
<1>2. [Next]_vars /\ ApiInv /\ ~ shifted' => ~ shifted
  BY Steady
<1> QED BY <1>1, <1>2, ApiInvHolds, ScanInvHolds, OffsetInvInit, OffsetInvStep, PTL DEF Spec
=============================================================================
