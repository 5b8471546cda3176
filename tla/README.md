# TLA+ verification of Polymarket-Tickscope

Specifications, model-checking configurations and machine-checked proofs for the
C++ part of the repository and for the shell job that runs beside it. Every path
below is relative to the root of the repository.

Contents: 1 the system, 2 modules and their code, 3 runs, 4 fairness, 5 proofs,
6 findings, 7 what is not modelled, 8 plan.

## 1. The system

The **harvester** captures Polymarket's order-book feed to disk; the **bot** trades
on the same feed, on paper; the **Coinbase harvester** captures BTC prices; a **cron
job** ships closed capture files to S3.

    Gamma API --fetch--> MarketDiscovery --rows--> market_metadata.csv
                              | ids
                              v
    CLOB server <--ws--> WebSocketClient --json--> Feedhandler
                                                       | try_produce
                                                       v
                                                   RingBuffer
                                                       | consume
                                                       v
                  readers <-- OrderBook <-- Tickerplant --> polymarket_*.bin
                                                                |
                                                 hourly_flush.sh (cron) --> S3

| Component | State | Operations | Meets the others by |
|---|---|---|---|
| `RingBuffer` | two positions, a sequence number and a payload per slot | `produce`, `try_produce`, `consume` | shared memory: I/O thread to consumer thread |
| `Feedhandler` | none | `parse_and_push` | `try_produce`, drops at a full ring |
| `Tickerplant` | running and rotate flags, open file and stdio buffer, window, counter | `start`, `stop`, `force_rotate`, `run`, destructor | consumes the ring; files with the cron job; counter with readers |
| `OrderBook` | token map, table, 16-bit next index | `apply_tick`, `best_bid_ask` | written by the consumer, read by any thread |
| `hourly_flush.sh` | a list of closed files | find, convert, upload, delete | the data directory, by modification time |
| `WebSocketClient` | running, connected, time of the last message, subscription text | `run`, `stop`, `subscribe`, callbacks | I/O thread, watchdog, re-discovery thread, signal handler |
| `MarketDiscovery` | the metadata CSV | fetch, merge, append, prune | the CSV on disk |
| harvester `main` | flags, known ids, dedup set | boot, `rediscover_loop`, `sighandler`, shutdown | starts and joins all of the above |
| bot `BookState` | market table | `add_market`, `on_tick` | mutex, two threads |
| bot `StrategyEngine` | none of its own | `on_tick`, `sweep_expired` | called on two threads |
| bot `PaperGateway` | capital, positions, realised PnL, fees | `buy`, `sell` | mutex, two threads |
| bot `BotDiscovery` | last offset | `scan_all`, `tail_poll` | adds markets to `BookState`, returns their tokens |
| bot `main` | running flag, subscription list | first scan, poll loop, Open callback, shutdown | mutex and WebSocket: two threads |
| `BtcJournal` | open segment, a buffer of 1024 ticks | `write` (rotate, flush), destructor | files with the cron job |
| `CoinbaseFeed` | running flag, connection | `run`, `stop`, `on_message` | calls `BtcJournal` on its I/O thread |

What is hard, and what correctness means:

* **Ring.** Lock-free code with several producers. A payload is a plain copy, so
  two threads must never be at one slot; items arrive in claim order, once each;
  `try_produce` drops exactly at a full ring; nobody is blocked for ever.
* **Tickerplant and cron job.** A file is "sealed" for the cron job when its mtime is
  old enough. That is a protocol between a clock-driven rotation, stdio buffering and
  `find -mmin`: nothing that was flushed may be lost, the open file may not be deleted,
  a quiet feed must still be flushed, and `stop()` must drain the ring.
* **Book.** The counter `ticks_written` is a release store that readers synchronise
  on, while prices and sizes are plain words that they load one by one; the index is 16
  bits wide and the table bounded.
* **WebSocketClient.** Reconnects, half-open connections, a watchdog that replaces the
  library's thread, `subscribe()` from another thread, `stop()` at any time.
* **Harvester.** The metadata CSV is the decode key of the tick files. It is merged at
  boot, appended to while running, and pruned with a cutoff other than that of the
  tick files; it or its temporary file may not open; the process may crash anywhere, also
  in the middle of a line, and the next boot finds what it left; a signal may come at any time.
* **Bot.** Two threads sell the same position from copies read earlier. Its markets come
  from a REST list that changes between two pages, read by parallel workers that may
  fail; what is found must be subscribed, whatever the connection does meanwhile.
* **BtcJournal.** The same protocol with the cron job as the tickerplant's, but without its
  clock: the journal rotates and flushes on ticks only, buffers 1024 of them itself,
  and must neither overrun nor forget that buffer when `fopen` fails.

`PROJECT.json` lists each hazard with its line and the properties that would catch it.

## 2. Modules and their code

Names follow the source. `PROJECT.json` ("map") gives the lines of each definition.

**`MPSCQueue`** states what the ring promises: `Accept` puts an item at the end of a
FIFO queue, `Deliver` takes its head. **`RingBuffer`** is `RingBuffer.hpp`: each atomic
access is one action (`Claim` is the `fetch_add`, `SpinEnds` the acquire load that ends
the spin, `Publish` and `Recycle` the release stores) and the plain copies `CopyIn` and
`CopyOut` are actions of their own, so that a race is a state. `try_produce` is
`TryLoad`, `TryFull`, `TryFree` and `TryClaim`, then the same copy and publish. `sole`
is the contract the debug assertion states: a ring is used with `produce` by any
threads, or by one thread that may also use `try_produce`. Interleaving is sequentially
consistent. `RingBuffer!Queue` is `MPSCQueue` with the ring's histories of claims and
deliveries in place of its variables, and `ImplementsQueue` says that the ring implements it.

**`DurableLog`** states what capture to disk promises, whoever writes and however the
cron job ships: what is written comes to the disk, copies of what is on disk come to the
archive, and only what has a copy is taken off the disk. `Tickerplant` and `BtcJournal`
each implement it with their half of `hourly_flush.sh`: `Log` maps the ids of the flushed ticks,
of the ticks in the files and of those in S3 to its three variables (`ImplementsLog`).

**`OrderBook`** is the table and the two halves of `apply_tick`: `FindOrClaimSlot` finds a
known token or adds a new one, unless it is `Dropped` because the table is full, and
`StoreWord` is one of the two plain stores of a price and a size, which may come in
either order. **`Tickerplant`** extends it with `Tickerplant.cpp`: the program
counter walks `run()` (`LoopTop`, `ForcedRotation`, `Consume`, `Apply`, `Store`, `Count`,
`Maintain`, then `Drain` and `DrainEnds`), `Reopen` is `rotate()`, and the file system
is a function from window to the ticks and the mtime of its file. The ring is the
queue that `RingBufferProofs` shows it to be. `Read` is a thread that reads: the count
(`ReadCount`), the slot (`FindIndex`) and the two words of a side (`Load`), each a step. `HourlyFlush` is the cron job, `FeedStops`
and `Stop` what `main` does, `Crash` and `Restart` the service manager. Time advances
one minute at a time and only after the hot loop has looked at the present value: the
loop spins, so its 1024 iterations between two looks are far shorter than that.

**`WebSocketClient`** is `WebSocketClient.cpp` with the library (connect, reconnect,
`stop()` joining the I/O thread) as an external part. The Open callback is two actions,
`OpenSends` under the mutex and `OpenPublishes` after it, and `subscribe()` is three,
`SubscribeRecords`, `SubscribeChecks` and `SubscribeSends`: the mutex does not cover
`connected_`. A link fails with an event (`dead`) or without one (`half_open`).

**`Harvester`** is `harvester/main.cpp` with the CSV half of `MarketDiscovery.cpp`. A row
is reduced to its token and end date, a tick to its token and the mtime of its file.
Three constants turn on what the code does not exclude but its documents take for
granted: a signal before `main.cpp:402` (`EarlySignal`), a market that trades past its
end date (`TradesPastEnd`), and the operations on the CSV and its temporary file that may
fail (`Failures`: `"open"` for writing, `"read"`, `"write"` for the prints and the close, whose results nobody
looks at, and `"rename"`). An append that cannot open the CSV returns before it remembers its
ids, and the loop subscribes to them all the same: `unopened` keeps the ids whose row is
still owed, until a cycle or a boot that lists them finds the file open.

A `Crash` leaves what was being written as far as it has come: a CSV that ends in the middle
of a line (`torn`), or a part of the temporary file (`tmp`). A torn line takes in the next one that is
appended (`Joined`). `write_metadata_csv` returns when the temporary file does not open and its callers
rename all the same (`MarketDiscovery.cpp:254-260`, `:447-449`, `:528-529`), so that what an earlier crash
left there replaces the CSV (`Rewritten`). The boot merge, the first to write after a crash,
rewrites both files and clears such remains away; if it fails while there are some,
nothing holds of the CSV from then on, and `spoiled` records that.

**`BotTrading`** is `BookState`, `StrategyEngine`, `PaperGateway` and the bot's main loop.
Each critical section of a mutex is one action; between two of them the other thread
runs. A market's clock has four phases, which are the comparisons the code makes with
`MIN_REMAINING_S` and `EXPIRY_GRACE_S`.

**`BtcJournal`** is the Coinbase process: `BtcJournal.hpp`, `CoinbaseFeed.cpp` and
`coinbase/main.cpp`. The methods of the journal are functions from one state of object
and directory to the next (`flush`, `open_segment`, `rotate_if_needed`, ...), so that
`write` composes them in the order of the code and `OnMessage` is one step, as it is
on the single I/O thread. A file deleted while it is open is `linked = FALSE`: later
flushes go nowhere. The BTC part of `hourly_flush.sh` finds, uploads and deletes one
segment after another, behind the exits of the Polymarket part
(`PolymarketPartExits`), and may die between two steps. `MaxGap` is the longest silence
of the feed while a segment is open: the code bounds it nowhere, and what depends on
it is what the run `btc_idle` and the theorems tell. The wall clock does not go back.

**`BotDiscovery`** is `BotDiscovery.cpp` with the subscription half of `bot/main.cpp`.
The list behind the API is a sequence; a market is inserted at any place, since the
requests order by volume, or removed, between any two requests. Workers of a batch
read their pages in any order, `JoinWorkers` waits for them, and `MergePage` takes one page
into the books; the last page ends the scan with the rest of its batch (`IsLastPage`). A record
without a question (`malformed`) is skipped before it is counted, so that its page counts
as a shorter one (`Page`); one without a condition id (`anonymous`) is counted by the workers and not by
`tail_poll` (`WorkerPage`, `TailPage`). `TailFetch` and `TailFails` are one page of `tail_poll`. `OpenCopies` and `OpenSends` are the Open callback in
and after its critical section, `Push` and `Send` the main thread's counterparts. Which
markets pass the filter is a constant.

`MC*` modules define the constants of the runs, `*Proofs` modules hold the theorems.
A definition marked `(mutant)` stands in front of the definition it replaces: it is
that definition with a plausible bug, and some property must then fail.

## 3. Runs

| Run | Properties | Bounds and why they are enough |
|---|---|---|
| `ring` | `RingInv`, `NoDataRace`, `DropsOnlyWhenFull`, `HeadIsNeverStuck`, `HeadOnlyAdvances`, `ImplementsQueue`, `EveryClaimIsDelivered` | 3 threads, 2 slots, 4 positions: each slot is used in two laps, more producers than slots, so that producers wait on a full ring and on each other. The proofs remove the bounds for all but the liveness. |
| `tp_book` | `OneSlotPerToken`, `ReaderSeesCountedTicks`, `ShutdownOnlyAdvances`, `ShutdownCompletes` | 3 tokens for 2 slots, both sides and event types, 3 ticks, one reading thread, a forced rotation, in one instant: the table fills up, the words of one side are stored twice while they are loaded, and every stage of the loop meets `stop()`. The proofs remove the bounds for all but the liveness. |
| `tp_journal` | `OpenSegmentIsNotSealed`, `BufferedOnePeriodAtMost`, `ShutdownLosesNothing`, `ImplementsLog` | One forced rotation, which opens the file of a window before its time, with rotation 2 and minimum age 4: the tightest values with `(MaxForced + 1) * Rotation <= MinAge` (TLC refutes `OpenSegmentIsNotSealed` with a minimum age of 3; in the field nobody forces a rotation, and 15 <= 20 minutes). 7 clock values: into the fourth window, so a file is written, sealed, uploaded and deleted while others are open; one crash, one failing `fopen`, two ticks (one to be on disk and one to be on its way). The proofs remove the bounds for all four. |
| `ws_gateway` | `OnlyOverlappedTokensAreMissing`, `WatchdogIsNotBlind`, `ReplacementOnlyAdvances`, `HalfOpenIsReplaced`, `StopEndsRun` | 3 tokens, so that two subscriptions may meet one Open; any number of reconnects. The proofs remove the bounds for all but the liveness. |
| `harvester` | `WindowDecodes`, `NoDuplicateRows`, `RowsLeaveByRetentionOnly`, `SignalShutsDown` | 2 markets ending on different days, 2 boots, 2.5 days with a retention of one: rows are merged, appended, pruned and found again by a second boot, at both sides of midnight; the CSV and the temporary file may not open at any time, and the second boot meets every torn line and partial file that a crash can leave. |
| `bot_trading` | `MoneyBalances`, `SharesBalance`, `PendingSellsMatch`, `CapitalFloor`, `ExpiredPositionsClose` | 2 markets, 2 buys of up to 2 shares, capital for one and a half of them: a market is closed by either thread, and the second position overdraws by its fee. |
| `btc_journal` | `BufferHasRoom`, `OpenSegmentIsNotTaken`, `SegmentHoldsItsWindow`, `OnlyCrashesAndFailuresLoseTicks`, `ImplementsLog`, `ClosedSegmentsAreUploaded` | Rotation 2, age 3, silence 1: the tightest values with Rotation + MaxGap <= MinAge. 8 clock values are four windows, 3 ticks fill a buffer of two and begin another window; one crash and a restart into the same window; two failing `fopen` calls, so that a buffer fills without a file. The proofs remove the bounds for all but the liveness. |
| `bot_discovery` | `ScanMissesFailedPagesOnly`, `OffsetPassesNoMarket`, `TrackedMarketsAreSubscribedOnce`, `LiveConnectionHasAllTokens`, `AppendedMarketsAreFound` | 3 pages of 2 markets, a batch of 2 workers and one of 1, so that the list ends inside a batch, at its end or at the cap; 5 markets, the fourth of which may come without a question, and so cut the scan off before the fifth, or without a condition id, and so cut off the tail poll only; one market created, one closed; one failing page, one failing poll, one lost connection. |
| `ws_subscribe_race`, `harvester_signal`, `btc_idle`, `bot_discovery_moves` | one property each | Violations, see section 6. |

What each property means is stated above its definition. The less obvious ones:

* `ReaderSeesCountedTicks`: a reader that has seen `ticks_written = n` finds in each of the two
  words it loads then the last update among the first n ticks or a later one. The two words may be of
  different ticks: that is the torn read that `OrderBook.hpp:92-99` accepts, and the
  property says how far it can go. A token is not found only if none of the n ticks
  was about it or it came to a full table.
* `OpenSegmentIsNotSealed` and `ImplementsLog` together are the contract between
  `rotate()` and `hourly_flush.sh`, over crashes and restarts that open a file again. `ImplementsLog`
  says, for both journals, that what was flushed is on disk or in S3 at every later moment
  (the theorems `FlushedTicksAreKept` and `FlushedTicksAreSafe` state that by itself), and besides that no
  step archives what was not on disk, nor flushes while it deletes.
* `WindowDecodes`: every tick in the retention window has its row, or belongs to a market
  whose row could not be written because the CSV did not open since it was last listed
  (`unopened`). That the exception ends with the next fetch that lists the market is what the mutant,
  which remembers the ids before the file is open, breaks.
* `WindowDecodes`, `NoDuplicateRows` and `RowsLeaveByRetentionOnly` say nothing of a CSV that is `spoiled`.
  That takes a crash in the middle of a write and then a boot that cannot open the temporary file; without
  the exception TLC refutes each of the three (section 6). So the properties say that the remains of a
  crash do no harm at any boot that can write.
* `OnlyOverlappedTokensAreMissing` is what remains true in spite of the race of
  section 6: a token is missing on a live connection only if its `subscribe()` ran
  between the two halves of an Open callback.
* `CapitalFloor`: the entry check compares the price without its fee, so the account can
  be overdrawn, by the fee of a single share at most.
* Liveness has a safety half, which is what a bug would break: that something on the way is
  always there to take the next step, and that no other thread, late callback or retry
  undoes a step. The `...OnlyAdvances` properties say the second as a measure, the number of
  steps that are left, which no step raises and each step of the threads on the way
  lowers; `HeadIsNeverStuck` and `WatchdogIsNotBlind` say the first. `HeadOnlyAdvances` is about the
  oldest item of the ring (`HeldAt`, `StepsLeft`), `ShutdownOnlyAdvances` about `stop()` with ticks left in
  the ring (`StepsToClose`), and `ReplacementOnlyAdvances` about a half-open connection whose
  callback is still running. Two more are stated beside their proofs only: `SignalOnlyAdvances`, about a signal
  in the middle of a re-discovery cycle, and `StopOnlyAdvances`, about `stop()` in the middle of a restart.
  With fairness they give the liveness properties beside them.
* `OffsetPassesNoMarket`: `tail_poll` never looks in front of `last_offset_`, so whatever is
  there must have been seen, also when a poll fails or ends at any page.
* `SegmentHoldsItsWindow`: a file's name is the window of its ticks, which a rotation that
  flushes too late, or into the new file, breaks.
* `ClosedSegmentsAreUploaded` has a premise, that the job comes to its BTC part again and
  again. The script exits before it when the Polymarket part has nothing to do or fails
  (`hourly_flush.sh:64-67`, `:93-96`, `:125-128`): with the tickerplant down no BTC segment is
  shipped, although exit code 0 is documented as "nothing to do".
* `ScanMissesFailedPagesOnly` and `AppendedMarketsAreFound` are, like it, for a list on which nothing
  moves (`shifted`): on one that moves, offset paging can lose a market whatever the bot does.
  `AppendedMarketsAreFound` needs that no scan page was given up (`missed`), because
  `last_offset_` passes over it for good, and that no page in front counts short because of a
  record without a question (`CutOff`): such a page ends the scan and every later poll
  (`BotDiscovery.cpp:241-242`, `:366-370`, `:478`, `:510`). A record without a condition id ends the
  polls only, since the worker counts it (`:370`) and `tail_poll` does not (`:250-251`). The properties
  excuse what lies behind such a page, and so would not notice if the code lost more or less of it.
* `TrackedMarketsAreSubscribedOnce` and `LiveConnectionHasAllTokens` hold on any list. The
  latter has the name of the gateway's property that `ws_subscribe_race` refutes: the bot
  records and sends without a `connected` flag between the two, and has no such race.

`CHECK_DEADLOCK` is on except in the two runs of `BotDiscovery`, whose main thread ends with
the process: in the other modules the states in which a program has ended are explicit
stuttering actions (`Finished`, `Terminated`, `Done`, `Over`, `Stopped`), and cron goes on for ever.

Bounds: `MaxClaims` (ring); `MaxTicks`, `MaxTime`, `MaxCrashes`, `MaxFailures`, `MaxForced`
(tickerplant and journal); `MaxMarkets`, `MaxClosed`, `MaxWorkerErrors`, `MaxTailErrors`, `MaxDrops`
(discovery); `MaxClock`, `MaxBoots` (harvester); `MaxShares`, `MaxBuys` (bot). In
`WebSocketClient` the time since the last message stops just past the staleness limit,
beyond which nothing depends on it.

## 4. Fairness

Fairness is weak and is given to threads of the program that the code keeps running, never to calls
that somebody may or may not make:

* `ring`: a thread inside a call goes on, and the consumer polls (`Tickerplant::run` spins).
* `tp_book`: the consumer thread and the joining destructor.
* `ws_gateway`: the library's I/O thread connects sometime and reports a Close; `run()` and
  `subscribe()` go on; the clock runs. Messages, failures, `stop()` are not fair.
* `harvester`: the two threads; `rediscover_loop` sleeps in chunks and reads its flag.
* `bot_trading`: the main loop, which sweeps every `REDISCOVER_S` seconds. The feed is not
  fair: `ExpiredPositionsClose` holds for a market that has gone quiet.
* `btc_journal`: cron starts the job every hour (weak); its steps are strongly fair, since
  the job is not killed, and an upload does not fail, every time at the same place.
  Nothing makes the feed, the process or a signal fair.
* `bot_discovery`: the scan's workers, whose requests end by their time-outs, and the main
  thread, which wakes every `REDISCOVER_S` seconds. Requests fail a bounded number of times.

## 5. Proofs

All theorems are checked by TLAPS for every value of the constants that satisfies the
named assumptions.

**`RingBufferProofs`** (any producers, any items, `Capacity >= 2`). The properties are not
inductive: that a producer may write slot `pos % Capacity` depends on what every other
thread holds. `RingInv` says it in terms of *positions*: in the window
`read_index .. read_index + Capacity - 1` each slot is either free for its position or
published with that position's item (`WindowInv`); a claimed position that is not
published is held by a producer (`ClaimedInv`), by one only (`HoldersInv`). Slots of one
window differ, which is arithmetic about remainders (`SlotsDiffer`, `SlotNextLap`,
`SlotInLap`). From `RingInv` follow `DataRaceFreedom`, `InOrderDelivery`, `NoSpuriousDrop`
and, mapping a claim to `Accept` and a recycle to `Deliver`, `Refinement`.
`Capacity >= 2` is needed: section 6.

`HeadCanMove` and `HeadProgress` are the progress of the ring without its fairness: the position
at the head of a ring that is not empty is held by a producer past its spin, or is
published and the consumer's to take (`HeadIsNeverStuck`: with `ClaimedInv`, and since the head's slot
is free for it in the window), and the holder's steps cannot be undone.

`Occupancy` injects the positions a lap or more ahead of the consumer into the producers
that hold them; it needs a finite set of producers.

**`TickerplantProofs`** (any tokens, readers, table size, ticks, rotations, crashes and restarts).
`SlotPerToken`: the tokens of the book own distinct slots among the first `next_idx`, and
`next_idx` stops at the size of the table, below the range of its 16 bits
(`IndexAssumption`). `ReadersSeeCountedTicks`: the invariant `BookHistory` says of each word of
the table, and of the token map, which prefix of the consumed ticks it has seen (`WordHas`,
`MapHas`), all of it or all but the last tick while that is being applied; the counter
is never ahead of either (`CountInv`), and `ReaderInv` carries that to what a reader has in its hands,
since the consumed ticks only grow.

**`TickerplantJournalProofs`** (any ages, ticks, clock, crashes, failures, and any number of forced
rotations) assumes `ForcedRotationsFit`, `(MaxForced + 1) * Rotation <= MinAge`: the tests' `force_rotate()` opens a
window's file before its time, each call one window further ahead, and the file's mtime may be that
much older than its window when the window comes. In the program nobody calls `force_rotate()`, and the assumption is
`Rotation <= MinAge`, 15 and 20 minutes. The
run `tp_journal` is at the bound. `ClockInv`: the
consumer is at most one clock value behind, and the open file is that of the window
it has last looked at or of one ahead of it by a forced rotation each (`RotationSlot`). `FileInv`: a file's mtime is
no further in front of its window than that, and what
the job has in hand is older than `MinAge`; so the open file is not among
it (`OpenIsNotClosed`), nor is one that a restart opens again. So the job's files are frozen, and
`OpenSegmentIsSafe`, `FlushedTicksAreKept` and `JournalImplementsLog` follow. `JournaledInv`
dates every buffered tick no earlier than the last maintenance (`BufferIsRecent`), and with
`StopInv`, that nothing arrives after the loop's end, gives `ShutdownIsClean`. `ShutdownIsBounded` assumes nothing: the measure counts five steps for each tick
that is still in the ring, since `try_produce` is over when `stop()` comes, and the rest of the
walk to `fclose`.

**`HarvesterProofs`** (any markets, days, retention, clock, boots). `NoDuplicates`, `Decoding` and
`RetentionOnly` assume `OnlyOpensFail`, that nothing but the opening of a file fails. Their invariant `RowInv`
holds until the CSV is `spoiled`: from the construction of the dedup set
on the set covers the CSV, which a crash in the middle of an append must not break, and between the boot merge
and the next crash no torn line and no temporary file is left (`Healed`). It rests on what the operations
leave behind: a rewrite the new table or, where no temporary file was there before, the old one
(`RewriteOutcome`, `MergeOutcome`, `PruneOutcome`), an append whole lines (`AppendOutcome`), a crash only
more rows of the append under way (`CrashOutcome`).
`Decoding` assumes `~ TradesPastEnd` besides: its invariant adds that what is
subscribed has a row, has expired or is `unopened`, that the dedup set holds no id without a
row, and `CutoffsAgree` that the cutoff by day never overtakes the
cutoff by mtime. The assumptions are needed: TLC refutes `WindowDecodes` with `TradesPastEnd = TRUE`,
and all three properties with other failures in `harvester.cfg` (section 6). `SignalIsKept` assumes
`~ EarlySignal`, and the run `harvester_signal` shows why: after the handler both flags stay down (`SignalInv`),
so that each thread only goes to its end.

**`BotTradingProofs`** (any markets, quotes, fees, any number of buys). `SellsMatch`: a size
that a thread has read is the size of the position, if there still is one. The key
facts of `TradeInv`: `SweepIsLate` (the sweep's markets are in their grace period, hence
too near to their end to be entered again) and `PendingBuyIsNew` (only the WebSocket thread buys,
so nothing opens a position between its check and its buy). `SharesBalanced` follows.
`AccountHasAFloor` assumes `SmallParts`: a position takes at most half of the capital (`kelly_size` caps it at
a fifth) and a fee is at most the price. Its invariant follows the capital that the check has seen to the buy.
`MoneyIsAccountedFor` is about a fold over the markets, for which the library has no usable induction; it
goes by the smallest set of markets on which two such sums would differ (`SmallestSet`, `SumsDiffer`), and then a fill changes one
term only. It assumes that fees are numbers (`FeesAreNumbers`) and a finite set of markets.

**`BtcJournalProofs`**. `BufferNeverOverflows` assumes nothing: each branch of `flush` empties the
buffer, and `write` looks at its length before and after it stores a tick; the invariant
`ObjectInv` follows the object, field by field, through `rotate_if_needed`, `open_segment` and `flush`.
It also gives `TicksAreInTheirWindow` and `LossesAreAccountedFor`, without any assumption. The other
three theorems assume `Rotation + MaxGap <= MinAge` and hold for any values, crashes and
failures otherwise. An open segment has had a tick in its window (`RecentTick`), so while it is open
the clock is less than `Rotation + MaxGap` past its start, too near for `find -mmin`. This
becomes inductive together with `JobOK`: the windows of all files that the job has in hand or has
uploaded began more than `MinAge` ago, hence no `fopen` opens one of them again, not even
after a restart. `OpenSegmentIsSafe` follows, and with it the other half of the invariant, `TicksOK`: a
file that is on disk and in S3 is frozen, so that deleting it or uploading it again loses
nothing (`FlushedTicksAreSafe`), and every step is one of the log's (`JournalImplementsLog`). `btc_idle` shows that the assumption is needed; in the field
it says that the feed is never silent for more than 5 minutes.

**`BotDiscoveryProofs`** (any list, page size, number of workers, failures; no assumption).
`ListInv` is the bookkeeping of the main thread: what is in the books is on the subscription
list or in the tokens that the present call has found, once (`TrackedOnce`). `WsInv` adds the connection: what the
Open callback has copied, has sent or finds subscribed, and what `Push` has recorded
and `Send` not yet sent, cover the list (`LiveHasAll`). `ScanInv` follows the
walk: what a worker holds is what the list has at its offset, or its offset is in `missed`, and
all pages before the batch and the merged ones of the batch are dealt with
(`ScanMissesNothingElse`). `OffsetInv` says of the scan, of the poll under way and of `last_offset_` that everything in front
of them is passed: a page that does not count short is full of markets that count (`PageIsWhole`, by cardinalities), and
a walk moves on over such pages, or failed ones of the scan, only (`OffsetIsSafe`).

**`WebSocketClientProofs`** (any tokens, staleness limit, failures, restarts).
`OnlyOverlapIsMissing`: after the Open callback's message the server has every recorded id, but
for the overlapped ones and those that `subscribe()` is about to send. `PhaseInv` ties the I/O thread,
`connected_` and `run()` together: the watchdog's own store of `connected_` can be overwritten by an Open callback,
but only while `run()` waits for that callback's thread to end. `WatchdogSees` is a part of it;
`ReplacementAdvances` and `StopIsKept` follow with their measures, for every staleness limit.

**Only model-checked.** Liveness (`EveryClaimIsDelivered`, `ShutdownCompletes`,
`HalfOpenIsReplaced`, `StopEndsRun`, `SignalShutsDown`, `ExpiredPositionsClose`,
`ClosedSegmentsAreUploaded`, `AppendedMarketsAreFound`): fairness and ENABLED are out of the prover's
reach; the safety halves of all but `ExpiredPositionsClose` and `ClosedSegmentsAreUploaded` are theorems (those of `StopEndsRun` and `SignalShutsDown` are `StopIsKept` and `SignalIsKept`). So is every
invariant, action property and refinement of the passing runs.

## 6. Findings

| Run | What the code does | What the repository says |
|---|---|---|
| `ws_subscribe_race` | `subscribe()` between `OpenSends` and `OpenPublishes` records its tokens and sends nothing | `WebSocketClient.hpp:74-75` "Sends an incremental subscription for new_tokens on the live connection" |
| `harvester_signal` | a signal after `main.cpp:379` and before `:402` is undone by the store of `true`; `join` never returns | `main.cpp:43-44` "cleared by the signal handler to stop the re-discovery thread within 30 s" |
| `btc_idle` | the journal looks at the clock on ticks only; after 20 minutes without one the cron job deletes the open segment, and what is buffered then goes to a file without a name | `hourly_flush.sh:12-13` "any file older than 20 minutes is guaranteed to be sealed and safe to process" |
| `bot_discovery_moves` | the list is ordered by volume, and `tail_poll` never looks before `last_offset_` again | `BotDiscovery.hpp:10-11` "to detect new markets created since the last scan" |

Further disagreements need no run of their own; a change of a constant, or of the property named, shows them:

* `Capacity = 1` in `ring.cfg`, with `INVARIANT DeliveredInOrder`: with one slot, which
  `RingBuffer.hpp:79-82` admits, "published for p" and "free for p + 1" are the same number, and a
  producer overwrites an unread item (`:130-132` "cannot overwrite an unconsumed slot").
  The ring of the program has 65536 slots.
* `TradesPastEnd = TRUE` in `harvester.cfg` violates `WindowDecodes`: a row leaves by its end date,
  its ticks by their mtime (`MarketDiscovery.hpp:114-115` "has no retained ticks referencing it").
* Without `spoiled` in them, the harvester's three properties of the CSV are violated by `harvester.cfg` as it is: a
  crash leaves a part of the temporary file, the next boot cannot open that file, and renames it over
  the CSV (`MarketDiscovery.hpp:82-83` "writes to <path>.tmp then rename() — DuckDB never sees a
  partial file"). Rows are lost at once; and where the part ends in the middle of a line, the next appended row is
  glued onto it, is lost to the readers although its id is in the dedup set, and may read as a second row
  of the torn line's id.
* `Failures = {"write"}` violates all three: the result of no `fprintf` or `fclose` is looked at, so a disk that is
  full has a part of the table renamed over the CSV (`MarketDiscovery.hpp:79-80` "preserve with active=0
  (delisted — keeps historical tick JOINs intact)").
* `Failures = {"read"}` violates all three: a CSV that does not open for reading is taken for a first boot
  (`MarketDiscovery.cpp:295-296`), the merge rewrites it with the fetch alone, and if the second read of the boot
  fails (`main.cpp:320`) the dedup set is empty and every row is appended again (`MarketDiscovery.hpp:79-80` again).
* `Failures = {"rename"}` violates none of them, nor does `{}`; `{"open", "rename"}` violates all three, since a
  temporary file that was not renamed is there for the next one that does not open.

## 7. Not modelled

* JSON parsing (`Feedhandler`, bot `FeedHandler`): stateless; what it does to shared state is modelled.
* Prices as floating-point numbers: quotes are small integers, a word of the book is the
  id of the tick that wrote it.
* A `find_index()` that runs while the token map gets a new token: a data race on an
  `unordered_map`, which the code avoids by calling it in tests and diagnostics only.
* The `active` column and the HTTP paging of `MarketDiscovery`: a fetch is any set of ids.
  Rows have no length, so that the split of a CSV line longer than the 2048-byte buffer
  (`MarketDiscovery.cpp:298`) is outside of the model. The order of lines in the file is left out,
  and the fields of a line that two writers have glued together. `Crash` is a crash of the process:
  a loss of power, which may also undo a rename, is not modelled.
* A failing `fwrite` or `fflush` of the two journals (a full disk): `Tickerplant` and `BtcJournal` check neither;
  a failing `fopen` is modelled in both, and failing writes of the metadata CSV as `"write"` in `Failures`.
* The debug assertion of `try_produce` (`RingBuffer.hpp:185-194`): it remembers the first
  producer's thread id, and the watchdog's replacement of the library's thread brings
  another. It is compiled out of release builds.
* `LiveGateway`: a stub that places no order.
* Logging, core pinning, TLS, pings; the order of memory accesses below sequential
  consistency.
* The atomic `mid` price and the counter of `CoinbaseFeed`; a wall clock that goes back.
* The upload of the metadata CSV in `hourly_flush.sh`.
* Python (conversion, collectors, backtest, research) and deployment files: sequential I/O or
  offline analysis without state shared with the rest.

## 8. Plan

Done, in the order of importance: ring, tickerplant with cron job, book and its readers,
gateway, harvester, bot, Coinbase journal, the bot's discovery and subscription; the abstract queue and
the abstract log and their refinements; proofs of every safety property, and of the safety halves of
most of the liveness properties. What is left, in this order:

1. The safety halves of `ExpiredPositionsClose` (no sweep leaves a position of its copy that is in
   its grace period) and of `ClosedSegmentsAreUploaded` (a job passes over no segment it has found).
2. The debug assertion of `try_produce` composed with the watchdog's replacement of the
   I/O thread.
3. `MarketDiscovery`'s paging and its `active` column; rows with a length.
4. The ring and its drops composed with `Tickerplant` in place of the queue.

## 9. Running

    tlc -workers 2 -config ring.cfg MCRingBuffer       # any run: its cfg, its module
    tlapm RingBufferProofs.tla                         # any *Proofs module

`tp_book`, `tp_journal`, `harvester` and `bot_discovery` take two to three minutes, `btc_journal` and
`bot_trading` up to two, the others seconds. Of the proofs, those of the two journals take several
minutes. `BtcJournal` and `BotDiscovery` have constants that a cfg can state, and so need no MC module.
