---------------------------- MODULE Tickerplant ----------------------------
(***************************************************************************)
(* src/tickerplant/Tickerplant.cpp: the one consumer of the ring, which    *)
(* journals every tick and keeps the live book, composed with              *)
(*   - the WebSocket thread that feeds the ring with try_produce,          *)
(*   - threads that read ticks_written() and then the live book,           *)
(*   - main(), which stops the feed and then the tickerplant,              *)
(*   - the cron job scripts/harvester/hourly_flush.sh, which uploads and   *)
(*     deletes the journal files it takes for sealed,                      *)
(*   - a crash of the process and its restart by the service manager.      *)
(*                                                                         *)
(* The ring is the FIFO queue that RingBufferProofs shows it to be.  Time  *)
(* passes in maintenance periods: the hot loop spins, so 1024 iterations   *)
(* fit between two clock values (Advance says which threads keep up).      *)
(***************************************************************************)
EXTENDS OrderBook, Sequences

CONSTANTS
  RingCapacity,  \* slots of the ring
  Rotation,      \* rotation_interval_minutes_
  MinAge,        \* MIN_AGE_MINUTES of hourly_flush.sh
  Kinds,         \* the kinds of ticks that arrive: token, side and event type
  NoFile,        \* journal_fp_ == nullptr
  Readers,       \* threads that read the book, each a token and a side of it
  MaxTicks,      \* bound: ticks that arrive
  MaxTime,       \* bound: clock values
  MaxCrashes,    \* bound: crashes
  MaxFailures,   \* bound: fopen failures at rotation
  MaxForced      \* bound: force_rotate() calls

\* event_type is 0 for a price_change and 1 for a last_trade_price.
ASSUME KindsAssumption ==
  Kinds \subseteq [token : Token, side : Side, event_type : {0, 1}]
ASSUME NoFileAssumption == NoFile \notin Nat
ASSUME ReadersAssumption == Readers \subseteq [token : Token, side : Side]
ASSUME TimingAssumption ==
  Rotation \in Nat /\ Rotation > 0 /\ MinAge \in Nat /\ Rotation < MinAge

VARIABLES
  \* the program
  ring,              \* the ticks in the ring
  feeding,           \* the WebSocket thread still runs
  running,           \* running_
  force_rotate,      \* force_rotate_
  pc,                \* where the consumer thread is in run()
  tick,              \* its local tick
  to_store,          \* the words of apply_tick that are still to be stored
  ticks_written,     \* ticks_written_
  journal_fp,        \* the slot whose file is open, or NoFile
  current_slot,      \* current_slot_
  last_maintenance,  \* last_maintenance
  buffer,            \* ticks in the stdio buffer of journal_fp
  reader,            \* each reader: where it is and what it has read
  \* the machine
  clock,             \* wall clock
  files,             \* the journal directory: slot -> ticks on disk and mtime
  linked,            \* the open file still has its directory entry
  \* hourly_flush.sh
  flush_pc,          \* "idle", "convert" or "delete"
  closed_bins,       \* the files it found closed
  archive,           \* the ticks it has uploaded
  \* history
  consumed,          \* every tick taken from the ring since the start
  journaled,         \* when each tick was written to an open journal: id -> clock
  durable,           \* ids of the ticks a flush has put on disk
  budget             \* how many of the bounded events have happened

runVars    == <<running, force_rotate, pc, tick, ticks_written, last_maintenance>>
applyVars  == <<to_store, bookVars>>
fileVars   == <<journal_fp, current_slot, buffer, files, linked>>
flushVars  == <<flush_pc, closed_bins, archive>>
logVars    == <<consumed, journaled, durable>>
vars == <<ring, feeding, runVars, fileVars, flushVars, clock, logVars, budget,
          applyVars, reader>>

NoTick == [id |-> 0]

\* A reader's locals: the count it has read, then the slot that find_index
\* returned and the words it has loaded.
Idle == [at |-> "idle"]
Asking(count) == [at |-> "find", count |-> count]
Missed(me) == [at |-> "missed", count |-> me.count]
Loading(me, slot, seen) ==
  [at |-> "load", count |-> me.count, slot |-> slot, seen |-> seen]

Tick == [id : Nat, token : Token, side : Side, event_type : {0, 1}]

Ids(ticks) == {ticks[i].id : i \in DOMAIN ticks}

With(f, x, value) == [y \in DOMAIN f \union {x} |-> IF y = x THEN value ELSE f[y]]

time_slot(now) == now \div Rotation

InLoop == pc \in {"top", "consume", "apply", "store", "count", "maintain"}
Alive  == pc # "down"

-----------------------------------------------------------------------------
(* Files.  Opening in mode "ab" creates a missing file and leaves the      *)
(* modification time of an existing one alone.                             *)

Opened(dir, slot) ==
  IF slot \in DOMAIN dir THEN dir
                         ELSE With(dir, slot, [ticks |-> << >>, mtime |-> clock])

\* What the directory holds once the stdio buffer has been written out; the
\* bytes of a file that has been unlinked go nowhere.
Flushed ==
  IF journal_fp = NoFile \/ buffer = << >> \/ ~ linked
    THEN files
    ELSE [files EXCEPT ![journal_fp] = [ticks |-> @.ticks \o buffer, mtime |-> clock]]

\* fflush(journal_fp_)
FlushBuffer ==
  /\ files' = Flushed
  /\ durable' = durable \union Ids(buffer)
  /\ buffer' = << >>
  /\ UNCHANGED <<journal_fp, current_slot, linked>>

\* fclose of the open file, then fopen of slot's; a failed fopen leaves
\* journal_fp_ null.
Reopen(slot, opens) ==
  /\ durable' = durable \union Ids(buffer)
  /\ buffer' = << >>
  /\ current_slot' = slot
  /\ linked' = TRUE
  /\ IF opens
       THEN /\ journal_fp' = slot
            /\ files' = Opened(Flushed, slot)
            /\ UNCHANGED budget
       ELSE /\ budget.failures < MaxFailures
            /\ journal_fp' = NoFile
            /\ files' = Flushed
            /\ budget' = [budget EXCEPT !.failures = @ + 1]

-----------------------------------------------------------------------------
(* The constructor opens the file of the current window, then start().     *)

Init ==
  /\ ring = << >>
  /\ feeding = TRUE
  /\ running = TRUE
  /\ force_rotate = FALSE
  /\ pc = "top"
  /\ tick = NoTick
  /\ ticks_written = 0
  /\ clock = 0
  /\ last_maintenance = 0
  /\ current_slot = 0
  /\ journal_fp = 0
  /\ buffer = << >>
  /\ files = [s \in {0} |-> [ticks |-> << >>, mtime |-> 0]]
  /\ linked = TRUE
  /\ flush_pc = "idle"
  /\ closed_bins = {}
  /\ archive = {}
  /\ consumed = << >>
  /\ journaled = << >>
  /\ durable = {}
  /\ budget = [ticks |-> 0, crashes |-> 0, failures |-> 0, forced |-> 0]
  /\ to_store = {}
  /\ reader = [r \in Readers |-> Idle]
  /\ BookInit

\* Feedhandler::parse_and_push: try_produce, or drop when the ring is full.
TickArrives ==
  /\ feeding
  /\ Alive
  /\ budget.ticks < MaxTicks
  /\ budget' = [budget EXCEPT !.ticks = @ + 1]
  /\ IF Len(ring) < RingCapacity
       THEN \E kind \in Kinds :
              ring' = Append(ring, [id |-> budget.ticks + 1, token |-> kind.token,
                                    side |-> kind.side,
                                    event_type |-> kind.event_type])
       ELSE UNCHANGED ring
  /\ UNCHANGED <<feeding, runVars, fileVars, flushVars, clock, logVars, applyVars, reader>>

-----------------------------------------------------------------------------
(* run() *)

\* (mutant) a loop that does not look at running_
LoopTopForever ==
  /\ pc = "top"
  /\ ~ force_rotate
  /\ pc' = "consume"
  /\ UNCHANGED <<ring, feeding, running, force_rotate, tick, ticks_written,
                 last_maintenance, fileVars, flushVars, clock, logVars, budget,
                 applyVars, reader>>

\* The loop condition, when no forced rotation is requested.
LoopTop ==
  /\ pc = "top"
  /\ running
  /\ ~ force_rotate
  /\ pc' = "consume"
  /\ UNCHANGED <<ring, feeding, running, force_rotate, tick, ticks_written,
                 last_maintenance, fileVars, flushVars, clock, logVars, budget,
                 applyVars, reader>>

\* force_rotate(), for tests: the consumer moves on to the next window's file.
ForcedRotation ==
  /\ pc = "top"
  /\ running
  /\ force_rotate
  /\ force_rotate' = FALSE
  /\ \E opens \in BOOLEAN : Reopen(current_slot + 1, opens)
  /\ pc' = "consume"
  /\ UNCHANGED <<ring, feeding, running, tick, ticks_written, last_maintenance,
                 flushVars, clock, consumed, journaled, applyVars, reader>>

LoopEnds ==
  /\ pc = "top"
  /\ ~ running
  /\ pc' = "drain"
  /\ UNCHANGED <<ring, feeding, running, force_rotate, tick, ticks_written,
                 last_maintenance, fileVars, flushVars, clock, logVars, budget,
                 applyVars, reader>>

\* consume() succeeds and the tick is fwritten to the open file; stdio may
\* write a full buffer out at once.
ConsumeAndWrite(next) ==
  /\ ring # << >>
  /\ ring' = Tail(ring)
  /\ tick' = Head(ring)
  /\ consumed' = Append(consumed, Head(ring))
  /\ IF journal_fp = NoFile
       THEN UNCHANGED <<buffer, journaled>>
       ELSE /\ buffer' = Append(buffer, Head(ring))
            /\ journaled' = With(journaled, Head(ring).id, clock)
  /\ pc' = next

Consume ==
  /\ pc = "consume"
  /\ ConsumeAndWrite("apply")
  /\ UNCHANGED <<feeding, running, force_rotate, ticks_written, last_maintenance,
                 journal_fp, current_slot, files, linked, flushVars, clock,
                 durable, budget, applyVars, reader>>

\* The stdio buffer fills up in the middle of a period.
BufferSpills ==
  /\ InLoop
  /\ buffer # << >>
  /\ FlushBuffer
  /\ UNCHANGED <<ring, feeding, runVars, flushVars, clock, consumed, journaled,
                 budget, applyVars, reader>>

ConsumeEmpty ==
  /\ pc = "consume"
  /\ ring = << >>
  /\ pc' = "maintain"
  /\ UNCHANGED <<ring, feeding, running, force_rotate, tick, ticks_written,
                 last_maintenance, fileVars, flushVars, clock, logVars, budget,
                 applyVars, reader>>

\* Only price_change moves the book; a trade is journaled only.
IsBookEvent(t) == t.event_type = 0

\* apply_tick up to the stores; nothing is stored for a trade or when the table
\* is full.
Apply(from, to, skip) ==
  /\ pc = from
  /\ IF IsBookEvent(tick) /\ ~ Dropped(tick.token)
       THEN FindOrClaimSlot(tick.token) /\ to_store' = Word /\ pc' = to
       ELSE UNCHANGED <<token_to_idx, next_idx, to_store>> /\ pc' = skip
  /\ UNCHANGED <<ring, feeding, running, force_rotate, tick, ticks_written,
                 last_maintenance, fileVars, flushVars, clock, logVars, budget,
                 books, reader>>

\* (mutant) a size that is not written with its price
StoreOneWord(from, to) ==
  /\ pc = from
  /\ StoreWord(tick, "price")
  /\ to_store' = {}
  /\ pc' = to
  /\ UNCHANGED <<ring, feeding, running, force_rotate, tick, ticks_written,
                 last_maintenance, fileVars, flushVars, clock, logVars, budget,
                 token_to_idx, next_idx, reader>>

\* The two stores of apply_tick, in either order.
Store(from, to) ==
  /\ pc = from
  /\ \E word \in to_store :
       /\ StoreWord(tick, word)
       /\ to_store' = to_store \ {word}
  /\ pc' = IF to_store' = {} THEN to ELSE from
  /\ UNCHANGED <<ring, feeding, running, force_rotate, tick, ticks_written,
                 last_maintenance, fileVars, flushVars, clock, logVars, budget,
                 token_to_idx, next_idx, reader>>

\* The release increment, after the book has the tick.
Count(from, to) ==
  /\ pc = from
  /\ ticks_written' = ticks_written + 1
  /\ pc' = to
  /\ UNCHANGED <<ring, feeding, running, force_rotate, tick, last_maintenance,
                 fileVars, flushVars, clock, logVars, budget, applyVars, reader>>

\* Most iterations do not look at the clock, or find it unchanged.
NoMaintenance ==
  /\ pc = "maintain"
  /\ pc' = "top"
  /\ UNCHANGED <<ring, feeding, running, force_rotate, tick, ticks_written,
                 last_maintenance, fileVars, flushVars, clock, logVars, budget,
                 applyVars, reader>>

\* (mutant) rotation only while ticks arrive
RotationDueOnTicks == time_slot(clock) # current_slot /\ buffer # << >>

RotationDue == time_slot(clock) # current_slot

\* (mutant) rotation without the flush
MaintainWithoutFlush ==
  /\ pc = "maintain"
  /\ clock # last_maintenance
  /\ last_maintenance' = clock
  /\ IF RotationDue
       THEN \E opens \in BOOLEAN : Reopen(time_slot(clock), opens)
       ELSE UNCHANGED <<fileVars, durable, budget>>
  /\ pc' = "top"
  /\ UNCHANGED <<ring, feeding, running, force_rotate, tick, ticks_written,
                 flushVars, clock, consumed, journaled, applyVars, reader>>

\* A new clock value: flush, and rotate when the window has changed.
Maintain ==
  /\ pc = "maintain"
  /\ clock # last_maintenance
  /\ last_maintenance' = clock
  /\ IF RotationDue
       THEN \E opens \in BOOLEAN : Reopen(time_slot(clock), opens)
       ELSE FlushBuffer /\ UNCHANGED budget
  /\ pc' = "top"
  /\ UNCHANGED <<ring, feeding, running, force_rotate, tick, ticks_written,
                 flushVars, clock, consumed, journaled, applyVars, reader>>

\* After the loop: the ring is emptied the same way.
Drain ==
  /\ pc = "drain"
  /\ ConsumeAndWrite("drain_apply")
  /\ UNCHANGED <<feeding, running, force_rotate, ticks_written, last_maintenance,
                 journal_fp, current_slot, files, linked, flushVars, clock,
                 durable, budget, applyVars, reader>>

\* (mutant) the loop's end taken for the end of the ring
DrainEndsEarly ==
  /\ pc = "drain"
  /\ FlushBuffer
  /\ pc' = "returned"
  /\ UNCHANGED <<ring, feeding, running, force_rotate, tick, ticks_written,
                 last_maintenance, flushVars, clock, consumed, journaled, budget,
                 applyVars, reader>>

\* The ring is empty: the final fflush; run() returns.
DrainEnds ==
  /\ pc = "drain"
  /\ ring = << >>
  /\ FlushBuffer
  /\ pc' = "returned"
  /\ UNCHANGED <<ring, feeding, running, force_rotate, tick, ticks_written,
                 last_maintenance, flushVars, clock, consumed, journaled, budget,
                 applyVars, reader>>

HotLoop ==
  \/ LoopTop \/ ForcedRotation \/ LoopEnds
  \/ Consume \/ ConsumeEmpty
  \/ Apply("apply", "store", "count") \/ Store("store", "count")
  \/ Count("count", "maintain")
  \/ NoMaintenance \/ Maintain

DrainLoop ==
  \/ Drain \/ DrainEnds
  \/ Apply("drain_apply", "drain_store", "drain_count")
  \/ Store("drain_store", "drain_count") \/ Count("drain_count", "drain")

-----------------------------------------------------------------------------
(* main() and the other threads *)

\* wsc.run() returns once the I/O thread is joined: no more ticks arrive.
FeedStops ==
  /\ Alive
  /\ feeding
  /\ feeding' = FALSE
  /\ UNCHANGED <<ring, runVars, fileVars, flushVars, clock, logVars, budget, applyVars, reader>>

\* (mutant) main stops the tickerplant before the feed
StopWhileFeeding ==
  /\ Alive
  /\ running
  /\ running' = FALSE
  /\ UNCHANGED <<ring, feeding, force_rotate, pc, tick, ticks_written,
                 last_maintenance, fileVars, flushVars, clock, logVars, budget,
                 applyVars, reader>>

\* tp.stop(): main calls it after wsc.run() has returned.
Stop ==
  /\ Alive
  /\ ~ feeding
  /\ running
  /\ running' = FALSE
  /\ UNCHANGED <<ring, feeding, force_rotate, pc, tick, ticks_written,
                 last_maintenance, fileVars, flushVars, clock, logVars, budget,
                 applyVars, reader>>

\* The destructor: stop (already done), join, fclose.
Destroy ==
  /\ pc = "returned"
  /\ files' = Flushed
  /\ durable' = durable \union Ids(buffer)
  /\ buffer' = << >>
  /\ journal_fp' = NoFile
  /\ pc' = "closed"
  /\ UNCHANGED <<ring, feeding, running, force_rotate, tick, ticks_written,
                 last_maintenance, current_slot, linked, flushVars, clock,
                 consumed, journaled, budget, applyVars, reader>>

\* A test asks for a rotation.
ForceRotate ==
  /\ InLoop
  /\ budget.forced < MaxForced
  /\ budget' = [budget EXCEPT !.forced = @ + 1]
  /\ force_rotate' = TRUE
  /\ UNCHANGED <<ring, feeding, running, pc, tick, ticks_written,
                 last_maintenance, fileVars, flushVars, clock, logVars, applyVars, reader>>

\* The process dies: the ring, the stdio buffer and the book are gone.
Crash ==
  /\ Alive
  /\ pc # "closed"
  /\ budget.crashes < MaxCrashes
  /\ budget' = [budget EXCEPT !.crashes = @ + 1]
  /\ pc' = "down"
  /\ ring' = << >>
  /\ buffer' = << >>
  /\ journal_fp' = NoFile
  /\ tick' = NoTick
  /\ consumed' = << >>
  /\ ticks_written' = 0
  /\ running' = FALSE
  /\ force_rotate' = FALSE
  /\ token_to_idx' = << >>
  /\ books' = [i \in Indices |-> [s \in Side |-> [w \in Word |-> NoQuote]]]
  /\ next_idx' = 0
  /\ to_store' = {}
  /\ reader' = [r \in Readers |-> Idle]
  /\ UNCHANGED <<feeding, last_maintenance, current_slot, files, linked,
                 flushVars, clock, journaled, durable>>

\* The service manager starts it again: constructor and start().
Restart ==
  /\ pc = "down"
  /\ pc' = "top"
  /\ running' = TRUE
  /\ feeding' = TRUE
  /\ last_maintenance' = clock
  /\ current_slot' = time_slot(clock)
  /\ journal_fp' = time_slot(clock)
  /\ files' = Opened(files, time_slot(clock))
  /\ linked' = TRUE
  /\ UNCHANGED <<ring, force_rotate, tick, ticks_written, buffer, flushVars,
                 clock, logVars, budget, applyVars, reader>>

\* The clock moves on, once the hot loop has looked at the present value; the
\* drain and the join after it take no time.
Advance ==
  /\ clock < MaxTime
  /\ \/ pc \in {"down", "closed"}
     \/ InLoop /\ last_maintenance = clock
  /\ clock' = clock + 1
  /\ UNCHANGED <<ring, feeding, runVars, fileVars, flushVars, logVars, budget, applyVars, reader>>

-----------------------------------------------------------------------------
(* A thread that reads the book, as "a reader that observes ticks_written() *)
(* also sees this tick in the book" has it.  A find_index() that overlaps   *)
(* the insertion of a new token is a data race and left out: diagnostics    *)
(* call it when the count tells that its token has been applied.            *)

\* ticks_written(), an acquire load.
ReadCount(r) ==
  /\ Alive
  /\ reader[r].at \in {"idle", "missed", "load"}
  /\ reader' = [reader EXCEPT ![r] = Asking(ticks_written)]
  /\ UNCHANGED <<ring, feeding, runVars, fileVars, flushVars, clock, logVars, budget,
                 applyVars>>

\* find_index()
FindIndex(r) ==
  /\ reader[r].at = "find"
  /\ reader' = [reader EXCEPT ![r] =
                  IF Known(r.token) THEN Loading(@, token_to_idx[r.token], << >>)
                                    ELSE Missed(@)]
  /\ UNCHANGED <<ring, feeding, runVars, fileVars, flushVars, clock, logVars, budget,
                 applyVars>>

\* state(idx): one of the two plain loads.
Load(r, word) ==
  /\ reader[r].at = "load"
  /\ word \notin DOMAIN reader[r].seen
  /\ LET me == reader[r] IN
     reader' = [reader EXCEPT ![r] =
                  Loading(me, me.slot,
                          With(me.seen, word, books[me.slot][r.side][word]))]
  /\ UNCHANGED <<ring, feeding, runVars, fileVars, flushVars, clock, logVars, budget,
                 applyVars>>

Read == \E r \in Readers :
  ReadCount(r) \/ FindIndex(r) \/ \E word \in Word : Load(r, word)

-----------------------------------------------------------------------------
(* hourly_flush.sh *)

Sealed(slot) == clock - files[slot].mtime > MinAge

\* find -mmin +MIN_AGE_MINUTES
FlushFinds ==
  /\ flush_pc = "idle"
  /\ closed_bins' = {s \in DOMAIN files : Sealed(s)}
  /\ closed_bins' # {}
  /\ flush_pc' = "convert"
  /\ UNCHANGED <<ring, feeding, runVars, fileVars, archive, clock, logVars,
                 budget, applyVars, reader>>

\* (mutant) every file that was found is taken for converted
FlushTakesAll ==
  /\ flush_pc = "convert"
  /\ \E converted \in SUBSET closed_bins :
       archive' = archive \union UNION {Ids(files[s].ticks) : s \in converted}
  /\ flush_pc' = "delete"
  /\ UNCHANGED <<ring, feeding, runVars, fileVars, closed_bins, clock, logVars,
                 budget, applyVars, reader>>

\* Convert and upload; a file that does not convert stays, and all of them
\* stay when an upload fails (then the copies in the archive count for nothing).
FlushUploads ==
  /\ flush_pc = "convert"
  /\ \E converted \in SUBSET closed_bins :
       /\ archive' = archive \union UNION {Ids(files[s].ticks) : s \in converted}
       /\ closed_bins' = converted
       /\ flush_pc' = IF converted = {} THEN "idle" ELSE "delete"
  /\ UNCHANGED <<ring, feeding, runVars, fileVars, clock, logVars, budget, applyVars, reader>>

\* rm -f of every file that was converted.
FlushDeletes ==
  /\ flush_pc = "delete"
  /\ files' = [s \in DOMAIN files \ closed_bins |-> files[s]]
  /\ linked' = (linked /\ journal_fp \notin closed_bins)
  /\ closed_bins' = {}
  /\ flush_pc' = "idle"
  /\ UNCHANGED <<ring, feeding, runVars, journal_fp, current_slot, buffer,
                 archive, clock, logVars, budget, applyVars, reader>>

HourlyFlush == FlushFinds \/ FlushUploads \/ FlushDeletes

-----------------------------------------------------------------------------
Terminated ==
  /\ pc = "closed"
  /\ UNCHANGED vars

Next ==
  \/ HotLoop \/ DrainLoop \/ BufferSpills
  \/ TickArrives \/ FeedStops \/ Stop \/ Destroy \/ ForceRotate
  \/ Crash \/ Restart \/ Advance
  \/ HourlyFlush
  \/ Read
  \/ Terminated

Spec == Init /\ [][Next]_vars

\* The consumer thread and the destructor's join keep running.
FairSpec == Spec /\ WF_vars(HotLoop) /\ WF_vars(DrainLoop) /\ WF_vars(Destroy)

-----------------------------------------------------------------------------
(* Properties. *)

OnDisk == UNION {Ids(files[s].ticks) : s \in DOMAIN files}

\* Journal, rotations, crashes, restarts and the cron job together implement the
\* log of ticks that are on disk or in S3: nothing on disk disappears unless its
\* copy was uploaded before.
Log == INSTANCE DurableLog WITH
  written <- durable, disk <- OnDisk, archive <- archive
ImplementsLog == Log!Spec

\* The cron job never takes the file that the tickerplant has open, and never
\* removes it: a file older than MinAge is sealed because rotation runs on
\* the clock, also when no ticks arrive.
OpenSegmentIsNotSealed ==
  /\ journal_fp # NoFile => linked /\ journal_fp \notin closed_bins
  /\ flush_pc = "delete" =>
       \A s \in closed_bins : Ids(files[s].ticks) \subseteq archive

\* The stdio buffer never holds a tick over a whole maintenance period, so a
\* crash loses at most the ticks of the last two clock values.
BufferedOnePeriodAtMost ==
  \A id \in Ids(buffer) : clock <= journaled[id] + 1

\* When the process has ended, the ring is empty and every tick that was
\* accepted and had an open journal is on disk or uploaded.
ShutdownLosesNothing ==
  pc = "closed" =>
    /\ ring = << >>
    /\ ticks_written = Len(consumed)
    /\ Ids(consumed) \intersect DOMAIN journaled \subseteq OnDisk \union archive
    /\ budget.failures = 0 => Ids(consumed) \subseteq DOMAIN journaled

\* Which of the first n consumed ticks have moved this side of the book.
Updates(n, token, side) ==
  {k \in 1 .. n : /\ consumed[k].token = token
                  /\ consumed[k].side = side
                  /\ consumed[k].event_type = 0}

\* What those n ticks leave there.
IsLastUpdate(quote, n, token, side) ==
  LET hits == Updates(n, token, side) IN
  \/ hits = {} /\ quote = NoQuote
  \/ \E k \in hits : quote = consumed[k].id /\ \A j \in hits : j <= k

\* A reader that observes ticks_written() also sees those ticks in the book, in
\* each of the two words it loads: the last update among the ticks it has seen
\* counted or a later one, although the words are stored, and loaded, one by one.
\* Only a token that came after the table was full is not found.
ReaderSeesCountedTicks ==
  \A r \in Readers : LET me == reader[r] IN
    /\ me.at = "load" =>
         \A word \in DOMAIN me.seen : \E n \in me.count .. Len(consumed) :
           IsLastUpdate(me.seen[word], n, r.token, r.side)
    /\ me.at = "missed" => Updates(me.count, r.token, r.side) = {} \/ TableFull

\* The steps of the consumer thread and the destructor until the process has
\* ended: five for each tick in the ring (consume, apply, two stores, count), and
\* those from where the thread stands.
StepsToClose ==
  5 * Len(ring)
    + CASE pc = "closed"       -> 0
        [] pc = "returned"     -> 1
        [] pc = "drain"        -> 2
        [] pc = "drain_count"  -> 3
        [] pc = "drain_store"  -> IF to_store = Word THEN 5 ELSE 4
        [] pc = "drain_apply"  -> 6
        [] pc = "top"          -> 3
        [] pc = "maintain"     -> 4
        [] pc \in {"count", "consume"} -> 5
        [] pc = "store"        -> IF to_store = Word THEN 7 ELSE 6
        [] pc = "apply"        -> 8

\* After stop() the end is a bounded number of steps away and no thread moves it
\* back: the order of main(), the feed first and then the tickerplant, is
\* what keeps the drain from chasing a ring that still fills.  Every step of the
\* consumer, wherever stop() has met it, brings the end closer.
ShutdownOnlyAdvances ==
  [][~ running /\ Alive /\ pc' # "down" =>
       /\ StepsToClose' <= StepsToClose
       /\ HotLoop \/ DrainLoop \/ Destroy => StepsToClose' < StepsToClose]_vars

\* stop() after the feed has ended leads to a joined thread and a closed file.
ShutdownCompletes == (~ running /\ Alive) ~> pc \in {"closed", "down"}
=============================================================================
