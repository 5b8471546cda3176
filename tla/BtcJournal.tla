----------------------------- MODULE BtcJournal -----------------------------
(***************************************************************************)
(* The Coinbase process: src/coinbase/CoinbaseFeed.cpp, whose I/O thread   *)
(* writes every quote to src/coinbase/BtcJournal.hpp, and main.cpp, which  *)
(* runs the feed until a signal.  Composed with                            *)
(*   - the connection to Coinbase, which comes and goes,                   *)
(*   - the BTC part of scripts/harvester/hourly_flush.sh, which uploads    *)
(*     and deletes the segments it takes for sealed,                       *)
(*   - a crash of the process and its restart.                             *)
(*                                                                         *)
(* Unlike the tickerplant, the journal looks at the clock only when a tick *)
(* arrives: a silent feed leaves its segment open.  MaxGap is the longest  *)
(* silence of the feed while a segment is open.                            *)
(***************************************************************************)
EXTENDS Integers, Sequences, FiniteSets

CONSTANTS
  BUF_CAP,      \* ticks of buf_
  Rotation,     \* rotation_minutes_
  MinAge,       \* MIN_AGE_MINUTES of hourly_flush.sh
  MaxGap,       \* longest silence of the feed while a segment is open
  NoFile,       \* file_ == nullptr
  MaxTicks,     \* bound: ticks that arrive
  MaxTime,      \* bound: clock values
  MaxCrashes,   \* bound: crashes
  MaxFailures   \* bound: failing fopen calls

ASSUME JournalAssumption ==
  /\ BUF_CAP \in Nat \ {0}
  /\ Rotation \in Nat \ {0}
  /\ MinAge \in Nat
  /\ MaxGap \in Nat
  /\ MaxTime \in Nat
ASSUME NoFileAssumption == NoFile \notin Nat

VARIABLES
  \* the program
  pc,                \* main(): "boot", "run", "stop" (the loop is left), "exited", "down"
  running,           \* running_
  connected,         \* the I/O thread runs and its connection is subscribed
  file_,             \* the segment whose file is open, or NoFile
  segment_start_ms_, \* start of the segment last opened
  buf_,              \* the buffered ticks; its length is buf_pos_
  \* the machine
  clock,
  files,             \* data_dir: segment -> ticks on disk and mtime
  linked,            \* the open file still has its directory entry
  \* hourly_flush.sh
  job_pc,            \* "idle", "polymarket", "btc" or "delete"
  closed_btc,        \* segments found closed and not yet processed
  bin_file,          \* the segment being deleted
  archive,           \* the S3 objects: segment -> ids of its ticks
  \* history
  last_tick,         \* when the last tick arrived
  flushed,           \* ids of the ticks fwritten to an open file
  dropped,           \* ids dropped because no file could be opened
  crashed,           \* ids that were in the buffer at a crash
  budget             \* how many of the bounded events have happened

mainVars    == <<pc, running, connected>>
journalVars == <<file_, segment_start_ms_, buf_, files, linked, flushed, dropped>>
jobVars     == <<job_pc, closed_btc, bin_file, archive>>
vars == <<mainVars, journalVars, jobVars, clock, last_tick, crashed, budget>>

Ids(ticks) == {ticks[i].id : i \in DOMAIN ticks}

Put(f, s, value) == [x \in DOMAIN f \union {s} |-> IF x = s THEN value ELSE f[x]]

Alive == pc \in {"boot", "run", "stop"}

-----------------------------------------------------------------------------
(* BtcJournal: each method as a function of the object and the directory,  *)
(* so that write() can call them in the order of the code.                 *)

Journal == [file_ |-> file_, segment_start_ms_ |-> segment_start_ms_, buf_ |-> buf_,
            files |-> files, linked |-> linked, flushed |-> flushed,
            dropped |-> dropped]

JournalBecomes(j) ==
  /\ file_' = j.file_
  /\ segment_start_ms_' = j.segment_start_ms_
  /\ buf_' = j.buf_
  /\ files' = j.files
  /\ linked' = j.linked
  /\ flushed' = j.flushed
  /\ dropped' = j.dropped

\* The start of the window that holds ts.
SegmentStart(ts) == (ts \div Rotation) * Rotation

\* The bytes of an unlinked file go nowhere.
OnDisk(j) ==
  IF j.linked
    THEN Put(j.files, j.file_, [ticks |-> j.files[j.file_].ticks \o j.buf_,
                                mtime |-> clock])
    ELSE j.files

\* (mutant) no reset of buf_pos_ without a file: the 2026-06-18 crash
flush_keeps_buffer(j) ==
  IF j.buf_ = << >> \/ j.file_ = NoFile
    THEN j
    ELSE [j EXCEPT !.files = OnDisk(j), !.flushed = @ \union Ids(j.buf_),
                   !.buf_ = << >>]

flush(j) ==
  IF j.buf_ = << >> THEN j
  ELSE IF j.file_ = NoFile
    THEN [j EXCEPT !.dropped = @ \union Ids(j.buf_), !.buf_ = << >>]
    ELSE [j EXCEPT !.files = OnDisk(j), !.flushed = @ \union Ids(j.buf_),
                   !.buf_ = << >>]

close_segment(j) == [j EXCEPT !.file_ = NoFile]

\* fopen(fname, "ab") creates a missing file and leaves the modification time
\* of an existing one alone.  The file is linked, whatever became of the last.
open_segment(j, ts, opens) ==
  LET s == SegmentStart(ts) IN
  IF opens
    THEN [j EXCEPT !.segment_start_ms_ = s,
                   !.file_ = s,
                   !.linked = TRUE,
                   !.files = IF s \in DOMAIN j.files THEN @
                             ELSE Put(@, s, [ticks |-> << >>, mtime |-> clock])]
    ELSE [j EXCEPT !.segment_start_ms_ = s]

RotationDue(j, ts) == ts - j.segment_start_ms_ >= Rotation

\* (mutant) the old segment closed before its ticks are flushed
rotate_without_flush(j, ts, opens) ==
  IF j.file_ = NoFile \/ RotationDue(j, ts)
    THEN open_segment(close_segment(j), ts, opens)
    ELSE j

rotate_if_needed(j, ts, opens) ==
  IF j.file_ = NoFile THEN open_segment(j, ts, opens)
  ELSE IF RotationDue(j, ts)
    THEN open_segment(close_segment(flush(j)), ts, opens)
    ELSE j

FlushIfFull(j) == IF Len(j.buf_) >= BUF_CAP THEN flush(j) ELSE j

\* `segment' is history: the segment that was open when the tick was buffered.
write(j, tick, opens) ==
  LET rotated == FlushIfFull(rotate_if_needed(j, tick.ts, opens)) IN
  FlushIfFull([rotated EXCEPT
    !.buf_ = Append(@, [id |-> tick.id, ts |-> tick.ts, segment |-> rotated.file_])])

-----------------------------------------------------------------------------
(* main() and CoinbaseFeed                                                 *)

Init ==
  /\ pc = "boot"
  /\ running = TRUE
  /\ connected = FALSE
  /\ file_ = NoFile
  /\ segment_start_ms_ = 0
  /\ buf_ = << >>
  /\ clock = 0
  /\ files = << >>
  /\ linked = FALSE
  /\ job_pc = "idle"
  /\ closed_btc = {}
  /\ bin_file = NoFile
  /\ archive = << >>
  /\ last_tick = 0
  /\ flushed = {}
  /\ dropped = {}
  /\ crashed = {}
  /\ budget = [ticks |-> 0, crashes |-> 0, failures |-> 0]

\* SIGINT or SIGTERM: feed.stop(), at any time after the handlers are registered.
Signal ==
  /\ pc \in {"boot", "run"}
  /\ running
  /\ running' = FALSE
  /\ UNCHANGED <<pc, connected, journalVars, jobVars, clock, last_tick, crashed, budget>>

\* feed.run(): returns at once when a signal has come before it.
RunStarts ==
  /\ pc = "boot"
  /\ pc' = IF running THEN "run" ELSE "stop"
  /\ UNCHANGED <<running, connected, journalVars, jobVars, clock, last_tick, crashed,
                 budget>>

\* The Open callback subscribes; reconnection is automatic.
Connect ==
  /\ pc = "run"
  /\ ~ connected
  /\ connected' = TRUE
  /\ UNCHANGED <<pc, running, journalVars, jobVars, clock, last_tick, crashed, budget>>

Disconnect ==
  /\ connected
  /\ connected' = FALSE
  /\ UNCHANGED <<pc, running, journalVars, jobVars, clock, last_tick, crashed, budget>>

\* A ticker message with a positive bid and ask becomes one tick.  Any other
\* message is ignored.  The I/O thread works on until ws.stop() has joined it,
\* whatever running_ says.
OnMessage ==
  /\ connected
  /\ budget.ticks < MaxTicks
  /\ \E opens \in BOOLEAN :
       /\ opens \/ /\ budget.failures < MaxFailures
                   /\ file_ = NoFile \/ RotationDue(Journal, clock)
       /\ JournalBecomes(write(Journal, [id |-> budget.ticks + 1, ts |-> clock], opens))
       /\ budget' = [budget EXCEPT !.ticks = @ + 1,
                                   !.failures = IF opens THEN @ ELSE @ + 1]
  /\ last_tick' = clock
  /\ UNCHANGED <<mainVars, jobVars, clock, crashed>>

\* The wait loop sees running_ and ws.stop() joins the I/O thread.
RunReturns ==
  /\ pc = "run"
  /\ ~ running
  /\ pc' = "stop"
  /\ connected' = FALSE
  /\ UNCHANGED <<running, journalVars, jobVars, clock, last_tick, crashed, budget>>

\* (mutant) a destructor that only closes the file
DestroyWithoutFlush ==
  /\ pc = "stop"
  /\ pc' = "exited"
  /\ JournalBecomes(close_segment([Journal EXCEPT !.buf_ = << >>]))
  /\ UNCHANGED <<running, connected, jobVars, clock, last_tick, crashed, budget>>

\* The end of main(): ~BtcJournal.
Destroy ==
  /\ pc = "stop"
  /\ pc' = "exited"
  /\ JournalBecomes(close_segment(flush(Journal)))
  /\ UNCHANGED <<running, connected, jobVars, clock, last_tick, crashed, budget>>

\* The process dies; what it has flushed is on disk, what it has buffered is lost.
Crash ==
  /\ Alive
  /\ budget.crashes < MaxCrashes
  /\ budget' = [budget EXCEPT !.crashes = @ + 1]
  /\ pc' = "down"
  /\ connected' = FALSE
  /\ file_' = NoFile
  /\ buf_' = << >>
  /\ crashed' = crashed \union Ids(buf_)
  /\ UNCHANGED <<running, segment_start_ms_, files, linked, flushed, dropped, jobVars,
                 clock, last_tick>>

Restart ==
  /\ pc = "down"
  /\ pc' = "boot"
  /\ running' = TRUE
  /\ segment_start_ms_' = 0
  /\ UNCHANGED <<connected, file_, buf_, files, linked, flushed, dropped, jobVars, clock,
                 last_tick, crashed, budget>>

\* Time passes, but while a segment is open no more than MaxGap without a tick.
Advance ==
  /\ clock < MaxTime
  /\ file_ = NoFile \/ clock < last_tick + MaxGap
  /\ clock' = clock + 1
  /\ UNCHANGED <<mainVars, journalVars, jobVars, last_tick, crashed, budget>>

-----------------------------------------------------------------------------
(* hourly_flush.sh                                                         *)

\* (mutant) without -mmin: every file counts as closed
AnyFile(s) == TRUE

\* find -mmin +MIN_AGE_MINUTES
Closed(s) == clock - files[s].mtime > MinAge

JobStarts ==
  /\ job_pc = "idle"
  /\ job_pc' = "polymarket"
  /\ UNCHANGED <<closed_btc, bin_file, archive, mainVars, journalVars, clock, last_tick,
                 crashed, budget>>

\* No closed polymarket_*.bin, none converted, or an upload failed: the script
\* exits before it comes to the BTC segments.
PolymarketPartExits ==
  /\ job_pc = "polymarket"
  /\ job_pc' = "idle"
  /\ UNCHANGED <<closed_btc, bin_file, archive, mainVars, journalVars, clock, last_tick,
                 crashed, budget>>

FindClosed ==
  /\ job_pc = "polymarket"
  /\ job_pc' = "btc"
  /\ closed_btc' = {s \in DOMAIN files : Closed(s)}
  /\ UNCHANGED <<bin_file, archive, mainVars, journalVars, clock, last_tick, crashed,
                 budget>>

\* The next file of the sorted list.
Next_bin(s) == s \in closed_btc /\ \A other \in closed_btc : s <= other

\* (mutant) the upload's result not looked at
UploadUnchecked ==
  /\ job_pc = "btc"
  /\ \E s \in closed_btc :
       /\ Next_bin(s)
       /\ closed_btc' = closed_btc \ {s}
       /\ bin_file' = s
       /\ job_pc' = "delete"
       /\ \/ archive' = Put(archive, s, Ids(files[s].ticks))
          \/ UNCHANGED archive
  /\ UNCHANGED <<mainVars, journalVars, clock, last_tick, crashed, budget>>

\* Convert and `aws s3 cp': the object of the same name is replaced.
Upload ==
  /\ job_pc = "btc"
  /\ \E s \in closed_btc :
       /\ Next_bin(s)
       /\ files[s].ticks # << >>
       /\ closed_btc' = closed_btc \ {s}
       /\ bin_file' = s
       /\ archive' = Put(archive, s, Ids(files[s].ticks))
  /\ job_pc' = "delete"
  /\ UNCHANGED <<mainVars, journalVars, clock, last_tick, crashed, budget>>

\* (mutant) the first failure ends the script, as `set -e' would
FailureEndsScript ==
  /\ job_pc = "btc"
  /\ closed_btc # {}
  /\ closed_btc' = {}
  /\ job_pc' = "idle"
  /\ UNCHANGED <<bin_file, archive, mainVars, journalVars, clock, last_tick, crashed,
                 budget>>

\* An empty file does not convert, and a conversion or an upload may fail: the
\* file stays for the next hour.
UploadFails ==
  /\ job_pc = "btc"
  /\ \E s \in closed_btc :
       /\ Next_bin(s)
       /\ closed_btc' = closed_btc \ {s}
  /\ UNCHANGED <<job_pc, bin_file, archive, mainVars, journalVars, clock, last_tick,
                 crashed, budget>>

\* rm -f
Delete ==
  /\ job_pc = "delete"
  /\ files' = [s \in DOMAIN files \ {bin_file} |-> files[s]]
  /\ linked' = (linked /\ file_ # bin_file)
  /\ bin_file' = NoFile
  /\ job_pc' = "btc"
  /\ UNCHANGED <<file_, segment_start_ms_, buf_, flushed, dropped, closed_btc, archive,
                 mainVars, clock, last_tick, crashed, budget>>

JobEnds ==
  /\ job_pc = "btc"
  /\ closed_btc = {}
  /\ job_pc' = "idle"
  /\ UNCHANGED <<closed_btc, bin_file, archive, mainVars, journalVars, clock, last_tick,
                 crashed, budget>>

\* The job is killed between two of its steps.
JobDies ==
  /\ job_pc \in {"btc", "delete"}
  /\ job_pc' = "idle"
  /\ closed_btc' = {}
  /\ bin_file' = NoFile
  /\ UNCHANGED <<archive, mainVars, journalVars, clock, last_tick, crashed, budget>>

Process ==
  \/ Signal \/ RunStarts \/ Connect \/ Disconnect \/ OnMessage
  \/ RunReturns \/ Destroy \/ Crash \/ Restart

Job ==
  \/ JobStarts \/ PolymarketPartExits \/ FindClosed
  \/ Upload \/ UploadFails \/ Delete \/ JobEnds \/ JobDies

Next == Process \/ Job \/ Advance

\* Cron starts the job for ever, and a step that is tried again every hour
\* succeeds in the end: the job is not killed, and an upload does not fail,
\* every time at the same place.
Fairness ==
  /\ WF_vars(JobStarts)
  /\ WF_vars(PolymarketPartExits \/ FindClosed)
  /\ SF_vars(UploadFails \/ JobEnds)
  /\ SF_vars(Upload)
  /\ SF_vars(Delete)

Spec == Init /\ [][Next]_vars
LiveSpec == Spec /\ Fairness

-----------------------------------------------------------------------------
(* Properties *)

Segment == [ticks : Seq([id : Nat, ts : Nat, segment : Nat \union {NoFile}]),
            mtime : Nat]

TypeOK ==
  /\ pc \in {"boot", "run", "stop", "exited", "down"}
  /\ running \in BOOLEAN
  /\ connected \in BOOLEAN
  /\ clock \in Nat
  /\ last_tick \in Nat
  /\ file_ \in Nat \union {NoFile}
  /\ segment_start_ms_ \in Nat
  /\ buf_ \in Seq([id : Nat, ts : Nat, segment : Nat \union {NoFile}])
  /\ DOMAIN files \subseteq Nat
  /\ files \in [DOMAIN files -> Segment]
  /\ linked \in BOOLEAN
  /\ job_pc \in {"idle", "polymarket", "btc", "delete"}
  /\ closed_btc \subseteq Nat
  /\ bin_file \in Nat \union {NoFile}
  /\ DOMAIN archive \subseteq Nat
  /\ archive \in [DOMAIN archive -> SUBSET Nat]
  /\ flushed \subseteq Nat

\* "flush() always resets buf_pos_ to 0 (writing or dropping), so this should
\* never trip": between two writes the buffer has room, so that buf_[buf_pos_++]
\* never writes past the array, whatever fopen calls have failed.
BufferHasRoom == Len(buf_) < BUF_CAP

\* hourly_flush.sh never takes the open segment for a sealed one and never
\* deletes it: with a feed that is never silent for longer than MaxGap.
OpenSegmentIsNotTaken ==
  file_ # NoFile => /\ linked
                    /\ file_ \notin closed_btc
                    /\ file_ # bin_file

\* The journal, its crashes and the cron job together implement the log of ticks
\* that are on disk or in S3, although an upload replaces the object of the same
\* name: nothing on disk disappears unless its copy was uploaded before, and
\* nothing in S3 is replaced by less.
IdsOnDisk  == UNION {Ids(files[s].ticks) : s \in DOMAIN files}
IdsInS3    == UNION {archive[s] : s \in DOMAIN archive}
Log == INSTANCE DurableLog WITH
  written <- flushed, disk <- IdsOnDisk, archive <- IdsInS3
ImplementsLog == Log!Spec

\* A tick that is buffered while a segment is open ends up in that segment's
\* file, whose name tells the time of the tick.  (A tick that is buffered
\* without a file goes to the next file that opens, if there is one.)
SegmentHoldsItsWindow ==
  \A s \in DOMAIN files : \A i \in DOMAIN files[s].ticks :
    LET t == files[s].ticks[i] IN
    t.segment # NoFile => t.segment = s /\ SegmentStart(t.ts) = s

\* After a clean exit every tick has been flushed, but for those that no file
\* could be opened for and those a crash has taken; a crash takes less than a
\* full buffer.
OnlyCrashesAndFailuresLoseTicks ==
  /\ pc = "exited" => 1..budget.ticks = flushed \union dropped \union crashed
  /\ Cardinality(crashed) <= budget.crashes * (BUF_CAP - 1)
  /\ budget.failures = 0 => dropped = {}

\* "For each CLOSED .bin journal file": every segment that the process has left
\* behind is uploaded and deleted in the end, also behind one that never
\* converts.  The job must come to the BTC part again and again for that: it
\* does only when the Polymarket part has had a file to ship and has shipped it.
ClosedSegmentsAreUploaded ==
  []<>(job_pc = "btc") =>
    \A s \in 0..MaxTime :
      s \in DOMAIN files /\ files[s].ticks # << >> /\ Closed(s)
        ~> s \notin DOMAIN files
=============================================================================
