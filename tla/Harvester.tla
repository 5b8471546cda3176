------------------------------ MODULE Harvester ------------------------------
(***************************************************************************)
(* src/harvester/main.cpp with the metadata half of                        *)
(* src/gateway/MarketDiscovery.cpp: the main thread (boot, run, shutdown), *)
(* the re-discovery thread (append, subscribe, retention), the signal      *)
(* handler, and what is on disk.  The process may crash and boot again.    *)
(*                                                                         *)
(* The metadata CSV is the decode key of the tick files.  A row is reduced *)
(* to its asset id and its end date, a tick to its asset id and the        *)
(* modification time of the file that holds it.  A file that a writer left *)
(* in the middle of a line is `torn' there.                                *)
(***************************************************************************)
EXTENDS Naturals, FiniteSets

CONSTANTS
  Token,          \* asset ids
  EndDay,         \* EndDay[t]: the day of the market's end_date
  Wanted,         \* those whose question passes POLYMARKET_MARKET_FILTER
  RetentionDays,  \* POLYMARKET_RETENTION_DAYS
  DayLength,      \* clock ticks in a day
  EarlySignal,    \* may a signal come before g_rediscover_running is set?
  TradesPastEnd,  \* may a market trade after its end_date?
  Failures,       \* the operations on the CSV and its .tmp that may fail
  MaxClock,       \* bound
  MaxBoots        \* bound

ASSUME EndDayAssumption == EndDay \in [Token -> Nat]
ASSUME WantedAssumption == Wanted \subseteq Token
ASSUME DayAssumption == DayLength \in Nat \ {0} /\ RetentionDays \in Nat
ASSUME BoundAssumption == MaxClock \in Nat /\ MaxBoots \in Nat
ASSUME SwitchAssumption == {EarlySignal, TradesPastEnd} \subseteq BOOLEAN
ASSUME FailureAssumption == Failures \subseteq {"open", "read", "write", "rename"}

VARIABLES
  rows,                 \* rows[t]: how many rows of the CSV are about t
  torn,                 \* the id (or Header) in whose line the CSV ends, if any
  tmp,                  \* <csv>.tmp as <<rows, torn>>, if there is one
  unopened,             \* history: ids left out when the CSV did not open last
  spoiled,              \* history: a boot could not clear away what a crash left
  ticks,                \* the ticks on disk: <<asset id, file mtime>>
  clock,
  boots,                \* how often the process has been started
  main_pc,              \* main()
  rpc,                  \* rediscover_loop()
  fresh,                \* the local of the thread that has fetched
  metadata_known,       \* rediscover_loop's set of ids on disk
  known_ids,            \* its set of ids subscribed to
  subscribed,           \* what the WebSocketClient subscribes to
  wsc_running,          \* WebSocketClient::running_
  g_rediscover_running,
  signalled             \* history: this process has received a signal

csv     == <<rows, torn, tmp, unopened, spoiled>>
disk    == <<csv, ticks>>
local   == <<fresh, metadata_known, known_ids, subscribed>>
flags   == <<wsc_running, g_rediscover_running, signalled>>
vars    == <<disk, clock, boots, main_pc, rpc, local, flags>>

OnDisk  == {t \in Token : rows[t] > 0}
Day(c)  == c \div DayLength

Init ==
  /\ rows = [t \in Token |-> 0]
  /\ torn = {}
  /\ tmp = {}
  /\ unopened = {}
  /\ spoiled = FALSE
  /\ ticks = {}
  /\ clock = 0
  /\ boots = 1
  /\ main_pc = "fetch"
  /\ rpc = "none"
  /\ fresh = {}
  /\ metadata_known = {}
  /\ known_ids = {}
  /\ subscribed = {}
  /\ wsc_running = TRUE
  /\ g_rediscover_running = FALSE
  /\ signalled = FALSE

-----------------------------------------------------------------------------
(* The CSV and its temporary file. *)

Header == "header"

\* What a writer of lines about ids has got into the file when it is cut off:
\* whole lines, and a part of one more.  File order is not modelled.
Cuts(ids) == (SUBSET ids) \X ({{}} \union {{t} : t \in ids})
HeaderCut == <<{}, {Header}>>

\* read_csv_tokens: the rows, but for a line that is not whole; none if the
\* file does not open.
Readings ==
  {rows} \union (IF "read" \in Failures THEN {[t \in Token |-> 0]} ELSE {})

\* A new file that is to hold the table, when its writer is cut off.
CutOff(table) ==
  {<<[t \in Token |-> IF t \in cut[1] THEN table[t] ELSE 0], cut[2]>> :
     cut \in Cuts({t \in Token : table[t] > 0}) \union {HeaderCut}}

\* write_metadata_csv looks at no result but fopen's.
Written(table) == IF "write" \in Failures THEN CutOff(table) ELSE {<<table, {}>>}

\* write_metadata_csv and the caller's rename.  If the temporary file does not
\* open, the call returns and the caller renames all the same: the file that a
\* crash has left, if there is one.
Rewritten(table) ==
  [csv : Written(table), tmp : {{}}, done : {TRUE}]
    \union (IF "open" \in Failures
              THEN [csv : IF tmp = {} THEN {<<rows, torn>>} ELSE tmp,
                    tmp : {{}}, done : {FALSE}]
              ELSE {})
    \union (IF "rename" \in Failures
              THEN [csv : {<<rows, torn>>},
                    tmp : {{file} : file \in Written(table)}
                            \union (IF "open" \in Failures THEN {tmp} ELSE {}),
                    done : {FALSE}]
              ELSE {})

-----------------------------------------------------------------------------
(* main(): boot *)

\* fetch_active_tokens: whatever pages were answered, possibly none.
BootFetch ==
  /\ main_pc = "fetch"
  /\ fresh' \in SUBSET Token
  /\ main_pc' = "merge"
  /\ UNCHANGED <<disk, clock, boots, rpc, metadata_known, known_ids, subscribed, flags>>

\* fresh upserts existing, and rows that are not in fresh are preserved.
Merged(existing, ids) ==
  [t \in Token |-> IF t \in ids /\ existing[t] = 0 THEN 1 ELSE existing[t]]

\* merge_and_write_metadata_csv, with what a failure of it leaves behind: ids
\* without a row, or the remains of a crash.
MergeAndWrite ==
  \E existing \in Readings : \E new \in Rewritten(Merged(existing, fresh)) :
    /\ rows' = new.csv[1]
    /\ torn' = new.csv[2]
    /\ tmp' = new.tmp
    /\ unopened' = IF new.done THEN unopened \ fresh ELSE unopened \union (fresh \ OnDisk)
    /\ spoiled' = (spoiled \/ (~ new.done /\ (tmp # {} \/ torn # {})))

\* (mutant) a boot that has fetched nothing does not merge
BootMergesFetched ==
  /\ main_pc = "merge"
  /\ IF fresh = {} THEN UNCHANGED csv ELSE MergeAndWrite
  /\ main_pc' = "seed"
  /\ UNCHANGED <<ticks, clock, boots, rpc, local, flags>>

BootMerge ==
  /\ main_pc = "merge"
  /\ MergeAndWrite
  /\ main_pc' = "seed"
  /\ UNCHANGED <<ticks, clock, boots, rpc, local, flags>>

\* (mutant) the dedup set holds the markets of this boot's fetch only
SeededFromFetch(existing) == fresh

\* Every row of the CSV, delisted markets too.
Seeded(existing) == {t \in Token : existing[t] > 0}

\* The dedup sets, the tickerplant, and the client with its subscription.
BootConstruct ==
  /\ main_pc = "seed"
  /\ \E existing \in Readings : metadata_known' = Seeded(existing)
  /\ known_ids' = fresh \intersect Wanted
  /\ subscribed' = fresh \intersect Wanted
  /\ main_pc' = "construct"
  /\ UNCHANGED <<disk, clock, boots, rpc, fresh, flags>>

\* g_wsc is set and the handlers are registered.
RegisterSignals ==
  /\ main_pc = "construct"
  /\ main_pc' = "registered"
  /\ UNCHANGED <<disk, clock, boots, rpc, local, flags>>

StartRediscovery ==
  /\ main_pc = "registered"
  /\ g_rediscover_running' = TRUE
  /\ rpc' = "sleep"
  /\ fresh' = {}
  /\ main_pc' = "run"
  /\ UNCHANGED <<disk, clock, boots, metadata_known, known_ids, subscribed,
                 wsc_running, signalled>>

-----------------------------------------------------------------------------
(* The signal handler, and shutdown. *)

\* (mutant) the handler stops the client only
SignalStopsClientOnly ==
  /\ main_pc \in {"run", "join"}
  /\ wsc_running' = FALSE
  /\ signalled' = TRUE
  /\ UNCHANGED <<disk, clock, boots, main_pc, rpc, local, g_rediscover_running>>

\* sighandler.  In "join" g_wsc is null, and the client is stopped already.
Signal ==
  /\ main_pc \in {"run", "join"} \union (IF EarlySignal THEN {"registered"} ELSE {})
  /\ wsc_running' = FALSE
  /\ g_rediscover_running' = FALSE
  /\ signalled' = TRUE
  /\ UNCHANGED <<disk, clock, boots, main_pc, rpc, local>>

\* wsc.run() returns (WebSocketClient!StopEndsRun), and g_wsc is cleared.
RunReturns ==
  /\ main_pc = "run"
  /\ ~ wsc_running
  /\ main_pc' = "join"
  /\ UNCHANGED <<disk, clock, boots, rpc, local, flags>>

\* rediscover_thread.join(), tp.stop() and the end of main.
Shutdown ==
  /\ main_pc = "join"
  /\ rpc = "exited"
  /\ main_pc' = "stopped"
  /\ UNCHANGED <<disk, clock, boots, rpc, local, flags>>

-----------------------------------------------------------------------------
(* rediscover_loop *)

\* A cycle begins; a fetch of nothing skips the cycle and changes nothing.
Rediscover ==
  /\ rpc = "sleep"
  /\ g_rediscover_running
  /\ fresh' \in (SUBSET Token) \ {{}}
  /\ rpc' = "append"
  /\ UNCHANGED <<disk, clock, boots, main_pc, metadata_known, known_ids, subscribed, flags>>

\* The flag is read between chunks of the sleep, not within a cycle.
RediscoverExits ==
  /\ rpc = "sleep"
  /\ ~ g_rediscover_running
  /\ rpc' = "exited"
  /\ UNCHANGED <<disk, clock, boots, main_pc, local, flags>>

\* One more row for each of the ids.
Appended(ids, strays) ==
  [t \in Token |-> rows[t] + (IF t \in ids THEN 1 ELSE 0) + (IF t \in strays THEN 1 ELSE 0)]

\* The CSV after lines about ids, and a part of one more.  A torn line takes
\* in the first of them: its row is lost, and the result may read as a row of
\* the torn line's id.
Joined(ids, part) ==
  IF torn = {} THEN {<<Appended(ids, {}), part>>}
  ELSE {<<Appended(ids \ first, strays), IF ids = {} THEN torn ELSE part>> :
          first  \in IF ids = {} THEN {{}} ELSE {{t} : t \in ids},
          strays \in IF ids \union part = {} THEN {{}}
                    ELSE SUBSET ((torn \intersect Token) \ OnDisk)}

\* A writer of the rows that is cut off.  If the CSV has no rows it may be
\* empty, and the header comes first.
AppendCutOff(new) ==
  UNION {Joined(cut[1], cut[2]) :
           cut \in Cuts(new) \union (IF OnDisk = {} THEN {HeaderCut} ELSE {})}

\* The fprintf calls of append_new_metadata_csv, whose results nobody looks at.
AppendedCsv(new) == IF "write" \in Failures THEN AppendCutOff(new) ELSE Joined(new, {})

\* (mutant) the ids are remembered before the file is open
AppendRemembersFirst ==
  /\ rpc = "append"
  /\ \/ /\ \E new \in AppendedCsv(fresh \ metadata_known) : rows' = new[1] /\ torn' = new[2]
        /\ unopened' = unopened \ fresh
     \/ /\ "open" \in Failures
        /\ unopened' = unopened \union (fresh \ metadata_known)
        /\ UNCHANGED <<rows, torn>>
  /\ metadata_known' = metadata_known \union fresh
  /\ rpc' = "subscribe"
  /\ UNCHANGED <<tmp, spoiled, ticks, clock, boots, main_pc, fresh, known_ids, subscribed, flags>>

\* append_new_metadata_csv.  The set is updated whether or not the row gets
\* to the disk; if the file does not open, the call returns at once, and the
\* loop goes on to subscribe.
Append ==
  /\ rpc = "append"
  /\ \/ /\ \E new \in AppendedCsv(fresh \ metadata_known) : rows' = new[1] /\ torn' = new[2]
        /\ metadata_known' = metadata_known \union fresh
        /\ unopened' = unopened \ fresh
     \/ /\ "open" \in Failures
        /\ unopened' = unopened \union (fresh \ metadata_known)
        /\ UNCHANGED <<rows, torn, metadata_known>>
  /\ rpc' = "subscribe"
  /\ UNCHANGED <<tmp, spoiled, ticks, clock, boots, main_pc, fresh, known_ids, subscribed, flags>>

\* The new ids that pass the filter go to wsc.subscribe().
Subscribe ==
  /\ rpc = "subscribe"
  /\ LET new_ids == (fresh \intersect Wanted) \ known_ids IN
       /\ known_ids' = known_ids \union new_ids
       /\ subscribed' = subscribed \union new_ids
  /\ fresh' = {}
  /\ rpc' = "retain"
  /\ UNCHANGED <<disk, clock, boots, main_pc, metadata_known, flags>>

\* Retention is off, or ran less than an hour ago.
SkipRetention ==
  /\ rpc = "retain"
  /\ rpc' = "sleep"
  /\ UNCHANGED <<disk, clock, boots, main_pc, local, flags>>

\* What is older than the retention window; saturates at the epoch.
Expired(c) == c + RetentionDays * DayLength < clock

\* prune_old_data_files: by mtime, to the second.
PruneFiles ==
  /\ rpc = "retain"
  /\ RetentionDays > 0
  /\ ticks' = {k \in ticks : ~ Expired(k[2])}
  /\ rpc' = "prune"
  /\ UNCHANGED <<csv, clock, boots, main_pc, local, flags>>

\* end_date < iso_date_days_ago(retention_days), a comparison of days.
ResolvedBeforeCutoff(t) == EndDay[t] + RetentionDays < Day(clock)

Kept(existing) == [t \in Token |-> IF ResolvedBeforeCutoff(t) THEN 0 ELSE existing[t]]

\* prune_metadata_csv: the file is rewritten if a row is dropped.
PruneRows ==
  /\ rpc = "prune"
  /\ \E existing \in Readings :
       IF Kept(existing) = existing
         THEN UNCHANGED csv
         ELSE /\ \E new \in Rewritten(Kept(existing)) :
                   rows' = new.csv[1] /\ torn' = new.csv[2] /\ tmp' = new.tmp
              /\ UNCHANGED <<unopened, spoiled>>
  /\ rpc' = "sleep"
  /\ UNCHANGED <<ticks, clock, boots, main_pc, local, flags>>

-----------------------------------------------------------------------------
(* The environment. *)

\* A tick of a subscribed market is journalled.
TickArrives ==
  /\ main_pc = "run"
  /\ \E t \in subscribed :
       /\ TradesPastEnd \/ Day(clock) <= EndDay[t]
       /\ ticks' = ticks \union {<<t, clock>>}
  /\ UNCHANGED <<csv, clock, boots, main_pc, rpc, local, flags>>

ClockAdvances ==
  /\ clock < MaxClock
  /\ clock' = clock + 1
  /\ UNCHANGED <<disk, boots, main_pc, rpc, local, flags>>

\* The tables that a merge or a retention is writing to the temporary file.
BeingWritten ==
  CASE main_pc = "merge" -> {Merged(existing, fresh) : existing \in Readings}
    [] rpc = "prune"     -> {Kept(existing) : existing \in
                               {read \in Readings : Kept(read) # read}}
    [] OTHER             -> {}

\* The process dies, and leaves what it was writing as far as it has come.
Crash ==
  /\ main_pc \notin {"stopped", "crashed"}
  /\ IF rpc = "append"
       THEN \E new \in AppendCutOff(fresh \ metadata_known) : rows' = new[1] /\ torn' = new[2]
       ELSE UNCHANGED <<rows, torn>>
  /\ tmp' \in {tmp} \union {{file} : file \in UNION {CutOff(table) : table \in BeingWritten}}
  /\ main_pc' = "crashed"
  /\ rpc' = "none"
  /\ fresh' = {}
  /\ metadata_known' = {}
  /\ known_ids' = {}
  /\ subscribed' = {}
  /\ wsc_running' = TRUE
  /\ g_rediscover_running' = FALSE
  /\ UNCHANGED <<unopened, spoiled, ticks, clock, boots, signalled>>

\* The supervisor starts the program again.
Boot ==
  /\ main_pc \in {"stopped", "crashed"}
  /\ boots < MaxBoots
  /\ boots' = boots + 1
  /\ main_pc' = "fetch"
  /\ rpc' = "none"
  /\ fresh' = {}
  /\ metadata_known' = {}
  /\ known_ids' = {}
  /\ subscribed' = {}
  /\ wsc_running' = TRUE
  /\ g_rediscover_running' = FALSE
  /\ signalled' = FALSE
  /\ UNCHANGED <<disk, clock>>

Over == main_pc \in {"stopped", "crashed"} /\ UNCHANGED vars

MainThread == \/ BootFetch \/ BootMerge \/ BootConstruct \/ RegisterSignals
              \/ StartRediscovery \/ RunReturns \/ Shutdown
RediscoverThread == \/ Rediscover \/ RediscoverExits \/ Append \/ Subscribe
                    \/ SkipRetention \/ PruneFiles \/ PruneRows

Next ==
  \/ MainThread \/ RediscoverThread
  \/ Signal \/ TickArrives \/ ClockAdvances
  \/ Crash \/ Boot \/ Over

Spec == Init /\ [][Next]_vars

\* Both threads are scheduled; signals, crashes and ticks just may happen.
FairSpec == Spec /\ WF_vars(MainThread) /\ WF_vars(RediscoverThread)

-----------------------------------------------------------------------------
(* Properties. *)

\* Every tick inside the retention window has its row, whatever was
\* discovered, delisted, crashed or pruned: rows are on disk before their
\* market is subscribed, and leave after the market's last tick.  A row that
\* the program could not write because the CSV did not open is missing until
\* the next fetch that lists its market, and no longer.  The boot merge
\* clears away what a crash has left, unless it cannot write (spoiled).
WindowDecodes ==
  spoiled \/ \A k \in ticks :
    \/ RetentionDays > 0 /\ Expired(k[2])
    \/ rows[k[1]] > 0
    \/ k[1] \in unopened

\* The CSV has one row for an asset id, so that a JOIN does not double ticks,
\* although markets come, go and come back across cycles and boots.
NoDuplicateRows == spoiled \/ \A t \in Token : rows[t] <= 1

\* Only retention removes a row, and only of a market past the cutoff: the
\* boot merge preserves what the fetch does not list (MarketDiscovery.hpp:78).
\* In particular nothing that a crash has left in a temporary file replaces
\* the CSV, unless a boot could not write that file anew (spoiled).
RowsLeaveByRetentionOnly ==
  [][\A t \in Token : rows[t] > 0 /\ rows'[t] = 0 => ResolvedBeforeCutoff(t) \/ spoiled']_vars

\* A signal ends the program: both threads are told and joined.
SignalShutsDown == signalled ~> (main_pc \in {"stopped", "crashed"} \/ ~ signalled)
=============================================================================
