-------------------------- MODULE HarvesterProofs --------------------------
(***************************************************************************)
(* Proofs about Harvester for every set of markets, every retention, day   *)
(* length, clock and number of boots, over crashes anywhere and a CSV or   *)
(* temporary file that may not open: the metadata CSV never has two rows   *)
(* for an asset id, only retention removes rows, and, as long as no market *)
(* trades after its end_date, it decodes every tick in the retention       *)
(* window, but those whose row waits for the CSV to open again.  Nothing   *)
(* is claimed once a boot could not clear away what a crash had left.      *)
(***************************************************************************)
EXTENDS Harvester, TLAPS

\* Files may not open for writing; what is open is written, read and renamed.
OnlyOpensFail == Failures \subseteq {"open"}

Shape ==
  /\ rows \in [Token -> Nat]
  /\ ticks \subseteq Token \X Nat
  /\ clock \in Nat
  /\ fresh \subseteq Token
  /\ metadata_known \subseteq Token
  /\ subscribed \subseteq Token

\* The re-discovery thread exists from the end of the boot on only, and it
\* prunes only if retention is on.
Booted == {"construct", "registered", "run", "join", "stopped"}

PhaseInv ==
  /\ rpc # "none" => main_pc \in {"run", "join", "stopped"}
  /\ rpc = "prune" => RetentionDays > 0

\* What a crash has left is gone after the boot merge.
Healed == torn # {} \/ tmp # {} => main_pc \in {"crashed", "fetch", "merge"}

\* The dedup set of the process covers the CSV.
KnownCoversDisk == main_pc \in Booted => OnDisk \subseteq metadata_known

OneRowEach == \A t \in Token : rows[t] <= 1

\* The inductive invariant of the rows, while spoiled is not set.
Rows ==
  /\ Shape
  /\ PhaseInv
  /\ Healed
  /\ KnownCoversDisk
  /\ OneRowEach

RowInv == spoiled \in BOOLEAN /\ (spoiled \/ Rows)

\* History: once a boot has met what it cannot clear away, that stays known.
LEMMA SpoiledIsForGood ==
  ASSUME spoiled \in BOOLEAN, [Next]_vars
  PROVE  spoiled' \in BOOLEAN /\ (spoiled => spoiled')
<1>1. CASE MainThread
  BY <1>1 DEF MainThread, BootFetch, BootMerge, MergeAndWrite, BootConstruct,
              RegisterSignals, StartRediscovery, RunReturns, Shutdown, disk, csv
<1>2. CASE RediscoverThread
  BY <1>2 DEF RediscoverThread, Rediscover, RediscoverExits, Append, Subscribe,
              SkipRetention, PruneFiles, PruneRows, disk, csv
<1>3. CASE \/ Signal \/ TickArrives \/ ClockAdvances \/ Crash \/ Boot \/ Over
           \/ UNCHANGED vars
  BY <1>3 DEF Signal, TickArrives, ClockAdvances, Crash, Boot, Over, vars, disk, csv
<1> QED
  BY <1>1, <1>2, <1>3 DEF Next

\* A rewrite replaces the CSV by the table, or leaves the CSV and no temporary
\* file, unless there was one already.
LEMMA RewriteOutcome ==
  ASSUME OnlyOpensFail, NEW table, NEW new \in Rewritten(table)
  PROVE  /\ new.tmp = {}
         /\ \/ new.done = TRUE /\ new.csv[1] = table /\ new.csv[2] = {}
            \/ new.done = FALSE /\ (tmp = {} => new.csv[1] = rows /\ new.csv[2] = torn)
<1>1. Written(table) = {<<table, {}>>} /\ "rename" \notin Failures
  BY DEF Written, OnlyOpensFail
<1>2. CASE new \in [csv : {<<table, {}>>}, tmp : {{}}, done : {TRUE}]
  <2>1. new.csv = <<table, {}>> /\ new.tmp = {} /\ new.done = TRUE
    BY <1>2
  <2> QED
    BY <2>1
<1>3. CASE new \in [csv : IF tmp = {} THEN {<<rows, torn>>} ELSE tmp,
                   tmp : {{}}, done : {FALSE}]
  <2>1. /\ tmp = {} => new.csv = <<rows, torn>>
        /\ new.tmp = {} /\ new.done = FALSE
    BY <1>3
  <2> QED
    BY <2>1
<1> QED
  BY <1>1, <1>2, <1>3 DEF Rewritten

\* The boot merge: the CSV is merged, or it stays and there was nothing to
\* clear away (MarketDiscovery.cpp:400-459).
LEMMA MergeOutcome ==
  ASSUME OnlyOpensFail, MergeAndWrite, ~ spoiled'
  PROVE  /\ torn' = {} /\ tmp' = {}
         /\ \/ rows' = Merged(rows, fresh) /\ unopened' = unopened \ fresh
            \/ rows' = rows /\ unopened' = unopened \union (fresh \ OnDisk)
<1>1. Readings = {rows}
  BY DEF Readings, OnlyOpensFail
<1>2. PICK new \in Rewritten(Merged(rows, fresh)) :
        /\ rows' = new.csv[1] /\ torn' = new.csv[2] /\ tmp' = new.tmp
        /\ unopened' = IF new.done THEN unopened \ fresh
                                   ELSE unopened \union (fresh \ OnDisk)
        /\ spoiled' = (spoiled \/ (~ new.done /\ (tmp # {} \/ torn # {})))
  BY <1>1 DEF MergeAndWrite
<1> QED
  BY <1>2, RewriteOutcome

\* Retention: without a temporary file from before, the rows are those kept,
\* or all stay (MarketDiscovery.cpp:507-538).
LEMMA PruneOutcome ==
  ASSUME OnlyOpensFail, PruneRows, tmp = {}, torn = {}
  PROVE  torn' = {} /\ tmp' = {} /\ (rows' = Kept(rows) \/ rows' = rows)
<1>1. Readings = {rows}
  BY DEF Readings, OnlyOpensFail
<1>2. CASE Kept(rows) = rows
  BY <1>1, <1>2 DEF PruneRows, csv
<1>3. CASE Kept(rows) # rows
  <2>1. PICK new \in Rewritten(Kept(rows)) :
          rows' = new.csv[1] /\ torn' = new.csv[2] /\ tmp' = new.tmp
    BY <1>1, <1>3 DEF PruneRows
  <2> QED
    BY <2>1, RewriteOutcome
<1> QED
  BY <1>2, <1>3

\* An append to a CSV that ends with a line's end writes all new rows, or none
\* (MarketDiscovery.cpp:464-502).
LEMMA AppendOutcome ==
  ASSUME OnlyOpensFail, Append, torn = {}
  PROVE  /\ torn' = {} /\ tmp' = tmp
         /\ \/ /\ rows' = Appended(fresh \ metadata_known, {})
               /\ metadata_known' = metadata_known \union fresh
               /\ unopened' = unopened \ fresh
            \/ /\ rows' = rows
               /\ metadata_known' = metadata_known
               /\ unopened' = unopened \union (fresh \ metadata_known)
<1>1. AppendedCsv(fresh \ metadata_known) = {<<Appended(fresh \ metadata_known, {}), {}>>}
  BY DEF AppendedCsv, OnlyOpensFail, Joined
<1> QED
  BY <1>1 DEF Append

\* A crash in the middle of an append leaves some of the new rows.
LEMMA CrashOutcome ==
  ASSUME Crash, rpc = "append" => torn = {}
  PROVE  \/ rows' = rows
         \/ /\ rpc = "append"
            /\ \E written \in SUBSET (fresh \ metadata_known) : rows' = Appended(written, {})
<1> SUFFICES ASSUME rpc = "append"
             PROVE  \E written \in SUBSET (fresh \ metadata_known) :
                      rows' = Appended(written, {})
  BY DEF Crash
<1> DEFINE new == fresh \ metadata_known
<1>1. PICK left \in AppendCutOff(new) : rows' = left[1]
  BY DEF Crash
<1>2. PICK cut \in Cuts(new) \union {HeaderCut} : left \in Joined(cut[1], cut[2])
  BY <1>1 DEF AppendCutOff
<1>3. left = <<Appended(cut[1], {}), cut[2]>>
  BY <1>2 DEF Joined
<1>4. cut[1] \in SUBSET new
  BY <1>2 DEF Cuts, HeaderCut
<1> QED
  BY <1>1, <1>3, <1>4

\* One row at most after an append of ids that have none.
LEMMA AppendedKeepsRows ==
  ASSUME rows \in [Token -> Nat], OneRowEach,
         NEW ids \in SUBSET Token, ids \intersect OnDisk = {}
  PROVE  /\ Appended(ids, {}) \in [Token -> Nat]
         /\ \A t \in Token : Appended(ids, {})[t] <= 1
         /\ \A t \in Token : Appended(ids, {})[t] > 0 => t \in ids \union OnDisk
  BY DEF Appended, OneRowEach, OnDisk

\* The first boot finds no CSV.
LEMMA InitEstablishesRowInv == Init => RowInv
<1>1. Init => Rows
  BY DEF Init, Rows, Shape, PhaseInv, Healed, KnownCoversDisk, OneRowEach, OnDisk, Booted
<1>2. Init => spoiled \in BOOLEAN
  BY DEF Init
<1> QED
  BY <1>1, <1>2 DEF RowInv

\* main(): the boot merge upserts and clears away, and the dedup set is read
\* from what it wrote.
LEMMA MainKeepsRows ==
  ASSUME OnlyOpensFail, Rows, MainThread, ~ spoiled'
  PROVE  Rows'
  <1> USE DEF Rows
  <1>1. CASE BootFetch
    BY <1>1 DEF BootFetch, Shape, PhaseInv, Healed, KnownCoversDisk, OneRowEach, OnDisk,
                Booted, disk, csv, flags
  <1>2. CASE BootMerge
    <2>1. MergeAndWrite
      BY <1>2 DEF BootMerge
    <2>2. /\ torn' = {} /\ tmp' = {}
          /\ rows' = Merged(rows, fresh) \/ rows' = rows
      BY <2>1, MergeOutcome
    <2>3. rows' \in [Token -> Nat] /\ \A t \in Token : rows'[t] <= 1
      BY <2>2 DEF Merged, Shape, OneRowEach
    <2> QED
      BY <1>2, <2>2, <2>3 DEF BootMerge, Shape, PhaseInv, Healed, KnownCoversDisk,
                              OneRowEach, Booted, local
  <1>3. CASE BootConstruct
    <2>1. Readings = {rows}
      BY DEF Readings, OnlyOpensFail
    <2>2. metadata_known' = OnDisk
      BY <1>3, <2>1 DEF BootConstruct, Seeded, OnDisk
    <2> QED
      BY <1>3, <2>2 DEF BootConstruct, Shape, PhaseInv, Healed, KnownCoversDisk,
                        OneRowEach, OnDisk, Booted, disk, csv, flags
  <1>4. CASE RegisterSignals
    BY <1>4 DEF RegisterSignals, Shape, PhaseInv, Healed, KnownCoversDisk,
                OneRowEach, OnDisk, Booted, disk, csv, local, flags
  <1>5. CASE StartRediscovery
    BY <1>5 DEF StartRediscovery, Shape, PhaseInv, Healed, KnownCoversDisk,
                OneRowEach, OnDisk, Booted, disk, csv
  <1>6. CASE RunReturns \/ Shutdown
    BY <1>6 DEF RunReturns, Shutdown, Shape, PhaseInv, Healed, KnownCoversDisk,
                OneRowEach, OnDisk, Booted, disk, csv, local, flags
  <1> QED
    BY <1>1, <1>2, <1>3, <1>4, <1>5, <1>6 DEF MainThread

\* Once the process is up nothing of a crash is left in its files.
LEMMA UpIsClean ==
  ASSUME Rows, rpc # "none"
  PROVE  torn = {} /\ tmp = {} /\ main_pc \in Booted /\ OnDisk \subseteq metadata_known
  BY DEF Rows, PhaseInv, Healed, KnownCoversDisk, Booted

\* rediscover_loop: what is appended is outside the dedup set, hence new to
\* the CSV, and retention only removes rows.
LEMMA RediscoverKeepsRows ==
  ASSUME OnlyOpensFail, Rows, RediscoverThread
  PROVE  Rows'
  <1> USE DEF Rows
  <1>1. CASE Rediscover \/ RediscoverExits \/ SkipRetention
    BY <1>1 DEF Rediscover, RediscoverExits, SkipRetention, Shape, PhaseInv, Healed,
                KnownCoversDisk, OneRowEach, OnDisk, Booted, disk, csv, local, flags
  <1>2. CASE Append
    <2>1. torn = {} /\ tmp = {} /\ OnDisk \subseteq metadata_known
      BY <1>2, UpIsClean DEF Append
    <2>2. /\ torn' = {} /\ tmp' = {}
          /\ rpc' = "subscribe"
          /\ UNCHANGED <<ticks, clock, fresh, subscribed, main_pc>>
      BY <1>2, <2>1, AppendOutcome DEF Append
    <2>3. CASE UNCHANGED <<rows, metadata_known>>
      BY <1>2, <2>2, <2>3 DEF Append, Shape, PhaseInv, Healed, KnownCoversDisk,
                              OneRowEach, OnDisk, Booted
    <2>4. CASE /\ rows' = Appended(fresh \ metadata_known, {})
               /\ metadata_known' = metadata_known \union fresh
      <3>1. /\ rows' \in [Token -> Nat]
            /\ \A t \in Token : rows'[t] <= 1
            /\ \A t \in Token : rows'[t] > 0 => t \in fresh \union OnDisk
        <4>1. /\ fresh \ metadata_known \in SUBSET Token
              /\ (fresh \ metadata_known) \intersect OnDisk = {}
          BY <2>1 DEF Shape
        <4> QED
          BY <2>4, <4>1, AppendedKeepsRows DEF Shape
      <3>2. OnDisk' \subseteq metadata_known'
        BY <2>1, <2>4, <3>1 DEF OnDisk
      <3> QED
        BY <1>2, <2>2, <2>4, <3>1, <3>2 DEF Append, Shape, PhaseInv, Healed,
                                            KnownCoversDisk, OneRowEach
    <2> QED
      BY <1>2, <2>1, <2>3, <2>4, AppendOutcome
  <1>3. CASE Subscribe
    BY <1>3 DEF Subscribe, Shape, PhaseInv, Healed, KnownCoversDisk, OneRowEach, OnDisk,
                Booted, disk, csv, flags
  <1>4. CASE PruneFiles
    BY <1>4 DEF PruneFiles, Shape, PhaseInv, Healed, KnownCoversDisk, OneRowEach, OnDisk,
                Booted, csv, local, flags
  <1>5. CASE PruneRows
    <2>1. torn = {} /\ tmp = {}
      BY <1>5, UpIsClean DEF PruneRows
    <2>2. torn' = {} /\ tmp' = {} /\ (rows' = Kept(rows) \/ rows' = rows)
      BY <1>5, <2>1, PruneOutcome
    <2>3. /\ rows' \in [Token -> Nat]
          /\ \A t \in Token : rows'[t] <= 1
          /\ \A t \in Token : rows'[t] > 0 => rows[t] > 0
      BY <2>2 DEF Kept, Shape, OneRowEach
    <2>4. OnDisk' \subseteq OnDisk
      BY <2>3 DEF OnDisk
    <2> QED
      BY <1>5, <2>2, <2>3, <2>4 DEF PruneRows, Shape, PhaseInv, Healed, KnownCoversDisk,
                                    OneRowEach, local, flags
  <1> QED
    BY <1>1, <1>2, <1>3, <1>4, <1>5 DEF RediscoverThread

\* A crash in the middle of an append leaves new rows only, and a boot starts
\* with empty sets before it has merged.
LEMMA EnvironmentKeepsRows ==
  ASSUME Rows, Signal \/ TickArrives \/ ClockAdvances \/ Crash \/ Boot \/ UNCHANGED vars
  PROVE  Rows'
  <1> USE DEF Rows
  <1>1. CASE Signal \/ ClockAdvances \/ UNCHANGED vars
    BY <1>1 DEF Signal, ClockAdvances, vars, Shape, PhaseInv, Healed, KnownCoversDisk,
                OneRowEach, OnDisk, disk, csv, local, flags
  <1>2. CASE TickArrives
    <2>1. PICK t \in subscribed : ticks' = ticks \union {<<t, clock>>}
      BY <1>2 DEF TickArrives
    <2>2. Shape'
      BY <1>2, <2>1 DEF TickArrives, Shape, csv, local
    <2> QED
      BY <1>2, <2>2 DEF TickArrives, PhaseInv, Healed, KnownCoversDisk, OneRowEach,
                        OnDisk, csv, local, flags
  <1>3. CASE Crash
    <2>1. rows' \in [Token -> Nat] /\ \A t \in Token : rows'[t] <= 1
      <3>1. rpc = "append" => torn = {} /\ OnDisk \subseteq metadata_known
        BY UpIsClean
      <3>2. CASE rows' = rows
        BY <3>2 DEF Shape, OneRowEach
      <3>3. ASSUME rpc = "append", NEW written \in SUBSET (fresh \ metadata_known),
                   rows' = Appended(written, {})
            PROVE  rows' \in [Token -> Nat] /\ \A t \in Token : rows'[t] <= 1
        <4>1. written \in SUBSET Token /\ written \intersect OnDisk = {}
          BY <3>1, <3>3 DEF Shape
        <4> QED
          BY <3>3, <4>1, AppendedKeepsRows DEF Shape
      <3> QED
        BY <1>3, <3>1, <3>2, <3>3, CrashOutcome
    <2> QED
      BY <1>3, <2>1 DEF Crash, Shape, PhaseInv, Healed, KnownCoversDisk, OneRowEach, Booted
  <1>4. CASE Boot
    BY <1>4 DEF Boot, Shape, PhaseInv, Healed, KnownCoversDisk, OneRowEach, OnDisk,
                Booted, disk, csv
  <1> QED
    BY <1>1, <1>2, <1>3, <1>4

\* Every step of the program and its environment keeps the row invariant.
LEMMA NextKeepsRowInv ==
  ASSUME OnlyOpensFail, RowInv, [Next]_vars
  PROVE  RowInv'
<1>1. spoiled' \in BOOLEAN /\ (spoiled => spoiled')
  BY SpoiledIsForGood DEF RowInv
<1>2. ASSUME ~ spoiled' PROVE Rows'
  <2>1. Rows
    BY <1>1, <1>2 DEF RowInv
  <2> QED
    BY <1>2, <2>1, MainKeepsRows, RediscoverKeepsRows, EnvironmentKeepsRows DEF Next, Over
<1> QED
  BY <1>1, <1>2 DEF RowInv

\* The dedup set covers the CSV, and a process that is up has no torn line and
\* no temporary file, in every reachable state, whatever crashes or does not
\* open (main.cpp:316-321, MarketDiscovery.cpp:400-538), until a boot cannot
\* clear away what a crash has left.
THEOREM RowInvariant ==
  ASSUME OnlyOpensFail
  PROVE  Spec => []RowInv
<1>1. RowInv /\ [Next]_vars => RowInv'
  BY NextKeepsRowInv
<1> QED
  BY <1>1, InitEstablishesRowInv, PTL DEF Spec

\* The CSV never has two rows for an asset id (MarketDiscovery.cpp:400-538),
\* although markets leave and come back, over crashes and files that do not open.
THEOREM NoDuplicates ==
  ASSUME OnlyOpensFail
  PROVE  Spec => []NoDuplicateRows
  <1>1. RowInv => NoDuplicateRows
    BY DEF RowInv, Rows, OneRowEach, NoDuplicateRows
  <1> QED
    BY <1>1, RowInvariant, PTL

-----------------------------------------------------------------------------
(* Decoding, when no market trades past its end_date.                       *)

\* The rows of what this process fetched, appended or subscribed to are on
\* disk, csv, until retention takes them, or the CSV did not open for them.
RowsInPlace ==
  /\ main_pc \in {"fetch", "merge", "seed"} => subscribed = {}
  /\ main_pc = "seed" => fresh \subseteq OnDisk \union unopened
  /\ rpc = "subscribe" => fresh \subseteq metadata_known \union unopened
  /\ subscribed \subseteq metadata_known \union unopened
  /\ \A t \in metadata_known :
       rows[t] > 0 \/ (RetentionDays > 0 /\ ResolvedBeforeCutoff(t))

TicksInTime == \A k \in ticks : k[2] <= clock /\ Day(k[2]) <= EndDay[k[1]]

\* WindowDecodes, while spoiled is not set.
Decodes ==
  \A k \in ticks :
    \/ RetentionDays > 0 /\ Expired(k[2])
    \/ rows[k[1]] > 0
    \/ k[1] \in unopened

\* The inductive invariant of decoding, on top of Rows.
DecodeInv == RowsInPlace /\ TicksInTime /\ Decodes

\* The two cutoffs agree: what retention takes by its day, it has taken, or
\* may take, by its time (main.cpp:93-142).
LEMMA CutoffsAgree ==
  ASSUME NEW c \in Nat, NEW now \in Nat, NEW end \in Nat,
         Day(c) <= end, end + RetentionDays < Day(now)
  PROVE  c + RetentionDays * DayLength < now
  <1> DEFINE d == Day(c)
             e == Day(now)
  <1>1. DayLength \in Nat /\ DayLength > 0 /\ RetentionDays \in Nat
    BY DayAssumption
  <1>2. d \in Nat /\ c < (d + 1) * DayLength
    BY <1>1 DEF Day
  <1>3. e \in Nat /\ e * DayLength <= now
    BY <1>1 DEF Day
  <1>4. d + 1 + RetentionDays <= e
    BY <1>1, <1>2, <1>3
  <1> HIDE DEF d, e
  <1>5. (d + 1 + RetentionDays) * DayLength <= e * DayLength
    BY <1>1, <1>2, <1>3, <1>4
  <1>6. (d + 1 + RetentionDays) * DayLength
          = (d + 1) * DayLength + RetentionDays * DayLength
    BY <1>1, <1>2
  <1>7. RetentionDays * DayLength \in Nat /\ (d + 1) * DayLength \in Nat
        /\ e * DayLength \in Nat
    BY <1>1, <1>2, <1>3
  <1> QED
    BY <1>2, <1>3, <1>5, <1>6, <1>7

\* The day never goes back when the clock advances.
LEMMA DayMonotone == \A c \in Nat : Day(c) \in Nat /\ Day(c) <= Day(c + 1)
  <1> SUFFICES ASSUME NEW c \in Nat PROVE Day(c) \in Nat /\ Day(c) <= Day(c + 1)
    OBVIOUS
  <1> QED
    BY DayAssumption DEF Day

\* A tick of a market that is known has its row, or has expired.
LEMMA KnownDecodes ==
  ASSUME Shape, RowsInPlace, TicksInTime, NEW k \in ticks, k[1] \in metadata_known
  PROVE  (RetentionDays > 0 /\ Expired(k[2])) \/ rows[k[1]] > 0
  <1>1. k[1] \in Token /\ k[2] \in Nat /\ clock \in Nat /\ EndDay[k[1]] \in Nat
    BY EndDayAssumption DEF Shape
  <1>2. CASE RetentionDays > 0 /\ ResolvedBeforeCutoff(k[1])
    BY <1>1, <1>2, CutoffsAgree DEF TicksInTime, ResolvedBeforeCutoff, Expired
  <1> QED
    BY <1>2 DEF RowsInPlace

\* There are no ticks before the first boot.
LEMMA InitEstablishesDecodeInv == Init => DecodeInv
  BY DEF Init, DecodeInv, RowsInPlace, TicksInTime, Decodes

\* main(): a merge keeps every row, and what is subscribed at boot has just
\* been merged, or could not be for want of an open file.
LEMMA MainKeepsDecodeInv ==
  ASSUME OnlyOpensFail, Rows, DecodeInv, MainThread, ~ spoiled'
  PROVE  DecodeInv'
  <1> USE DEF Rows, DecodeInv
  <1>1. CASE BootFetch \/ RegisterSignals \/ RunReturns \/ Shutdown
    BY <1>1 DEF BootFetch, RegisterSignals, RunReturns, Shutdown, PhaseInv,
                RowsInPlace, TicksInTime, Decodes, OnDisk, Expired,
                ResolvedBeforeCutoff, disk, csv, local, flags
  <1>2. CASE BootMerge
    <2>1. \/ rows' = Merged(rows, fresh) /\ unopened' = unopened \ fresh
          \/ rows' = rows /\ unopened' = unopened \union (fresh \ OnDisk)
      BY <1>2, MergeOutcome DEF BootMerge
    <2>2. /\ \A t \in Token : rows[t] > 0 => rows'[t] > 0
          /\ \A t \in fresh : rows'[t] > 0 \/ t \in unopened'
          /\ \A t \in unopened : t \in unopened' \/ rows'[t] > 0
      BY <2>1 DEF Merged, Shape, OnDisk
    <2>3. RowsInPlace'
      BY <1>2, <2>2 DEF BootMerge, RowsInPlace, PhaseInv, Shape, OnDisk,
                        ResolvedBeforeCutoff, local
    <2>4. TicksInTime' /\ Decodes'
      BY <1>2, <2>2 DEF BootMerge, TicksInTime, Decodes, Shape, Expired
    <2> QED
      BY <2>3, <2>4
  <1>3. CASE BootConstruct
    <2>1. metadata_known' = OnDisk /\ \A t \in OnDisk : rows[t] > 0
      BY <1>3 DEF BootConstruct, Readings, OnlyOpensFail, Seeded, OnDisk
    <2>2. RowsInPlace'
      BY <1>3, <2>1 DEF BootConstruct, RowsInPlace, PhaseInv, disk, csv
    <2> QED
      BY <1>3, <2>2 DEF BootConstruct, TicksInTime, Decodes, Expired, disk, csv
  <1>4. CASE StartRediscovery
    BY <1>4 DEF StartRediscovery, RowsInPlace, TicksInTime, Decodes, Expired,
                ResolvedBeforeCutoff, disk, csv
  <1> QED
    BY <1>1, <1>2, <1>3, <1>4 DEF MainThread

\* rediscover_loop: tokens are appended before they are subscribed, and a row
\* is pruned only after the last tick of its market has expired.
LEMMA RediscoverKeepsDecodeInv ==
  ASSUME OnlyOpensFail, Rows, DecodeInv, RediscoverThread
  PROVE  DecodeInv'
  <1> USE DEF Rows, DecodeInv
  <1>1. main_pc' = main_pc /\ main_pc \notin {"fetch", "merge", "seed"}
    BY DEF RediscoverThread, Rediscover, RediscoverExits, Append, Subscribe,
           SkipRetention, PruneFiles, PruneRows, PhaseInv
  <1>2. CASE Rediscover \/ RediscoverExits \/ SkipRetention
    BY <1>1, <1>2 DEF Rediscover, RediscoverExits, SkipRetention, RowsInPlace,
                TicksInTime, Decodes, Expired, ResolvedBeforeCutoff, disk, csv, local
  <1>3. CASE Append
    <2>1. UNCHANGED <<ticks, clock, subscribed, fresh, main_pc>> /\ rpc' = "subscribe"
      BY <1>3 DEF Append
    <2>2. CASE /\ rows' = Appended(fresh \ metadata_known, {})
               /\ metadata_known' = metadata_known \union fresh
               /\ unopened' = unopened \ fresh
      <3>1. /\ \A t \in Token : rows[t] > 0 => rows'[t] > 0
            /\ \A t \in fresh \ metadata_known : rows'[t] > 0
        BY <2>2 DEF Appended, Shape
      <3>2. RowsInPlace'
        BY <1>1, <2>1, <2>2, <3>1 DEF RowsInPlace, Shape, ResolvedBeforeCutoff
      <3>3. ASSUME NEW k \in ticks, k[1] \in unopened \intersect fresh
            PROVE  (RetentionDays > 0 /\ Expired(k[2])) \/ rows'[k[1]] > 0
        BY <3>1, <3>3, KnownDecodes DEF Shape
      <3>4. Decodes'
        BY <2>1, <2>2, <3>1, <3>3 DEF Decodes, Shape, Expired
      <3>5. TicksInTime'
        BY <2>1 DEF TicksInTime
      <3> QED
        BY <3>2, <3>4, <3>5
    <2>3. CASE /\ unopened' = unopened \union (fresh \ metadata_known)
               /\ UNCHANGED <<rows, metadata_known>>
      BY <1>1, <2>1, <2>3 DEF RowsInPlace, TicksInTime, Decodes, Expired,
                              ResolvedBeforeCutoff
    <2> QED
      <3>1. torn = {}
        BY <1>3, UpIsClean DEF Append
      <3> QED
        BY <1>3, <2>2, <2>3, <3>1, AppendOutcome
  <1>4. CASE Subscribe
    BY <1>1, <1>4 DEF Subscribe, RowsInPlace, TicksInTime, Decodes, Expired,
                      ResolvedBeforeCutoff, disk, csv
  <1>5. CASE PruneFiles
    BY <1>1, <1>5 DEF PruneFiles, RowsInPlace, TicksInTime, Decodes, Expired,
                      ResolvedBeforeCutoff, csv, local
  <1>6. CASE PruneRows
    <2>1. rows' = Kept(rows) \/ rows' = rows
      <3>1. torn = {} /\ tmp = {}
        BY <1>6, UpIsClean DEF PruneRows
      <3> QED
        BY <1>6, <3>1, PruneOutcome
    <2>2. /\ RetentionDays > 0
          /\ UNCHANGED <<ticks, clock, local, unopened>>
      BY <1>6 DEF PruneRows, PhaseInv, csv
    <2>3. RowsInPlace'
      BY <1>1, <1>6, <2>1, <2>2 DEF PruneRows, Kept, RowsInPlace, Shape, ResolvedBeforeCutoff,
                                    local
    <2>4. ASSUME NEW k \in ticks
          PROVE  Expired(k[2]) \/ rows'[k[1]] > 0 \/ k[1] \in unopened
      <3>1. k[1] \in Token /\ k[2] \in Nat /\ clock \in Nat /\ EndDay[k[1]] \in Nat
        BY EndDayAssumption DEF Shape
      <3>2. CASE ResolvedBeforeCutoff(k[1])
        BY <3>1, <3>2, CutoffsAgree DEF TicksInTime, ResolvedBeforeCutoff, Expired
      <3>3. CASE ~ ResolvedBeforeCutoff(k[1])
        BY <2>1, <3>1, <3>3 DEF Kept, Decodes
      <3> QED
        BY <3>2, <3>3
    <2>5. TicksInTime' /\ Decodes'
      BY <2>2, <2>4 DEF TicksInTime, Decodes, Expired
    <2> QED
      BY <2>3, <2>5
  <1> QED
    BY <1>2, <1>3, <1>4, <1>5, <1>6 DEF RediscoverThread

\* A tick comes from a subscribed market that has not ended, whose row is on
\* disk, csv; the clock only lets ticks expire.
LEMMA EnvironmentKeepsDecodeInv ==
  ASSUME ~ TradesPastEnd, Rows, DecodeInv,
         \/ Signal \/ TickArrives \/ ClockAdvances \/ Crash \/ Boot \/ UNCHANGED vars
  PROVE  DecodeInv'
  <1> USE DEF Rows, DecodeInv
  <1>1. CASE Signal \/ UNCHANGED vars
    BY <1>1 DEF Signal, vars, RowsInPlace, TicksInTime, Decodes, Expired, OnDisk,
                ResolvedBeforeCutoff, disk, csv, local
  <1>2. CASE TickArrives
    <2>1. PICK t \in subscribed :
            /\ Day(clock) <= EndDay[t]
            /\ ticks' = ticks \union {<<t, clock>>}
      BY <1>2 DEF TickArrives
    <2>2. t \in Token /\ t \in metadata_known \union unopened
      BY DEF Shape, RowsInPlace
    <2>3. ~ ResolvedBeforeCutoff(t)
      BY <2>1, <2>2, EndDayAssumption, DayAssumption, DayMonotone
         DEF ResolvedBeforeCutoff, Shape
    <2>4. rows[t] > 0 \/ t \in unopened
      BY <2>2, <2>3 DEF RowsInPlace
    <2>5. Decodes'
      BY <1>2, <2>1, <2>4 DEF TickArrives, Decodes, Expired, csv
    <2>6. TicksInTime'
      BY <1>2, <2>1 DEF TickArrives, TicksInTime, Shape
    <2>7. RowsInPlace'
      BY <1>2 DEF TickArrives, RowsInPlace, OnDisk, ResolvedBeforeCutoff, csv, local
    <2> QED
      BY <2>5, <2>6, <2>7
  <1>3. CASE ClockAdvances
    <2>1. /\ clock \in Nat /\ clock' = clock + 1
          /\ UNCHANGED <<disk, main_pc, rpc, local>>
      BY <1>3 DEF ClockAdvances, Shape
    <2>2. Day(clock) \in Nat /\ Day(clock') \in Nat /\ Day(clock) <= Day(clock')
      BY <2>1, DayMonotone
    <2>3. \A t \in Token : ResolvedBeforeCutoff(t) => ResolvedBeforeCutoff(t)'
      BY <2>2, EndDayAssumption, DayAssumption DEF ResolvedBeforeCutoff
    <2>4. RowsInPlace'
      BY <2>1, <2>3 DEF RowsInPlace, Shape, OnDisk, disk, csv, local
    <2>5. \A c \in Nat : Expired(c) => Expired(c)'
      <3>1. RetentionDays * DayLength \in Nat
        BY DayAssumption
      <3> QED
        BY <2>1, <3>1 DEF Expired
    <2>6. Decodes'
      BY <2>1, <2>5 DEF Decodes, Shape, disk, csv
    <2>7. TicksInTime'
      BY <2>1 DEF TicksInTime, Shape, disk, csv
    <2> QED
      BY <2>4, <2>6, <2>7
  <1>4. CASE Crash
    <2>1. \A t \in Token : rows[t] > 0 => rows'[t] > 0
      <3>1. rpc = "append" => torn = {}
        BY UpIsClean
      <3> QED
        BY <1>4, <3>1, CrashOutcome DEF Appended, Shape
    <2> QED
      BY <1>4, <2>1 DEF Crash, RowsInPlace, TicksInTime, Decodes, Shape, Expired
  <1>5. CASE Boot
    BY <1>5 DEF Boot, RowsInPlace, TicksInTime, Decodes, Expired, disk, csv
  <1> QED
    BY <1>1, <1>2, <1>3, <1>4, <1>5

\* Every tick in the retention window has its row, in every reachable state,
\* unless the row waits for the CSV to open again: the claim of ADR-0005 under
\* the two conditions that it needs, that what opens is written and read
\* without errors and that no market trades after its end_date, until a boot
\* cannot clear away what a crash has left.
THEOREM Decoding ==
  ASSUME OnlyOpensFail, ~ TradesPastEnd
  PROVE  Spec => []WindowDecodes
  <1> DEFINE Inv == spoiled \/ DecodeInv
  <1>1. Init => Inv
    BY InitEstablishesDecodeInv
  <1>2. RowInv /\ Inv /\ [Next]_vars => Inv'
    <2> SUFFICES ASSUME RowInv, Inv, [Next]_vars, ~ spoiled' PROVE DecodeInv'
      OBVIOUS
    <2>1. Rows /\ DecodeInv
      BY SpoiledIsForGood DEF RowInv
    <2> QED
      BY <2>1, MainKeepsDecodeInv, RediscoverKeepsDecodeInv, EnvironmentKeepsDecodeInv
         DEF Next, Over
  <1>3. Inv => WindowDecodes
    BY DEF DecodeInv, Decodes, WindowDecodes
  <1> QED
    BY <1>1, <1>2, <1>3, RowInvariant, PTL DEF Spec

\* Only retention removes a row, and only of a market past the cutoff
\* (MarketDiscovery.hpp:76-84), over crashes in the middle of any rewrite and
\* files that do not open: what a crash leaves in the temporary file comes to
\* the CSV only if the next boot cannot write that file anew.
THEOREM RetentionOnly ==
  ASSUME OnlyOpensFail
  PROVE  Spec => RowsLeaveByRetentionOnly
  <1>1. RowInv /\ [Next]_vars =>
          [\A t \in Token : rows[t] > 0 /\ rows'[t] = 0 =>
             ResolvedBeforeCutoff(t) \/ spoiled']_vars
    <2> SUFFICES ASSUME RowInv, Next, ~ spoiled', NEW t \in Token, rows[t] > 0, rows'[t] = 0
                 PROVE  ResolvedBeforeCutoff(t)
      OBVIOUS
    <2>1. Rows
      BY SpoiledIsForGood DEF RowInv
    <2>2. rows' # rows /\ rows \in [Token -> Nat]
      BY <2>1 DEF Rows, Shape
    <2>3. CASE BootMerge
      BY <2>2, <2>3, MergeOutcome DEF BootMerge, Merged
    <2>4. CASE Append
      <3>1. torn = {}
        BY <2>1, <2>4, UpIsClean DEF Append
      <3> QED
        BY <2>2, <2>4, <3>1, AppendOutcome DEF Appended
    <2>5. CASE PruneRows
      <3>1. torn = {} /\ tmp = {}
        BY <2>1, <2>5, UpIsClean DEF PruneRows
      <3> QED
        BY <2>2, <2>5, <3>1, PruneOutcome DEF Kept
    <2>6. CASE Crash
      <3>1. rpc = "append" => torn = {}
        BY <2>1, UpIsClean
      <3> QED
        BY <2>2, <2>6, <3>1, CrashOutcome DEF Appended
    <2>7. BootMerge \/ Append \/ PruneRows \/ Crash
      BY <2>2 DEF Next, MainThread, RediscoverThread, BootFetch, BootConstruct,
                  RegisterSignals, StartRediscovery, RunReturns, Shutdown, Rediscover,
                  RediscoverExits, Subscribe, SkipRetention, PruneFiles, Signal,
                  TickArrives, ClockAdvances, Boot, Over, vars, disk, csv
    <2> QED
      BY <2>3, <2>4, <2>5, <2>6, <2>7
  <1> QED
    BY <1>1, RowInvariant, PTL DEF Spec, RowsLeaveByRetentionOnly

-----------------------------------------------------------------------------
(* The end after a signal, when none comes before the flag is set.          *)

\* The steps of the two threads until main() has ended, once both are told: the
\* re-discovery thread finishes the cycle it is in.
MainStepsLeft == IF main_pc = "run" THEN 2 ELSE IF main_pc = "join" THEN 1 ELSE 0
CycleStepsLeft ==
  CASE rpc = "append" -> 5 [] rpc = "subscribe" -> 4 [] rpc = "retain" -> 3
    [] rpc = "prune"  -> 2 [] rpc = "sleep"     -> 1 [] OTHER          -> 0

\* A signal is never forgotten: from the handler on, no step of the other thread,
\* and no second signal, takes the program further from its end, and every step of
\* main() and of the re-discovery thread takes it closer.  A thread that raised its
\* flag again, or started another cycle, would keep join() waiting.
SignalOnlyAdvances ==
  [][signalled /\ main_pc \notin {"stopped", "crashed"} /\ main_pc' # "crashed" =>
       /\ MainStepsLeft' + CycleStepsLeft' <= MainStepsLeft + CycleStepsLeft
       /\ MainThread \/ RediscoverThread =>
            MainStepsLeft' + CycleStepsLeft' < MainStepsLeft + CycleStepsLeft]_vars

\* Once signalled, both flags are down, and stay so.
SignalInv ==
  signalled /\ main_pc # "crashed" =>
    /\ ~ wsc_running
    /\ ~ g_rediscover_running
    /\ main_pc \in {"run", "join", "stopped"}

\* No step but the handler's touches the flags after StartRediscovery.
LEMMA NextKeepsSignalInv ==
  ASSUME ~ EarlySignal, SignalInv, [Next]_vars
  PROVE  SignalInv'
<1>1. CASE MainThread
  BY <1>1 DEF MainThread, BootFetch, BootMerge, BootConstruct, RegisterSignals,
              StartRediscovery, RunReturns, Shutdown, SignalInv, flags
<1>2. CASE RediscoverThread
  BY <1>2 DEF RediscoverThread, Rediscover, RediscoverExits, Append, Subscribe,
              SkipRetention, PruneFiles, PruneRows, SignalInv, flags
<1>3. CASE \/ Signal \/ TickArrives \/ ClockAdvances \/ Crash \/ Boot \/ Over
           \/ UNCHANGED vars
  BY <1>3 DEF Signal, TickArrives, ClockAdvances, Crash, Boot, Over, vars, SignalInv,
              flags
<1> QED
  BY <1>1, <1>2, <1>3 DEF Next

\* With its flag down the re-discovery thread only goes on to the end of its
\* cycle, and main() only to its own.
LEMMA SignalledStep ==
  ASSUME ~ EarlySignal, SignalInv, Next, signalled,
         main_pc \notin {"stopped", "crashed"}, main_pc' # "crashed"
  PROVE  /\ MainStepsLeft' + CycleStepsLeft' <= MainStepsLeft + CycleStepsLeft
         /\ MainThread \/ RediscoverThread =>
              MainStepsLeft' + CycleStepsLeft' < MainStepsLeft + CycleStepsLeft
<1>1. main_pc \in {"run", "join"} /\ ~ g_rediscover_running
  BY DEF SignalInv
<1>2. MainStepsLeft \in 0..2 /\ CycleStepsLeft \in 0..5
  BY DEF MainStepsLeft, CycleStepsLeft
<1>3. CASE MainThread
  <2>1. RunReturns \/ Shutdown
    BY <1>1, <1>3 DEF MainThread, BootFetch, BootMerge, BootConstruct, RegisterSignals,
                      StartRediscovery
  <2>2. MainStepsLeft' = MainStepsLeft - 1
    BY <2>1 DEF RunReturns, Shutdown, MainStepsLeft
  <2>3. CycleStepsLeft' = CycleStepsLeft
    BY <2>1 DEF RunReturns, Shutdown, CycleStepsLeft
  <2> QED
    BY <1>2, <2>2, <2>3
<1>4. CASE RediscoverThread
  <2>1. MainStepsLeft' = MainStepsLeft
    BY <1>4 DEF RediscoverThread, Rediscover, RediscoverExits, Append, Subscribe,
                SkipRetention, PruneFiles, PruneRows, MainStepsLeft
  <2>2. CycleStepsLeft' \in 0..5 /\ CycleStepsLeft' < CycleStepsLeft
    BY <1>1, <1>4 DEF RediscoverThread, Rediscover, RediscoverExits, Append, Subscribe,
                      SkipRetention, PruneFiles, PruneRows, CycleStepsLeft
  <2>3. /\ MainStepsLeft' + CycleStepsLeft' <= MainStepsLeft + CycleStepsLeft
        /\ MainStepsLeft' + CycleStepsLeft' < MainStepsLeft + CycleStepsLeft
    <3>1. \A m, c, d \in Nat : d < c => m + d <= m + c /\ m + d < m + c
      OBVIOUS
    <3>2. MainStepsLeft \in Nat /\ CycleStepsLeft \in Nat /\ CycleStepsLeft' \in Nat
      BY <1>2, <2>2
    <3> QED
      BY <2>1, <2>2, <3>1, <3>2
  <2> QED
    BY <2>3, Zenon
<1>5. CASE ~ (MainThread \/ RediscoverThread)
  <2>1. UNCHANGED <<main_pc, rpc>>
    BY <1>1, <1>5 DEF Next, Signal, TickArrives, ClockAdvances, Crash, Boot, Over, vars
  <2>2. MainStepsLeft' = MainStepsLeft /\ CycleStepsLeft' = CycleStepsLeft
    BY <2>1 DEF MainStepsLeft, CycleStepsLeft
  <2>3. MainStepsLeft' + CycleStepsLeft' <= MainStepsLeft + CycleStepsLeft
    BY <1>2, <2>2
  <2> QED
    BY <1>5, <2>3, Zenon
<1> QED
  BY <1>3, <1>4, <1>5

\* From the signal handler on the program is at most seven steps of its two threads
\* from its end, whatever else happens (main.cpp:48-54, 166-231, 416-420); without
\* the condition the run harvester_signal shows the signal that is forgotten.
THEOREM SignalIsKept ==
  ASSUME ~ EarlySignal
  PROVE  Spec => SignalOnlyAdvances
<1>1. Init => SignalInv
  BY DEF Init, SignalInv
<1>2. SignalInv /\ [Next]_vars => SignalInv'
  BY NextKeepsSignalInv
<1>3. SignalInv /\ [Next]_vars =>
        [signalled /\ main_pc \notin {"stopped", "crashed"} /\ main_pc' # "crashed" =>
           /\ MainStepsLeft' + CycleStepsLeft' <= MainStepsLeft + CycleStepsLeft
           /\ MainThread \/ RediscoverThread =>
                MainStepsLeft' + CycleStepsLeft' < MainStepsLeft + CycleStepsLeft]_vars
  BY SignalledStep
<1> QED
  BY <1>1, <1>2, <1>3, PTL DEF Spec, SignalOnlyAdvances
=============================================================================
