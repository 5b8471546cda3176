---------------------- MODULE TickerplantJournalProofs ----------------------
(***************************************************************************)
(* Proofs about the journal for every rotation interval below MinAge and   *)
(* any sequence of ticks, rotations, failing fopen calls, crashes,         *)
(* restarts and runs of the cron job: the open file is never taken for a   *)
(* sealed one, so that the journal and the job implement DurableLog, and   *)
(* what a crash or a shutdown can lose.  The tests' force_rotate() opens a *)
(* window's file before its time: it may be called as often as MinAge has  *)
(* room for (ForcedRotationsFit), which for the program is not at all.     *)
(***************************************************************************)
EXTENDS TickerplantProofs

Off == {"down", "closed"}

\* Each forced rotation moves the open file one window ahead of the clock, and
\* MinAge covers them all.
ForcedRotationsFit == MaxForced \in Nat /\ (MaxForced + 1) * Rotation <= MinAge

\* The forced rotation that is requested and not carried out.
Pending == IF force_rotate THEN 1 ELSE 0

\* The consumer thread keeps up with the clock, and the open file is that of the
\* window it has last looked at, or as many windows later as rotations were forced.
ClockInv ==
  /\ clock \in Nat
  /\ last_maintenance \in Nat
  /\ last_maintenance <= clock
  /\ Pending <= budget.forced
  /\ budget.forced <= MaxForced
  /\ journal_fp \in Nat \union {NoFile}
  /\ buffer \in Seq(Tick)
  /\ journal_fp = NoFile => buffer = << >>
  /\ pc \in Off => journal_fp = NoFile
  /\ pc \notin Off => /\ clock <= last_maintenance + 1
                      /\ current_slot \in Nat
                      /\ time_slot(last_maintenance) <= current_slot
                      /\ current_slot + Pending <=
                           time_slot(last_maintenance) + budget.forced
                      /\ journal_fp \in {NoFile, current_slot}

\* A file is not touched before its window begins, but for forced rotations.
DirOK(dir) ==
  /\ DOMAIN dir \subseteq Nat
  /\ \A s \in DOMAIN dir : /\ dir[s] \in [ticks : Seq(Tick), mtime : Nat]
                           /\ s <= time_slot(dir[s].mtime) + MaxForced

IdsIn(dir) == UNION {Ids(dir[s].ticks) : s \in DOMAIN dir}

\* The job only has files that are sealed and stay so.
FileInv ==
  /\ DirOK(files)
  /\ journal_fp # NoFile => linked /\ journal_fp \in DOMAIN files
  /\ closed_bins \subseteq DOMAIN files
  /\ \A s \in closed_bins : Sealed(s)
  /\ flush_pc = "delete" => \A s \in closed_bins : Ids(files[s].ticks) \subseteq archive

\* What has been flushed is what is on disk, but for what is in the archive.
LossInv ==
  /\ IdsIn(files) \subseteq durable
  /\ durable \subseteq IdsIn(files) \union archive

\* Where the ticks that have been taken from the ring are.
JournaledInv ==
  /\ \A id \in DOMAIN journaled : journaled[id] \in Nat
  /\ \A id \in Ids(buffer) : id \in DOMAIN journaled /\ last_maintenance <= journaled[id]
  /\ \A i \in DOMAIN ring : ring[i].id \notin DOMAIN journaled /\ ring[i].id <= budget.ticks
  /\ \A i, j \in DOMAIN ring : ring[i].id = ring[j].id => i = j
  /\ \A id \in DOMAIN journaled : id \in Nat /\ id <= budget.ticks
  /\ Ids(consumed) \intersect DOMAIN journaled \subseteq durable \union Ids(buffer)
  /\ budget.failures = 0 => /\ Ids(consumed) \subseteq DOMAIN journaled
                            /\ pc \notin Off => journal_fp # NoFile

\* Nothing arrives any more once the loop has ended.
StopInv ==
  /\ pc \in {"drain", "drain_apply", "drain_store", "drain_count", "returned", "closed"} =>
       ~ running
  /\ ~ running /\ pc # "down" => ~ feeding
  /\ pc \in {"returned", "closed", "down"} => ring = << >>

JournalIInv == CountInv /\ ClockInv /\ FileInv /\ LossInv /\ JournaledInv /\ StopInv

-----------------------------------------------------------------------------
(* Windows, sequences and directories *)

\* Time slots are ordered like time, and Rotation long.
LEMMA TimeSlots ==
  ASSUME NEW m \in Nat, NEW n \in Nat
  PROVE  /\ time_slot(n) \in Nat
         /\ m <= n => time_slot(m) <= time_slot(n)
BY TimingAssumption DEF time_slot

\* A time that is at most k windows later is less than k + 1 rotations later.
LEMMA WindowsApart ==
  ASSUME NEW m \in Nat, NEW n \in Nat, NEW k \in Nat,
         time_slot(n) <= time_slot(m) + k
  PROVE  n < m + (k + 1) * Rotation
<1> DEFINE a == time_slot(m)
           b == time_slot(n)
<1>1. /\ a \in Nat /\ b \in Nat
      /\ Rotation * a <= m
      /\ n < Rotation * b + Rotation
      /\ b <= a + k
  BY TimingAssumption DEF time_slot
<1> HIDE DEF a, b
<1>2. Rotation * b <= Rotation * (a + k)
  BY <1>1, TimingAssumption
<1>3. /\ Rotation * (a + k) = Rotation * a + Rotation * k
      /\ (k + 1) * Rotation = Rotation * k + Rotation
      /\ Rotation * k \in Nat /\ Rotation * a \in Nat /\ Rotation * b \in Nat
  BY <1>1, TimingAssumption
<1> QED
  BY <1>1, <1>2, <1>3, TimingAssumption

\* The ids of two sequences one after the other.
LEMMA IdsOfConcat ==
  ASSUME NEW a \in Seq(Tick), NEW b \in Seq(Tick)
  PROVE  /\ a \o b \in Seq(Tick)
         /\ Ids(a \o b) = Ids(a) \union Ids(b)
<1>1. ASSUME NEW i \in DOMAIN a
      PROVE  i \in DOMAIN (a \o b) /\ (a \o b)[i] = a[i]
  OBVIOUS
<1>2. ASSUME NEW i \in DOMAIN b
      PROVE  Len(a) + i \in DOMAIN (a \o b) /\ (a \o b)[Len(a) + i] = b[i]
  OBVIOUS
<1>3. ASSUME NEW i \in DOMAIN (a \o b)
      PROVE  \/ i \in DOMAIN a /\ (a \o b)[i] = a[i]
             \/ i - Len(a) \in DOMAIN b /\ (a \o b)[i] = b[i - Len(a)]
  OBVIOUS
<1>4. Ids(a \o b) \subseteq Ids(a) \union Ids(b)
  BY <1>3 DEF Ids
<1>5. Ids(a) \subseteq Ids(a \o b)
  BY <1>1 DEF Ids
<1>6. Ids(b) \subseteq Ids(a \o b)
  BY <1>2 DEF Ids
<1>7. a \o b \in Seq(Tick)
  OBVIOUS
<1> QED
  BY <1>4, <1>5, <1>6, <1>7

LEMMA IdsOfAppend ==
  ASSUME NEW a \in Seq(Tick), NEW t \in Tick
  PROVE  /\ Append(a, t) \in Seq(Tick)
         /\ Ids(Append(a, t)) = Ids(a) \union {t.id}
<1> DEFINE b == Append(a, t)
<1>1. /\ b \in Seq(Tick)
      /\ DOMAIN b = DOMAIN a \union {Len(a) + 1}
      /\ \A i \in DOMAIN a : b[i] = a[i]
      /\ b[Len(a) + 1] = t
  OBVIOUS
<1> HIDE DEF b
<1>2. Ids(b) = Ids(a) \union {t.id}
  BY <1>1 DEF Ids
<1> QED
  BY <1>1, <1>2 DEF b

LEMMA NoIds == << >> \in Seq(Tick) /\ Ids(<< >>) = {}
BY DEF Ids

\* Writing the buffer out adds its ticks to the open file only.
LEMMA FlushedDirectory ==
  ASSUME CountInv, ClockInv, FileInv, MaxForced \in Nat
  PROVE  /\ DirOK(Flushed)
         /\ DOMAIN Flushed = DOMAIN files
         /\ \A s \in DOMAIN files : s # journal_fp => Flushed[s] = files[s]
         /\ IdsIn(Flushed) = IdsIn(files) \union Ids(buffer)
<1>1. CASE journal_fp = NoFile \/ buffer = << >>
  <2>1. Flushed = files /\ buffer = << >>
    BY <1>1 DEF Flushed, ClockInv
  <2> QED
    BY <2>1, NoIds DEF FileInv
<1>2. CASE journal_fp # NoFile /\ buffer # << >>
  <2> DEFINE new == [ticks |-> files[journal_fp].ticks \o buffer, mtime |-> clock]
  <2>1. journal_fp \in DOMAIN files /\ linked
    BY <1>2 DEF FileInv
  <2>2. Flushed = [files EXCEPT ![journal_fp] = new]
    BY <1>2, <2>1 DEF Flushed
  <2>3. /\ files[journal_fp].ticks \in Seq(Tick)
        /\ buffer \in Seq(Tick)
    BY <2>1 DEF FileInv, DirOK, ClockInv
  <2>4. /\ new.ticks \in Seq(Tick)
        /\ Ids(new.ticks) = Ids(files[journal_fp].ticks) \union Ids(buffer)
    BY <2>3, IdsOfConcat
  <2>5. journal_fp <= time_slot(clock) + MaxForced
    <3>1. pc \notin Off /\ journal_fp = current_slot
      BY <1>2 DEF ClockInv
    <3>2. /\ time_slot(last_maintenance) <= time_slot(clock)
          /\ time_slot(last_maintenance) \in Nat /\ time_slot(clock) \in Nat
      BY TimeSlots DEF ClockInv
    <3>3. budget.forced \in Nat
      BY DEF CountInv
    <3> QED
      BY <3>1, <3>2, <3>3 DEF ClockInv, Pending
  <2>6. new \in [ticks : Seq(Tick), mtime : Nat] /\ new.mtime = clock
    BY <2>4 DEF ClockInv
  <2> HIDE DEF new
  <2>7. /\ DOMAIN Flushed = DOMAIN files
        /\ Flushed[journal_fp] = new
        /\ \A s \in DOMAIN files : s # journal_fp => Flushed[s] = files[s]
    BY <2>1, <2>2
  <2>8. DirOK(Flushed)
    BY <2>5, <2>6, <2>7 DEF FileInv, DirOK
  <2>9. IdsIn(Flushed) = IdsIn(files) \union Ids(buffer)
    BY <2>1, <2>4, <2>7 DEF IdsIn
  <2> QED
    BY <2>7, <2>8, <2>9
<1> QED
  BY <1>1, <1>2

\* Opening a window's file takes nothing from the directory.
LEMMA OpenedDirectory ==
  ASSUME NEW dir, DirOK(dir), clock \in Nat, MaxForced \in Nat,
         NEW slot \in Nat, slot <= time_slot(clock) + MaxForced
  PROVE  /\ DirOK(Opened(dir, slot))
         /\ DOMAIN Opened(dir, slot) = DOMAIN dir \union {slot}
         /\ \A s \in DOMAIN dir : Opened(dir, slot)[s] = dir[s]
         /\ IdsIn(Opened(dir, slot)) = IdsIn(dir)
<1> DEFINE fresh == [ticks |-> << >>, mtime |-> clock]
           new == Opened(dir, slot)
<1>1. slot \in Nat
  OBVIOUS
<1>2. CASE slot \in DOMAIN dir
  BY <1>1, <1>2 DEF Opened
<1>3. CASE slot \notin DOMAIN dir
  <2>1. /\ DOMAIN new = DOMAIN dir \union {slot}
        /\ new[slot] = fresh
        /\ \A s \in DOMAIN dir : new[s] = dir[s]
    BY <1>3 DEF Opened, With
  <2>2. fresh \in [ticks : Seq(Tick), mtime : Nat]
    BY NoIds
  <2>3. fresh.mtime = clock /\ fresh.ticks = << >>
    OBVIOUS
  <2> HIDE DEF new, fresh
  <2>4. DirOK(new)
    BY <1>1, <2>1, <2>2, <2>3 DEF DirOK
  <2>5. IdsIn(new) = IdsIn(dir)
    BY <1>3, <2>1, <2>3, NoIds DEF IdsIn
  <2> QED
    BY <1>1, <2>1, <2>4, <2>5 DEF new
<1> QED
  BY <1>2, <1>3

\* The file of a window that is not over yet is too young to be sealed.
LEMMA OpenIsYoung ==
  ASSUME NEW dir, DirOK(dir), NEW m \in Nat, m <= clock, clock <= m + 1, clock \in Nat,
         NEW slot \in DOMAIN dir, time_slot(m) <= slot, ForcedRotationsFit
  PROVE  ~ (clock - dir[slot].mtime > MinAge)
<1> DEFINE mtime == dir[slot].mtime
<1>1. /\ mtime \in Nat /\ slot \in Nat /\ MaxForced \in Nat
      /\ slot <= time_slot(mtime) + MaxForced
  BY DEF DirOK, ForcedRotationsFit
<1>2. time_slot(m) <= time_slot(mtime) + MaxForced
  BY <1>1, TimeSlots
<1>3. m < mtime + (MaxForced + 1) * Rotation
  BY <1>1, <1>2, WindowsApart
<1>4. (MaxForced + 1) * Rotation <= MinAge /\ (MaxForced + 1) * Rotation \in Nat
  BY <1>1, TimingAssumption DEF ForcedRotationsFit
<1> QED
  BY <1>1, <1>3, <1>4, TimingAssumption

\* So the job does not have the open file.
LEMMA OpenIsNotClosed ==
  ASSUME ClockInv, FileInv, ForcedRotationsFit
  PROVE  journal_fp # NoFile => journal_fp \notin closed_bins
BY OpenIsYoung DEF ClockInv, FileInv, Sealed

-----------------------------------------------------------------------------
(* What the steps are to the files *)

LogStep == [Log!Next]_<<durable, OnDisk, archive>>

\* The directory, the job and the abstract log after a step.
FilesAfter == FileInv' /\ LossInv' /\ LogStep

FilesStay ==
  /\ UNCHANGED <<files, linked, durable, flushVars, clock>>
  /\ journal_fp' \in {journal_fp, NoFile}

FlushStep ==
  /\ files' = Flushed
  /\ durable' = durable \union Ids(buffer)
  /\ UNCHANGED <<linked, flushVars, clock>>
  /\ journal_fp' \in {journal_fp, NoFile}

RotateStep ==
  \E slot \in Nat, opens \in BOOLEAN :
    /\ slot <= time_slot(clock) + MaxForced
    /\ Reopen(slot, opens)
    /\ UNCHANGED <<flushVars, clock>>

\* The file that a rotation opens, on the clock or forced.
LEMMA RotationSlot ==
  ASSUME CountInv, ClockInv, ForcedRotationsFit
  PROVE  /\ time_slot(clock) \in Nat
         /\ time_slot(clock) <= time_slot(clock) + MaxForced
         /\ pc \notin Off /\ force_rotate =>
              /\ current_slot + 1 \in Nat
              /\ current_slot + 1 <= time_slot(clock) + MaxForced
<1>1. /\ time_slot(last_maintenance) <= time_slot(clock)
      /\ time_slot(last_maintenance) \in Nat /\ time_slot(clock) \in Nat
  BY TimeSlots DEF ClockInv
<1>2. budget.forced \in Nat /\ MaxForced \in Nat
  BY DEF CountInv, ForcedRotationsFit
<1> QED
  BY <1>1, <1>2 DEF ClockInv, Pending

LEMMA FileStepKinds ==
  ASSUME JournalIInv, [Next]_vars, ForcedRotationsFit
  PROVE  \/ FilesStay \/ FlushStep \/ RotateStep
         \/ Restart \/ Advance \/ FlushFinds \/ FlushUploads \/ FlushDeletes
<1>1. CASE ForcedRotation
  <2>1. pc \notin Off /\ force_rotate
    BY <1>1 DEF ForcedRotation, Off
  <2>2. current_slot + 1 \in Nat /\ current_slot + 1 <= time_slot(clock) + MaxForced
    BY <2>1, RotationSlot DEF JournalIInv
  <2> QED
    BY <1>1, <2>2 DEF ForcedRotation, RotateStep
<1>2. CASE ForceRotate
  BY <1>2 DEF ForceRotate, FilesStay, fileVars, logVars
<1>3. CASE \/ LoopTop \/ LoopEnds \/ ConsumeEmpty \/ NoMaintenance \/ Consume \/ Drain
           \/ ApplyStep \/ StoreStep \/ CountStep
  BY <1>3
     DEF LoopTop, LoopEnds, ConsumeEmpty, NoMaintenance, Consume, Drain, ApplyStep, Apply,
         StoreStep, Store, CountStep, Count, FilesStay, fileVars, logVars
<1>4. CASE TickArrives \/ FeedStops \/ Stop \/ Crash \/ Terminated \/ Read \/ UNCHANGED vars
  BY <1>4
     DEF TickArrives, FeedStops, Stop, Crash, Terminated, Read, ReadCount, FindIndex, Load,
         vars, FilesStay, fileVars, logVars
<1>5. CASE BufferSpills \/ DrainEnds \/ Destroy
  BY <1>5 DEF BufferSpills, DrainEnds, Destroy, FlushBuffer, FlushStep
<1>6. CASE Maintain
  <2>1. CASE RotationDue
    BY <1>6, <2>1, RotationSlot DEF Maintain, RotateStep, JournalIInv
  <2>2. CASE ~ RotationDue
    BY <1>6, <2>2 DEF Maintain, FlushBuffer, FlushStep
  <2> QED
    BY <2>1, <2>2
<1> QED
  BY <1>1, <1>2, <1>3, <1>4, <1>5, <1>6
     DEF Next, HotLoop, DrainLoop, HourlyFlush, ApplyStep, StoreStep, CountStep

LEMMA FilesStayKeeps ==
  ASSUME JournalIInv, FilesStay, ForcedRotationsFit PROVE FilesAfter
<1>1. UNCHANGED <<durable, OnDisk, archive>>
  BY DEF FilesStay, flushVars, OnDisk
<1>2. FileInv' /\ LossInv'
  BY DEF JournalIInv, FilesStay, flushVars, FileInv, LossInv, DirOK, Sealed, IdsIn
<1> QED
  BY <1>1, <1>2 DEF FilesAfter, LogStep

\* A directory that has gained the buffer's ticks, and kept the job's files.
LEMMA WriteKeeps ==
  ASSUME JournalIInv, ForcedRotationsFit, NEW dir,
         files' = dir, DirOK(dir), DOMAIN files \subseteq DOMAIN dir,
         \A s \in DOMAIN files : s # journal_fp => dir[s] = files[s],
         IdsIn(dir) = IdsIn(files) \union Ids(buffer),
         durable' = durable \union Ids(buffer),
         UNCHANGED <<flushVars, clock>>,
         journal_fp' # NoFile => linked' /\ journal_fp' \in DOMAIN dir
  PROVE  FilesAfter
<1> USE DEF JournalIInv
<1>1. \A s \in closed_bins : s \in DOMAIN dir /\ dir[s] = files[s]
  <2>1. \A s \in closed_bins : s # journal_fp
    BY OpenIsNotClosed, NoFileAssumption DEF FileInv, DirOK
  <2> QED
    BY <2>1 DEF FileInv
<1>2. FileInv'
  BY <1>1 DEF FileInv, DirOK, flushVars, Sealed
<1>3. LossInv'
  BY DEF LossInv, flushVars, IdsIn
<1>4. Log!Write
  BY DEF Log!Write, LossInv, OnDisk, IdsIn, flushVars
<1> QED
  BY <1>2, <1>3, <1>4 DEF FilesAfter, LogStep, Log!Next

LEMMA FlushKeeps ==
  ASSUME JournalIInv, FlushStep, ForcedRotationsFit PROVE FilesAfter
<1> DEFINE dir == Flushed
<1>1. /\ DirOK(dir) /\ DOMAIN dir = DOMAIN files
      /\ \A s \in DOMAIN files : s # journal_fp => dir[s] = files[s]
      /\ IdsIn(dir) = IdsIn(files) \union Ids(buffer)
  BY FlushedDirectory DEF JournalIInv, ForcedRotationsFit
<1>2. journal_fp' # NoFile => linked' /\ journal_fp' \in DOMAIN dir
  BY <1>1 DEF FlushStep, JournalIInv, FileInv
<1>3. files' = dir /\ durable' = durable \union Ids(buffer) /\ UNCHANGED <<flushVars, clock>>
  BY DEF FlushStep
<1> HIDE DEF dir
<1> QED
  BY <1>1, <1>2, <1>3, WriteKeeps

LEMMA RotateKeeps ==
  ASSUME JournalIInv, RotateStep, ForcedRotationsFit PROVE FilesAfter
<1>1. PICK slot \in Nat, opens \in BOOLEAN :
        /\ slot <= time_slot(clock) + MaxForced
        /\ Reopen(slot, opens)
        /\ UNCHANGED <<flushVars, clock>>
  BY DEF RotateStep
<1>2. UNCHANGED <<flushVars, clock>>
  BY <1>1
<1>3. /\ DirOK(Flushed) /\ DOMAIN Flushed = DOMAIN files
      /\ \A s \in DOMAIN files : s # journal_fp => Flushed[s] = files[s]
      /\ IdsIn(Flushed) = IdsIn(files) \union Ids(buffer)
      /\ clock \in Nat
  BY FlushedDirectory DEF JournalIInv, ClockInv, ForcedRotationsFit
<1>4. durable' = durable \union Ids(buffer) /\ linked'
  BY <1>1 DEF Reopen
<1>5. CASE opens
  <2> DEFINE dir == Opened(Flushed, slot)
  <2>1. /\ DirOK(dir)
        /\ DOMAIN dir = DOMAIN files \union {slot}
        /\ \A s \in DOMAIN files : dir[s] = Flushed[s]
        /\ IdsIn(dir) = IdsIn(Flushed)
    BY <1>1, <1>3, OpenedDirectory DEF ForcedRotationsFit
  <2>2. files' = dir /\ journal_fp' = slot
    BY <1>1, <1>5 DEF Reopen
  <2> HIDE DEF dir
  <2>3. \A s \in DOMAIN files : s # journal_fp => dir[s] = files[s]
    BY <1>3, <2>1
  <2> QED
    BY <1>2, <1>3, <1>4, <2>1, <2>2, <2>3, WriteKeeps
<1>6. CASE ~ opens
  <2> DEFINE dir == Flushed
  <2>1. files' = dir /\ journal_fp' = NoFile
    BY <1>1, <1>6 DEF Reopen
  <2> HIDE DEF dir
  <2> QED
    BY <1>2, <1>3, <1>4, <2>1, WriteKeeps DEF dir
<1> QED
  BY <1>5, <1>6

\* A restart opens the present window's file, which the job does not have.
LEMMA RestartKeeps ==
  ASSUME JournalIInv, Restart, ForcedRotationsFit PROVE FilesAfter
<1> DEFINE dir == Opened(files, time_slot(clock))
<1>1. /\ DirOK(dir)
      /\ DOMAIN dir = DOMAIN files \union {time_slot(clock)}
      /\ \A s \in DOMAIN files : dir[s] = files[s]
      /\ IdsIn(dir) = IdsIn(files)
  BY OpenedDirectory, RotationSlot DEF JournalIInv, ClockInv, FileInv, ForcedRotationsFit
<1>2. files' = dir /\ journal_fp' = time_slot(clock) /\ linked'
      /\ UNCHANGED <<flushVars, clock, durable>>
  BY DEF Restart, logVars
<1> HIDE DEF dir
<1>3. Ids(buffer) = {}
  BY NoIds DEF JournalIInv, ClockInv, Restart, Off
<1> QED
  BY <1>1, <1>2, <1>3, WriteKeeps

\* Sealed files stay sealed.
LEMMA AdvanceKeeps ==
  ASSUME JournalIInv, Advance, ForcedRotationsFit PROVE FilesAfter
<1>1. UNCHANGED <<durable, files, archive, closed_bins, flush_pc, journal_fp, linked>>
      /\ clock' = clock + 1
  BY DEF Advance, fileVars, flushVars, logVars
<1>2. FileInv'
  <2>1. \A s \in closed_bins : Sealed(s)'
    BY <1>1, TimingAssumption DEF JournalIInv, FileInv, DirOK, ClockInv, Sealed
  <2> QED
    BY <1>1, <2>1 DEF JournalIInv, FileInv, DirOK
<1>3. LossInv'
  BY <1>1 DEF JournalIInv, LossInv, IdsIn
<1> QED
  BY <1>1, <1>2, <1>3 DEF FilesAfter, LogStep, OnDisk

LEMMA JobKeeps ==
  ASSUME JournalIInv, HourlyFlush, ForcedRotationsFit PROVE FilesAfter
<1> USE DEF JournalIInv
<1>0. UNCHANGED <<durable, journal_fp, clock>>
  BY DEF HourlyFlush, FlushFinds, FlushUploads, FlushDeletes, fileVars, logVars
<1>1. CASE FlushFinds
  <2>1. UNCHANGED <<files, linked, archive>> /\ flush_pc' = "convert"
        /\ closed_bins' = {s \in DOMAIN files : Sealed(s)}
    BY <1>1 DEF FlushFinds, fileVars
  <2>2. FileInv'
    BY <1>0, <2>1 DEF FileInv, DirOK, Sealed
  <2>3. LossInv'
    BY <1>0, <2>1 DEF LossInv, IdsIn
  <2> QED
    BY <1>0, <2>1, <2>2, <2>3 DEF FilesAfter, LogStep, OnDisk
<1>2. CASE FlushUploads
  <2>1. UNCHANGED <<files, linked>>
    BY <1>2 DEF FlushUploads, fileVars
  <2>2. PICK converted \in SUBSET closed_bins :
          /\ archive' = archive \union UNION {Ids(files[s].ticks) : s \in converted}
          /\ closed_bins' = converted
    BY <1>2 DEF FlushUploads
  <2>3. \A s \in converted : Ids(files[s].ticks) \subseteq archive'
    BY <2>2
  <2>4. FileInv'
    BY <1>0, <2>1, <2>2, <2>3 DEF FileInv, DirOK, Sealed
  <2>5. LossInv'
    BY <1>0, <2>1, <2>2 DEF LossInv, IdsIn
  <2>6. Log!Upload
    BY <1>0, <2>1, <2>2 DEF Log!Upload, OnDisk, FileInv
  <2> QED
    BY <2>4, <2>5, <2>6 DEF FilesAfter, LogStep, Log!Next
<1>3. CASE FlushDeletes
  <2>1. /\ UNCHANGED archive /\ flush_pc = "delete"
        /\ files' = [s \in DOMAIN files \ closed_bins |-> files[s]]
        /\ linked' = (linked /\ journal_fp \notin closed_bins)
        /\ closed_bins' = {}
    BY <1>3 DEF FlushDeletes
  <2>2. DirOK(files')
    BY <2>1 DEF FileInv, DirOK
  <2>3. FileInv'
    BY <1>0, <2>1, <2>2, OpenIsNotClosed DEF FileInv, DirOK
  <2>4. IdsIn(files') \subseteq IdsIn(files)
    BY <2>1 DEF IdsIn
  <2>5. IdsIn(files) \subseteq IdsIn(files') \union archive
    BY <2>1 DEF IdsIn, FileInv
  <2>6. LossInv'
    BY <1>0, <2>1, <2>4, <2>5 DEF LossInv, IdsIn
  <2>7. Log!Delete
    BY <1>0, <2>1, <2>4, <2>5 DEF Log!Delete, OnDisk, IdsIn
  <2> QED
    BY <2>3, <2>6, <2>7 DEF FilesAfter, LogStep, Log!Next
<1> QED
  BY <1>1, <1>2, <1>3 DEF HourlyFlush

LEMMA StepKeepsFiles ==
  ASSUME JournalIInv, [Next]_vars, ForcedRotationsFit PROVE FilesAfter
BY FileStepKinds, FilesStayKeeps, FlushKeeps, RotateKeeps, RestartKeeps, AdvanceKeeps,
   JobKeeps DEF HourlyFlush

-----------------------------------------------------------------------------
(* The clock *)

LEMMA StepKeepsClockInv ==
  ASSUME JournalIInv, [Next]_vars, ForcedRotationsFit PROVE ClockInv'
<1> USE DEF JournalIInv, ForcedRotationsFit
<1>1. ASSUME UNCHANGED <<clock, last_maintenance, force_rotate, journal_fp, current_slot>>,
             budget'.forced = budget.forced,
             buffer' \in Seq(Tick), journal_fp = NoFile => buffer' = << >>,
             pc' \in Off <=> pc \in Off
      PROVE  ClockInv'
  BY <1>1 DEF ClockInv, Pending
<1>2. CASE \/ LoopTop \/ LoopEnds \/ ConsumeEmpty \/ NoMaintenance
           \/ ApplyStep \/ StoreStep \/ CountStep
  <2>1. UNCHANGED <<clock, last_maintenance, force_rotate, journal_fp, current_slot, buffer,
                    budget>>
        /\ pc' \notin Off /\ pc \notin Off
    BY <1>2
       DEF LoopTop, LoopEnds, ConsumeEmpty, NoMaintenance, ApplyStep, Apply, StoreStep,
           Store, CountStep, Count, fileVars, Off
  <2> QED
    BY <1>1, <2>1 DEF ClockInv
<1>3. CASE Consume \/ Drain
  <2>1. UNCHANGED <<clock, last_maintenance, force_rotate, journal_fp, current_slot, budget>>
        /\ pc' \notin Off /\ pc \notin Off
    BY <1>3 DEF Consume, Drain, ConsumeAndWrite, Off
  <2>2. \/ UNCHANGED buffer
        \/ ring # << >> /\ journal_fp # NoFile /\ buffer' = Append(buffer, Head(ring))
    BY <1>3 DEF Consume, Drain, ConsumeAndWrite
  <2>3. ring # << >> => Head(ring) \in Tick
    BY DEF CountInv
  <2>4. buffer' \in Seq(Tick) /\ (journal_fp = NoFile => buffer' = << >>)
    <3>1. buffer \in Seq(Tick) /\ (journal_fp = NoFile => buffer = << >>)
      BY DEF ClockInv
    <3> QED
      BY <2>2, <2>3, <3>1
  <2> QED
    BY <1>1, <2>1, <2>4
<1>4. CASE BufferSpills \/ DrainEnds
  <2>1. UNCHANGED <<clock, last_maintenance, force_rotate, journal_fp, current_slot, budget>>
        /\ pc' \notin Off /\ pc \notin Off /\ buffer' = << >>
    BY <1>4 DEF BufferSpills, DrainEnds, FlushBuffer, InLoop, runVars, Off
  <2> QED
    BY <1>1, <2>1, NoIds
<1>5. CASE TickArrives \/ FeedStops \/ Stop \/ Terminated \/ Read \/ HourlyFlush
           \/ UNCHANGED vars
  <2>1. UNCHANGED <<clock, last_maintenance, force_rotate, journal_fp, current_slot, buffer, pc>>
    BY <1>5
       DEF TickArrives, FeedStops, Stop, Terminated, Read, ReadCount, FindIndex, Load,
           HourlyFlush, FlushFinds, FlushUploads, FlushDeletes, vars, fileVars, runVars
  <2>2. budget'.forced = budget.forced
    BY <1>5
       DEF TickArrives, FeedStops, Stop, Terminated, Read, ReadCount, FindIndex, Load,
           HourlyFlush, FlushFinds, FlushUploads, FlushDeletes, vars, CountInv
  <2> QED
    BY <1>1, <2>1, <2>2 DEF ClockInv
<1>6. CASE Maintain
  <2>1. /\ last_maintenance' = clock /\ clock' = clock /\ force_rotate' = force_rotate
        /\ pc' = "top" /\ pc = "maintain"
    BY <1>6 DEF Maintain
  <2>2. /\ clock \in Nat /\ time_slot(clock) \in Nat /\ Pending' = Pending
        /\ Pending <= budget.forced /\ budget.forced <= MaxForced /\ budget.forced \in Nat
        /\ Pending \in Nat
    BY <2>1, TimeSlots DEF ClockInv, CountInv, Pending
  <2>3. CASE RotationDue
    <3>1. PICK opens \in BOOLEAN : Reopen(time_slot(clock), opens)
      BY <1>6, <2>3 DEF Maintain
    <3>2. /\ current_slot' = time_slot(clock) /\ buffer' = << >>
          /\ journal_fp' \in {NoFile, time_slot(clock)}
      BY <3>1 DEF Reopen
    <3>3. budget'.forced = budget.forced
      BY <3>1 DEF Reopen, CountInv
    <3>4. time_slot(last_maintenance)' = time_slot(clock)
      BY <2>1
    <3> QED
      BY <2>1, <2>2, <3>2, <3>3, <3>4, NoIds DEF ClockInv, Off
  <2>4. CASE ~ RotationDue
    <3>1. UNCHANGED <<journal_fp, current_slot, budget>> /\ buffer' = << >>
      BY <1>6, <2>4 DEF Maintain, FlushBuffer
    <3>2. current_slot = time_slot(clock)
      BY <2>4 DEF RotationDue
    <3>3. time_slot(last_maintenance)' = time_slot(clock)
      BY <2>1
    <3>4. journal_fp \in {NoFile, current_slot}
      BY <2>1 DEF ClockInv, Off
    <3> QED
      BY <2>1, <2>2, <3>1, <3>2, <3>3, <3>4, NoIds, NoFileAssumption DEF ClockInv, Off
  <2> QED
    BY <2>3, <2>4
<1>7. CASE ForcedRotation
  <2>1. /\ UNCHANGED <<clock, last_maintenance>>
        /\ force_rotate /\ ~ force_rotate' /\ pc = "top" /\ pc' = "consume"
    BY <1>7 DEF ForcedRotation
  <2>2. PICK opens \in BOOLEAN : Reopen(current_slot + 1, opens)
    BY <1>7 DEF ForcedRotation
  <2>3. /\ current_slot' = current_slot + 1 /\ buffer' = << >>
        /\ journal_fp' \in {NoFile, current_slot + 1}
        /\ budget'.forced = budget.forced
    BY <2>2 DEF Reopen, CountInv
  <2>4. Pending = 1 /\ Pending' = 0
    BY <2>1 DEF Pending
  <2>5. /\ current_slot \in Nat /\ time_slot(last_maintenance) \in Nat
        /\ budget.forced \in Nat /\ time_slot(last_maintenance)' = time_slot(last_maintenance)
        /\ time_slot(last_maintenance) <= current_slot
        /\ current_slot + 1 <= time_slot(last_maintenance) + budget.forced
    BY <2>1, <2>4, TimeSlots DEF ClockInv, CountInv, Off
  <2> QED
    BY <2>1, <2>3, <2>4, <2>5, NoIds DEF ClockInv, Off
<1>8. CASE ForceRotate
  <2>1. /\ UNCHANGED <<clock, last_maintenance, journal_fp, current_slot, buffer, pc>>
        /\ force_rotate'
        /\ budget.forced < MaxForced /\ budget'.forced = budget.forced + 1
    BY <1>8 DEF ForceRotate, fileVars, CountInv
  <2>2. Pending' = 1 /\ Pending \in {0, 1} /\ budget.forced \in Nat
    BY <2>1 DEF Pending, CountInv
  <2>3. /\ time_slot(last_maintenance)' = time_slot(last_maintenance)
        /\ time_slot(last_maintenance) \in Nat
    BY <2>1, TimeSlots DEF ClockInv
  <2> QED
    BY <2>1, <2>2, <2>3 DEF ClockInv
<1>9. CASE Destroy \/ Crash
  <2>1. /\ UNCHANGED <<clock, last_maintenance>> /\ (force_rotate' => force_rotate)
        /\ journal_fp' = NoFile /\ buffer' = << >> /\ pc' \in Off
        /\ budget'.forced = budget.forced /\ budget.forced \in Nat
    BY <1>9 DEF Destroy, Crash, Off, CountInv
  <2>2. Pending' <= budget.forced
    BY <2>1 DEF Pending, ClockInv
  <2> QED
    BY <2>1, <2>2, NoIds DEF ClockInv
<1>10. CASE Restart
  <2>1. buffer = << >>
    BY <1>10 DEF Restart, ClockInv, Off
  <2>2. /\ last_maintenance' = clock /\ clock' = clock /\ buffer' = buffer
        /\ current_slot' = time_slot(clock) /\ journal_fp' = time_slot(clock)
        /\ UNCHANGED <<budget, force_rotate>> /\ pc' = "top"
    BY <1>10 DEF Restart
  <2>3. /\ clock \in Nat /\ time_slot(clock) \in Nat
        /\ time_slot(last_maintenance)' = time_slot(clock)
        /\ Pending' = Pending /\ Pending \in Nat /\ budget.forced \in Nat
    BY <2>2, TimeSlots DEF ClockInv, Pending, CountInv
  <2> QED
    BY <2>1, <2>2, <2>3, NoIds DEF ClockInv, Off
<1>11. CASE Advance
  <2>1. /\ clock' = clock + 1
        /\ UNCHANGED <<last_maintenance, force_rotate, journal_fp, current_slot, buffer, pc,
                       budget>>
        /\ pc \notin Off => last_maintenance = clock
    BY <1>11 DEF Advance, Off, runVars, fileVars
  <2> QED
    BY <2>1 DEF ClockInv, Pending
<1> QED
  BY <1>2, <1>3, <1>4, <1>5, <1>6, <1>7, <1>8, <1>9, <1>10, <1>11
     DEF Next, HotLoop, DrainLoop, ApplyStep, StoreStep, CountStep

-----------------------------------------------------------------------------
(* The end of the loop *)

LEMMA StepKeepsStopInv ==
  ASSUME CountInv, StopInv, [Next]_vars PROVE StopInv'
<1> USE DEF StopInv, CountInv, Uncounted, Others
<1>1. CASE HotLoop
  BY <1>1
     DEF HotLoop, LoopTop, ForcedRotation, LoopEnds, Consume, ConsumeAndWrite,
         ConsumeEmpty, Apply, Store, Count, NoMaintenance, Maintain
<1>2. CASE DrainLoop
  BY <1>2 DEF DrainLoop, Drain, ConsumeAndWrite, DrainEnds, Apply, Store, Count
<1>3. CASE BufferSpills \/ FeedStops \/ Stop \/ Destroy \/ ForceRotate \/ Crash \/ Restart
           \/ Terminated \/ UNCHANGED vars
  BY <1>3
     DEF BufferSpills, FeedStops, Stop, Destroy, ForceRotate, Crash, Restart, Terminated,
         vars, runVars, Alive
<1>4. CASE Advance \/ HourlyFlush \/ Read
  BY <1>4
     DEF Advance, HourlyFlush, FlushFinds, FlushUploads, FlushDeletes, Read, ReadCount,
         FindIndex, Load, runVars
<1>5. CASE TickArrives
  BY <1>5 DEF TickArrives, Alive, runVars
<1> QED
  BY <1>1, <1>2, <1>3, <1>4, <1>5 DEF Next

-----------------------------------------------------------------------------
(* Where each tick is *)

\* A step that keeps where the ticks are, but for a buffer that goes to disk.
LEMMA NothingTakenKeeps ==
  ASSUME JournalIInv,
         UNCHANGED <<journaled, ring, consumed>>,
         budget'.ticks = budget.ticks,
         \/ UNCHANGED <<buffer, durable, last_maintenance>>
         \/ buffer' = << >> /\ durable' = durable \union Ids(buffer),
         budget'.failures = 0 => /\ budget.failures = 0
                                 /\ pc' \notin Off => journal_fp' # NoFile
  PROVE  JournaledInv'
BY NoIds DEF JournalIInv, JournaledInv

\* The tick that is taken is new to the journal.
LEMMA TakenKeeps ==
  ASSUME JournalIInv, Consume \/ Drain
  PROVE  JournaledInv'
<1> DEFINE t == Head(ring)
<1> USE DEF JournalIInv
<1>1. /\ ring # << >>
      /\ ring' = Tail(ring)
      /\ consumed' = Append(consumed, t)
      /\ UNCHANGED <<durable, budget, last_maintenance, clock, journal_fp>>
      /\ pc \notin Off /\ pc' \notin Off
      /\ IF journal_fp = NoFile
           THEN UNCHANGED <<buffer, journaled>>
           ELSE buffer' = Append(buffer, t) /\ journaled' = With(journaled, t.id, clock)
  BY DEF Consume, Drain, ConsumeAndWrite, Off
<1>2. /\ t \in Tick /\ t.id \in Nat
      /\ 1 \in DOMAIN ring /\ t = ring[1]
      /\ \A i \in DOMAIN ring' : i + 1 \in DOMAIN ring /\ i + 1 # 1 /\ ring'[i] = ring[i + 1]
      /\ \A i, j \in DOMAIN ring' : i + 1 = j + 1 => i = j
  <2>1. ring \in Seq(Tick) /\ Len(ring) \in Nat \ {0}
    BY <1>1 DEF CountInv
  <2>2. t \in Tick /\ t.id \in Nat /\ 1 \in DOMAIN ring /\ t = ring[1]
    <3>1. 1 \in DOMAIN ring /\ t = ring[1] /\ ring[1] \in Tick
      BY <2>1
    <3>2. \A u \in Tick : u.id \in Nat
      BY DEF Tick
    <3> QED
      BY <3>1, <3>2
  <2>3. ASSUME NEW i \in DOMAIN Tail(ring)
        PROVE  i + 1 \in DOMAIN ring /\ i + 1 # 1 /\ Tail(ring)[i] = ring[i + 1]
    BY <2>1
  <2>4. ASSUME NEW i \in DOMAIN Tail(ring), NEW j \in DOMAIN Tail(ring), i + 1 = j + 1
        PROVE  i = j
    BY <2>1, <2>4
  <2> QED
    BY <1>1, <2>2, <2>3, <2>4
<1>3. /\ t.id \notin DOMAIN journaled /\ t.id <= budget.ticks
      /\ \A i \in DOMAIN ring' : /\ ring'[i].id \notin DOMAIN journaled
                                 /\ ring'[i].id # t.id
                                 /\ ring'[i].id <= budget.ticks
      /\ \A i, j \in DOMAIN ring' : ring'[i].id = ring'[j].id => i = j
  <2>1. \A i, j \in DOMAIN ring : ring[i].id = ring[j].id => i = j
    BY DEF JournaledInv
  <2>2. \A i \in DOMAIN ring : ring[i].id \notin DOMAIN journaled /\ ring[i].id <= budget.ticks
    BY DEF JournaledInv
  <2> HIDE DEF JournalIInv, t
  <2> QED
    BY <1>2, <2>1, <2>2
<1>4. Ids(consumed') = Ids(consumed) \union {t.id}
  BY <1>1, <1>2, IdsOfAppend DEF CountInv
<1>5. CASE journal_fp = NoFile
  <2>1. UNCHANGED <<buffer, journaled>>
    BY <1>1, <1>5
  <2>2. budget.failures # 0
    BY <1>1, <1>5 DEF JournaledInv
  <2> QED
    BY <1>1, <1>3, <1>4, <2>1, <2>2 DEF JournaledInv
<1>6. CASE journal_fp # NoFile
  <2>1. /\ Ids(buffer') = Ids(buffer) \union {t.id}
        /\ DOMAIN journaled' = DOMAIN journaled \union {t.id}
        /\ journaled'[t.id] = clock
        /\ \A id \in DOMAIN journaled : journaled'[id] = journaled[id]
    BY <1>1, <1>2, <1>3, <1>6, IdsOfAppend DEF ClockInv, With
  <2>2. clock \in Nat /\ last_maintenance <= clock
    BY DEF ClockInv
  <2> HIDE DEF t
  <2>3. /\ \A id \in DOMAIN journaled' : journaled'[id] \in Nat
        /\ \A id \in DOMAIN journaled' : id \in Nat /\ id <= budget.ticks
        /\ \A id \in Ids(buffer') :
             id \in DOMAIN journaled' /\ last_maintenance <= journaled'[id]
    BY <1>2, <1>3, <2>1, <2>2 DEF JournaledInv
  <2>4. \A i \in DOMAIN ring' : ring'[i].id \notin DOMAIN journaled'
    BY <1>3, <2>1
  <2>5. /\ Ids(consumed') \intersect DOMAIN journaled' \subseteq durable \union Ids(buffer')
        /\ budget.failures = 0 => Ids(consumed') \subseteq DOMAIN journaled'
    BY <1>4, <2>1 DEF JournaledInv
  <2> QED
    BY <1>1, <1>3, <1>6, <2>3, <2>4, <2>5 DEF JournaledInv
<1> QED
  BY <1>5, <1>6

\* A tick that arrives is new.
LEMMA ArrivedKeeps ==
  ASSUME JournalIInv, TickArrives
  PROVE  JournaledInv'
<1> USE DEF JournalIInv
<1>1. /\ UNCHANGED <<journaled, consumed, buffer, durable, last_maintenance, journal_fp, pc>>
      /\ budget' = [budget EXCEPT !.ticks = @ + 1]
      /\ \/ UNCHANGED ring
         \/ \E t : t.id = budget.ticks + 1 /\ t \in Tick /\ ring' = Append(ring, t)
  <2>1. \A kind \in Kinds :
          [id |-> budget.ticks + 1, token |-> kind.token, side |-> kind.side,
           event_type |-> kind.event_type] \in Tick
    BY KindsAssumption DEF Tick, CountInv
  <2> QED
    BY <2>1 DEF TickArrives, runVars, fileVars, logVars
<1>2. /\ budget'.ticks = budget.ticks + 1 /\ budget'.failures = budget.failures
      /\ budget.ticks \in Nat
  BY <1>1 DEF CountInv
<1>3. \A i \in DOMAIN ring : ring[i].id \in Nat
  <2>1. \A i \in DOMAIN ring : ring[i] \in Tick
    BY DEF CountInv
  <2> QED
    BY <2>1 DEF Tick
<1>4. /\ \A i \in DOMAIN ring' : ring'[i].id \notin DOMAIN journaled
                               /\ ring'[i].id <= budget.ticks + 1
      /\ \A i, j \in DOMAIN ring' : ring'[i].id = ring'[j].id => i = j
  <2>1. CASE UNCHANGED ring
    BY <1>2, <1>3, <2>1 DEF JournaledInv
  <2>2. ASSUME NEW t \in Tick, t.id = budget.ticks + 1, ring' = Append(ring, t)
        PROVE  /\ \A i \in DOMAIN ring' : ring'[i].id \notin DOMAIN journaled
                                   /\ ring'[i].id <= budget.ticks + 1
               /\ \A i, j \in DOMAIN ring' : ring'[i].id = ring'[j].id => i = j
    <3>1. /\ DOMAIN ring' = DOMAIN ring \union {Len(ring) + 1}
          /\ \A i \in DOMAIN ring : ring'[i] = ring[i] /\ i # Len(ring) + 1
          /\ ring'[Len(ring) + 1] = t
      BY <2>2 DEF CountInv
    <3>2. \A i \in DOMAIN ring : ring[i].id # t.id
      BY <1>2, <1>3, <2>2 DEF JournaledInv
    <3>3. t.id \notin DOMAIN journaled
      BY <1>2, <2>2 DEF JournaledInv
    <3> QED
      BY <1>2, <1>3, <2>2, <3>1, <3>2, <3>3 DEF JournaledInv
  <2> QED
    BY <1>1, <2>1, <2>2
<1> QED
  BY <1>1, <1>2, <1>4 DEF JournaledInv

LEMMA StepKeepsJournaledInv ==
  ASSUME JournalIInv, [Next]_vars, ForcedRotationsFit PROVE JournaledInv'
<1> USE DEF JournalIInv
<1>1. budget.failures = 0 /\ pc \notin Off => journal_fp # NoFile
  BY DEF JournaledInv
<1>2. CASE \/ LoopTop \/ LoopEnds \/ ConsumeEmpty \/ NoMaintenance
           \/ ApplyStep \/ StoreStep \/ CountStep
  <2>1. /\ UNCHANGED <<journaled, ring, consumed, budget, buffer, durable,
                        last_maintenance, journal_fp>>
        /\ pc \notin Off
    BY <1>2
       DEF LoopTop, LoopEnds, ConsumeEmpty, NoMaintenance, ApplyStep, Apply, StoreStep,
           Store, CountStep, Count, fileVars, logVars, Off
  <2> QED
    BY <1>1, <2>1, NothingTakenKeeps
<1>3. CASE FeedStops \/ Stop \/ Terminated \/ Read \/ HourlyFlush \/ Advance \/ UNCHANGED vars
  <2>1. UNCHANGED <<journaled, ring, consumed, budget, buffer, durable, last_maintenance,
                    journal_fp, pc>>
    BY <1>3
       DEF FeedStops, Stop, Terminated, Read, ReadCount, FindIndex, Load, HourlyFlush,
           FlushFinds, FlushUploads, FlushDeletes, Advance, vars, fileVars, runVars, logVars
  <2> QED
    BY <1>1, <2>1, NothingTakenKeeps
<1>4. CASE BufferSpills \/ DrainEnds
  <2>1. /\ UNCHANGED <<journaled, ring, consumed, budget, journal_fp>>
        /\ pc \notin Off /\ buffer' = << >> /\ durable' = durable \union Ids(buffer)
    BY <1>4 DEF BufferSpills, DrainEnds, FlushBuffer, InLoop, runVars, Off
  <2> QED
    BY <1>1, <2>1, NothingTakenKeeps
<1>5. ASSUME NEW slot \in Nat, NEW opens \in BOOLEAN, Reopen(slot, opens),
             UNCHANGED <<journaled, ring, consumed>>, pc \notin Off
      PROVE  JournaledInv'
  <2>1. buffer' = << >> /\ durable' = durable \union Ids(buffer)
    BY <1>5 DEF Reopen
  <2>2. CASE opens
    <3>1. journal_fp' = slot /\ UNCHANGED budget
      BY <1>5, <2>2 DEF Reopen
    <3>2. journal_fp' # NoFile
      BY <3>1, NoFileAssumption
    <3> QED
      BY <1>1, <1>5, <2>1, <3>1, <3>2, NothingTakenKeeps
  <2>3. CASE ~ opens
    <3>1. budget' = [budget EXCEPT !.failures = @ + 1]
      BY <1>5, <2>3 DEF Reopen
    <3>2. budget'.ticks = budget.ticks /\ budget'.failures # 0
      BY <3>1 DEF CountInv
    <3> QED
      BY <1>5, <2>1, <3>2, NothingTakenKeeps
  <2> QED
    BY <2>2, <2>3
<1>6. CASE Maintain
  <2>1. UNCHANGED <<journaled, ring, consumed>> /\ pc \notin Off
    BY <1>6 DEF Maintain, Off
  <2>2. CASE RotationDue
    BY <1>5, <1>6, <2>1, <2>2, RotationSlot DEF Maintain
  <2>3. CASE ~ RotationDue
    <3>1. /\ UNCHANGED <<budget, journal_fp>>
          /\ buffer' = << >> /\ durable' = durable \union Ids(buffer)
      BY <1>6, <2>3 DEF Maintain, FlushBuffer
    <3> QED
      BY <1>1, <2>1, <3>1, NothingTakenKeeps
  <2> QED
    BY <2>2, <2>3
<1>7. CASE ForcedRotation
  <2>1. UNCHANGED <<journaled, ring, consumed>> /\ pc \notin Off /\ force_rotate
    BY <1>7 DEF ForcedRotation, Off
  <2> QED
    BY <1>5, <1>7, <2>1, RotationSlot DEF ForcedRotation
<1>8. CASE ForceRotate
  <2>1. /\ UNCHANGED <<journaled, ring, consumed, buffer, durable, last_maintenance,
                        journal_fp, pc>>
        /\ budget'.ticks = budget.ticks /\ budget'.failures = budget.failures
    BY <1>8 DEF ForceRotate, fileVars, logVars, CountInv
  <2> QED
    BY <1>1, <2>1, NothingTakenKeeps
<1>9. CASE Destroy
  <2>1. /\ UNCHANGED <<journaled, ring, consumed, budget>>
        /\ pc' \in Off /\ buffer' = << >> /\ durable' = durable \union Ids(buffer)
    BY <1>9 DEF Destroy, Off
  <2> QED
    BY <2>1, NothingTakenKeeps
<1>10. CASE Restart
  <2>1. UNCHANGED <<journaled, ring, consumed, budget, buffer, durable>>
        /\ journal_fp' = time_slot(clock) /\ pc = "down"
    BY <1>10 DEF Restart, logVars
  <2>2. journal_fp' # NoFile
    BY <2>1, TimeSlots, NoFileAssumption DEF ClockInv
  <2>3. buffer = << >> /\ Ids(buffer) = {}
    BY <2>1, NoIds DEF ClockInv, Off
  <2> QED
    BY <2>1, <2>2, <2>3, NothingTakenKeeps
<1>11. CASE Crash
  <2>1. /\ UNCHANGED <<journaled, durable>>
        /\ ring' = << >> /\ consumed' = << >> /\ buffer' = << >> /\ pc' \in Off
        /\ budget'.ticks = budget.ticks
    BY <1>11 DEF Crash, Off, CountInv
  <2> QED
    BY <2>1, NoIds DEF JournaledInv
<1> QED
  BY <1>2, <1>3, <1>4, <1>6, <1>7, <1>8, <1>9, <1>10, <1>11, TakenKeeps, ArrivedKeeps
     DEF Next, HotLoop, DrainLoop, ApplyStep, StoreStep, CountStep

-----------------------------------------------------------------------------
LEMMA InitEstablishesJournalIInv == Init => JournalIInv /\ Log!Init
<1> SUFFICES ASSUME Init PROVE JournalIInv /\ Log!Init
  OBVIOUS
<1>1. CountInv
  BY InitEstablishesCountInv
<1>2. time_slot(0) = 0
  BY TimingAssumption DEF time_slot
<1>3. ClockInv
  BY <1>2, NoIds DEF Init, ClockInv, Off
<1>4. IdsIn(files) = {}
  BY NoIds DEF Init, IdsIn
<1>5. FileInv
  BY <1>2, NoIds DEF Init, FileInv, DirOK
<1>6. LossInv
  BY <1>4 DEF Init, LossInv
<1>7. JournaledInv
  BY NoIds, NoFileAssumption DEF Init, JournaledInv
<1>8. StopInv
  BY DEF Init, StopInv
<1>9. Log!Init
  BY <1>4 DEF Init, Log!Init, OnDisk, IdsIn
<1> QED
  BY <1>1, <1>3, <1>5, <1>6, <1>7, <1>8, <1>9 DEF JournalIInv

LEMMA JournalIInvHolds ==
  ASSUME ForcedRotationsFit PROVE Spec => []JournalIInv
<1>1. Init => JournalIInv
  BY InitEstablishesJournalIInv
<1>2. JournalIInv /\ [Next]_vars => JournalIInv'
  BY StepKeepsCountInv, StepKeepsClockInv, StepKeepsFiles, StepKeepsJournaledInv,
     StepKeepsStopInv DEF JournalIInv, FilesAfter
<1> QED
  BY <1>1, <1>2, PTL DEF Spec

\* hourly_flush.sh never has the file that the tickerplant writes to: the guarantee
\* of hourly_flush.sh:12-13, for every rotation interval below MinAge.
THEOREM OpenSegmentIsSafe ==
  ASSUME ForcedRotationsFit PROVE Spec => []OpenSegmentIsNotSealed
<1>1. JournalIInv => OpenSegmentIsNotSealed
  BY OpenIsNotClosed DEF JournalIInv, FileInv, OpenSegmentIsNotSealed
<1> QED
  BY <1>1, JournalIInvHolds, PTL

\* A tick that a flush has put on disk is in a journal file or uploaded, at
\* every later moment, across rotations, deletions, crashes and restarts.
FlushedTicksSurvive == durable \subseteq OnDisk \union archive

\* No flushed tick is ever lost.
THEOREM FlushedTicksAreKept ==
  ASSUME ForcedRotationsFit PROVE Spec => []FlushedTicksSurvive
<1>1. JournalIInv => FlushedTicksSurvive
  BY DEF JournalIInv, LossInv, FlushedTicksSurvive, OnDisk, IdsIn
<1> QED
  BY <1>1, JournalIInvHolds, PTL

\* A crash loses the ticks of two clock values at most (Tickerplant.cpp:234-260).
THEOREM BufferIsRecent ==
  ASSUME ForcedRotationsFit PROVE Spec => []BufferedOnePeriodAtMost
<1>1. JournalIInv => BufferedOnePeriodAtMost
  <2>1. SUFFICES ASSUME JournalIInv, NEW id \in Ids(buffer)
                 PROVE  clock <= journaled[id] + 1
    BY DEF BufferedOnePeriodAtMost
  <2>2. pc \notin Off
    BY <2>1, NoIds DEF JournalIInv, ClockInv
  <2>3. /\ clock \in Nat /\ last_maintenance \in Nat /\ clock <= last_maintenance + 1
        /\ journaled[id] \in Nat /\ last_maintenance <= journaled[id]
    BY <2>1, <2>2 DEF JournalIInv, ClockInv, JournaledInv
  <2> QED
    BY <2>3
<1> QED
  BY <1>1, JournalIInvHolds, PTL

\* A clean end loses nothing that was accepted (Tickerplant.cpp:265-286).
THEOREM ShutdownIsClean ==
  ASSUME ForcedRotationsFit PROVE Spec => []ShutdownLosesNothing
<1>1. JournalIInv => ShutdownLosesNothing
  <2>1. SUFFICES ASSUME JournalIInv, pc = "closed" PROVE ShutdownLosesNothing
    BY DEF ShutdownLosesNothing
  <2>2. Ids(buffer) = {}
    BY <2>1, NoIds DEF JournalIInv, ClockInv, Off
  <2>3. Ids(consumed) \intersect DOMAIN journaled \subseteq OnDisk \union archive
    BY <2>1, <2>2 DEF JournalIInv, JournaledInv, LossInv, OnDisk, IdsIn
  <2>4. ring = << >> /\ ticks_written = Len(consumed)
    BY <2>1 DEF JournalIInv, StopInv, CountInv, Others
  <2>5. budget.failures = 0 => Ids(consumed) \subseteq DOMAIN journaled
    BY <2>1 DEF JournalIInv, JournaledInv
  <2> QED
    BY <2>3, <2>4, <2>5 DEF ShutdownLosesNothing
<1> QED
  BY <1>1, JournalIInvHolds, PTL

\* The tickerplant and the cron job implement the durable log.
THEOREM JournalImplementsLog ==
  ASSUME ForcedRotationsFit PROVE Spec => ImplementsLog
<1>1. Init => Log!Init
  BY InitEstablishesJournalIInv
<1>2. JournalIInv /\ [Next]_vars => [Log!Next]_<<durable, OnDisk, archive>>
  BY StepKeepsFiles DEF FilesAfter, LogStep
<1> QED
  BY <1>1, <1>2, JournalIInvHolds, PTL
     DEF Spec, ImplementsLog, Log!Spec, Log!logVars

-----------------------------------------------------------------------------
(* The way to the end *)

\* What the order of main() keeps: no tick arrives after stop().
LEMMA StopInvHolds == Spec => [](CountInv /\ BookInv /\ StopInv)
<1>1. Init => StopInv
  BY DEF Init, StopInv
<1>2. CountInv /\ StopInv /\ [Next]_vars => StopInv'
  BY StepKeepsStopInv
<1>3. BookIInv => CountInv /\ BookInv
  BY DEF BookIInv
<1> QED
  BY <1>1, <1>2, <1>3, BookIInvHolds, PTL DEF Spec

\* Where the thread can be after stop(), and what StepsToClose is there.
LEMMA StepsToCloseType ==
  ASSUME CountInv, StopInv, Alive
  PROVE  StepsToClose \in Nat
<1>1. Len(ring) \in Nat
  BY DEF CountInv
<1> QED
  BY <1>1 DEF StepsToClose, CountInv, Uncounted, Others, Alive

\* Every step of the consumer thread is one of those that StepsToClose counts.
LEMMA ConsumerAdvances ==
  ASSUME CountInv, BookInv, StopInv, ~ running, Alive, pc' # "down",
         HotLoop \/ DrainLoop \/ Destroy
  PROVE  StepsToClose' < StepsToClose
<1>0. ring \in Seq(Tick) /\ Len(ring) \in Nat /\ to_store \subseteq Word
  BY DEF CountInv, BookInv
<1>1. CASE LoopTop \/ ForcedRotation
  BY <1>1 DEF LoopTop, ForcedRotation
<1>2. CASE LoopEnds
  BY <1>0, <1>2 DEF LoopEnds, StepsToClose
<1>3. CASE ConsumeEmpty
  BY <1>0, <1>3 DEF ConsumeEmpty, StepsToClose
<1>4. CASE NoMaintenance \/ Maintain
  BY <1>0, <1>4 DEF NoMaintenance, Maintain, StepsToClose
<1>5. CASE Consume \/ Drain
  <2>1. ring # << >> /\ ring' = Tail(ring)
    BY <1>5 DEF Consume, Drain, ConsumeAndWrite
  <2>2. Len(ring') + 1 = Len(ring) /\ Len(ring') \in Nat
    BY <1>0, <2>1
  <2> QED
    BY <1>5, <2>2 DEF Consume, Drain, ConsumeAndWrite, StepsToClose
<1>6. CASE Apply("apply", "store", "count")
  BY <1>0, <1>6 DEF Apply, StepsToClose
<1>7. CASE Apply("drain_apply", "drain_store", "drain_count")
  BY <1>0, <1>7 DEF Apply, StepsToClose
<1>8. ASSUME NEW word \in to_store, to_store' = to_store \ {word}
      PROVE  IF to_store = Word THEN to_store' # Word ELSE to_store' = {}
  BY <1>0, <1>8 DEF Word
<1>9. CASE Store("store", "count")
  BY <1>0, <1>8, <1>9 DEF Store, StepsToClose
<1>10. CASE Store("drain_store", "drain_count")
  BY <1>0, <1>8, <1>10 DEF Store, StepsToClose
<1>11. CASE Count("count", "maintain") \/ Count("drain_count", "drain")
  BY <1>0, <1>11 DEF Count, StepsToClose
<1>12. CASE DrainEnds
  BY <1>0, <1>12 DEF DrainEnds, StepsToClose
<1>13. CASE Destroy
  BY <1>0, <1>13 DEF Destroy, StepsToClose
<1> QED
  BY <1>1, <1>2, <1>3, <1>4, <1>5, <1>6, <1>7, <1>9, <1>10, <1>11, <1>12, <1>13
     DEF HotLoop, DrainLoop

\* The other threads leave it alone: the feed has ended.
LEMMA OthersDoNotDelay ==
  ASSUME CountInv, StopInv, [Next]_vars, ~ running, Alive, pc' # "down",
         ~ (HotLoop \/ DrainLoop \/ Destroy)
  PROVE  StepsToClose' = StepsToClose
<1>1. ~ TickArrives /\ ~ Restart /\ ~ Crash /\ ~ Stop
  BY DEF StopInv, TickArrives, Restart, Crash, Stop, Alive
<1>2. UNCHANGED <<pc, ring, to_store>>
  BY <1>1
     DEF Next, BufferSpills, FeedStops, ForceRotate, Advance, HourlyFlush, FlushFinds,
         FlushUploads, FlushDeletes, Read, ReadCount, FindIndex, Load, Terminated, vars,
         runVars, applyVars
<1> QED
  BY <1>2 DEF StepsToClose

\* After stop() the process is a bounded number of steps from its end, wherever
\* stop() has met the consumer thread, and no thread can move the end away
\* (Tickerplant.cpp:265-286, the order of main()).
THEOREM ShutdownIsBounded == Spec => ShutdownOnlyAdvances
<1>1. ASSUME CountInv, BookInv, StopInv, [Next]_vars, ~ running, Alive, pc' # "down"
      PROVE  /\ StepsToClose' <= StepsToClose
             /\ HotLoop \/ DrainLoop \/ Destroy => StepsToClose' < StepsToClose
  <2>1. StepsToClose \in Nat
    BY <1>1, StepsToCloseType
  <2>2. CASE HotLoop \/ DrainLoop \/ Destroy
    <3>1. StepsToClose' < StepsToClose
      BY <1>1, <2>2, ConsumerAdvances
    <3>2. StepsToClose' \in Nat
      <4>1. CountInv' /\ StopInv'
        BY <1>1, StepKeepsCountInv, StepKeepsStopInv
      <4>2. Alive'
        BY <1>1 DEF Alive
      <4>3. Len(ring') \in Nat
        BY <4>1 DEF CountInv
      <4> QED
        BY <4>1, <4>2, <4>3 DEF StepsToClose, CountInv, Uncounted, Others, Alive
    <3> QED
      BY <2>1, <3>1, <3>2
  <2>3. CASE ~ (HotLoop \/ DrainLoop \/ Destroy)
    BY <1>1, <2>1, <2>3, OthersDoNotDelay
  <2> QED
    BY <2>2, <2>3
<1>2. CountInv /\ BookInv /\ StopInv /\ [Next]_vars =>
        [~ running /\ Alive /\ pc' # "down" =>
           /\ StepsToClose' <= StepsToClose
           /\ HotLoop \/ DrainLoop \/ Destroy => StepsToClose' < StepsToClose]_vars
  BY <1>1
<1> QED
  BY <1>2, StopInvHolds, PTL DEF Spec, ShutdownOnlyAdvances
=============================================================================
