-------------------------- MODULE BtcJournalProofs --------------------------
(***************************************************************************)
(* What BtcJournal promises for every buffer size, rotation interval and   *)
(* number of ticks.                                                        *)
(*                                                                         *)
(* Two inductive invariants.  ObjectInv is about the journal object alone  *)
(* and needs no assumption: room in the buffer, ticks in their windows,    *)
(* losses accounted for.  IInv relates the object to what the cron job has *)
(* taken and shipped, and needs a feed that is never silent for longer     *)
(* than MinAge - Rotation: the open segment is safe, and so is every       *)
(* flushed tick.  Both rest on the same account of the methods of          *)
(* BtcJournal, field by field.                                             *)
(***************************************************************************)
EXTENDS BtcJournal, FiniteSetTheorems, TLAPS

TickRecord == [id : Nat, ts : Nat, segment : Nat \union {NoFile}]

\* Partial functions from times to S.
Maps(S) == UNION {[D -> S] : D \in SUBSET Nat}

\* A journal object as the functions of BtcJournal take and return it.
JournalType ==
  [file_ : Nat \union {NoFile}, segment_start_ms_ : Nat, buf_ : Seq(TickRecord),
   files : Maps(Segment), linked : BOOLEAN,
   flushed : SUBSET Nat, dropped : SUBSET Nat]

\* The job may only have taken segments whose window ended MinAge ago.
Taken == closed_btc \union {bin_file} \union DOMAIN archive

\* The directory and the open file of a journal object j.
DirectoryOK(j) ==
  /\ \A s \in DOMAIN j.files : s <= j.files[s].mtime
  /\ j.file_ # NoFile => /\ j.linked
                         /\ j.file_ \in DOMAIN j.files
                         /\ j.file_ = j.segment_start_ms_
                         /\ j.file_ <= clock
                         /\ j.file_ \notin Taken

\* The ids on the disk of a journal object j.
Disk(j) == UNION {Ids(j.files[s].ticks) : s \in DOMAIN j.files}

\* Every flushed tick is on disk or uploaded, an uploaded segment that is still
\* on disk is frozen, and only flushed ticks are on disk.
TicksOK(j) ==
  /\ \A id \in j.flushed : \/ \E s \in DOMAIN j.files : id \in Ids(j.files[s].ticks)
                           \/ \E s \in DOMAIN archive : id \in archive[s]
  /\ \A s \in DOMAIN j.files \intersect DOMAIN archive :
       Ids(j.files[s].ticks) = archive[s]
  /\ Disk(j) \subseteq j.flushed

\* What a method does to the log: the disk gains what is flushed.
Logs(j, w) ==
  /\ Disk(j) \subseteq Disk(w)
  /\ w.flushed = j.flushed \union Disk(w)

\* What holds of the object at every moment of write().
JournalOK(j) == j \in JournalType /\ DirectoryOK(j) /\ TicksOK(j)

\* The job's own state.
JobOK ==
  /\ job_pc \in {"idle", "polymarket", "btc", "delete"}
  /\ closed_btc \subseteq DOMAIN files
  /\ bin_file \notin closed_btc
  /\ bin_file # NoFile => bin_file \in DOMAIN archive
  /\ job_pc = "delete" <=> bin_file # NoFile
  /\ archive \in Maps(SUBSET Nat)
  /\ \A s \in Taken : s # NoFile => s \in Nat /\ s + MinAge < clock

\* An open segment has had a tick in its window, and that not long ago.
RecentTick ==
  /\ clock \in Nat
  /\ last_tick \in Nat
  /\ budget \in [ticks : Nat, crashes : Nat, failures : Nat]
  /\ connected => pc = "run"
  /\ pc = "down" => file_ = NoFile
  /\ file_ # NoFile => /\ last_tick < file_ + Rotation
                       /\ clock <= last_tick + MaxGap

IInv == RecentTick /\ JobOK /\ JournalOK(Journal)

\* The feed is never silent for so long that an open segment could look sealed.
ShortSilence == Rotation + MaxGap <= MinAge

-----------------------------------------------------------------------------
(* Helpers *)

\* A window's start is at most Rotation before every time in the window.
LEMMA SegmentStartBounds ==
  ASSUME NEW ts \in Nat
  PROVE  /\ SegmentStart(ts) \in Nat
         /\ SegmentStart(ts) <= ts
         /\ ts < SegmentStart(ts) + Rotation
BY JournalAssumption DEF SegmentStart

\* The ids of two sequences one after the other.
LEMMA IdsOfConcat ==
  ASSUME NEW a \in Seq(TickRecord), NEW b \in Seq(TickRecord)
  PROVE  /\ a \o b \in Seq(TickRecord)
         /\ Ids(a \o b) = Ids(a) \union Ids(b)
         /\ Ids(a) \subseteq Nat
<1>1. a \o b \in Seq(TickRecord)
  OBVIOUS
<1>2. ASSUME NEW i \in DOMAIN a
      PROVE  i \in DOMAIN (a \o b) /\ (a \o b)[i] = a[i]
  OBVIOUS
<1>3. ASSUME NEW i \in DOMAIN b
      PROVE  Len(a) + i \in DOMAIN (a \o b) /\ (a \o b)[Len(a) + i] = b[i]
  OBVIOUS
<1>4. ASSUME NEW i \in DOMAIN (a \o b)
      PROVE  \/ i \in DOMAIN a /\ (a \o b)[i] = a[i]
             \/ i - Len(a) \in DOMAIN b /\ (a \o b)[i] = b[i - Len(a)]
  OBVIOUS
<1>5. Ids(a \o b) \subseteq Ids(a) \union Ids(b)
  BY <1>4 DEF Ids
<1>6. Ids(a) \subseteq Ids(a \o b)
  BY <1>2 DEF Ids
<1>7. Ids(b) \subseteq Ids(a \o b)
  BY <1>3 DEF Ids
<1>8. \A i \in DOMAIN a : a[i] \in TickRecord
  OBVIOUS
<1>9. \A t \in TickRecord : t.id \in Nat
  BY DEF TickRecord
<1>10. Ids(a) \subseteq Nat
  BY <1>8, <1>9 DEF Ids
<1> QED BY <1>1, <1>5, <1>6, <1>7, <1>10

\* What a directory holds.
LEMMA LookupSegment ==
  ASSUME NEW f \in Maps(Segment), NEW s \in DOMAIN f
  PROVE  f[s] \in Segment /\ f[s].mtime \in Nat /\ s \in Nat
BY DEF Maps, Segment

\* The buffer after a flush.
LEMMA EmptyBuffer == << >> \in Seq(TickRecord) /\ Len(<< >>) = 0
OBVIOUS

\* Writing one entry of the directory.
LEMMA PutSegment ==
  ASSUME NEW f \in Maps(Segment), NEW s \in Nat, NEW value \in Segment
  PROVE  /\ Put(f, s, value) \in Maps(Segment)
         /\ DOMAIN Put(f, s, value) = DOMAIN f \union {s}
         /\ Put(f, s, value)[s] = value
         /\ \A x \in DOMAIN f : x # s => Put(f, s, value)[x] = f[x]
<1>1. PICK D \in SUBSET Nat : f \in [D -> Segment]
  BY DEF Maps
<1>2. Put(f, s, value) \in [D \union {s} -> Segment]
  BY <1>1 DEF Put
<1>3. D \union {s} \in SUBSET Nat
  BY <1>1
<1> QED BY <1>1, <1>2, <1>3 DEF Put, Maps

\* Storing one S3 object.
LEMMA PutArchive ==
  ASSUME NEW f \in Maps(SUBSET Nat), NEW s \in Nat, NEW value \in SUBSET Nat
  PROVE  /\ Put(f, s, value) \in Maps(SUBSET Nat)
         /\ DOMAIN Put(f, s, value) = DOMAIN f \union {s}
         /\ Put(f, s, value)[s] = value
         /\ \A x \in DOMAIN f : x # s => Put(f, s, value)[x] = f[x]
<1>1. PICK D \in SUBSET Nat : f \in [D -> SUBSET Nat]
  BY DEF Maps
<1>2. Put(f, s, value) \in [D \union {s} -> SUBSET Nat]
  BY <1>1 DEF Put
<1>3. D \union {s} \in SUBSET Nat
  BY <1>1
<1> QED BY <1>1, <1>2, <1>3 DEF Put, Maps

-----------------------------------------------------------------------------
(* The methods of BtcJournal, field by field *)

\* The directory has the file that is open and linked.
HasOpenFile(j) == j.file_ # NoFile /\ j.linked => j.file_ \in DOMAIN j.files

\* flush() writes the buffer to the open file or drops it, and empties it.
LEMMA FlushFields ==
  ASSUME NEW j \in JournalType, HasOpenFile(j), clock \in Nat
  PROVE  LET f == flush(j) IN
         /\ f \in JournalType
         /\ f.file_ = j.file_ /\ f.segment_start_ms_ = j.segment_start_ms_
         /\ f.linked = j.linked
         /\ f.buf_ = << >>
         /\ DOMAIN f.files = DOMAIN j.files
         /\ j.file_ = NoFile => /\ f.flushed = j.flushed
                                /\ f.dropped = j.dropped \union Ids(j.buf_)
         /\ j.file_ # NoFile => /\ f.flushed = j.flushed \union Ids(j.buf_)
                                /\ f.dropped = j.dropped
         /\ \A s \in DOMAIN j.files :
              \/ /\ s = j.file_ /\ j.linked
                 /\ f.files[s].ticks = j.files[s].ticks \o j.buf_
                 /\ f.files[s].mtime = clock
              \/ /\ s = j.file_ /\ j.linked => j.buf_ = << >>
                 /\ f.files[s] = j.files[s]
<1>a. j.buf_ \in Seq(TickRecord) /\ j.files \in Maps(Segment) /\ DOMAIN j.files \subseteq Nat
  BY DEF JournalType, Maps
<1>b. Ids(j.buf_) \subseteq Nat
  BY <1>a, IdsOfConcat
<1>1. CASE j.buf_ = << >>
  <2>1. flush(j) = j
    BY <1>1 DEF flush
  <2>2. Ids(j.buf_) = {}
    BY <1>1 DEF Ids
  <2>3. j.flushed \union {} = j.flushed /\ j.dropped \union {} = j.dropped
    OBVIOUS
  <2> QED BY <1>1, <2>1, <2>2, <2>3
<1>2. CASE j.buf_ # << >> /\ j.file_ = NoFile
  <2> DEFINE d == j.dropped \union Ids(j.buf_)
             a == [j EXCEPT !.dropped = d]
             b == [a EXCEPT !.buf_ = << >>]
  <2>1. flush(j) = b
    BY <1>2 DEF flush
  <2>2. d \in SUBSET Nat
    BY <1>b DEF JournalType
  <2> HIDE DEF d
  <2>3. /\ a \in JournalType /\ a.dropped = d
        /\ a.file_ = j.file_ /\ a.segment_start_ms_ = j.segment_start_ms_
        /\ a.files = j.files /\ a.linked = j.linked /\ a.flushed = j.flushed
    BY <2>2 DEF JournalType
  <2> HIDE DEF a
  <2>4. /\ b \in JournalType /\ b.dropped = d /\ b.buf_ = << >>
        /\ b.file_ = j.file_ /\ b.segment_start_ms_ = j.segment_start_ms_
        /\ b.files = j.files /\ b.linked = j.linked /\ b.flushed = j.flushed
    BY <2>3, EmptyBuffer DEF JournalType
  <2> HIDE DEF b
  <2>5. \A s \in DOMAIN j.files : s # j.file_
    BY <1>2, <1>a, NoFileAssumption
  <2> QED BY <1>2, <2>1, <2>4, <2>5 DEF d
<1>3. CASE j.buf_ # << >> /\ j.file_ # NoFile
  <2> DEFINE p == OnDisk(j)
             g == j.flushed \union Ids(j.buf_)
             a == [j EXCEPT !.files = p]
             b == [a EXCEPT !.flushed = g]
             f == [b EXCEPT !.buf_ = << >>]
  <2>1. flush(j) = f
    BY <1>3 DEF flush
  <2>2. /\ p \in Maps(Segment)
        /\ DOMAIN p = DOMAIN j.files
        /\ \A s \in DOMAIN j.files :
             \/ /\ s = j.file_ /\ j.linked
                /\ p[s].ticks = j.files[s].ticks \o j.buf_
                /\ p[s].mtime = clock
             \/ ~ (s = j.file_ /\ j.linked) /\ p[s] = j.files[s]
    <3>1. CASE ~ j.linked
      BY <1>a, <3>1 DEF OnDisk
    <3>2. CASE j.linked
      <4> DEFINE w == j.file_
                 d == j.files
                 old == d[w]
                 new == [ticks |-> old.ticks \o j.buf_, mtime |-> clock]
      <4>1. w \in Nat /\ d \in Maps(Segment) /\ w \in DOMAIN d
        BY <1>3, <1>a, <3>2 DEF HasOpenFile, JournalType
      <4>2. old.ticks \in Seq(TickRecord)
        BY <4>1, LookupSegment DEF Segment, TickRecord
      <4>3. old.ticks \o j.buf_ \in Seq(TickRecord)
        BY <1>a, <4>2, IdsOfConcat
      <4>4. new \in Segment
        BY <4>3 DEF Segment, TickRecord
      <4>5. p = Put(d, w, new)
        BY <3>2 DEF OnDisk
      <4>6. j.files = d /\ j.file_ = w
        OBVIOUS
      <4>a. new.ticks = d[w].ticks \o j.buf_ /\ new.mtime = clock
        OBVIOUS
      <4> HIDE DEF new, w, d, p
      <4>7. /\ Put(d, w, new) \in Maps(Segment)
            /\ DOMAIN Put(d, w, new) = DOMAIN d \union {w}
            /\ Put(d, w, new)[w] = new
            /\ \A x \in DOMAIN d : x # w => Put(d, w, new)[x] = d[x]
        BY <4>1, <4>4, PutSegment
      <4>8. DOMAIN d \union {w} = DOMAIN d
        BY <4>1
      <4>9. ASSUME NEW s \in DOMAIN d
            PROVE  \/ /\ s = w
                      /\ p[s].ticks = d[s].ticks \o j.buf_
                      /\ p[s].mtime = clock
                   \/ s # w /\ p[s] = d[s]
        BY <4>5, <4>7, <4>a
      <4> QED BY <3>2, <4>5, <4>6, <4>7, <4>8, <4>9
    <3> QED BY <3>1, <3>2
  <2>3. g \in SUBSET Nat
    BY <1>b DEF JournalType
  <2> HIDE DEF p, g
  <2>4. /\ a \in JournalType /\ a.files = p
        /\ a.file_ = j.file_ /\ a.segment_start_ms_ = j.segment_start_ms_
        /\ a.linked = j.linked /\ a.dropped = j.dropped
    BY <2>2 DEF JournalType
  <2> HIDE DEF a
  <2>5. /\ b \in JournalType /\ b.files = p /\ b.flushed = g
        /\ b.file_ = j.file_ /\ b.segment_start_ms_ = j.segment_start_ms_
        /\ b.linked = j.linked /\ b.dropped = j.dropped
    BY <2>3, <2>4 DEF JournalType
  <2> HIDE DEF b
  <2>6. /\ f \in JournalType /\ f.files = p /\ f.flushed = g /\ f.buf_ = << >>
        /\ f.file_ = j.file_ /\ f.segment_start_ms_ = j.segment_start_ms_
        /\ f.linked = j.linked /\ f.dropped = j.dropped
    BY <2>5, EmptyBuffer DEF JournalType
  <2> HIDE DEF f
  <2> QED BY <1>3, <2>1, <2>2, <2>6 DEF g
<1> QED BY <1>1, <1>2, <1>3

\* fclose
LEMMA CloseFields ==
  ASSUME NEW j \in JournalType
  PROVE  LET c == close_segment(j) IN
         /\ c \in JournalType
         /\ c.file_ = NoFile
         /\ c.buf_ = j.buf_ /\ c.files = j.files
         /\ c.flushed = j.flushed /\ c.dropped = j.dropped
BY DEF close_segment, JournalType

\* fopen creates a missing file, and leaves the ticks of an existing one alone.
LEMMA OpenFields ==
  ASSUME NEW j \in JournalType, NEW opens \in BOOLEAN, clock \in Nat
  PROVE  LET o == open_segment(j, clock, opens)
             s == SegmentStart(clock) IN
         /\ o \in JournalType
         /\ o.segment_start_ms_ = s
         /\ o.buf_ = j.buf_ /\ o.flushed = j.flushed /\ o.dropped = j.dropped
         /\ opens => /\ o.file_ = s /\ o.linked
                     /\ DOMAIN o.files = DOMAIN j.files \union {s}
                     /\ \A x \in DOMAIN j.files : o.files[x] = j.files[x]
                     /\ s \notin DOMAIN j.files =>
                          o.files[s] = [ticks |-> << >>, mtime |-> clock]
         /\ ~ opens => o.file_ = j.file_ /\ o.linked = j.linked /\ o.files = j.files
<1> DEFINE o == open_segment(j, clock, opens)
           s == SegmentStart(clock)
           new == [ticks |-> << >>, mtime |-> clock]
           p == IF s \in DOMAIN j.files THEN j.files ELSE Put(j.files, s, new)
<1>1. s \in Nat
  BY SegmentStartBounds
<1>2. new \in Segment
  BY DEF Segment
<1>3. j.files \in Maps(Segment)
  BY DEF JournalType
<1>4. opens => o = [j EXCEPT !.segment_start_ms_ = s, !.file_ = s, !.linked = TRUE,
                             !.files = p]
  BY Zenon DEF open_segment
<1>5. ~ opens => o = [j EXCEPT !.segment_start_ms_ = s]
  BY DEF open_segment
<1> HIDE DEF s, new, o
<1>6. /\ p \in Maps(Segment)
      /\ DOMAIN p = DOMAIN j.files \union {s}
      /\ \A x \in DOMAIN j.files : p[x] = j.files[x]
      /\ s \notin DOMAIN j.files => p[s] = new
  <2>1. CASE s \in DOMAIN j.files
    BY <1>3, <2>1
  <2>2. CASE s \notin DOMAIN j.files
    <3> DEFINE d == j.files
               q == Put(d, s, new)
    <3>1. d \in Maps(Segment) /\ p = q
      BY <1>3, <2>2
    <3>2. s \notin DOMAIN d /\ j.files = d
      BY <2>2
    <3> HIDE DEF d, p
    <3>3. /\ q \in Maps(Segment)
          /\ DOMAIN q = DOMAIN d \union {s}
          /\ q[s] = new
          /\ \A x \in DOMAIN d : x # s => q[x] = d[x]
      BY <1>1, <1>2, <3>1, PutSegment, ZenonT(40)
    <3> HIDE DEF q
    <3> QED BY <3>1, <3>2, <3>3
  <2> QED BY <2>1, <2>2
<1> HIDE DEF p
<1>7. CASE opens
  <2>1. /\ o \in JournalType
        /\ o.segment_start_ms_ = s /\ o.file_ = s /\ o.linked /\ o.files = p
        /\ o.buf_ = j.buf_ /\ o.flushed = j.flushed /\ o.dropped = j.dropped
    BY <1>1, <1>4, <1>6, <1>7 DEF JournalType
  <2> QED BY <1>6, <1>7, <2>1 DEF o, s, new
<1>8. CASE ~ opens
  <2>1. /\ o \in JournalType
        /\ o.segment_start_ms_ = s /\ o.file_ = j.file_ /\ o.linked = j.linked
        /\ o.files = j.files
        /\ o.buf_ = j.buf_ /\ o.flushed = j.flushed /\ o.dropped = j.dropped
    BY <1>1, <1>5, <1>8 DEF JournalType
  <2> QED BY <1>8, <2>1 DEF o, s
<1> QED BY <1>7, <1>8

\* buf_[buf_pos_++]
LEMMA AppendFields ==
  ASSUME NEW j \in JournalType, NEW t \in TickRecord
  PROVE  LET a == [j EXCEPT !.buf_ = Append(@, t)] IN
         /\ a \in JournalType
         /\ a.buf_ = Append(j.buf_, t)
         /\ a.file_ = j.file_ /\ a.segment_start_ms_ = j.segment_start_ms_
         /\ a.files = j.files /\ a.linked = j.linked
         /\ a.flushed = j.flushed /\ a.dropped = j.dropped
<1> DEFINE b == Append(j.buf_, t)
<1>1. b \in Seq(TickRecord)
  BY DEF JournalType
<1> HIDE DEF b
<1>2. LET a == [j EXCEPT !.buf_ = b] IN
      /\ a \in JournalType
      /\ a.buf_ = b
      /\ a.file_ = j.file_ /\ a.segment_start_ms_ = j.segment_start_ms_
      /\ a.files = j.files /\ a.linked = j.linked
      /\ a.flushed = j.flushed /\ a.dropped = j.dropped
  BY <1>1 DEF JournalType
<1> QED BY <1>2 DEF b

-----------------------------------------------------------------------------
(* The methods and the cron job *)

\* flush() keeps the directory sound and leaves the open segment as it is.
LEMMA FlushOK ==
  ASSUME NEW j, JournalOK(j), clock \in Nat
  PROVE  /\ JournalOK(flush(j))
         /\ flush(j).file_ = j.file_
         /\ flush(j).buf_ = << >>
         /\ DOMAIN flush(j).files = DOMAIN j.files
         /\ Logs(j, flush(j))
<1> DEFINE f == flush(j)
<1>a. j \in JournalType /\ HasOpenFile(j)
  BY DEF JournalOK, DirectoryOK, HasOpenFile
<1>1. /\ f \in JournalType
      /\ f.file_ = j.file_ /\ f.segment_start_ms_ = j.segment_start_ms_
      /\ f.linked = j.linked
      /\ f.buf_ = << >>
      /\ DOMAIN f.files = DOMAIN j.files
      /\ j.file_ = NoFile => f.flushed = j.flushed
      /\ j.file_ # NoFile => f.flushed = j.flushed \union Ids(j.buf_)
      /\ \A s \in DOMAIN j.files :
           \/ /\ s = j.file_ /\ j.linked
              /\ f.files[s].ticks = j.files[s].ticks \o j.buf_
              /\ f.files[s].mtime = clock
           \/ /\ s = j.file_ /\ j.linked => j.buf_ = << >>
              /\ f.files[s] = j.files[s]
  BY <1>a, FlushFields
<1>b. DOMAIN j.files \subseteq Nat
  BY <1>a DEF JournalType, Maps
<1> HIDE DEF f
\* What a segment's ticks become.
<1>2. ASSUME NEW s \in DOMAIN j.files
      PROVE  /\ s = j.file_ =>
                  Ids(f.files[s].ticks) = Ids(j.files[s].ticks) \union Ids(j.buf_)
             /\ s # j.file_ => Ids(f.files[s].ticks) = Ids(j.files[s].ticks)
  <2>1. j.files[s].ticks \in Seq(TickRecord) /\ j.buf_ \in Seq(TickRecord)
    BY <1>a, LookupSegment DEF JournalType, Segment, TickRecord
  <2>2. Ids(j.files[s].ticks \o j.buf_) = Ids(j.files[s].ticks) \union Ids(j.buf_)
    BY <2>1, IdsOfConcat
  <2>3. s = j.file_ => j.linked
    BY <1>b, NoFileAssumption DEF JournalOK, DirectoryOK
  <2>4. j.buf_ = << >> => Ids(j.buf_) = {}
    BY DEF Ids
  <2>5. CASE s # j.file_
    BY <1>1, <2>5
  <2>6. CASE s = j.file_ /\ f.files[s].ticks = j.files[s].ticks \o j.buf_
    BY <2>2, <2>6
  <2>7. CASE s = j.file_ /\ f.files[s] = j.files[s] /\ j.buf_ = << >>
    <3>1. Ids(f.files[s].ticks) = Ids(j.files[s].ticks)
      BY <2>7
    <3>2. Ids(j.buf_) = {}
      BY <2>4, <2>7
    <3> QED BY <2>7, <3>1, <3>2
  <2> QED BY <1>1, <2>3, <2>5, <2>6, <2>7
<1>3. DirectoryOK(f)
  <2>1. ASSUME NEW s \in DOMAIN f.files
        PROVE  s <= f.files[s].mtime
    <3>1. s \in DOMAIN j.files /\ s # NoFile /\ s <= j.files[s].mtime
      BY <1>1, <1>b, NoFileAssumption DEF JournalOK, DirectoryOK
    <3>2. s = j.file_ => s <= clock
      BY <3>1 DEF JournalOK, DirectoryOK
    <3> QED BY <1>1, <3>1, <3>2
  <2> QED BY <1>1, <2>1 DEF JournalOK, DirectoryOK
<1>4. j.file_ # NoFile => j.file_ \in DOMAIN j.files /\ j.file_ \notin DOMAIN archive
  BY DEF JournalOK, DirectoryOK, Taken
<1>5. Disk(f) = IF j.file_ = NoFile THEN Disk(j) ELSE Disk(j) \union Ids(j.buf_)
  <2>1. \A s \in DOMAIN j.files : s # NoFile
    BY <1>b, NoFileAssumption
  <2>2. CASE j.file_ = NoFile
    BY <1>1, <1>2, <2>1, <2>2 DEF Disk
  <2>3. CASE j.file_ # NoFile
    <3>1. Disk(f) \subseteq Disk(j) \union Ids(j.buf_)
      BY <1>1, <1>2 DEF Disk
    <3>2. Disk(j) \subseteq Disk(f)
      <4>1. \A s \in DOMAIN j.files : Ids(j.files[s].ticks) \subseteq Ids(f.files[s].ticks)
        BY <1>2
      <4> QED BY <1>1, <4>1 DEF Disk
    <3>3. Ids(j.buf_) \subseteq Disk(f)
      BY <1>1, <1>2, <1>4, <2>3 DEF Disk
    <3> QED BY <2>3, <3>1, <3>2, <3>3
  <2> QED BY <2>2, <2>3
<1>6. Logs(j, f) /\ Disk(f) \subseteq f.flushed
  BY <1>1, <1>5 DEF Logs, JournalOK, TicksOK
<1>7. TicksOK(f)
  <2>1. ASSUME NEW id \in f.flushed
        PROVE  \/ \E s \in DOMAIN f.files : id \in Ids(f.files[s].ticks)
               \/ \E s \in DOMAIN archive : id \in archive[s]
    <3>1. CASE id \in j.flushed
      BY <1>1, <1>2, <3>1 DEF JournalOK, TicksOK
    <3>2. CASE id \notin j.flushed
      BY <1>1, <1>2, <1>4, <3>2
    <3> QED BY <3>1, <3>2
  <2>2. \A s \in DOMAIN f.files \intersect DOMAIN archive :
          Ids(f.files[s].ticks) = archive[s]
    <3> SUFFICES ASSUME NEW s \in DOMAIN j.files \intersect DOMAIN archive
                 PROVE  Ids(f.files[s].ticks) = archive[s]
      BY <1>1
    <3>1. s # j.file_
      BY <1>4, <1>b, NoFileAssumption
    <3>2. Ids(j.files[s].ticks) = archive[s]
      BY DEF JournalOK, TicksOK
    <3> QED BY <1>2, <3>1, <3>2
  <2> QED BY <1>6, <2>1, <2>2 DEF TicksOK
<1> QED BY <1>1, <1>3, <1>6, <1>7 DEF JournalOK, f

\* fclose
LEMMA CloseOK ==
  ASSUME NEW j, JournalOK(j)
  PROVE  /\ JournalOK(close_segment(j))
         /\ close_segment(j).file_ = NoFile
         /\ close_segment(j).files = j.files
         /\ Logs(j, close_segment(j))
<1> DEFINE c == close_segment(j)
<1>1. /\ c \in JournalType
      /\ c.file_ = NoFile /\ c.files = j.files
      /\ c.flushed = j.flushed
  BY CloseFields DEF JournalOK
<1> HIDE DEF c
<1>2. Disk(c) = Disk(j)
  BY <1>1 DEF Disk
<1>3. JournalOK(c) /\ Logs(j, c)
  BY <1>1, <1>2 DEF JournalOK, DirectoryOK, TicksOK, Logs
<1> QED BY <1>1, <1>3 DEF c

\* fopen: the segment of the present time is none that the job has taken.
LEMMA OpenOK ==
  ASSUME NEW j, JournalOK(j), j.file_ = NoFile, NEW opens \in BOOLEAN, JobOK,
         clock \in Nat, Rotation <= MinAge
  PROVE  LET o == open_segment(j, clock, opens) IN
         /\ JournalOK(o)
         /\ o.file_ # NoFile => clock < o.file_ + Rotation
         /\ DOMAIN j.files \subseteq DOMAIN o.files
         /\ Logs(j, o)
<1> DEFINE o == open_segment(j, clock, opens)
           s == SegmentStart(clock)
<1>1. s \in Nat /\ s <= clock /\ clock < s + Rotation
  BY SegmentStartBounds
<1>2. s \notin Taken
  BY <1>1, NoFileAssumption, JournalAssumption DEF JobOK
<1>3. /\ o \in JournalType /\ o.segment_start_ms_ = s /\ o.flushed = j.flushed
      /\ opens => /\ o.file_ = s /\ o.linked
                  /\ DOMAIN o.files = DOMAIN j.files \union {s}
                  /\ \A x \in DOMAIN j.files : o.files[x] = j.files[x]
                  /\ s \notin DOMAIN j.files =>
                       o.files[s] = [ticks |-> << >>, mtime |-> clock]
      /\ ~ opens => o.file_ = j.file_ /\ o.files = j.files
  BY OpenFields DEF JournalOK
<1> HIDE DEF o, s
<1>4. CASE opens
  <2>1. DirectoryOK(o)
    BY <1>1, <1>2, <1>3, <1>4 DEF JournalOK, DirectoryOK
  <2>2. s \notin DOMAIN j.files => Ids(o.files[s].ticks) = {}
    BY <1>3, <1>4 DEF Ids
  <2>3. Disk(o) = Disk(j)
    BY <1>3, <1>4, <2>2 DEF Disk
  <2>4. s \notin DOMAIN archive
    BY <1>2 DEF Taken
  <2>5. TicksOK(o)
    BY <1>3, <1>4, <2>3, <2>4 DEF JournalOK, TicksOK
  <2> QED BY <1>1, <1>3, <1>4, <2>1, <2>3, <2>5 DEF JournalOK, TicksOK, Logs, o
<1>5. CASE ~ opens
  <2>1. Disk(o) = Disk(j)
    BY <1>3, <1>5 DEF Disk
  <2>2. JournalOK(o) /\ Logs(j, o)
    BY <1>3, <1>5, <2>1 DEF JournalOK, DirectoryOK, TicksOK, Logs
  <2> QED BY <1>3, <1>5, <2>2 DEF o
<1> QED BY <1>4, <1>5

\* rotate_if_needed(): the open segment, if any, is the one of the present time.
LEMMA RotateOK ==
  ASSUME NEW j, JournalOK(j), NEW opens \in BOOLEAN, JobOK, clock \in Nat,
         Rotation <= MinAge
  PROVE  LET r == rotate_if_needed(j, clock, opens) IN
         /\ JournalOK(r)
         /\ r.file_ # NoFile => clock < r.file_ + Rotation
         /\ DOMAIN j.files \subseteq DOMAIN r.files
         /\ Logs(j, r)
<1> archive \in Maps(SUBSET Nat)
  BY DEF JobOK
<1>1. CASE j.file_ = NoFile
  BY <1>1, OpenOK DEF rotate_if_needed
<1>2. CASE j.file_ # NoFile /\ RotationDue(j, clock)
  <2> DEFINE f == flush(j)
             c == close_segment(f)
  <2>1. JournalOK(f) /\ DOMAIN f.files = DOMAIN j.files /\ Logs(j, f)
    BY FlushOK
  <2>2. c.files = f.files
    BY <2>1, CloseOK
  <2> HIDE DEF f
  <2>3. JournalOK(c) /\ c.file_ = NoFile /\ Logs(f, c)
    BY <2>1, CloseOK
  <2>4. rotate_if_needed(j, clock, opens) = open_segment(c, clock, opens)
    BY <1>2 DEF rotate_if_needed, f
  <2> HIDE DEF c
  <2>5. Logs(j, c)
    BY <2>1, <2>3 DEF Logs
  <2>6. Logs(c, open_segment(c, clock, opens))
    BY <2>3, OpenOK
  <2>7. Logs(j, open_segment(c, clock, opens))
    BY <2>5, <2>6 DEF Logs
  <2> QED BY <2>1, <2>2, <2>3, <2>4, <2>7, OpenOK
<1>3. CASE j.file_ # NoFile /\ ~ RotationDue(j, clock)
  <2>1. rotate_if_needed(j, clock, opens) = j
    BY <1>3 DEF rotate_if_needed
  <2>2. /\ j.segment_start_ms_ \in Nat
        /\ j.file_ = j.segment_start_ms_
    BY <1>3 DEF JournalOK, JournalType, DirectoryOK
  <2>3. clock < j.file_ + Rotation
    BY <1>3, <2>2, JournalAssumption DEF RotationDue
  <2>4. Logs(j, j)
    BY DEF Logs, JournalOK, TicksOK
  <2> QED BY <2>1, <2>3, <2>4
<1> QED BY <1>1, <1>2, <1>3

\* A flush at a full buffer leaves room for a tick.
LEMMA FlushIfFullOK ==
  ASSUME NEW j, JournalOK(j), clock \in Nat, archive \in Maps(SUBSET Nat)
  PROVE  /\ JournalOK(FlushIfFull(j))
         /\ FlushIfFull(j).file_ = j.file_
         /\ DOMAIN FlushIfFull(j).files = DOMAIN j.files
         /\ FlushIfFull(j).buf_ \in Seq(TickRecord)
         /\ Len(FlushIfFull(j).buf_) < BUF_CAP
         /\ Logs(j, FlushIfFull(j))
<1>1. j.buf_ \in Seq(TickRecord)
  BY DEF JournalOK, JournalType
<1>2. CASE Len(j.buf_) >= BUF_CAP
  <2>1. FlushIfFull(j) = flush(j)
    BY <1>2 DEF FlushIfFull
  <2>2. /\ JournalOK(flush(j)) /\ flush(j).file_ = j.file_
        /\ flush(j).buf_ = << >> /\ DOMAIN flush(j).files = DOMAIN j.files
        /\ Logs(j, flush(j))
    BY FlushOK
  <2>3. 0 < BUF_CAP
    BY JournalAssumption
  <2> QED BY <2>1, <2>2, <2>3, EmptyBuffer
<1>3. CASE ~ (Len(j.buf_) >= BUF_CAP)
  <2>1. FlushIfFull(j) = j
    BY <1>3 DEF FlushIfFull
  <2>2. Logs(j, j)
    BY DEF Logs, JournalOK, TicksOK
  <2> QED BY <1>1, <1>3, <2>1, <2>2, JournalAssumption
<1> QED BY <1>2, <1>3

\* write() as a whole.
LEMMA WriteOK ==
  ASSUME NEW j, JournalOK(j), NEW opens \in BOOLEAN, JobOK, clock \in Nat,
         Rotation <= MinAge, NEW id \in Nat
  PROVE  LET w == write(j, [id |-> id, ts |-> clock], opens) IN
         /\ JournalOK(w)
         /\ w.file_ # NoFile => clock < w.file_ + Rotation
         /\ DOMAIN j.files \subseteq DOMAIN w.files
         /\ Logs(j, w)
<1> archive \in Maps(SUBSET Nat)
  BY DEF JobOK
<1> DEFINE r == rotate_if_needed(j, clock, opens)
           f == FlushIfFull(r)
           t == [id |-> id, ts |-> clock, segment |-> f.file_]
           a == [f EXCEPT !.buf_ = Append(f.buf_, t)]
<1>1. /\ JournalOK(r)
      /\ r.file_ # NoFile => clock < r.file_ + Rotation
      /\ DOMAIN j.files \subseteq DOMAIN r.files
      /\ Logs(j, r)
  BY RotateOK
<1>5. write(j, [id |-> id, ts |-> clock], opens) = FlushIfFull(a)
  BY DEF write
<1> HIDE DEF r
<1>2. /\ JournalOK(f) /\ f.file_ = r.file_ /\ DOMAIN f.files = DOMAIN r.files
      /\ f.buf_ \in Seq(TickRecord)
      /\ Logs(r, f)
  BY <1>1, FlushIfFullOK
<1> HIDE DEF f
<1>3. t \in TickRecord
  <2>1. f.file_ \in Nat \union {NoFile}
    BY <1>2 DEF JournalOK, JournalType
  <2> QED BY <2>1 DEF TickRecord
<1> HIDE DEF t
<1>4. /\ JournalOK(a) /\ a.file_ = f.file_ /\ DOMAIN a.files = DOMAIN f.files
      /\ Logs(f, a)
  <2>1. /\ a \in JournalType
        /\ a.file_ = f.file_ /\ a.files = f.files /\ a.linked = f.linked
        /\ a.segment_start_ms_ = f.segment_start_ms_ /\ a.flushed = f.flushed
    BY <1>2, <1>3, AppendFields DEF JournalOK
  <2> HIDE DEF a
  <2>2. Disk(a) = Disk(f)
    BY <2>1 DEF Disk
  <2> QED BY <1>2, <2>1, <2>2 DEF JournalOK, DirectoryOK, TicksOK, Logs
<1> HIDE DEF a
<1>6. /\ JournalOK(FlushIfFull(a))
      /\ FlushIfFull(a).file_ = a.file_
      /\ DOMAIN FlushIfFull(a).files = DOMAIN a.files
      /\ Logs(a, FlushIfFull(a))
  BY <1>4, FlushIfFullOK
<1>7. Logs(j, FlushIfFull(a))
  BY <1>1, <1>2, <1>4, <1>6 DEF Logs
<1> QED BY <1>1, <1>2, <1>4, <1>5, <1>6, <1>7

\* A step that leaves the journal object at j.
LEMMA BecomesOK ==
  ASSUME NEW j, JournalOK(j), JournalBecomes(j), UNCHANGED <<jobVars, clock>>
  PROVE  JournalOK(Journal)'
<1>1. Journal' = j
  BY DEF JournalBecomes, Journal, JournalOK, JournalType
<1>2. /\ clock' = clock /\ closed_btc' = closed_btc /\ bin_file' = bin_file
      /\ archive' = archive
  BY DEF jobVars
<1> QED BY <1>1, <1>2 DEF JournalOK, DirectoryOK, TicksOK, Taken

-----------------------------------------------------------------------------
(* The invariant *)

LEMMA IInvInit ==
  ASSUME Init
  PROVE  IInv
<1>1. RecentTick
  BY DEF Init, RecentTick
<1>2. << >> \in Maps(Segment) /\ << >> \in Maps(SUBSET Nat)
  <2>1. \A S : << >> \in [{} -> S]
    OBVIOUS
  <2>2. {} \in SUBSET Nat
    OBVIOUS
  <2> QED BY <2>1, <2>2 DEF Maps
<1>3. JobOK
  BY <1>2 DEF Init, JobOK, Taken
<1>4. Journal \in JournalType
  BY <1>2, EmptyBuffer DEF Init, Journal, JournalType
<1>5. DirectoryOK(Journal) /\ TicksOK(Journal)
  BY DEF Init, Journal, DirectoryOK, TicksOK, Disk
<1> QED BY <1>1, <1>3, <1>4, <1>5 DEF IInv, JournalOK

\* Every step but the passing of time and the job's own leaves the clock and
\* what the job has taken alone; three of them touch the journal.
LEMMA ProcessKeepsIInv ==
  ASSUME IInv, Process, ShortSilence
  PROVE  IInv'
<1> USE DEF IInv
<1>1. CASE Signal \/ RunStarts \/ Connect \/ Disconnect \/ RunReturns
  <2>1. UNCHANGED <<journalVars, jobVars, clock, last_tick, budget>>
    BY <1>1 DEF Signal, RunStarts, Connect, Disconnect, RunReturns
  <2>2. Journal' = Journal
    BY <2>1 DEF Journal, journalVars
  <2>3. JournalOK(Journal)'
    BY <2>1, <2>2 DEF JournalOK, DirectoryOK, TicksOK, Taken, jobVars
  <2>4. RecentTick' /\ JobOK'
    BY <1>1, <2>1 DEF RecentTick, JobOK, Taken, journalVars, jobVars, Signal, RunStarts,
                      Connect, Disconnect, RunReturns
  <2> QED BY <2>3, <2>4
<1>2. CASE OnMessage
  <2>1. PICK opens \in BOOLEAN :
          JournalBecomes(write(Journal, [id |-> budget.ticks + 1, ts |-> clock], opens))
    BY <1>2 DEF OnMessage
  <2> DEFINE b == [budget EXCEPT !.ticks = @ + 1]
  <2>a. b \in [ticks : Nat, crashes : Nat, failures : Nat]
    BY DEF RecentTick
  <2>b. PICK n \in {b.failures, b.failures + 1} : budget' = [b EXCEPT !.failures = n]
    BY <1>2 DEF OnMessage
  <2> HIDE DEF b
  <2>2. /\ budget.ticks + 1 \in Nat
        /\ budget' \in [ticks : Nat, crashes : Nat, failures : Nat]
        /\ UNCHANGED <<jobVars, clock>>
        /\ last_tick' = clock
        /\ clock \in Nat
        /\ pc' = "run" /\ pc = "run"
    BY <1>2, <2>a, <2>b DEF OnMessage, RecentTick, mainVars
  <2> DEFINE w == write(Journal, [id |-> budget.ticks + 1, ts |-> clock], opens)
  <2>3. /\ JournalOK(w)
        /\ w.file_ # NoFile => clock < w.file_ + Rotation
        /\ DOMAIN Journal.files \subseteq DOMAIN w.files
    BY <2>2, WriteOK, JournalAssumption DEF ShortSilence
  <2> HIDE DEF w
  <2>4. JournalOK(Journal)'
    BY <2>1, <2>2, <2>3, BecomesOK DEF w
  <2>5. file_' = w.file_ /\ files' = w.files
    BY <2>1 DEF JournalBecomes, w
  <2>6. RecentTick'
    BY <2>2, <2>3, <2>5, JournalAssumption DEF RecentTick
  <2>7. JobOK'
    BY <2>2, <2>3, <2>5 DEF JobOK, Taken, jobVars, Journal
  <2> QED BY <2>4, <2>6, <2>7
<1>3. CASE Destroy
  <2> DEFINE f == flush(Journal)
             c == close_segment(f)
  <2>1. /\ JournalBecomes(c)
        /\ UNCHANGED <<jobVars, clock, last_tick, budget>>
    BY <1>3 DEF Destroy
  <2>2. JournalOK(f) /\ DOMAIN f.files = DOMAIN Journal.files
    BY FlushOK DEF RecentTick, JobOK
  <2>3. c.files = f.files
    BY <2>2, CloseOK
  <2> HIDE DEF f
  <2>4. JournalOK(c) /\ c.file_ = NoFile
    BY <2>2, CloseOK
  <2> HIDE DEF c
  <2>5. JournalOK(Journal)'
    BY <2>1, <2>4, BecomesOK
  <2>6. file_' = NoFile /\ DOMAIN files' = DOMAIN files
    BY <2>1, <2>2, <2>3, <2>4 DEF JournalBecomes, Journal
  <2>7. RecentTick' /\ JobOK'
    BY <1>3, <2>1, <2>6 DEF RecentTick, JobOK, Taken, jobVars, Destroy
  <2> QED BY <2>5, <2>7
<1>4. CASE Crash \/ Restart
  <2>1. /\ UNCHANGED <<files, linked, flushed, dropped, jobVars, clock, last_tick>>
        /\ file_' = NoFile
        /\ buf_' = << >> \/ buf_' = buf_
        /\ segment_start_ms_' = segment_start_ms_ \/ segment_start_ms_' = 0
    BY <1>4 DEF Crash, Restart, RecentTick
  <2>2. budget' \in [ticks : Nat, crashes : Nat, failures : Nat]
    BY <1>4 DEF Crash, Restart, RecentTick
  <2>a. /\ buf_ \in Seq(TickRecord) /\ segment_start_ms_ \in Nat
        /\ files \in Maps(Segment) /\ linked \in BOOLEAN
        /\ flushed \in SUBSET Nat /\ dropped \in SUBSET Nat
    BY DEF Journal, JournalOK, JournalType
  <2>b. buf_' \in Seq(TickRecord)
    BY <2>1, <2>a, EmptyBuffer, Zenon
  <2>c. segment_start_ms_' \in Nat
    BY <2>1, <2>a
  <2>3. Journal' \in JournalType
    BY <2>1, <2>a, <2>b, <2>c DEF Journal, JournalType
  <2>4. DirectoryOK(Journal)' /\ TicksOK(Journal)'
    BY <2>1 DEF Journal, JournalOK, DirectoryOK, TicksOK, Disk, Taken, jobVars
  <2>5. RecentTick' /\ JobOK'
    BY <1>4, <2>1, <2>2 DEF RecentTick, JobOK, Taken, jobVars, Crash, Restart
  <2> QED BY <2>3, <2>4, <2>5 DEF JournalOK
<1> QED BY <1>1, <1>2, <1>3, <1>4 DEF Process

\* Time passes: only the silence of the feed matters.
LEMMA AdvanceKeepsIInv ==
  ASSUME IInv, Advance
  PROVE  IInv'
<1> USE DEF IInv
<1>1. /\ clock' = clock + 1
      /\ UNCHANGED <<mainVars, journalVars, jobVars, last_tick, budget>>
      /\ file_ = NoFile \/ clock < last_tick + MaxGap
  BY DEF Advance
<1>2. Journal' = Journal
  BY <1>1 DEF Journal, journalVars
<1>3. RecentTick'
  BY <1>1, JournalAssumption DEF RecentTick, mainVars, journalVars
<1>4. JobOK'
  BY <1>1, JournalAssumption DEF RecentTick, JobOK, Taken, journalVars, jobVars
<1>5. DirectoryOK(Journal)'
  <2>1. Journal.file_ \in Nat \union {NoFile}
    BY DEF JournalOK, JournalType
  <2> QED BY <1>1, <1>2, <2>1 DEF RecentTick, JournalOK, DirectoryOK, Taken, jobVars
<1>6. TicksOK(Journal)'
  BY <1>1, <1>2 DEF JournalOK, TicksOK, jobVars
<1> QED BY <1>2, <1>3, <1>4, <1>5, <1>6 DEF JournalOK

\* The job takes only segments whose window ended long ago, replaces an object
\* only by the same ticks, and deletes only what it has uploaded.
LEMMA JobKeepsIInv ==
  ASSUME IInv, Job, ShortSilence
  PROVE  IInv'
<1> USE DEF IInv
<1>0. /\ UNCHANGED <<mainVars, file_, segment_start_ms_, buf_, flushed, dropped, clock,
                     last_tick, budget>>
  BY DEF Job, JobStarts, PolymarketPartExits, FindClosed, Upload, UploadFails, Delete,
         JobEnds, JobDies, journalVars
<1>a. RecentTick'
  BY <1>0 DEF RecentTick, mainVars
<1>b. /\ files \in Maps(Segment)
      /\ linked \in BOOLEAN
      /\ archive \in Maps(SUBSET Nat)
      /\ Journal \in JournalType
  BY DEF JournalOK, JournalType, Journal, JobOK
<1>c. NoFile \notin closed_btc
  BY <1>b, NoFileAssumption, LookupSegment DEF JobOK
<1>1. CASE JobStarts \/ PolymarketPartExits \/ UploadFails \/ JobEnds \/ JobDies
  <2>1. /\ UNCHANGED <<files, linked, archive>>
        /\ closed_btc' \subseteq closed_btc
        /\ bin_file' = bin_file \/ bin_file' = NoFile
        /\ job_pc' \in {"idle", "polymarket", "btc", "delete"}
        /\ job_pc' = "delete" <=> bin_file' # NoFile
    BY <1>1 DEF JobStarts, PolymarketPartExits, UploadFails, JobEnds, JobDies,
                journalVars, JobOK
  <2>2. Journal' = Journal
    BY <1>0, <2>1 DEF Journal
  <2>3. JobOK'
    BY <1>0, <1>c, <2>1 DEF JobOK, Taken
  <2>4. DirectoryOK(Journal)'
    <3>1. Journal.file_ # NoFile => Journal.file_ \notin Taken'
      BY <2>1 DEF JournalOK, DirectoryOK, Taken
    <3> QED BY <1>0, <2>2, <3>1 DEF JournalOK, DirectoryOK
  <2>5. TicksOK(Journal)'
    BY <2>1, <2>2 DEF JournalOK, TicksOK
  <2> QED BY <1>a, <2>2, <2>3, <2>4, <2>5 DEF JournalOK
<1>2. CASE FindClosed
  <2>1. /\ UNCHANGED <<files, linked, archive, bin_file>>
        /\ job_pc = "polymarket" /\ job_pc' = "btc"
        /\ closed_btc' = {s \in DOMAIN files : Closed(s)}
    BY <1>2 DEF FindClosed, journalVars
  <2>2. Journal' = Journal
    BY <1>0, <2>1 DEF Journal
  <2>3. ASSUME NEW s \in closed_btc'
        PROVE  s \in DOMAIN files /\ s \in Nat /\ s + MinAge < clock
    <3>1. s \in DOMAIN files /\ clock - files[s].mtime > MinAge
      BY <2>1 DEF Closed
    <3>2. s \in Nat /\ files[s].mtime \in Nat
      BY <1>b, <3>1, LookupSegment
    <3>3. s <= files[s].mtime
      BY <3>1 DEF JournalOK, DirectoryOK, Journal
    <3> QED BY <3>1, <3>2, <3>3, JournalAssumption DEF RecentTick
  <2>4. JobOK'
    <3>1. bin_file = NoFile
      BY <2>1 DEF JobOK
    <3>2. NoFile \notin closed_btc'
      BY <2>3, NoFileAssumption
    <3>3. \A s \in Taken' : s # NoFile => s \in Nat /\ s + MinAge < clock
      BY <2>1, <2>3 DEF JobOK, Taken
    <3> QED BY <1>0, <2>1, <2>3, <3>1, <3>2, <3>3 DEF JobOK
  <2>5. file_ # NoFile => file_ \notin closed_btc'
    <3> SUFFICES ASSUME file_ # NoFile, file_ \in closed_btc'
                 PROVE  FALSE
      OBVIOUS
    <3>1. file_ \in Nat /\ file_ + MinAge < clock
      BY <2>3
    <3>2. last_tick < file_ + Rotation /\ clock <= last_tick + MaxGap
      BY DEF RecentTick
    <3> QED BY <3>1, <3>2, JournalAssumption DEF RecentTick, ShortSilence
  <2>6. DirectoryOK(Journal)'
    <3>1. Journal.file_ # NoFile => Journal.file_ \notin Taken'
      BY <2>1, <2>5 DEF JournalOK, DirectoryOK, Taken, Journal
    <3> QED BY <1>0, <2>2, <3>1 DEF JournalOK, DirectoryOK
  <2>7. TicksOK(Journal)'
    BY <2>1, <2>2 DEF JournalOK, TicksOK
  <2> QED BY <1>a, <2>2, <2>4, <2>6, <2>7 DEF JournalOK
<1>3. CASE Upload
  <2>1. PICK s \in closed_btc :
          /\ closed_btc' = closed_btc \ {s}
          /\ bin_file' = s
          /\ archive' = Put(archive, s, Ids(files[s].ticks))
    BY <1>3 DEF Upload
  <2>2. UNCHANGED <<files, linked>> /\ job_pc' = "delete"
    BY <1>3 DEF Upload, journalVars
  <2>3. Journal' = Journal
    BY <1>0, <2>2 DEF Journal
  <2>4. s \in DOMAIN files /\ s \in Nat /\ s # NoFile
    BY NoFileAssumption, <1>b, LookupSegment DEF JobOK
  <2>5. Ids(files[s].ticks) \in SUBSET Nat
    <3>1. files[s].ticks \in Seq(TickRecord)
      BY <1>b, <2>4, LookupSegment DEF Segment, TickRecord
    <3> QED BY <3>1, IdsOfConcat
  <2>6. /\ archive' \in Maps(SUBSET Nat)
        /\ DOMAIN archive' = DOMAIN archive \union {s}
        /\ archive'[s] = Ids(files[s].ticks)
        /\ \A x \in DOMAIN archive : x # s => archive'[x] = archive[x]
    BY <1>b, <2>1, <2>4, <2>5, PutArchive, ZenonT(40)
  <2>7. Taken' \subseteq Taken \union {NoFile}
    BY <2>1, <2>6 DEF Taken
  <2>8. JobOK'
    <3>1. \A x \in Taken' : x # NoFile => x \in Nat /\ x + MinAge < clock
      BY <2>7 DEF JobOK
    <3>2. clock' = clock
      BY <1>0
    <3>3. /\ closed_btc' \subseteq DOMAIN files'
          /\ bin_file' \notin closed_btc'
          /\ bin_file' # NoFile /\ bin_file' \in DOMAIN archive'
      BY <2>1, <2>2, <2>4, <2>6 DEF JobOK
    <3> QED BY <2>2, <2>6, <3>1, <3>2, <3>3 DEF JobOK
  <2>9. DirectoryOK(Journal)'
    BY <1>0, <2>3, <2>7 DEF JournalOK, DirectoryOK
  <2>10. ASSUME NEW x \in DOMAIN archive
         PROVE  x \in DOMAIN archive' /\ archive[x] \subseteq archive'[x]
    <3>1. CASE x = s
      BY <2>4, <2>6, <3>1 DEF JournalOK, TicksOK, Journal
    <3>2. CASE x # s
      BY <2>6, <3>2
    <3> QED BY <3>1, <3>2
  <2>11. TicksOK(Journal)'
    <3>1. \A id \in flushed : \/ \E y \in DOMAIN files : id \in Ids(files[y].ticks)
                              \/ \E y \in DOMAIN archive' : id \in archive'[y]
      BY <2>10 DEF JournalOK, TicksOK, Journal
    <3>2. \A y \in DOMAIN files \intersect DOMAIN archive' :
            Ids(files[y].ticks) = archive'[y]
      BY <2>6 DEF JournalOK, TicksOK, Journal
    <3>3. Journal.flushed = flushed /\ Journal.files = files
      BY DEF Journal
    <3>4. Disk(Journal) \subseteq flushed
      BY <3>3 DEF JournalOK, TicksOK
    <3> QED BY <2>3, <3>1, <3>2, <3>3, <3>4 DEF TicksOK
  <2> QED BY <1>a, <1>b, <2>3, <2>8, <2>9, <2>11 DEF JournalOK
<1>4. CASE Delete
  <2>1. /\ job_pc = "delete" /\ job_pc' = "btc"
        /\ files' = [s \in DOMAIN files \ {bin_file} |-> files[s]]
        /\ linked' = (linked /\ file_ # bin_file)
        /\ bin_file' = NoFile
        /\ UNCHANGED <<closed_btc, archive>>
    BY <1>4 DEF Delete
  <2>2. bin_file \in DOMAIN archive /\ bin_file \notin closed_btc
    BY <2>1 DEF JobOK
  <2>3. /\ files' \in Maps(Segment)
        /\ DOMAIN files' = DOMAIN files \ {bin_file}
        /\ \A s \in DOMAIN files' : files'[s] = files[s]
    <3>1. PICK D \in SUBSET Nat : files \in [D -> Segment]
      BY <1>b DEF Maps
    <3>2. D \ {bin_file} \in SUBSET Nat /\ files' \in [D \ {bin_file} -> Segment]
      BY <2>1, <3>1
    <3> QED BY <2>1, <3>1, <3>2 DEF Maps
  <2>4. Taken' \subseteq Taken \union {NoFile}
    BY <2>1 DEF Taken
  <2>5. JobOK'
    <3>1. closed_btc' \subseteq DOMAIN files'
      BY <2>1, <2>2, <2>3 DEF JobOK
    <3>2. NoFile \notin closed_btc'
      BY <2>1, <1>b, NoFileAssumption, LookupSegment DEF JobOK
    <3> QED BY <1>0, <2>1, <2>4, <3>1, <3>2 DEF JobOK
  <2>6. file_ # NoFile => file_ # bin_file
    BY DEF JournalOK, DirectoryOK, Journal, Taken
  <2>7. Journal' \in JournalType
    BY <1>0, <1>b, <2>1, <2>3 DEF Journal, JournalType
  <2>8. DirectoryOK(Journal)'
    BY <1>0, <2>1, <2>3, <2>4, <2>6 DEF JournalOK, DirectoryOK, Journal
  <2>9. TicksOK(Journal)'
    <3>1. ASSUME NEW s \in DOMAIN files
          PROVE  \/ s \in DOMAIN archive /\ Ids(files[s].ticks) = archive[s]
                 \/ s \in DOMAIN files' /\ files'[s] = files[s]
      BY <2>2, <2>3 DEF JournalOK, TicksOK, Journal
    <3>2. \A id \in flushed : \/ \E y \in DOMAIN files' : id \in Ids(files'[y].ticks)
                              \/ \E y \in DOMAIN archive : id \in archive[y]
      BY <3>1 DEF JournalOK, TicksOK, Journal
    <3>3. \A y \in DOMAIN files' \intersect DOMAIN archive :
            Ids(files'[y].ticks) = archive[y]
      BY <2>3 DEF JournalOK, TicksOK, Journal
    <3>4. Journal'.flushed = flushed /\ Journal'.files = files'
      BY <1>0 DEF Journal
    <3>5. Disk(Journal) \subseteq flushed /\ Journal.files = files
      BY DEF JournalOK, TicksOK, Journal
    <3>6. Disk(Journal') \subseteq Disk(Journal)
      BY <2>3, <3>4, <3>5 DEF Disk
    <3>7. Disk(Journal)' = Disk(Journal')
      BY DEF Disk
    <3> QED BY <2>1, <3>2, <3>3, <3>4, <3>5, <3>6, <3>7 DEF TicksOK
  <2> QED BY <1>a, <2>5, <2>7, <2>8, <2>9 DEF JournalOK
<1> QED BY <1>1, <1>2, <1>3, <1>4 DEF Job

LEMMA StutterKeepsIInv ==
  ASSUME IInv, UNCHANGED vars
  PROVE  IInv'
<1>1. Journal' = Journal
  BY DEF Journal, vars, journalVars
<1> QED BY <1>1 DEF IInv, RecentTick, JobOK, JournalOK, DirectoryOK, TicksOK, Taken, vars,
                    mainVars, journalVars, jobVars

\* The inductive invariant holds for ever if the feed is never silent for long.
LEMMA IInvHolds ==
  ASSUME ShortSilence
  PROVE  Spec => []IInv
<1>1. Init => IInv
  BY IInvInit
<1>2. IInv /\ [Next]_vars => IInv'
  BY ProcessKeepsIInv, AdvanceKeepsIInv, JobKeepsIInv, StutterKeepsIInv DEF Next
<1> QED BY <1>1, <1>2, PTL DEF Spec

-----------------------------------------------------------------------------
(* The log *)

\* The object at work and the sets of ids of BtcJournal are the same thing.
LEMMA DiskIsIdsOnDisk == Disk(Journal) = IdsOnDisk /\ Journal.flushed = flushed
BY DEF Disk, Journal, IdsOnDisk

\* A call of the journal's methods is a write of the log.
LEMMA BecomesLogs ==
  ASSUME NEW j, JournalOK(j), JournalBecomes(j), Logs(Journal, j), archive' = archive
  PROVE  Log!Write
<1>1. Journal' = j
  BY DEF JournalBecomes, Journal, JournalOK, JournalType
<1>2. Disk(j) = IdsOnDisk' /\ j.flushed = flushed'
  BY <1>1 DEF Disk, Journal, IdsOnDisk
<1>3. IdsInS3' = IdsInS3
  BY DEF IdsInS3
<1> QED BY <1>2, <1>3, DiskIsIdsOnDisk DEF Logs, Log!Write

\* Every step of the journal, the job and the clock is a step of the log.
LEMMA StepLogs ==
  ASSUME IInv, [Next]_vars, ShortSilence
  PROVE  [Log!Next]_(Log!logVars)
<1> USE DEF IInv
<1>a. archive \in Maps(SUBSET Nat) /\ clock \in Nat
  BY DEF JobOK, RecentTick
<1>b. ASSUME UNCHANGED <<files, archive, flushed>>
      PROVE  UNCHANGED Log!logVars
  BY <1>b DEF Log!logVars, IdsOnDisk, IdsInS3
<1>1. CASE OnMessage
  <2>1. PICK opens \in BOOLEAN :
          JournalBecomes(write(Journal, [id |-> budget.ticks + 1, ts |-> clock], opens))
    BY <1>1 DEF OnMessage
  <2> DEFINE w == write(Journal, [id |-> budget.ticks + 1, ts |-> clock], opens)
  <2>2. budget.ticks + 1 \in Nat /\ archive' = archive
    BY <1>1 DEF OnMessage, RecentTick, jobVars
  <2>3. JournalOK(w) /\ Logs(Journal, w)
    BY <1>a, <2>2, WriteOK, JournalAssumption DEF ShortSilence
  <2>4. JournalBecomes(w)
    BY <2>1
  <2> HIDE DEF w
  <2> QED BY <2>2, <2>3, <2>4, BecomesLogs DEF Log!Next
<1>2. CASE Destroy
  <2> DEFINE f == flush(Journal)
             c == close_segment(f)
  <2>1. JournalBecomes(c) /\ archive' = archive
    BY <1>2 DEF Destroy, jobVars
  <2>2. JournalOK(f) /\ Logs(Journal, f)
    BY <1>a, FlushOK
  <2> HIDE DEF f
  <2>3. JournalOK(c) /\ Logs(f, c)
    BY <2>2, CloseOK
  <2> HIDE DEF c
  <2>4. Logs(Journal, c)
    BY <2>2, <2>3 DEF Logs
  <2> QED BY <2>1, <2>3, <2>4, BecomesLogs DEF Log!Next
<1>3. CASE Upload
  <2>1. PICK s \in closed_btc : archive' = Put(archive, s, Ids(files[s].ticks))
    BY <1>3 DEF Upload
  <2>2. UNCHANGED <<files, flushed>>
    BY <1>3 DEF Upload, journalVars
  <2>3. s \in DOMAIN files
    BY DEF JobOK
  <2> DEFINE shipped == Ids(files[s].ticks)
  <2>4. /\ DOMAIN archive' = DOMAIN archive \union {s}
        /\ archive'[s] = shipped
        /\ \A x \in DOMAIN archive : x # s => archive'[x] = archive[x]
    BY <2>1 DEF Put
  <2>5. s \in DOMAIN archive => archive[s] = shipped
    BY <2>3 DEF JournalOK, TicksOK, Journal
  <2>6. shipped \subseteq IdsOnDisk
    BY <2>3 DEF IdsOnDisk
  <2> HIDE DEF shipped
  <2>7. IdsInS3' = IdsInS3 \union shipped
    BY <2>4, <2>5 DEF IdsInS3
  <2>8. IdsOnDisk' = IdsOnDisk
    BY <2>2 DEF IdsOnDisk
  <2> QED BY <2>2, <2>6, <2>7, <2>8 DEF Log!Upload, Log!Next
<1>4. CASE Delete
  <2>1. /\ files' = [s \in DOMAIN files \ {bin_file} |-> files[s]]
        /\ UNCHANGED <<archive, flushed>>
    BY <1>4 DEF Delete
  <2>2. bin_file \in DOMAIN archive
    BY <1>4 DEF Delete, JobOK
  <2>3. bin_file \in DOMAIN files => Ids(files[bin_file].ticks) = archive[bin_file]
    BY <2>2 DEF JournalOK, TicksOK, Journal
  <2>4. ASSUME NEW s \in DOMAIN files
        PROVE  \/ Ids(files[s].ticks) \subseteq IdsInS3
               \/ Ids(files[s].ticks) \subseteq IdsOnDisk'
    <3>1. CASE s = bin_file
      BY <2>2, <2>3, <3>1 DEF IdsInS3
    <3>2. CASE s # bin_file
      BY <2>1, <3>2 DEF IdsOnDisk
    <3> QED BY <3>1, <3>2
  <2>5. IdsOnDisk \subseteq IdsOnDisk' \union IdsInS3
    BY <2>4 DEF IdsOnDisk
  <2>6. IdsOnDisk' \subseteq IdsOnDisk
    BY <2>1 DEF IdsOnDisk
  <2>7. IdsInS3' = IdsInS3
    BY <2>1 DEF IdsInS3
  <2> QED BY <2>1, <2>5, <2>6, <2>7 DEF Log!Delete, Log!Next
<1>5. CASE Signal \/ RunStarts \/ Connect \/ Disconnect \/ RunReturns \/ Crash \/ Restart
  BY <1>5, <1>b DEF Signal, RunStarts, Connect, Disconnect, RunReturns, Crash, Restart,
                    journalVars, jobVars
<1>6. CASE JobStarts \/ PolymarketPartExits \/ FindClosed \/ UploadFails \/ JobEnds \/ JobDies
  BY <1>6, <1>b DEF JobStarts, PolymarketPartExits, FindClosed, UploadFails, JobEnds,
                    JobDies, journalVars
<1>7. CASE Advance \/ UNCHANGED vars
  BY <1>7, <1>b DEF Advance, vars, journalVars, jobVars
<1> QED BY <1>1, <1>2, <1>3, <1>4, <1>5, <1>6, <1>7 DEF Next, Process, Job

-----------------------------------------------------------------------------
(* The buffer, the windows and the accounts, whatever the feed, the job and  *)
(* the disk do                                                               *)

\* The ticks that were buffered while a segment was open are of that segment.
Within(ticks, s) ==
  \A i \in DOMAIN ticks :
    ticks[i].segment # NoFile => ticks[i].segment = s /\ SegmentStart(ticks[i].ts) = s

\* A journal object at any moment of write().
ObjectOK(j) ==
  /\ j \in JournalType
  /\ HasOpenFile(j)
  /\ j.file_ # NoFile => /\ j.file_ = j.segment_start_ms_
                         /\ j.file_ <= clock
                         /\ SegmentStart(j.file_) = j.file_
  /\ Within(j.buf_, j.file_)
  /\ \A s \in DOMAIN j.files : Within(j.files[s].ticks, s)

\* Where the ticks of a journal object are.
Accounted(j) == j.flushed \union j.dropped \union Ids(j.buf_)

\* Every fopen has been good: nothing is dropped, and nothing waits without a file.
NeverFailed(j) == j.dropped = {} /\ (j.file_ = NoFile => j.buf_ = << >>)

ObjectInv ==
  /\ clock \in Nat
  /\ budget \in [ticks : Nat, crashes : Nat, failures : Nat]
  /\ connected => pc = "run"
  /\ pc = "down" => file_ = NoFile
  /\ pc = "exited" => buf_ = << >>
  /\ ObjectOK(Journal)
  /\ Len(buf_) < BUF_CAP
  /\ IsFiniteSet(crashed)
  /\ Cardinality(crashed) <= budget.crashes * (BUF_CAP - 1)
  /\ 1..budget.ticks = Accounted(Journal) \union crashed
  /\ budget.failures = 0 => NeverFailed(Journal)

\* A time is in one window only.
LEMMA NoLaterWindow ==
  ASSUME NEW q \in Nat, NEW k \in Nat, NEW ts \in Nat,
         ts < q * Rotation + Rotation, k * Rotation <= ts
  PROVE  ~ (q < k)
<1> SUFFICES ASSUME q < k PROVE FALSE
  OBVIOUS
<1>1. PICK d \in Nat : k = q + 1 + d
  <2>1. k - q - 1 \in Nat /\ k = q + 1 + (k - q - 1)
    OBVIOUS
  <2> QED BY <2>1
<1>2. k * Rotation = q * Rotation + Rotation + d * Rotation /\ d * Rotation >= 0
  BY <1>1, JournalAssumption
<1>3. q * Rotation \in Nat /\ Rotation \in Nat /\ d * Rotation \in Nat
  BY JournalAssumption
<1> QED BY <1>2, <1>3

\* The bounds of a window's index.
LEMMA WindowIndex ==
  ASSUME NEW ts \in Nat
  PROVE  LET q == ts \div Rotation IN
         /\ q \in Nat /\ SegmentStart(ts) = q * Rotation
         /\ q * Rotation <= ts /\ ts < q * Rotation + Rotation
BY JournalAssumption, SegmentStartBounds DEF SegmentStart

LEMMA OneWindow ==
  ASSUME NEW a \in Nat, SegmentStart(a) = a, NEW ts \in Nat, a <= ts, ts < a + Rotation
  PROVE  SegmentStart(ts) = a
<1> DEFINE k == a \div Rotation
           q == ts \div Rotation
<1>1. /\ k \in Nat /\ q \in Nat
      /\ a = k * Rotation /\ SegmentStart(ts) = q * Rotation
      /\ q * Rotation <= ts /\ ts < q * Rotation + Rotation
  BY WindowIndex
<1> HIDE DEF k, q
<1>2. ~ (q < k) /\ ~ (k < q)
  BY <1>1, NoLaterWindow
<1>3. q = k
  BY <1>1, <1>2
<1> QED BY <1>1, <1>3

LEMMA WindowStart ==
  ASSUME NEW ts \in Nat
  PROVE  SegmentStart(SegmentStart(ts)) = SegmentStart(ts)
<1> DEFINE s == SegmentStart(ts)
           q == ts \div Rotation
           k == s \div Rotation
<1>1. /\ q \in Nat /\ s = q * Rotation
  BY WindowIndex
<1>2. s \in Nat /\ s < q * Rotation + Rotation /\ q * Rotation <= s
  BY <1>1, JournalAssumption, SegmentStartBounds
<1>3. /\ k \in Nat /\ SegmentStart(s) = k * Rotation
      /\ k * Rotation <= s /\ s < k * Rotation + Rotation
  BY <1>2, WindowIndex
<1> HIDE DEF s, q, k
<1>4. ~ (q < k) /\ ~ (k < q)
  BY <1>1, <1>2, <1>3, NoLaterWindow
<1>5. q = k
  BY <1>1, <1>3, <1>4
<1> QED BY <1>1, <1>3, <1>5 DEF s

\* What holds of two runs of ticks holds of one after the other.
LEMMA WithinConcat ==
  ASSUME NEW a \in Seq(TickRecord), NEW b \in Seq(TickRecord), NEW s,
         Within(a, s), Within(b, s)
  PROVE  Within(a \o b, s)
<1>1. ASSUME NEW i \in DOMAIN (a \o b)
      PROVE  \/ i \in DOMAIN a /\ (a \o b)[i] = a[i]
             \/ i - Len(a) \in DOMAIN b /\ (a \o b)[i] = b[i - Len(a)]
  OBVIOUS
<1> QED BY <1>1 DEF Within

\* flush() in each of its branches.
LEMMA FlushObject ==
  ASSUME NEW j, ObjectOK(j), clock \in Nat
  PROVE  LET f == flush(j) IN
         /\ ObjectOK(f)
         /\ f.file_ = j.file_
         /\ f.buf_ = << >>
         /\ Accounted(f) = Accounted(j)
         /\ NeverFailed(j) => NeverFailed(f)
<1> DEFINE f == flush(j)
<1>1. /\ f \in JournalType
      /\ f.file_ = j.file_ /\ f.segment_start_ms_ = j.segment_start_ms_
      /\ f.linked = j.linked
      /\ f.buf_ = << >>
      /\ DOMAIN f.files = DOMAIN j.files
      /\ j.file_ = NoFile => /\ f.flushed = j.flushed
                             /\ f.dropped = j.dropped \union Ids(j.buf_)
      /\ j.file_ # NoFile => /\ f.flushed = j.flushed \union Ids(j.buf_)
                             /\ f.dropped = j.dropped
      /\ \A s \in DOMAIN j.files :
           \/ /\ s = j.file_ /\ j.linked
              /\ f.files[s].ticks = j.files[s].ticks \o j.buf_
              /\ f.files[s].mtime = clock
           \/ /\ s = j.file_ /\ j.linked => j.buf_ = << >>
              /\ f.files[s] = j.files[s]
  BY FlushFields DEF ObjectOK
<1> HIDE DEF f
<1>2. Ids(f.buf_) = {}
  BY <1>1 DEF Ids
<1>3. Accounted(f) = Accounted(j)
  BY <1>1, <1>2 DEF Accounted
<1>4. NeverFailed(j) => NeverFailed(f)
  <2>1. j.buf_ = << >> => Ids(j.buf_) = {}
    BY DEF Ids
  <2> QED BY <1>1, <2>1 DEF NeverFailed
<1>5. ASSUME NEW s \in DOMAIN j.files
      PROVE  Within(f.files[s].ticks, s)
  <2>1. j.files[s].ticks \in Seq(TickRecord) /\ j.buf_ \in Seq(TickRecord)
    BY LookupSegment DEF ObjectOK, JournalType, Segment, TickRecord
  <2>2. Within(j.files[s].ticks, s) /\ Within(j.buf_, j.file_)
    BY DEF ObjectOK
  <2>3. s = j.file_ => Within(j.files[s].ticks \o j.buf_, s)
    BY <2>1, <2>2, WithinConcat
  <2> QED BY <1>1, <2>2, <2>3
<1>6. Within(f.buf_, f.file_)
  BY <1>1 DEF Within
<1>7. ObjectOK(f)
  BY <1>1, <1>5, <1>6 DEF ObjectOK, HasOpenFile
<1> QED BY <1>1, <1>3, <1>4, <1>7 DEF f

\* fclose, of a journal whose buffer has been flushed
LEMMA CloseObject ==
  ASSUME NEW j, ObjectOK(j), j.buf_ = << >>
  PROVE  LET c == close_segment(j) IN
         /\ ObjectOK(c)
         /\ c.file_ = NoFile
         /\ c.buf_ = << >>
         /\ Accounted(c) = Accounted(j)
         /\ NeverFailed(j) => NeverFailed(c)
<1> DEFINE c == close_segment(j)
<1>1. /\ c \in JournalType /\ c.file_ = NoFile
      /\ c.buf_ = j.buf_ /\ c.files = j.files
      /\ c.flushed = j.flushed /\ c.dropped = j.dropped
  BY CloseFields DEF ObjectOK
<1> HIDE DEF c
<1>2. Within(c.buf_, c.file_)
  BY <1>1 DEF Within
<1>3. ObjectOK(c)
  BY <1>1, <1>2 DEF ObjectOK, HasOpenFile
<1>4. Accounted(c) = Accounted(j) /\ (NeverFailed(j) => NeverFailed(c))
  BY <1>1 DEF Accounted, NeverFailed
<1> QED BY <1>1, <1>3, <1>4 DEF c

\* fopen: what waits without a file belongs to no segment.
LEMMA OpenObject ==
  ASSUME NEW j, ObjectOK(j), j.file_ = NoFile, NEW opens \in BOOLEAN, clock \in Nat
  PROVE  LET o == open_segment(j, clock, opens) IN
         /\ ObjectOK(o)
         /\ opens => o.file_ # NoFile
         /\ o.file_ # NoFile => o.file_ = SegmentStart(clock)
         /\ Accounted(o) = Accounted(j)
         /\ NeverFailed(j) => NeverFailed(o)
<1> DEFINE o == open_segment(j, clock, opens)
           s == SegmentStart(clock)
<1>1. s \in Nat /\ s <= clock /\ SegmentStart(s) = s
  BY SegmentStartBounds, WindowStart
<1>2. /\ o \in JournalType
      /\ o.segment_start_ms_ = s
      /\ o.buf_ = j.buf_ /\ o.flushed = j.flushed /\ o.dropped = j.dropped
      /\ opens => /\ o.file_ = s /\ o.linked
                  /\ DOMAIN o.files = DOMAIN j.files \union {s}
                  /\ \A x \in DOMAIN j.files : o.files[x] = j.files[x]
                  /\ s \notin DOMAIN j.files =>
                       o.files[s] = [ticks |-> << >>, mtime |-> clock]
      /\ ~ opens => o.file_ = j.file_ /\ o.linked = j.linked /\ o.files = j.files
  BY OpenFields DEF ObjectOK
<1> HIDE DEF o
<1>3. \A x : Within(o.buf_, x)
  BY <1>2 DEF ObjectOK, Within
<1>4. s \notin DOMAIN j.files => (opens => Within(o.files[s].ticks, s))
  <2>1. Within(<< >>, s)
    BY DEF Within
  <2> QED BY <1>2, <2>1
<1> HIDE DEF s
<1>5. ObjectOK(o)
  <2>1. ASSUME NEW x \in DOMAIN o.files
        PROVE  Within(o.files[x].ticks, x)
    BY <1>2, <1>4 DEF ObjectOK
  <2> QED BY <1>1, <1>2, <1>3, <2>1 DEF ObjectOK, HasOpenFile
<1>6. Accounted(o) = Accounted(j) /\ (NeverFailed(j) => NeverFailed(o))
  BY <1>2 DEF Accounted, NeverFailed
<1> QED BY <1>1, <1>2, <1>5, <1>6, NoFileAssumption DEF o, s

\* rotate_if_needed(): the file that is open afterwards is the present window's.
LEMMA RotateObject ==
  ASSUME NEW j, ObjectOK(j), NEW opens \in BOOLEAN, clock \in Nat
  PROVE  LET r == rotate_if_needed(j, clock, opens) IN
         /\ ObjectOK(r)
         /\ opens => r.file_ # NoFile
         /\ r.file_ # NoFile => r.file_ = SegmentStart(clock)
         /\ Accounted(r) = Accounted(j)
         /\ NeverFailed(j) => NeverFailed(r)
<1>1. CASE j.file_ = NoFile
  BY <1>1, OpenObject DEF rotate_if_needed
<1>2. CASE j.file_ # NoFile /\ RotationDue(j, clock)
  <2> DEFINE f == flush(j)
             c == close_segment(f)
             o == open_segment(c, clock, opens)
  <2>1. rotate_if_needed(j, clock, opens) = o
    BY <1>2 DEF rotate_if_needed
  <2>2. /\ ObjectOK(f) /\ f.buf_ = << >>
        /\ Accounted(f) = Accounted(j) /\ (NeverFailed(j) => NeverFailed(f))
    BY FlushObject
  <2> HIDE DEF f
  <2>3. /\ ObjectOK(c) /\ c.file_ = NoFile
        /\ Accounted(c) = Accounted(f) /\ (NeverFailed(f) => NeverFailed(c))
    BY <2>2, CloseObject
  <2> HIDE DEF c
  <2>4. /\ ObjectOK(o)
        /\ opens => o.file_ # NoFile
        /\ o.file_ # NoFile => o.file_ = SegmentStart(clock)
        /\ Accounted(o) = Accounted(c) /\ (NeverFailed(c) => NeverFailed(o))
    BY <2>3, OpenObject
  <2> HIDE DEF o
  <2> QED BY <2>1, <2>2, <2>3, <2>4
<1>3. CASE j.file_ # NoFile /\ ~ RotationDue(j, clock)
  <2>1. rotate_if_needed(j, clock, opens) = j
    BY <1>3 DEF rotate_if_needed
  <2>2. /\ j.file_ \in Nat /\ j.file_ = j.segment_start_ms_
        /\ j.file_ <= clock /\ SegmentStart(j.file_) = j.file_
    BY <1>3 DEF ObjectOK, JournalType
  <2>3. clock < j.file_ + Rotation
    BY <1>3, <2>2, JournalAssumption DEF RotationDue
  <2>4. SegmentStart(clock) = j.file_
    BY <2>2, <2>3, OneWindow
  <2> QED BY <1>3, <2>1, <2>4
<1> QED BY <1>1, <1>2, <1>3

\* A flush at a full buffer leaves room for a tick.
LEMMA FlushIfFullObject ==
  ASSUME NEW j, ObjectOK(j), clock \in Nat
  PROVE  LET f == FlushIfFull(j) IN
         /\ ObjectOK(f)
         /\ f.file_ = j.file_
         /\ Len(f.buf_) < BUF_CAP
         /\ Accounted(f) = Accounted(j)
         /\ NeverFailed(j) => NeverFailed(f)
<1>1. CASE Len(j.buf_) >= BUF_CAP
  <2>1. FlushIfFull(j) = flush(j)
    BY <1>1 DEF FlushIfFull
  <2>2. Len(<< >>) < BUF_CAP
    BY EmptyBuffer, JournalAssumption
  <2> QED BY <2>1, <2>2, FlushObject
<1>2. CASE ~ (Len(j.buf_) >= BUF_CAP)
  <2>1. FlushIfFull(j) = j
    BY <1>2 DEF FlushIfFull
  <2>2. Len(j.buf_) \in Nat
    BY DEF ObjectOK, JournalType
  <2> QED BY <1>2, <2>1, <2>2, JournalAssumption
<1> QED BY <1>1, <1>2

\* write() as a whole.
LEMMA WriteObject ==
  ASSUME NEW j, ObjectOK(j), NEW opens \in BOOLEAN, clock \in Nat, NEW id \in Nat
  PROVE  LET w == write(j, [id |-> id, ts |-> clock], opens) IN
         /\ ObjectOK(w)
         /\ Len(w.buf_) < BUF_CAP
         /\ Accounted(w) = Accounted(j) \union {id}
         /\ opens /\ NeverFailed(j) => NeverFailed(w)
<1> DEFINE r == rotate_if_needed(j, clock, opens)
           f == FlushIfFull(r)
           t == [id |-> id, ts |-> clock, segment |-> f.file_]
           a == [f EXCEPT !.buf_ = Append(@, t)]
           w == FlushIfFull(a)
<1>1. write(j, [id |-> id, ts |-> clock], opens) = w
  BY DEF write
<1>2. /\ ObjectOK(r)
      /\ opens => r.file_ # NoFile
      /\ r.file_ # NoFile => r.file_ = SegmentStart(clock)
      /\ Accounted(r) = Accounted(j) /\ (NeverFailed(j) => NeverFailed(r))
  BY RotateObject
<1> HIDE DEF r
<1>3. /\ ObjectOK(f) /\ f.file_ = r.file_
      /\ Accounted(f) = Accounted(r) /\ (NeverFailed(r) => NeverFailed(f))
  BY <1>2, FlushIfFullObject
<1> HIDE DEF f
<1>4. /\ t \in TickRecord
      /\ t.id = id /\ t.ts = clock /\ t.segment = f.file_
  BY <1>3 DEF TickRecord, ObjectOK, JournalType
<1> HIDE DEF t
<1>5. /\ a \in JournalType
      /\ a.buf_ = Append(f.buf_, t)
      /\ a.file_ = f.file_ /\ a.segment_start_ms_ = f.segment_start_ms_
      /\ a.files = f.files /\ a.linked = f.linked
      /\ a.flushed = f.flushed /\ a.dropped = f.dropped
  BY <1>3, <1>4, AppendFields DEF ObjectOK
<1> HIDE DEF a
<1>a. f.buf_ \in Seq(TickRecord) /\ <<t>> \in Seq(TickRecord)
  BY <1>3, <1>4 DEF ObjectOK, JournalType
<1>b. a.buf_ = f.buf_ \o <<t>>
  BY <1>5, <1>a
<1>6. Within(a.buf_, a.file_)
  <2>1. Within(f.buf_, f.file_)
    BY <1>3 DEF ObjectOK
  <2>2. Within(<<t>>, f.file_)
    BY <1>2, <1>3, <1>4 DEF Within
  <2> QED BY <1>5, <1>a, <1>b, <2>1, <2>2, WithinConcat
<1>7. Ids(a.buf_) = Ids(f.buf_) \union {id}
  <2>1. Ids(<<t>>) = {id}
    BY <1>4 DEF Ids
  <2> QED BY <1>a, <1>b, <2>1, IdsOfConcat
<1>8. ObjectOK(a)
  BY <1>3, <1>5, <1>6 DEF ObjectOK, HasOpenFile
<1>9. Accounted(a) = Accounted(f) \union {id}
  BY <1>5, <1>7 DEF Accounted
<1>10. opens /\ NeverFailed(f) => NeverFailed(a)
  BY <1>2, <1>3, <1>5 DEF NeverFailed
<1>11. /\ ObjectOK(w) /\ Len(w.buf_) < BUF_CAP
       /\ Accounted(w) = Accounted(a) /\ (NeverFailed(a) => NeverFailed(w))
  BY <1>8, FlushIfFullObject
<1> HIDE DEF w
<1> QED BY <1>1, <1>2, <1>3, <1>9, <1>10, <1>11

\* A buffer has no more ids than ticks.
LEMMA FewIds ==
  ASSUME NEW b \in Seq(TickRecord)
  PROVE  IsFiniteSet(Ids(b)) /\ Cardinality(Ids(b)) <= Len(b)
<1> DEFINE S == 1..Len(b)
           g == [i \in S |-> b[i].id]
<1>1. S = DOMAIN b /\ Len(b) \in Nat
  OBVIOUS
<1>2. IsFiniteSet(S) /\ Cardinality(S) = Len(b)
  BY <1>1, FS_Interval
<1>3. g \in Surjection(S, Ids(b))
  BY <1>1 DEF Ids, Surjection
<1> QED BY <1>2, <1>3, FS_Surjection

\* A crash takes less than a full buffer.
LEMMA CrashTakesLittle ==
  ASSUME ObjectInv
  PROVE  /\ IsFiniteSet(crashed \union Ids(buf_))
         /\ Cardinality(crashed \union Ids(buf_)) <= (budget.crashes + 1) * (BUF_CAP - 1)
<1>1. buf_ \in Seq(TickRecord)
  BY DEF ObjectInv, ObjectOK, Journal, JournalType
<1> DEFINE lost == Ids(buf_)
           limit == BUF_CAP - 1
           n == budget.crashes
<1>2. IsFiniteSet(lost) /\ Cardinality(lost) <= Len(buf_)
  BY <1>1, FewIds
<1> HIDE DEF lost
<1>3. IsFiniteSet(crashed)
  BY DEF ObjectInv
<1>4. /\ IsFiniteSet(crashed \union lost)
      /\ Cardinality(crashed \union lost)
           = Cardinality(crashed) + Cardinality(lost) - Cardinality(crashed \intersect lost)
  BY <1>2, <1>3, FS_Union
<1>5. IsFiniteSet(crashed \intersect lost)
  BY <1>3, FS_Intersection, <1>2
<1>6. /\ Cardinality(crashed) \in Nat /\ Cardinality(lost) \in Nat
      /\ Cardinality(crashed \intersect lost) \in Nat
  BY <1>2, <1>3, <1>5, FS_CardinalityType
<1>7. limit \in Nat /\ n \in Nat /\ Len(buf_) <= limit /\ Cardinality(crashed) <= n * limit
  BY <1>1, JournalAssumption DEF ObjectInv
<1> HIDE DEF limit, n
<1>8. (n + 1) * limit = n * limit + limit
  BY <1>7
<1>9. n * limit \in Nat /\ Len(buf_) \in Nat
  BY <1>1, <1>7
<1>10. Cardinality(crashed \union lost) <= (n + 1) * limit
  BY <1>2, <1>4, <1>6, <1>7, <1>8, <1>9
<1> QED BY <1>4, <1>10 DEF lost, limit, n

LEMMA ObjectInvInit ==
  ASSUME Init
  PROVE  ObjectInv
<1>1. << >> \in Maps(Segment)
  <2>1. << >> \in [{} -> Segment] /\ {} \in SUBSET Nat
    OBVIOUS
  <2> QED BY <2>1 DEF Maps
<1>2. ObjectOK(Journal)
  <2>1. Journal \in JournalType
    BY <1>1, EmptyBuffer DEF Init, Journal, JournalType
  <2>2. Journal.file_ = NoFile /\ Journal.buf_ = << >> /\ Journal.files = << >>
    BY DEF Init, Journal
  <2>3. \A s : Within(<< >>, s)
    BY DEF Within
  <2> QED BY <2>1, <2>2, <2>3 DEF ObjectOK, HasOpenFile
<1>3. Accounted(Journal) = {} /\ NeverFailed(Journal)
  BY DEF Init, Journal, Accounted, NeverFailed, Ids
<1>4. IsFiniteSet(crashed) /\ Cardinality(crashed) = 0
  BY FS_EmptySet DEF Init
<1>5. 1..budget.ticks = {} /\ crashed = {}
  BY DEF Init
<1>6. 0 <= budget.crashes * (BUF_CAP - 1)
  BY JournalAssumption DEF Init
<1> QED BY <1>2, <1>3, <1>4, <1>5, <1>6, EmptyBuffer, JournalAssumption DEF Init, ObjectInv

\* The journal object after a step that leaves it at j.
LEMMA BecomesObject ==
  ASSUME NEW j, ObjectOK(j), JournalBecomes(j), clock' = clock
  PROVE  Journal' = j /\ buf_' = j.buf_ /\ file_' = j.file_ /\ ObjectOK(Journal)'
<1>1. Journal' = j
  BY DEF JournalBecomes, Journal, ObjectOK, JournalType
<1>2. ObjectOK(Journal)'
  BY <1>1 DEF ObjectOK, HasOpenFile
<1> QED BY <1>1, <1>2 DEF JournalBecomes

LEMMA ObjectInvStep ==
  ASSUME ObjectInv, [Next]_vars
  PROVE  ObjectInv'
<1> USE DEF ObjectInv
<1>0. buf_ = Journal.buf_ /\ file_ = Journal.file_
  BY DEF Journal
<1>1. CASE OnMessage
  <2>1. PICK opens \in BOOLEAN :
          /\ JournalBecomes(write(Journal, [id |-> budget.ticks + 1, ts |-> clock], opens))
          /\ budget' = [budget EXCEPT !.ticks = @ + 1,
                                      !.failures = IF opens THEN @ ELSE @ + 1]
    BY <1>1 DEF OnMessage
  <2> DEFINE id == budget.ticks + 1
             w == write(Journal, [id |-> id, ts |-> clock], opens)
  <2>2. /\ id \in Nat /\ clock' = clock /\ crashed' = crashed
        /\ pc = "run" /\ pc' = "run"
    BY <1>1 DEF OnMessage, mainVars
  <2>3. /\ ObjectOK(w) /\ Len(w.buf_) < BUF_CAP
        /\ Accounted(w) = Accounted(Journal) \union {id}
        /\ opens /\ NeverFailed(Journal) => NeverFailed(w)
    BY <2>2, WriteObject
  <2>4. JournalBecomes(w)
    BY <2>1
  <2> HIDE DEF w
  <2>5. Journal' = w /\ buf_' = w.buf_ /\ file_' = w.file_ /\ ObjectOK(Journal)'
    BY <2>2, <2>3, <2>4, BecomesObject
  <2>6. /\ budget' \in [ticks : Nat, crashes : Nat, failures : Nat]
        /\ budget'.ticks = id /\ budget'.crashes = budget.crashes
        /\ budget'.failures = 0 => opens /\ budget.failures = 0
    <3> DEFINE n == IF opens THEN budget.failures ELSE budget.failures + 1
    <3>1. n \in Nat /\ (n = 0 => opens /\ budget.failures = 0)
      OBVIOUS
    <3>2. budget' = [budget EXCEPT !.ticks = budget.ticks + 1, !.failures = n]
      BY <2>1
    <3> HIDE DEF n
    <3> QED BY <2>2, <3>1, <3>2
  <2>7. 1..id = 1..budget.ticks \union {id}
    BY <2>2
  <2>8. Accounted(Journal)' = Accounted(w) /\ (NeverFailed(w) => NeverFailed(Journal)')
    BY <2>5 DEF Accounted, NeverFailed
  <2>9. 1..budget'.ticks = Accounted(Journal)' \union crashed'
    BY <2>2, <2>3, <2>6, <2>7, <2>8
  <2> QED BY <2>2, <2>3, <2>5, <2>6, <2>8, <2>9
<1>2. CASE Destroy
  <2> DEFINE f == flush(Journal)
             c == close_segment(f)
  <2>1. /\ JournalBecomes(c) /\ UNCHANGED <<clock, crashed, budget, connected>>
        /\ pc = "stop" /\ pc' = "exited"
    BY <1>2 DEF Destroy
  <2>2. /\ ObjectOK(f) /\ f.buf_ = << >>
        /\ Accounted(f) = Accounted(Journal) /\ (NeverFailed(Journal) => NeverFailed(f))
    BY FlushObject
  <2> HIDE DEF f
  <2>3. /\ ObjectOK(c) /\ c.buf_ = << >>
        /\ Accounted(c) = Accounted(f) /\ (NeverFailed(f) => NeverFailed(c))
    BY <2>2, CloseObject
  <2> HIDE DEF c
  <2>4. Journal' = c /\ buf_' = c.buf_ /\ ObjectOK(Journal)'
    BY <2>1, <2>3, BecomesObject
  <2>5. Accounted(Journal)' = Accounted(c) /\ (NeverFailed(c) => NeverFailed(Journal)')
    BY <2>4 DEF Accounted, NeverFailed
  <2> QED BY <2>1, <2>2, <2>3, <2>4, <2>5, EmptyBuffer, JournalAssumption
<1>3. CASE Crash
  <2>1. /\ file_' = NoFile /\ buf_' = << >> /\ crashed' = crashed \union Ids(buf_)
        /\ UNCHANGED <<segment_start_ms_, files, linked, flushed, dropped, clock>>
        /\ pc' = "down" /\ connected' = FALSE
        /\ budget' = [budget EXCEPT !.crashes = @ + 1]
    BY <1>3 DEF Crash
  <2>2. /\ budget' \in [ticks : Nat, crashes : Nat, failures : Nat]
        /\ budget'.ticks = budget.ticks /\ budget'.crashes = budget.crashes + 1
        /\ budget'.failures = budget.failures
    BY <2>1
  <2>3. /\ Journal'.file_ = NoFile /\ Journal'.buf_ = << >> /\ Journal'.files = files
        /\ Journal'.flushed = flushed /\ Journal'.dropped = dropped
    BY <2>1 DEF Journal
  <2>4. Journal' \in JournalType
    <3>1. /\ segment_start_ms_ \in Nat /\ files \in Maps(Segment) /\ linked \in BOOLEAN
          /\ flushed \in SUBSET Nat /\ dropped \in SUBSET Nat
      BY DEF Journal, ObjectOK, JournalType
    <3> QED BY <2>1, <3>1, EmptyBuffer DEF Journal, JournalType
  <2>5. ObjectOK(Journal)'
    BY <2>3, <2>4 DEF ObjectOK, HasOpenFile, Within, Journal
  <2>6. Accounted(Journal)' \union crashed' = Accounted(Journal) \union crashed
    BY <2>1 DEF Accounted, Journal, Ids
  <2>7. budget'.failures = 0 => NeverFailed(Journal)'
    BY <2>1, <2>2 DEF NeverFailed, Journal
  <2>8. IsFiniteSet(crashed') /\ Cardinality(crashed') <= budget'.crashes * (BUF_CAP - 1)
    BY <2>1, <2>2, CrashTakesLittle
  <2>9. Len(buf_') < BUF_CAP /\ buf_' = << >>
    BY <2>1, EmptyBuffer, JournalAssumption
  <2>10. 1..budget'.ticks = Accounted(Journal)' \union crashed'
    BY <2>2, <2>6
  <2>11. clock' \in Nat /\ ~ connected' /\ pc' = "down" /\ file_' = NoFile
    BY <2>1
  <2> QED BY <2>2, <2>5, <2>7, <2>8, <2>9, <2>10, <2>11
<1>4. CASE Restart
  <2>1. /\ file_ = NoFile /\ segment_start_ms_' = 0 /\ pc' = "boot" /\ ~ connected
        /\ UNCHANGED <<connected, file_, buf_, files, linked, flushed, dropped, clock,
                       crashed, budget>>
    BY <1>4 DEF Restart
  <2>2. Journal' \in JournalType
    <3>1. /\ files \in Maps(Segment) /\ linked \in BOOLEAN /\ buf_ \in Seq(TickRecord)
          /\ flushed \in SUBSET Nat /\ dropped \in SUBSET Nat
      BY DEF Journal, ObjectOK, JournalType
    <3> QED BY <2>1, <3>1 DEF Journal, JournalType
  <2>3. ObjectOK(Journal)'
    BY <2>1, <2>2 DEF ObjectOK, HasOpenFile, Journal
  <2>4. Accounted(Journal)' = Accounted(Journal) /\ (NeverFailed(Journal) => NeverFailed(Journal)')
    BY <2>1 DEF Accounted, NeverFailed, Journal
  <2> QED BY <2>1, <2>3, <2>4
<1>5. CASE Delete
  <2>1. /\ files' = [s \in DOMAIN files \ {bin_file} |-> files[s]]
        /\ linked' = (linked /\ file_ # bin_file)
        /\ UNCHANGED <<file_, segment_start_ms_, buf_, flushed, dropped, mainVars, clock,
                       crashed, budget>>
    BY <1>5 DEF Delete
  <2>2. files' \in Maps(Segment)
    <3>1. PICK D \in SUBSET Nat : files \in [D -> Segment]
      BY DEF ObjectOK, Journal, JournalType, Maps
    <3>2. D \ {bin_file} \in SUBSET Nat /\ files' \in [D \ {bin_file} -> Segment]
      BY <2>1, <3>1
    <3> QED BY <3>2 DEF Maps
  <2>3. Journal' \in JournalType
    <3>1. Journal \in JournalType /\ linked' \in BOOLEAN
      BY <2>1 DEF ObjectOK
    <3> QED BY <2>1, <2>2, <3>1 DEF Journal, JournalType
  <2>4. ObjectOK(Journal)'
    BY <2>1, <2>3 DEF ObjectOK, HasOpenFile, Journal
  <2>5. Accounted(Journal)' = Accounted(Journal) /\ (NeverFailed(Journal) => NeverFailed(Journal)')
    BY <2>1 DEF Accounted, NeverFailed, Journal
  <2> QED BY <2>1, <2>4, <2>5 DEF mainVars
<1>6. CASE Advance
  <2>1. clock' = clock + 1 /\ UNCHANGED <<mainVars, journalVars, crashed, budget>>
    BY <1>6 DEF Advance
  <2>2. Journal' = Journal
    BY <2>1 DEF Journal, journalVars
  <2>3. ObjectOK(Journal)'
    <3>1. Journal.file_ \in Nat \union {NoFile}
      BY DEF ObjectOK, JournalType
    <3> QED BY <2>1, <2>2, <3>1 DEF ObjectOK, HasOpenFile
  <2>4. Accounted(Journal)' = Accounted(Journal) /\ (NeverFailed(Journal) => NeverFailed(Journal)')
    BY <2>2 DEF Accounted, NeverFailed
  <2> QED BY <2>1, <2>3, <2>4 DEF mainVars, journalVars
<1>7. CASE \/ Signal \/ RunStarts \/ Connect \/ Disconnect \/ RunReturns
           \/ JobStarts \/ PolymarketPartExits \/ FindClosed \/ Upload \/ UploadFails
           \/ JobEnds \/ JobDies \/ UNCHANGED vars
  <2>1. UNCHANGED <<journalVars, clock, crashed, budget>>
    BY <1>7 DEF Signal, RunStarts, Connect, Disconnect, RunReturns, JobStarts,
                PolymarketPartExits, FindClosed, Upload, UploadFails, JobEnds, JobDies, vars
  <2>2. Journal' = Journal
    BY <2>1 DEF Journal, journalVars
  <2>3. ObjectOK(Journal)'
    BY <2>1, <2>2 DEF ObjectOK, HasOpenFile
  <2>4. Accounted(Journal)' = Accounted(Journal) /\ (NeverFailed(Journal) => NeverFailed(Journal)')
    BY <2>2 DEF Accounted, NeverFailed
  <2>5. /\ connected' => pc' = "run"
        /\ pc' = "down" => pc = "down"
        /\ pc' = "exited" => pc = "exited"
    BY <1>7 DEF Signal, RunStarts, Connect, Disconnect, RunReturns, JobStarts,
                PolymarketPartExits, FindClosed, Upload, UploadFails, JobEnds, JobDies, vars,
                mainVars
  <2> QED BY <2>1, <2>3, <2>4, <2>5 DEF journalVars
<1> QED BY <1>1, <1>2, <1>3, <1>4, <1>5, <1>6, <1>7 DEF Next, Process, Job

LEMMA ObjectInvHolds == Spec => []ObjectInv
BY ObjectInvInit, ObjectInvStep, PTL DEF Spec

-----------------------------------------------------------------------------
(* The theorems *)

\* Between two writes the buffer has room for a tick, so that no write passes
\* its end: for every size of it, whatever fopen calls fail and however long.
THEOREM BufferNeverOverflows == Spec => []BufferHasRoom
<1>1. ObjectInv => BufferHasRoom
  BY DEF ObjectInv, BufferHasRoom
<1> QED BY <1>1, ObjectInvHolds, PTL

\* A tick that is buffered while a segment is open comes to that segment's file,
\* whose window holds it: for every interval, every feed, and also when the job
\* deletes the file under the journal.
THEOREM TicksAreInTheirWindow == Spec => []SegmentHoldsItsWindow
<1>1. ObjectInv => SegmentHoldsItsWindow
  <2>1. Journal.files = files
    BY DEF Journal
  <2> QED BY <2>1 DEF ObjectInv, ObjectOK, Within, SegmentHoldsItsWindow
<1> QED BY <1>1, ObjectInvHolds, PTL

\* Every tick is flushed, dropped for want of a file, lost by a crash or in the
\* buffer; the destructor leaves none there, and a crash loses less than BUF_CAP.
THEOREM LossesAreAccountedFor == Spec => []OnlyCrashesAndFailuresLoseTicks
<1>1. ObjectInv => OnlyCrashesAndFailuresLoseTicks
  <2> SUFFICES ASSUME ObjectInv PROVE OnlyCrashesAndFailuresLoseTicks
    OBVIOUS
  <2>1. Accounted(Journal) = flushed \union dropped \union Ids(buf_)
    BY DEF Accounted, Journal
  <2>2. buf_ = << >> => Ids(buf_) = {}
    BY DEF Ids
  <2>3. pc = "exited" => 1..budget.ticks = flushed \union dropped \union crashed
    BY <2>1, <2>2 DEF ObjectInv
  <2>4. budget.failures = 0 => dropped = {}
    BY DEF ObjectInv, NeverFailed, Journal
  <2> QED BY <2>3, <2>4 DEF ObjectInv, OnlyCrashesAndFailuresLoseTicks
<1> QED BY <1>1, ObjectInvHolds, PTL

\* hourly_flush.sh never takes or deletes the open segment, if the feed is
\* never silent for longer than MinAge - Rotation (5 minutes in the source).
THEOREM OpenSegmentIsSafe ==
  ASSUME Rotation + MaxGap <= MinAge
  PROVE  Spec => []OpenSegmentIsNotTaken
<1>1. IInv => OpenSegmentIsNotTaken
  BY DEF IInv, JournalOK, DirectoryOK, Journal, Taken, OpenSegmentIsNotTaken
<1>2. Spec => []IInv
  BY IInvHolds DEF ShortSilence
<1> QED BY <1>1, <1>2, PTL

\* No tick that a flush has written to a segment is lost by what the job
\* uploads, replaces and deletes: it is in a segment on disk or in S3.
FlushedTicksSurvive ==
  \A id \in flushed : \/ \E s \in DOMAIN files : id \in Ids(files[s].ticks)
                      \/ \E s \in DOMAIN archive : id \in archive[s]

\* Under the same condition every flushed tick is on disk or in S3 at every
\* moment, whatever uploads fail and wherever a crash or the job's end falls.
THEOREM FlushedTicksAreSafe ==
  ASSUME Rotation + MaxGap <= MinAge
  PROVE  Spec => []FlushedTicksSurvive
<1>1. IInv => FlushedTicksSurvive
  <2>1. Journal.flushed = flushed /\ Journal.files = files
    BY DEF Journal
  <2> QED BY <2>1 DEF IInv, JournalOK, TicksOK, FlushedTicksSurvive
<1>2. Spec => []IInv
  BY IInvHolds DEF ShortSilence
<1> QED BY <1>1, <1>2, PTL

\* Under the same condition the journal, its crashes and restarts, and the cron
\* job implement the log: a step of theirs writes, uploads or deletes, or the
\* log does not see it.
THEOREM JournalImplementsLog ==
  ASSUME Rotation + MaxGap <= MinAge
  PROVE  Spec => ImplementsLog
<1>1. Init => Log!Init
  BY DEF Init, Log!Init, IdsOnDisk, IdsInS3
<1>2. IInv /\ [Next]_vars => [Log!Next]_(Log!logVars)
  BY StepLogs DEF ShortSilence
<1>3. Spec => []IInv
  BY IInvHolds DEF ShortSilence
<1> QED BY <1>1, <1>2, <1>3, PTL DEF Spec, ImplementsLog, Log!Spec
=============================================================================
