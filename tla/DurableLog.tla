----------------------------- MODULE DurableLog -----------------------------
(***************************************************************************)
(* What capture to disk promises, whichever process writes and however the *)
(* cron job ships: a log whose entries are on disk or in S3.  Files, their *)
(* names and times, buffers, rotations, crashes and retries are hidden.    *)
(* Tickerplant and BtcJournal both implement it, each with its half of     *)
(* scripts/harvester/hourly_flush.sh.                                      *)
(***************************************************************************)

VARIABLES
  written,  \* every tick that has been written
  disk,     \* the ticks on disk
  archive   \* the ticks in S3

logVars == <<written, disk, archive>>

Init == written = {} /\ disk = {} /\ archive = {}

\* What is written comes to the disk, and nothing leaves it.
Write ==
  /\ disk \subseteq disk'
  /\ written' = written \union disk'
  /\ UNCHANGED archive

\* Copies of what is on disk join the archive, and nothing leaves it.
Upload ==
  /\ archive \subseteq archive'
  /\ archive' \subseteq archive \union disk
  /\ UNCHANGED <<written, disk>>

\* Only what has a copy in the archive is taken off the disk.
Delete ==
  /\ disk' \subseteq disk
  /\ disk \subseteq disk' \union archive
  /\ UNCHANGED <<written, archive>>

Next == Write \/ Upload \/ Delete

Spec == Init /\ [][Next]_logVars
=============================================================================
