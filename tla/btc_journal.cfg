\* Three windows of two clock values, a buffer of two ticks; a closed segment is
\* older than 3; the feed is never silent for more than one clock value while a
\* segment is open.  Two failing fopen calls fill the buffer without a file.
SPECIFICATION LiveSpec
CONSTANTS
  BUF_CAP = 2
  Rotation = 2
  MinAge = 3
  MaxGap = 1
  NoFile = NoFile
  MaxTicks = 3
  MaxTime = 7
  MaxCrashes = 1
  MaxFailures = 2
INVARIANTS
  BufferHasRoom
  OpenSegmentIsNotTaken
  SegmentHoldsItsWindow
  OnlyCrashesAndFailuresLoseTicks
PROPERTIES
  ImplementsLog
  ClosedSegmentsAreUploaded
