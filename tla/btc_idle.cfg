\* An outage of the feed that is longer than the age at which the job takes a
\* segment for sealed.
SPECIFICATION Spec
CONSTANTS
  BUF_CAP = 2
  Rotation = 2
  MinAge = 3
  MaxGap = 6
  NoFile = NoFile
  MaxTicks = 6
  MaxTime = 7
  MaxCrashes = 0
  MaxFailures = 0
INVARIANT OpenSegmentIsNotTaken
