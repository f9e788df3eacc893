SPECIFICATION FairSpec
CONSTANTS
  Processes = {p1, p2, p3}
  NVersions = 3
  Length <- MCLength
  Repeatable = {1}
  MaxFailures = 2
INVARIANTS RecordedIsApplied OpenIsComplete TornOnlyByFailure
PROPERTY UpgradeFinishes
