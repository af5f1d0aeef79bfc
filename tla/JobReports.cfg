\* Phases and followed logs of one job.
SPECIFICATION ReportFairSpec
CONSTANTS
  RefKinds = {"slurm", "task"}
  EndStates <- KnownEnds
  Followers = {f1, f2}
  MaxLines = 2
INVARIANTS
  ReportTypeOK
  FollowedLogIsWhole
  PhaseIsTruthful
PROPERTIES
  EndIsReported
  FollowEnds
CHECK_DEADLOCK FALSE
