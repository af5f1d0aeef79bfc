\* Slurm leaves the job in a state the client has no name for.
SPECIFICATION ReportFairSpec
CONSTANTS
  RefKinds = {"slurm", "task"}
  EndStates <- AllEnds
  Followers = {f1, f2}
  MaxLines = 2
PROPERTIES
  EndIsReported
CHECK_DEADLOCK FALSE
