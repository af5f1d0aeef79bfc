\* The deployed shape: one thread shared by two pods under names of their own,
\* and a restart.  No job symmetry, because one property is temporal.
SPECIFICATION FairSpec
CONSTANTS
  p1 = p1
  p2 = p2
  k1 = k1
  k2 = k2
  Pods = {p1, p2}
  Keys = {k1, k2}
  KeyOf <- OwnNames
  Jobs = {j1, j2}
  NoPod = NoPod
  NoJob = NoJob
  Workers = {w1}
  RefKinds = {"slurm"}
  InputPods = {p1}
  SfapiPods = {}
  OutputPods = {p1, p2}
  MaxCrashes = 1
INVARIANTS
  StagingKept
  NoDuplicateJobs
  CreatedPodsSubmitted
PROPERTIES
  GonePodsAreForgotten
CHECK_DEADLOCK FALSE
