\* Two threads race for one name that two pods hold one after the other.
SPECIFICATION Spec
CONSTANTS
  p1 = p1
  p2 = p2
  k1 = k1
  k2 = k2
  Pods = {p1, p2}
  Keys = {k1, k2}
  KeyOf <- SharedName
  Jobs = {j1, j2}
  NoPod = NoPod
  NoJob = NoJob
  Workers = {w1, w2}
  RefKinds = {"slurm", "task"}
  InputPods = {p1}
  SfapiPods = {}
  OutputPods = {p1}
  MaxCrashes = 0
SYMMETRY JobSymmetry
INVARIANTS
  TypeOK
  NoSilentOrphan
  CancelledIsUntracked
  StagingFollowsTracking
  CancelledJobStops
PROPERTIES
  UntrackedOnlyAfterCancel
  ImplementsLedger
CHECK_DEADLOCK FALSE
