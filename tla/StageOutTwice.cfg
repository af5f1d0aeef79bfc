\* A second thread asks for the status at the same time.
SPECIFICATION StageOutSpec
CONSTANTS
  p1 = p1
  p2 = p2
  k1 = k1
  k2 = k2
  Pods = {p1, p2}
  Keys = {k1, k2}
  KeyOf <- OwnNames
  Jobs = {j1, j2}
  NoPod = NoPod
  NoJob = NoJob
  Workers = {w1}
  RefKinds = {"slurm"}
  InputPods = {}
  SfapiPods = {}
  OutputPods = {p1}
  MaxCrashes = 0
  Pollers = {v1, v2}
  Transfers = {t1, t2}
  NoTransfer = NoTransfer
  NoKey = NoKey
  NoPoller = NoPoller
INVARIANTS
  StageOutStartedOnce
CHECK_DEADLOCK FALSE
