\* Every started stage-out ends, across a restart, in either transfer mode.
SPECIFICATION StageOutFairSpec
CONSTANTS
  p1 = p1
  p2 = p2
  k1 = k1
  k2 = k2
  Pods = {p1, p2}
  Keys = {k1, k2}
  KeyOf <- OwnNames
  Jobs = {j1}
  NoPod = NoPod
  NoJob = NoJob
  Workers = {w1}
  RefKinds = {"slurm"}
  InputPods = {}
  SfapiPods = {p2}
  OutputPods = {p1, p2}
  MaxCrashes = 1
  Pollers = {v1}
  Transfers = {t1, t2}
  NoTransfer = NoTransfer
  NoKey = NoKey
  NoPoller = NoPoller
PROPERTIES
  StageOutTerminates
CHECK_DEADLOCK FALSE
