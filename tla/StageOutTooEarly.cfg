\* The name is used again while a status request is waiting.
SPECIFICATION StageOutSpec
CONSTANTS
  p1 = p1
  p2 = p2
  k1 = k1
  k2 = k2
  Pods = {p1, p2}
  Keys = {k1, k2}
  KeyOf <- SharedName
  Jobs = {j1, j2}
  NoPod = NoPod
  NoJob = NoJob
  Workers = {w1}
  RefKinds = {"slurm"}
  InputPods = {}
  SfapiPods = {}
  OutputPods = {p1, p2}
  MaxCrashes = 0
  Pollers = {v1}
  Transfers = {t1, t2}
  NoTransfer = NoTransfer
  NoKey = NoKey
  NoPoller = NoPoller
INVARIANTS
  StageOutAfterJobSucceeds
CHECK_DEADLOCK FALSE
