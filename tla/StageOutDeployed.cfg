\* One Globus pod and one sfapi pod under names of their own, the status loop
\* and the GetPod of the sync worker.
SPECIFICATION StageOutSpec
CONSTANTS
  p1 = p1
  p2 = p2
  k1 = k1
  k2 = k2
  Pods = {p1, p2}
  Keys = {k1, k2}
  KeyOf <- OwnNames
  Jobs = {j1}
  NoPod = NoPod
  NoJob = NoJob
  Workers = {w1}
  RefKinds = {"slurm", "task"}
  InputPods = {}
  SfapiPods = {p2}
  OutputPods = {p1, p2}
  MaxCrashes = 1
  Pollers = {v1, v2}
  Transfers = {t1, t2}
  NoTransfer = NoTransfer
  NoKey = NoKey
  NoPoller = NoPoller
SYMMETRY JobSymmetry
INVARIANTS
  StageOutTypeOK
  StageOutStartedOncePerThread
  StageOutAfterJobSucceeds
  CompleteMeansDelivered
PROPERTIES
  StageOutResultStands
CHECK_DEADLOCK FALSE
