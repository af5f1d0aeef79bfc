\* One pod of any shape, one worker, two calls and a restart.
SPECIFICATION FairSpec
CONSTANTS
  Shapes <- AllPods
  Pods <- Kinds
  SymbolicBases = {"$SCRATCH/vk-provider-nersc"}
  LocalRoot <- Root
  LocalFiles <- Files
  NoPod = NoPod
  Jobs = {j1, j2}
  NoJob = NoJob
  RefKinds = {"slurm"}
  MaxCalls = 2
  MaxCrashes = 1
INVARIANTS
  StageInTypeOK
  UploadsFindDirectory
  OptionsReachSlurm
  ContainersRunOnce
  MountsAreCreated
  PodsKeepApart
  OutputFromMount
PROPERTIES
  ImplementsLifecycle
  InputInPlace
  CallsEnd
CHECK_DEADLOCK FALSE
