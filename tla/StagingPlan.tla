---------------------------- MODULE StagingPlan ----------------------------
(***************************************************************************)
(* Where CreatePod lets a pod's data live and what it stages in and out:   *)
(* the scratch directories (nersc.go:194-214, 680), buildStagingState and  *)
(* its helpers (staging.go:21-215), the local file of the sfapi mode       *)
(* (staging.go:419) and the reading of a transfer's report                 *)
(* (client.go:142).                                                        *)
(*                                                                         *)
(* A pod p is a record; the fields used here are                           *)
(*   name, ordinal   the name, and the number after its last "-", "" when  *)
(*                   it does not end in one                                *)
(*   replicaOf       the name of the owning StatefulSet, or ""             *)
(*   scratchBase     the annotation, "" when there is none                 *)
(*   volumes         the set of names of the pod's volumes                 *)
(*   mode, stageOut  the annotations, in lower case                        *)
(*   inputVolume, outputVolume, stageVolume    the annotations             *)
(*   input, output   inputSource and outputDest as parsed URIs             *)
(* A directory is a sequence of names; the empty one stands for an error.  *)
(***************************************************************************)
EXTENDS Naturals, FiniteSets, SequencesExt

CONSTANTS
  SymbolicBases,  \* scratch bases with a "$" in them
  LocalRoot,      \* SFAPI_TRANSFER_LOCAL_ROOT, <<>> when it is not set; never "/"
  LocalFiles      \* paths of the regular files the provider can open

NoPath == <<>>

\* The root is an absolute path, and no file can be opened that has none.
ASSUME StagingPlanAssumption ==
  /\ LocalRoot \in Seq(STRING)
  /\ LocalFiles \subseteq Seq(STRING) \ {NoPath}

\* The URI of an absent annotation.
NoLocation == [scheme |-> "", host |-> "", absolute |-> FALSE, path |-> <<>>]

-----------------------------------------------------------------------------
(* Scratch directories.                                                    *)

\* The provider sends it to Globus as it stands (staging.go:222) and the script
\* lets bash expand it (slurm.go:389): that both mean one directory is external
\* (docs/globus-staging.md:17).
DefaultBase == "$SCRATCH/vk-provider-nersc"

ScratchRoot(p) == IF p.scratchBase = "" THEN DefaultBase ELSE p.scratchBase

\* Mutant: the ordinal is never read.
MutOrdinal(p) == "0"

\* detectStatefulSet: 0 for a name that does not end in a number.  The number
\* is its usual spelling: the StatefulSet controller writes no leading zeros.
Ordinal(p) == IF p.ordinal = "" THEN "0" ELSE p.ordinal

JobScratchBase(p) ==
  IF p.replicaOf # ""
  THEN <<ScratchRoot(p), p.replicaOf, Ordinal(p)>>
  ELSE <<ScratchRoot(p), p.name>>

VolumePaths(p) == [v \in p.volumes |-> Append(JobScratchBase(p), v)]

-----------------------------------------------------------------------------
(* What is staged.                                                         *)

Mode(p) == IF p.mode = "" THEN "globus" ELSE p.mode

StagesIn(p)  == p.input # NoLocation
StagesOut(p) == p.stageOut = "true"

\* Mutant: the annotation for both directions comes first.
MutChosenVolume(p, specific) == IF p.stageVolume # "" THEN p.stageVolume ELSE specific

ChosenVolume(p, specific) == IF specific # "" THEN specific ELSE p.stageVolume

\* resolveStagePath
StagePath(p, specific) ==
  LET v == ChosenVolume(p, specific)
  IN IF v # ""
     THEN IF v \in p.volumes THEN VolumePaths(p)[v] ELSE NoPath
     ELSE IF p.volumes = {} THEN JobScratchBase(p)
     ELSE IF Cardinality(p.volumes) = 1
          THEN VolumePaths(p)[CHOOSE only \in p.volumes : TRUE]
     ELSE NoPath

\* parseGlobusLocation and parseLocalTransferPath return no error.
Parses(mode, loc) ==
  IF mode = "globus"
  THEN loc.scheme = "globus" /\ loc.host # "" /\ loc.path # <<>>
  ELSE \/ loc.scheme = "" /\ loc # NoLocation
       \/ loc.scheme = "file" /\ loc.host = "" /\ loc.absolute

\* buildStagingState returns an error.
PlanRefused(p) ==
  \/ Mode(p) \notin {"globus", "sfapi"}
  \/ p.stageOut \notin {"", "true", "false"}
  \/ /\ StagesIn(p) \/ StagesOut(p)
     /\ Mode(p) = "sfapi" /\ ScratchRoot(p) \in SymbolicBases
  \/ /\ StagesIn(p)
     /\ StagePath(p, p.inputVolume) = NoPath \/ ~Parses(Mode(p), p.input)
  \/ /\ StagesOut(p)
     /\ StagePath(p, p.outputVolume) = NoPath \/ ~Parses(Mode(p), p.output)

\* Mutant: a pod without output to stage has no plan.
MutHasPlan(p) == StagesOut(p)

\* buildStagingState returns a state, and not nil.
HasPlan(p) == StagesIn(p) \/ StagesOut(p)

\* One name of a path, from the directory that those before it lead to.
Enter(dir, name) ==
  IF name = "." THEN dir
  ELSE IF name # ".." THEN Append(dir, name)
  ELSE IF dir = <<>> THEN dir ELSE Front(dir)

\* path.Clean of an absolute path, with the names a sequence: dir[n] is what
\* the first n names lead to.
Clean(path) ==
  LET dir[n \in 0 .. Len(path)] == IF n = 0 THEN <<>> ELSE Enter(dir[n - 1], path[n])
  IN dir[Len(path)]

\* inputTargetDir, and inputTargetPath of the sfapi mode.
InputDir(p)    == StagePath(p, p.inputVolume)
InputTarget(p) == Clean(Append(InputDir(p), Last(p.input.path)))

\* outputSourceDir, and outputSourcePath of the sfapi mode.
OutputDir(p)    == StagePath(p, p.outputVolume)
OutputSource(p) == Clean(Append(OutputDir(p), Last(p.output.path)))

-----------------------------------------------------------------------------
(* The provider's side of the sfapi mode.                                  *)

\* resolveLocalTransferPath, NoPath for a path outside the root.
LocalPath(loc) ==
  LET candidate == Clean(IF loc.absolute THEN loc.path ELSE LocalRoot \o loc.path)
  IN IF LocalRoot # <<>> /\ IsPrefix(LocalRoot, candidate) THEN candidate ELSE NoPath

\* os.Open and Stat: the file is there and no directory.
LocalFileOpens(loc) == LocalPath(loc) \in LocalFiles

-----------------------------------------------------------------------------
(* IsComplete: a report is a record of                                     *)
(*   successful, done   "unset", "true" or "false"                         *)
(*   word               the first non-empty status field                   *)

GoodWords == {"succeeded", "success", "successful", "done", "completed", "complete"}
BadWords  == {"failed", "failure", "error", "cancelled", "canceled"}

IsComplete(r) ==
  IF r.successful # "unset" THEN TRUE
  ELSE IF r.done = "false" THEN FALSE
  ELSE \/ r.done = "true" /\ r.word = ""
       \/ r.word \in GoodWords \cup BadWords

\* The second result, of a complete transfer.
HasFailed(r) ==
  \/ r.successful = "false"
  \/ r.successful = "unset" /\ r.word \in BadWords
=============================================================================
