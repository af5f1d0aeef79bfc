------------------------------ MODULE StageIn ------------------------------
(***************************************************************************)
(* The CreatePod calls for one pod, with everything PodLifecycle leaves    *)
(* out of them: the plan its annotations make, the transfer, remote        *)
(* command and upload of stageInput (staging.go:217), and the script that  *)
(* is written only then (nersc.go:226).                                    *)
(*                                                                         *)
(* There is one worker (main.go:150).  The controller calls CreatePod      *)
(* again when it failed; a call that finds the pod tracked changes         *)
(* nothing and is no step here.  What an earlier call started goes on.     *)
(***************************************************************************)
EXTENDS Superfacility, StagingPlan, SlurmScript

CONSTANTS
  Shapes,     \* the pods to try, one in each behaviour
  NoJob,
  MaxCalls,   \* bound on the number of CreatePod calls
  MaxCrashes  \* bound on the number of provider restarts

VARIABLES
  pod,      \* the pod, once it is bound
  at,       \* where the CreatePod call stands
  calls,    \* calls begun so far
  work,     \* what the service was asked to do for input: a sequence of
            \* [op, call, dir, state]
  mine,     \* the element of work the call waits for
  holding,  \* the job the call has submitted
  tracked,  \* the pod's entry in podMap
  staging,  \* whether it has an entry in stagingMap
  created,  \* history: whether CreatePod has returned no error
  excused,  \* history: jobs that a lost reply or a restart lost
  crashes   \* restarts so far

callVars == <<pod, at, calls, work, mine, holding, tracked, staging, created,
              excused, crashes>>
vars == <<owner, task, slurm, callVars>>

\* What PodLifecycle tells of a pod: the Pods of Superfacility.
Kinds == [input : BOOLEAN, sfapi : BOOLEAN, output : BOOLEAN]
KindOf(p) == [input |-> StagesIn(p), sfapi |-> Mode(p) = "sfapi",
              output |-> StagesOut(p) /\ p.output # NoLocation]

ASSUME StageInAssumption ==
  /\ Pods = Kinds
  /\ NoPod \notin Shapes
  /\ NoJob \notin Jobs
  /\ MaxCalls \in Nat /\ MaxCrashes \in Nat

\* Pods, volumes and containers have DNS labels for names, those of a pod's
\* containers differ, and a reference without a scheme is a path.  The names
\* the provider itself gives are names too.
Name == STRING \ {"", ".", ".."}

Locations == [scheme : STRING, host : STRING, absolute : BOOLEAN, path : Seq(STRING)]

PodRecords ==
  [name : Name, ordinal : Name \cup {""}, replicaOf : Name \cup {""},
   scratchBase : Name \cup {""}, volumes : SUBSET Name,
   mode : STRING, stageOut : STRING,
   inputVolume : STRING, outputVolume : STRING, stageVolume : STRING,
   input : Locations, output : Locations,
   options : SUBSET SlurmOptions, bad : SUBSET SlurmOptions,
   launcher : STRING, mainContainer : STRING,
   containers : Seq([name : Name, mounts : Seq(Name)])]

ASSUME ShapesAssumption ==
  /\ {DefaultBase, "0"} \subseteq Name
  /\ \A p \in Shapes :
       /\ p \in PodRecords
       /\ IsFiniteSet(p.volumes)
       /\ \A c, d \in DOMAIN p.containers :
            p.containers[c].name = p.containers[d].name => c = d
       /\ p.input.scheme = "" /\ ~p.input.absolute => p.input.path # <<>> \/ ~StagesIn(p)

Labels == {"idle", "start", "wait", "open", "mkdir", "waitTask", "upload",
           "submit", "store"}

Work == [op    : {"transfer", "mkdir", "upload"},
         call  : 1 .. MaxCalls,
         dir   : Seq(STRING),
         state : {"active", "succeeded", "failed", "cancelled"}]

StageInTypeOK ==
  /\ JobsTypeOK
  /\ pod \in Shapes \cup {NoPod}
  /\ at \in Labels /\ (at # "idle" => pod \in Shapes)
  /\ calls \in 0 .. MaxCalls
  /\ work \in Seq(Work)
  /\ mine \in 0 .. Len(work) /\ (at \in {"wait", "waitTask"} => mine # 0)
  /\ holding \in Jobs \cup {NoJob} /\ (at = "store" => holding # NoJob)
  /\ tracked \in Jobs \cup {NoJob}
  /\ staging \in BOOLEAN /\ created \in BOOLEAN
  /\ excused \subseteq Jobs
  /\ crashes \in 0 .. MaxCrashes

Init ==
  /\ JobsInit
  /\ pod = NoPod /\ at = "idle" /\ calls = 0
  /\ work = <<>> /\ mine = 0
  /\ holding = NoJob /\ tracked = NoJob
  /\ staging = FALSE /\ created = FALSE
  /\ excused = {} /\ crashes = 0

mapVars  == <<tracked, staging, created>>
restVars == <<pod, calls, holding, mapVars, excused, crashes>>

Goto(label) == at' = label
Return == at' = "idle" /\ mine' = 0

\* The service accepts a request: it goes on whatever the caller does.
Ask(op, dir, state) ==
  work' = Append(work, [op |-> op, call |-> calls, dir |-> dir, state |-> state])

\* The request is refused, or accepted with the reply lost.
AskFails(op, dir) ==
  /\ UNCHANGED work \/ Ask(op, dir, IF op = "upload" THEN "succeeded" ELSE "active")
  /\ Return

-----------------------------------------------------------------------------
(* A call begins.                                                          *)

PodArrives(p) ==
  /\ pod = NoPod
  /\ pod' = p
  /\ UNCHANGED <<jobVars, at, calls, work, mine, holding, mapVars, excused, crashes>>

Called == pod # NoPod /\ at = "idle" /\ tracked = NoJob /\ calls < MaxCalls

\* The annotations are refused: nothing has been asked of the service.  A call
\* that gets no token leaves as little behind and is no step.
CallRefused ==
  /\ Called /\ PlanRefused(pod)
  /\ calls' = calls + 1
  /\ UNCHANGED <<jobVars, pod, at, work, mine, holding, mapVars, excused, crashes>>

CallBegins ==
  /\ Called /\ ~PlanRefused(pod)
  /\ calls' = calls + 1
  /\ Goto(IF ~StagesIn(pod) THEN "submit"
          ELSE IF Mode(pod) = "globus" THEN "start" ELSE "open")
  /\ UNCHANGED <<jobVars, pod, work, mine, holding, mapVars, excused, crashes>>

-----------------------------------------------------------------------------
(* Globus: startAndWaitForTransfer.                                        *)

\* Mutant: the id in the reply is not kept.
MutTransferStarts ==
  /\ at = "start"
  /\ Ask("transfer", InputDir(pod), "active")
  /\ Goto("wait")
  /\ UNCHANGED <<jobVars, mine, restVars>>

TransferStarts ==
  /\ at = "start"
  /\ Ask("transfer", InputDir(pod), "active")
  /\ mine' = Len(work')
  /\ Goto("wait")
  /\ UNCHANGED <<jobVars, restVars>>

TransferRefused ==
  /\ at = "start"
  /\ AskFails("transfer", InputDir(pod))
  /\ UNCHANGED <<jobVars, restVars>>

\* What Globus may report of a transfer in each state.
Report(s, d, w) == [successful |-> s, done |-> d, word |-> w]

Reports(state) ==
  IF state = "active"
  THEN {Report("unset", "unset", "active"), Report("unset", "false", ""),
        Report("unset", "unset", "queued"), Report("unset", "unset", "expiring")}
  ELSE IF state = "succeeded"
  THEN {Report("unset", "unset", "succeeded"), Report("true", "unset", ""),
        Report("unset", "true", ""), Report("unset", "true", "done")}
  ELSE {Report("unset", "unset", "failed"), Report("false", "unset", ""),
        Report("false", "true", "done"), Report("unset", "true", "error")}

\* A report that the transfer goes on changes nothing.
TransferChecked ==
  /\ at = "wait"
  /\ \E r \in Reports(work[mine].state) :
       /\ IsComplete(r)
       /\ IF HasFailed(r) THEN Return ELSE Goto("submit") /\ mine' = 0
  /\ UNCHANGED <<jobVars, work, restVars>>

TransferCheckFails ==
  /\ at = "wait"
  /\ Return
  /\ UNCHANGED <<jobVars, work, restVars>>

\* Mutant: the end of the wait is taken for the end of the transfer.
MutTransferTimesOut ==
  /\ at = "wait"
  /\ Goto("submit") /\ mine' = 0
  /\ UNCHANGED <<jobVars, work, restVars>>

\* The transfer is not cancelled (staging.go:296).
TransferTimesOut ==
  /\ at = "wait"
  /\ Return
  /\ UNCHANGED <<jobVars, work, restVars>>

-----------------------------------------------------------------------------
(* sfapi: a remote mkdir and an upload.                                    *)

FileOpens ==
  /\ at = "open" /\ LocalFileOpens(pod.input)
  /\ Goto("mkdir")
  /\ UNCHANGED <<jobVars, work, mine, restVars>>

FileRefused ==
  /\ at = "open" /\ ~LocalFileOpens(pod.input)
  /\ Return
  /\ UNCHANGED <<jobVars, work, restVars>>

\* RunCommand (client.go:451)
CommandAccepted ==
  /\ at = "mkdir"
  /\ Ask("mkdir", Front(InputTarget(pod)), "active")
  /\ mine' = Len(work')
  /\ Goto("waitTask")
  /\ UNCHANGED <<jobVars, restVars>>

CommandRefused ==
  /\ at = "mkdir"
  /\ AskFails("mkdir", Front(InputTarget(pod)))
  /\ UNCHANGED <<jobVars, restVars>>

\* Mutant: a cancelled task is waited for.
MutTaskEndSeen ==
  /\ at = "waitTask" /\ work[mine].state \in {"succeeded", "failed"}
  /\ IF work[mine].state = "succeeded" THEN Goto("upload") /\ mine' = 0 ELSE Return
  /\ UNCHANGED <<jobVars, work, restVars>>

\* Mutant: one look at the task is enough.
MutTaskEndSeenEarly ==
  /\ at = "waitTask"
  /\ IF work[mine].state \in {"failed", "cancelled"} THEN Return ELSE Goto("upload") /\ mine' = 0
  /\ UNCHANGED <<jobVars, work, restVars>>

\* waitForTask (client.go:258) has no deadline: only the end of the task, or
\* a check that fails, ends it.
TaskEndSeen ==
  /\ at = "waitTask" /\ work[mine].state # "active"
  /\ IF work[mine].state = "succeeded" THEN Goto("upload") /\ mine' = 0 ELSE Return
  /\ UNCHANGED <<jobVars, work, restVars>>

TaskCheckFails ==
  /\ at = "waitTask"
  /\ Return
  /\ UNCHANGED <<jobVars, work, restVars>>

UploadDone ==
  /\ at = "upload"
  /\ Ask("upload", InputTarget(pod), "succeeded")
  /\ Goto("submit")
  /\ UNCHANGED <<jobVars, mine, restVars>>

UploadFails ==
  /\ at = "upload"
  /\ AskFails("upload", InputTarget(pod))
  /\ UNCHANGED <<jobVars, restVars>>

-----------------------------------------------------------------------------
(* The script and the job.                                                 *)

\* The error comes after the input was staged.
ScriptFails ==
  /\ at = "submit" /\ ScriptRefused(pod)
  /\ Return
  /\ UNCHANGED <<jobVars, work, restVars>>

JobAccepted ==
  /\ at = "submit" /\ ~ScriptRefused(pod)
  /\ \E j \in Jobs : SubmitJob(j, KindOf(pod)) /\ holding' = j
  /\ Goto("store")
  /\ UNCHANGED <<pod, calls, work, mine, mapVars, excused, crashes>>

JobReplyLost ==
  /\ at = "submit" /\ ~ScriptRefused(pod)
  /\ \E j \in Jobs : SubmitJob(j, KindOf(pod)) /\ excused' = excused \cup {j}
  /\ Return
  /\ UNCHANGED <<pod, calls, work, holding, mapVars, crashes>>

JobRefused ==
  /\ at = "submit" /\ ~ScriptRefused(pod)
  /\ Return
  /\ UNCHANGED <<jobVars, work, restVars>>

JobStored ==
  /\ at = "store"
  /\ tracked' = holding
  /\ staging' = (staging \/ HasPlan(pod))
  /\ created' = TRUE
  /\ holding' = NoJob
  /\ Return
  /\ UNCHANGED <<jobVars, pod, calls, work, excused, crashes>>

-----------------------------------------------------------------------------
(* The rest of the world.                                                  *)

WorkEnds(i) ==
  /\ work[i].state = "active"
  /\ \E end \in {"succeeded", "failed", "cancelled"} :
       work' = [work EXCEPT ![i].state = end]
  /\ UNCHANGED <<jobVars, at, mine, restVars>>

CommandEnds(i) == i \in DOMAIN work /\ work[i].op = "mkdir" /\ WorkEnds(i)

Restart ==
  /\ crashes < MaxCrashes
  /\ crashes' = crashes + 1
  /\ tracked' = NoJob /\ staging' = FALSE /\ holding' = NoJob
  /\ excused' = excused \cup {j \in Jobs : Submitted(j)}
  /\ Return
  /\ UNCHANGED <<jobVars, pod, calls, work, created>>

-----------------------------------------------------------------------------

TransferStep == TransferStarts \/ TransferRefused
WaitStep     == TransferChecked \/ TransferCheckFails
OpenStep     == FileOpens \/ FileRefused
CommandStep  == CommandAccepted \/ CommandRefused
UploadStep   == UploadDone \/ UploadFails
SubmitStep   == ScriptFails \/ JobAccepted \/ JobReplyLost \/ JobRefused

Call == \/ CallRefused \/ CallBegins
        \/ TransferStep \/ WaitStep \/ TransferTimesOut
        \/ OpenStep \/ CommandStep \/ TaskEndSeen \/ TaskCheckFails \/ UploadStep
        \/ SubmitStep \/ JobStored

Next ==
  \/ \E p \in Shapes : PodArrives(p)
  \/ Call
  \/ \E i \in DOMAIN work : WorkEnds(i)
  \/ Restart

Spec == Init /\ [][Next]_vars

\* Every HTTP call ends, by its 30 s timeout at the latest (client.go:35), and
\* the wait for a transfer by its own.  That the service ends every command
\* is assumed of it: waitForTask has no deadline.
Fairness ==
  /\ WF_vars(TransferStep) /\ WF_vars(TransferTimesOut)
  /\ WF_vars(OpenStep) /\ WF_vars(CommandStep) /\ WF_vars(TaskEndSeen)
  /\ WF_vars(UploadStep) /\ WF_vars(SubmitStep) /\ WF_vars(JobStored)
  /\ \A i \in 1 .. 2 * MaxCalls : WF_vars(CommandEnds(i))

FairSpec == Spec /\ Fairness

-----------------------------------------------------------------------------
(* Properties.                                                             *)

\* These CreatePod calls are the ones of PodLifecycle, with one worker and
\* pods told apart by what they stage: nothing that happens on the way to a
\* submission disturbs the maps, and the pods that stage anything are those
\* whose annotations ask for it (nersc.go:173-265, staging.go:33).
Lifecycle == INSTANCE PodLifecycle WITH
  Keys       <- {"key"},
  KeyOf      <- [k \in Kinds |-> "key"],
  Workers    <- {"worker"},
  InputPods  <- {k \in Kinds : k.input},
  SfapiPods  <- {k \in Kinds : k.sfapi},
  OutputPods <- {k \in Kinds : k.output},
  podMap     <- [k \in {"key"} |-> tracked],
  stagingMap <- [k \in {"key"} |-> IF staging THEN tracked ELSE NoJob],
  worker     <- [w \in {"worker"} |->
                   [at  |-> IF at \in {"start", "wait", "open", "mkdir", "waitTask", "upload"}
                            THEN "stageIn" ELSE at,
                    pod |-> IF at = "idle" THEN NoPod ELSE KindOf(pod),
                    job |-> holding]],
  phase      <- [k \in Kinds |-> IF pod = NoPod THEN "absent"
                                 ELSE IF KindOf(pod) = k THEN "bound" ELSE "absent"],
  acked      <- {},
  created    <- IF created THEN {KindOf(pod)} ELSE {}

ImplementsLifecycle == Lifecycle!Spec

HasJob == \E j \in Jobs : Submitted(j)

\* The volumes that README.md:452-454 lets the data of a direction be in.
DataVolumes(p, specific) ==
  IF specific # "" THEN {specific}
  ELSE IF p.stageVolume # "" THEN {p.stageVolume}
  ELSE p.volumes

\* Element w of work put the input of pod p where its containers look for it: a
\* directory of the transfer and one of the script are compared by their names.
Serves(w, p) ==
  LET file == IF Mode(p) = "sfapi" THEN <<Last(LocalPath(p.input))>> ELSE <<>>
  IN /\ w.op = (IF Mode(p) = "sfapi" THEN "upload" ELSE "transfer")
     /\ w.state = "succeeded"
     /\ \A run \in Range(Runs(p, VolumePaths(p))) : \A mount \in run.volumes :
          mount.volume \in DataVolumes(p, p.inputVolume) => w.dir = mount.dir \o file

\* When a job is submitted, the input its pod asks for was delivered by this
\* very call, not by one given up before, into the directory that the script
\* mounts as the chosen volume (README.md:417-418; nersc.go:216-240).
InputInPlace ==
  [][owner' # owner /\ StagesIn(pod) =>
       \E i \in DOMAIN work : work[i].call = calls /\ Serves(work[i], pod)]_vars

\* The output of a submitted job will be fetched from the directory that its
\* script mounts as the volume chosen for output, also when another volume gets
\* the input (README.md:453-454; staging.go:66-97).
OutputFromMount ==
  HasJob /\ StagesOut(pod) =>
    LET source == IF Mode(pod) = "sfapi" THEN Front(OutputSource(pod)) ELSE OutputDir(pod)
    IN \A run \in Range(Runs(pod, VolumePaths(pod))) : \A mount \in run.volumes :
         mount.volume \in DataVolumes(pod, pod.outputVolume) => source = mount.dir

\* A file is uploaded only into a directory that a command of the same call
\* is known to have made (staging.go:253-258, client.go:491).
UploadsFindDirectory ==
  \A i \in DOMAIN work :
    work[i].op = "upload" =>
      \E k \in 1 .. i - 1 : /\ work[k].op = "mkdir"
                            /\ work[k].call = work[i].call
                            /\ work[k].state = "succeeded"
                            /\ work[k].dir = Front(work[i].dir)

\* Every CreatePod call ends, so the only worker is free again: by the
\* deadline of a transfer, by the end of a command (staging.go:281,
\* client.go:269).
CallsEnd == at # "idle" ~> at = "idle"

\* A job is submitted with every option its pod was annotated with, each under
\* its own flag, for the allocation or for the launch (slurm.go:198-256).
OptionsReachSlurm ==
  HasJob => \A o \in pod.options :
              [flag |-> o, value |-> o] \in Directives(pod) \cup LaunchFlags(pod)

\* A job runs each container once: the main one last and in the foreground,
\* so that the job ends with it, the others in the background before
\* (README.md:324; slurm.go:111-115).
ContainersRunOnce ==
  HasJob =>
    LET runs == Runs(pod, VolumePaths(pod))
        main == IF pod.mainContainer # "" /\ Multi(pod) THEN pod.mainContainer
                ELSE pod.containers[1].name
    IN /\ Len(runs) = Len(pod.containers)
       /\ \A c \in Range(pod.containers) : \E i \in DOMAIN runs : runs[i].container = c.name
       /\ \A i \in DOMAIN runs : /\ runs[i].background <=> i # Len(runs)
                                 /\ runs[i].container = main <=> i = Len(runs)

\* Every directory a container gets was made first, and once (slurm.go:344-373;
\* podman-hpc refuses to mount a directory that does not exist).
MountsAreCreated ==
  HasJob =>
    LET setup == Setup(pod, VolumePaths(pod))
    IN \A run \in Range(Runs(pod, VolumePaths(pod))) : \A mount \in run.volumes :
         \E i \in DOMAIN setup : \A k \in DOMAIN setup : setup[k] = mount.dir <=> k = i

Directories(p) == {JobScratchBase(p)} \cup Range(VolumePaths(p))

\* The base of a pod that has the name of a StatefulSet is the directory that
\* the bases of its replicas are in.
NamesSetOf(p, q) == p.replicaOf = "" /\ q.replicaOf = p.name

\* Pods of two names keep their data apart, replicas of one StatefulSet too:
\* no directory of one is a directory of the other, or in one, or above one
\* (docs/statefulsets.md:10; nersc.go:196-214, 680).  The exception is the base
\* of a pod named like a StatefulSet, which lies above all its replicas: when
\* that pod has no volume and stages from its base (staging.go:181), their data
\* goes along.
PodsKeepApart ==
  pod # NoPod =>
    \A q \in Shapes : q.name # pod.name =>
      \A d \in Directories(pod), e \in Directories(q) :
        /\ IsPrefix(d, e) => NamesSetOf(pod, q) /\ d = JobScratchBase(pod)
        /\ IsPrefix(e, d) => NamesSetOf(q, pod) /\ e = JobScratchBase(q)
=============================================================================
