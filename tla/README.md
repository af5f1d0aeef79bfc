# A TLA+ model of vk-provider-nersc

vk-provider-nersc is a Virtual Kubelet provider: a single Go process that
registers a virtual Kubernetes node and runs the pods bound to it as Slurm jobs
on Perlmutter, through the NERSC Superfacility API. This directory holds TLA+
specifications of its core, TLC configurations that check them on small
instances, and proofs that TLAPS checks for every instance.

Paths below are relative to the repository; `nersc.go` and `staging.go` are in
`pkg/provider`, `client.go` and `auth.go` in `pkg/superfacility`, `main.go` in
`cmd/vk-nersc`.

## 1. Inventory of the system

| Part | State it keeps | Operations | What is hard | What makes it correct |
| --- | --- | --- | --- | --- |
| Pod lifecycle, `nersc.go:173-304` | `podMap` (key → job, pod), `stagingMap` (key → staging entry), one mutex | `CreatePod`, `DeletePod`, no-op `UpdatePod` | the mutex is not held over remote calls; a submission can take effect with its reply lost; nothing is persisted; a key has no UID | no job is lost silently, one job per pod, cancelled jobs are forgotten, the two maps agree |
| Superfacility client, `client.go` | none (one HTTP request per call, polling in `waitForTask`) | `SubmitJob`, `CancelJob`, `GetJobStatus`, `FetchJobLogs`, file and Globus calls | a job reference is a Slurm id or an API task that submits later | a cancellation reaches the job, a status is the job's |
| Output staging, `staging.go:307-417` | status and transfer id in the staging entry | `GetPod`, `GetPodStatus`, `GetPods` → `reconcileStageOut` | status calls run beside create and delete and beside each other; the entry is found by name anew at every step | a thread starts one transfer per job, only after success; Succeeded means delivered; a result nobody is at work on stands; a started stage-out ends |
| Input staging, `staging.go:217-305` | none after `CreatePod` | `stageInput`, `startAndWaitForTransfer` | a wait of up to 30 minutes on the only worker; what a call started goes on after it; the upload needs a directory a remote task makes | ends; a job is submitted only with its input, of this call, where its script mounts it |
| Credentials, `token.go`, `auth.go` | source per Secret, token per source, a mutex each | `TokenForPod`, `Token` | Secret rotation between two steps; a mutex held across a request; expiry | a token is of the credential asked for and lives through the leeway |
| Status tables and logs, `client.go:747`, `nersc.go:516-573, 703-725` | none | `GetPodStatus`, `GetPodLogs` | three tables in two packages; the log is fetched in one piece while the job may still write | phases are true, ends are reported, a followed log is whole |
| Staging configuration, `staging.go:21-215, 419-446` | none | `buildStagingState`, `resolveStagePath`, `resolveLocalTransferPath` | two annotations and two defaults choose the volume; directories are named by pod without namespace | input goes to the volume the documentation names; directories of different pods differ |
| Slurm scripts, `pkg/scripts/slurm.go` | none | `slurmOptionsFromPod`, render functions | options that only one way of launching can carry; main container and sidecars; directories shared by containers | no option is dropped, every container runs once and the main one last, every mount exists |
| Kubelet API and start, `main.go` | serving certificate | `/containerLogs/`, controllers | exit on the first controller error | — |
| Node status, `nersc.go:583-678` | none | a ticker reporting constants | — | — |
| Scripts, chart, CI, examples | — | — | — | — |

How they interact. The Virtual Kubelet pod controller, run with **one** sync
worker (`main.go:150`), calls `GetPod`, `CreatePod` and `DeletePod`; its status
loop calls `GetPodStatus` from another goroutine every 5 s; the kubelet API
server calls `GetPodLogs` from one goroutine per request. All of them share the
two maps and ask the resolver for a token, and all of them make remote calls
with no lock of the provider held. The controller calls a failed handler again.
When the process exits, Kubernetes starts it anew with empty maps, and the
controller syncs every bound pod again.

The hazards that follow from this, each with the line where it bites and the
property that watches it, are listed in `PROJECT.json`.

## 2. Modules

| Module | Models | Extends |
| --- | --- | --- |
| `Superfacility` | job references, API tasks, Slurm jobs; the client's calls on them | — |
| `PodLifecycle` | `CreatePod`, `DeletePod`, failures, restarts, the API server's pods | `Superfacility` |
| `JobLedger` | what the lifecycle promises of jobs: an abstract specification | — |
| `StagingPlan` | scratch directories, `buildStagingState`, local paths, `IsComplete`: operators | — |
| `SlurmScript` | options, containers and directories of a script: operators | — |
| `StageIn` | the `CreatePod` calls for one pod with all steps of input staging | `Superfacility`, `StagingPlan`, `SlurmScript`; an instance of `PodLifecycle` |
| `StageOut` | `GetPod`/`reconcileStageOut` beside the above; Globus transfers | `PodLifecycle` |
| `Credentials` | `TokenForPod`, `Token`, rotation, time | — |
| `JobReports` | status tables, `GetPodStatus`, `followPodLogs` over one job's life | — |
| `MCPodLifecycle`, `MCStageIn`, `MCStageOut`, `MCCredentials`, `MCJobReports` | values for the constants | the module they name |
| `PodLifecycleProofs`, `StageInProofs`, `CredentialsProofs`, `JobReportsProofs`, `JobLedgerProofs` | theorems | the module they name, `TLAPS` |
| `DeployedProofs` | theorems about `PodLifecycle`: cancelled jobs, created pods, one worker | `PodLifecycleProofs` |
| `StageOutProofs` | theorems about `StageOut` | `StageOut`, `DeployedProofs` |
| `LedgerRefinement` | the theorem that `PodLifecycle` implements `JobLedger` | `PodLifecycleProofs` |

### How state and actions correspond to the code

**Granularity.** A step is one critical section of a Go mutex or one remote
call. Where the code holds no lock, another thread can step. A remote call has
an action for its success, one for being refused, and, where it changes
something remote, the effect without the reply. What happens between two such
points in one thread (building a script, formatting a message) is part of the
step that follows. A failure that leaves nothing behind is a stuttering step.

**PodLifecycle.** `podMap` and `stagingMap` are the Go maps; a staging entry is
named by the job whose `CreatePod` built it, because the Go value is a pointer
and what matters is whose it is. `worker[w]` is a controller thread with a
program counter: `stageIn` (in `stageInput`), `submit` (in `client.SubmitJob`),
`store` (about to take the lock at `nersc.go:246`), `cancelDup`, `delCancel`,
`delUntrack`, `delDrop`. `phase[p]` is the pod object in the API server.
`acked`, `excused`, `created` are history variables: jobs whose cancellation
was acknowledged, jobs a failed call or a restart lost, pods whose `CreatePod`
returned nil. `crashes` counts restarts up to `MaxCrashes`. The number of jobs
bounds the submissions.

**JobLedger.** `place[j]` says where a job is (`unused`, `held` by the thread
that submitted it, `booked` under its key, a `double` to be cancelled,
`closed` with its cancellation acknowledged, `lost` to a failure), `book` is
`podMap`. `PodLifecycle` has no such variable: its `placeOf(j)` computes the
place from the maps, the threads and the two histories, and is none of the
ledger's places for a job that is nowhere.

**StageIn.** One pod of any shape in `Shapes`, one worker, as deployed. `at` is
the program counter of its `CreatePod` call: `start` and `wait` in
`startAndWaitForTransfer`; `open`, `mkdir`, `waitTask`, `upload` in the sfapi
branch of `stageInput`; `submit` (script and `SubmitJob`); `store`. `work` is the list of all the
service was asked to do for the pod, with the call that asked: it outlives the
call, so a retried call meets the transfers of the ones before. `tracked` and
`staging` are the pod's entries in the two maps. A pod is a record of
its annotations, volumes and containers. `StagingPlan` and `SlurmScript` say
what they come to: URIs are parsed already (scheme, host, path), a directory
is a sequence of names, an option's value is named after the option, and
a container's command is left out. The Slurm job of a submission is one job of
`Superfacility`.

**StageOut.** `out` and `outID` are `outputStatus` and `outputTransferID` of
the entries; `poll[v]` is a status call with what it has read: the key and job
of its first look-up, the entry it copied in `stageOutSnapshot` (`st`), the
transfer id (`tid`). `setStageOutStatus` writes to the entry the key has at
that moment, as the code does. A remote call and the status write after it are
one step: no lock is held around the call, so whatever can happen between the
two can happen before the step. `GetPods` makes the same steps key by key.
`xfer` is Globus. `startedBy` is a history variable: the thread whose request
started a transfer.

**Credentials.** `ReadCredential`/`ReadRawToken` is the Secret read and the
choice of the entry; `tokenSourceForSecret` runs under the resolver's mutex;
`CachedToken` and `FetchBegins` take the source's mutex, `FetchAnswers` and
`FetchFails` release it; `use` is the handler that got the token, until its
last call. Time is a counter; `Tick` cannot pass the limits `CallTime` and
`UseTime`. A token carries both the end the provider computes (`until`, counted
from before the request, `auth.go:222`) and its real end (`dies`).

**JobReports.** The Slurm state walks through sacct's states, an API task
before it if there is one; the three tables are operators with the code's
names. `followPodLogs` is a program counter per request.

### External assumptions

* Virtual Kubelet v1.11: `CreatePod` is called for bound pods it does not find,
  again after an error; `DeletePod` for pods being deleted and for leftovers of
  pods that are gone; a key is served by one worker at a time. Runs with two
  workers are stricter than that: they check the provider's own locking, which
  is written for concurrent calls (`nersc.go:247`).
* Superfacility: deleting a task that has completed does not reach the Slurm
  job that it submitted; task states are new, completed, failed, cancelled.
* Slurm: the documented job states; sacct prints a cancellation as
  `CANCELLED by <uid>`.
* The token endpoint tells true lifetimes, longer than one request and the leeway
  (ten minutes against 30 s and a minute, `auth.go:25, 89, 217`). When a raw token
  of a legacy Secret expires is not known to the provider; in the model it does not.
* `$SCRATCH/...` is one directory for everybody: the provider sends it to Globus as
  it stands (`staging.go:222-227`), the script lets bash expand it
  (`slurm.go:387-396`). `docs/globus-staging.md:17` takes them for the same;
  `InputInPlace` and `OutputFromMount` rest on it.
* Globus and the API's task queue go on with what they have accepted; a report
  of a finished transfer says so in one of the ways `Reports` lists.

## 3. Runs

All runs switch the deadlock check off: the instances are bounded, and a system
in which every pod is gone, or the job has ended, does stop.

| Run | Instance | What it shows |
| --- | --- | --- |
| `LifecycleRaces` | 2 workers, 2 pods one after the other under one name, 2 jobs, Slurm ids and tasks | `NoSilentOrphan`, `CancelledIsUntracked`, `StagingFollowsTracking`, `CancelledJobStops`, `UntrackedOnlyAfterCancel`, `ImplementsLedger`, `TypeOK` |
| `LifecycleDeployed` | 1 worker, 2 pods, 2 jobs, 1 restart, fairness | `StagingKept`, `NoDuplicateJobs`, `CreatedPodsSubmitted`, `GonePodsAreForgotten` |
| `StageIn` | 1 worker, one pod of 337 shapes, 2 calls, 1 restart, 2 jobs, fairness | `ImplementsLifecycle`, `InputInPlace`, `OutputFromMount`, `UploadsFindDirectory`, `CallsEnd`, `OptionsReachSlurm`, `ContainersRunOnce`, `MountsAreCreated`, `PodsKeepApart`, `StageInTypeOK` |
| `StageOutDeployed` | 1 worker, 2 pollers, a Globus pod and an sfapi pod, 1 job, 2 transfers, 1 restart, Slurm ids and tasks | `StageOutStartedOncePerThread`, `StageOutAfterJobSucceeds`, `CompleteMeansDelivered`, `StageOutResultStands`, `StageOutTypeOK` |
| `StageOutLiveness` | the same pods, 1 poller, Slurm ids only, fairness | `StageOutTerminates` |
| `Credentials` | 2 threads, one Secret with 2 versions and 2 annotations, 2 sources, lives of 4 and 5 ticks, leeway 2, handlers of up to 4 | `TokenLivesThroughLeeway`, `TokenOfOwnCredential`, `RefreshOnlyWhenDue`, `TokenRequestsEnd`, `CredTypeOK` |
| `JobReports` | 2 log requests, 2 lines, every final state the client knows | `PhaseIsTruthful`, `FollowedLogIsWhole`, `EndIsReported`, `FollowEnds`, `ReportTypeOK` |
| `StageOutTwice` | a second poller | **violates** `StageOutStartedOnce` |
| `StageOutTooEarly` | a name used again | **violates** `StageOutAfterJobSucceeds` |
| `CredentialKeyIgnored` | two annotations for one Secret | **violates** `TokenOfOwnCredential` |
| `StageInToken` | real times, in ticks of 30 s | **violates** `TokenValidWhileUsed` |
| `UnknownEnd` | final states outside the table | **violates** `EndIsReported` |

Why the bounds are enough. Two workers are what a race needs, and the third
party of each race, a job stored in between, exists because jobs are handed out
by submission and not by pod. Two jobs are enough for a duplicate and for
a job replaced under a name. A second restart repeats the first one's effect:
both maps are empty afterwards. Two transfers are needed to see a second start.
`StageOutDeployed` has both threads that ask for a status in the deployed program,
the status loop and the sync worker's `GetPod`. It has one job: with two there
are 4.4 million states, and what a poller does with one pod's entry does not depend
on another's while names differ; its four safety properties and its type invariant are
proved for any number of jobs.
`StageIn` needs two calls, for a retry beside what the first call left, and one
restart, which ends a call at any point; a third call (35000 states instead of
12000) shows nothing new. Its pods vary one concern at a time:
volumes against the annotations that choose among them, local paths inside and
outside the root, annotations that are refused, sets of six options against
launchers, containers against the main-container annotation, and replicas of
two StatefulSets beside a plain pod that has the name of one. Concerns that meet
only in the directories (`VolumePaths`) are not multiplied with each other.
With two threads at most two token sources are reachable at once: a source
leaves the cache only through the thread that puts its successor there. The
clock runs to the end of the first token, so that every comparison with the
leeway is met on both sides; handlers keep a token for longer than the leeway and
than the shorter life, as stage-in and followed logs do. What does not depend on the bound is proved (below).

The five violations, in a sentence each:

* `StageOutTwice`: the check of the stage-out status and its change to
  `starting` are two lock sections (`staging.go:315, 332`); two status requests
  between them both request the transfer. Each of them requests one
  (`StageOutStartedOncePerThread`), and the deployed program has two such threads.
* `StageOutTooEarly`: the staging entry is looked up by name after the status
  call (`nersc.go:450`); if the pod was deleted and created anew meanwhile, the
  new pod's output is transferred on the old job's success. For the same reason
  a result can be written to the wrong pod's entry, and then
  `CompleteMeansDelivered` fails as well.
* `CredentialKeyIgnored`: the cache of token sources is keyed by Secret
  (`token.go:143`), the credential is chosen by Secret and key.
* `StageInToken`: an input transfer is polled with one token
  (`staging.go:265-305`) for longer than the token lives.
* `UnknownEnd`: a final Slurm state the table does not name becomes Pending.

Limits of the passing properties that a reader should know:

* A pod created under a name whose old job is still tracked is taken for the old
  pod (`nersc.go:182, 699`): `CreatedPodsSubmitted` holds for pods under names of
  their own and fails under `SharedName`.
* `CancelledJobStops` excepts the job whose API task had completed: `CancelJob` then
  deletes the finished task (`client.go:344`) and the Slurm job goes on.
* `StageOutResultStands` speaks of a result that no status call is at work on. Two
  calls at one entry record what each has seen, one after the other
  (`staging.go:344-358, 412`): a check that failed writes `failed`, and the other
  call's `succeeded` takes its place, or the other way round. So the phase of a pod
  may still change once after the first result; it does not after the last of
  the calls is done.
* `StageOutAfterJobSucceeds` and `CompleteMeansDelivered` are checked and proved for
  pods under names of their own: late look-ups that meet another pod's entry
  (`nersc.go:450`, `staging.go:399, 409`) are shown by `StageOutTooEarly` and not
  ruled out by them. An entry that went away counts as succeeded
  (`staging.go:399`); `CompleteMeansDelivered` is about tracked pods and says nothing
  of that report.
* `TokenLivesThroughLeeway` speaks of the calls made within the leeway of having been
  given the token. A handler may make later ones: `GetPod` makes up to four requests of
  30 s, a followed log and a stage-in many more. `TokenValidWhileUsed` asks it of all
  and is violated (`StageInToken`).
* The staging of `LifecycleDeployed` and `StageIn` cannot be disturbed by a second
  create or delete thread, because the deployed program has one; the races of two are
  in `LifecycleRaces`.

### Fairness

* `PodLifecycle`: weak fairness of the steps that end a call (HTTP requests
  have a 30 s timeout, `client.go:35`; the Globus wait has one,
  `staging.go:281`), strong fairness of a cancellation being acknowledged and of
  each pod's `DeletePod` being called, because the controller tries again and
  serves all keys from one queue. This asks more than Virtual Kubelet promises: its
  queue drops a key that has failed too often, so `GonePodsAreForgotten` holds as
  long as a cancellation gets through before that, or the key is queued again. Success of anything else is never assumed. No
  fairness is given to an sfapi stage-in: `waitForTask` has no deadline
  (`client.go:258`), which is why `LifecycleDeployed` stages input with Globus.
* `StageIn`: calls end, by the 30 s timeout of an HTTP request and the deadline of
  the wait for a transfer. That the service ends every remote command is assumed of
  it, because `waitForTask` has no deadline: without that assumption `CallsEnd`
  fails, and one command that never ends blocks the provider. Success is never
  assumed, and no transfer is assumed to end.
* `StageOut`: calls end; the status loop comes round to every key; for each key
  the status call succeeds now and then if it could; Globus ends the transfers
  it has accepted (external).
* `Credentials`: calls end; a thread waiting for a mutex that is free again and
  again gets it (Go mutexes are starvation free).
* `JobReports`: the status loop and the request goroutines run; calls end.

### Mutants

Every property of a passing run has a mutant in the module of the definition it
changes (`Mut...`, just before it): a plausible bug that makes the run fail.
They are not part of any specification.

## 4. Proofs

| Theorem | Says |
| --- | --- |
| `TypeCorrect` | `Spec => []TypeOK` |
| `NoJobIsLost` | `Spec => []NoSilentOrphan` |
| `UntrackedOnlyWhenCancelled` | `Spec => UntrackedOnlyAfterCancel` |
| `StagingBelongsToTrackedJob` | `Spec => []StagingFollowsTracking` |
| `NoCancelledJobStaysTracked` | `Spec => []CancelledIsUntracked` |
| `CancelledJobsStop` | `Spec => []CancelledJobStops` |
| `CreatedPodsHaveJobs` | with `OwnNames`, `Spec => []CreatedPodsSubmitted` |
| `OneWorkerKeepsStaging`, `OneWorkerNoDuplicates` | with `OneWorker`, `Spec => []StagingKept` and `Spec => []NoDuplicateJobs` |
| `StageOutPreservesLifecycle` | every behaviour of `StageOut` is one of `PodLifecycle`, with `NoJobIsLostWithPollers` as a consequence |
| `StageOutTypeCorrect` | `StageOutSpec => []StageOutTypeOK` |
| `OutputOnlyOfCompletedJobs` | with `OneWorker`, `OwnNames`, `StageOutSpec => []StageOutAfterJobSucceeds` |
| `SucceededPodsAreDelivered` | with `OneWorker`, `OwnNames`, `StageOutSpec => []CompleteMeansDelivered` |
| `SettledResultsStand` | `StageOutSpec => StageOutResultStands` |
| `EachThreadStartsOnce` | `StageOutSpec => []StageOutStartedOncePerThread` |
| `LedgerBalances` | with constants of their types, `LedgerSpec => []Balanced` |
| `LifecycleImplementsLedger` | `Spec => ImplementsLedger` |
| `CredTypeCorrect` | `CredSpec => []CredTypeOK` |
| `TokensLiveThroughLeeway` | `CredSpec => []TokenLivesThroughLeeway` |
| `TokensAreOwn` | with `OneCredentialPerSecret`, `CredSpec => []TokenOfOwnCredential` |
| `RefreshedOnlyWhenDue` | `CredSpec => RefreshOnlyWhenDue` |
| `ReportTypeCorrect` | `ReportSpec => []ReportTypeOK` |
| `PhasesAreTruthful` | `ReportSpec => []PhaseIsTruthful` |
| `FollowedLogsAreWhole` | `ReportSpec => []FollowedLogIsWhole` |
| `StageInTypes` | `StageIn`'s `Spec => []StageInTypeOK` |
| `UploadsHaveDirectories` | `Spec => []UploadsFindDirectory` |
| `InputsAreInPlace`, `OutputsAreFound` | with `LocalPathsEndInNames`, `Spec => InputInPlace` and `Spec => []OutputFromMount` |
| `AllOptionsReachSlurm` | `Spec => []OptionsReachSlurm` |
| `JobsRunEveryContainer` | `Spec => []ContainersRunOnce` |
| `MountedDirectoriesExist` | `Spec => []MountsAreCreated` |
| `PodsHaveOwnDirectories` | with `ReplicasAreNumbered`, `NoVolumeIsAReplica`, `Spec => []PodsKeepApart` |
| `CallsSubmitOneJob` | `Spec => [](JobsAccounted /\ OneSubmission)`: all calls for a pod leave at most one job that no lost reply or restart lost |
| `CallsAreLifecycleCalls` | `Spec => ImplementsLifecycle` |

They hold for any sets of pods, names, jobs, workers, Secrets, threads and
transfers, any pods' annotations, volumes and containers, and any number of calls
and restarts. What they assume:

* the `ASSUME`s of the modules type the constants and keep the "no such value"
  constants apart. `ShapesAssumption` is what Kubernetes makes sure of: names are
  not empty, a pod's containers have different ones. It also says that the names
  the provider gives, the default scratch base and the ordinal `"0"`, are names,
  which no prover knows of a string literal. `StagingPlanAssumption`: no file
  can be opened that has no path. `ReplyAssumption`: token endpoints tell the truth.
  `LifeAssumption`: a token outlives its own fetch and the leeway.
* `OneWorker`: the sync worker of `main.go:150`. `OwnNames`: no two pods share a
  name; CreatePod reports success for whatever job is tracked under the
  name. `StageOutTooEarly` is what happens without `OwnNames`. No theorem limits the
  number of pollers.
* `OneCredentialPerSecret`: no version of a Secret holds two credentials that pods ask
  for; `CredentialKeyIgnored` is what happens without it.
* `LocalPathsEndInNames`: an sfapi input or output path does not end in `.` or
  `..`. `ReplicasAreNumbered`: two replicas of one StatefulSet have different
  numbers. `NoVolumeIsAReplica`: a pod named like a StatefulSet has no volume
  named like one of its ordinals. Section 6 has what the code does without the
  first and the last.

Each of these hypotheses holds in the passing run of the theorem's property.

The arguments. *Lifecycle* (`LInv`, `IInv`, `CInv`): `NoSilentOrphan` is not
inductive: storing a job under a key must not push out another. `IInv` adds that
a tracked job was submitted for a pod of its key, that the job in a creating
thread's hands was submitted for its pod and that in a deleting thread's hands
for a pod of its key, and that a thread about to untrack a job has had its cancellation acknowledged; the last gives
the action property, the first that removing an entry removes the job's own.
`CancelledIsUntracked` needs more: `CInv` adds that acknowledged jobs were
submitted and that a job a creating thread still holds is exclusive to it, not
acknowledged, not tracked and in no other thread's hands.
*As deployed* (`TaskInv`, `FreeKey`, `DInv`): `CancelledJobStops` needs `TasksFit`,
that Slurm knows a job only when it was submitted to it directly or by a
completed task, so that a deleted task leaves nothing to run. With `OneWorker`,
what a call saw of `podMap` when it began holds until it ends: no job is tracked
under its key while it submits and stores, and no duplicate is ever met. Then the
staging entry and the job are stored and removed with nobody in between, and a
pod's second job would need the first to be untracked, which by `IInv` is
a cancellation, a failed call or a restart.
*Ledger* (`RInv`): that a step is one ledger entry depends on where a job is seen
to be. `RInv` adds to `CInv` that only submitted jobs are excused
(so a new job is not lost from the start), that a lost job is tracked under no key
and in no creating thread's hands, and that a thread about to cancel
holds the job tracked under its key, or one closed already. Each action then
moves the places of at most one job, by lemmas on how
`placeOf` changes; a restart is `Burn`. The ledger's own invariant `Balanced` is
inductive.
*Stage-out* (`SInv`, `BInv`, `OInv`): "no transfer of a job that is not started"
has to be kept while a poller stands between its read of the status
and the start; the invariant ties the poller's copy to the entry's status, and
that the entry of a new job is fresh. With two pollers it fails, as
`StageOutTwice` shows, so `OInv` says it of each poller by itself: while a poller
stands there, it has not asked for a transfer of that job (`NotAsked`), whoever else
has. What output is of, and where it goes, needs more (`PInv`,
over `EInv`). A poller's look-ups are by name, so at each of its steps it must be
known that the name still means the same job. `LastJob` says so in a form that
lasts: the job is tracked, or its pod is on the way out, the name is free and no
call is about to submit for it; with one worker and `OwnNames` no other
job can come under that name. `PInv` keeps `LastJob` for every poller that has
looked a job up, and says what each recorded status stands for; then nobody has to
be alone at the poll. A result stands (`SettledResultsStand`, over this module's
`RInv`) because a status call that begins after it reads it and writes nothing, and
one that has begun is counted as at work as long as it may write; `RInv` adds that a
recorded status is of a job that is or was stored, so that no entry for the job can
come under a key again.
*Credentials* (`TInv`, `VInv`): the provider's idea of a
token's end never exceeds its real end, a cached token handed out has more than
the leeway left, and a fetched one has its life less the fetch, which
`LifeAssumption` puts beyond the leeway. `OwnInv` follows the credential: a cached source was made
from the credential and version its entry is filed under, a source a thread holds
was made from what the thread has read, and a cached token is of its source's
credential. The cache is filed by Secret alone, so a hit tells the version and not
the key: `OneCredentialPerSecret` closes the gap. `DueInv` keeps, for the one thread
that holds a source's mutex to fetch, that the cached token was due when it
began: nobody else can replace that token meanwhile.
*Reports* (`RInv`): a phase or a log outlives the state it was made from, so the
invariant says that state was final: a report of an end was made from a state
that has no successor, and a log was fetched when the job could write no more. It
rests on the `ASSUME` of `JobReports` that the final states are none of the
states a job passes through and not `COMPLETED+`, a spelling the client's table
has (`client.go:754`) and Slurm's list of states has not.

*Input staging* (`StageInProofs`). `TInv` adds to the types what a call has
decided by where it stands (`CallPlan`: the mode, that the plan and the local file
were accepted). `WInv` adds what it knows of its own work (`CallWork`: what it
waits for is what it has asked for, and the transfer, the mkdir or the upload it goes on
from is in `work`, of this call, for this directory, and has succeeded); with it an upload finds its directory
though the retry and its predecessor work on the same pod. `JInv` keeps for a
submitted job that the pod's plan and script were accepted, after which the
properties of scripts and paths are facts about operators. `MInv` (`OneCall`: while
a call runs its key is free, and a job is in its hands only at `store`) is what
makes each step one of `PodLifecycle`'s or none, and with `JobsAccounted` (`AInv`) shows
that a retry beside the leftovers of an earlier call submits no second job.

The operators are recursive functions over `0 .. N`. To the prover such a function is
a `CHOOSE`; `StepsExist` and `Settled` prove once that it exists and is determined.
An induction theorem of the library cannot be used for that, since it takes an
operator as parameter; `Upward` gets induction for a set from the
well-foundedness of `<` on naturals. The rest: `Place` numbers the containers in
the order of a script, the main one last, and is shown to be one to one and onto
(containers); `Lines` and `Grows` are the directories made so far, without
repetition and never fewer (directories); a path is split where
`filepath.Base` splits it and compared with its clean form (input and output); a
directory above another agrees with it name by name, so they have the same pod or set
and number in their second and third place (pods).

Only model-checked is liveness: `GonePodsAreForgotten`, `CallsEnd`,
`StageOutTerminates`, `TokenRequestsEnd`, `EndIsReported`, `FollowEnds`. They rest on
fairness, so on `ENABLED`, which the prover does not handle. All other
properties of the passing runs are proved, in the generality stated above; for
`StageOutAfterJobSucceeds` and `TokenOfOwnCredential` the violating runs show that
the hypothesis is needed. `StageOutStartedOnce` and `TokenValidWhileUsed` are what the
documents and tests expect and the code does not do: the violating runs show it, and
`EachThreadStartsOnce` and `TokensLiveThroughLeeway` are what holds instead.

## 5. Refinements

Two abstract specifications are implemented, each under a mapping written as an
`INSTANCE ... WITH` in the detailed module.

* `PodLifecycle` implements `JobLedger` (`ImplementsLedger`): checked by
  `LifecycleRaces` for two threads, proved for any number. The ledger has no threads,
  calls or Kubernetes; its point is that a job which no map, no thread and no
  failure accounts for does not exist in it, that an entry is never
  overwritten, and that only a closed entry is struck out.
* `StageIn` implements `PodLifecycle` (`ImplementsLifecycle`): checked by
  `StageIn` for its shapes, proved for any pods, jobs, calls and restarts. The pods of the lifecycle are there the eight kinds of pod by
  whether they stage input, use sfapi and stage output; the six program points on the way to a submission
  are its one `stageIn`. So what the other modules assume of input staging is
  what the detailed one does: it ends in `submit` or in a failed call, leaves the
  maps alone, and the staging entry exists for exactly the pods whose annotations ask
  for staging.

## 6. Not modelled

HTTP and JSON, quoting and layout of scripts and messages, the patterns of
option values (a pod lists the options whose value is refused), JWT signing, TLS
and the serving certificate (made at start, 24 hours), the log query options,
node status, leader election (there is none: the chart runs one replica). The
Virtual Kubelet's event filter (`main.go:137`) is external: a pod whose
credential annotation is removed later is not told to the provider at all.
Times in a pod's status, which are stamped anew at each call (`nersc.go:464`), and
the place of the job's output file, named by the pod without its namespace
(`slurm.go:132`), are left out.

`StageIn` has one pod, no `DeletePod` and no progress of the submitted job: those
are in `PodLifecycle`. `PodsKeepApart` is about names in one namespace: the scratch
directory has no namespace in it (`nersc.go:207`), so two namespaces share it for
pods of one name, and a pod finds the files of its predecessor of that name. Within
a namespace it excepts one case, which the run has: the scratch base of a plain pod
named like a StatefulSet (`<root>/web`) is the directory that the bases of the
replicas are in (`<root>/web/0`). When that pod has no volume it stages from and to its
base (`staging.go:181`), so its transfer of output carries the replicas' data along,
and its input may land in it.

The proofs brought out three corners of the code:

* An sfapi path that ends in `.` or `..` means its clean form to the code that opens
  it, while the remote name is the last element as it is written
  (`staging.go:62, 94`): the file then goes to, or comes from, another name or
  directory. Hence `LocalPathsEndInNames`; such paths are not among the run's shapes.
* A plain pod named like a StatefulSet, with a volume named like an ordinal (pod
  `web`, volume `0`), has the directory of replica `web-0` (`nersc.go:207-213`).
  Hence `NoVolumeIsAReplica`. Two values of `nersc.sf/scratchBase` are the same or
  have nothing in common: a root below another one is not modelled.
* `file:///` is accepted by the parser and refused only by opening it
  (`staging.go:149-157`); the run has a pod of that kind.

In `PodLifecycle` a failure before the first remote call and one of the script
generator leave nothing behind and differ in nothing from a refused submission.

Details the models leave out, none of which a property is about:

* `LocalRoot` is a sequence of names: a root `/` would be taken for one that is not
  set.
* `Ordinal` takes the number as it is written; the code reads it as an integer and
  prints it again (`nersc.go:684`), so that a pod `web-007` that the StatefulSet
  controller would not make is number 7.
* A pod without containers is refused before anything is staged (`nersc.go:177`); in
  `ScriptRefused` it is with the other reasons of the script generator. Kubernetes
  has no such pod, nor has the run.
* `clientForToken` can fail at the start of `reconcileStageOut`, which records
  `failed` (`staging.go:308-313`). It fails only for a base URL that is not one, and
  then every call of the provider fails.
* A task state outside new, completed, failed and cancelled is handed on in lower case
  (`client.go:230-231`); a Slurm state outside the client's table is handed on in lower
  case too, and is `other` here: of Slurm's states the provider's tables know none
  then (`nersc.go:703-725`).

## 7. Plan

Done, in this order: `Superfacility`, `PodLifecycle` and its proofs, `StageOut`
and its proofs, `Credentials` and its proofs, `JobReports`; then `JobLedger` and its
refinement proof, `StagingPlan`, `SlurmScript`, `StageIn` and its refinement;
then the proofs about `JobReports` and about one worker; then those about tokens,
about the delivery of output, and about `StageIn` with its refinement.

Next, most important first:

1. The step lemmas the liveness properties rest on, as far as they do without
   `ENABLED`: that a call's steps only go forward, so that no call can go
   round for ever.
2. The hazards no property watches (those without properties in `PROJECT.json`). Some
   are what the code does and no document speaks of: a name used again while its
   job is tracked, or while a status call is under way, a completed task that is
   deleted, a staging entry that went away. Others are policy and not protocol: a
   credential annotation that is removed (`main.go:138`), a task result without a
   number (`client.go:227`). A decision of the project on each would make a
   property of it.
