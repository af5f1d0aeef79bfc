--------------------------- MODULE DeployedProofs ---------------------------
(***************************************************************************)
(* More of what PodLifecycle promises, on top of PodLifecycleProofs: what  *)
(* a cancellation and a reported success stand for, with any number of     *)
(* threads, and what holds because main.go:150 starts one worker only.     *)
(***************************************************************************)
EXTENDS PodLifecycleProofs

-----------------------------------------------------------------------------
(* Who changes the records of the service and the two histories.           *)

LEMMA JobWriters ==
  ASSUME [Next]_vars
  PROVE  \/ UNCHANGED <<owner, task, slurm, acked>>
         \/ \E w \in Workers : SubmitAccepted(w) \/ SubmitReplyLost(w)
         \/ \E w \in Workers : DuplicateStep(w) \/ CancelStep(w)
         \/ \E j \in Jobs : ServiceAdvances(j)
  BY DEF Next, vars, Running, Begin, Continue, Kubernetes, StageInStep, SubmitStep,
     StoreStep, CreateTracked, CreateBegin, StageInDone, StageInFails, StageInTimeout,
     SubmitRefused, CreateStore, CreateDuplicate, DeleteTracked, DeleteUntracked,
     DeleteUntrack, DeleteDropStaging, PodBound, PodMarkedDeleted, PodRemoved, SetPhase,
     Restart, jobVars, ghostVars

LEMMA CreatedWriters ==
  ASSUME [Next]_vars
  PROVE  \/ UNCHANGED created
         \/ \E w \in Workers, p \in Pods : CreateTracked(w, p)
         \/ \E w \in Workers : CreateStore(w) \/ DuplicateCancelled(w)
  BY DEF Next, vars, Running, Begin, Continue, Kubernetes, StageInStep, SubmitStep,
     StoreStep, DuplicateStep, CancelStep, CreateBegin, StageInDone, StageInFails,
     StageInTimeout, SubmitAccepted, SubmitReplyLost, SubmitRefused, CreateDuplicate,
     DuplicateLeaked, DeleteTracked, DeleteUntracked, CancelAcknowledged, CancelFails,
     DeleteUntrack, DeleteDropStaging, PodBound, PodMarkedDeleted, PodRemoved, SetPhase,
     ServiceAdvances, lifecycleVars, Restart, ghostVars

\* A submission is one for the pod of a thread, and acknowledges nothing.
LEMMA Submission ==
  ASSUME IInv, NEW w \in Workers, SubmitAccepted(w) \/ SubmitReplyLost(w)
  PROVE  /\ worker[w].pod \in Pods
         /\ \E j \in Jobs : SubmitJob(j, worker[w].pod)
         /\ acked' = acked
  BY DEF SubmitAccepted, SubmitReplyLost, At, ghostVars, IInv, LInv, HoldsPod

\* A cancellation is one of a job in a thread's hands.
LEMMA Cancellation ==
  ASSUME IInv, NEW w \in Workers, DuplicateStep(w) \/ CancelStep(w)
  PROVE  /\ worker[w].job \in Jobs
         /\ \/ CancelJob(worker[w].job) /\ acked' \subseteq acked \cup {worker[w].job}
            \/ UNCHANGED <<owner, task, slurm, acked>>
  BY DEF DuplicateStep, DuplicateCancelled, DuplicateLeaked, CancelStep, CancelAcknowledged,
     CancelFails, At, ghostVars, jobVars, IInv, LInv, HoldsJob

\* A job stays the job of the pod it was submitted for.
LEMMA OwnersStay ==
  ASSUME IInv, [Next]_vars, NEW i \in Jobs, Submitted(i)
  PROVE  owner'[i] = owner[i]
  <1> USE DEF IInv, LInv, TypeOK
  <1>1. ASSUME NEW w \in Workers, SubmitAccepted(w) \/ SubmitReplyLost(w)
        PROVE  owner'[i] = owner[i]
    BY <1>1, Submission, SubmissionKeepsOwners
  <1>2. ASSUME NEW w \in Workers, DuplicateStep(w) \/ CancelStep(w)
        PROVE  owner'[i] = owner[i]
    BY <1>2, Cancellation DEF CancelJob
  <1>3. ASSUME NEW j \in Jobs, ServiceAdvances(j)
        PROVE  owner'[i] = owner[i]
    BY <1>3, JobAdvancesType DEF ServiceAdvances
  <1> QED
    BY <1>1, <1>2, <1>3, JobWriters

-----------------------------------------------------------------------------
(* Cancelled jobs stop.                                                    *)

\* Slurm knows a job only when it was submitted to it directly or by a task
\* that has completed.
TasksFit ==
  \A j \in Jobs :
    /\ ~Submitted(j) => task[j] = "none"
    /\ task[j] \notin {"direct", "completed"} => slurm[j] = "none"

TaskInv == CInv /\ TasksFit /\ CancelledJobStops

LEMMA TaskInvNext ==
  ASSUME TaskInv, [Next]_vars
  PROVE  TaskInv'
  <1> USE DEF TaskInv
  <1>0. CInv' /\ IInv /\ JobsTypeOK
    BY CInvNext DEF CInv, IInv, LInv, TypeOK
  <1>1. CASE UNCHANGED <<owner, task, slurm, acked>>
    BY <1>0, <1>1 DEF TasksFit, Submitted, CancelledJobStops
  <1>2. ASSUME NEW w \in Workers, SubmitAccepted(w) \/ SubmitReplyLost(w)
        PROVE  TaskInv'
    <2>1. PICK j \in Jobs : SubmitJob(j, worker[w].pod)
      BY <1>0, <1>2, Submission
    <2>2. worker[w].pod \in Pods /\ acked' = acked
      BY <1>0, <1>2, Submission
    <2>3. j \notin acked
      BY <2>1 DEF SubmitJob, CInv, AckedSubmitted
    <2>4. TasksFit'
      BY <1>0, <2>1, <2>2, SubmissionKeepsOwners
      DEF TasksFit, SubmitJob, Submitted, JobsTypeOK
    <2>5. CancelledJobStops'
      BY <1>0, <2>1, <2>2, <2>3
      DEF CancelledJobStops, SubmitJob, JobsTypeOK, IInv, LInv, TypeOK
    <2> QED
      BY <1>0, <2>4, <2>5
  <1>3. ASSUME NEW w \in Workers, DuplicateStep(w) \/ CancelStep(w)
        PROVE  TaskInv'
    <2>1. CASE UNCHANGED <<owner, task, slurm, acked>>
      BY <1>1, <2>1
    <2>2. CASE CancelJob(worker[w].job) /\ acked' \subseteq acked \cup {worker[w].job}
      <3> DEFINE j == worker[w].job
      <3>1. j \in Jobs
        BY <1>0, <1>3, Cancellation
      <3>2. TasksFit'
        BY <1>0, <2>2, <3>1
        DEF TasksFit, Submitted, CancelJob, cancelTask, cancelComputeJob, JobsTypeOK
      <3>3. CancelledJobStops'
        BY <1>0, <2>2, <3>1
        DEF TasksFit, CancelledJobStops, CancelJob, cancelTask, cancelComputeJob, JobsTypeOK,
            IInv, LInv, TypeOK
      <3> QED
        BY <1>0, <3>2, <3>3
    <2> QED
      BY <1>0, <1>3, <2>1, <2>2, Cancellation
  <1>4. ASSUME NEW j \in Jobs, ServiceAdvances(j)
        PROVE  TaskInv'
    <2>1. TasksFit'
      BY <1>0, <1>4
      DEF ServiceAdvances, JobAdvances, TaskFinishes, JobStarts, JobEnds, TasksFit, Submitted,
          JobsTypeOK
    <2>2. CancelledJobStops'
      BY <1>0, <1>4
      DEF ServiceAdvances, JobAdvances, TaskFinishes, JobStarts, JobEnds, CancelledJobStops,
          lifecycleVars, JobsTypeOK, IInv, LInv, TypeOK
    <2> QED
      BY <1>0, <2>1, <2>2
  <1> QED
    BY <1>1, <1>2, <1>3, <1>4, JobWriters

\* A job whose cancellation was acknowledged neither waits nor runs, unless
\* its API task had completed by then (client.go:322-342).
THEOREM CancelledJobsStop == Spec => []CancelledJobStops
  <1>1. Init => TaskInv
    <2> SUFFICES ASSUME Init PROVE TaskInv
      OBVIOUS
    <2> QED
      BY CInvInit DEF TaskInv, Init, JobsInit, TasksFit, CancelledJobStops
  <1>2. TaskInv => CancelledJobStops
    BY DEF TaskInv
  <1> QED
    BY <1>1, <1>2, TaskInvNext, PTL DEF Spec

-----------------------------------------------------------------------------
(* What CreatePod reports.                                                 *)

OwnNames == \A p, q \in Pods : KeyOf[p] = KeyOf[q] => p = q

LEMMA CreatedNext ==
  ASSUME OwnNames, IInv, CreatedPodsSubmitted, [Next]_vars
  PROVE  CreatedPodsSubmitted'
  <1> USE DEF IInv, LInv, TypeOK
  <1>1. \A p \in Pods : (\E j \in Jobs : owner[j] = p) => \E j \in Jobs : owner'[j] = p
    <2> SUFFICES ASSUME NEW p \in Pods, NEW j \in Jobs, owner[j] = p
                 PROVE  owner'[j] = p
      OBVIOUS
    <2>1. Submitted(j)
      BY SuperfacilityAssumption DEF Submitted
    <2> QED
      BY <2>1, OwnersStay
  <1>2. \A p \in created : \E j \in Jobs : owner[j] = p
    BY DEF CreatedPodsSubmitted
  <1>3. CASE UNCHANGED created
    BY <1>1, <1>2, <1>3 DEF CreatedPodsSubmitted
  <1>4. ASSUME NEW w \in Workers, NEW p \in Pods, CreateTracked(w, p)
        PROVE  CreatedPodsSubmitted'
    <2>1. podMap[KeyOf[p]] \in Jobs /\ KeyOf[owner[podMap[KeyOf[p]]]] = KeyOf[p]
      BY <1>4, PodLifecycleAssumption DEF CreateTracked, Tracked, TrackedOwn, JobOrNone
    <2>2. owner[podMap[KeyOf[p]]] \in Pods
      BY <1>4, <2>1, PodLifecycleAssumption
      DEF CreateTracked, Tracked, TrackedOwn, Submitted, JobsTypeOK
    <2>3. \E j \in Jobs : owner[j] = p
      BY <2>1, <2>2 DEF OwnNames
    <2> QED
      BY <1>1, <1>2, <1>4, <2>3 DEF CreateTracked, CreatedPodsSubmitted
  <1>5. ASSUME NEW w \in Workers, CreateStore(w) \/ DuplicateCancelled(w)
        PROVE  CreatedPodsSubmitted'
    <2>1. /\ worker[w].pod \in Pods /\ worker[w].job \in Jobs
          /\ owner[worker[w].job] = worker[w].pod
      BY <1>5 DEF CreateStore, DuplicateCancelled, At, HoldsPod, HoldsJob, CreatorOwn
    <2>2. created' = created \cup {worker[w].pod}
      BY <1>5 DEF CreateStore, DuplicateCancelled
    <2> QED
      BY <1>1, <1>2, <2>1, <2>2 DEF CreatedPodsSubmitted
  <1> QED
    BY <1>3, <1>4, <1>5, CreatedWriters

\* With pods under names of their own, a pod is reported created only when a
\* job of that very pod was submitted (nersc.go:182-185, 253, 265).
THEOREM CreatedPodsHaveJobs ==
  ASSUME OwnNames
  PROVE  Spec => []CreatedPodsSubmitted
  <1>1. Init => CreatedPodsSubmitted
    BY DEF Init, CreatedPodsSubmitted
  <1>2. IInv /\ CreatedPodsSubmitted /\ [Next]_vars => CreatedPodsSubmitted'
    BY CreatedNext
  <1> QED
    BY IInvInit, IInvNext, <1>1, <1>2, PTL DEF Spec

-----------------------------------------------------------------------------
(* One worker.                                                             *)

OneWorker == \A v, w \in Workers : v = w

\* What the worker saw of podMap when its call began still holds: nobody else
\* could have stored a job.
FreeKey ==
  \A w \in Workers :
    /\ worker[w].at \in {"stageIn", "submit", "store", "delDrop"} =>
         ~Tracked(KeyOf[worker[w].pod])
    /\ ~At(w, "cancelDup")

DInv == IInv /\ FreeKey /\ StagingKept

LEMMA FreeKeyNext ==
  ASSUME OneWorker, IInv, FreeKey, [Next]_vars
  PROVE  FreeKey'
  <1> USE DEF IInv, LInv, TypeOK, FreeKey, At, Tracked
  <1>1. ASSUME NEW w \in Workers, NEW p \in Pods, Begin(w, p)
        PROVE  FreeKey'
    BY <1>1 DEF OneWorker, Begin, CreateTracked, CreateBegin, DeleteTracked, DeleteUntracked,
       Goto, mapVars
  <1>2. ASSUME NEW w \in Workers, StageInStep(w) \/ SubmitStep(w)
        PROVE  FreeKey'
    BY <1>2 DEF OneWorker, StageInStep, StageInDone, StageInFails, StageInTimeout, SubmitStep,
       SubmitAccepted, SubmitReplyLost, SubmitRefused, Goto, Return, Idle, mapVars
  <1>3. ASSUME NEW w \in Workers, StoreStep(w) \/ DuplicateStep(w)
        PROVE  FreeKey'
    BY <1>3 DEF OneWorker, StoreStep, CreateStore, CreateDuplicate, DuplicateStep,
       DuplicateCancelled, DuplicateLeaked, Return, Idle
  <1>4. ASSUME NEW w \in Workers, CancelStep(w) \/ DeleteUntrack(w) \/ DeleteDropStaging(w)
        PROVE  FreeKey'
    BY <1>4 DEF OneWorker, CancelStep, CancelAcknowledged, CancelFails, DeleteUntrack,
       DeleteDropStaging, Goto, Return, Idle, mapVars
  <1>5. ASSUME NEW p \in Pods, Kubernetes(p)
        PROVE  FreeKey'
    BY <1>5 DEF Kubernetes, PodBound, PodMarkedDeleted, PodRemoved, SetPhase, mapVars
  <1>6. ASSUME NEW j \in Jobs, ServiceAdvances(j)
        PROVE  FreeKey'
    BY <1>6 DEF ServiceAdvances, lifecycleVars
  <1>7. CASE Restart
    BY <1>7 DEF Restart, Idle
  <1>8. CASE UNCHANGED vars
    BY <1>8 DEF vars
  <1> QED
    BY <1>1, <1>2, <1>3, <1>4, <1>5, <1>6, <1>7, <1>8 DEF Next, Running, Continue

LEMMA StagingKeptNext ==
  ASSUME DInv, [Next]_vars
  PROVE  StagingKept'
  <1> USE DEF DInv, IInv, LInv, TypeOK
  <1>0. \A k \in Keys : Tracked(k) => podMap[k] \in Jobs /\ owner'[podMap[k]] = owner[podMap[k]]
    BY OwnersStay DEF Tracked, TrackedOwn, JobOrNone
  <1>1. CASE UNCHANGED <<podMap, stagingMap>>
    BY <1>0, <1>1 DEF StagingKept, Tracked
  <1>2. ASSUME NEW w \in Workers, CreateStore(w)
        PROVE  StagingKept'
    <2>1. /\ worker[w].pod \in Pods /\ worker[w].job \in Jobs
          /\ owner[worker[w].job] = worker[w].pod /\ KeyOf[worker[w].pod] \in Keys
      BY <1>2, PodLifecycleAssumption DEF CreateStore, At, HoldsPod, HoldsJob, CreatorOwn
    <2>2. owner' = owner
      BY <1>2 DEF CreateStore, jobVars
    <2> QED
      BY <1>2, <2>1, <2>2 DEF CreateStore, StagingKept, Tracked
  <1>3. ASSUME NEW w \in Workers, DeleteUntrack(w)
        PROVE  StagingKept'
    BY <1>0, <1>3 DEF DeleteUntrack, StagingKept, Tracked, mapVars
  <1>4. ASSUME NEW w \in Workers, DeleteDropStaging(w)
        PROVE  StagingKept'
    BY <1>0, <1>4 DEF DeleteDropStaging, StagingKept, Tracked, FreeKey, At
  <1>5. CASE Restart
    BY <1>5 DEF Restart, StagingKept, Tracked
  <1> QED
    BY <1>1, <1>2, <1>3, <1>4, <1>5, MapWriters

LEMMA DInvInit == Init => DInv
  <1> SUFFICES ASSUME Init PROVE DInv
    OBVIOUS
  <1> QED
    BY IInvInit DEF Init, DInv, FreeKey, StagingKept, Tracked, At, Idle

LEMMA DInvNext ==
  ASSUME OneWorker, DInv, [Next]_vars
  PROVE  DInv'
  BY IInvNext, FreeKeyNext, StagingKeptNext DEF DInv

\* A job in the worker's hands is one of a key that is not tracked, so it is
\* the only one of its pod.
LEMMA OneJobEach ==
  ASSUME OneWorker, DInv
  PROVE  NoDuplicateJobs
  <1> USE DEF DInv, IInv, LInv, TypeOK
  <1> SUFFICES ASSUME NEW i \in Jobs, NEW j \in Jobs, Submitted(i), owner[i] = owner[j],
                      ~Known(i), ~Known(j)
               PROVE  i = j
    BY DEF NoDuplicateJobs
  <1>1. \A h \in {i, j} : podMap[KeyOf[owner[i]]] = h \/ Held(h)
    BY DEF NoSilentOrphan, Submitted
  <1>2. ASSUME NEW w \in Workers, worker[w].at \in {"store", "cancelDup"},
               owner[worker[w].job] = owner[i]
        PROVE  podMap[KeyOf[owner[i]]] = NoJob
    BY <1>2 DEF FreeKey, At, Tracked, CreatorOwn
  <1>3. NoJob \notin Jobs
    BY PodLifecycleAssumption
  <1> QED
    BY <1>1, <1>2, <1>3 DEF Held, OneWorker

\* With one worker, a tracked pod that asked for staging keeps its staging
\* entry (nersc.go:259, 298-302).
THEOREM OneWorkerKeepsStaging ==
  ASSUME OneWorker
  PROVE  Spec => []StagingKept
  <1>1. DInv /\ [Next]_vars => DInv'
    BY DInvNext
  <1>2. DInv => StagingKept
    BY DEF DInv
  <1> QED
    BY DInvInit, <1>1, <1>2, PTL DEF Spec

\* With one worker, a pod has at most one job that nobody lost or cancelled,
\* whatever is retried (nersc.go:182).
THEOREM OneWorkerNoDuplicates ==
  ASSUME OneWorker
  PROVE  Spec => []NoDuplicateJobs
  <1>1. DInv /\ [Next]_vars => DInv'
    BY DInvNext
  <1>2. DInv => NoDuplicateJobs
    BY OneJobEach
  <1> QED
    BY DInvInit, <1>1, <1>2, PTL DEF Spec

-----------------------------------------------------------------------------
(* The last job of a pod.  With one worker and a name for each pod, a job  *)
(* that was tracked is the last one of its pod until the process restarts. *)

\* DeletePod is called for pods that are being deleted or gone.
DeletersLate ==
  \A w \in Workers :
    worker[w].at \in {"delCancel", "delUntrack", "delDrop"} =>
      phase[worker[w].pod] \in {"deleting", "gone"}

\* Job j is tracked, or its pod is being deleted and no call for it is on the
\* way to a submission.
LastJob(j) ==
  LET p == owner[j]
  IN /\ Submitted(j)
     /\ \/ podMap[KeyOf[p]] = j
        \/ /\ podMap[KeyOf[p]] = NoJob
           /\ phase[p] \in {"deleting", "gone"}
           /\ \A w \in Workers :
                worker[w].at \in {"stageIn", "submit", "store"} => worker[w].pod # p

\* The lifecycle's part of what StageOutProofs needs with one worker.
EInv == DInv /\ DeletersLate /\ StagingFollowsTracking

LEMMA PhasesAdvance ==
  ASSUME LInv, [Next]_vars, NEW p \in Pods, phase[p] \in {"deleting", "gone"}
  PROVE  phase'[p] \in {"deleting", "gone"}
  <1> USE DEF LInv, TypeOK
  <1>1. ASSUME NEW q \in Pods, Kubernetes(q)
        PROVE  phase'[p] \in {"deleting", "gone"}
    BY <1>1 DEF Kubernetes, PodBound, PodMarkedDeleted, PodRemoved, SetPhase
  <1>2. \/ phase' = phase
        \/ \E q \in Pods : Kubernetes(q)
    BY DEF Next, vars, Running, Begin, Continue, StageInStep, SubmitStep, StoreStep,
       DuplicateStep, CancelStep, CreateTracked, CreateBegin, StageInDone, StageInFails,
       StageInTimeout, SubmitAccepted, SubmitReplyLost, SubmitRefused, CreateStore,
       CreateDuplicate, DuplicateCancelled, DuplicateLeaked, DeleteTracked, DeleteUntracked,
       CancelAcknowledged, CancelFails, DeleteUntrack, DeleteDropStaging, ServiceAdvances,
       lifecycleVars, Restart, ghostVars
  <1> QED
    BY <1>1, <1>2

\* How a thread gets to the labels that matter here.
LEMMA ThreadMoves ==
  ASSUME LInv, [Next]_vars, NEW w \in Workers
  PROVE  LET p == worker'[w].pod
             l == worker'[w].at
         IN /\ l \in {"delCancel", "delUntrack", "delDrop"} =>
                 \/ worker[w].at \in {"delCancel", "delUntrack", "delDrop"} /\ worker[w].pod = p
                 \/ p \in Pods /\ phase[p] \in {"deleting", "gone"}
            /\ l \in {"stageIn", "submit", "store"} =>
                 \/ worker[w].at \in {"stageIn", "submit", "store"} /\ worker[w].pod = p
                 \/ p \in Pods /\ phase[p] = "bound"
  <1> DEFINE Goal(v) ==
        LET p == worker'[v].pod
            l == worker'[v].at
        IN /\ l \in {"delCancel", "delUntrack", "delDrop"} =>
                \/ worker[v].at \in {"delCancel", "delUntrack", "delDrop"} /\ worker[v].pod = p
                \/ p \in Pods /\ phase[p] \in {"deleting", "gone"}
           /\ l \in {"stageIn", "submit", "store"} =>
                \/ worker[v].at \in {"stageIn", "submit", "store"} /\ worker[v].pod = p
                \/ p \in Pods /\ phase[p] = "bound"
  <1> USE DEF LInv, TypeOK, At
  <1>1. ASSUME NEW v \in Workers, NEW p \in Pods, Begin(v, p)
        PROVE  Goal(w)
    BY <1>1 DEF Begin, CreateTracked, CreateBegin, DeleteTracked, DeleteUntracked,
       DeleteCalled, Goto
  <1>2. ASSUME NEW v \in Workers, StageInStep(v) \/ SubmitStep(v) \/ StoreStep(v)
        PROVE  Goal(w)
    BY <1>2 DEF StageInStep, StageInDone, StageInFails, StageInTimeout, SubmitStep,
       SubmitAccepted, SubmitReplyLost, SubmitRefused, StoreStep, CreateStore,
       CreateDuplicate, Goto, Return, Idle
  <1>3. ASSUME NEW v \in Workers,
               DuplicateStep(v) \/ CancelStep(v) \/ DeleteUntrack(v) \/ DeleteDropStaging(v)
        PROVE  Goal(w)
    BY <1>3 DEF DuplicateStep, DuplicateCancelled, DuplicateLeaked, CancelStep,
       CancelAcknowledged, CancelFails, DeleteUntrack, DeleteDropStaging, Goto, Return, Idle
  <1>4. CASE UNCHANGED worker
    BY <1>4
  <1>5. CASE Restart
    BY <1>5 DEF Restart, Idle
  <1> QED
    BY <1>1, <1>2, <1>3, <1>4, <1>5
    DEF Next, Running, Continue, Kubernetes, PodBound, PodMarkedDeleted, PodRemoved, SetPhase,
        ServiceAdvances, lifecycleVars, vars

LEMMA DeletersLateNext ==
  ASSUME LInv, DeletersLate, [Next]_vars
  PROVE  DeletersLate'
  <1> SUFFICES ASSUME NEW w \in Workers,
                      worker'[w].at \in {"delCancel", "delUntrack", "delDrop"}
               PROVE  phase'[worker'[w].pod] \in {"deleting", "gone"}
    BY DEF DeletersLate
  <1>1. worker'[w].pod \in Pods /\ phase[worker'[w].pod] \in {"deleting", "gone"}
    BY ThreadMoves DEF DeletersLate, LInv, HoldsPod, At
  <1> QED
    BY <1>1, PhasesAdvance

LEMMA EInvInit == Init => EInv
  <1> SUFFICES ASSUME Init PROVE EInv
    OBVIOUS
  <1> QED
    BY DInvInit DEF Init, EInv, DeletersLate, StagingFollowsTracking, Idle

LEMMA EInvNext ==
  ASSUME OneWorker, EInv, [Next]_vars
  PROVE  EInv'
  BY DInvNext, DeletersLateNext, StagingStep DEF EInv, DInv, IInv

LEMMA RunningMaps ==
  ASSUME Running \/ UNCHANGED vars
  PROVE  \/ UNCHANGED <<podMap, stagingMap>>
         \/ \E w \in Workers : CreateStore(w) \/ DeleteUntrack(w) \/ DeleteDropStaging(w)
  BY DEF vars, Running, Begin, Continue, Kubernetes, StageInStep, SubmitStep,
     StoreStep, DuplicateStep, CancelStep, CreateTracked, CreateBegin, StageInDone,
     StageInFails, StageInTimeout, SubmitAccepted, SubmitReplyLost, SubmitRefused,
     CreateDuplicate, DuplicateCancelled, DuplicateLeaked, DeleteTracked,
     DeleteUntracked, CancelAcknowledged, CancelFails, PodBound, PodMarkedDeleted,
     PodRemoved, SetPhase, ServiceAdvances, lifecycleVars, mapVars

\* Only a restart gives a pod another job.
LEMMA LastJobStays ==
  ASSUME OneWorker, OwnNames, EInv, Running \/ UNCHANGED vars, NEW j \in Jobs, LastJob(j)
  PROVE  LastJob(j)'
  <1> USE DEF EInv, DInv, IInv, LInv, TypeOK
  <1> DEFINE p == owner[j]
             k == KeyOf[p]
  <1>1. [Next]_vars
    BY DEF Next
  <1>2. p \in Pods /\ k \in Keys /\ Submitted(j) /\ owner'[j] = p
    BY <1>1, OwnersStay, PodLifecycleAssumption DEF LastJob, Submitted, JobsTypeOK
  <1>3. Submitted(j)'
    BY <1>2 DEF Submitted
  <1>4. ASSUME podMap'[k] = j
        PROVE  LastJob(j)'
    BY <1>2, <1>3, <1>4 DEF LastJob
  <1>5. ASSUME podMap'[k] # podMap[k]
        PROVE  \E w \in Workers : \/ CreateStore(w) /\ KeyOf[worker[w].pod] = k
                                  \/ DeleteUntrack(w) /\ KeyOf[worker[w].pod] = k
    <2>1. ASSUME NEW w \in Workers, CreateStore(w)
          PROVE  KeyOf[worker[w].pod] = k
      BY <1>2, <1>5, <2>1 DEF CreateStore
    <2>2. ASSUME NEW w \in Workers, DeleteUntrack(w)
          PROVE  KeyOf[worker[w].pod] = k
      BY <1>2, <1>5, <2>2 DEF DeleteUntrack, mapVars
    <2>3. ~ \E w \in Workers : DeleteDropStaging(w)
      BY <1>5 DEF DeleteDropStaging
    <2>4. UNCHANGED <<podMap, stagingMap>> \/ \E w \in Workers : CreateStore(w) \/ DeleteUntrack(w)
      BY <2>3, RunningMaps
    <2> QED
      BY <1>5, <2>1, <2>2, <2>4
  <1>6. CASE podMap[k] = j
    <2> SUFFICES ASSUME podMap'[k] # j
                 PROVE  LastJob(j)'
      BY <1>4
    <2>1. PICK w \in Workers : \/ CreateStore(w) /\ KeyOf[worker[w].pod] = k
                               \/ DeleteUntrack(w) /\ KeyOf[worker[w].pod] = k
      BY <1>5, <1>6
    <2>2. DeleteUntrack(w) /\ KeyOf[worker[w].pod] = k
      BY <1>6, <2>1, PodLifecycleAssumption DEF CreateStore, Tracked
    <2>3. worker[w].pod = p
      BY <1>2, <2>2 DEF OwnNames, DeleteUntrack, HoldsPod, At
    <2>4. phase'[p] \in {"deleting", "gone"}
      BY <2>2, <2>3 DEF DeletersLate, DeleteUntrack, At, ghostVars
    <2>5. podMap'[k] = NoJob
      BY <1>2, <1>6, <2>2 DEF DeleteUntrack, mapVars
    <2>6. \A v \in Workers : worker'[v].at = "idle"
      BY <2>2 DEF OneWorker, DeleteUntrack, Return, Idle
    <2> QED
      BY <1>2, <1>3, <2>4, <2>5, <2>6 DEF LastJob
  <1>7. CASE podMap[k] # j
    <2>1. /\ podMap[k] = NoJob /\ phase[p] \in {"deleting", "gone"}
          /\ \A w \in Workers : worker[w].at \in {"stageIn", "submit", "store"} => worker[w].pod # p
      BY <1>7 DEF LastJob
    <2>2. phase'[p] \in {"deleting", "gone"}
      BY <1>1, <1>2, <2>1, PhasesAdvance
    <2>3. ASSUME NEW w \in Workers, worker'[w].at \in {"stageIn", "submit", "store"}
          PROVE  worker'[w].pod # p
      BY <1>1, <2>1, <2>3, ThreadMoves
    <2>4. podMap'[k] = NoJob
      <3> SUFFICES ASSUME podMap'[k] # podMap[k] PROVE podMap'[k] = NoJob
        BY <2>1
      <3>1. PICK w \in Workers : \/ CreateStore(w) /\ KeyOf[worker[w].pod] = k
                                 \/ DeleteUntrack(w) /\ KeyOf[worker[w].pod] = k
        BY <1>5
      <3>2. ~CreateStore(w)
        BY <1>2, <2>1, <3>1 DEF OwnNames, CreateStore, HoldsPod, At
      <3> QED
        BY <1>2, <2>1, <3>1, <3>2 DEF DeleteUntrack, mapVars
    <2> QED
      BY <1>2, <1>3, <2>2, <2>3, <2>4 DEF LastJob
  <1> QED
    BY <1>6, <1>7
=============================================================================
