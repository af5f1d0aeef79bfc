------------------------- MODULE PodLifecycleProofs -------------------------
(***************************************************************************)
(* What PodLifecycle promises for every number of threads, pods, keys,     *)
(* jobs and restarts.  Nothing is assumed about KeyOf beyond its type: two *)
(* pods may share a key.                                                   *)
(***************************************************************************)
EXTENDS PodLifecycle, TLAPS

\* The value of an entry read as a record, kept apart so that the provers
\* need not unfold the worker function.
WorkerType == [at : Labels, pod : Pods \cup {NoPod}, job : JobOrNone]

-----------------------------------------------------------------------------
(* Calls of the client keep the shape of the job tables.                   *)

LEMMA SubmitJobType ==
  ASSUME JobsTypeOK, NEW j \in Jobs, NEW p \in Pods, SubmitJob(j, p)
  PROVE  /\ JobsTypeOK'
         /\ owner' = [owner EXCEPT ![j] = p]
         /\ owner[j] = NoPod
  BY DEF JobsTypeOK, SubmitJob, Submitted, TaskStates, SlurmStates

LEMMA CancelJobType ==
  ASSUME JobsTypeOK, NEW j \in Jobs, CancelJob(j)
  PROVE  JobsTypeOK' /\ owner' = owner
  BY DEF JobsTypeOK, CancelJob, cancelTask, cancelComputeJob, TaskStates, SlurmStates

LEMMA JobAdvancesType ==
  ASSUME JobsTypeOK, NEW j \in Jobs, JobAdvances(j)
  PROVE  JobsTypeOK' /\ owner' = owner
  BY DEF JobsTypeOK, JobAdvances, TaskFinishes, JobStarts, JobEnds, TaskStates, SlurmStates

-----------------------------------------------------------------------------
(* What a label says about the pod and the job a thread holds.             *)

HoldsPod(w) == ~At(w, "idle") => worker[w].pod \in Pods

HoldsJob(w) ==
  worker[w].at \in {"store", "cancelDup", "delCancel", "delUntrack"}
    => worker[w].job \in Jobs

\* The first half of the inductive invariant: types, and threads that hold
\* what their label needs.
LInv ==
  /\ TypeOK
  /\ \A w \in Workers : HoldsPod(w) /\ HoldsJob(w)

LEMMA LInvInit == Init => LInv
  BY PodLifecycleAssumption, SuperfacilityAssumption
  DEF Init, JobsInit, LInv, TypeOK, JobsTypeOK, HoldsPod, HoldsJob, At, Idle, Labels,
      Phases, JobOrNone, TaskStates, SlurmStates

LEMMA LInvNext ==
  ASSUME LInv, [Next]_vars
  PROVE  LInv'
  <1> USE PodLifecycleAssumption, SuperfacilityAssumption
      DEF LInv, TypeOK, HoldsPod, HoldsJob, At, JobOrNone
  <1>1. ASSUME NEW w \in Workers, NEW p \in Pods, CreateTracked(w, p)
        PROVE  LInv'
    BY <1>1 DEF CreateTracked, jobVars, mapVars, JobsTypeOK
  <1>2. ASSUME NEW w \in Workers, NEW p \in Pods, CreateBegin(w, p)
        PROVE  LInv'
    BY <1>2 DEF CreateBegin, Goto, Labels, jobVars, mapVars, ghostVars, JobsTypeOK
  <1>3. ASSUME NEW w \in Workers, StageInStep(w)
        PROVE  LInv'
    BY <1>3 DEF StageInStep, StageInDone, StageInFails, StageInTimeout, Goto, Return,
         Idle, Labels, jobVars, mapVars, ghostVars, JobsTypeOK
  <1>4. ASSUME NEW w \in Workers, SubmitAccepted(w)
        PROVE  LInv'
    <2>1. PICK j \in Jobs : SubmitJob(j, worker[w].pod) /\ Goto(w, "store", worker[w].pod, j)
      BY <1>4 DEF SubmitAccepted
    <2>2. worker[w].pod \in Pods
      BY <1>4 DEF SubmitAccepted
    <2>3. JobsTypeOK'
      BY <2>1, <2>2, SubmitJobType
    <2> QED
      BY <1>4, <2>1, <2>2, <2>3 DEF SubmitAccepted, Goto, Labels, mapVars, ghostVars
  <1>5. ASSUME NEW w \in Workers, SubmitReplyLost(w)
        PROVE  LInv'
    <2>1. PICK j \in Jobs : SubmitJob(j, worker[w].pod) /\ excused' = excused \cup {j}
      BY <1>5 DEF SubmitReplyLost
    <2>2. worker[w].pod \in Pods
      BY <1>5 DEF SubmitReplyLost
    <2>3. JobsTypeOK'
      BY <2>1, <2>2, SubmitJobType
    <2> QED
      BY <1>5, <2>1, <2>3 DEF SubmitReplyLost, Return, Idle, Labels, mapVars
  <1>6. ASSUME NEW w \in Workers, SubmitRefused(w)
        PROVE  LInv'
    BY <1>6 DEF SubmitRefused, Return, Idle, Labels, jobVars, mapVars, ghostVars, JobsTypeOK
  <1>7. ASSUME NEW w \in Workers, CreateStore(w)
        PROVE  LInv'
    BY <1>7 DEF CreateStore, Return, Idle, Labels, jobVars, JobsTypeOK
  <1>8. ASSUME NEW w \in Workers, CreateDuplicate(w)
        PROVE  LInv'
    BY <1>8 DEF CreateDuplicate, Goto, Labels, jobVars, mapVars, ghostVars, JobsTypeOK
  <1>9. ASSUME NEW w \in Workers, DuplicateStep(w)
        PROVE  LInv'
    <2>1. worker[w].job \in Jobs /\ worker[w].pod \in Pods
      BY <1>9 DEF DuplicateStep, DuplicateCancelled, DuplicateLeaked
    <2>2. JobsTypeOK'
      BY <1>9, <2>1, CancelJobType
      DEF DuplicateStep, DuplicateCancelled, DuplicateLeaked, jobVars, JobsTypeOK
    <2> QED
      BY <1>9, <2>1, <2>2
      DEF DuplicateStep, DuplicateCancelled, DuplicateLeaked, Return, Idle, Labels, mapVars
  <1>10. ASSUME NEW w \in Workers, NEW p \in Pods, DeleteTracked(w, p)
         PROVE  LInv'
    BY <1>10 DEF DeleteTracked, Tracked, Goto, Labels, jobVars, mapVars, ghostVars, JobsTypeOK
  <1>11. ASSUME NEW w \in Workers, NEW p \in Pods, DeleteUntracked(w, p)
         PROVE  LInv'
    BY <1>11 DEF DeleteUntracked, Goto, Labels, jobVars, mapVars, ghostVars, JobsTypeOK
  <1>12. ASSUME NEW w \in Workers, CancelStep(w)
         PROVE  LInv'
    <2>1. worker[w].job \in Jobs /\ worker[w].pod \in Pods
      BY <1>12 DEF CancelStep, CancelAcknowledged, CancelFails
    <2>2. JobsTypeOK'
      BY <1>12, <2>1, CancelJobType
      DEF CancelStep, CancelAcknowledged, CancelFails, jobVars, JobsTypeOK
    <2> QED
      BY <1>12, <2>1, <2>2
      DEF CancelStep, CancelAcknowledged, CancelFails, Goto, Return, Idle, Labels,
          mapVars, ghostVars
  <1>13. ASSUME NEW w \in Workers, DeleteUntrack(w)
         PROVE  LInv'
    BY <1>13 DEF DeleteUntrack, Return, Idle, Labels, jobVars, mapVars, ghostVars, JobsTypeOK
  <1>14. ASSUME NEW w \in Workers, DeleteDropStaging(w)
         PROVE  LInv'
    BY <1>14 DEF DeleteDropStaging, Return, Idle, Labels, jobVars, ghostVars, JobsTypeOK
  <1>15. ASSUME NEW p \in Pods, Kubernetes(p)
         PROVE  LInv'
    BY <1>15 DEF Kubernetes, PodBound, PodMarkedDeleted, PodRemoved, SetPhase, Phases,
         jobVars, mapVars, JobsTypeOK
  <1>16. ASSUME NEW j \in Jobs, ServiceAdvances(j)
         PROVE  LInv'
    BY <1>16, JobAdvancesType DEF ServiceAdvances, lifecycleVars
  <1>17. ASSUME Restart
         PROVE  LInv'
    BY <1>17 DEF Restart, Idle, Labels, jobVars, JobsTypeOK
  <1>18. CASE UNCHANGED vars
    BY <1>18 DEF vars, JobsTypeOK
  <1> QED
    BY <1>1, <1>2, <1>3, <1>4, <1>5, <1>6, <1>7, <1>8, <1>9, <1>10, <1>11, <1>12, <1>13,
       <1>14, <1>15, <1>16, <1>17, <1>18
    DEF Next, Running, Begin, Continue, SubmitStep, StoreStep

\* Every state has its type, for any number of threads, pods and jobs
\* (the two maps of nersc.go:33, a thread's locals, the service's records).
THEOREM TypeCorrect == Spec => []TypeOK
  <1>1. LInv => TypeOK
    BY DEF LInv
  <1> QED
    BY LInvInit, LInvNext, <1>1, PTL DEF Spec

-----------------------------------------------------------------------------
(* Who holds which job.  NoSilentOrphan is not inductive: a CreateStore    *)
(* must find that the job it stores belongs to the key it is stored under, *)
(* and a DeleteUntrack that the job it drops was acknowledged.             *)

\* A tracked job was submitted for a pod of that very key.
TrackedOwn ==
  \A k \in Keys :
    Tracked(k) => Submitted(podMap[k]) /\ KeyOf[owner[podMap[k]]] = k

\* A CreatePod call holds the job it submitted for its own pod.
CreatorOwn ==
  \A w \in Workers :
    worker[w].at \in {"store", "cancelDup"}
      => Submitted(worker[w].job) /\ owner[worker[w].job] = worker[w].pod

\* A DeletePod call holds a submitted job of its key.
DeleterOwn ==
  \A w \in Workers :
    worker[w].at \in {"delCancel", "delUntrack"}
      => /\ Submitted(worker[w].job)
         /\ KeyOf[owner[worker[w].job]] = KeyOf[worker[w].pod]

AckedBeforeUntrack ==
  \A w \in Workers : At(w, "delUntrack") => worker[w].job \in acked

\* The inductive invariant.
IInv ==
  /\ LInv
  /\ TrackedOwn
  /\ CreatorOwn
  /\ DeleterOwn
  /\ AckedBeforeUntrack
  /\ NoSilentOrphan

LEMMA IInvInit == Init => IInv
  <1> SUFFICES ASSUME Init PROVE IInv
    OBVIOUS
  <1>1. LInv
    BY LInvInit
  <1> QED
    BY <1>1, SuperfacilityAssumption
    DEF Init, JobsInit, IInv, TrackedOwn, CreatorOwn, DeleterOwn, AckedBeforeUntrack,
        NoSilentOrphan, Tracked, Submitted, At, Idle

\* A submission leaves the owner of every submitted job alone.
LEMMA SubmissionKeepsOwners ==
  ASSUME JobsTypeOK, NEW j \in Jobs, NEW p \in Pods, SubmitJob(j, p)
  PROVE  /\ \A i \in Jobs : Submitted(i) => owner'[i] = owner[i]
         /\ ~Submitted(j)
         /\ owner'[j] = p /\ p # NoPod
         /\ \A i \in Jobs : i # j => owner'[i] = owner[i]
  BY SubmitJobType, SuperfacilityAssumption DEF JobsTypeOK, Submitted

\* A step that keeps owners, podMap, acked and excused, and moves thread w to a
\* label where it holds no job, keeps the invariant if w held none before.
LEMMA QuietStep ==
  ASSUME IInv, LInv', NEW w \in Workers,
         UNCHANGED <<owner, podMap, acked, excused>>,
         \A v \in Workers \ {w} : worker'[v] = worker[v],
         worker[w].at \notin {"store", "cancelDup"},
         worker'[w].at \notin {"store", "cancelDup", "delCancel", "delUntrack"}
  PROVE  IInv'
  BY DEF IInv, LInv, TypeOK, TrackedOwn, CreatorOwn, DeleterOwn, AckedBeforeUntrack,
     NoSilentOrphan, Tracked, Submitted, Held, Known, At

\* The same when no thread moves; acknowledged jobs may not change either.
LEMMA StillStep ==
  ASSUME IInv, LInv', UNCHANGED <<owner, podMap, worker, acked, excused>>
  PROVE  IInv'
  BY DEF IInv, TrackedOwn, CreatorOwn, DeleterOwn, AckedBeforeUntrack,
     NoSilentOrphan, Tracked, Submitted, Held, Known, At

LEMMA IInvNext ==
  ASSUME IInv, [Next]_vars
  PROVE  IInv'
  <1>0. LInv'
    BY LInvNext DEF IInv
  <1> USE <1>0 DEF HoldsPod, HoldsJob, At
  <1>1. ASSUME NEW w \in Workers, NEW p \in Pods, CreateTracked(w, p)
        PROVE  IInv'
    BY <1>1, StillStep DEF CreateTracked, jobVars, mapVars
  <1>2. ASSUME NEW w \in Workers, NEW p \in Pods, CreateBegin(w, p)
        PROVE  IInv'
    BY <1>2, QuietStep DEF CreateBegin, Goto, jobVars, mapVars, ghostVars, IInv, LInv, TypeOK
  <1>3. ASSUME NEW w \in Workers, StageInStep(w)
        PROVE  IInv'
    BY <1>3, QuietStep DEF StageInStep, StageInDone, StageInFails, StageInTimeout, Goto,
       Return, Idle, jobVars, mapVars, ghostVars, IInv, LInv, TypeOK
  <1>4. ASSUME NEW w \in Workers, SubmitAccepted(w)
        PROVE  IInv'
    <2>1. PICK j \in Jobs : SubmitJob(j, worker[w].pod) /\ Goto(w, "store", worker[w].pod, j)
      BY <1>4 DEF SubmitAccepted
    <2>2. worker[w].pod \in Pods /\ JobsTypeOK /\ At(w, "submit")
      BY <1>4 DEF SubmitAccepted, IInv, LInv, TypeOK
    <2>3. /\ \A i \in Jobs : Submitted(i) => owner'[i] = owner[i]
          /\ ~Submitted(j)
          /\ owner'[j] = worker[w].pod /\ worker[w].pod # NoPod
          /\ \A i \in Jobs : i # j => owner'[i] = owner[i]
      BY <2>1, <2>2, SubmissionKeepsOwners
    <2>4. /\ UNCHANGED <<podMap, acked, excused>>
          /\ worker'[w] = [at |-> "store", pod |-> worker[w].pod, job |-> j]
          /\ \A v \in Workers \ {w} : worker'[v] = worker[v]
      BY <1>4, <2>1 DEF SubmitAccepted, Goto, mapVars, ghostVars, IInv, LInv, TypeOK
    <2>5. TrackedOwn'
      BY <2>3, <2>4 DEF TrackedOwn, Tracked, Submitted, IInv, LInv, TypeOK, JobOrNone
    <2>6. CreatorOwn' /\ DeleterOwn' /\ AckedBeforeUntrack'
      BY <2>3, <2>4 DEF CreatorOwn, DeleterOwn, AckedBeforeUntrack, Submitted, IInv, LInv
    <2>7. NoSilentOrphan'
      BY <2>2, <2>3, <2>4 DEF NoSilentOrphan, Submitted, Held, Known, IInv
    <2> QED
      BY <2>5, <2>6, <2>7 DEF IInv
  <1>5. ASSUME NEW w \in Workers, SubmitReplyLost(w)
        PROVE  IInv'
    <2>1. PICK j \in Jobs : SubmitJob(j, worker[w].pod) /\ excused' = excused \cup {j}
      BY <1>5 DEF SubmitReplyLost
    <2>2. worker[w].pod \in Pods /\ JobsTypeOK /\ At(w, "submit")
      BY <1>5 DEF SubmitReplyLost, IInv, LInv, TypeOK
    <2>3. /\ \A i \in Jobs : Submitted(i) => owner'[i] = owner[i]
          /\ ~Submitted(j)
          /\ owner'[j] = worker[w].pod /\ worker[w].pod # NoPod
          /\ \A i \in Jobs : i # j => owner'[i] = owner[i]
      BY <2>1, <2>2, SubmissionKeepsOwners
    <2>4. /\ UNCHANGED <<podMap, acked>>
          /\ worker'[w] = Idle
          /\ \A v \in Workers \ {w} : worker'[v] = worker[v]
      BY <1>5 DEF SubmitReplyLost, Return, mapVars, IInv, LInv, TypeOK
    <2>5. TrackedOwn'
      BY <2>3, <2>4 DEF TrackedOwn, Tracked, Submitted, IInv, LInv, TypeOK, JobOrNone
    <2>6. CreatorOwn' /\ DeleterOwn' /\ AckedBeforeUntrack'
      BY <2>3, <2>4
      DEF CreatorOwn, DeleterOwn, AckedBeforeUntrack, Submitted, Idle, IInv, LInv
    <2>7. NoSilentOrphan'
      BY <2>1, <2>2, <2>3, <2>4 DEF NoSilentOrphan, Submitted, Held, Known, Idle, IInv
    <2> QED
      BY <2>5, <2>6, <2>7 DEF IInv
  <1>6. ASSUME NEW w \in Workers, SubmitRefused(w)
        PROVE  IInv'
    BY <1>6, QuietStep DEF SubmitRefused, Return, Idle, jobVars, mapVars, ghostVars,
       IInv, LInv, TypeOK
  <1>7. ASSUME NEW w \in Workers, CreateStore(w)
        PROVE  IInv'
    <2> DEFINE p == worker[w].pod
               j == worker[w].job
               k == KeyOf[p]
    <2>1. /\ p \in Pods /\ j \in Jobs /\ k \in Keys
          /\ Submitted(j) /\ owner[j] = p
          /\ podMap[k] = NoJob
      BY <1>7, PodLifecycleAssumption
      DEF CreateStore, Tracked, IInv, LInv, CreatorOwn
    <2>2. /\ UNCHANGED <<owner, acked, excused>>
          /\ podMap' = [podMap EXCEPT ![k] = j]
          /\ worker'[w] = Idle
          /\ \A v \in Workers \ {w} : worker'[v] = worker[v]
      BY <1>7 DEF CreateStore, Return, jobVars, IInv, LInv, TypeOK
    <2>3. TrackedOwn'
      BY <2>1, <2>2 DEF TrackedOwn, Tracked, Submitted, IInv, LInv, TypeOK
    <2>4. CreatorOwn' /\ DeleterOwn' /\ AckedBeforeUntrack'
      BY <2>2 DEF CreatorOwn, DeleterOwn, AckedBeforeUntrack, Submitted, Idle, IInv
    <2>5. NoSilentOrphan'
      <3> SUFFICES ASSUME NEW i \in Jobs, Submitted(i)'
                   PROVE  podMap'[KeyOf[owner[i]]] = i \/ Held(i)' \/ Known(i)'
        BY <2>2 DEF NoSilentOrphan
      <3>1. podMap[KeyOf[owner[i]]] = i \/ Held(i) \/ Known(i)
        BY <2>2 DEF NoSilentOrphan, Submitted, IInv
      <3>2. CASE podMap[KeyOf[owner[i]]] = i
        <4>1. KeyOf[owner[i]] # k
          BY <3>2, <2>1, PodLifecycleAssumption
        <4> QED
          BY <4>1, <3>2, <2>2
      <3>3. CASE Held(i)
        BY <3>3, <2>1, <2>2 DEF Held, IInv, LInv, TypeOK
      <3>4. CASE Known(i)
        BY <3>4, <2>2 DEF Known
      <3> QED
        BY <3>1, <3>2, <3>3, <3>4
    <2> QED
      BY <2>3, <2>4, <2>5 DEF IInv
  <1>8. ASSUME NEW w \in Workers, CreateDuplicate(w)
        PROVE  IInv'
    <2>1. /\ UNCHANGED <<owner, podMap, acked, excused>>
          /\ worker[w].at = "store"
          /\ worker'[w] = [at |-> "cancelDup", pod |-> worker[w].pod, job |-> worker[w].job]
          /\ \A v \in Workers \ {w} : worker'[v] = worker[v]
      BY <1>8 DEF CreateDuplicate, Goto, jobVars, mapVars, ghostVars, IInv, LInv, TypeOK
    <2> QED
      BY <2>1 DEF IInv, TrackedOwn, CreatorOwn, DeleterOwn, AckedBeforeUntrack,
         NoSilentOrphan, Tracked, Submitted, Held, Known
  <1>9. ASSUME NEW w \in Workers, DuplicateStep(w)
        PROVE  IInv'
    <2>1. worker[w].job \in Jobs /\ JobsTypeOK
      BY <1>9 DEF DuplicateStep, DuplicateCancelled, DuplicateLeaked, IInv, LInv, TypeOK
    <2>2. /\ UNCHANGED <<owner, podMap>>
          /\ acked \subseteq acked' /\ excused \subseteq excused'
          /\ worker[w].job \in acked' \cup excused'
          /\ worker'[w] = Idle
          /\ \A v \in Workers \ {w} : worker'[v] = worker[v]
      BY <1>9, <2>1, CancelJobType
      DEF DuplicateStep, DuplicateCancelled, DuplicateLeaked, Return, Known, jobVars, mapVars,
          IInv, LInv, TypeOK
    <2> QED
      BY <2>2 DEF IInv, TrackedOwn, CreatorOwn, DeleterOwn, AckedBeforeUntrack,
         NoSilentOrphan, Tracked, Submitted, Held, Known, Idle
  <1>10. ASSUME NEW w \in Workers, NEW p \in Pods, DeleteTracked(w, p)
         PROVE  IInv'
    <2>1. /\ UNCHANGED <<owner, podMap, acked, excused>>
          /\ worker[w].at = "idle"
          /\ Tracked(KeyOf[p]) /\ KeyOf[p] \in Keys
          /\ worker'[w] = [at |-> "delCancel", pod |-> p, job |-> podMap[KeyOf[p]]]
          /\ \A v \in Workers \ {w} : worker'[v] = worker[v]
      BY <1>10, PodLifecycleAssumption
      DEF DeleteTracked, Goto, jobVars, mapVars, ghostVars, IInv, LInv, TypeOK
    <2> QED
      BY <2>1 DEF IInv, TrackedOwn, CreatorOwn, DeleterOwn, AckedBeforeUntrack,
         NoSilentOrphan, Tracked, Submitted, Held, Known
  <1>11. ASSUME NEW w \in Workers, NEW p \in Pods, DeleteUntracked(w, p)
         PROVE  IInv'
    BY <1>11, QuietStep DEF DeleteUntracked, Goto, jobVars, mapVars, ghostVars,
       IInv, LInv, TypeOK
  <1>12. ASSUME NEW w \in Workers, CancelAcknowledged(w)
         PROVE  IInv'
    <2>1. worker[w].job \in Jobs /\ JobsTypeOK
      BY <1>12 DEF CancelAcknowledged, IInv, LInv, TypeOK
    <2>2. /\ UNCHANGED <<owner, podMap, excused>>
          /\ worker[w].at = "delCancel"
          /\ acked' = acked \cup {worker[w].job}
          /\ worker'[w] = [at |-> "delUntrack", pod |-> worker[w].pod, job |-> worker[w].job]
          /\ \A v \in Workers \ {w} : worker'[v] = worker[v]
      BY <1>12, <2>1, CancelJobType DEF CancelAcknowledged, Goto, mapVars, IInv, LInv, TypeOK
    <2> QED
      BY <2>2 DEF IInv, TrackedOwn, CreatorOwn, DeleterOwn, AckedBeforeUntrack,
         NoSilentOrphan, Tracked, Submitted, Held, Known
  <1>13. ASSUME NEW w \in Workers, CancelFails(w)
         PROVE  IInv'
    <2>1. worker[w].job \in Jobs /\ JobsTypeOK
      BY <1>13 DEF CancelFails, IInv, LInv, TypeOK
    <2> QED
      BY <1>13, <2>1, CancelJobType, QuietStep
      DEF CancelFails, Return, Idle, jobVars, mapVars, ghostVars, IInv, LInv, TypeOK
  <1>14. ASSUME NEW w \in Workers, DeleteUntrack(w)
         PROVE  IInv'
    <2> DEFINE k == KeyOf[worker[w].pod]
    <2>1. /\ UNCHANGED <<owner, acked, excused>>
          /\ worker[w].at = "delUntrack" /\ worker[w].job \in acked
          /\ k \in Keys
          /\ \A l \in Keys : \/ podMap'[l] = podMap[l]
                             \/ podMap'[l] = NoJob /\ podMap[l] = worker[w].job
          /\ worker'[w] = Idle
          /\ \A v \in Workers \ {w} : worker'[v] = worker[v]
      BY <1>14, PodLifecycleAssumption
      DEF DeleteUntrack, Return, jobVars, mapVars, ghostVars, AckedBeforeUntrack, IInv, LInv, TypeOK
    <2>2. TrackedOwn' /\ CreatorOwn' /\ DeleterOwn' /\ AckedBeforeUntrack'
      BY <2>1 DEF IInv, TrackedOwn, CreatorOwn, DeleterOwn, AckedBeforeUntrack, Tracked,
         Submitted, Idle
    <2>3. NoSilentOrphan'
      <3> SUFFICES ASSUME NEW i \in Jobs, Submitted(i)'
                   PROVE  podMap'[KeyOf[owner[i]]] = i \/ Held(i)' \/ Known(i)'
        BY <2>1 DEF NoSilentOrphan
      <3>1. KeyOf[owner[i]] \in Keys
        BY <2>1, PodLifecycleAssumption DEF Submitted, IInv, LInv, TypeOK, JobsTypeOK
      <3>2. podMap[KeyOf[owner[i]]] = i \/ Held(i) \/ Known(i)
        BY <2>1 DEF NoSilentOrphan, Submitted, IInv
      <3> QED
        BY <2>1, <3>1, <3>2 DEF Held, Known
    <2> QED
      BY <2>2, <2>3 DEF IInv
  <1>15. ASSUME NEW w \in Workers, DeleteDropStaging(w)
         PROVE  IInv'
    BY <1>15, QuietStep DEF DeleteDropStaging, Return, Idle, jobVars, ghostVars,
       IInv, LInv, TypeOK
  <1>16. ASSUME NEW p \in Pods, Kubernetes(p)
         PROVE  IInv'
    BY <1>16, StillStep DEF Kubernetes, PodBound, PodMarkedDeleted, PodRemoved, SetPhase,
       jobVars, mapVars
  <1>17. ASSUME NEW j \in Jobs, ServiceAdvances(j)
         PROVE  IInv'
    BY <1>17, JobAdvancesType, StillStep DEF ServiceAdvances, lifecycleVars, IInv, LInv, TypeOK
  <1>18. ASSUME Restart
         PROVE  IInv'
    BY <1>18 DEF Restart, jobVars, Idle, IInv, TrackedOwn, CreatorOwn, DeleterOwn,
       AckedBeforeUntrack, NoSilentOrphan, Tracked, Submitted, Held, Known
  <1>19. CASE UNCHANGED vars
    BY <1>19, StillStep DEF vars
  <1> QED
    BY <1>1, <1>2, <1>3, <1>4, <1>5, <1>6, <1>7, <1>8, <1>9, <1>10, <1>11, <1>12, <1>13,
       <1>14, <1>15, <1>16, <1>17, <1>18, <1>19
    DEF Next, Running, Begin, Continue, SubmitStep, StoreStep, CancelStep

\* No job is ever lost silently, whatever the interleaving of CreatePod and
\* DeletePod calls, failed calls and restarts (nersc.go:173-304).
THEOREM NoJobIsLost == Spec => []NoSilentOrphan
  <1>1. IInv => NoSilentOrphan
    BY DEF IInv
  <1> QED
    BY IInvInit, IInvNext, <1>1, PTL DEF Spec

-----------------------------------------------------------------------------
(* Who changes the two maps.                                               *)

\* Only four actions write to podMap or stagingMap.
LEMMA MapWriters ==
  ASSUME [Next]_vars
  PROVE  \/ UNCHANGED <<podMap, stagingMap>>
         \/ \E w \in Workers : CreateStore(w) \/ DeleteUntrack(w) \/ DeleteDropStaging(w)
         \/ Restart
  BY DEF Next, vars, Running, Begin, Continue, Kubernetes, StageInStep, SubmitStep,
     StoreStep, DuplicateStep, CancelStep, CreateTracked, CreateBegin, StageInDone,
     StageInFails, StageInTimeout, SubmitAccepted, SubmitReplyLost, SubmitRefused,
     CreateDuplicate, DuplicateCancelled, DuplicateLeaked, DeleteTracked,
     DeleteUntracked, CancelAcknowledged, CancelFails, PodBound, PodMarkedDeleted,
     PodRemoved, SetPhase, ServiceAdvances, lifecycleVars, mapVars

\* The entry of a pod's job is never overwritten and is dropped only for a
\* job whose cancellation was acknowledged, or by a restart (nersc.go:247, 291).
THEOREM UntrackedOnlyWhenCancelled == Spec => UntrackedOnlyAfterCancel
  <1> DEFINE Step == \A k \in Keys :
                       Tracked(k) /\ podMap'[k] # podMap[k] =>
                         \/ podMap'[k] = NoJob /\ podMap[k] \in acked
                         \/ crashes' # crashes
  <1>1. ASSUME IInv, [Next]_vars
        PROVE  Step
    <2>1. CASE UNCHANGED <<podMap, stagingMap>>
      BY <2>1
    <2>2. ASSUME NEW w \in Workers, CreateStore(w)
          PROVE  Step
      BY <1>1, <2>2 DEF CreateStore, Tracked, IInv, LInv, TypeOK
    <2>3. ASSUME NEW w \in Workers, DeleteUntrack(w)
          PROVE  Step
      BY <1>1, <2>3 DEF DeleteUntrack, At, mapVars, AckedBeforeUntrack, IInv, LInv, TypeOK
    <2>4. ASSUME NEW w \in Workers, DeleteDropStaging(w)
          PROVE  Step
      BY <2>4 DEF DeleteDropStaging
    <2>5. CASE Restart
      BY <1>1, <2>5 DEF Restart, IInv, LInv, TypeOK
    <2> QED
      BY <1>1, <2>1, <2>2, <2>3, <2>4, <2>5, MapWriters
  <1>2. IInv /\ [Next]_vars => [Step]_vars
    BY <1>1
  <1> QED
    BY IInvInit, IInvNext, <1>2, PTL DEF Spec, UntrackedOnlyAfterCancel

LEMMA StagingStep ==
  ASSUME LInv, StagingFollowsTracking, [Next]_vars
  PROVE  StagingFollowsTracking'
  <1> USE DEF StagingFollowsTracking, LInv, TypeOK
  <1>1. CASE UNCHANGED <<podMap, stagingMap>>
    BY <1>1
  <1>2. ASSUME NEW w \in Workers, CreateStore(w)
        PROVE  StagingFollowsTracking'
    BY <1>2 DEF CreateStore, Tracked
  <1>3. ASSUME NEW w \in Workers, DeleteUntrack(w)
        PROVE  StagingFollowsTracking'
    BY <1>3 DEF DeleteUntrack, mapVars
  <1>4. ASSUME NEW w \in Workers, DeleteDropStaging(w)
        PROVE  StagingFollowsTracking'
    BY <1>4 DEF DeleteDropStaging
  <1>5. CASE Restart
    BY <1>5 DEF Restart
  <1> QED
    BY <1>1, <1>2, <1>3, <1>4, <1>5, MapWriters

\* The staging entry of a key, if any, is that of the job tracked under the
\* key: the two maps are written together or the staging entry is removed.
THEOREM StagingBelongsToTrackedJob == Spec => []StagingFollowsTracking
  <1>1. Init => StagingFollowsTracking
    BY DEF Init, StagingFollowsTracking
  <1> QED
    BY LInvInit, LInvNext, StagingStep, <1>1, PTL DEF Spec

-----------------------------------------------------------------------------
(* A job in the hands of CreatePod is in nobody else's.                    *)

Creating == {"store", "cancelDup"}
Deleting == {"delCancel", "delUntrack"}

HoldsAlone(w) ==
  /\ worker[w].job \notin acked
  /\ \A k \in Keys : podMap[k] # worker[w].job
  /\ \A v \in Workers :
       worker[v].at \in Creating \cup Deleting /\ worker[v].job = worker[w].job => v = w

Exclusive == \A w \in Workers : worker[w].at \in Creating => HoldsAlone(w)

AckedSubmitted == \A j \in acked : Submitted(j)

\* The inductive invariant: a cancelled job that is still tracked needs a
\* DeletePod call behind it, which no CreatePod call can bring about as long
\* as the jobs they hold are different ones.
CInv ==
  /\ IInv
  /\ AckedSubmitted
  /\ Exclusive
  /\ CancelledIsUntracked

LEMMA CInvInit == Init => CInv
  <1> SUFFICES ASSUME Init PROVE CInv
    OBVIOUS
  <1> QED
    BY IInvInit DEF Init, CInv, AckedSubmitted, Exclusive, CancelledIsUntracked, Idle, Creating

\* A step of thread w that leaves the maps and the history alone and takes up
\* no job, or only the tracked job of a key.
LEMMA CInvQuiet ==
  ASSUME CInv, IInv', NEW w \in Workers,
         UNCHANGED <<owner, podMap, acked>>,
         \A v \in Workers \ {w} : worker'[v] = worker[v],
         worker[w].at # "delUntrack",
         \/ worker'[w].at \notin Creating \cup Deleting
         \/ worker'[w].at = "delCancel" /\ \E k \in Keys : worker'[w].job = podMap[k]
         \/ worker[w].at \in Creating /\ worker'[w].job = worker[w].job
  PROVE  CInv'
  <1>1. AckedSubmitted'
    BY DEF CInv, AckedSubmitted, Submitted
  <1>2. Exclusive'
    BY DEF CInv, Exclusive, HoldsAlone, Creating, Deleting
  <1>3. CancelledIsUntracked'
    BY DEF CInv, CancelledIsUntracked, At
  <1> QED
    BY <1>1, <1>2, <1>3 DEF CInv

LEMMA CInvStill ==
  ASSUME CInv, IInv', UNCHANGED <<owner, podMap, worker, acked>>
  PROVE  CInv'
  BY DEF CInv, AckedSubmitted, Submitted, Exclusive, HoldsAlone, CancelledIsUntracked, At

LEMMA CInvNext ==
  ASSUME CInv, [Next]_vars
  PROVE  CInv'
  <1>0. IInv'
    BY IInvNext DEF CInv
  <1> USE <1>0 DEF At
  <1>1. ASSUME NEW w \in Workers, NEW p \in Pods, CreateTracked(w, p)
        PROVE  CInv'
    BY <1>1, CInvStill DEF CreateTracked, jobVars, mapVars
  <1>2. ASSUME NEW w \in Workers, NEW p \in Pods, CreateBegin(w, p)
        PROVE  CInv'
    BY <1>2, CInvQuiet DEF CreateBegin, Goto, jobVars, mapVars, ghostVars, CInv, IInv, LInv,
       TypeOK, Creating, Deleting
  <1>3. ASSUME NEW w \in Workers, StageInStep(w)
        PROVE  CInv'
    BY <1>3, CInvQuiet DEF StageInStep, StageInDone, StageInFails, StageInTimeout, Goto,
       Return, Idle, jobVars, mapVars, ghostVars, CInv, IInv, LInv, TypeOK, Creating, Deleting
  <1>4. ASSUME NEW w \in Workers, SubmitStep(w)
        PROVE  CInv'
    <2>1. CASE SubmitRefused(w)
      BY <2>1, CInvQuiet DEF SubmitRefused, Return, Idle, jobVars, mapVars, ghostVars,
         CInv, IInv, LInv, TypeOK, Creating, Deleting
    <2>2. CASE SubmitAccepted(w) \/ SubmitReplyLost(w)
      <3>1. PICK j \in Jobs :
              /\ SubmitJob(j, worker[w].pod)
              /\ \/ Goto(w, "store", worker[w].pod, j)
                 \/ Return(w)
        BY <2>2 DEF SubmitAccepted, SubmitReplyLost
      <3>2. worker[w].pod \in Pods /\ worker[w].at = "submit" /\ JobsTypeOK
        BY <2>2 DEF SubmitAccepted, SubmitReplyLost, CInv, IInv, LInv, TypeOK, HoldsPod
      <3>3. /\ \A i \in Jobs : Submitted(i) => owner'[i] = owner[i]
            /\ ~Submitted(j)
            /\ owner'[j] = worker[w].pod /\ worker[w].pod # NoPod
            /\ \A i \in Jobs : i # j => owner'[i] = owner[i]
        BY <3>1, <3>2, SubmissionKeepsOwners
      <3>4. /\ UNCHANGED <<podMap, acked>>
            /\ \/ worker'[w] = [at |-> "store", pod |-> worker[w].pod, job |-> j]
               \/ worker'[w] = Idle
            /\ \A v \in Workers \ {w} : worker'[v] = worker[v]
        BY <2>2, <3>1 DEF SubmitAccepted, SubmitReplyLost, Goto, Return, mapVars, ghostVars,
           CInv, IInv, LInv, TypeOK
      <3>5. AckedSubmitted'
        BY <3>3, <3>4 DEF CInv, AckedSubmitted, Submitted, IInv, LInv, TypeOK
      <3>6. /\ j \notin acked
            /\ \A k \in Keys : podMap[k] # j
            /\ \A v \in Workers : worker[v].at \in Creating \cup Deleting => worker[v].job # j
        BY <3>3, PodLifecycleAssumption
        DEF CInv, AckedSubmitted, IInv, TrackedOwn, Tracked, CreatorOwn, DeleterOwn,
            Creating, Deleting
      <3>7. Exclusive'
        BY <3>2, <3>4, <3>6
        DEF CInv, Exclusive, HoldsAlone, Creating, Deleting, Idle
      <3>8. CancelledIsUntracked'
        BY <3>2, <3>4 DEF CInv, CancelledIsUntracked
      <3> QED
        BY <3>5, <3>7, <3>8 DEF CInv
    <2> QED
      BY <1>4, <2>1, <2>2 DEF SubmitStep
  <1>5. ASSUME NEW w \in Workers, CreateStore(w)
        PROVE  CInv'
    <2> DEFINE k == KeyOf[worker[w].pod]
    <2>1. /\ UNCHANGED <<owner, acked>>
          /\ worker[w].at = "store" /\ k \in Keys
          /\ podMap' = [podMap EXCEPT ![k] = worker[w].job]
          /\ worker'[w] = Idle
          /\ \A v \in Workers \ {w} : worker'[v] = worker[v]
      BY <1>5, PodLifecycleAssumption
      DEF CreateStore, Return, jobVars, CInv, IInv, LInv, TypeOK, HoldsPod
    <2>2. HoldsAlone(w)
      BY <2>1 DEF CInv, Exclusive, Creating
    <2>3. Exclusive'
      <3> SUFFICES ASSUME NEW v \in Workers, worker'[v].at \in Creating
                   PROVE  HoldsAlone(v)'
        BY DEF Exclusive
      <3>1. v # w /\ worker'[v] = worker[v]
        BY <2>1 DEF Creating, Idle
      <3>2. HoldsAlone(v)
        BY <3>1 DEF CInv, Exclusive
      <3>3. worker[v].job # worker[w].job
        BY <2>2, <3>1 DEF HoldsAlone
      <3>4. \A l \in Keys : podMap'[l] = podMap[l] \/ podMap'[l] = worker[w].job
        BY <2>1 DEF CInv, IInv, LInv, TypeOK
      <3>5. \A u \in Workers : worker'[u].at \in Creating \cup Deleting
                                 => worker'[u] = worker[u]
        BY <2>1 DEF Creating, Deleting, Idle
      <3> QED
        BY <2>1, <3>1, <3>2, <3>3, <3>4, <3>5 DEF HoldsAlone
    <2>4. CancelledIsUntracked'
      BY <2>1, <2>2 DEF CInv, IInv, LInv, TypeOK, CancelledIsUntracked, HoldsAlone
    <2> QED
      BY <2>1, <2>3, <2>4 DEF CInv, AckedSubmitted, Submitted
  <1>6. ASSUME NEW w \in Workers, CreateDuplicate(w)
        PROVE  CInv'
    BY <1>6, CInvQuiet DEF CreateDuplicate, Goto, jobVars, mapVars, ghostVars,
       CInv, IInv, LInv, TypeOK, Creating, Deleting
  <1>7. ASSUME NEW w \in Workers, DuplicateStep(w)
        PROVE  CInv'
    <2>1. worker[w].job \in Jobs /\ JobsTypeOK
      BY <1>7 DEF DuplicateStep, DuplicateCancelled, DuplicateLeaked, CInv, IInv, LInv,
         TypeOK, HoldsJob
    <2>2. /\ UNCHANGED <<owner, podMap>>
          /\ worker[w].at = "cancelDup"
          /\ acked' = acked \/ acked' = acked \cup {worker[w].job}
          /\ worker'[w] = Idle
          /\ \A v \in Workers \ {w} : worker'[v] = worker[v]
      BY <1>7, <2>1, CancelJobType
      DEF DuplicateStep, DuplicateCancelled, DuplicateLeaked, Return, jobVars, mapVars,
          CInv, IInv, LInv, TypeOK
    <2>3. HoldsAlone(w) /\ Submitted(worker[w].job)
      BY <2>2 DEF CInv, Exclusive, Creating, IInv, CreatorOwn
    <2>4. AckedSubmitted'
      BY <2>2, <2>3 DEF CInv, AckedSubmitted, Submitted
    <2>5. Exclusive'
      BY <2>2, <2>3 DEF CInv, Exclusive, HoldsAlone, Creating, Deleting, Idle
    <2>6. CancelledIsUntracked'
      BY <2>2, <2>3 DEF CInv, CancelledIsUntracked, HoldsAlone
    <2> QED
      BY <2>4, <2>5, <2>6 DEF CInv
  <1>8. ASSUME NEW w \in Workers, NEW p \in Pods, DeleteTracked(w, p)
        PROVE  CInv'
    BY <1>8, CInvQuiet, PodLifecycleAssumption
    DEF DeleteTracked, Goto, jobVars, mapVars, ghostVars, CInv, IInv, LInv, TypeOK
  <1>9. ASSUME NEW w \in Workers, NEW p \in Pods, DeleteUntracked(w, p)
        PROVE  CInv'
    BY <1>9, CInvQuiet DEF DeleteUntracked, Goto, jobVars, mapVars, ghostVars,
       CInv, IInv, LInv, TypeOK, Creating, Deleting
  <1>10. ASSUME NEW w \in Workers, CancelAcknowledged(w)
         PROVE  CInv'
    <2>1. worker[w].job \in Jobs /\ JobsTypeOK
      BY <1>10 DEF CancelAcknowledged, CInv, IInv, LInv, TypeOK, HoldsJob
    <2>2. /\ UNCHANGED <<owner, podMap>>
          /\ worker[w].at = "delCancel"
          /\ acked' = acked \cup {worker[w].job}
          /\ worker'[w] = [at |-> "delUntrack", pod |-> worker[w].pod, job |-> worker[w].job]
          /\ \A v \in Workers \ {w} : worker'[v] = worker[v]
      BY <1>10, <2>1, CancelJobType
      DEF CancelAcknowledged, Goto, mapVars, CInv, IInv, LInv, TypeOK
    <2>3. AckedSubmitted'
      BY <2>2 DEF CInv, AckedSubmitted, Submitted, IInv, DeleterOwn
    <2>4. Exclusive'
      BY <2>2 DEF CInv, Exclusive, HoldsAlone, Creating, Deleting
    <2>5. CancelledIsUntracked'
      BY <2>2 DEF CInv, CancelledIsUntracked
    <2> QED
      BY <2>3, <2>4, <2>5 DEF CInv
  <1>11. ASSUME NEW w \in Workers, CancelFails(w)
         PROVE  CInv'
    <2>1. worker[w].job \in Jobs /\ JobsTypeOK
      BY <1>11 DEF CancelFails, CInv, IInv, LInv, TypeOK, HoldsJob
    <2> QED
      BY <1>11, <2>1, CancelJobType, CInvQuiet
      DEF CancelFails, Return, Idle, jobVars, mapVars, ghostVars, CInv, IInv, LInv, TypeOK,
          Creating, Deleting
  <1>12. ASSUME NEW w \in Workers, DeleteUntrack(w)
         PROVE  CInv'
    <2> DEFINE k == KeyOf[worker[w].pod]
    <2>1. /\ UNCHANGED <<owner, acked>>
          /\ worker[w].at = "delUntrack" /\ k \in Keys
          /\ podMap[k] # worker[w].job => podMap' = podMap
          /\ podMap[k] = worker[w].job => podMap' = [podMap EXCEPT ![k] = NoJob]
          /\ worker'[w] = Idle
          /\ \A v \in Workers \ {w} : worker'[v] = worker[v]
      BY <1>12, PodLifecycleAssumption
      DEF DeleteUntrack, Return, jobVars, mapVars, ghostVars, CInv, IInv, LInv, TypeOK, HoldsPod
    <2>2. \A l \in Keys : podMap'[l] = podMap[l] \/ podMap'[l] = NoJob
      BY <2>1 DEF CInv, IInv, LInv, TypeOK
    <2>3. Exclusive'
      <3>1. \A v \in Workers : worker[v].at \in Creating => worker[v].job # NoJob
        BY PodLifecycleAssumption DEF CInv, IInv, LInv, HoldsJob, Creating
      <3> QED
        BY <2>1, <2>2, <3>1 DEF CInv, Exclusive, HoldsAlone, Creating, Deleting, Idle
    <2>4. CancelledIsUntracked'
      <3> SUFFICES ASSUME NEW l \in Keys, podMap'[l] \in acked
                   PROVE  \E v \in Workers \ {w} :
                            worker[v].at = "delUntrack" /\ worker[v].job = podMap'[l]
        BY <2>1 DEF CancelledIsUntracked
      <3>1. podMap'[l] = podMap[l] /\ podMap[l] # NoJob
        BY <2>2, PodLifecycleAssumption DEF CInv, IInv, LInv, TypeOK
      <3>2. PICK v \in Workers : worker[v].at = "delUntrack" /\ worker[v].job = podMap[l]
        BY <3>1 DEF CInv, CancelledIsUntracked
      <3>3. v # w
        <4>1. KeyOf[owner[podMap[l]]] = l
          BY <3>1 DEF CInv, IInv, TrackedOwn, Tracked
        <4>2. CASE v = w
          <5>1. l = k
            BY <4>1, <4>2, <3>2, <2>1 DEF CInv, IInv, DeleterOwn
          <5> QED
            BY <5>1, <4>2, <3>1, <3>2, <2>1 DEF CInv, IInv, LInv, TypeOK
        <4> QED
          BY <4>2
      <3> QED
        BY <3>1, <3>2, <3>3
    <2> QED
      BY <2>1, <2>3, <2>4 DEF CInv, AckedSubmitted, Submitted
  <1>13. ASSUME NEW w \in Workers, DeleteDropStaging(w)
         PROVE  CInv'
    BY <1>13, CInvQuiet DEF DeleteDropStaging, Return, Idle, jobVars, ghostVars,
       CInv, IInv, LInv, TypeOK, Creating, Deleting
  <1>14. ASSUME NEW p \in Pods, Kubernetes(p)
         PROVE  CInv'
    BY <1>14, CInvStill DEF Kubernetes, PodBound, PodMarkedDeleted, PodRemoved, SetPhase,
       jobVars, mapVars
  <1>15. ASSUME NEW j \in Jobs, ServiceAdvances(j)
         PROVE  CInv'
    BY <1>15, JobAdvancesType, CInvStill
    DEF ServiceAdvances, lifecycleVars, CInv, IInv, LInv, TypeOK
  <1>16. ASSUME Restart
         PROVE  CInv'
    BY <1>16, PodLifecycleAssumption
    DEF Restart, jobVars, Idle, CInv, IInv, LInv, TypeOK, AckedSubmitted, Submitted,
        Exclusive, Creating, CancelledIsUntracked
  <1>17. CASE UNCHANGED vars
    BY <1>17, CInvStill DEF vars
  <1> QED
    BY <1>1, <1>2, <1>3, <1>4, <1>5, <1>6, <1>7, <1>8, <1>9, <1>10, <1>11, <1>12, <1>13,
       <1>14, <1>15, <1>16, <1>17
    DEF Next, Running, Begin, Continue, StoreStep, CancelStep

\* No cancelled job stays behind as a pod's tracked job: a DeletePod call that
\* will untrack it is always under way (nersc.go:284-295).
THEOREM NoCancelledJobStaysTracked == Spec => []CancelledIsUntracked
  <1>1. CInv => CancelledIsUntracked
    BY DEF CInv
  <1> QED
    BY CInvInit, CInvNext, <1>1, PTL DEF Spec
=============================================================================
