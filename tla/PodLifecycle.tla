---------------------------- MODULE PodLifecycle ----------------------------
(***************************************************************************)
(* CreatePod and DeletePod of pkg/provider/nersc.go, run by the worker     *)
(* threads of the Virtual Kubelet pod controller against the two in-memory *)
(* maps podMap and stagingMap and the Superfacility job service.           *)
(*                                                                         *)
(* Each critical section of the provider's mutex and each remote call is   *)
(* one step, so another thread can run wherever the code holds no lock.    *)
(* A call may be refused, succeed, or take effect with its reply lost.     *)
(* The provider persists nothing: a restart empties both maps.             *)
(***************************************************************************)
EXTENDS Superfacility, Naturals

CONSTANTS
  Keys,        \* pod keys, namespace/name
  KeyOf,       \* KeyOf[p]: the key of pod p (nersc.go:699)
  Workers,     \* threads that call CreatePod and DeletePod (main.go:150 runs 1)
  InputPods,   \* pods annotated with an input source
  SfapiPods,   \* pods whose transferMode is sfapi; the others use Globus
  OutputPods,  \* pods annotated with stageOut and an output destination
  NoJob,       \* the value of a map without an entry
  MaxCrashes   \* bound on the number of provider restarts

ASSUME PodLifecycleAssumption ==
  /\ KeyOf \in [Pods -> Keys]
  /\ InputPods \subseteq Pods
  /\ SfapiPods \subseteq Pods
  /\ OutputPods \subseteq Pods
  /\ NoJob \notin Jobs
  /\ MaxCrashes \in Nat

VARIABLES
  podMap,      \* podMap[k]: the job tracked under key k
  stagingMap,  \* stagingMap[k]: the staging state under k, named by the job
               \* whose CreatePod built it (the Go value is a pointer)
  worker,      \* worker[w]: where thread w stands, for which pod and job
  phase,       \* phase[p]: pod p as the Kubernetes API server has it
  acked,       \* history: jobs whose cancellation was acknowledged
  excused,     \* history: jobs whose loss the code cannot avoid noticing,
               \* because a call failed or the process died
  created,     \* history: pods whose CreatePod has returned no error
  crashes      \* restarts so far

lifecycleVars == <<podMap, stagingMap, worker, phase, acked, excused,
                   created, crashes>>
vars == <<owner, task, slurm, podMap, stagingMap, worker, phase, acked,
          excused, created, crashes>>

StagingPods == InputPods \cup OutputPods   \* buildStagingState returns non-nil

Labels == {"idle", "stageIn", "submit", "store", "cancelDup",
           "delCancel", "delUntrack", "delDrop"}
Phases == {"absent", "bound", "deleting", "gone"}

JobOrNone == Jobs \cup {NoJob}

TypeOK ==
  /\ JobsTypeOK
  /\ podMap \in [Keys -> JobOrNone]
  /\ stagingMap \in [Keys -> JobOrNone]
  /\ worker \in [Workers -> [at : Labels, pod : Pods \cup {NoPod}, job : JobOrNone]]
  /\ phase \in [Pods -> Phases]
  /\ acked \subseteq Jobs
  /\ excused \subseteq Jobs
  /\ created \subseteq Pods
  /\ crashes \in Nat

Idle == [at |-> "idle", pod |-> NoPod, job |-> NoJob]

Init ==
  /\ JobsInit
  /\ podMap = [k \in Keys |-> NoJob]
  /\ stagingMap = [k \in Keys |-> NoJob]
  /\ worker = [w \in Workers |-> Idle]
  /\ phase = [p \in Pods |-> "absent"]
  /\ acked = {}
  /\ excused = {}
  /\ created = {}
  /\ crashes = 0

Tracked(k) == podMap[k] # NoJob
At(w, label) == worker[w].at = label

Goto(w, label, p, j) ==
  worker' = [worker EXCEPT ![w] = [at |-> label, pod |-> p, job |-> j]]
Return(w) == worker' = [worker EXCEPT ![w] = Idle]

ghostVars == <<phase, acked, excused, created, crashes>>
mapVars   == <<podMap, stagingMap>>

-----------------------------------------------------------------------------
(* CreatePod (nersc.go:173).  The Virtual Kubelet calls it for a bound pod *)
(* and calls it again when it fails.  A failure that leaves nothing behind *)
(* before the first remote call (no credential, bad annotations) is a      *)
(* stuttering step.                                                        *)

\* The key is tracked already: return nil without looking at the pod.  When
\* GetPod answers first, the controller calls the no-op UpdatePod instead.
CreateTracked(w, p) ==
  /\ At(w, "idle") /\ phase[p] = "bound"
  /\ Tracked(KeyOf[p])
  /\ created' = created \cup {p}
  /\ UNCHANGED <<jobVars, mapVars, worker, phase, acked, excused, crashes>>

\* Mutant: no look at podMap before the submission.
MutCreateBegin(w, p) ==
  /\ At(w, "idle") /\ phase[p] = "bound"
  /\ Goto(w, IF p \in InputPods THEN "stageIn" ELSE "submit", p, NoJob)
  /\ UNCHANGED <<jobVars, mapVars, ghostVars>>

CreateBegin(w, p) ==
  /\ At(w, "idle") /\ phase[p] = "bound"
  /\ ~Tracked(KeyOf[p])
  /\ Goto(w, IF p \in InputPods THEN "stageIn" ELSE "submit", p, NoJob)
  /\ UNCHANGED <<jobVars, mapVars, ghostVars>>

\* stageInput (staging.go:217): the input has arrived.
StageInDone(w) ==
  /\ At(w, "stageIn")
  /\ Goto(w, "submit", worker[w].pod, NoJob)
  /\ UNCHANGED <<jobVars, mapVars, ghostVars>>

\* A refused start, a failed check or a failed transfer ends CreatePod.
StageInFails(w) ==
  /\ At(w, "stageIn")
  /\ Return(w)
  /\ UNCHANGED <<jobVars, mapVars, ghostVars>>

\* Mutant: the deadline set in the wrong transfer mode.
MutStageInTimeout(w) ==
  /\ At(w, "stageIn") /\ worker[w].pod \in SfapiPods
  /\ Return(w)
  /\ UNCHANGED <<jobVars, mapVars, ghostVars>>

\* Only the Globus wait has a deadline (staging.go:281); waitForTask, which
\* the sfapi mode goes through, polls until the task ends (client.go:258).
StageInTimeout(w) ==
  /\ At(w, "stageIn") /\ worker[w].pod \notin SfapiPods
  /\ Return(w)
  /\ UNCHANGED <<jobVars, mapVars, ghostVars>>

SubmitAccepted(w) ==
  /\ At(w, "submit")
  /\ \E j \in Jobs : /\ SubmitJob(j, worker[w].pod)
                     /\ Goto(w, "store", worker[w].pod, j)
  /\ UNCHANGED <<mapVars, ghostVars>>

\* The service accepted the job but the reply never arrived or could not be
\* decoded (client.go:180, 190): CreatePod fails and forgets the job.
SubmitReplyLost(w) ==
  /\ At(w, "submit")
  /\ \E j \in Jobs : /\ SubmitJob(j, worker[w].pod)
                     /\ excused' = excused \cup {j}
  /\ Return(w)
  /\ UNCHANGED <<mapVars, phase, acked, created, crashes>>

\* Mutant: the error of SubmitJob is swallowed.
MutSubmitRefused(w) ==
  /\ At(w, "submit")
  /\ created' = created \cup {worker[w].pod}
  /\ Return(w)
  /\ UNCHANGED <<jobVars, mapVars, phase, acked, excused, crashes>>

SubmitRefused(w) ==
  /\ At(w, "submit")
  /\ Return(w)
  /\ UNCHANGED <<jobVars, mapVars, ghostVars>>

\* Mutant: only input staging is remembered.
MutCreateStore(w) ==
  LET p == worker[w].pod
      k == KeyOf[p]
  IN /\ At(w, "store") /\ ~Tracked(k)
     /\ podMap' = [podMap EXCEPT ![k] = worker[w].job]
     /\ stagingMap' = [stagingMap EXCEPT
                         ![k] = IF p \in InputPods THEN worker[w].job ELSE @]
     /\ created' = created \cup {p}
     /\ Return(w)
     /\ UNCHANGED <<jobVars, phase, acked, excused, crashes>>

\* Mutant: no second look at podMap, an entry is overwritten.
MutCreateStoreBlind(w) ==
  LET p == worker[w].pod
      j == worker[w].job
  IN /\ At(w, "store")
     /\ podMap' = [podMap EXCEPT ![KeyOf[p]] = j]
     /\ stagingMap' = [stagingMap EXCEPT
                         ![KeyOf[p]] = IF p \in StagingPods THEN j ELSE @]
     /\ created' = created \cup {p}
     /\ Return(w)
     /\ UNCHANGED <<jobVars, phase, acked, excused, crashes>>

\* The second look at podMap, under the lock (nersc.go:246, 255).
CreateStore(w) ==
  LET p == worker[w].pod
      j == worker[w].job
      k == KeyOf[p]
  IN /\ At(w, "store") /\ ~Tracked(k)
     /\ podMap' = [podMap EXCEPT ![k] = j]
     /\ stagingMap' = [stagingMap EXCEPT
                         ![k] = IF p \in StagingPods THEN j ELSE @]
     /\ created' = created \cup {p}
     /\ Return(w)
     /\ UNCHANGED <<jobVars, phase, acked, excused, crashes>>

\* Mutant: the duplicate is noticed and not cancelled.
MutCreateDuplicate(w) ==
  /\ At(w, "store") /\ Tracked(KeyOf[worker[w].pod])
  /\ Return(w)
  /\ UNCHANGED <<jobVars, mapVars, ghostVars>>

CreateDuplicate(w) ==
  /\ At(w, "store") /\ Tracked(KeyOf[worker[w].pod])
  /\ Goto(w, "cancelDup", worker[w].pod, worker[w].job)
  /\ UNCHANGED <<jobVars, mapVars, ghostVars>>

\* The duplicate is cancelled and CreatePod returns nil (nersc.go:249).
DuplicateCancelled(w) ==
  /\ At(w, "cancelDup")
  /\ CancelJob(worker[w].job)
  /\ acked' = acked \cup {worker[w].job}
  /\ created' = created \cup {worker[w].pod}
  /\ Return(w)
  /\ UNCHANGED <<mapVars, phase, excused, crashes>>

\* The cancellation fails, with or without effect: nobody holds the
\* duplicate's id any longer (nersc.go:250).
DuplicateLeaked(w) ==
  /\ At(w, "cancelDup")
  /\ CancelJob(worker[w].job) \/ UNCHANGED jobVars
  /\ excused' = excused \cup {worker[w].job}
  /\ Return(w)
  /\ UNCHANGED <<mapVars, phase, acked, created, crashes>>

-----------------------------------------------------------------------------
(* DeletePod (nersc.go:273).                                               *)

Live(p) == phase[p] \in {"bound", "deleting"}

\* The controller calls DeletePod for a pod being deleted, and for a pod that
\* left the API server while GetPod still finds the key tracked; then the pod
\* is the copy stored with the job.
DeleteCalled(p) ==
  \/ phase[p] = "deleting"
  \/ /\ phase[p] = "gone"
     /\ \A q \in Pods : KeyOf[q] = KeyOf[p] => ~Live(q)
     /\ Tracked(KeyOf[p]) /\ owner[podMap[KeyOf[p]]] = p

DeleteTracked(w, p) ==
  /\ At(w, "idle") /\ DeleteCalled(p)
  /\ Tracked(KeyOf[p])
  /\ Goto(w, "delCancel", p, podMap[KeyOf[p]])
  /\ UNCHANGED <<jobVars, mapVars, ghostVars>>

DeleteUntracked(w, p) ==
  /\ At(w, "idle") /\ DeleteCalled(p)
  /\ ~Tracked(KeyOf[p])
  /\ Goto(w, "delDrop", p, NoJob)
  /\ UNCHANGED <<jobVars, mapVars, ghostVars>>

CancelAcknowledged(w) ==
  /\ At(w, "delCancel")
  /\ CancelJob(worker[w].job)
  /\ acked' = acked \cup {worker[w].job}
  /\ Goto(w, "delUntrack", worker[w].pod, worker[w].job)
  /\ UNCHANGED <<mapVars, phase, excused, created, crashes>>

\* DeletePod fails and the job stays tracked, cancelled or not (nersc.go:287).
CancelFails(w) ==
  /\ At(w, "delCancel")
  /\ CancelJob(worker[w].job) \/ UNCHANGED jobVars
  /\ Return(w)
  /\ UNCHANGED <<mapVars, ghostVars>>

\* Mutant: the entry goes whatever job it names by now.
MutDeleteUntrackAny(w) ==
  LET k == KeyOf[worker[w].pod]
  IN /\ At(w, "delUntrack")
     /\ podMap' = [podMap EXCEPT ![k] = NoJob]
     /\ stagingMap' = [stagingMap EXCEPT ![k] = NoJob]
     /\ Return(w)
     /\ UNCHANGED <<jobVars, ghostVars>>

\* Mutant: the staging entry is left behind.
MutDeleteUntrackStaging(w) ==
  LET k == KeyOf[worker[w].pod]
  IN /\ At(w, "delUntrack")
     /\ podMap' = [podMap EXCEPT ![k] = IF @ = worker[w].job THEN NoJob ELSE @]
     /\ Return(w)
     /\ UNCHANGED <<jobVars, stagingMap, ghostVars>>

\* Mutant: the comparison looks the job up in the wrong map.
MutDeleteUntrackMap(w) ==
  LET k == KeyOf[worker[w].pod]
  IN /\ At(w, "delUntrack")
     /\ IF stagingMap[k] = worker[w].job
        THEN /\ podMap' = [podMap EXCEPT ![k] = NoJob]
             /\ stagingMap' = [stagingMap EXCEPT ![k] = NoJob]
        ELSE UNCHANGED mapVars
     /\ Return(w)
     /\ UNCHANGED <<jobVars, ghostVars>>

\* The entry goes only if it still names the cancelled job (nersc.go:291).
DeleteUntrack(w) ==
  LET k == KeyOf[worker[w].pod]
  IN /\ At(w, "delUntrack")
     /\ IF podMap[k] = worker[w].job
        THEN /\ podMap' = [podMap EXCEPT ![k] = NoJob]
             /\ stagingMap' = [stagingMap EXCEPT ![k] = NoJob]
        ELSE UNCHANGED mapVars
     /\ Return(w)
     /\ UNCHANGED <<jobVars, ghostVars>>

\* Nothing was tracked at the lookup; the staging entry goes unconditionally
\* in a second critical section (nersc.go:299).
DeleteDropStaging(w) ==
  /\ At(w, "delDrop")
  /\ stagingMap' = [stagingMap EXCEPT ![KeyOf[worker[w].pod]] = NoJob]
  /\ Return(w)
  /\ UNCHANGED <<jobVars, podMap, ghostVars>>

-----------------------------------------------------------------------------
(* The rest of the world.                                                  *)

SetPhase(p, from, to) ==
  /\ phase[p] = from
  /\ phase' = [phase EXCEPT ![p] = to]
  /\ UNCHANGED <<jobVars, mapVars, worker, acked, excused, created, crashes>>

\* A name is free again once its last holder left the API server.
PodBound(p) ==
  /\ \A q \in Pods : KeyOf[q] = KeyOf[p] => ~Live(q)
  /\ SetPhase(p, "absent", "bound")

PodMarkedDeleted(p) == SetPhase(p, "bound", "deleting")

\* After the grace period, or at once by a forced deletion.
PodRemoved(p) == SetPhase(p, "deleting", "gone")

\* The process exits (main.go:163) and is started again.
Restart ==
  /\ crashes < MaxCrashes
  /\ crashes' = crashes + 1
  /\ podMap' = [k \in Keys |-> NoJob]
  /\ stagingMap' = [k \in Keys |-> NoJob]
  /\ worker' = [w \in Workers |-> Idle]
  /\ excused' = {j \in Jobs : Submitted(j)} \cup excused
  /\ UNCHANGED <<jobVars, phase, acked, created>>

ServiceAdvances(j) == JobAdvances(j) /\ UNCHANGED lifecycleVars

-----------------------------------------------------------------------------

StageInStep(w) == StageInDone(w) \/ StageInFails(w) \/ StageInTimeout(w)

SubmitStep(w) == SubmitAccepted(w) \/ SubmitReplyLost(w) \/ SubmitRefused(w)

StoreStep(w) == CreateStore(w) \/ CreateDuplicate(w)

DuplicateStep(w) == DuplicateCancelled(w) \/ DuplicateLeaked(w)

CancelStep(w) == CancelAcknowledged(w) \/ CancelFails(w)

Begin(w, p) == \/ CreateTracked(w, p) \/ CreateBegin(w, p)
               \/ DeleteTracked(w, p) \/ DeleteUntracked(w, p)

Continue(w) == \/ StageInStep(w) \/ SubmitStep(w) \/ StoreStep(w)
               \/ DuplicateStep(w) \/ CancelStep(w)
               \/ DeleteUntrack(w) \/ DeleteDropStaging(w)

Kubernetes(p) == PodBound(p) \/ PodMarkedDeleted(p) \/ PodRemoved(p)

Running ==
  \/ \E w \in Workers : Continue(w) \/ \E p \in Pods : Begin(w, p)
  \/ \E p \in Pods : Kubernetes(p)
  \/ \E j \in Jobs : ServiceAdvances(j)

Next == Running \/ Restart

Spec == Init /\ [][Next]_vars

\* Every HTTP call ends, by its 30 s timeout at the latest (client.go:35); the
\* Globus wait ends by its own; the controller serves each key again and
\* again, and a cancellation tried again and again is acknowledged once.
Fairness ==
  /\ \A w \in Workers :
       /\ WF_vars(StageInTimeout(w))
       /\ WF_vars(SubmitStep(w))
       /\ WF_vars(StoreStep(w))
       /\ WF_vars(DuplicateStep(w))
       /\ WF_vars(CancelStep(w))
       /\ SF_vars(CancelAcknowledged(w))
       /\ WF_vars(DeleteUntrack(w))
       /\ WF_vars(DeleteDropStaging(w))
  /\ \A p \in Pods : SF_vars(\E w \in Workers : DeleteTracked(w, p))

FairSpec == Spec /\ Fairness

-----------------------------------------------------------------------------
(* Properties.                                                             *)

Known(j) == j \in acked \cup excused

Held(j) ==
  \E w \in Workers : worker[w].job = j /\ worker[w].at \in {"store", "cancelDup"}

\* Every job given to Slurm is accounted for: it is tracked under its pod's
\* key, a CreatePod call in progress still holds its reference, its
\* cancellation was acknowledged, or a failed call or a restart lost it
\* (CreatePod's two critical sections around SubmitJob, nersc.go:181-262).
NoSilentOrphan ==
  \A j \in Jobs :
    Submitted(j) => \/ podMap[KeyOf[owner[j]]] = j
                    \/ Held(j)
                    \/ Known(j)

\* Where a job is, in the terms of JobLedger: a job that is nowhere is an
\* orphan, which the ledger does not know.
placeOf(j) ==
  IF ~Submitted(j) THEN "unused"
  ELSE IF j \in acked THEN "closed"
  ELSE IF j \in excused THEN "lost"
  ELSE IF \E w \in Workers : At(w, "store") /\ worker[w].job = j THEN "held"
  ELSE IF \E w \in Workers : At(w, "cancelDup") /\ worker[w].job = j THEN "double"
  ELSE IF podMap[KeyOf[owner[j]]] = j THEN "booked"
  ELSE "orphan"

Ledger == INSTANCE JobLedger WITH
            place <- [j \in Jobs |-> placeOf(j)],
            book  <- podMap

\* CreatePod and DeletePod keep a ledger of jobs, whatever their interleaving:
\* each of their steps is one entry in it, or none (nersc.go:173-304).
ImplementsLedger == Ledger!LedgerSpec

\* An entry of podMap is never overwritten, and goes away only when the very
\* job it names was cancelled with an acknowledgement, or with the process
\* (nersc.go:247, 291).
UntrackedOnlyAfterCancel ==
  [][\A k \in Keys :
       Tracked(k) /\ podMap'[k] # podMap[k] =>
         \/ podMap'[k] = NoJob /\ podMap[k] \in acked
         \/ crashes' # crashes]_vars

\* A job known to be cancelled stays tracked only while a DeletePod call is
\* about to untrack it: no cancelled job is left behind as a pod's job
\* (nersc.go:284-295).
CancelledIsUntracked ==
  \A k \in Keys :
    podMap[k] \in acked =>
      \E w \in Workers : At(w, "delUntrack") /\ worker[w].job = podMap[k]

\* A staging entry belongs to the job tracked under the same key: staging of
\* an earlier pod of that name never survives into a later one
\* (nersc.go:259-261, 292-293).
StagingFollowsTracking ==
  \A k \in Keys : stagingMap[k] # NoJob => stagingMap[k] = podMap[k]

\* With one worker, a tracked pod that asked for staging keeps its staging
\* entry, so its output is not forgotten (nersc.go:259, 298-302).
StagingKept ==
  \A k \in Keys :
    Tracked(k) /\ owner[podMap[k]] \in StagingPods => stagingMap[k] = podMap[k]

\* With one worker, a pod has at most one job that nobody lost or cancelled:
\* retried CreatePod calls do not run the workload twice (nersc.go:182).
NoDuplicateJobs ==
  \A i, j \in Jobs :
    /\ Submitted(i) /\ owner[i] = owner[j]
    /\ ~Known(i) /\ ~Known(j)
    => i = j

\* When CreatePod has reported success for a pod, a job of that pod was
\* submitted (nersc.go:182-185 reports success for whatever is tracked).
CreatedPodsSubmitted == \A p \in created : \E j \in Jobs : owner[j] = p

\* A job whose cancellation was acknowledged neither waits nor runs, nor will
\* it be submitted later by its API task.  Only a job whose API task had
\* completed by then escapes: CancelJob deletes that task (client.go:322-342).
CancelledJobStops ==
  \A j \in acked : /\ task[j] # "new"
                   /\ slurm[j] \in {"pending", "running"} => task[j] = "completed"

\* Once a pod has left the API server, the provider in the end stops tracking
\* jobs of it for good, whatever calls were in progress (DeletePod's retries,
\* and the deadline that frees the worker from another pod's stage-in).
GonePodsAreForgotten ==
  \A p \in Pods :
    phase[p] = "gone" ~>
      [](\A k \in Keys : Tracked(k) => owner[podMap[k]] # p)
=============================================================================
