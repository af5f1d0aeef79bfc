--------------------------- MODULE Superfacility ---------------------------
(***************************************************************************)
(* The NERSC Superfacility API as pkg/superfacility/client.go uses it for  *)
(* compute jobs.  A submission is answered either with a Slurm job id or   *)
(* with the id of an API task that will submit the job later; the client   *)
(* hides the difference behind one job reference (client.go:166, 666).     *)
(*                                                                         *)
(* The two state machines of a job, the API task and the Slurm job, belong *)
(* to the remote service: they are external, modelled from the values the  *)
(* client distinguishes.                                                   *)
(***************************************************************************)

CONSTANTS
  Pods,      \* pod incarnations (one per Kubernetes UID)
  Jobs,      \* job references: a bound on the number of submissions
  RefKinds,  \* how a submission may be answered: a subset of {"slurm", "task"}
  NoPod      \* the owner of a reference not yet given out

ASSUME SuperfacilityAssumption ==
  /\ NoPod \notin Pods
  /\ RefKinds \subseteq {"slurm", "task"}

VARIABLES
  owner,  \* owner[j]: the pod whose CreatePod call submitted j
  task,   \* task[j]: the API task behind j, "direct" when there is none
  slurm   \* slurm[j]: the Slurm job behind j

jobVars == <<owner, task, slurm>>

TaskStates  == {"none", "direct", "new", "completed", "failed", "cancelled"}
SlurmStates == {"none", "pending", "running", "completed", "failed", "cancelled"}

JobsTypeOK ==
  /\ owner \in [Jobs -> Pods \cup {NoPod}]
  /\ task \in [Jobs -> TaskStates]
  /\ slurm \in [Jobs -> SlurmStates]

JobsInit ==
  /\ owner = [j \in Jobs |-> NoPod]
  /\ task  = [j \in Jobs |-> "none"]
  /\ slurm = [j \in Jobs |-> "none"]

Submitted(j) == owner[j] # NoPod

-----------------------------------------------------------------------------
(* Calls of the client that change the remote state.                       *)

\* SubmitJob (client.go:166): the service accepts the script of pod p.
SubmitJob(j, p) ==
  /\ ~Submitted(j)
  /\ owner' = [owner EXCEPT ![j] = p]
  /\ \/ /\ "slurm" \in RefKinds
        /\ task'  = [task EXCEPT ![j] = "direct"]
        /\ slurm' = [slurm EXCEPT ![j] = "pending"]
     \/ /\ "task" \in RefKinds
        /\ task'  = [task EXCEPT ![j] = "new"]
        /\ UNCHANGED slurm

\* DELETE tasks/{id} (client.go:344): a task that has finished is past
\* cancelling, and the Slurm job it started is not the task.
cancelTask(j) ==
  /\ task' = [task EXCEPT ![j] = IF @ = "new" THEN "cancelled" ELSE @]
  /\ UNCHANGED slurm

\* Mutant: a state of its own between running and cancelled.
MutCancelComputeJobState(j) ==
  slurm' = [slurm EXCEPT ![j] = "cancelling"] /\ UNCHANGED task

\* Mutant: a job still in the queue is missed.
MutCancelComputeJobRunning(j) ==
  /\ slurm' = [slurm EXCEPT ![j] = IF @ = "running" THEN "cancelled" ELSE @]
  /\ UNCHANGED task

\* DELETE compute/jobs/perlmutter/{id} (client.go:327)
cancelComputeJob(j) ==
  /\ slurm' = [slurm EXCEPT ![j] =
                 IF @ \in {"pending", "running"} THEN "cancelled" ELSE @]
  /\ UNCHANGED task

\* CancelJob (client.go:322): which of the two is chosen by the reference.
CancelJob(j) ==
  /\ UNCHANGED owner
  /\ IF task[j] = "direct" THEN cancelComputeJob(j) ELSE cancelTask(j)

-----------------------------------------------------------------------------
(* GetJobStatus (client.go:207): the status string, normalised.  A task has *)
(* no states but these, so its last branch (client.go:230) is not met.     *)

computeJobStatus(j) ==
  [none |-> "pending", pending |-> "pending", running |-> "running",
   completed |-> "completed", failed |-> "failed",
   cancelled |-> "failed"][slurm[j]]

GetJobStatus(j) ==
  IF task[j] \in {"direct", "completed"} THEN computeJobStatus(j)
  ELSE IF task[j] = "new" THEN "pending"
  ELSE "failed"

-----------------------------------------------------------------------------
(* What the service does by itself.                                        *)

TaskFinishes(j) ==
  /\ task[j] = "new"
  /\ \/ /\ task'  = [task EXCEPT ![j] = "completed"]
        /\ slurm' = [slurm EXCEPT ![j] = "pending"]
     \/ /\ task' = [task EXCEPT ![j] = "failed"]
        /\ UNCHANGED slurm
  /\ UNCHANGED owner

JobStarts(j) ==
  /\ slurm[j] = "pending"
  /\ slurm' = [slurm EXCEPT ![j] = "running"]
  /\ UNCHANGED <<owner, task>>

JobEnds(j) ==
  /\ slurm[j] = "running"
  /\ \E s \in {"completed", "failed"} : slurm' = [slurm EXCEPT ![j] = s]
  /\ UNCHANGED <<owner, task>>

JobAdvances(j) == TaskFinishes(j) \/ JobStarts(j) \/ JobEnds(j)
=============================================================================
