----------------------------- MODULE JobReports -----------------------------
(***************************************************************************)
(* What the provider reports of one job: the pod phase it maps the Slurm   *)
(* state to, and the log it hands out.  The Slurm state passes through     *)
(* three tables: normalizeSlurmStatus of the client, and                   *)
(* mapJobStatusToPodPhase and isTerminalJobStatus of the provider.         *)
(*                                                                         *)
(* followPodLogs asks for the status every 5 s and fetches the log file    *)
(* once the status is terminal, while the job goes on writing.             *)
(***************************************************************************)
EXTENDS Naturals

CONSTANTS
  RefKinds,   \* how the submission was answered: a subset of {"slurm", "task"}
  EndStates,  \* the states in which Slurm may leave a job, in their long form
  Followers,  \* log requests with follow=true
  MaxLines    \* bound on the lines the job writes

ASSUME JobReportsAssumption ==
  /\ RefKinds \subseteq {"slurm", "task"}
  /\ "COMPLETED" \in EndStates
  /\ EndStates \cap {"none", "SUBMITTED", "PENDING", "CONFIGURING", "RUNNING",
                     "SUSPENDED", "COMPLETING", "COMPLETED+"} = {}
  /\ MaxLines \in Nat

VARIABLES
  task,      \* the API task behind the job reference, "direct" without one
  slurm,     \* the job's state as sacct spells it
  lines,     \* lines in the job's stdout file
  phase,     \* the phase the last GetPodStatus reported
  follower,  \* follower[f]: where log request f stands
  got        \* got[f]: what it has written to its reader

reportVars == <<task, slurm, lines, phase, follower, got>>

TaskStates == {"direct", "new", "completed", "noJobID", "failed", "cancelled"}
LiveStates == {"none", "SUBMITTED", "PENDING", "CONFIGURING", "RUNNING",
               "SUSPENDED", "COMPLETING"}

Nothing == [from |-> "nothing", lines |-> 0]
Log     == [from : {"nothing", "empty", "task", "file"}, lines : Nat]

\* A request that has ended without an error has written a log.
ReportTypeOK ==
  /\ task \in TaskStates
  /\ slurm \in LiveStates \cup EndStates
  /\ lines \in 0 .. MaxLines
  /\ phase \in {"Pending", "Running", "Succeeded", "Failed"}
  /\ follower \in [Followers -> {"idle", "status", "wait", "fetch", "done", "broken"}]
  /\ got \in [Followers -> Log]
  /\ \A f \in Followers : follower[f] = "done" <=> got[f] # Nothing

ReportInit ==
  /\ \/ "slurm" \in RefKinds /\ task = "direct" /\ slurm = "SUBMITTED"
     \/ "task" \in RefKinds /\ task = "new" /\ slurm = "none"
  /\ lines = 0
  /\ phase = "Pending"
  /\ follower = [f \in Followers |-> "idle"]
  /\ got = [f \in Followers |-> Nothing]

-----------------------------------------------------------------------------
(* The tables.                                                             *)

FailedStates == {"FAILED", "CANCELLED", "CANCELED", "TIMEOUT", "NODE_FAIL", "OUT_OF_MEMORY"}

\* Mutant: a job that is winding up counts as completed.
MutNormalizeSlurmStatus(state) ==
  IF state \in {"PENDING", "CONFIGURING"} THEN "pending"
  ELSE IF state \in {"RUNNING", "SUSPENDED"} THEN "running"
  ELSE IF state \in {"COMPLETED", "COMPLETED+", "COMPLETING"} THEN "completed"
  ELSE IF state \in FailedStates THEN "failed"
  ELSE "other"

\* client.go:747, long forms only.  Any other state is passed on in lower case;
\* of Slurm's states no later table knows one then.
normalizeSlurmStatus(state) ==
  IF state \in {"PENDING", "CONFIGURING"} THEN "pending"
  ELSE IF state \in {"RUNNING", "COMPLETING", "SUSPENDED"} THEN "running"
  ELSE IF state \in {"COMPLETED", "COMPLETED+"} THEN "completed"
  ELSE IF state \in FailedStates THEN "failed"
  ELSE "other"

\* A job that accounting has no row for yet counts as pending (client.go:293).
getComputeJobStatus ==
  IF slurm \in {"none", "SUBMITTED"} THEN "pending" ELSE normalizeSlurmStatus(slurm)

\* Mutant: the task that submits the job is taken for the job.
MutGetJobStatus ==
  IF task = "direct" THEN getComputeJobStatus
  ELSE IF task = "new" THEN "pending"
  ELSE IF task \in {"failed", "cancelled"} THEN "failed"
  ELSE "completed"

\* A completed task without a job id in its result is an error (client.go:227).
\* A task has no states but these, so the last branch (client.go:230) is not met.
GetJobStatus ==
  IF task \in {"direct", "completed"} THEN getComputeJobStatus
  ELSE IF task = "new" THEN "pending"
  ELSE IF task = "noJobID" THEN "error"
  ELSE "failed"

\* Mutant: a failed job is not known.
MutMapJobStatusToPodPhase(status) ==
  IF status = "running" THEN "Running"
  ELSE IF status = "completed" THEN "Succeeded"
  ELSE "Pending"

mapJobStatusToPodPhase(status) ==
  IF status = "running" THEN "Running"
  ELSE IF status = "completed" THEN "Succeeded"
  ELSE IF status = "failed" THEN "Failed"
  ELSE "Pending"

\* Mutant: only success ends a job.
MutIsTerminalJobStatus(status) == status = "completed"

isTerminalJobStatus(status) == status \in {"completed", "failed"}

\* FetchJobLogs (client.go:362): the stdout file, or the task's own message
\* when there is no job to have one.
FetchJobLogs ==
  IF task \in {"direct", "completed"} THEN [from |-> "file", lines |-> lines]
  ELSE IF task = "new" THEN [from |-> "empty", lines |-> 0]
  ELSE [from |-> "task", lines |-> 0]

-----------------------------------------------------------------------------
(* The provider.                                                           *)

\* GetPodStatus without output staging (nersc.go:376, 397).
ReportPhase ==
  /\ GetJobStatus # "error"
  /\ phase' = mapJobStatusToPodPhase(GetJobStatus)
  /\ UNCHANGED <<task, slurm, lines, follower, got>>

FollowGoto(f, from, to) ==
  /\ follower[f] = from
  /\ follower' = [follower EXCEPT ![f] = to]

FollowBegins(f) ==
  /\ FollowGoto(f, "idle", "status")
  /\ UNCHANGED <<task, slurm, lines, phase, got>>

\* The status decides between the log file and another wait.
FollowStatus(f) ==
  /\ GetJobStatus # "error"
  /\ FollowGoto(f, "status", IF isTerminalJobStatus(GetJobStatus) THEN "fetch" ELSE "wait")
  /\ UNCHANGED <<task, slurm, lines, phase, got>>

FollowTick(f) ==
  /\ FollowGoto(f, "wait", "status")
  /\ UNCHANGED <<task, slurm, lines, phase, got>>

\* Mutant: the log is fetched and not written to the reader.
MutFollowFetch(f) ==
  /\ FollowGoto(f, "fetch", "done")
  /\ UNCHANGED <<task, slurm, lines, phase, got>>

FollowFetch(f) ==
  /\ FollowGoto(f, "fetch", "done")
  /\ got' = [got EXCEPT ![f] = FetchJobLogs]
  /\ UNCHANGED <<task, slurm, lines, phase>>

\* A failed call or a reader that went away ends the request with an error.
FollowBreaks(f) ==
  /\ \E from \in {"status", "wait", "fetch"} : FollowGoto(f, from, "broken")
  /\ UNCHANGED <<task, slurm, lines, phase, got>>

-----------------------------------------------------------------------------
(* Superfacility and Slurm.                                                *)

TaskEnds ==
  /\ task = "new"
  /\ \/ task' = "completed" /\ slurm' = "SUBMITTED"
     \/ task' \in {"noJobID", "failed", "cancelled"} /\ UNCHANGED slurm
  /\ UNCHANGED <<lines, phase, follower, got>>

\* Only a job that ran can have completed.
JobMoves ==
  /\ \/ slurm = "SUBMITTED" /\ slurm' = "PENDING"
     \/ slurm = "PENDING" /\ slurm' \in {"CONFIGURING", "RUNNING"}
     \/ slurm = "CONFIGURING" /\ slurm' = "RUNNING"
     \/ slurm = "RUNNING" /\ slurm' \in {"SUSPENDED", "COMPLETING"}
     \/ slurm = "SUSPENDED" /\ slurm' = "RUNNING"
     \/ slurm \in {"PENDING", "CONFIGURING"} /\ slurm' \in EndStates \ {"COMPLETED"}
     \/ slurm \in {"RUNNING", "COMPLETING"} /\ slurm' \in EndStates
  /\ UNCHANGED <<task, lines, phase, follower, got>>

JobWrites ==
  /\ slurm \in {"RUNNING", "COMPLETING"} /\ lines < MaxLines
  /\ lines' = lines + 1
  /\ UNCHANGED <<task, slurm, phase, follower, got>>

-----------------------------------------------------------------------------

FollowContinues(f) == FollowStatus(f) \/ FollowTick(f) \/ FollowFetch(f) \/ FollowBreaks(f)

ReportNext ==
  \/ ReportPhase
  \/ \E f \in Followers : FollowBegins(f) \/ FollowContinues(f)
  \/ TaskEnds \/ JobMoves \/ JobWrites

ReportSpec == ReportInit /\ [][ReportNext]_reportVars

\* The status loop comes round every 5 s and now and then its call succeeds;
\* every call of a log request ends by its timeout.
ReportFairness ==
  /\ WF_reportVars(ReportPhase)
  /\ \A f \in Followers : WF_reportVars(FollowContinues(f))

ReportFairSpec == ReportSpec /\ ReportFairness

-----------------------------------------------------------------------------
(* Properties.                                                             *)

JobEnded == slurm \in EndStates \/ task \in {"failed", "cancelled"}

\* A followed log that ends without an error is the whole log: it is fetched
\* only when the job can write no more (followPodLogs, nersc.go:552).
FollowedLogIsWhole ==
  \A f \in Followers :
    follower[f] = "done" =>
      \/ got[f] = [from |-> "file", lines |-> lines] /\ slurm \in EndStates
      \/ got[f].from = "task" /\ task \in {"failed", "cancelled"}

\* A pod is reported Succeeded only when Slurm has completed its job, and
\* Failed only when the job, or the task to submit it, ended otherwise
\* (nersc.go:703, client.go:219).
PhaseIsTruthful ==
  /\ phase = "Succeeded" => slurm = "COMPLETED"
  /\ phase = "Failed" => JobEnded /\ slurm # "COMPLETED"

\* A job that has ended is in the end reported with a final phase
\* (the default branch of nersc.go:713 reports Pending).
EndIsReported == JobEnded ~> phase \in {"Succeeded", "Failed"}

\* A log request for a job that has ended ends too (nersc.go:546-570).
FollowEnds ==
  \A f \in Followers :
    JobEnded /\ follower[f] \in {"status", "wait", "fetch"} ~>
      follower[f] \in {"done", "broken"}
=============================================================================
