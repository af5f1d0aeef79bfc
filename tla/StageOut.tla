------------------------------ MODULE StageOut ------------------------------
(***************************************************************************)
(* Output staging: GetPod, GetPodStatus and GetPods of pkg/provider/       *)
(* nersc.go drive reconcileStageOut of pkg/provider/staging.go, beside the *)
(* CreatePod and DeletePod threads of PodLifecycle.                        *)
(*                                                                         *)
(* A poller looks the job up, asks Superfacility for its status, looks the *)
(* staging entry up, and then reads and writes the entry's status in lock  *)
(* sections of its own, each time through stagingMap[key]: the entry it    *)
(* writes need not be the entry it read.  A remote call and the status     *)
(* written right after it are one step; no lock is held around the call,   *)
(* and what other threads do during the call they can do before the step.  *)
(***************************************************************************)
EXTENDS PodLifecycle, FiniteSets

CONSTANTS
  Pollers,     \* threads in GetPod: the status loop, the sync worker
  Transfers,   \* Globus transfers: a bound on how many are started
  NoTransfer,  \* the empty outputTransferID
  NoKey,       \* the key of an idle poller
  NoPoller     \* nobody

ASSUME StageOutAssumption ==
  NoTransfer \notin Transfers /\ NoKey \notin Keys /\ NoPoller \notin Pollers

VARIABLES
  out,         \* out[j]: outputStatus of the staging entry built for j
  outID,       \* outID[j]: its outputTransferID
  xfer,        \* xfer[t]: Globus transfer t, external
  xferOf,      \* xferOf[t]: the job whose output t moves
  startedBy,   \* history: startedBy[t] is the poller that requested t
  downloaded,  \* jobs whose output file was written locally (sfapi mode)
  poll,        \* poll[v]: where poller v stands
  complete     \* history: jobs GetPod has reported Succeeded

stageVars == <<out, outID, xfer, xferOf, startedBy, downloaded, poll, complete>>
allVars == <<vars, stageVars>>

Statuses  == {"notStarted", "starting", "running", "succeeded", "failed"}
PollLabels == {"idle", "status", "staging", "snapshot", "setStarting",
               "start", "download", "check"}

StageOutTypeOK ==
  /\ out \in [Jobs -> Statuses]
  /\ outID \in [Jobs -> Transfers \cup {NoTransfer}]
  /\ xfer \in [Transfers -> {"none", "active", "succeeded", "failed"}]
  /\ xferOf \in [Transfers -> JobOrNone]
  /\ startedBy \in [Transfers -> Pollers \cup {NoPoller}]
  /\ downloaded \subseteq Jobs
  /\ poll \in [Pollers -> [at : PollLabels, key : Keys \cup {NoKey},
                           job : JobOrNone, st : JobOrNone,
                           tid : Transfers \cup {NoTransfer}]]
  /\ complete \subseteq Jobs

Resting == [at |-> "idle", key |-> NoKey, job |-> NoJob, st |-> NoJob,
            tid |-> NoTransfer]

StageOutInit ==
  /\ Init
  /\ out = [j \in Jobs |-> "notStarted"]
  /\ outID = [j \in Jobs |-> NoTransfer]
  /\ xfer = [t \in Transfers |-> "none"]
  /\ xferOf = [t \in Transfers |-> NoJob]
  /\ startedBy = [t \in Transfers |-> NoPoller]
  /\ downloaded = {}
  /\ poll = [v \in Pollers |-> Resting]
  /\ complete = {}

hasStageOut(j) == j # NoJob /\ owner[j] \in OutputPods

PollAt(v, label) == poll[v].at = label

PollTo(v, label, j, t) ==
  poll' = [poll EXCEPT ![v] = [at |-> label, key |-> poll[v].key,
                               job |-> poll[v].job, st |-> j, tid |-> t]]
PollGoto(v, label) == PollTo(v, label, poll[v].st, poll[v].tid)
PollEnd(v) == poll' = [poll EXCEPT ![v] = Resting]
ReportComplete(v) == complete' = complete \cup {poll[v].job}

\* setStageOutStatus (staging.go:405) writes to whatever entry the key has now.
setStageOutStatus(key, status, t) ==
  LET j == stagingMap[key]
  IN IF j = NoJob
     THEN UNCHANGED <<out, outID>>
     ELSE /\ out' = [out EXCEPT ![j] = status]
          /\ outID' = [outID EXCEPT ![j] = IF t = NoTransfer THEN @ ELSE t]

-----------------------------------------------------------------------------
(* GetPod (nersc.go:376); GetPods runs the same steps for every key.       *)

PollLookup(v, k) ==
  /\ PollAt(v, "idle") /\ Tracked(k)
  /\ poll' = [poll EXCEPT ![v] = [at |-> "status", key |-> k, job |-> podMap[k],
                                  st |-> NoJob, tid |-> NoTransfer]]
  /\ UNCHANGED <<out, outID, xfer, xferOf, startedBy, downloaded, complete>>

\* Mutant: every terminal status counts as success.
MutPollJobDone(v) ==
  /\ PollAt(v, "status")
  /\ GetJobStatus(poll[v].job) \in {"completed", "failed"}
  /\ PollGoto(v, "staging")
  /\ UNCHANGED <<out, outID, xfer, xferOf, startedBy, downloaded, complete>>

\* GetJobStatus answers; only a Succeeded phase goes on to the staging entry.
PollJobDone(v) ==
  /\ PollAt(v, "status")
  /\ GetJobStatus(poll[v].job) = "completed"
  /\ PollGoto(v, "staging")
  /\ UNCHANGED <<out, outID, xfer, xferOf, startedBy, downloaded, complete>>

\* Another phase, or the call failed.
PollJobNotDone(v) ==
  /\ PollAt(v, "status")
  /\ PollEnd(v)
  /\ UNCHANGED <<out, outID, xfer, xferOf, startedBy, downloaded, complete>>

\* podStatusForJob (nersc.go:447) reads the staging entry of the key.
PollStaging(v) ==
  /\ PollAt(v, "staging")
  /\ IF hasStageOut(stagingMap[poll[v].key])
     THEN PollGoto(v, "snapshot") /\ UNCHANGED complete
     ELSE PollEnd(v) /\ ReportComplete(v)
  /\ UNCHANGED <<out, outID, xfer, xferOf, startedBy, downloaded>>

-----------------------------------------------------------------------------
(* reconcileStageOut (staging.go:307) and reconcileSFAPIStageOut (364).    *)

\* Mutant: a failed transfer is tried again.
MutSnapshotStatus(j) ==
  IF ~hasStageOut(j) THEN "succeeded"
  ELSE IF out[j] = "failed" THEN "notStarted" ELSE out[j]

\* stageOutSnapshot (staging.go:395): a missing entry counts as succeeded.
SnapshotStatus(j) == IF hasStageOut(j) THEN out[j] ELSE "succeeded"

\* An sfapi stage-out found running was marked so for another pod's Globus
\* transfer, and counts as complete (staging.go:366, 392).
PollSnapshot(v) ==
  LET j == stagingMap[poll[v].key]
      status == SnapshotStatus(j)
      done == \/ status = "succeeded"
              \/ status = "running" /\ owner[j] \in SfapiPods
      next == IF status = "notStarted" THEN "setStarting" ELSE "check"
  IN /\ PollAt(v, "snapshot")
     /\ IF ~done /\ status \in {"notStarted", "running"}
        THEN PollTo(v, next, j, outID[j])
        ELSE PollEnd(v)
     /\ IF done THEN ReportComplete(v) ELSE UNCHANGED complete
     /\ UNCHANGED <<out, outID, xfer, xferOf, startedBy, downloaded>>

PollSetStarting(v) ==
  LET mode == IF owner[poll[v].st] \in SfapiPods THEN "download" ELSE "start"
  IN /\ PollAt(v, "setStarting")
     /\ setStageOutStatus(poll[v].key, "starting", NoTransfer)
     /\ PollGoto(v, mode)
     /\ UNCHANGED <<xfer, xferOf, startedBy, downloaded, complete>>

\* StartGlobusTransfer with the request of the snapshot.
StartTransfer(v, t, j) ==
  /\ xfer[t] = "none"
  /\ xfer' = [xfer EXCEPT ![t] = "active"]
  /\ xferOf' = [xferOf EXCEPT ![t] = j]
  /\ startedBy' = [startedBy EXCEPT ![t] = v]

PollStart(v) ==
  /\ PollAt(v, "start")
  /\ \E t \in Transfers :
       /\ StartTransfer(v, t, poll[v].st)
       /\ setStageOutStatus(poll[v].key, "running", t)
       /\ PollTo(v, "check", poll[v].st, t)
  /\ UNCHANGED <<downloaded, complete>>

\* Mutant: a start that failed is forgotten, to be tried again.
MutPollStartFailsRetry(v) ==
  /\ PollAt(v, "start")
  /\ \/ \E t \in Transfers : StartTransfer(v, t, poll[v].st)
     \/ UNCHANGED <<xfer, xferOf, startedBy>>
  /\ setStageOutStatus(poll[v].key, "notStarted", NoTransfer)
  /\ PollEnd(v)
  /\ UNCHANGED <<downloaded, complete>>

\* Mutant: a start that failed returns without recording it.
MutPollStartFailsSilent(v) ==
  /\ PollAt(v, "start")
  /\ \/ \E t \in Transfers : StartTransfer(v, t, poll[v].st)
     \/ UNCHANGED <<xfer, xferOf, startedBy>>
  /\ PollEnd(v)
  /\ UNCHANGED <<out, outID, downloaded, complete>>

\* Refused, or accepted with the reply lost: failed either way.
PollStartFails(v) ==
  /\ PollAt(v, "start")
  /\ \/ \E t \in Transfers : StartTransfer(v, t, poll[v].st)
     \/ UNCHANGED <<xfer, xferOf, startedBy>>
  /\ setStageOutStatus(poll[v].key, "failed", NoTransfer)
  /\ PollEnd(v)
  /\ UNCHANGED <<downloaded, complete>>

\* Mutant: Globus' own word for a transfer in progress is recorded.
MutPollCheckStatus(v) ==
  LET t == poll[v].tid
  IN /\ PollAt(v, "check")
     /\ PollEnd(v)
     /\ setStageOutStatus(poll[v].key, xfer[t], t)
     /\ IF xfer[t] = "succeeded" THEN ReportComplete(v) ELSE UNCHANGED complete
     /\ UNCHANGED <<xfer, xferOf, startedBy, downloaded>>

\* Mutant: a transfer that is over is taken for one that succeeded.
MutPollCheckDone(v) ==
  /\ PollAt(v, "check") /\ xfer[poll[v].tid] # "active"
  /\ setStageOutStatus(poll[v].key, "succeeded", poll[v].tid)
  /\ PollEnd(v) /\ ReportComplete(v)
  /\ UNCHANGED <<xfer, xferOf, startedBy, downloaded>>

\* CheckGlobusTransfer answers.
PollCheck(v) ==
  LET t == poll[v].tid
  IN /\ PollAt(v, "check")
     /\ PollEnd(v)
     /\ IF xfer[t] = "active"
        THEN UNCHANGED <<out, outID>>
        ELSE setStageOutStatus(poll[v].key, xfer[t], t)
     /\ IF xfer[t] = "succeeded" THEN ReportComplete(v) ELSE UNCHANGED complete
     /\ UNCHANGED <<xfer, xferOf, startedBy, downloaded>>

\* One failed check of a transfer marks the stage-out failed (staging.go:342).
PollCheckFails(v) ==
  /\ PollAt(v, "check")
  /\ setStageOutStatus(poll[v].key, "failed", poll[v].tid)
  /\ PollEnd(v)
  /\ UNCHANGED <<xfer, xferOf, startedBy, downloaded, complete>>

PollDownload(v) ==
  /\ PollAt(v, "download")
  /\ downloaded' = downloaded \cup {poll[v].st}
  /\ setStageOutStatus(poll[v].key, "succeeded", NoTransfer)
  /\ PollEnd(v) /\ ReportComplete(v)
  /\ UNCHANGED <<xfer, xferOf, startedBy>>

PollDownloadFails(v) ==
  /\ PollAt(v, "download")
  /\ setStageOutStatus(poll[v].key, "failed", NoTransfer)
  /\ PollEnd(v)
  /\ UNCHANGED <<xfer, xferOf, startedBy, downloaded, complete>>

-----------------------------------------------------------------------------

TransferEnds(t) ==
  /\ xfer[t] = "active"
  /\ \E s \in {"succeeded", "failed"} : xfer' = [xfer EXCEPT ![t] = s]
  /\ UNCHANGED <<out, outID, xferOf, startedBy, downloaded, poll, complete>>

PollContinue(v) ==
  \/ PollJobDone(v) \/ PollJobNotDone(v) \/ PollStaging(v) \/ PollSnapshot(v)
  \/ PollSetStarting(v) \/ PollStart(v) \/ PollStartFails(v)
  \/ PollCheck(v) \/ PollCheckFails(v) \/ PollDownload(v) \/ PollDownloadFails(v)

Polling == \/ \E v \in Pollers : PollContinue(v) \/ \E k \in Keys : PollLookup(v, k)
           \/ \E t \in Transfers : TransferEnds(t)

\* The restart ends the pollers' calls as well.
StageOutRestart ==
  /\ Restart
  /\ poll' = [v \in Pollers |-> Resting]
  /\ UNCHANGED <<out, outID, xfer, xferOf, startedBy, downloaded, complete>>

StageOutNext ==
  \/ Running /\ UNCHANGED stageVars
  \/ Polling /\ UNCHANGED vars
  \/ StageOutRestart

StageOutSpec == StageOutInit /\ [][StageOutNext]_allVars

\* The status loop comes round to every key, its calls end, Superfacility
\* answers for each key now and then, and Globus ends the transfers it
\* accepted.
StageOutFairness ==
  /\ \A v \in Pollers :
       /\ WF_allVars(PollContinue(v) /\ UNCHANGED vars)
       /\ \A k \in Keys :
            /\ SF_allVars(PollLookup(v, k) /\ UNCHANGED vars)
            /\ SF_allVars(PollJobDone(v) /\ poll[v].key = k /\ UNCHANGED vars)
  /\ \A t \in Transfers : WF_allVars(TransferEnds(t) /\ UNCHANGED vars)

StageOutFairSpec == StageOutSpec /\ StageOutFairness

-----------------------------------------------------------------------------
(* Properties.                                                             *)

\* One thread requests the transfer of a job's output at most once, however
\* often it asks for the pod's status, whatever its failed calls have done,
\* and across restarts: a second transfer of one output is always the request
\* of a second thread (staging.go:315-332).
StageOutStartedOncePerThread ==
  \A t, u \in Transfers :
    xferOf[t] # NoJob /\ xferOf[t] = xferOf[u] /\ startedBy[t] = startedBy[u] => t = u

\* The output of a job is transferred at most once (nersc_test.go:485 counts
\* the requests).  Two threads that read the entry before either marks it
\* starting both request a transfer (staging.go:315-332, run StageOutTwice).
StageOutStartedOnce ==
  \A t, u \in Transfers : xferOf[t] # NoJob /\ xferOf[t] = xferOf[u] => t = u

\* Output leaves the scratch directory only when the job that writes it has
\* succeeded (nersc.go:449).
StageOutAfterJobSucceeds ==
  \A j \in Jobs :
    j \in downloaded \/ (\E t \in Transfers : xferOf[t] = j)
      => GetJobStatus(j) = "completed"

Delivered(j) ==
  j \in downloaded \/ \E t \in Transfers : xferOf[t] = j /\ xfer[t] = "succeeded"

\* A tracked pod that asked for output staging and was reported Succeeded has
\* its output at the destination (nersc.go:447-457, staging.go:314-320).
CompleteMeansDelivered ==
  \A k \in Keys :
    podMap[k] \in complete /\ hasStageOut(podMap[k]) => Delivered(podMap[k])

\* Poller v may still write to the staging entry of j: it does so by the key.
AtWork(v, j) ==
  poll[v].at \in {"setStarting", "start", "download", "check"} /\ stagingMap[poll[v].key] = j

Settled(j) ==
  out[j] \in {"succeeded", "failed"} /\ \A v \in Pollers : ~AtWork(v, j)

\* The result of a stage-out that no status call is still at work on stands:
\* later calls, of the same pod or of another under its name, neither change
\* it nor take the stage-out up again (staging.go:314-320, 405).  Calls that
\* work on one entry beside each other record what each of them saw, so that
\* a result may still change before the last of them is done (staging.go:344).
StageOutResultStands ==
  [][\A j \in Jobs : Settled(j) => out'[j] = out[j] /\ Settled(j)']_allVars

\* A stage-out that was started comes to a result, unless its pod is deleted
\* first (every error path of reconcileStageOut must record the failure).
StageOutTerminates ==
  \A k \in Keys, j \in Jobs :
    stagingMap[k] = j /\ out[j] \in {"starting", "running"} ~>
      stagingMap[k] # j \/ out[j] \in {"succeeded", "failed"}
=============================================================================
