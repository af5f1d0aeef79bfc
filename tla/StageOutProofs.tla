--------------------------- MODULE StageOutProofs ---------------------------
(***************************************************************************)
(* Output staging runs beside the pod lifecycle without disturbing it: a   *)
(* behaviour of StageOut, its own variables hidden, is one of PodLifecycle, *)
(* so what PodLifecycleProofs proves holds with pollers running too.  Then *)
(* what a poller still knows when it acts.  However many run, each requests *)
(* the transfer of an output at most once, and a result stands when no     *)
(* poller is at work on it any longer; with one worker and a name for each *)
(* pod they transfer only what a job that succeeded has written, and a pod *)
(* reported Succeeded has it delivered.                                    *)
(***************************************************************************)
EXTENDS StageOut, DeployedProofs

\* Pollers and transfers read the lifecycle's state and never write to it
\* (reconcileStageOut takes the read lock on podMap and stagingMap).
THEOREM StageOutPreservesLifecycle == StageOutSpec => Spec
  <1>1. StageOutInit => Init
    BY DEF StageOutInit
  <1>2. [StageOutNext]_allVars => [Next]_vars
    BY DEF StageOutNext, allVars, StageOutRestart, Next
  <1> QED
    BY <1>1, <1>2, PTL DEF StageOutSpec, Spec

\* No job is lost silently with status requests running beside the calls.
COROLLARY NoJobIsLostWithPollers == StageOutSpec => []NoSilentOrphan
  BY StageOutPreservesLifecycle, NoJobIsLost, PTL

-----------------------------------------------------------------------------
(* What a step of the lifecycle can do to the state a poller relies on.    *)

\* A submitted job keeps its owner, and no CreatePod call takes it up again.
LEMMA LifecycleStep ==
  ASSUME IInv, [Next]_vars
  PROVE  /\ \A j \in Jobs : Submitted(j) => owner'[j] = owner[j]
         /\ \A w \in Workers :
              worker'[w].at \in Creating =>
                \/ worker[w].at \in Creating /\ worker'[w].job = worker[w].job
                \/ ~Submitted(worker'[w].job)
  <1> DEFINE Owners == \A j \in Jobs : Submitted(j) => owner'[j] = owner[j]
             Taken(w) == worker'[w].at \in Creating =>
                           \/ worker[w].at \in Creating /\ worker'[w].job = worker[w].job
                           \/ ~Submitted(worker'[w].job)
             Goal == Owners /\ \A w \in Workers : Taken(w)
  <1> USE DEF IInv, LInv, TypeOK, Creating, At
  <1>1. CASE UNCHANGED <<owner, worker>>
    BY <1>1
  <1>2. ASSUME NEW w \in Workers, SubmitAccepted(w) \/ SubmitReplyLost(w)
        PROVE  Goal
    <2>1. PICK j \in Jobs : /\ SubmitJob(j, worker[w].pod)
                            /\ Goto(w, "store", worker[w].pod, j) \/ Return(w)
      BY <1>2 DEF SubmitAccepted, SubmitReplyLost
    <2>2. worker[w].pod \in Pods
      BY <1>2 DEF SubmitAccepted, SubmitReplyLost, HoldsPod
    <2>3. ~Submitted(j) /\ Owners
      BY <2>1, <2>2, SubmissionKeepsOwners
    <2> QED
      BY <2>1, <2>3 DEF Goto, Return, Idle
  <1>3. ASSUME NEW w \in Workers, owner' = owner,
               \A v \in Workers \ {w} : worker'[v] = worker[v],
               \/ worker'[w].at \notin Creating
               \/ worker[w].at \in Creating /\ worker'[w].job = worker[w].job
        PROVE  Goal
    BY <1>3
  <1>4. ASSUME NEW w \in Workers, StageInStep(w) \/ SubmitRefused(w) \/ CreateStore(w)
                                  \/ CreateDuplicate(w) \/ DeleteUntrack(w)
                                  \/ DeleteDropStaging(w)
        PROVE  Goal
    BY <1>3, <1>4 DEF StageInStep, StageInDone, StageInFails, StageInTimeout, SubmitRefused,
       CreateStore, CreateDuplicate, DeleteUntrack, DeleteDropStaging, Goto, Return, Idle, jobVars
  <1>5. ASSUME NEW w \in Workers, DuplicateStep(w) \/ CancelStep(w)
        PROVE  Goal
    <2>1. worker[w].job \in Jobs
      BY <1>5 DEF DuplicateStep, DuplicateCancelled, DuplicateLeaked, CancelStep,
         CancelAcknowledged, CancelFails, HoldsJob
    <2> QED
      BY <1>3, <1>5, <2>1, CancelJobType
      DEF DuplicateStep, DuplicateCancelled, DuplicateLeaked, CancelStep,
          CancelAcknowledged, CancelFails, Goto, Return, Idle, jobVars
  <1>6. ASSUME NEW w \in Workers, NEW p \in Pods, Begin(w, p)
        PROVE  Goal
    BY <1>3, <1>6 DEF Begin, CreateTracked, CreateBegin, DeleteTracked, DeleteUntracked,
       Goto, jobVars
  <1>7. ASSUME NEW p \in Pods, Kubernetes(p)
        PROVE  Goal
    BY <1>1, <1>7 DEF Kubernetes, PodBound, PodMarkedDeleted, PodRemoved, SetPhase, jobVars
  <1>8. ASSUME NEW j \in Jobs, ServiceAdvances(j)
        PROVE  Goal
    BY <1>1, <1>8, JobAdvancesType DEF ServiceAdvances, lifecycleVars
  <1>9. CASE Restart
    BY <1>9 DEF Restart, Idle, jobVars
  <1> QED
    BY <1>1, <1>2, <1>4, <1>5, <1>6, <1>7, <1>8, <1>9
    DEF Next, Running, Continue, SubmitStep, StoreStep, vars

\* A job enters stagingMap only from the hands of the CreatePod call that
\* submitted it.
LEMMA StagingEntries ==
  ASSUME LInv, [Next]_vars, NEW k \in Keys
  PROVE  \/ stagingMap'[k] = stagingMap[k]
         \/ stagingMap'[k] = NoJob
         \/ \E w \in Workers : worker[w].at \in Creating /\ stagingMap'[k] = worker[w].job
  <1> USE DEF LInv, TypeOK, Creating, At
  <1>1. CASE UNCHANGED <<podMap, stagingMap>>
    BY <1>1
  <1>2. ASSUME NEW w \in Workers, CreateStore(w)
        PROVE  \/ stagingMap'[k] = stagingMap[k]
               \/ worker[w].at \in Creating /\ stagingMap'[k] = worker[w].job
    BY <1>2 DEF CreateStore
  <1>3. ASSUME NEW w \in Workers, DeleteUntrack(w) \/ DeleteDropStaging(w)
        PROVE  stagingMap'[k] = stagingMap[k] \/ stagingMap'[k] = NoJob
    BY <1>3 DEF DeleteUntrack, DeleteDropStaging, mapVars
  <1>4. CASE Restart
    BY <1>4 DEF Restart
  <1> QED
    BY <1>1, <1>2, <1>3, <1>4, MapWriters

-----------------------------------------------------------------------------
(* Types.  A poller asks Globus only about a transfer it has an id for.    *)

Engaged(v) == poll[v].at \in {"setStarting", "start", "download", "check"}

Accepted(t) == t \in Transfers /\ xfer[t] # "none"

PollShape(v) ==
  /\ ~PollAt(v, "idle") => poll[v].key \in Keys /\ poll[v].job \in Jobs
  /\ Engaged(v) => poll[v].st \in Jobs
  /\ PollAt(v, "check") => Accepted(poll[v].tid)

RunningHasID == \A j \in Jobs : out[j] = "running" => Accepted(outID[j])

SInv ==
  /\ LInv
  /\ StageOutTypeOK
  /\ \A v \in Pollers : PollShape(v)
  /\ RunningHasID

LEMMA SInvInit == StageOutInit => SInv
  <1> SUFFICES ASSUME StageOutInit PROVE SInv
    OBVIOUS
  <1>1. LInv
    BY LInvInit DEF StageOutInit
  <1> QED
    BY <1>1 DEF StageOutInit, SInv, StageOutTypeOK, PollShape, Engaged, PollAt, RunningHasID,
       Resting, Statuses, PollLabels, JobOrNone

\* What recording a status does to the two tables of stage-out results.
LEMMA SetStatus ==
  ASSUME SInv, NEW k \in Keys, NEW s \in Statuses, NEW t \in Transfers \cup {NoTransfer},
         \A u \in Transfers : Accepted(u) => Accepted(u)',
         s = "running" => Accepted(t)',
         setStageOutStatus(k, s, t)
  PROVE  /\ out' \in [Jobs -> Statuses] /\ outID' \in [Jobs -> Transfers \cup {NoTransfer}]
         /\ RunningHasID'
         /\ \A j \in Jobs : out'[j] = out[j] \/ out'[j] = s
         /\ stagingMap[k] \in Jobs => out'[stagingMap[k]] = s
  <1> USE StageOutAssumption, PodLifecycleAssumption
      DEF SInv, LInv, TypeOK, StageOutTypeOK, RunningHasID, JobOrNone, Accepted
  <1>1. CASE stagingMap[k] = NoJob
    BY <1>1 DEF setStageOutStatus
  <1>2. CASE stagingMap[k] # NoJob
    <2>1. stagingMap[k] \in Jobs
      BY <1>2
    <2> QED
      BY <1>2, <2>1 DEF setStageOutStatus
  <1> QED
    BY <1>1, <1>2

\* The steps that record a status, with the status they record.
Records(v, s) ==
  \E t \in Transfers \cup {NoTransfer} :
    /\ s = "running" => Accepted(t)'
    /\ setStageOutStatus(poll[v].key, s, t)

LEMMA StatusWriters ==
  ASSUME SInv, NEW v \in Pollers, PollContinue(v)
  PROVE  \/ UNCHANGED <<out, outID>>
         \/ \E s \in Statuses \ {"notStarted"} : Records(v, s)
  <1> USE DEF SInv, StageOutTypeOK, PollShape, PollAt, Records, Statuses, Accepted
  <1>1. CASE PollCheck(v)
    <2>1. poll[v].tid \in Transfers /\ xfer[poll[v].tid] # "none"
      BY <1>1 DEF PollCheck
    <2>2. CASE xfer[poll[v].tid] = "active"
      BY <1>1, <2>2 DEF PollCheck
    <2>3. CASE xfer[poll[v].tid] \in {"succeeded", "failed"}
      BY <1>1, <2>1, <2>3 DEF PollCheck
    <2> QED
      BY <2>1, <2>2, <2>3
  <1>2. CASE PollStart(v)
    BY <1>2 DEF PollStart, StartTransfer
  <1>3. CASE PollSetStarting(v) \/ PollStartFails(v) \/ PollDownload(v) \/ PollDownloadFails(v)
    BY <1>3 DEF PollSetStarting, PollStartFails, PollDownload, PollDownloadFails
  <1>4. CASE PollCheckFails(v)
    BY <1>4 DEF PollCheckFails
  <1>5. CASE PollJobDone(v) \/ PollJobNotDone(v) \/ PollStaging(v) \/ PollSnapshot(v)
    BY <1>5 DEF PollJobDone, PollJobNotDone, PollStaging, PollSnapshot
  <1> QED
    BY <1>1, <1>2, <1>3, <1>4, <1>5 DEF PollContinue

\* Transfers never go back to not having been accepted.
LEMMA AcceptedStays ==
  ASSUME StageOutTypeOK, Polling
  PROVE  /\ xfer' \in [Transfers -> {"none", "active", "succeeded", "failed"}]
         /\ \A u \in Transfers : Accepted(u) => Accepted(u)'
  BY DEF StageOutTypeOK, Polling, PollContinue, PollLookup, PollJobDone, PollJobNotDone,
     PollStaging, PollSnapshot, PollSetStarting, PollStart, PollStartFails, PollCheck,
     PollCheckFails, PollDownload, PollDownloadFails, TransferEnds, StartTransfer, Accepted

\* A snapshot that leads on to a transfer is one of an existing entry.
LEMMA SnapshotOfEntry ==
  ASSUME NEW j \in JobOrNone, SnapshotStatus(j) \in {"notStarted", "running"}
  PROVE  hasStageOut(j) /\ j \in Jobs /\ SnapshotStatus(j) = out[j]
  BY DEF SnapshotStatus, hasStageOut, JobOrNone

PollRecord == [at : PollLabels, key : Keys \cup {NoKey}, job : JobOrNone,
               st : JobOrNone, tid : Transfers \cup {NoTransfer}]

\* The rest of the poller's tables, and the poller's own record.
PollerTypes(v) ==
  /\ xferOf \in [Transfers -> JobOrNone]
  /\ startedBy \in [Transfers -> Pollers \cup {NoPoller}]
  /\ downloaded \subseteq Jobs
  /\ complete \subseteq Jobs
  /\ poll \in [Pollers -> PollRecord]
  /\ PollShape(v)

\* Where a snapshot leads.
LEMMA SnapshotLeads ==
  ASSUME NEW v \in Pollers, PollSnapshot(v),
         NEW j, j = stagingMap[poll[v].key]
  PROVE  \/ SnapshotStatus(j) = "notStarted" /\ PollTo(v, "setStarting", j, outID[j])
         \/ SnapshotStatus(j) = "running" /\ PollTo(v, "check", j, outID[j])
         \/ PollEnd(v)
  BY DEF PollSnapshot

LEMMA PollerStep ==
  ASSUME SInv, NEW v \in Pollers, PollContinue(v) \/ \E k \in Keys : PollLookup(v, k),
         \A u \in Transfers : Accepted(u) => Accepted(u)'
  PROVE  PollerTypes(v)' /\ \A u \in Pollers \ {v} : poll'[u] = poll[u]
  <1> DEFINE Goal == PollerTypes(v)' /\ \A u \in Pollers \ {v} : poll'[u] = poll[u]
  <1> USE DEF SInv, LInv, TypeOK, StageOutTypeOK, PollerTypes, PollRecord, PollShape, Engaged,
              PollAt, PollLabels, JobOrNone, Accepted
  <1>0. ASSUME PollEnd(v), UNCHANGED <<xferOf, startedBy>>,
               downloaded' \subseteq Jobs, complete' \subseteq Jobs
        PROVE  Goal
    BY <1>0 DEF PollEnd, Resting
  <1>1. ASSUME NEW k \in Keys, PollLookup(v, k)
        PROVE  Goal
    BY <1>1 DEF PollLookup, Tracked
  <1>2. CASE PollJobDone(v)
    BY <1>2 DEF PollJobDone, PollGoto, PollTo
  <1>3. CASE PollJobNotDone(v)
    BY <1>3 DEF PollJobNotDone, PollEnd, Resting
  <1>4. CASE PollStaging(v)
    <2>1. CASE hasStageOut(stagingMap[poll[v].key])
      <3>1. /\ PollAt(v, "staging") /\ PollTo(v, "snapshot", poll[v].st, poll[v].tid)
            /\ UNCHANGED <<complete, out, outID, xfer, xferOf, startedBy, downloaded>>
        BY <1>4, <2>1 DEF PollStaging, PollGoto
      <3> QED
        BY <3>1 DEF PollTo
    <2>2. CASE ~hasStageOut(stagingMap[poll[v].key])
      BY <1>4, <2>2 DEF PollStaging, PollEnd, Resting, ReportComplete
    <2> QED
      BY <2>1, <2>2
  <1>5. CASE PollSnapshot(v)
    <2> DEFINE j == stagingMap[poll[v].key]
    <2>1. poll[v].key \in Keys /\ poll[v].job \in Jobs /\ j \in JobOrNone
      BY <1>5 DEF PollSnapshot
    <2>2. complete' \subseteq Jobs /\ UNCHANGED <<xfer, xferOf, startedBy, downloaded>>
      BY <1>5, <2>1 DEF PollSnapshot, ReportComplete
    <2>3. CASE PollEnd(v)
      BY <1>0, <2>2, <2>3
    <2>4. ASSUME NEW l \in {"setStarting", "check"}, PollTo(v, l, j, outID[j]),
                 SnapshotStatus(j) \in {"notStarted", "running"},
                 l = "check" => SnapshotStatus(j) = "running"
          PROVE  Goal
      <3>1. j \in Jobs /\ SnapshotStatus(j) = out[j]
        BY <2>1, <2>4, SnapshotOfEntry
      <3>2. l = "check" => Accepted(outID[j])
        BY <2>2, <2>4, <3>1 DEF RunningHasID
      <3>3. outID[j] \in Transfers \cup {NoTransfer}
        BY <3>1
      <3> QED
        BY <2>1, <2>2, <2>4, <3>1, <3>2, <3>3 DEF PollTo
    <2> QED
      BY <1>5, <2>3, <2>4, SnapshotLeads
  <1>6. CASE PollSetStarting(v)
    BY <1>6 DEF PollSetStarting, PollGoto, PollTo
  <1>7. CASE PollStart(v)
    BY <1>7 DEF PollStart, StartTransfer, PollTo
  <1>8. CASE PollStartFails(v)
    BY <1>8 DEF PollStartFails, StartTransfer, PollEnd, Resting
  <1>9. CASE PollCheck(v) \/ PollCheckFails(v)
    <2>1. /\ PollEnd(v) /\ UNCHANGED <<xferOf, startedBy, downloaded>>
          /\ ReportComplete(v) \/ UNCHANGED complete
      BY <1>9 DEF PollCheck, PollCheckFails
    <2>2. poll[v].job \in Jobs
      BY <1>9 DEF PollCheck, PollCheckFails
    <2> QED
      BY <1>0, <2>1, <2>2 DEF ReportComplete
  <1>10. CASE PollDownload(v) \/ PollDownloadFails(v)
    BY <1>10 DEF PollDownload, PollDownloadFails, PollEnd, Resting, ReportComplete
  <1> QED
    BY <1>1, <1>2, <1>3, <1>4, <1>5, <1>6, <1>7, <1>8, <1>9, <1>10 DEF PollContinue

LEMMA SInvNext ==
  ASSUME SInv, [StageOutNext]_allVars
  PROVE  SInv'
  <1>0. LInv'
    <2>1. [Next]_vars
      BY DEF StageOutNext, StageOutRestart, allVars, Next
    <2> QED
      BY <2>1, LInvNext DEF SInv
  <1>1. CASE UNCHANGED stageVars
    BY <1>0, <1>1 DEF stageVars, SInv, StageOutTypeOK, PollShape, PollAt, Engaged,
       RunningHasID, Accepted
  <1>2. ASSUME NEW v \in Pollers, PollContinue(v) \/ \E k \in Keys : PollLookup(v, k)
        PROVE  SInv'
    <2>1. StageOutTypeOK /\ Polling
      BY <1>2 DEF Polling, SInv
    <2>2. /\ xfer' \in [Transfers -> {"none", "active", "succeeded", "failed"}]
          /\ \A u \in Transfers : Accepted(u) => Accepted(u)'
      BY <2>1, AcceptedStays
    <2>3. PollerTypes(v)' /\ \A u \in Pollers \ {v} : poll'[u] = poll[u]
      BY <1>2, <2>2, PollerStep
    <2>4. \A u \in Pollers : PollShape(u)'
      <3>1. PollShape(v)'
        BY <2>3 DEF PollerTypes
      <3>2. ASSUME NEW u \in Pollers \ {v}
            PROVE  PollShape(u)'
        <4>1. poll'[u] = poll[u] /\ PollShape(u)
          BY <2>3 DEF SInv
        <4> QED
          BY <4>1, <2>2 DEF PollShape, PollAt, Engaged, Accepted
      <3> QED
        BY <3>1, <3>2
    <2> DEFINE Tables == /\ out' \in [Jobs -> Statuses]
                         /\ outID' \in [Jobs -> Transfers \cup {NoTransfer}]
                         /\ RunningHasID'
    <2>5. ASSUME UNCHANGED <<out, outID>>
          PROVE  Tables
      BY <2>2, <2>5 DEF SInv, StageOutTypeOK, RunningHasID, Accepted
    <2>6. ASSUME PollContinue(v), NEW s \in Statuses, Records(v, s)
          PROVE  Tables
      <3>1. poll[v].key \in Keys
        BY <2>6 DEF SInv, PollShape, PollAt, PollContinue, PollJobDone, PollJobNotDone, PollStaging,
           PollSnapshot, PollSetStarting, PollStart, PollStartFails, PollCheck, PollCheckFails,
           PollDownload, PollDownloadFails
      <3>2. PICK t \in Transfers \cup {NoTransfer} :
              /\ s = "running" => Accepted(t)'
              /\ setStageOutStatus(poll[v].key, s, t)
        BY <2>6 DEF Records
      <3> QED
        BY <2>2, <3>1, <3>2, SetStatus
    <2>7. Tables
      BY <1>2, <2>5, <2>6, StatusWriters DEF PollLookup
    <2> QED
      BY <1>0, <2>2, <2>3, <2>4, <2>7
      DEF SInv, PollerTypes, PollRecord, StageOutTypeOK
  <1>3. ASSUME NEW t \in Transfers, TransferEnds(t)
        PROVE  SInv'
    BY <1>0, <1>3 DEF TransferEnds, SInv, StageOutTypeOK, PollShape, PollAt, Engaged,
       RunningHasID, Accepted
  <1>4. CASE StageOutRestart
    BY <1>0, <1>4 DEF StageOutRestart, Resting, SInv, StageOutTypeOK, PollShape, PollAt, Engaged,
       RunningHasID, Accepted, PollLabels, JobOrNone
  <1> QED
    BY <1>1, <1>2, <1>3, <1>4 DEF StageOutNext, Polling, allVars

\* The stage-out tables and the pollers' locals keep their types; in particular
\* reconcileStageOut checks a transfer only by an id Globus gave out
\* (staging.go:325-340).
THEOREM StageOutTypeCorrect == StageOutSpec => []StageOutTypeOK
  <1>1. SInv => StageOutTypeOK
    BY DEF SInv
  <1> QED
    BY SInvInit, SInvNext, <1>1, PTL DEF StageOutSpec

-----------------------------------------------------------------------------
(* A thread that asks for status requests a transfer at most once.         *)

\* Job j has left the hands of the CreatePod call that submitted it.
Past(j) ==
  /\ Submitted(j)
  /\ \A w \in Workers : worker[w].at \in Creating => worker[w].job # j

\* No later snapshot finds j not started.
Begun(j) ==
  /\ Past(j)
  /\ out[j] # "notStarted" \/ \A k \in Keys : stagingMap[k] # j

\* Poller v has not requested the transfer of j's output.
NotAsked(v, j) == \A t \in Transfers : ~(xferOf[t] = j /\ startedBy[t] = v)

\* A poller about to start the transfer of j, before and after it has
\* recorded the start.
PollerReady(v) ==
  \A j \in Jobs :
    poll[v].st = j =>
      /\ PollAt(v, "setStarting") =>
           Past(j) /\ NotAsked(v, j) /\ KeyOf[owner[j]] = poll[v].key
      /\ PollAt(v, "start") => Begun(j) /\ NotAsked(v, j)

TransfersBegun == \A t \in Transfers : xferOf[t] # NoJob => Begun(xferOf[t])

XferShape == \A t \in Transfers : xferOf[t] # NoJob => xfer[t] # "none"

\* What the lifecycle contributes.
BInv == SInv /\ CInv /\ StagingFollowsTracking

\* The inductive invariant of StageOutStartedOncePerThread.
OInv ==
  /\ BInv
  /\ XferShape
  /\ TransfersBegun
  /\ \A v \in Pollers : PollerReady(v)
  /\ StageOutStartedOncePerThread

LEMMA BInvNext ==
  ASSUME BInv, [StageOutNext]_allVars
  PROVE  BInv' /\ [Next]_vars
  <1>1. [Next]_vars
    BY DEF StageOutNext, StageOutRestart, allVars, Next
  <1> QED
    BY <1>1, SInvNext, CInvNext, StagingStep DEF BInv, SInv

\* A job in stagingMap is past its CreatePod call and of the entry's key.
LEMMA StagedIsPast ==
  ASSUME BInv, NEW k \in Keys, stagingMap[k] # NoJob
  PROVE  Past(stagingMap[k]) /\ KeyOf[owner[stagingMap[k]]] = k
  <1>1. stagingMap[k] = podMap[k]
    BY DEF BInv, StagingFollowsTracking
  <1> QED
    BY <1>1 DEF BInv, CInv, IInv, TrackedOwn, Tracked, Exclusive, HoldsAlone, Past

LEMMA PastStays ==
  ASSUME BInv, [Next]_vars, NEW j \in Jobs, Past(j)
  PROVE  Past(j)' /\ owner'[j] = owner[j]
  <1>1. IInv
    BY DEF BInv, CInv
  <1> QED
    BY <1>1, LifecycleStep DEF Past, Submitted

\* stagingMap gains no job that is past its CreatePod call.
LEMMA BegunStays ==
  ASSUME BInv, [Next]_vars, NEW j \in Jobs, Begun(j),
         out[j] # "notStarted" => out'[j] # "notStarted"
  PROVE  Begun(j)'
  <1>1. Past(j)'
    BY PastStays DEF Begun
  <1>2. ASSUME \A k \in Keys : stagingMap[k] # j
        PROVE  \A k \in Keys : stagingMap'[k] # j
    <2> SUFFICES ASSUME NEW k \in Keys PROVE stagingMap'[k] # j
      OBVIOUS
    <2>1. LInv /\ j # NoJob
      BY PodLifecycleAssumption DEF BInv, SInv
    <2> QED
      BY <1>2, <2>1, StagingEntries DEF Begun, Past
  <1> QED
    BY <1>1, <1>2 DEF Begun

\* A recorded status is never that of a fresh entry.
LEMMA StartedStays ==
  ASSUME SInv, Polling, NEW j \in Jobs, out[j] # "notStarted"
  PROVE  out'[j] # "notStarted"
  <1>1. \A u \in Transfers : Accepted(u) => Accepted(u)'
    BY AcceptedStays DEF SInv
  <1>2. ASSUME NEW v \in Pollers, PollContinue(v)
        PROVE  out'[j] # "notStarted"
    <2>1. CASE UNCHANGED <<out, outID>>
      BY <2>1
    <2>2. ASSUME NEW s \in Statuses \ {"notStarted"}, Records(v, s)
          PROVE  out'[j] # "notStarted"
      <3>1. poll[v].key \in Keys
        BY <1>2 DEF SInv, PollShape, PollAt, PollContinue, PollJobDone, PollJobNotDone,
           PollStaging, PollSnapshot, PollSetStarting, PollStart, PollStartFails, PollCheck,
           PollCheckFails, PollDownload, PollDownloadFails
      <3>2. PICK t \in Transfers \cup {NoTransfer} :
              /\ s = "running" => Accepted(t)'
              /\ setStageOutStatus(poll[v].key, s, t)
        BY <2>2 DEF Records
      <3> QED
        BY <1>1, <3>1, <3>2, SetStatus
    <2> QED
      BY <1>2, <2>1, <2>2, StatusWriters
  <1> QED
    BY <1>2 DEF Polling, PollLookup, TransferEnds

LEMMA OInvInit == StageOutInit => OInv
  <1> SUFFICES ASSUME StageOutInit PROVE OInv
    OBVIOUS
  <1>1. SInv /\ CInv
    BY SInvInit, CInvInit DEF StageOutInit
  <1>2. StagingFollowsTracking
    BY DEF StageOutInit, Init, StagingFollowsTracking
  <1> QED
    BY <1>1, <1>2, StageOutAssumption
    DEF StageOutInit, OInv, BInv, XferShape, TransfersBegun, PollerReady, PollAt, Resting,
        StageOutStartedOncePerThread

\* A poller that a step leaves where it stands stays ready, unless the step is
\* its own request.
LEMMA ReadyStays ==
  ASSUME OInv, [Next]_vars, NEW v \in Pollers, poll'[v] = poll[v],
         \A j \in Jobs : Begun(j) => Begun(j)',
         \A t \in Transfers :
           UNCHANGED <<xferOf[t], startedBy[t]>> \/ startedBy'[t] # v
  PROVE  PollerReady(v)'
  <1> SUFFICES ASSUME NEW j \in Jobs, poll[v].st = j
               PROVE  /\ PollAt(v, "setStarting") =>
                           Past(j)' /\ NotAsked(v, j)' /\ KeyOf[owner'[j]] = poll[v].key
                      /\ PollAt(v, "start") => Begun(j)' /\ NotAsked(v, j)'
    BY DEF PollerReady, PollAt
  <1>1. Past(j) => Past(j)' /\ owner'[j] = owner[j]
    BY PastStays DEF OInv
  <1>2. NotAsked(v, j) => NotAsked(v, j)'
    BY DEF NotAsked
  <1> QED
    BY <1>1, <1>2 DEF OInv, PollerReady

LEMMA OInvNext ==
  ASSUME OInv, [StageOutNext]_allVars
  PROVE  OInv'
  <1>0. BInv' /\ [Next]_vars
    BY BInvNext DEF OInv
  <1>1. ASSUME UNCHANGED <<out, xfer, xferOf, startedBy>>,
               UNCHANGED poll \/ \A v \in Pollers : poll'[v] = Resting
        PROVE  OInv'
    <2>1. \A j \in Jobs : Begun(j) => Begun(j)'
      BY <1>0, <1>1, BegunStays DEF OInv
    <2>2. TransfersBegun'
      BY <1>1, <2>1 DEF OInv, BInv, SInv, StageOutTypeOK, TransfersBegun, JobOrNone
    <2>3. ASSUME NEW v \in Pollers
          PROVE  PollerReady(v)'
      <3>1. CASE poll'[v] = Resting
        BY <3>1 DEF PollerReady, PollAt, Resting
      <3>2. CASE poll'[v] = poll[v]
        BY <1>0, <1>1, <2>1, <3>2, ReadyStays
      <3> QED
        BY <1>1, <3>1, <3>2
    <2> QED
      BY <1>0, <1>1, <2>2, <2>3 DEF OInv, XferShape, StageOutStartedOncePerThread
  <1>2. ASSUME Polling, UNCHANGED vars
        PROVE  OInv'
    <2>1. \A j \in Jobs : Begun(j) => Begun(j)'
      BY <1>0, <1>2, BegunStays, StartedStays DEF OInv, BInv
    <2>2. ASSUME NEW t \in Transfers, TransferEnds(t)
          PROVE  OInv'
      <3>1. \A v \in Pollers : PollerReady(v)'
        BY <1>0, <2>1, <2>2, ReadyStays DEF TransferEnds
      <3> QED
        BY <1>0, <2>1, <2>2, <3>1
        DEF TransferEnds, OInv, BInv, SInv, StageOutTypeOK, XferShape, TransfersBegun, JobOrNone,
            StageOutStartedOncePerThread
    <2>3. ASSUME NEW v \in Pollers, PollContinue(v) \/ \E k \in Keys : PollLookup(v, k)
          PROVE  OInv'
      <3> DEFINE Requests == XferShape /\ TransfersBegun /\ StageOutStartedOncePerThread
      <3>0. \A u \in Pollers \ {v} : poll'[u] = poll[u]
        <4>1. SInv /\ StageOutTypeOK
          BY DEF OInv, BInv, SInv
        <4>2. \A u \in Transfers : Accepted(u) => Accepted(u)'
          BY <1>2, <4>1, AcceptedStays
        <4> QED
          BY <2>3, <4>1, <4>2, PollerStep
      <3>1. ASSUME UNCHANGED <<xfer, xferOf, startedBy>>
            PROVE  Requests'
        BY <2>1, <3>1 DEF OInv, BInv, SInv, StageOutTypeOK, XferShape, TransfersBegun, JobOrNone,
           StageOutStartedOncePerThread
      <3>2. ASSUME UNCHANGED <<xferOf, startedBy>>, PollerReady(v)'
            PROVE  \A u \in Pollers : PollerReady(u)'
        <4>1. ASSUME NEW u \in Pollers, u # v
              PROVE  PollerReady(u)'
          BY <1>0, <2>1, <3>0, <3>2, <4>1, ReadyStays
        <4> QED
          BY <3>2, <4>1
      <3>3. ASSUME NEW t \in Transfers, StartTransfer(v, t, poll[v].st), PollAt(v, "start"),
                   poll'[v].at \notin {"setStarting", "start"}
            PROVE  Requests' /\ \A u \in Pollers : PollerReady(u)'
        <4>1. PICK j \in Jobs : poll[v].st = j
          BY <3>3 DEF OInv, BInv, SInv, PollShape, Engaged, PollAt
        <4>2. Begun(j) /\ NotAsked(v, j)
          BY <3>3, <4>1 DEF OInv, PollerReady
        <4>3. /\ xfer' = [xfer EXCEPT ![t] = "active"]
              /\ xferOf' = [xferOf EXCEPT ![t] = j]
              /\ startedBy' = [startedBy EXCEPT ![t] = v]
          BY <3>3, <4>1 DEF StartTransfer
        <4>4. /\ xferOf \in [Transfers -> JobOrNone] /\ startedBy \in [Transfers -> Pollers \cup {NoPoller}]
              /\ xfer \in [Transfers -> {"none", "active", "succeeded", "failed"}]
          BY DEF OInv, BInv, SInv, StageOutTypeOK
        <4>5. StageOutStartedOncePerThread'
          BY <4>2, <4>3, <4>4 DEF OInv, StageOutStartedOncePerThread, NotAsked
        <4>6. XferShape' /\ TransfersBegun'
          BY <2>1, <4>2, <4>3, <4>4 DEF OInv, XferShape, TransfersBegun, JobOrNone
        <4>7. ASSUME NEW u \in Pollers
              PROVE  PollerReady(u)'
          <5>1. CASE u = v
            BY <3>3, <5>1 DEF PollerReady, PollAt
          <5>2. CASE u # v
            <6>1. \A i \in Transfers : UNCHANGED <<xferOf[i], startedBy[i]>> \/ startedBy'[i] # u
              BY <4>3, <4>4, <5>2
            <6> QED
              BY <1>0, <2>1, <3>0, <5>2, <6>1, ReadyStays
          <5> QED
            BY <5>1, <5>2
        <4> QED
          BY <4>5, <4>6, <4>7
      <3>4. ASSUME UNCHANGED <<xfer, xferOf, startedBy>>, PollerReady(v)'
            PROVE  OInv'
        BY <1>0, <3>1, <3>2, <3>4 DEF OInv
      <3>5. ASSUME poll'[v].at \notin {"setStarting", "start"}
            PROVE  PollerReady(v)'
        BY <3>5 DEF PollerReady, PollAt
      <3>6. CASE \E k \in Keys : PollLookup(v, k)
        BY <3>4, <3>5, <3>6 DEF PollLookup, OInv, BInv, SInv, StageOutTypeOK
      <3>7. CASE PollJobDone(v) \/ PollJobNotDone(v) \/ PollStaging(v)
        BY <3>4, <3>5, <3>7
        DEF PollJobDone, PollJobNotDone, PollStaging, PollGoto, PollTo, PollEnd, Resting,
            OInv, BInv, SInv, StageOutTypeOK
      <3>8. CASE PollSnapshot(v)
        <4> DEFINE j == stagingMap[poll[v].key]
        <4>1. /\ poll[v].key \in Keys /\ j \in JobOrNone
              /\ UNCHANGED <<xfer, xferOf, startedBy>>
          BY <3>8 DEF PollSnapshot, OInv, BInv, SInv, LInv, TypeOK, PollShape, PollAt
        <4>2. CASE SnapshotStatus(j) = "notStarted"
          <5>1. j \in Jobs /\ out[j] = "notStarted"
            BY <4>1, <4>2, SnapshotOfEntry
          <5>2. Past(j) /\ KeyOf[owner[j]] = poll[v].key
            BY <4>1, <5>1, StagedIsPast, PodLifecycleAssumption DEF OInv
          <5>3. NotAsked(v, j)
            BY <4>1, <5>1, PodLifecycleAssumption
            DEF OInv, TransfersBegun, Begun, NotAsked
          <5>4. poll'[v].at = "setStarting" /\ poll'[v].st = j /\ poll'[v].key = poll[v].key
            BY <3>8, <4>2 DEF PollSnapshot, PollTo, OInv, BInv, SInv, StageOutTypeOK
          <5>5. PollerReady(v)'
            BY <1>2, <4>1, <5>2, <5>3, <5>4
            DEF vars, PollerReady, PollAt, Past, Submitted, NotAsked
          <5> QED
            BY <3>4, <4>1, <5>5
        <4>3. CASE SnapshotStatus(j) # "notStarted"
          <5>1. poll'[v].at \notin {"setStarting", "start"}
            BY <3>8, <4>3
            DEF PollSnapshot, PollTo, PollEnd, Resting, OInv, BInv, SInv, StageOutTypeOK
          <5> QED
            BY <3>4, <3>5, <4>1, <5>1
        <4> QED
          BY <4>2, <4>3
      <3>9. CASE PollSetStarting(v)
        <4>1. PICK j \in Jobs : poll[v].st = j
          BY <3>9 DEF PollSetStarting, OInv, BInv, SInv, PollShape, Engaged, PollAt
        <4>2. /\ Past(j) /\ NotAsked(v, j) /\ KeyOf[owner[j]] = poll[v].key
              /\ poll[v].key \in Keys
          BY <3>9, <4>1 DEF PollSetStarting, OInv, PollerReady, BInv, SInv, PollShape, PollAt
        <4>3. out'[j] # "notStarted" \/ \A k \in Keys : stagingMap[k] # j
          <5> SUFFICES ASSUME NEW k \in Keys, stagingMap[k] = j
                       PROVE  out'[j] = "starting"
            OBVIOUS
          <5>1. k = poll[v].key
            BY <4>2, StagedIsPast, PodLifecycleAssumption DEF OInv
          <5> QED
            BY <3>9, <5>1, StageOutAssumption, PodLifecycleAssumption
            DEF PollSetStarting, setStageOutStatus, OInv, BInv, SInv, StageOutTypeOK
        <4>4. Begun(j)' /\ NotAsked(v, j)'
          BY <1>2, <3>9, <4>2, <4>3
          DEF PollSetStarting, vars, Begun, Past, Submitted, NotAsked
        <4>5. poll'[v].st = j /\ poll'[v].at # "setStarting"
          BY <3>9, <4>1 DEF PollSetStarting, PollGoto, PollTo, OInv, BInv, SInv, StageOutTypeOK
        <4>6. PollerReady(v)'
          BY <4>4, <4>5 DEF PollerReady, PollAt
        <4> QED
          BY <3>4, <3>9, <4>6 DEF PollSetStarting
      <3>10. CASE PollStart(v) \/ PollStartFails(v)
        <4>1. poll'[v].at \notin {"setStarting", "start"} /\ PollAt(v, "start")
          BY <3>10
          DEF PollStart, PollStartFails, PollTo, PollEnd, Resting, OInv, BInv, SInv, StageOutTypeOK
        <4>2. \/ \E t \in Transfers : StartTransfer(v, t, poll[v].st)
              \/ UNCHANGED <<xfer, xferOf, startedBy>>
          BY <3>10 DEF PollStart, PollStartFails
        <4>3. CASE \E t \in Transfers : StartTransfer(v, t, poll[v].st)
          BY <1>0, <3>3, <4>1, <4>3 DEF OInv
        <4> QED
          BY <3>4, <3>5, <4>1, <4>2, <4>3
      <3>11. CASE PollCheck(v) \/ PollCheckFails(v) \/ PollDownload(v) \/ PollDownloadFails(v)
        BY <3>4, <3>5, <3>11
        DEF PollCheck, PollCheckFails, PollDownload, PollDownloadFails, PollEnd, Resting,
            OInv, BInv, SInv, StageOutTypeOK
      <3> QED
        BY <2>3, <3>6, <3>7, <3>8, <3>9, <3>10, <3>11 DEF PollContinue
    <2> QED
      BY <1>2, <2>2, <2>3 DEF Polling
  <1>3. CASE UNCHANGED stageVars
    BY <1>1, <1>3 DEF stageVars
  <1>4. CASE StageOutRestart
    BY <1>1, <1>4 DEF StageOutRestart
  <1> QED
    BY <1>2, <1>3, <1>4 DEF StageOutNext, allVars

\* However many threads ask for pod status, each requests the transfer of a
\* job's output at most once, even when pods share a name, calls fail with
\* their effect done, and the provider restarts (staging.go:307-340).
THEOREM EachThreadStartsOnce == StageOutSpec => []StageOutStartedOncePerThread
  <1>1. OInv /\ [StageOutNext]_allVars => OInv'
    BY OInvNext
  <1>2. OInv => StageOutStartedOncePerThread
    BY DEF OInv
  <1> QED
    BY OInvInit, <1>1, <1>2, PTL DEF StageOutSpec

-----------------------------------------------------------------------------
(* What is delivered, and when.  With one worker and a name for each pod,  *)
(* the job a poller looked up stays the last of its pod, so that the       *)
(* staging entry it reads later is that job's or none; any number of       *)
(* pollers may run.                                                        *)

JobCompleted(j) == Submitted(j) /\ GetJobStatus(j) = "completed"

\* What a poller has found out by the time it stands where it stands.
PollerKnows(v) ==
  LET j == poll[v].job
  IN /\ ~PollAt(v, "idle") => LastJob(j) /\ KeyOf[owner[j]] = poll[v].key
     /\ poll[v].at \notin {"idle", "status"} => JobCompleted(j)
     /\ Engaged(v) => poll[v].st = j
     /\ PollAt(v, "start") => owner[j] \notin SfapiPods
     /\ PollAt(v, "check") => xferOf[poll[v].tid] = j

\* What a recorded status stands for.
StatusMeans(j) ==
  /\ out[j] = "running" => owner[j] \notin SfapiPods /\ xferOf[outID[j]] = j
  /\ out[j] = "succeeded" => Delivered(j)
  /\ out[j] # "notStarted" => Submitted(j)

OutputOfCompleted ==
  \A j \in Jobs :
    j \in downloaded \/ (\E t \in Transfers : xferOf[t] = j) => JobCompleted(j)

\* A job reported Succeeded has delivered its output, or is forgotten.
CompleteSettled ==
  \A j \in complete :
    /\ Past(j)
    /\ hasStageOut(j) => Delivered(j) \/ \A k \in Keys : podMap[k] # j

\* The inductive invariant.
PInv ==
  /\ BInv /\ EInv
  /\ \A v \in Pollers : PollerKnows(v)
  /\ \A j \in Jobs : StatusMeans(j)
  /\ OutputOfCompleted
  /\ CompleteSettled

-----------------------------------------------------------------------------
(* What holds of a job for good.                                           *)

\* A job that has completed is past cancelling and past any other end.
LEMMA CompletionStays ==
  ASSUME IInv, [Next]_vars, NEW j \in Jobs, JobCompleted(j)
  PROVE  JobCompleted(j)'
  <1> USE DEF JobCompleted, Submitted, GetJobStatus, computeJobStatus
  <1>0. JobsTypeOK
    BY DEF IInv, LInv, TypeOK
  <1>1. /\ owner[j] # NoPod /\ task[j] \in {"direct", "completed"}
        /\ slurm[j] = "completed"
    BY <1>0 DEF JobsTypeOK, SlurmStates
  <1>2. ASSUME NEW w \in Workers, SubmitAccepted(w) \/ SubmitReplyLost(w)
        PROVE  JobCompleted(j)'
    <2>1. PICK i \in Jobs : SubmitJob(i, worker[w].pod)
      BY <1>2, Submission
    <2>2. i # j
      BY <1>1, <2>1 DEF SubmitJob
    <2> QED
      BY <1>0, <1>1, <2>1, <2>2 DEF SubmitJob, JobsTypeOK
  <1>3. ASSUME NEW i \in Jobs, CancelJob(i)
        PROVE  JobCompleted(j)'
    BY <1>0, <1>1, <1>3 DEF CancelJob, cancelTask, cancelComputeJob, JobsTypeOK
  <1>4. ASSUME NEW i \in Jobs, ServiceAdvances(i)
        PROVE  JobCompleted(j)'
    BY <1>0, <1>1, <1>4
    DEF ServiceAdvances, JobAdvances, TaskFinishes, JobStarts, JobEnds, JobsTypeOK
  <1>5. CASE UNCHANGED <<owner, task, slurm>>
    BY <1>1, <1>5
  <1>6. ASSUME NEW w \in Workers, DuplicateStep(w) \/ CancelStep(w)
        PROVE  JobCompleted(j)'
    BY <1>3, <1>5, <1>6, Cancellation
  <1> QED
    BY <1>2, <1>4, <1>5, <1>6, JobWriters

\* The last job of its pod is in nobody's hands any longer.
LEMMA LastIsPast ==
  ASSUME BInv, EInv, NEW j \in Jobs, LastJob(j)
  PROVE  Past(j)
  <1> SUFFICES ASSUME NEW w \in Workers, worker[w].at \in Creating, worker[w].job = j
               PROVE  FALSE
    BY DEF Past, LastJob
  <1>1. worker[w].at = "store" /\ owner[j] = worker[w].pod
    BY DEF Creating, EInv, DInv, FreeKey, At, IInv, CreatorOwn
  <1>2. podMap[KeyOf[owner[j]]] = NoJob
    BY <1>1, PodLifecycleAssumption DEF EInv, DInv, FreeKey, Tracked
  <1> QED
    BY <1>1, <1>2, PodLifecycleAssumption DEF LastJob

\* A staging entry found under the key of a pod's last job is that job's.
LEMMA EntryOfLast ==
  ASSUME BInv, NEW j \in Jobs, LastJob(j), stagingMap[KeyOf[owner[j]]] # NoJob
  PROVE  stagingMap[KeyOf[owner[j]]] = j
  <1>1. KeyOf[owner[j]] \in Keys
    BY PodLifecycleAssumption
    DEF LastJob, Submitted, BInv, SInv, LInv, TypeOK, JobsTypeOK
  <1> QED
    BY <1>1 DEF LastJob, BInv, StagingFollowsTracking

\* podMap gains no job that is past its CreatePod call.
LEMMA ForgottenStays ==
  ASSUME BInv, [Next]_vars, NEW j \in Jobs, Past(j), \A k \in Keys : podMap[k] # j
  PROVE  \A k \in Keys : podMap'[k] # j
  <1> SUFFICES ASSUME NEW k \in Keys PROVE podMap'[k] # j
    OBVIOUS
  <1>0. NoJob # j /\ podMap \in [Keys -> JobOrNone]
    BY PodLifecycleAssumption DEF BInv, SInv, LInv, TypeOK
  <1>1. ASSUME NEW w \in Workers, CreateStore(w)
        PROVE  podMap'[k] # j
    BY <1>0, <1>1 DEF CreateStore, At, Past, Creating
  <1>2. ASSUME NEW w \in Workers, DeleteUntrack(w) \/ DeleteDropStaging(w)
        PROVE  podMap'[k] # j
    BY <1>0, <1>2 DEF DeleteUntrack, DeleteDropStaging, mapVars
  <1>3. CASE Restart
    BY <1>0, <1>3 DEF Restart
  <1> QED
    BY <1>1, <1>2, <1>3, MapWriters

\* An accepted transfer keeps the job it is for, and its success; a written
\* file stays written.
LEMMA TransferKept ==
  ASSUME SInv, [StageOutNext]_allVars
  PROVE  /\ \A t \in Transfers : xfer[t] # "none" => xferOf'[t] = xferOf[t]
         /\ \A t \in Transfers : xfer[t] = "succeeded" => xfer'[t] = "succeeded"
         /\ downloaded \subseteq downloaded'
  <1> USE DEF SInv, StageOutTypeOK
  <1> DEFINE Goal == /\ \A t \in Transfers : xfer[t] # "none" => xferOf'[t] = xferOf[t]
                     /\ \A t \in Transfers : xfer[t] = "succeeded" => xfer'[t] = "succeeded"
                     /\ downloaded \subseteq downloaded'
  <1>1. CASE UNCHANGED <<xfer, xferOf, downloaded>>
    BY <1>1
  <1>2. ASSUME NEW v \in Pollers, PollContinue(v) \/ \E k \in Keys : PollLookup(v, k)
        PROVE  Goal
    <2>1. CASE PollStart(v) \/ PollStartFails(v)
      BY <2>1 DEF PollStart, PollStartFails, StartTransfer
    <2>2. CASE PollDownload(v)
      BY <2>2 DEF PollDownload
    <2> QED
      BY <1>1, <1>2, <2>1, <2>2
      DEF PollContinue, PollLookup, PollJobDone, PollJobNotDone, PollStaging, PollSnapshot,
          PollSetStarting, PollCheck, PollCheckFails, PollDownloadFails
  <1>3. ASSUME NEW t \in Transfers, TransferEnds(t)
        PROVE  Goal
    BY <1>3 DEF TransferEnds
  <1> QED
    BY <1>1, <1>2, <1>3 DEF StageOutNext, Polling, StageOutRestart, allVars, stageVars

LEMMA DeliveredStays ==
  ASSUME SInv, [StageOutNext]_allVars, NEW j \in Jobs, Delivered(j)
  PROVE  Delivered(j)'
  BY TransferKept DEF Delivered

LEMMA PInvInit == StageOutInit => PInv
  <1> SUFFICES ASSUME StageOutInit PROVE PInv
    OBVIOUS
  <1>1. OInv /\ EInv
    BY OInvInit, EInvInit DEF StageOutInit
  <1> QED
    BY <1>1, PodLifecycleAssumption
    DEF OInv, StageOutInit, PInv, PollerKnows, PollAt, Engaged, Resting, StatusMeans, OutputOfCompleted,
        CompleteSettled

\* Transfers and files come only from pollers that know the job completed.
LEMMA OutputStays ==
  ASSUME PInv, [StageOutNext]_allVars, UNCHANGED <<xferOf, downloaded>>
  PROVE  OutputOfCompleted'
  <1>1. IInv /\ [Next]_vars
    BY BInvNext DEF PInv, BInv, CInv
  <1> QED
    BY <1>1, CompletionStays DEF PInv, OutputOfCompleted

LEMMA StatusStays ==
  ASSUME PInv, [StageOutNext]_allVars, NEW j \in Jobs, out'[j] = out[j], outID'[j] = outID[j]
  PROVE  StatusMeans(j)'
  <1>1. SInv /\ IInv /\ [Next]_vars /\ StatusMeans(j)
    BY BInvNext DEF PInv, BInv, CInv
  <1>2. out[j] # "notStarted" => owner'[j] = owner[j]
    BY <1>1, OwnersStay DEF StatusMeans
  <1>3. out[j] = "running" => xferOf'[outID[j]] = j
    BY <1>1, TransferKept DEF StatusMeans, SInv, RunningHasID, Accepted
  <1>4. out[j] = "succeeded" => Delivered(j)'
    BY <1>1, DeliveredStays DEF StatusMeans
  <1> QED
    BY <1>1, <1>2, <1>3, <1>4 DEF StatusMeans, Submitted

LEMMA SettledStays ==
  ASSUME PInv, [StageOutNext]_allVars, NEW j \in complete, complete \subseteq Jobs
  PROVE  /\ Past(j)'
         /\ hasStageOut(j)' => Delivered(j)' \/ \A k \in Keys : podMap'[k] # j
  <1>1. SInv /\ BInv /\ [Next]_vars /\ j \in Jobs /\ Past(j)
    BY BInvNext DEF PInv, BInv, CompleteSettled
  <1>2. Past(j)' /\ owner'[j] = owner[j]
    BY <1>1, PastStays
  <1>3. Delivered(j) => Delivered(j)'
    BY <1>1, DeliveredStays
  <1>4. (\A k \in Keys : podMap[k] # j) => \A k \in Keys : podMap'[k] # j
    BY <1>1, ForgottenStays
  <1> QED
    BY <1>2, <1>3, <1>4 DEF PInv, CompleteSettled, hasStageOut

LEMMA CompleteStays ==
  ASSUME PInv, [StageOutNext]_allVars, UNCHANGED complete
  PROVE  CompleteSettled'
  BY SettledStays DEF PInv, BInv, SInv, StageOutTypeOK, CompleteSettled

\* As long as the process runs, a waiting poller's knowledge stays true.
LEMMA KnowledgeStays ==
  ASSUME OneWorker, OwnNames, PInv, [StageOutNext]_allVars, Running \/ UNCHANGED vars,
         NEW v \in Pollers, poll'[v] = poll[v]
  PROVE  PollerKnows(v)'
  <1> DEFINE j == poll[v].job
  <1> SUFFICES ASSUME ~PollAt(v, "idle")
               PROVE  PollerKnows(v)'
    BY DEF PollerKnows, PollAt, Engaged
  <1>1. SInv /\ EInv /\ IInv /\ PollerKnows(v) /\ PollShape(v)
    BY DEF PInv, BInv, SInv, CInv
  <1>2. j \in Jobs /\ LastJob(j)
    BY <1>1 DEF PollShape, PollerKnows
  <1>3. LastJob(j)'
    BY <1>1, <1>2, LastJobStays
  <1>4. [Next]_vars /\ Submitted(j)
    BY <1>2 DEF Next, LastJob
  <1>5. owner'[j] = owner[j] /\ (JobCompleted(j) => JobCompleted(j)')
    BY <1>1, <1>2, <1>4, OwnersStay, CompletionStays
  <1>6. PollAt(v, "check") => xferOf'[poll[v].tid] = xferOf[poll[v].tid]
    BY <1>1, TransferKept DEF PollShape, Accepted
  <1> QED
    BY <1>1, <1>3, <1>5, <1>6 DEF PollerKnows, PollAt, Engaged

\* An engaged poller writes to the entry of the job it looked up, or nowhere.
LEMMA WriteMeans ==
  ASSUME PInv, [StageOutNext]_allVars, UNCHANGED vars, NEW v \in Pollers, Engaged(v),
         NEW j \in Jobs, poll[v].job = j,
         NEW s \in Statuses, NEW t \in Transfers \cup {NoTransfer},
         setStageOutStatus(poll[v].key, s, t),
         s = "running" => /\ t # NoTransfer /\ owner[j] \notin SfapiPods
                          /\ xferOf'[t] = j,
         s = "succeeded" => Delivered(j)'
  PROVE  \A i \in Jobs : StatusMeans(i)'
  <1>1. /\ BInv /\ PollerKnows(v) /\ j \in Jobs /\ LastJob(j) /\ KeyOf[owner[j]] = poll[v].key
        /\ out \in [Jobs -> Statuses] /\ outID \in [Jobs -> Transfers \cup {NoTransfer}]
    BY DEF PInv, BInv, SInv, PollShape, PollerKnows, PollAt, Engaged, StageOutTypeOK
  <1>2. stagingMap[poll[v].key] \in {NoJob, j}
    BY <1>1, EntryOfLast
  <1>3. CASE stagingMap[poll[v].key] = NoJob
    BY <1>3, StatusStays DEF setStageOutStatus
  <1>4. CASE stagingMap[poll[v].key] = j
    <2>1. /\ out' = [out EXCEPT ![j] = s]
          /\ outID' = [outID EXCEPT ![j] = IF t = NoTransfer THEN @ ELSE t]
      BY <1>1, <1>4, PodLifecycleAssumption DEF setStageOutStatus
    <2>2. \A i \in Jobs : i # j => out'[i] = out[i] /\ outID'[i] = outID[i]
      BY <1>1, <2>1
    <2>3. out'[j] = s /\ (s = "running" => outID'[j] = t)
      BY <1>1, <2>1
    <2>4. owner' = owner /\ Submitted(j)
      BY <1>1 DEF vars, LastJob
    <2>5. StatusMeans(j)'
      BY <2>3, <2>4 DEF StatusMeans, Submitted
    <2> QED
      BY <2>2, <2>5, StatusStays
  <1> QED
    BY <1>2, <1>3, <1>4

\* A poller that reports success has delivered the output or found the job
\* forgotten.
LEMMA ReportSettles ==
  ASSUME PInv, [StageOutNext]_allVars, UNCHANGED vars, NEW v \in Pollers, ~PollAt(v, "idle"),
         NEW j \in Jobs, poll[v].job = j, ReportComplete(v),
         hasStageOut(j) =>
           \/ Delivered(j)'
           \/ ~hasStageOut(stagingMap[poll[v].key])
  PROVE  CompleteSettled'
  <1>1. /\ BInv /\ EInv /\ j \in Jobs /\ LastJob(j) /\ KeyOf[owner[j]] = poll[v].key
        /\ poll[v].key \in Keys /\ complete \subseteq Jobs
    BY DEF PInv, BInv, SInv, PollShape, PollerKnows, StageOutTypeOK
  <1>2. Past(j)'
    BY <1>1, LastIsPast, PastStays DEF Next
  <1>3. ASSUME hasStageOut(j), ~hasStageOut(stagingMap[poll[v].key]), NEW k \in Keys, podMap[k] = j
        PROVE  FALSE
    <2>1. j # NoJob /\ k = poll[v].key
      BY <1>1, <1>3, PodLifecycleAssumption
      DEF EInv, DInv, IInv, TrackedOwn, Tracked
    <2>2. stagingMap[k] = j
      BY <1>1, <1>3, <2>1 DEF EInv, DInv, StagingKept, Tracked, StagingPods, hasStageOut
    <2> QED
      BY <1>3, <2>1, <2>2
  <1>4. hasStageOut(j)' => Delivered(j)' \/ \A k \in Keys : podMap'[k] # j
    BY <1>3 DEF hasStageOut, vars
  <1> QED
    BY <1>1, <1>2, <1>4, SettledStays DEF ReportComplete, CompleteSettled

LEMMA PInvContinue ==
  ASSUME OneWorker, OwnNames, PInv, NEW v \in Pollers, PollContinue(v), UNCHANGED vars
  PROVE  /\ PollerKnows(v)'
         /\ \A u \in Pollers \ {v} : poll'[u] = poll[u]
         /\ \A i \in Jobs : StatusMeans(i)'
         /\ OutputOfCompleted'
         /\ CompleteSettled'
  <1> DEFINE Goal == /\ PollerKnows(v)'
                     /\ \A i \in Jobs : StatusMeans(i)'
                     /\ OutputOfCompleted'
                     /\ CompleteSettled'
  <1>1. [StageOutNext]_allVars /\ Polling
    BY DEF StageOutNext, Polling
  <1>2. /\ SInv /\ BInv /\ EInv /\ PollerKnows(v) /\ PollShape(v) /\ StageOutTypeOK
        /\ ~PollAt(v, "idle")
    BY DEF PInv, BInv, SInv, PollContinue, PollAt, PollJobDone, PollJobNotDone, PollStaging,
       PollSnapshot, PollSetStarting, PollStart, PollStartFails, PollCheck, PollCheckFails,
       PollDownload, PollDownloadFails
  <1>3. \A u \in Transfers : Accepted(u) => Accepted(u)'
    BY <1>1, <1>2, AcceptedStays
  <1>4. \A u \in Pollers \ {v} : poll'[u] = poll[u]
    BY <1>2, <1>3, PollerStep
  <1>5. PICK j \in Jobs : poll[v].job = j
    BY <1>2 DEF PollShape
  <1>6. PICK k \in Keys : poll[v].key = k
    BY <1>2 DEF PollShape
  <1>7. LastJob(j) /\ KeyOf[owner[j]] = k /\ LastJob(j)'
    BY <1>2, <1>5, <1>6, LastJobStays DEF PollerKnows
  <1>8. stagingMap[k] # NoJob => stagingMap[k] = j
    BY <1>2, <1>7, EntryOfLast
  <1>9. JobCompleted(j)' <=> JobCompleted(j)
    BY DEF vars, JobCompleted, Submitted, GetJobStatus, computeJobStatus
  <1>10. ASSUME PollEnd(v)
         PROVE  PollerKnows(v)'
    BY <1>2, <1>10 DEF PollEnd, Resting, PollerKnows, PollAt, Engaged, StageOutTypeOK
  <1>11. ASSUME NEW l \in PollLabels, NEW s, NEW t, PollTo(v, l, s, t),
                l # "status" => JobCompleted(j),
                l \in {"setStarting", "start", "download", "check"} => s = j,
                l = "start" => owner[j] \notin SfapiPods,
                l = "check" => xferOf'[t] = j
         PROVE  PollerKnows(v)'
    <2>1. poll'[v] = [at |-> l, key |-> k, job |-> j, st |-> s, tid |-> t]
      BY <1>2, <1>5, <1>6, <1>11 DEF PollTo, StageOutTypeOK
    <2> QED
      BY <1>7, <1>9, <1>11, <2>1 DEF PollerKnows, PollAt, Engaged, vars
  <1>12. ASSUME UNCHANGED <<out, outID>>
         PROVE  \A i \in Jobs : StatusMeans(i)'
    BY <1>1, <1>12, StatusStays
  <1>13. ASSUME UNCHANGED <<xferOf, downloaded>>
         PROVE  OutputOfCompleted'
    BY <1>1, <1>13, OutputStays
  <1>14. ASSUME UNCHANGED complete
         PROVE  CompleteSettled'
    BY <1>1, <1>14, CompleteStays
  <1>15. ASSUME NEW t \in Transfers, StartTransfer(v, t, j), JobCompleted(j), UNCHANGED downloaded
         PROVE  OutputOfCompleted' /\ xferOf'[t] = j
    <2>1. xferOf'[t] = j /\ \A u \in Transfers \ {t} : xferOf'[u] = xferOf[u]
      BY <1>2, <1>15 DEF StartTransfer, StageOutTypeOK
    <2>2. \A i \in Jobs : JobCompleted(i)' <=> JobCompleted(i)
      BY DEF vars, JobCompleted, Submitted, GetJobStatus, computeJobStatus
    <2> QED
      BY <1>15, <2>1, <2>2 DEF PInv, OutputOfCompleted
  <1>16. CASE PollJobDone(v)
    <2>1. JobCompleted(j) /\ PollTo(v, "staging", poll[v].st, poll[v].tid)
      BY <1>5, <1>7, <1>16 DEF PollJobDone, PollGoto, JobCompleted, LastJob
    <2> QED
      BY <1>4, <1>11, <1>12, <1>13, <1>14, <1>16, <2>1 DEF PollJobDone, PollLabels
  <1>17. CASE PollJobNotDone(v)
    BY <1>4, <1>10, <1>12, <1>13, <1>14, <1>17 DEF PollJobNotDone
  <1>18. ASSUME ReportComplete(v), hasStageOut(j) => Delivered(j)' \/ ~hasStageOut(stagingMap[k])
         PROVE  CompleteSettled'
    BY <1>1, <1>2, <1>5, <1>6, <1>18, ReportSettles
  <1>19. CASE PollStaging(v)
    <2>1. JobCompleted(j) /\ UNCHANGED <<out, outID, xferOf, downloaded>>
      BY <1>2, <1>5, <1>19 DEF PollStaging, PollerKnows, PollAt
    <2>2. CASE hasStageOut(stagingMap[k])
      <3>1. PollTo(v, "snapshot", poll[v].st, poll[v].tid) /\ UNCHANGED complete
        BY <1>6, <1>19, <2>2 DEF PollStaging, PollGoto
      <3> QED
        BY <1>4, <1>11, <1>12, <1>13, <1>14, <2>1, <3>1 DEF PollLabels
    <2>3. CASE ~hasStageOut(stagingMap[k])
      <3>1. PollEnd(v) /\ ReportComplete(v)
        BY <1>6, <1>19, <2>3 DEF PollStaging
      <3> QED
        BY <1>4, <1>10, <1>12, <1>13, <1>18, <2>1, <2>3, <3>1
    <2> QED
      BY <2>2, <2>3
  <1>20. CASE PollSnapshot(v)
    <2> DEFINE i == stagingMap[k]
               status == SnapshotStatus(i)
               done == status = "succeeded" \/ (status = "running" /\ owner[i] \in SfapiPods)
    <2>1. /\ JobCompleted(j) /\ UNCHANGED <<out, outID, xferOf, downloaded>>
          /\ i \in JobOrNone
      BY <1>2, <1>5, <1>20 DEF PollSnapshot, PollerKnows, PollAt, SInv, LInv, TypeOK
    <2>2. /\ IF ~done /\ status \in {"notStarted", "running"}
             THEN PollTo(v, IF status = "notStarted" THEN "setStarting" ELSE "check", i, outID[i])
             ELSE PollEnd(v)
          /\ IF done THEN ReportComplete(v) ELSE UNCHANGED complete
      BY <1>6, <1>20 DEF PollSnapshot
    <2>3. ASSUME status \in {"notStarted", "running"}
          PROVE  i = j /\ status = out[j]
      BY <1>8, <2>1, <2>3, SnapshotOfEntry, PodLifecycleAssumption
    <2>4. status = "running" => owner[i] \notin SfapiPods /\ xferOf[outID[i]] = j
      BY <2>3 DEF PInv, StatusMeans
    <2>5. CASE done
      <3>1. hasStageOut(i) => i = j /\ out[j] = "succeeded"
        BY <1>8, <2>4, <2>5 DEF SnapshotStatus, hasStageOut
      <3>2. out[j] = "succeeded" => Delivered(j)'
        BY <1>1, <1>2, DeliveredStays DEF PInv, StatusMeans
      <3> QED
        BY <1>4, <1>10, <1>12, <1>13, <1>18, <2>1, <2>2, <2>5, <3>1, <3>2
    <2>6. CASE ~done /\ status \in {"notStarted", "running"}
      <3>1. i = j /\ PollTo(v, IF status = "notStarted" THEN "setStarting" ELSE "check", i, outID[i])
        BY <2>2, <2>3, <2>6
      <3>2. PollerKnows(v)'
        BY <1>11, <2>1, <2>4, <2>6, <3>1 DEF PollLabels
      <3> QED
        BY <1>4, <1>12, <1>13, <1>14, <2>1, <2>2, <2>6, <3>2
    <2>7. CASE ~done /\ status \notin {"notStarted", "running"}
      BY <1>4, <1>10, <1>12, <1>13, <1>14, <2>1, <2>2, <2>7
    <2> QED
      BY <2>5, <2>6, <2>7
  <1>21. ASSUME Engaged(v), NEW s \in Statuses, NEW t \in Transfers \cup {NoTransfer},
                setStageOutStatus(k, s, t),
                s = "running" => /\ t # NoTransfer /\ owner[j] \notin SfapiPods
                                 /\ xferOf'[t] = j,
                s = "succeeded" => Delivered(j)'
         PROVE  \A i \in Jobs : StatusMeans(i)'
    BY <1>1, <1>5, <1>6, <1>21, WriteMeans
  <1>22. ASSUME Engaged(v)
         PROVE  poll[v].st = j /\ JobCompleted(j)
    BY <1>2, <1>5, <1>22 DEF PollerKnows, Engaged
  <1> USE DEF Statuses, PollLabels
  <1>23. CASE PollSetStarting(v)
    <2>1. /\ Engaged(v) /\ setStageOutStatus(k, "starting", NoTransfer)
          /\ PollTo(v, IF owner[j] \in SfapiPods THEN "download" ELSE "start", j, poll[v].tid)
          /\ UNCHANGED <<xferOf, downloaded, complete>>
      BY <1>6, <1>22, <1>23 DEF PollSetStarting, PollGoto, Engaged, PollAt
    <2>2. PollerKnows(v)'
      BY <1>11, <1>22, <2>1
    <2> QED
      BY <1>4, <1>13, <1>14, <1>21, <2>1, <2>2
  <1>24. CASE PollStart(v)
    <2>1. Engaged(v) /\ owner[j] \notin SfapiPods
      BY <1>2, <1>5, <1>24 DEF PollStart, Engaged, PollAt, PollerKnows
    <2>2. PICK t \in Transfers :
            /\ StartTransfer(v, t, j) /\ setStageOutStatus(k, "running", t)
            /\ PollTo(v, "check", j, t) /\ UNCHANGED <<downloaded, complete>>
      BY <1>6, <1>22, <1>24, <2>1 DEF PollStart
    <2>3. OutputOfCompleted' /\ xferOf'[t] = j
      BY <1>15, <1>22, <2>1, <2>2
    <2>4. PollerKnows(v)'
      BY <1>11, <1>22, <2>1, <2>2, <2>3
    <2> QED
      BY <1>4, <1>14, <1>21, <2>1, <2>2, <2>3, <2>4, StageOutAssumption
  <1>25. CASE PollStartFails(v)
    <2>1. Engaged(v)
      BY <1>25 DEF PollStartFails, Engaged, PollAt
    <2>2. /\ \/ \E t \in Transfers : StartTransfer(v, t, j)
             \/ UNCHANGED xferOf
          /\ setStageOutStatus(k, "failed", NoTransfer)
          /\ PollEnd(v) /\ UNCHANGED <<downloaded, complete>>
      BY <1>6, <1>22, <1>25, <2>1 DEF PollStartFails
    <2>3. OutputOfCompleted'
      BY <1>13, <1>15, <1>22, <2>1, <2>2
    <2> QED
      BY <1>4, <1>10, <1>14, <1>21, <2>1, <2>2, <2>3
  <1>26. CASE PollCheck(v)
    <2> DEFINE t == poll[v].tid
    <2>1. /\ Engaged(v) /\ t \in Transfers /\ xfer[t] \in {"active", "succeeded", "failed"}
          /\ xferOf[t] = j
      BY <1>2, <1>5, <1>26
      DEF PollCheck, Engaged, PollAt, PollerKnows, PollShape, Accepted, StageOutTypeOK
    <2>2. /\ PollEnd(v) /\ UNCHANGED <<xfer, xferOf, downloaded>>
          /\ IF xfer[t] = "active" THEN UNCHANGED <<out, outID>>
             ELSE setStageOutStatus(k, xfer[t], t)
          /\ IF xfer[t] = "succeeded" THEN ReportComplete(v) ELSE UNCHANGED complete
      BY <1>6, <1>26 DEF PollCheck
    <2>3. PICK u \in Transfers : u = t
      BY <2>1
    <2>4. xfer[u] = "succeeded" => Delivered(j)'
      BY <2>1, <2>2, <2>3 DEF Delivered
    <2>5. \A i \in Jobs : StatusMeans(i)'
      BY <1>12, <1>21, <2>1, <2>2, <2>3, <2>4
    <2>6. CompleteSettled'
      BY <1>14, <1>18, <2>2, <2>3, <2>4
    <2> QED
      BY <1>4, <1>10, <1>13, <2>2, <2>5, <2>6
  <1>27. CASE PollCheckFails(v)
    <2>1. /\ Engaged(v) /\ setStageOutStatus(k, "failed", poll[v].tid) /\ PollEnd(v)
          /\ poll[v].tid \in Transfers /\ UNCHANGED <<xferOf, downloaded, complete>>
      BY <1>2, <1>6, <1>27 DEF PollCheckFails, Engaged, PollAt, PollShape, Accepted
    <2> QED
      BY <1>4, <1>10, <1>13, <1>14, <1>21, <2>1
  <1>28. CASE PollDownload(v)
    <2>1. Engaged(v)
      BY <1>28 DEF PollDownload, Engaged, PollAt
    <2>2. /\ downloaded' = downloaded \cup {j} /\ setStageOutStatus(k, "succeeded", NoTransfer)
          /\ PollEnd(v) /\ ReportComplete(v) /\ UNCHANGED <<xfer, xferOf>>
      BY <1>6, <1>22, <1>28, <2>1 DEF PollDownload
    <2>3. Delivered(j)'
      BY <2>2 DEF Delivered
    <2>4. OutputOfCompleted'
      <3>1. \A i \in Jobs : JobCompleted(i)' <=> JobCompleted(i)
        BY DEF vars, JobCompleted, Submitted, GetJobStatus, computeJobStatus
      <3> QED
        BY <1>22, <2>1, <2>2, <3>1 DEF PInv, OutputOfCompleted
    <2> QED
      BY <1>4, <1>10, <1>18, <1>21, <2>1, <2>2, <2>3, <2>4
  <1>29. CASE PollDownloadFails(v)
    <2>1. /\ Engaged(v) /\ setStageOutStatus(k, "failed", NoTransfer) /\ PollEnd(v)
          /\ UNCHANGED <<xferOf, downloaded, complete>>
      BY <1>6, <1>29 DEF PollDownloadFails, Engaged, PollAt
    <2> QED
      BY <1>4, <1>10, <1>13, <1>14, <1>21, <2>1
  <1> QED
    BY <1>16, <1>17, <1>19, <1>20, <1>23, <1>24, <1>25, <1>26, <1>27, <1>28, <1>29
    DEF PollContinue

LEMMA PInvNext ==
  ASSUME OneWorker, OwnNames, PInv, [StageOutNext]_allVars
  PROVE  PInv'
  <1>1. BInv' /\ EInv' /\ BInv /\ SInv /\ EInv
    BY BInvNext, EInvNext DEF PInv, BInv
  <1>2. ASSUME UNCHANGED <<out, outID, xferOf, downloaded, complete>>
        PROVE  (\A j \in Jobs : StatusMeans(j)') /\ OutputOfCompleted' /\ CompleteSettled'
    BY <1>2, StatusStays, OutputStays, CompleteStays
  <1>3. ASSUME UNCHANGED <<out, outID, xferOf, downloaded, poll, complete>>,
               Running \/ UNCHANGED vars
        PROVE  PInv'
    <2>1. \A v \in Pollers : PollerKnows(v)'
      BY <1>3, KnowledgeStays
    <2> QED
      BY <1>1, <1>2, <1>3, <2>1 DEF PInv
  <1>4. CASE StageOutRestart
    <2>1. \A v \in Pollers : PollerKnows(v)'
      BY <1>4 DEF StageOutRestart, Resting, PollerKnows, PollAt, Engaged
    <2> QED
      BY <1>1, <1>2, <1>4, <2>1 DEF PInv, StageOutRestart
  <1>5. ASSUME UNCHANGED vars, NEW v \in Pollers, NEW k \in Keys, PollLookup(v, k)
        PROVE  PInv'
    <2>1. /\ UNCHANGED <<out, outID, xferOf, downloaded, complete>>
          /\ \A u \in Pollers \ {v} : poll'[u] = poll[u]
          /\ poll'[v] = [at |-> "status", key |-> k, job |-> podMap[k], st |-> NoJob,
                         tid |-> NoTransfer]
          /\ Tracked(k)
      BY <1>1, <1>5 DEF PollLookup, SInv, StageOutTypeOK
    <2>2. LastJob(podMap[k]) /\ KeyOf[owner[podMap[k]]] = k
      BY <2>1 DEF PInv, EInv, DInv, IInv, TrackedOwn, LastJob
    <2>3. PollerKnows(v)'
      <3>1. PICK j : j = podMap[k]
        OBVIOUS
      <3>2. LastJob(j)' /\ KeyOf[owner'[j]] = k
        BY <1>5, <2>2, <3>1 DEF vars, LastJob, Submitted
      <3> QED
        BY <2>1, <3>1, <3>2 DEF PollerKnows, PollAt, Engaged
    <2>4. \A u \in Pollers : PollerKnows(u)'
      BY <1>5, <2>1, <2>3, KnowledgeStays
    <2> QED
      BY <1>1, <1>2, <2>1, <2>4 DEF PInv
  <1>6. ASSUME UNCHANGED vars, NEW v \in Pollers, PollContinue(v)
        PROVE  PInv'
    <2>1. \A u \in Pollers : PollerKnows(u)'
      BY <1>6, PInvContinue, KnowledgeStays
    <2> QED
      BY <1>1, <1>6, <2>1, PInvContinue DEF PInv
  <1>7. CASE Polling /\ UNCHANGED vars
    BY <1>3, <1>5, <1>6, <1>7 DEF Polling, TransferEnds
  <1>8. CASE UNCHANGED stageVars /\ (Running \/ UNCHANGED vars)
    BY <1>3, <1>8 DEF stageVars
  <1> QED
    BY <1>4, <1>7, <1>8 DEF StageOutNext, allVars

\* With one worker and a name for each pod, output leaves the scratch directory
\* only when the job that writes it has succeeded, whatever pods are deleted
\* and created while status requests run (nersc.go:449).
THEOREM OutputOnlyOfCompletedJobs ==
  ASSUME OneWorker, OwnNames
  PROVE  StageOutSpec => []StageOutAfterJobSucceeds
  <1>1. PInv /\ [StageOutNext]_allVars => PInv'
    BY PInvNext
  <1>2. PInv => StageOutAfterJobSucceeds
    BY DEF PInv, OutputOfCompleted, JobCompleted, StageOutAfterJobSucceeds
  <1> QED
    BY PInvInit, <1>1, <1>2, PTL DEF StageOutSpec

\* With one worker and a name for each pod, a tracked pod that was reported
\* Succeeded has its output at the destination, however many threads ask for
\* its status (nersc.go:447-457, staging.go:314-320).
THEOREM SucceededPodsAreDelivered ==
  ASSUME OneWorker, OwnNames
  PROVE  StageOutSpec => []CompleteMeansDelivered
  <1>1. PInv /\ [StageOutNext]_allVars => PInv'
    BY PInvNext
  <1>2. PInv => CompleteMeansDelivered
    BY DEF PInv, CompleteSettled, CompleteMeansDelivered
  <1> QED
    BY PInvInit, <1>1, <1>2, PTL DEF StageOutSpec

-----------------------------------------------------------------------------
(* A result stands once no poller is at work on the entry.                 *)

\* Only an entry that is stored, or was, has left its first status.
RecordedArePast == \A j \in Jobs : out[j] # "notStarted" => Past(j)

\* The inductive invariant of StageOutResultStands.
RInv == BInv /\ RecordedArePast

\* A status is recorded for the job stored under the poller's key, by a poller
\* that is at work on it.
LEMMA WritersAtWork ==
  ASSUME SInv, NEW v \in Pollers, PollContinue(v), NEW j \in Jobs, out'[j] # out[j]
  PROVE  AtWork(v, j) /\ \E k \in Keys : stagingMap[k] = j
  <1>1. poll[v].key \in Keys /\ out \in [Jobs -> Statuses]
    BY DEF SInv, StageOutTypeOK, PollShape, PollAt, PollContinue, PollJobDone, PollJobNotDone,
       PollStaging, PollSnapshot, PollSetStarting, PollStart, PollStartFails, PollCheck,
       PollCheckFails, PollDownload, PollDownloadFails
  <1>2. poll[v].at \in {"setStarting", "start", "download", "check"}
    BY DEF PollAt, PollContinue, PollJobDone, PollJobNotDone, PollStaging, PollSnapshot,
       PollSetStarting, PollStart, PollStartFails, PollCheck, PollCheckFails, PollDownload,
       PollDownloadFails
  <1>3. PICK s \in Statuses : Records(v, s)
    BY StatusWriters
  <1>4. stagingMap[poll[v].key] = j
    BY <1>1, <1>3 DEF Records, setStageOutStatus
  <1> QED
    BY <1>1, <1>2, <1>4 DEF AtWork

\* No poller takes up a stage-out that has a result.
LEMMA NobodyResumes ==
  ASSUME SInv, NEW v \in Pollers, PollContinue(v) \/ \E k \in Keys : PollLookup(v, k),
         UNCHANGED stagingMap,
         NEW j \in Jobs, out[j] \in {"succeeded", "failed"}, ~AtWork(v, j)
  PROVE  ~AtWork(v, j)'
  <1> USE DEF AtWork, SInv, StageOutTypeOK
  <1>1. CASE (\E k \in Keys : PollLookup(v, k)) \/ PollJobDone(v)
    BY <1>1 DEF PollLookup, PollJobDone, PollGoto, PollTo
  <1>2. CASE PollEnd(v)
    BY <1>2 DEF PollEnd, Resting
  <1>3. CASE PollStaging(v)
    BY <1>2, <1>3 DEF PollStaging, PollGoto, PollTo
  <1>4. CASE PollSnapshot(v)
    <2> DEFINE i == stagingMap[poll[v].key]
    <2>1. i \in JobOrNone
      BY <1>4 DEF PollSnapshot, PollShape, PollAt, LInv, TypeOK
    <2>2. SnapshotStatus(i) \in {"notStarted", "running"} => i # j
      BY <2>1, SnapshotOfEntry
    <2>3. poll'[v].key = poll[v].key \/ poll'[v].at = "idle"
      BY <1>4 DEF PollSnapshot, PollTo, PollEnd, Resting
    <2>4. SnapshotStatus(i) \in {"notStarted", "running"} \/ poll'[v].at = "idle"
      BY <1>4 DEF PollSnapshot, PollEnd, Resting
    <2> QED
      BY <2>2, <2>3, <2>4
  <1>5. CASE PollSetStarting(v)
    BY <1>5 DEF PollSetStarting, PollAt, PollGoto, PollTo
  <1>6. CASE PollStart(v)
    BY <1>6 DEF PollStart, PollAt, PollTo
  <1> QED
    BY <1>1, <1>2, <1>3, <1>4, <1>5, <1>6
    DEF PollContinue, PollJobNotDone, PollStartFails, PollCheck, PollCheckFails, PollDownload,
        PollDownloadFails

LEMMA RInvNext ==
  ASSUME RInv, [StageOutNext]_allVars
  PROVE  RInv' /\ \A j \in Jobs : Settled(j) => out'[j] = out[j] /\ Settled(j)'
  <1> DEFINE Stands == \A j \in Jobs : Settled(j) => out'[j] = out[j] /\ Settled(j)'
  <1>1. /\ SInv /\ LInv /\ BInv /\ BInv' /\ [Next]_vars
        /\ \A j \in Jobs : Past(j) => Past(j)'
    BY BInvNext, PastStays DEF RInv, BInv, SInv
  <1>2. ASSUME UNCHANGED out
        PROVE  RecordedArePast'
    BY <1>1, <1>2 DEF RInv, RecordedArePast
  <1>3. CASE UNCHANGED stageVars
    <2> SUFFICES ASSUME NEW j \in Jobs, Settled(j), NEW v \in Pollers, AtWork(v, j)'
                 PROVE  FALSE
      BY <1>1, <1>2, <1>3 DEF stageVars, RInv, Settled
    <2>1. Past(j) /\ ~AtWork(v, j)
      BY DEF RInv, RecordedArePast, Settled
    <2>2. /\ poll[v].at \in {"setStarting", "start", "download", "check"}
          /\ stagingMap'[poll[v].key] = j
      BY <1>3 DEF stageVars, AtWork
    <2>3. poll[v].key \in Keys /\ j # NoJob
      BY <1>1, <2>2, PodLifecycleAssumption DEF SInv, PollShape, PollAt
    <2>4. stagingMap[poll[v].key] = j
      BY <1>1, <2>1, <2>2, <2>3, StagingEntries DEF Past
    <2> QED
      BY <2>1, <2>2, <2>4 DEF AtWork
  <1>4. CASE StageOutRestart
    BY <1>1, <1>2, <1>4 DEF StageOutRestart, Resting, RInv, Settled, AtWork
  <1>5. ASSUME NEW v \in Pollers, PollContinue(v) \/ \E k \in Keys : PollLookup(v, k),
               UNCHANGED vars
        PROVE  RInv' /\ Stands
    <2>1. \A u \in Pollers \ {v} : poll'[u] = poll[u]
      <3>1. Polling /\ StageOutTypeOK
        BY <1>1, <1>5 DEF Polling, SInv
      <3>2. \A u \in Transfers : Accepted(u) => Accepted(u)'
        BY <3>1, AcceptedStays
      <3> QED
        BY <1>1, <1>5, <3>2, PollerStep
    <2>2. UNCHANGED stagingMap
      BY <1>5 DEF vars
    <2>3. ASSUME NEW j \in Jobs, out'[j] # out[j]
          PROVE  AtWork(v, j) /\ Past(j)
      <3>1. AtWork(v, j) /\ \E k \in Keys : stagingMap[k] = j
        BY <1>1, <1>5, <2>3, WritersAtWork DEF PollLookup
      <3> QED
        BY <1>1, <3>1, StagedIsPast, PodLifecycleAssumption
    <2>4. RecordedArePast'
      BY <1>1, <2>3 DEF RInv, RecordedArePast
    <2>5. ASSUME NEW j \in Jobs, Settled(j)
          PROVE  out'[j] = out[j] /\ Settled(j)'
      <3>1. out'[j] = out[j]
        BY <2>3, <2>5 DEF Settled
      <3>2. ~AtWork(v, j)'
        BY <1>1, <1>5, <2>2, <2>5, NobodyResumes DEF Settled
      <3>3. \A u \in Pollers \ {v} : ~AtWork(u, j)'
        BY <2>1, <2>2, <2>5 DEF Settled, AtWork
      <3> QED
        BY <2>5, <3>1, <3>2, <3>3 DEF Settled
    <2> QED
      BY <1>1, <2>4, <2>5 DEF RInv
  <1>6. ASSUME NEW t \in Transfers, TransferEnds(t), UNCHANGED vars
        PROVE  RInv' /\ Stands
    BY <1>1, <1>2, <1>6 DEF TransferEnds, vars, RInv, Settled, AtWork
  <1> QED
    BY <1>3, <1>4, <1>5, <1>6 DEF StageOutNext, Polling, allVars, vars

\* With any number of threads asking for status, and any workers and names, the
\* result of a stage-out that none of them is at work on stands: no later
\* request changes it or takes the stage-out up again (staging.go:314-320, 405).
THEOREM SettledResultsStand == StageOutSpec => StageOutResultStands
  <1>1. StageOutInit => RInv
    BY OInvInit DEF StageOutInit, OInv, RInv, RecordedArePast
  <1>2. RInv /\ [StageOutNext]_allVars =>
          /\ RInv'
          /\ [\A j \in Jobs : Settled(j) => out'[j] = out[j] /\ Settled(j)']_allVars
    BY RInvNext
  <1> QED
    BY <1>1, <1>2, PTL DEF StageOutSpec, StageOutResultStands
=============================================================================
