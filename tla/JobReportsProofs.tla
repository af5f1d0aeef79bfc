------------------------- MODULE JobReportsProofs --------------------------
(***************************************************************************)
(* Proofs about JobReports: phases are true and followed logs are whole,   *)
(* whatever the final states, log requests and length of the log.          *)
(*                                                                         *)
(* Both rest on one fact: what a report was made from does not change any  *)
(* more.  A final Slurm state has no successor, and a job whose task came  *)
(* to nothing never gets one.                                              *)
(***************************************************************************)
EXTENDS JobReports, TLAPS

NoJobYet == task \in {"new", "noJobID", "failed", "cancelled"} => slurm = "none"

\* The job can write no more, and its log can be told from the state.
Settled == \/ task \in {"direct", "completed"} /\ slurm \in EndStates
           \/ task \in {"failed", "cancelled"}

FetchedWhenSettled ==
  \A f \in Followers :
    /\ follower[f] = "fetch" => Settled
    /\ follower[f] = "done" => Settled /\ got[f] = FetchJobLogs

RInv == ReportTypeOK /\ NoJobYet /\ FetchedWhenSettled /\ PhaseIsTruthful

\* A terminal status is told of a settled job only.
LEMMA TerminalIsSettled ==
  ASSUME ReportTypeOK, NoJobYet, GetJobStatus \in {"completed", "failed"}
  PROVE  /\ Settled
         /\ GetJobStatus = "completed" => slurm = "COMPLETED"
         /\ GetJobStatus = "failed" => JobEnded /\ slurm # "COMPLETED"
  BY JobReportsAssumption
  DEF ReportTypeOK, TaskStates, LiveStates, GetJobStatus, getComputeJobStatus,
      normalizeSlurmStatus, FailedStates, NoJobYet, Settled, JobEnded

LEMMA RInvInit == ReportInit => RInv
  BY JobReportsAssumption
  DEF ReportInit, RInv, ReportTypeOK, TaskStates, LiveStates, Log, Nothing, NoJobYet,
      FetchedWhenSettled, PhaseIsTruthful

LEMMA RInvNext == RInv /\ [ReportNext]_reportVars => RInv'
  <1> SUFFICES ASSUME RInv, [ReportNext]_reportVars PROVE RInv'
    OBVIOUS
  <1> USE DEF RInv
  <1>1. CASE ReportPhase
    <2>1. phase' \in {"Pending", "Running", "Succeeded", "Failed"}
      BY <1>1 DEF ReportPhase, mapJobStatusToPodPhase
    <2>2. PhaseIsTruthful'
      <3>1. CASE GetJobStatus \in {"completed", "failed"}
        BY <1>1, <3>1, TerminalIsSettled, JobReportsAssumption
        DEF ReportPhase, mapJobStatusToPodPhase, PhaseIsTruthful, JobEnded, NoJobYet
      <3>2. CASE GetJobStatus \notin {"completed", "failed"}
        BY <1>1, <3>2 DEF ReportPhase, mapJobStatusToPodPhase, PhaseIsTruthful
      <3> QED
        BY <3>1, <3>2
    <2> QED
      BY <1>1, <2>1, <2>2
      DEF ReportPhase, ReportTypeOK, NoJobYet, FetchedWhenSettled, Settled, FetchJobLogs
  <1>2. ASSUME NEW f \in Followers, FollowBegins(f) \/ FollowTick(f) \/ FollowBreaks(f)
        PROVE  RInv'
    <2>1. follower' \in [Followers -> {"idle", "status", "wait", "fetch", "done", "broken"}]
      BY <1>2 DEF FollowBegins, FollowTick, FollowBreaks, FollowGoto, ReportTypeOK
    <2>2. \A g \in Followers :
            /\ follower'[g] = "fetch" => follower[g] = "fetch"
            /\ follower'[g] = "done" <=> follower[g] = "done"
      BY <1>2 DEF FollowBegins, FollowTick, FollowBreaks, FollowGoto, ReportTypeOK
    <2> QED
      BY <1>2, <2>1, <2>2
      DEF FollowBegins, FollowTick, FollowBreaks, ReportTypeOK, NoJobYet, FetchedWhenSettled,
          Settled, FetchJobLogs, PhaseIsTruthful, JobEnded
  <1>3. ASSUME NEW f \in Followers, FollowStatus(f) PROVE RInv'
    <2>1. follower' \in [Followers -> {"idle", "status", "wait", "fetch", "done", "broken"}]
      BY <1>3 DEF FollowStatus, FollowGoto, ReportTypeOK
    <2>2. \A g \in Followers :
            /\ follower'[g] = "fetch" => follower[g] = "fetch" \/ Settled
            /\ follower'[g] = "done" <=> follower[g] = "done"
      BY <1>3, TerminalIsSettled
      DEF FollowStatus, FollowGoto, isTerminalJobStatus, ReportTypeOK
    <2> QED
      BY <1>3, <2>1, <2>2
      DEF FollowStatus, ReportTypeOK, NoJobYet, FetchedWhenSettled, Settled, FetchJobLogs,
          PhaseIsTruthful, JobEnded
  <1>4. ASSUME NEW f \in Followers, FollowFetch(f) PROVE RInv'
    <2>1. FetchJobLogs \in Log /\ FetchJobLogs # Nothing
      BY JobReportsAssumption DEF FetchJobLogs, Log, Nothing, ReportTypeOK
    <2>2. /\ follower' \in [Followers -> {"idle", "status", "wait", "fetch", "done", "broken"}]
          /\ got' \in [Followers -> Log]
          /\ Settled
      BY <1>4, <2>1 DEF FollowFetch, FollowGoto, ReportTypeOK, FetchedWhenSettled
    <2>3. \A g \in Followers :
            /\ g = f => follower'[g] = "done" /\ got'[g] = FetchJobLogs
            /\ g # f => follower'[g] = follower[g] /\ got'[g] = got[g]
      BY <1>4 DEF FollowFetch, FollowGoto, ReportTypeOK
    <2>4. FetchJobLogs' = FetchJobLogs
      BY <1>4 DEF FollowFetch, FetchJobLogs
    <2> QED
      BY <1>4, <2>1, <2>2, <2>3, <2>4
      DEF FollowFetch, ReportTypeOK, NoJobYet, FetchedWhenSettled, Settled, PhaseIsTruthful,
          JobEnded
  <1>5. CASE TaskEnds \/ JobMoves \/ JobWrites
    <2>1. ~Settled
      BY <1>5, JobReportsAssumption DEF NoJobYet, Settled, TaskEnds, JobMoves, JobWrites
    <2>2. FetchedWhenSettled'
      BY <1>5, <2>1 DEF TaskEnds, JobMoves, JobWrites, FetchedWhenSettled
    <2>3. phase \notin {"Succeeded", "Failed"}
      BY <1>5, <2>1, JobReportsAssumption
      DEF TaskEnds, JobMoves, JobWrites, PhaseIsTruthful, JobEnded, NoJobYet, Settled,
          ReportTypeOK, TaskStates
    <2>4. ReportTypeOK' /\ NoJobYet'
      BY <1>5, JobReportsAssumption
      DEF TaskEnds, JobMoves, JobWrites, ReportTypeOK, TaskStates, LiveStates, NoJobYet
    <2> QED
      BY <1>5, <2>2, <2>3, <2>4 DEF TaskEnds, JobMoves, JobWrites, PhaseIsTruthful
  <1>6. CASE UNCHANGED reportVars
    BY <1>6
    DEF reportVars, ReportTypeOK, NoJobYet, FetchedWhenSettled, Settled, FetchJobLogs,
        PhaseIsTruthful, JobEnded
  <1> QED
    BY <1>1, <1>2, <1>3, <1>4, <1>5, <1>6 DEF ReportNext, FollowContinues

LEMMA RInvHolds == ReportSpec => []RInv
  BY RInvInit, RInvNext, PTL DEF ReportSpec

-----------------------------------------------------------------------------

\* Every state is of its type, and a log request has ended without an error
\* exactly when it has written a log (nersc.go:552-562).
THEOREM ReportTypeCorrect == ReportSpec => []ReportTypeOK
  <1>1. RInv => ReportTypeOK
    BY DEF RInv
  <1> QED
    BY <1>1, RInvHolds, PTL

\* A reported phase is true of the job for good (nersc.go:703, client.go:219),
\* also for final states that no table names.
THEOREM PhasesAreTruthful == ReportSpec => []PhaseIsTruthful
  <1>1. RInv => PhaseIsTruthful
    BY DEF RInv
  <1> QED
    BY <1>1, RInvHolds, PTL

\* A followed log that ends without an error is the whole log, however long
\* the log and however many the requests (nersc.go:552).
THEOREM FollowedLogsAreWhole == ReportSpec => []FollowedLogIsWhole
  <1>1. RInv => FollowedLogIsWhole
    BY DEF RInv, FetchedWhenSettled, Settled, FetchJobLogs, FollowedLogIsWhole
  <1> QED
    BY <1>1, RInvHolds, PTL
=============================================================================
