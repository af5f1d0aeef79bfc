-------------------------- MODULE LedgerRefinement --------------------------
(***************************************************************************)
(* PodLifecycle implements JobLedger: each step of a CreatePod or          *)
(* DeletePod call, of the service, of Kubernetes, and each restart is one  *)
(* entry in the ledger or leaves it alone.                                 *)
(*                                                                         *)
(* On top of CInv of PodLifecycleProofs the proof needs to know that a     *)
(* lost job is in nobody's hands, and that the job a DeletePod call is     *)
(* about to cancel is still the tracked one, or was cancelled by another.  *)
(***************************************************************************)
EXTENDS PodLifecycleProofs

ExcusedSubmitted == \A j \in excused : Submitted(j)

LostIsOut ==
  /\ \A w \in Workers : worker[w].at \in Creating => worker[w].job \notin excused
  /\ \A k \in Keys : Tracked(k) => podMap[k] \notin excused

CancelsTracked ==
  \A w \in Workers :
    At(w, "delCancel") => \/ podMap[KeyOf[owner[worker[w].job]]] = worker[w].job
                          \/ worker[w].job \in acked

RInv == CInv /\ ExcusedSubmitted /\ LostIsOut /\ CancelsTracked

LEMMA RInvInit == Init => RInv
  <1> SUFFICES ASSUME Init PROVE RInv
    OBVIOUS
  <1> QED
    BY CInvInit DEF Init, RInv, ExcusedSubmitted, LostIsOut, CancelsTracked, Tracked, At,
       Idle, Creating

-----------------------------------------------------------------------------
(* Where a job is depends on these facts only.                             *)

InHand(j, label) == \E w \in Workers : At(w, label) /\ worker[w].job = j
Entered(j) == podMap[KeyOf[owner[j]]] = j

LEMMA PlaceKept ==
  ASSUME NEW j \in Jobs,
         Submitted(j)' <=> Submitted(j),
         (j \in acked)' <=> j \in acked,
         (j \in excused)' <=> j \in excused,
         InHand(j, "store")' <=> InHand(j, "store"),
         InHand(j, "cancelDup")' <=> InHand(j, "cancelDup"),
         Entered(j)' <=> Entered(j)
  PROVE  placeOf(j)' = placeOf(j)
  BY DEF placeOf, InHand, Entered

\* The variables of the ledger, as PodLifecycle implements them.
places == [j \in Jobs |-> placeOf(j)]

\* A step that moves no job.
LEMMA PlacesKept ==
  ASSUME UNCHANGED <<owner, podMap, acked, excused>>,
         \A j \in Jobs : /\ InHand(j, "store")' <=> InHand(j, "store")
                         /\ InHand(j, "cancelDup")' <=> InHand(j, "cancelDup")
  PROVE  UNCHANGED <<owner, places, podMap>>
  <1>1. \A j \in Jobs : placeOf(j)' = placeOf(j)
    BY PlaceKept DEF Submitted, Entered
  <1> QED
    BY <1>1 DEF places

\* A step that moves job j and no other.
LEMMA OneMoves ==
  ASSUME NEW j \in Jobs, NEW to,
         placeOf(j)' = to,
         \A i \in Jobs \ {j} : placeOf(i)' = placeOf(i)
  PROVE  places' = [places EXCEPT ![j] = to]
  BY DEF places

\* What a step of thread w does to what the threads hold.
LEMMA HandsOfOthers ==
  ASSUME NEW w \in Workers, LInv,
         \A v \in Workers \ {w} : worker'[v] = worker[v],
         NEW j \in Jobs, NEW label,
         worker[w].job # j \/ worker[w].at # label,
         worker'[w].job # j \/ worker'[w].at # label
  PROVE  InHand(j, label)' <=> InHand(j, label)
  BY DEF InHand, At

-----------------------------------------------------------------------------
(* What the ledger sees of one step.                                       *)

Entry == Ledger!LedgerNext \/ UNCHANGED <<owner, places, podMap>>

LEMMA SubmissionEntry ==
  ASSUME NEW j \in Jobs, NEW p \in Pods, NEW to \in {"held", "lost"},
         placeOf(j) = "unused", placeOf(j)' = to,
         \A i \in Jobs \ {j} : placeOf(i)' = placeOf(i),
         owner' = [owner EXCEPT ![j] = p],
         UNCHANGED podMap
  PROVE  Entry
  <1>1. places[j] = "unused"
    BY DEF places
  <1>2. places' = [places EXCEPT ![j] = to]
    BY OneMoves
  <1>3. Ledger!Submit(j, p)
    BY <1>1, <1>2 DEF Ledger!Submit, Ledger!Move, places
  <1> QED
    BY <1>3 DEF Entry, Ledger!LedgerNext

\* A submission moves the new job only.
LEMMA SubmitEntry ==
  ASSUME RInv, NEW w \in Workers, SubmitAccepted(w) \/ SubmitReplyLost(w)
  PROVE  /\ Entry
         /\ ExcusedSubmitted' /\ LostIsOut' /\ CancelsTracked'
  <1> USE DEF RInv, CInv, IInv, LInv, TypeOK
  <1>1. /\ worker[w].pod \in Pods /\ worker[w].at = "submit"
        /\ UNCHANGED <<podMap, acked>>
        /\ \A v \in Workers \ {w} : worker'[v] = worker[v]
    BY DEF SubmitAccepted, SubmitReplyLost, Goto, Return, mapVars, ghostVars, HoldsPod, At
  <1>2. PICK j \in Jobs :
          /\ SubmitJob(j, worker[w].pod)
          /\ \/ /\ worker'[w] = [at |-> "store", pod |-> worker[w].pod, job |-> j]
                /\ UNCHANGED excused
             \/ /\ worker'[w] = Idle
                /\ excused' = excused \cup {j}
    BY DEF SubmitAccepted, SubmitReplyLost, Goto, Return, ghostVars
  <1>3. /\ \A i \in Jobs : Submitted(i) => owner'[i] = owner[i]
        /\ ~Submitted(j)
        /\ owner'[j] = worker[w].pod /\ worker[w].pod # NoPod
        /\ \A i \in Jobs : i # j => owner'[i] = owner[i]
    BY <1>1, <1>2, SubmissionKeepsOwners
  <1>4. owner' = [owner EXCEPT ![j] = worker[w].pod]
    BY <1>1, <1>2, SubmitJobType
  <1>5. /\ j \notin acked /\ j \notin excused
        /\ \A k \in Keys : podMap[k] # j
        /\ \A v \in Workers : worker[v].at \in Creating \cup Deleting => worker[v].job # j
    BY <1>3, PodLifecycleAssumption
    DEF AckedSubmitted, ExcusedSubmitted, TrackedOwn, Tracked, CreatorOwn, DeleterOwn,
        Creating, Deleting
  <1>6. placeOf(j) = "unused"
    BY <1>3 DEF placeOf
  <1>7. \A i \in Jobs \ {j} : placeOf(i)' = placeOf(i)
    <2> SUFFICES ASSUME NEW i \in Jobs, i # j
                 PROVE  placeOf(i)' = placeOf(i)
      OBVIOUS
    <2>1. owner'[i] = owner[i]
      BY <1>3
    <2>2. /\ (i \in acked)' <=> i \in acked
          /\ (i \in excused)' <=> i \in excused
      BY <1>1, <1>2
    <2>3. ASSUME NEW label \in Creating
          PROVE  InHand(i, label)' <=> InHand(i, label)
      BY <1>1, <1>2, <2>3, HandsOfOthers DEF Idle, Creating
    <2> QED
      BY <1>1, <2>1, <2>2, <2>3, PlaceKept DEF Submitted, Entered, Creating
  <1>8. ASSUME worker'[w] = [at |-> "store", pod |-> worker[w].pod, job |-> j],
               UNCHANGED excused
        PROVE  Entry
    <2>1. placeOf(j)' = "held"
      BY <1>1, <1>3, <1>5, <1>8 DEF placeOf, Submitted, At
    <2> QED
      BY <1>1, <1>4, <1>6, <1>7, <2>1, SubmissionEntry
  <1>9. ASSUME worker'[w] = Idle, excused' = excused \cup {j}
        PROVE  Entry
    <2>1. placeOf(j)' = "lost"
      BY <1>1, <1>3, <1>5, <1>9 DEF placeOf, Submitted
    <2> QED
      BY <1>1, <1>4, <1>6, <1>7, <2>1, SubmissionEntry
  <1>10. ExcusedSubmitted'
    BY <1>2, <1>3 DEF ExcusedSubmitted, Submitted
  <1>11. LostIsOut'
    BY <1>1, <1>2, <1>5 DEF LostIsOut, Tracked, Creating, Idle
  <1>12. CancelsTracked'
    BY <1>1, <1>2, <1>3, PodLifecycleAssumption
    DEF CancelsTracked, At, DeleterOwn, Idle, HoldsJob, Submitted
  <1> QED
    BY <1>2, <1>8, <1>9, <1>10, <1>11, <1>12

Kept == Entry /\ ExcusedSubmitted' /\ LostIsOut' /\ CancelsTracked'

\* A step of thread w that the ledger does not see, with which the thread at
\* most takes up the tracked job of a key.
LEMMA QuietEntry ==
  ASSUME RInv, NEW w \in Workers,
         UNCHANGED <<owner, podMap, acked, excused>>,
         \A v \in Workers \ {w} : worker'[v] = worker[v],
         worker[w].at \notin Creating, worker'[w].at \notin Creating,
         worker'[w].at = "delCancel"
           => podMap[KeyOf[owner[worker'[w].job]]] = worker'[w].job
  PROVE  Kept
  <1> USE DEF RInv, CInv, IInv
  <1>1. \A j \in Jobs : /\ InHand(j, "store")' <=> InHand(j, "store")
                        /\ InHand(j, "cancelDup")' <=> InHand(j, "cancelDup")
    BY HandsOfOthers DEF Creating
  <1>2. Entry
    BY <1>1, PlacesKept DEF Entry
  <1>3. ExcusedSubmitted' /\ LostIsOut' /\ CancelsTracked'
    BY DEF ExcusedSubmitted, Submitted, LostIsOut, Tracked, CancelsTracked, At
  <1> QED
    BY <1>2, <1>3 DEF Kept

LEMMA StillEntry ==
  ASSUME RInv, UNCHANGED <<owner, podMap, worker, acked, excused>>
  PROVE  Kept
  <1>1. \A j \in Jobs : /\ InHand(j, "store")' <=> InHand(j, "store")
                        /\ InHand(j, "cancelDup")' <=> InHand(j, "cancelDup")
    BY DEF InHand, At
  <1>2. Entry
    BY <1>1, PlacesKept DEF Entry
  <1>3. ExcusedSubmitted' /\ LostIsOut' /\ CancelsTracked'
    BY DEF RInv, ExcusedSubmitted, Submitted, LostIsOut, Tracked, CancelsTracked, At
  <1> QED
    BY <1>2, <1>3 DEF Kept

\* What a CreatePod call knows of the job it holds.
LEMMA HeldJob ==
  ASSUME RInv, NEW w \in Workers, worker[w].at \in Creating
  PROVE  /\ worker[w].job \in Jobs /\ worker[w].pod \in Pods
         /\ Submitted(worker[w].job) /\ owner[worker[w].job] = worker[w].pod
         /\ KeyOf[worker[w].pod] \in Keys
         /\ worker[w].job \notin acked /\ worker[w].job \notin excused
         /\ \A k \in Keys : podMap[k] # worker[w].job
         /\ \A v \in Workers :
              worker[v].at \in Creating \cup Deleting /\ worker[v].job = worker[w].job => v = w
  BY PodLifecycleAssumption
  DEF RInv, CInv, IInv, LInv, LostIsOut, Exclusive, HoldsAlone, CreatorOwn, HoldsPod, HoldsJob,
      Creating, At

LEMMA StoreEntry ==
  ASSUME RInv, NEW w \in Workers, CreateStore(w)
  PROVE  Kept
  <1>1. worker[w].at = "store" /\ worker[w].at \in Creating
    BY DEF CreateStore, At, Creating
  <1>a. PICK j \in Jobs : j = worker[w].job
    BY <1>1, HeldJob
  <1>b. PICK k \in Keys : k = KeyOf[worker[w].pod]
    BY <1>1, HeldJob
  <1>2. /\ UNCHANGED <<owner, acked, excused>>
        /\ podMap[k] = NoJob
        /\ podMap' = [podMap EXCEPT ![k] = j]
        /\ worker'[w] = Idle
        /\ \A v \in Workers \ {w} : worker'[v] = worker[v]
    BY <1>a, <1>b DEF CreateStore, Tracked, Return, jobVars, RInv, CInv, IInv, LInv, TypeOK
  <1>3. /\ j \in Jobs /\ worker[w].pod \in Pods
        /\ Submitted(j) /\ owner[j] = worker[w].pod
        /\ k \in Keys
        /\ j \notin acked /\ j \notin excused
        /\ \A v \in Workers :
             worker[v].at \in Creating \cup Deleting /\ worker[v].job = j => v = w
    BY <1>1, <1>a, <1>b, HeldJob
  <1>4. podMap \in [Keys -> JobOrNone] /\ owner \in [Jobs -> Pods \cup {NoPod}] /\ LInv
    BY DEF RInv, CInv, IInv, LInv, TypeOK, JobsTypeOK
  <1>5. placeOf(j) = "held"
    BY <1>1, <1>3, <1>a DEF placeOf, At
  <1>6. placeOf(j)' = "booked"
    BY <1>1, <1>2, <1>3, <1>4, <1>a, <1>b DEF placeOf, At, Submitted, Idle, Creating
  <1>7. \A i \in Jobs \ {j} : placeOf(i)' = placeOf(i)
    <2> SUFFICES ASSUME NEW i \in Jobs, i # j
                 PROVE  placeOf(i)' = placeOf(i)
      OBVIOUS
    <2>1. ASSUME NEW label \in Creating
          PROVE  InHand(i, label)' <=> InHand(i, label)
      BY <1>2, <1>4, <1>a, <2>1, HandsOfOthers DEF Idle, Creating
    <2>2. Submitted(i) => (Entered(i)' <=> Entered(i))
      BY <1>2, <1>3, <1>4, PodLifecycleAssumption DEF Entered, Submitted
    <2>3. CASE Submitted(i)
      BY <1>2, <2>1, <2>2, <2>3, PlaceKept DEF Submitted, Creating
    <2>4. CASE ~Submitted(i)
      BY <1>2, <2>4 DEF placeOf, Submitted
    <2> QED
      BY <2>3, <2>4
  <1>8. places' = [places EXCEPT ![j] = "booked"]
    BY <1>3, <1>6, <1>7, OneMoves
  <1>9. Ledger!Enter(j)
    BY <1>2, <1>3, <1>5, <1>8, <1>b DEF Ledger!Enter, Ledger!Move, places
  <1>10. Entry
    BY <1>3, <1>9 DEF Entry, Ledger!LedgerNext
  <1>11. ExcusedSubmitted'
    BY <1>2 DEF RInv, ExcusedSubmitted, Submitted
  <1>12. LostIsOut'
    BY <1>2, <1>3, <1>4 DEF RInv, LostIsOut, Tracked, Creating, Idle
  <1>13. CancelsTracked'
    <2> SUFFICES ASSUME NEW v \in Workers, v # w, worker[v].at = "delCancel"
                 PROVE  \/ podMap'[KeyOf[owner[worker[v].job]]] = worker[v].job
                        \/ worker[v].job \in acked
      BY <1>2 DEF CancelsTracked, At, Idle
    <2>1. worker[v].job \in Jobs
      BY DEF RInv, CInv, IInv, LInv, HoldsJob
    <2> QED
      BY <1>2, <1>4, <2>1, PodLifecycleAssumption DEF RInv, CancelsTracked, At
  <1> QED
    BY <1>10, <1>11, <1>12, <1>13 DEF Kept

\* The key is taken: the held job becomes a double.
LEMMA DuplicateEntry ==
  ASSUME RInv, NEW w \in Workers, CreateDuplicate(w)
  PROVE  Kept
  <1>1. worker[w].at = "store" /\ worker[w].at \in Creating
    BY DEF CreateDuplicate, At, Creating
  <1>2. PICK j \in Jobs : j = worker[w].job
    BY <1>1, HeldJob
  <1>3. LInv /\ owner \in [Jobs -> Pods \cup {NoPod}]
    BY DEF RInv, CInv, IInv, LInv, TypeOK, JobsTypeOK
  <1>4. /\ UNCHANGED <<owner, podMap, acked, excused>>
        /\ podMap[KeyOf[worker[w].pod]] # NoJob
        /\ worker'[w] = [at |-> "cancelDup", pod |-> worker[w].pod, job |-> j]
        /\ \A v \in Workers \ {w} : worker'[v] = worker[v]
    BY <1>2, <1>3 DEF CreateDuplicate, Goto, Tracked, jobVars, mapVars, ghostVars, LInv, TypeOK
  <1>5. /\ Submitted(j) /\ owner[j] = worker[w].pod
        /\ j \notin acked /\ j \notin excused
        /\ \A v \in Workers :
             worker[v].at \in Creating \cup Deleting /\ worker[v].job = j => v = w
    BY <1>1, <1>2, HeldJob
  <1>6. placeOf(j) = "held"
    BY <1>1, <1>2, <1>5 DEF placeOf, At
  <1>7. placeOf(j)' = "double"
    BY <1>4, <1>5 DEF placeOf, At, Submitted, Creating
  <1>8. ASSUME NEW i \in Jobs \ {j}
        PROVE  placeOf(i)' = placeOf(i)
    <2>1. InHand(i, "store")' <=> InHand(i, "store")
      BY <1>1, <1>2, <1>4 DEF InHand, At
    <2>2. InHand(i, "cancelDup")' <=> InHand(i, "cancelDup")
      BY <1>1, <1>2, <1>4 DEF InHand, At
    <2> QED
      BY <1>4, <2>1, <2>2, PlaceKept DEF Submitted, Entered
  <1>9. places' = [places EXCEPT ![j] = "double"]
    BY <1>7, <1>8, OneMoves
  <1>10. Ledger!Refuse(j)
    BY <1>4, <1>5, <1>6, <1>9 DEF Ledger!Refuse, Ledger!Move, places
  <1>11. ExcusedSubmitted' /\ LostIsOut' /\ CancelsTracked'
    BY <1>1, <1>2, <1>4, <1>5
    DEF RInv, ExcusedSubmitted, Submitted, LostIsOut, Tracked, CancelsTracked, At, Creating
  <1> QED
    BY <1>10, <1>11 DEF Kept, Entry, Ledger!LedgerNext

\* The double is cancelled, or lost when its cancellation fails.
LEMMA DiscardEntry ==
  ASSUME RInv, NEW w \in Workers, DuplicateStep(w)
  PROVE  Kept
  <1>1. worker[w].at = "cancelDup" /\ worker[w].at \in Creating
    BY DEF DuplicateStep, DuplicateCancelled, DuplicateLeaked, At, Creating
  <1>2. PICK j \in Jobs : j = worker[w].job
    BY <1>1, HeldJob
  <1>3. LInv /\ JobsTypeOK
    BY DEF RInv, CInv, IInv, LInv, TypeOK
  <1>4. /\ UNCHANGED <<owner, podMap>>
        /\ worker'[w] = Idle
        /\ \A v \in Workers \ {w} : worker'[v] = worker[v]
        /\ \/ acked' = acked \cup {j} /\ excused' = excused
           \/ acked' = acked /\ excused' = excused \cup {j}
    BY <1>2, <1>3, CancelJobType
    DEF DuplicateStep, DuplicateCancelled, DuplicateLeaked, Return, jobVars, mapVars,
        LInv, TypeOK
  <1>5. /\ Submitted(j)
        /\ j \notin acked /\ j \notin excused
        /\ \A k \in Keys : podMap[k] # j
        /\ \A v \in Workers :
             worker[v].at \in Creating \cup Deleting /\ worker[v].job = j => v = w
    BY <1>1, <1>2, HeldJob
  <1>6. placeOf(j) = "double"
    BY <1>1, <1>2, <1>5 DEF placeOf, At, Creating
  <1>7. placeOf(j)' \in {"closed", "lost"}
    BY <1>4, <1>5 DEF placeOf, Submitted
  <1>8. ASSUME NEW i \in Jobs \ {j}
        PROVE  placeOf(i)' = placeOf(i)
    <2>1. InHand(i, "store")' <=> InHand(i, "store")
      BY <1>2, <1>4 DEF InHand, At, Idle
    <2>2. InHand(i, "cancelDup")' <=> InHand(i, "cancelDup")
      BY <1>2, <1>4 DEF InHand, At, Idle
    <2>3. /\ (i \in acked)' <=> i \in acked
          /\ (i \in excused)' <=> i \in excused
      BY <1>4
    <2> QED
      BY <1>4, <2>1, <2>2, <2>3, PlaceKept DEF Submitted, Entered
  <1>9. \/ places' = [places EXCEPT ![j] = "closed"]
        \/ places' = [places EXCEPT ![j] = "lost"]
    BY <1>7, <1>8, OneMoves
  <1>10. Ledger!Discard(j)
    BY <1>4, <1>6, <1>9 DEF Ledger!Discard, Ledger!Move, places
  <1>11. ExcusedSubmitted' /\ LostIsOut' /\ CancelsTracked'
    BY <1>2, <1>3, <1>4, <1>5, PodLifecycleAssumption
    DEF RInv, ExcusedSubmitted, Submitted, LostIsOut, Tracked, CancelsTracked, At, Creating,
        Idle, LInv, TypeOK
  <1> QED
    BY <1>10, <1>11 DEF Kept, Entry, Ledger!LedgerNext

\* The tracked job is closed, unless another DeletePod call closed it before.
LEMMA CloseEntry ==
  ASSUME RInv, NEW w \in Workers, CancelAcknowledged(w)
  PROVE  Kept
  <1>1. LInv /\ JobsTypeOK /\ worker[w].at = "delCancel"
    BY DEF RInv, CInv, IInv, LInv, TypeOK, CancelAcknowledged, At
  <1>2. PICK j \in Jobs : j = worker[w].job
    BY <1>1 DEF LInv, HoldsJob
  <1>3. /\ UNCHANGED <<owner, podMap, excused>>
        /\ acked' = acked \cup {j}
        /\ worker'[w].at = "delUntrack"
        /\ \A v \in Workers \ {w} : worker'[v] = worker[v]
    BY <1>1, <1>2, CancelJobType DEF CancelAcknowledged, Goto, mapVars, LInv, TypeOK
  <1>4. Submitted(j)
    BY <1>1, <1>2 DEF RInv, CInv, IInv, DeleterOwn
  <1>5. ASSUME NEW i \in Jobs
        PROVE  /\ InHand(i, "store")' <=> InHand(i, "store")
               /\ InHand(i, "cancelDup")' <=> InHand(i, "cancelDup")
    BY <1>1, <1>3 DEF InHand, At
  <1>6. ASSUME NEW i \in Jobs \ {j}
        PROVE  placeOf(i)' = placeOf(i)
    <2>1. (i \in acked)' <=> i \in acked
      BY <1>3
    <2> QED
      BY <1>3, <1>5, <2>1, PlaceKept DEF Submitted, Entered
  <1>7. placeOf(j)' = "closed"
    BY <1>3, <1>4 DEF placeOf, Submitted
  <1>8. Entry
    <2>1. CASE j \in acked
      <3>1. placeOf(j) = "closed"
        BY <1>4, <2>1 DEF placeOf
      <3>2. \A i \in Jobs : placeOf(i)' = placeOf(i)
        BY <1>6, <1>7, <3>1
      <3> QED
        BY <1>3, <3>2 DEF Entry, places
    <2>2. CASE j \notin acked
      <3>1. podMap[KeyOf[owner[j]]] = j
        BY <1>1, <1>2, <2>2 DEF RInv, CancelsTracked, At
      <3>2. PICK k \in Keys : podMap[k] = j
        BY <3>1, <1>1, <1>4, PodLifecycleAssumption DEF JobsTypeOK, Submitted
      <3>3. j \notin excused
        BY <3>2, PodLifecycleAssumption DEF RInv, LostIsOut, Tracked
      <3>4. \A v \in Workers : worker[v].at \in Creating => worker[v].job # j
        BY <3>2 DEF RInv, CInv, Exclusive, HoldsAlone
      <3>5. placeOf(j) = "booked"
        BY <1>4, <2>2, <3>1, <3>3, <3>4 DEF placeOf, At, Creating
      <3>6. places' = [places EXCEPT ![j] = "closed"]
        BY <1>6, <1>7, OneMoves
      <3>7. Ledger!Close(j)
        BY <1>3, <3>5, <3>6 DEF Ledger!Close, Ledger!Move, places
      <3> QED
        BY <3>7 DEF Entry, Ledger!LedgerNext
    <2> QED
      BY <2>1, <2>2
  <1>9. ExcusedSubmitted' /\ LostIsOut' /\ CancelsTracked'
    BY <1>1, <1>3
    DEF RInv, ExcusedSubmitted, Submitted, LostIsOut, Tracked, CancelsTracked, At, Creating
  <1> QED
    BY <1>8, <1>9 DEF Kept

\* The entry of the closed job is struck out, unless it names another by now.
LEMMA StrikeEntry ==
  ASSUME RInv, NEW w \in Workers, DeleteUntrack(w)
  PROVE  Kept
  <1>1. LInv /\ JobsTypeOK /\ worker[w].at = "delUntrack" /\ worker[w].pod \in Pods
    BY DEF RInv, CInv, IInv, LInv, TypeOK, DeleteUntrack, At, HoldsPod
  <1>2. PICK j \in Jobs : j = worker[w].job
    BY <1>1 DEF LInv, HoldsJob
  <1>3. PICK k \in Keys : k = KeyOf[worker[w].pod]
    BY <1>1, PodLifecycleAssumption
  <1>4. /\ UNCHANGED <<owner, acked, excused>>
        /\ podMap[k] = j => podMap' = [podMap EXCEPT ![k] = NoJob]
        /\ podMap[k] # j => podMap' = podMap
        /\ worker'[w] = Idle
        /\ \A v \in Workers \ {w} : worker'[v] = worker[v]
    BY <1>1, <1>2, <1>3 DEF DeleteUntrack, Return, jobVars, mapVars, ghostVars, LInv, TypeOK
  <1>5. Submitted(j) /\ j \in acked
    BY <1>1, <1>2 DEF RInv, CInv, IInv, DeleterOwn, AckedBeforeUntrack, At
  <1>6. \A l \in Keys : \/ podMap'[l] = podMap[l]
                        \/ podMap[l] = j /\ podMap'[l] = NoJob
    BY <1>1, <1>4 DEF LInv, TypeOK
  <1>7. \A i \in Jobs : placeOf(i)' = placeOf(i)
    <2> SUFFICES ASSUME NEW i \in Jobs
                 PROVE  placeOf(i)' = placeOf(i)
      OBVIOUS
    <2>1. CASE i = j \/ ~Submitted(i)
      BY <1>4, <1>5, <2>1 DEF placeOf, Submitted
    <2>2. CASE i # j /\ Submitted(i)
      <3>1. Entered(i)' <=> Entered(i)
        BY <1>1, <1>4, <1>6, <2>2, PodLifecycleAssumption DEF Entered, Submitted, JobsTypeOK
      <3>2. /\ InHand(i, "store")' <=> InHand(i, "store")
            /\ InHand(i, "cancelDup")' <=> InHand(i, "cancelDup")
        BY <1>1, <1>4 DEF InHand, At, Idle
      <3> QED
        BY <1>4, <3>1, <3>2, PlaceKept DEF Submitted
    <2> QED
      BY <2>1, <2>2
  <1>8. Entry
    <2>1. places' = places
      BY <1>7 DEF places
    <2>2. CASE podMap[k] = j
      <3>1. placeOf(j) = "closed"
        BY <1>5 DEF placeOf
      <3>2. Ledger!Strike(k)
        BY <1>4, <2>1, <2>2, <3>1, PodLifecycleAssumption DEF Ledger!Strike, places
      <3> QED
        BY <3>2 DEF Entry, Ledger!LedgerNext
    <2>3. CASE podMap[k] # j
      BY <1>4, <2>1, <2>3 DEF Entry
    <2> QED
      BY <2>2, <2>3
  <1>9. ExcusedSubmitted' /\ LostIsOut'
    BY <1>4, <1>6 DEF RInv, ExcusedSubmitted, Submitted, LostIsOut, Tracked, Creating, Idle
  <1>10. CancelsTracked'
    <2> SUFFICES ASSUME NEW v \in Workers, v # w, worker[v].at = "delCancel"
                 PROVE  \/ podMap'[KeyOf[owner[worker[v].job]]] = worker[v].job
                        \/ worker[v].job \in acked
      BY <1>4 DEF CancelsTracked, At, Idle
    <2>1. worker[v].job \in Jobs /\ Submitted(worker[v].job)
      BY <1>1 DEF RInv, CInv, IInv, DeleterOwn, LInv, HoldsJob
    <2> QED
      BY <1>1, <1>5, <1>6, <2>1, PodLifecycleAssumption
      DEF RInv, CancelsTracked, At, Submitted, JobsTypeOK
  <1> QED
    BY <1>8, <1>9, <1>10 DEF Kept

\* A restart burns the book.
LEMMA BurnEntry ==
  ASSUME RInv, Restart
  PROVE  Kept
  <1>1. /\ UNCHANGED <<owner, acked>>
        /\ podMap' = [k \in Keys |-> NoJob]
        /\ excused' = {j \in Jobs : Submitted(j)} \cup excused
        /\ \A w \in Workers : worker'[w] = Idle
    BY DEF Restart, jobVars
  <1>2. ASSUME NEW j \in Jobs
        PROVE  placeOf(j)' = IF placeOf(j) \in {"unused", "closed"} THEN placeOf(j) ELSE "lost"
    <2>1. CASE ~Submitted(j)
      BY <1>1, <2>1 DEF placeOf, Submitted
    <2>2. CASE Submitted(j) /\ j \in acked
      BY <1>1, <2>2 DEF placeOf, Submitted
    <2>3. CASE Submitted(j) /\ j \notin acked
      <3>1. placeOf(j)' = "lost"
        BY <1>1, <2>3 DEF placeOf, Submitted
      <3>2. placeOf(j) \notin {"unused", "closed"}
        BY <2>3 DEF placeOf
      <3> QED
        BY <3>1, <3>2
    <2> QED
      BY <2>1, <2>2, <2>3
  <1>3. Ledger!Burn
    BY <1>1, <1>2 DEF Ledger!Burn
  <1>4. ExcusedSubmitted' /\ LostIsOut' /\ CancelsTracked'
    BY <1>1 DEF RInv, ExcusedSubmitted, Submitted, LostIsOut, Tracked, CancelsTracked, At,
       Creating, Idle
  <1> QED
    BY <1>3, <1>4 DEF Kept, Entry, Ledger!LedgerNext

-----------------------------------------------------------------------------
(* Every step.                                                             *)

LEMMA KeptNext ==
  ASSUME RInv, [Next]_vars
  PROVE  Kept
  <1> USE DEF RInv, CInv, IInv, LInv, TypeOK
  <1>1. ASSUME NEW w \in Workers, NEW p \in Pods, CreateTracked(w, p)
        PROVE  Kept
    BY <1>1, StillEntry DEF CreateTracked, jobVars, mapVars
  <1>2. ASSUME NEW w \in Workers, NEW p \in Pods, CreateBegin(w, p)
        PROVE  Kept
    BY <1>2, QuietEntry DEF CreateBegin, At, Goto, jobVars, mapVars, ghostVars, Creating
  <1>3. ASSUME NEW w \in Workers, StageInStep(w)
        PROVE  Kept
    BY <1>3, QuietEntry DEF StageInStep, StageInDone, StageInFails, StageInTimeout, At, Goto,
       Return, Idle, jobVars, mapVars, ghostVars, Creating
  <1>4. ASSUME NEW w \in Workers, SubmitAccepted(w) \/ SubmitReplyLost(w)
        PROVE  Kept
    BY <1>4, SubmitEntry DEF Kept
  <1>5. ASSUME NEW w \in Workers, SubmitRefused(w)
        PROVE  Kept
    BY <1>5, QuietEntry DEF SubmitRefused, At, Return, Idle, jobVars, mapVars, ghostVars,
       Creating
  <1>6. ASSUME NEW w \in Workers, NEW p \in Pods, DeleteTracked(w, p)
        PROVE  Kept
    <2>1. PICK k \in Keys : k = KeyOf[p]
      BY PodLifecycleAssumption
    <2>2. KeyOf[owner[podMap[k]]] = k
      BY <1>6, <2>1 DEF DeleteTracked, TrackedOwn
    <2>3. /\ UNCHANGED <<owner, podMap, acked, excused>>
          /\ worker[w].at = "idle"
          /\ worker'[w] = [at |-> "delCancel", pod |-> p, job |-> podMap[k]]
          /\ \A v \in Workers \ {w} : worker'[v] = worker[v]
      BY <1>6, <2>1 DEF DeleteTracked, At, Goto, jobVars, mapVars, ghostVars
    <2> QED
      BY <2>2, <2>3, QuietEntry DEF Creating
  <1>7. ASSUME NEW w \in Workers, NEW p \in Pods, DeleteUntracked(w, p)
        PROVE  Kept
    BY <1>7, QuietEntry DEF DeleteUntracked, At, Goto, jobVars, mapVars, ghostVars, Creating
  <1>8. ASSUME NEW w \in Workers, CancelFails(w)
        PROVE  Kept
    <2>1. worker[w].at = "delCancel" /\ worker[w].job \in Jobs /\ JobsTypeOK
      BY <1>8 DEF CancelFails, At, HoldsJob
    <2> QED
      BY <1>8, <2>1, QuietEntry, CancelJobType
      DEF CancelFails, Return, Idle, jobVars, mapVars, ghostVars, Creating
  <1>9. ASSUME NEW w \in Workers, DeleteDropStaging(w)
        PROVE  Kept
    BY <1>9, QuietEntry DEF DeleteDropStaging, At, Return, Idle, jobVars, ghostVars, Creating
  <1>10. ASSUME NEW p \in Pods, Kubernetes(p)
         PROVE  Kept
    BY <1>10, StillEntry DEF Kubernetes, PodBound, PodMarkedDeleted, PodRemoved, SetPhase,
       jobVars, mapVars
  <1>11. ASSUME NEW j \in Jobs, ServiceAdvances(j)
         PROVE  Kept
    BY <1>11, StillEntry, JobAdvancesType DEF ServiceAdvances, lifecycleVars
  <1>12. CASE UNCHANGED vars
    BY <1>12, StillEntry DEF vars
  <1> QED
    BY <1>1, <1>2, <1>3, <1>4, <1>5, <1>6, <1>7, <1>8, <1>9, <1>10, <1>11, <1>12,
       StoreEntry, DuplicateEntry, DiscardEntry, CloseEntry, StrikeEntry, BurnEntry
    DEF Next, Running, Begin, Continue, SubmitStep, StoreStep, CancelStep

LEMMA LedgerStart == Init => Ledger!LedgerInit
  <1> SUFFICES ASSUME Init PROVE Ledger!LedgerInit
    OBVIOUS
  <1> QED
    BY DEF Init, JobsInit, Ledger!LedgerInit, placeOf, Submitted

\* The provider keeps the ledger, for any number of threads, pods, keys, jobs
\* and restarts: every step of CreatePod and DeletePod is an entry the ledger
\* allows, or none (nersc.go:173-304).
THEOREM LifecycleImplementsLedger == Spec => ImplementsLedger
  <1>1. RInv /\ [Next]_vars => RInv'
    BY KeptNext, CInvNext DEF RInv, Kept
  <1>2. RInv /\ [Next]_vars => [Ledger!LedgerNext]_(Ledger!ledgerVars)
    BY KeptNext DEF Kept, Entry, Ledger!ledgerVars, places
  <1> QED
    BY RInvInit, LedgerStart, <1>1, <1>2, PTL DEF Spec, ImplementsLedger, Ledger!LedgerSpec
=============================================================================
