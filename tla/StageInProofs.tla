--------------------------- MODULE StageInProofs ---------------------------
(***************************************************************************)
(* What the CreatePod calls of StageIn guarantee for every set of pods     *)
(* that Kubernetes allows.  First what a recursive function over the       *)
(* positions of a sequence computes, then the paths of the staging plan    *)
(* and the invariant of a call; from it, that uploads find their directory *)
(* and jobs their input; that a script carries every option, runs every    *)
(* container and makes every directory; that pods keep apart; and that the *)
(* calls are CreatePod calls of PodLifecycle.                              *)
(***************************************************************************)
EXTENDS StageIn, FiniteSetTheorems, WellFoundedInduction, SequenceTheorems, TLAPS

-----------------------------------------------------------------------------
(* Recursion over 0 .. N.                                                  *)

LEMMA LeastNatural ==
  ASSUME NEW T, T \subseteq Nat, T # {}
  PROVE  \E n \in T : \A m \in T : n <= m
  <1> DEFINE R == OpToRel(<, Nat)
  <1>1. IsWellFoundedOn(R, Nat)
    BY NatLessThanWellFounded
  <1>2. PICK n \in T : \A m \in T : <<m, n>> \notin R
    <2> HIDE DEF R
    <2> QED
      BY <1>1, WFMin
  <1>3. \A m \in T : ~(m < n)
    BY <1>2 DEF OpToRel
  <1> QED
    BY <1>3

\* Induction over an interval, for a set.
LEMMA Upward ==
  ASSUME NEW N \in Nat, NEW S, 0 \in S, \A n \in 1 .. N : n - 1 \in S => n \in S
  PROVE  0 .. N \subseteq S
  <1> DEFINE T == (0 .. N) \ S
  <1> SUFFICES ASSUME T # {} PROVE FALSE
    OBVIOUS
  <1>1. PICK n \in T : \A m \in T : n <= m
    <2>1. T \subseteq Nat
      OBVIOUS
    <2> HIDE DEF T
    <2> QED
      BY <2>1, LeastNatural
  <1>2. n \in 1 .. N /\ n - 1 \in 0 .. N /\ ~(n <= n - 1)
    BY <1>1
  <1> QED
    BY <1>1, <1>2

\* A recursive definition as step by step over the values in V.
Closed(N, V, step) == \A n \in 1 .. N : \A d \in V : step[n][d] \in V

Follows(f, N, V, b, step) ==
  /\ f \in [0 .. N -> V]
  /\ f[0] = b
  /\ \A n \in 1 .. N : f[n] = step[n][f[n - 1]]

LEMMA StepsExist ==
  ASSUME NEW N \in Nat, NEW V, NEW b \in V, NEW step, Closed(N, V, step)
  PROVE  \E f : Follows(f, N, V, b, step)
  <1> DEFINE S == {k \in 0 .. N : \E f : Follows(f, k, V, b, step)}
  <1>1. Follows([n \in 0 .. 0 |-> b], 0, V, b, step)
    BY DEF Follows
  <1>2. ASSUME NEW k \in 1 .. N, NEW f, Follows(f, k - 1, V, b, step)
        PROVE  \E g : Follows(g, k, V, b, step)
    <2> DEFINE g == [n \in 0 .. k |-> IF n = k THEN step[k][f[k - 1]] ELSE f[n]]
    <2>1. step[k][f[k - 1]] \in V
      BY <1>2 DEF Follows, Closed
    <2>2. Follows(g, k, V, b, step)
      BY <1>2, <2>1 DEF Follows
    <2> HIDE DEF g
    <2> QED
      BY <2>2
  <1>3. 0 \in S
    BY <1>1
  <1>4. \A k \in 1 .. N : k - 1 \in S => k \in S
    BY <1>2
  <1> HIDE DEF S
  <1>5. 0 .. N \subseteq S
    BY <1>3, <1>4, Upward
  <1>6. N \in S
    BY <1>5
  <1> QED
    BY <1>6 DEF S

\* What takes the first step and the others as far as it gets takes them all.
LEMMA Settled ==
  ASSUME NEW N \in Nat, NEW V, NEW b \in V, NEW step, Closed(N, V, step),
         NEW r, r = [n \in 0 .. N |-> r[n]], r[0] = b,
         \A n \in 1 .. N : r[n - 1] \in V => r[n] = step[n][r[n - 1]]
  PROVE  Follows(r, N, V, b, step)
  <1> DEFINE S == {n \in 0 .. N : r[n] \in V}
  <1>1. 0 \in S
    OBVIOUS
  <1>2. \A n \in 1 .. N : n - 1 \in S => n \in S
    BY DEF Closed
  <1> HIDE DEF S
  <1>3. 0 .. N \subseteq S
    BY <1>1, <1>2, Upward
  <1>4. \A n \in 0 .. N : r[n] \in V
    BY <1>3 DEF S
  <1>5. \A n \in 1 .. N : r[n] = step[n][r[n - 1]]
    <2> SUFFICES ASSUME NEW n \in 1 .. N PROVE r[n] = step[n][r[n - 1]]
      OBVIOUS
    <2>1. n - 1 \in 0 .. N
      OBVIOUS
    <2> QED
      BY <1>4, <2>1, Zenon
  <1>6. [n \in 0 .. N |-> r[n]] \in [0 .. N -> V]
    BY <1>4
  <1>7. r \in [0 .. N -> V]
    BY <1>6
  <1> QED
    BY <1>5, <1>7 DEF Follows

-----------------------------------------------------------------------------
(* Paths.                                                                  *)

LEMMA FrontOf ==
  ASSUME NEW S, NEW d \in Seq(S), d # <<>>
  PROVE  /\ Front(d) \in Seq(S)
         /\ Len(Front(d)) = Len(d) - 1
         /\ \A i \in 1 .. Len(d) - 1 : Front(d)[i] = d[i]
  <1>1. 1 \in Int /\ Len(d) - 1 \in Int /\ Len(d) - 1 >= 0
    OBVIOUS
  <1>2. \A i \in 1 .. Len(d) - 1 : d[i] \in S
    OBVIOUS
  <1>3. /\ SubSeq(d, 1, Len(d) - 1) \in Seq(S)
        /\ Len(SubSeq(d, 1, Len(d) - 1)) = Len(d) - 1
        /\ \A i \in 1 .. Len(d) - 1 : SubSeq(d, 1, Len(d) - 1)[i] = d[i]
    <2> DEFINE n == Len(d) - 1
    <2>1. n \in Int /\ n >= 0 /\ \A i \in 1 .. n : d[i] \in S
      BY <1>1, <1>2
    <2> HIDE DEF n
    <2>2. /\ SubSeq(d, 1, n) \in Seq(S)
          /\ Len(SubSeq(d, 1, n)) = (IF 1 <= n THEN n - 1 + 1 ELSE 0)
          /\ \A i \in 1 .. n - 1 + 1 : SubSeq(d, 1, n)[i] = d[1 + i - 1]
      BY <1>1, <2>1, SubSeqProperties
    <2>3. n - 1 + 1 = n /\ \A i \in 1 .. n : 1 + i - 1 = i
      BY <2>1
    <2>4. /\ SubSeq(d, 1, n) \in Seq(S)
          /\ Len(SubSeq(d, 1, n)) = n
          /\ \A i \in 1 .. n : SubSeq(d, 1, n)[i] = d[i]
      BY <2>1, <2>2, <2>3
    <2> QED
      BY <2>4 DEF n
  <1> QED
    BY <1>3 DEF Front

LEMMA EnterType ==
  ASSUME NEW d \in Seq(STRING), NEW name \in STRING
  PROVE  Enter(d, name) \in Seq(STRING)
  <1>1. CASE name = ".." /\ d # <<>>
    <2>1. Front(d) \in Seq(STRING)
      BY <1>1, FrontOf
    <2> QED
      BY <1>1, <2>1 DEF Enter
  <1>2. CASE name # ".." \/ d = <<>>
    BY <1>2, AppendProperties DEF Enter
  <1> QED
    BY <1>1, <1>2

\* Clean enters one name after the other.
LEMMA CleanSteps ==
  ASSUME NEW path \in Seq(STRING)
  PROVE  \E dir \in [0 .. Len(path) -> Seq(STRING)] :
           /\ dir[0] = <<>>
           /\ \A n \in 1 .. Len(path) : dir[n] = Enter(dir[n - 1], path[n])
           /\ Clean(path) = dir[Len(path)]
  <1> DEFINE V == Seq(STRING)
             N == Len(path)
             b == <<>>
             dir[n \in 0 .. Len(path)] == IF n = 0 THEN <<>> ELSE Enter(dir[n - 1], path[n])
             step == [n \in 1 .. N |-> [d \in V |-> Enter(d, path[n])]]
  <1>1. Clean(path) = dir[N]
    BY DEF Clean
  <1>2. \A d \in V, n \in 1 .. N : Enter(d, path[n]) \in V /\ step[n][d] = Enter(d, path[n])
    <2>1. \A n \in 1 .. N : path[n] \in STRING
      OBVIOUS
    <2> QED
      BY <2>1, EnterType
  <1>3. b \in V /\ N \in Nat /\ Closed(N, V, step)
    BY <1>2 DEF Closed
  <1>4. \E f : Follows(f, N, V, b, step)
    <2> HIDE DEF V, N, b, step
    <2> QED
      BY <1>3, StepsExist
  <1>5. PICK f : Follows(f, N, V, b, step)
    BY <1>4
  <1>6. f = [n \in 0 .. Len(path) |-> IF n = 0 THEN <<>> ELSE Enter(f[n - 1], path[n])]
    <2> HIDE DEF step
    <2>1. \A n \in 1 .. N : f[n - 1] \in V /\ f[n] = step[n][f[n - 1]]
      BY <1>3, <1>5 DEF Follows
    <2>2. \A n \in 1 .. N : f[n] = Enter(f[n - 1], path[n])
      BY <1>2, <2>1
    <2> QED
      BY <1>5, <2>2 DEF Follows
  <1>7. dir = [n \in 0 .. Len(path) |-> IF n = 0 THEN <<>> ELSE Enter(dir[n - 1], path[n])]
    BY <1>6
  <1> HIDE DEF dir, step
  <1>8. \A n \in 1 .. N : dir[n] = Enter(dir[n - 1], path[n])
    BY <1>7
  <1>9. \A n \in 1 .. N : dir[n - 1] \in V => dir[n] = step[n][dir[n - 1]]
    BY <1>2, <1>8
  <1>10. dir[0] = b /\ dir = [n \in 0 .. N |-> dir[n]]
    BY <1>3, <1>7
  <1>11. Follows(dir, N, V, b, step)
    <2> HIDE DEF V, N, b
    <2> QED
      BY <1>3, <1>9, <1>10, Settled
  <1> QED
    BY <1>1, <1>8, <1>11 DEF Follows

LEMMA CleanType ==
  ASSUME NEW path \in Seq(STRING)
  PROVE  Clean(path) \in Seq(STRING)
  <1>1. PICK dir \in [0 .. Len(path) -> Seq(STRING)] : Clean(path) = dir[Len(path)]
    BY CleanSteps
  <1>2. Len(path) \in 0 .. Len(path)
    OBVIOUS
  <1> QED
    BY <1>1, <1>2

LEMMA FrontOfAppend ==
  ASSUME NEW S, NEW s \in Seq(S), NEW e \in S
  PROVE  Front(Append(s, e)) = s /\ Last(Append(s, e)) = e
  <1> DEFINE t == Append(s, e)
  <1>1. /\ t \in Seq(S) /\ t # <<>> /\ Len(t) = Len(s) + 1 /\ t[Len(t)] = e
        /\ \A i \in 1 .. Len(s) : t[i] = s[i]
    BY AppendProperties
  <1> HIDE DEF t
  <1>2. /\ Front(t) \in Seq(S) /\ Len(Front(t)) = Len(s)
        /\ \A i \in 1 .. Len(s) : Front(t)[i] = t[i]
    BY <1>1, FrontOf
  <1>3. Front(t) = s
    BY <1>1, <1>2, SeqEqual
  <1> QED
    BY <1>1, <1>3 DEF Last, t

LEMMA NamesArePaths == Seq(Name) \subseteq Seq(STRING)
  <1>1. Name \subseteq STRING
    BY DEF Name
  <1> QED
    BY <1>1, SeqMonotonic

\* A path of plain names is clean.
LEMMA CleanPlain ==
  ASSUME NEW path \in Seq(Name)
  PROVE  Clean(path) = path
  <1>1. path \in Seq(STRING) /\ Len(path) \in Nat
    BY NamesArePaths
  <1>2. PICK dir \in [0 .. Len(path) -> Seq(STRING)] :
          /\ dir[0] = <<>>
          /\ \A n \in 1 .. Len(path) : dir[n] = Enter(dir[n - 1], path[n])
          /\ Clean(path) = dir[Len(path)]
    BY <1>1, CleanSteps
  <1> DEFINE Good(n) == Len(dir[n]) = n /\ \A i \in 1 .. n : dir[n][i] = path[i]
             S == {n \in 0 .. Len(path) : Good(n)}
  <1>3. 0 \in S
    BY <1>1, <1>2
  <1>4. ASSUME NEW n \in 1 .. Len(path), Good(n - 1)
        PROVE  Good(n)
    <2>1. path[n] \in Name /\ n - 1 \in 0 .. Len(path)
      OBVIOUS
    <2>2. dir[n] = Append(dir[n - 1], path[n])
      BY <1>2, <2>1 DEF Enter, Name
    <2> QED
      BY <1>4, <2>1, <2>2
  <1>5. 0 .. Len(path) \subseteq S
    <2>1. \A n \in 1 .. Len(path) : n - 1 \in S => n \in S
      <3> HIDE DEF Good
      <3> QED
        BY <1>4
    <2> HIDE DEF S
    <2> QED
      BY <1>1, <1>3, <2>1, Upward
  <1>6. Good(Len(path))
    BY <1>1, <1>5
  <1>7. dir[Len(path)] \in Seq(STRING)
    BY <1>1
  <1> QED
    BY <1>1, <1>2, <1>6, <1>7, SeqEqual

\* Clean keeps a plain last name.
LEMMA CleanEnd ==
  ASSUME NEW path \in Seq(STRING), path # <<>>, Last(path) \in Name
  PROVE  \E d \in Seq(STRING) : Clean(path) = Append(d, Last(path))
  <1>1. PICK dir \in [0 .. Len(path) -> Seq(STRING)] :
          /\ \A n \in 1 .. Len(path) : dir[n] = Enter(dir[n - 1], path[n])
          /\ Clean(path) = dir[Len(path)]
    BY CleanSteps
  <1>2. Len(path) \in 1 .. Len(path) /\ Len(path) - 1 \in 0 .. Len(path)
    OBVIOUS
  <1>3. Clean(path) = Append(dir[Len(path) - 1], Last(path))
    BY <1>1, <1>2 DEF Enter, Last, Name
  <1> QED
    BY <1>2, <1>3

-----------------------------------------------------------------------------
(* The plan of a pod.                                                      *)

PlanPod(p) ==
  /\ p.name \in Name /\ p.ordinal \in Name \cup {""} /\ p.replicaOf \in Name \cup {""}
  /\ p.scratchBase \in Name \cup {""}
  /\ p.volumes \subseteq Name /\ IsFiniteSet(p.volumes)
  /\ p.inputVolume \in STRING /\ p.outputVolume \in STRING /\ p.stageVolume \in STRING
  /\ p.input.path \in Seq(STRING) /\ p.output.path \in Seq(STRING)

LEMMA ShapesPlan ==
  ASSUME NEW p \in Shapes
  PROVE  PlanPod(p)
  BY ShapesAssumption DEF PodRecords, Locations, PlanPod

LEMMA ShortPaths ==
  ASSUME NEW S, NEW a \in S, NEW b \in S, NEW c \in S
  PROVE  /\ <<a, b>> \in Seq(S) /\ <<a, b>> # <<>>
         /\ <<a, b, c>> \in Seq(S) /\ <<a, b, c>> # <<>>
  OBVIOUS

LEMMA ScratchPaths ==
  ASSUME NEW p \in Shapes
  PROVE  /\ JobScratchBase(p) \in Seq(Name) /\ JobScratchBase(p) # <<>>
         /\ \A v \in p.volumes : VolumePaths(p)[v] \in Seq(Name) /\ VolumePaths(p)[v] # <<>>
         /\ DOMAIN VolumePaths(p) = p.volumes
  <1>1. PlanPod(p)
    BY ShapesPlan
  <1>2. ScratchRoot(p) \in Name
    BY <1>1, ShapesAssumption DEF PlanPod, ScratchRoot
  <1>3. Ordinal(p) \in Name
    BY <1>1, ShapesAssumption DEF PlanPod, Ordinal
  <1>4. JobScratchBase(p) \in Seq(Name) /\ JobScratchBase(p) # <<>>
    <2>1. CASE p.replicaOf # ""
      <3>1. p.replicaOf \in Name
        BY <1>1, <2>1 DEF PlanPod
      <3> QED
        BY <1>2, <1>3, <2>1, <3>1, ShortPaths, Zenon DEF JobScratchBase
    <2>2. CASE p.replicaOf = ""
      <3>1. p.name \in Name
        BY <1>1 DEF PlanPod
      <3> QED
        BY <1>2, <2>2, <3>1, ShortPaths, Zenon DEF JobScratchBase
    <2> QED
      BY <2>1, <2>2
  <1>5. \A v \in p.volumes : /\ Append(JobScratchBase(p), v) \in Seq(Name)
                             /\ Append(JobScratchBase(p), v) # <<>>
    BY <1>1, <1>4, AppendProperties DEF PlanPod
  <1> QED
    BY <1>4, <1>5 DEF VolumePaths

LEMMA StagePathType ==
  ASSUME NEW p \in Shapes, NEW specific, StagePath(p, specific) # NoPath
  PROVE  StagePath(p, specific) \in Seq(Name)
  <1>1. ASSUME p.volumes # {}
        PROVE  (CHOOSE only \in p.volumes : TRUE) \in p.volumes
    BY <1>1
  <1> QED
    BY <1>1, ScratchPaths, Zenon DEF StagePath

LEMMA Planned ==
  ASSUME NEW p \in Shapes, ~PlanRefused(p)
  PROVE  /\ Mode(p) \in {"globus", "sfapi"}
         /\ StagesIn(p) => InputDir(p) \in Seq(Name) /\ Parses(Mode(p), p.input)
         /\ StagesOut(p) => OutputDir(p) \in Seq(Name) /\ Parses(Mode(p), p.output)
  <1>1. /\ Mode(p) \in {"globus", "sfapi"}
        /\ StagesIn(p) => StagePath(p, p.inputVolume) # NoPath /\ Parses(Mode(p), p.input)
        /\ StagesOut(p) => StagePath(p, p.outputVolume) # NoPath /\ Parses(Mode(p), p.output)
    BY DEF PlanRefused
  <1> QED
    BY <1>1, StagePathType DEF InputDir, OutputDir

\* A file that can be opened has a path.
LEMMA InputHasPath ==
  ASSUME NEW p \in Shapes, StagesIn(p), LocalFileOpens(p.input), Parses("sfapi", p.input)
  PROVE  p.input.path # <<>>
  <1> SUFFICES ASSUME p.input.path = <<>> PROVE FALSE
    OBVIOUS
  <1>1. p.input.absolute
    BY ShapesAssumption DEF Parses
  <1>2. LocalPath(p.input) # NoPath
    BY StagingPlanAssumption DEF LocalFileOpens
  <1>3. IsPrefix(LocalRoot, Clean(<<>>)) /\ LocalRoot # <<>>
    BY <1>1, <1>2 DEF LocalPath
  <1>4. Clean(<<>>) = <<>>
    <2>1. <<>> \in Seq(Name)
      OBVIOUS
    <2> QED
      BY <2>1, CleanPlain
  <1>5. Len(LocalRoot) <= 0
    BY <1>3, <1>4 DEF IsPrefix
  <1> QED
    BY <1>3, <1>5, StagingPlanAssumption

LEMMA InputTargetType ==
  ASSUME NEW p \in Shapes, ~PlanRefused(p), StagesIn(p), Mode(p) = "sfapi",
         LocalFileOpens(p.input)
  PROVE  InputTarget(p) \in Seq(STRING) /\ Front(InputTarget(p)) \in Seq(STRING)
  <1>1. InputDir(p) \in Seq(STRING)
    BY Planned, NamesArePaths
  <1>2. Last(p.input.path) \in STRING
    <2>1. p.input.path # <<>>
      BY InputHasPath, Planned, Zenon
    <2>2. p.input.path \in Seq(STRING)
      BY ShapesPlan DEF PlanPod
    <2> QED
      BY <2>1, <2>2 DEF Last
  <1>3. InputTarget(p) \in Seq(STRING)
    BY <1>1, <1>2, AppendProperties, CleanType DEF InputTarget
  <1>4. \A d \in Seq(STRING) : Front(d) \in Seq(STRING)
    <2>1. Front(<<>>) = <<>>
      BY SubSeqEmpty DEF Front
    <2> QED
      BY <2>1, FrontOf
  <1> QED
    BY <1>3, <1>4

\* A plain last name is what the provider's file and the remote one share.
LEMMA TargetIs ==
  ASSUME NEW dir \in Seq(Name), NEW name \in Name
  PROVE  Clean(Append(dir, name)) = Append(dir, name)
  BY AppendProperties, CleanPlain

LEMMA LocalEnd ==
  ASSUME NEW loc, loc.path \in Seq(STRING), loc.path # <<>>, Last(loc.path) \in Name,
         LocalPath(loc) # NoPath
  PROVE  Last(LocalPath(loc)) = Last(loc.path)
  <1> DEFINE full == IF loc.absolute THEN loc.path ELSE LocalRoot \o loc.path
  <1>1. full \in Seq(STRING) /\ full # <<>> /\ Last(full) = Last(loc.path)
    <2>1. LocalRoot \in Seq(STRING)
      BY StagingPlanAssumption
    <2> DEFINE both == LocalRoot \o loc.path
    <2>2. /\ both \in Seq(STRING) /\ Len(both) = Len(LocalRoot) + Len(loc.path)
          /\ both[Len(both)] = loc.path[Len(loc.path)]
      BY <2>1, ConcatProperties
    <2>3. both # <<>>
      BY <2>1, <2>2
    <2> QED
      BY <2>2, <2>3 DEF Last
  <1>2. LocalPath(loc) = Clean(full)
    BY DEF LocalPath
  <1> HIDE DEF full
  <1>3. PICK d \in Seq(STRING) : Clean(full) = Append(d, Last(full))
    BY <1>1, CleanEnd
  <1>4. Last(full) \in STRING
    BY <1>1 DEF Name
  <1> QED
    BY <1>1, <1>2, <1>3, <1>4, FrontOfAppend

-----------------------------------------------------------------------------
(* What a call knows of its pod.                                           *)

GlobusSteps == {"start", "wait"}
FileSteps == {"open", "mkdir", "waitTask", "upload"}

CallPlan ==
  /\ at # "idle" => calls \in 1 .. MaxCalls /\ ~PlanRefused(pod)
  /\ at \in GlobusSteps \cup FileSteps => StagesIn(pod)
  /\ at \in GlobusSteps => Mode(pod) = "globus"
  /\ at \in FileSteps => Mode(pod) = "sfapi"
  /\ at \in FileSteps \ {"open"} => LocalFileOpens(pod.input)
  /\ at = "store" => ~ScriptRefused(pod)

TInv == StageInTypeOK /\ CallPlan

LEMMA TInvInit == Init => TInv
  <1> SUFFICES ASSUME Init PROVE TInv
    OBVIOUS
  <1>1. 0 \in 0 .. MaxCalls /\ 0 \in 0 .. MaxCrashes /\ <<>> \in Seq(Work) /\ Len(<<>>) = 0
    BY StageInAssumption
  <1>2. JobsTypeOK
    BY DEF Init, JobsInit, JobsTypeOK, TaskStates, SlurmStates
  <1>3. CallPlan
    BY DEF Init, CallPlan, GlobusSteps, FileSteps
  <1>4. /\ pod \in Shapes \cup {NoPod}
        /\ at \in Labels /\ (at # "idle" => pod \in Shapes)
        /\ calls \in 0 .. MaxCalls
        /\ holding \in Jobs \cup {NoJob} /\ (at = "store" => holding # NoJob)
        /\ tracked \in Jobs \cup {NoJob}
        /\ excused \subseteq Jobs
        /\ crashes \in 0 .. MaxCrashes
    BY <1>1 DEF Init, Labels
  <1>5. staging \in BOOLEAN /\ created \in BOOLEAN
    BY DEF Init
  <1>6. work \in Seq(Work) /\ mine \in 0 .. Len(work) /\ (at \in {"wait", "waitTask"} => mine # 0)
    BY <1>1 DEF Init
  <1> QED
    BY <1>2, <1>3, <1>4, <1>5, <1>6 DEF TInv, StageInTypeOK

\* The service is asked for one thing more, or one thing it does comes to an end.
LEMMA Asked ==
  ASSUME work \in Seq(Work), calls \in 1 .. MaxCalls,
         NEW op \in {"transfer", "mkdir", "upload"}, NEW dir \in Seq(STRING),
         NEW state \in {"active", "succeeded", "failed", "cancelled"},
         Ask(op, dir, state)
  PROVE  /\ work' \in Seq(Work) /\ Len(work') = Len(work) + 1
         /\ \A i \in 1 .. Len(work) : work'[i] = work[i]
         /\ work'[Len(work) + 1] = [op |-> op, call |-> calls, dir |-> dir, state |-> state]
  <1> DEFINE w == [op |-> op, call |-> calls, dir |-> dir, state |-> state]
  <1>1. w \in Work
    BY DEF Work
  <1>2. work' = Append(work, w)
    BY DEF Ask
  <1> HIDE DEF w
  <1>3. /\ work' \in Seq(Work) /\ Len(work') = Len(work) + 1
        /\ \A i \in 1 .. Len(work) : work'[i] = work[i]
        /\ work'[Len(work) + 1] = w
    BY <1>1, <1>2, AppendProperties
  <1> QED
    BY <1>3 DEF w

LEMMA Ended ==
  ASSUME work \in Seq(Work), NEW i \in DOMAIN work, WorkEnds(i)
  PROVE  /\ work' \in Seq(Work) /\ Len(work') = Len(work)
         /\ \A k \in 1 .. Len(work) \ {i} : work'[k] = work[k]
         /\ work'[i] = [work[i] EXCEPT !.state = work'[i].state]
         /\ work[i].state = "active"
         /\ UNCHANGED <<jobVars, at, mine, restVars>>
  <1>1. PICK end \in {"succeeded", "failed", "cancelled"} : work' = [work EXCEPT ![i].state = end]
    BY DEF WorkEnds
  <1>2. work[i] \in Work /\ i \in 1 .. Len(work)
    OBVIOUS
  <1> DEFINE w == [work[i] EXCEPT !.state = end]
  <1>3. w \in Work /\ w.state = end
    BY <1>2 DEF Work
  <1>4. work' = [work EXCEPT ![i] = w]
    BY <1>1, <1>2
  <1>5. w = [work[i] EXCEPT !.state = w.state]
    BY <1>3
  <1> HIDE DEF w
  <1>6. /\ work' \in Seq(Work) /\ Len(work') = Len(work)
        /\ \A k \in 1 .. Len(work) : work'[k] = IF k = i THEN w ELSE work[k]
    BY <1>2, <1>3, <1>4, ExceptSeq
  <1> QED
    BY <1>2, <1>5, <1>6 DEF WorkEnds

\* The steps that ask the service for something, and what they ask.
Asking ==
  \/ TransferStarts \/ TransferRefused
  \/ CommandAccepted \/ CommandRefused
  \/ UploadDone \/ UploadFails

AskedOp == [start |-> "transfer", mkdir |-> "mkdir", upload |-> "upload"][at]
AskedDir == IF at = "start" THEN InputDir(pod)
            ELSE IF at = "mkdir" THEN Front(InputTarget(pod)) ELSE InputTarget(pod)
AskedState == IF at = "upload" THEN "succeeded" ELSE "active"

\* The request is accepted and the call goes on, or it is over.
LEMMA AskingSteps ==
  ASSUME TInv, Asking
  PROVE  /\ at \in {"start", "mkdir", "upload"}
         /\ UNCHANGED <<jobVars, restVars>>
         /\ \/ UNCHANGED work /\ at' = "idle" /\ mine' = 0
            \/ /\ Ask(AskedOp, AskedDir, AskedState)
               /\ \/ at' = "idle" /\ mine' = 0
                  \/ at = "start" /\ at' = "wait" /\ mine' = Len(work')
                  \/ at = "mkdir" /\ at' = "waitTask" /\ mine' = Len(work')
                  \/ at = "upload" /\ at' = "submit" /\ mine' = mine
  BY DEF Asking, TransferStarts, TransferRefused, CommandAccepted, CommandRefused, UploadDone,
         UploadFails, AskFails, Return, Goto, AskedOp, AskedDir, AskedState

\* What it asks for is well-formed.
LEMMA AskedType ==
  ASSUME TInv, Asking
  PROVE  /\ work \in Seq(Work) /\ calls \in 1 .. MaxCalls
         /\ AskedOp \in {"transfer", "mkdir", "upload"}
         /\ AskedDir \in Seq(STRING)
         /\ AskedState \in {"active", "succeeded", "failed", "cancelled"}
  <1>1. at \in {"start", "mkdir", "upload"}
    BY AskingSteps
  <1>2. pod \in Shapes /\ ~PlanRefused(pod) /\ StagesIn(pod) /\ calls \in 1 .. MaxCalls
        /\ work \in Seq(Work)
    BY <1>1 DEF TInv, StageInTypeOK, CallPlan, GlobusSteps, FileSteps
  <1>3. AskedDir \in Seq(STRING)
    <2>1. CASE at = "start"
      BY <1>2, <2>1, Planned, NamesArePaths DEF AskedDir
    <2>2. CASE at \in {"mkdir", "upload"}
      <3>1. Mode(pod) = "sfapi" /\ LocalFileOpens(pod.input)
        BY <2>2 DEF TInv, CallPlan, FileSteps
      <3> QED
        BY <1>2, <2>2, <3>1, InputTargetType DEF AskedDir
    <2> QED
      BY <1>1, <2>1, <2>2
  <1> QED
    BY <1>1, <1>2, <1>3 DEF AskedOp, AskedState

LEMMA AskingKeepsTypes ==
  ASSUME TInv, Asking
  PROVE  TInv'
  <1>1. work' \in Seq(Work) /\ mine' \in 0 .. Len(work')
        /\ (at' \in {"wait", "waitTask"} => mine' # 0)
    <2>1. CASE UNCHANGED work /\ at' = "idle" /\ mine' = 0
      <3>1. work \in Seq(Work) /\ 0 \in 0 .. Len(work)
        BY DEF TInv, StageInTypeOK
      <3> QED
        BY <2>1, <3>1
    <2>2. CASE Ask(AskedOp, AskedDir, AskedState)
      <3>1. work' \in Seq(Work) /\ Len(work') = Len(work) + 1
        BY <2>2, Asked, AskedType
      <3>2. /\ Len(work) \in Nat /\ mine \in 0 .. Len(work)
            /\ mine' \in {0, mine, Len(work')}
            /\ (at' \in {"wait", "waitTask"} => mine' = Len(work'))
        BY AskingSteps DEF TInv, StageInTypeOK
      <3> QED
        BY <3>1, <3>2
    <2> QED
      BY <2>1, <2>2, AskingSteps
  <1>2. /\ UNCHANGED <<jobVars, restVars>>
        /\ \/ at' = "idle"
           \/ at = "start" /\ at' = "wait"
           \/ at = "mkdir" /\ at' = "waitTask"
           \/ at = "upload" /\ at' = "submit"
    BY AskingSteps
  <1>3. StageInTypeOK'
    BY <1>1, <1>2 DEF TInv, StageInTypeOK, JobsTypeOK, jobVars, restVars, mapVars, Labels
  <1>4. CallPlan'
    BY <1>2 DEF TInv, CallPlan, restVars, GlobusSteps, FileSteps
  <1> QED
    BY <1>3, <1>4 DEF TInv

\* The steps that ask for nothing, and where they lead.
Checking ==
  \/ TransferChecked \/ TransferCheckFails \/ TransferTimesOut
  \/ FileOpens \/ FileRefused
  \/ TaskEndSeen \/ TaskCheckFails
  \/ ScriptFails \/ JobRefused

LEMMA OnlySuccessIsSuccess ==
  ASSUME NEW state \in {"active", "succeeded", "failed", "cancelled"},
         NEW r \in Reports(state), IsComplete(r), ~HasFailed(r)
  PROVE  state = "succeeded"
  <1>1. CASE state = "active"
    <2> SUFFICES ~IsComplete(r)
      OBVIOUS
    <2>1. CASE r = Report("unset", "unset", "active")
      BY <2>1 DEF Report, IsComplete, GoodWords, BadWords
    <2>2. CASE r = Report("unset", "false", "")
      BY <2>2 DEF Report, IsComplete, GoodWords, BadWords
    <2>3. CASE r = Report("unset", "unset", "queued")
      BY <2>3 DEF Report, IsComplete, GoodWords, BadWords
    <2>4. CASE r = Report("unset", "unset", "expiring")
      BY <2>4 DEF Report, IsComplete, GoodWords, BadWords
    <2> QED
      BY <1>1, <2>1, <2>2, <2>3, <2>4 DEF Reports
  <1>2. CASE state \in {"failed", "cancelled"}
    <2> SUFFICES HasFailed(r)
      OBVIOUS
    <2>1. CASE r = Report("unset", "unset", "failed")
      BY <2>1 DEF Report, HasFailed, BadWords
    <2>2. CASE r = Report("false", "unset", "")
      BY <2>2 DEF Report, HasFailed, BadWords
    <2>3. CASE r = Report("false", "true", "done")
      BY <2>3 DEF Report, HasFailed, BadWords
    <2>4. CASE r = Report("unset", "true", "error")
      BY <2>4 DEF Report, HasFailed, BadWords
    <2> QED
      BY <1>2, <2>1, <2>2, <2>3, <2>4 DEF Reports
  <1> QED
    BY <1>1, <1>2

LEMMA CheckingSteps ==
  ASSUME TInv, Checking
  PROVE  /\ UNCHANGED <<jobVars, work, restVars>>
         /\ at # "idle"
         /\ \/ at' = "idle" /\ mine' = 0
            \/ at = "open" /\ at' = "mkdir" /\ LocalFileOpens(pod.input) /\ mine' = mine
            \/ /\ at = "wait" /\ at' = "submit" /\ mine' = 0
               /\ work[mine].state = "succeeded"
            \/ /\ at = "waitTask" /\ at' = "upload" /\ mine' = 0
               /\ work[mine].state = "succeeded"
  <1>1. CASE TransferChecked
    <2>1. PICK r \in Reports(work[mine].state) :
            IsComplete(r) /\ IF HasFailed(r) THEN Return ELSE Goto("submit") /\ mine' = 0
      BY <1>1 DEF TransferChecked
    <2>2. at = "wait" /\ UNCHANGED <<jobVars, work, restVars>>
      BY <1>1 DEF TransferChecked
    <2>3. work[mine].state \in {"active", "succeeded", "failed", "cancelled"}
      <3>1. mine \in 1 .. Len(work) /\ work \in Seq(Work)
        BY <2>2 DEF TInv, StageInTypeOK
      <3>2. work[mine] \in Work
        BY <3>1
      <3> QED
        BY <3>2 DEF Work
    <2> QED
      BY <2>1, <2>2, <2>3, OnlySuccessIsSuccess DEF Return, Goto
  <1>2. CASE ~TransferChecked
    BY <1>2 DEF Checking, TransferCheckFails, TransferTimesOut, FileOpens, FileRefused,
       TaskEndSeen, TaskCheckFails, ScriptFails, JobRefused, Return, Goto
  <1> QED
    BY <1>1, <1>2

LEMMA CheckingKeepsTypes ==
  ASSUME TInv, Checking
  PROVE  TInv'
  <1>1. UNCHANGED <<jobVars, work, restVars>>
    BY CheckingSteps
  <1>2. work \in Seq(Work) /\ Len(work) \in Nat /\ mine \in 0 .. Len(work)
    BY DEF TInv, StageInTypeOK
  <1>3. mine' \in {0, mine} /\ at' \notin {"wait", "waitTask"}
    BY CheckingSteps
  <1>4. StageInTypeOK'
    <2>1. at' \in {"idle", "mkdir", "submit", "upload"} /\ (at' # "idle" => at # "idle")
      BY CheckingSteps
    <2> QED
      BY <1>1, <1>2, <1>3, <2>1
      DEF TInv, StageInTypeOK, JobsTypeOK, jobVars, restVars, mapVars, Labels
  <1>5. CallPlan'
    BY <1>1, CheckingSteps DEF TInv, CallPlan, restVars, GlobusSteps, FileSteps
  <1> QED
    BY <1>4, <1>5 DEF TInv

LEMMA SubmittedTypes ==
  ASSUME TInv, NEW j \in Jobs, SubmitJob(j, KindOf(pod))
  PROVE  JobsTypeOK' /\ owner' = [owner EXCEPT ![j] = KindOf(pod)] /\ ~Submitted(j)
  <1>1. KindOf(pod) \in Pods
    BY StageInAssumption DEF Kinds, KindOf, StagesIn, StagesOut
  <1> QED
    BY <1>1 DEF SubmitJob, TInv, StageInTypeOK, JobsTypeOK, TaskStates, SlurmStates

LEMMA TInvNext == TInv /\ [Next]_vars => TInv'
  <1> SUFFICES ASSUME TInv, [Next]_vars PROVE TInv'
    OBVIOUS
  <1>1. CASE UNCHANGED vars
    <2>1. UNCHANGED <<owner, task, slurm, pod, at, calls, work, mine, holding, tracked, staging,
                      created, excused, crashes>>
      BY <1>1 DEF vars, callVars
    <2>2. JobsTypeOK'
      BY <2>1 DEF TInv, StageInTypeOK, JobsTypeOK
    <2>3. StageInTypeOK'
      BY <2>1, <2>2 DEF TInv, StageInTypeOK
    <2>4. CallPlan'
      BY <2>1 DEF TInv, CallPlan
    <2> QED
      BY <2>3, <2>4 DEF TInv
  <1>2. ASSUME NEW p \in Shapes, PodArrives(p) PROVE TInv'
    <2>1. /\ at = "idle" /\ pod' = p
          /\ UNCHANGED <<jobVars, at, calls, work, mine, holding, mapVars, excused, crashes>>
      BY <1>2, StageInAssumption DEF PodArrives, TInv, StageInTypeOK
    <2>2. StageInTypeOK'
      BY <2>1 DEF TInv, StageInTypeOK, JobsTypeOK, jobVars, mapVars
    <2>3. CallPlan'
      BY <2>1 DEF CallPlan, GlobusSteps, FileSteps
    <2> QED
      BY <2>2, <2>3 DEF TInv
  <1>3. CASE CallRefused \/ CallBegins
    <2>1. /\ pod # NoPod /\ at = "idle" /\ calls' = calls + 1 /\ calls < MaxCalls
          /\ UNCHANGED <<jobVars, pod, work, mine, holding, mapVars, excused, crashes>>
          /\ \/ at' = "idle"
             \/ /\ ~PlanRefused(pod)
                /\ \/ ~StagesIn(pod) /\ at' = "submit"
                   \/ StagesIn(pod) /\ Mode(pod) = "globus" /\ at' = "start"
                   \/ StagesIn(pod) /\ Mode(pod) # "globus" /\ at' = "open"
      BY <1>3 DEF CallRefused, CallBegins, Called, Goto
    <2>2. pod \in Shapes /\ calls' \in 1 .. MaxCalls
      BY <2>1, StageInAssumption DEF TInv, StageInTypeOK
    <2>3. ~PlanRefused(pod) => Mode(pod) \in {"globus", "sfapi"}
      BY <2>2, Planned
    <2>4. StageInTypeOK'
      BY <2>1, <2>2 DEF TInv, StageInTypeOK, JobsTypeOK, jobVars, mapVars, Labels
    <2>5. CallPlan'
      BY <2>1, <2>2, <2>3 DEF CallPlan, GlobusSteps, FileSteps
    <2> QED
      BY <2>4, <2>5 DEF TInv
  <1>4. CASE Asking
    BY <1>4, AskingKeepsTypes
  <1>5. CASE Checking
    BY <1>5, CheckingKeepsTypes
  <1>6. CASE JobAccepted
    <2>1. PICK j \in Jobs : SubmitJob(j, KindOf(pod)) /\ holding' = j
      BY <1>6 DEF JobAccepted
    <2>2. /\ at = "submit" /\ ~ScriptRefused(pod) /\ at' = "store"
          /\ UNCHANGED <<pod, calls, work, mine, mapVars, excused, crashes>>
      BY <1>6 DEF JobAccepted, Goto
    <2>3. StageInTypeOK'
      BY <2>1, <2>2, SubmittedTypes, StageInAssumption DEF TInv, StageInTypeOK, mapVars, Labels
    <2>4. CallPlan'
      BY <2>2 DEF TInv, CallPlan, GlobusSteps, FileSteps
    <2> QED
      BY <2>3, <2>4 DEF TInv
  <1>7. CASE JobReplyLost
    <2>1. PICK j \in Jobs : SubmitJob(j, KindOf(pod)) /\ excused' = excused \cup {j}
      BY <1>7 DEF JobReplyLost
    <2>2. /\ at' = "idle" /\ mine' = 0
          /\ UNCHANGED <<pod, calls, work, holding, mapVars, crashes>>
      BY <1>7 DEF JobReplyLost, Return
    <2>3. 0 \in 0 .. Len(work)
      BY DEF TInv, StageInTypeOK
    <2>4. StageInTypeOK'
      BY <2>1, <2>2, <2>3, SubmittedTypes DEF TInv, StageInTypeOK, mapVars, Labels
    <2>5. CallPlan'
      BY <2>2 DEF CallPlan, GlobusSteps, FileSteps
    <2> QED
      BY <2>4, <2>5 DEF TInv
  <1>8. CASE JobStored
    <2>1. /\ at' = "idle" /\ mine' = 0 /\ tracked' = holding /\ holding' = NoJob
          /\ created' = TRUE
          /\ UNCHANGED <<jobVars, pod, calls, work, excused, crashes>>
      BY <1>8 DEF JobStored, Return
    <2>2. 0 \in 0 .. Len(work) /\ staging' \in BOOLEAN /\ created' \in BOOLEAN
      BY <1>8 DEF JobStored, HasPlan, TInv, StageInTypeOK, StagesIn, StagesOut
    <2>3. StageInTypeOK'
      BY <2>1, <2>2 DEF TInv, StageInTypeOK, JobsTypeOK, jobVars, Labels
    <2>4. CallPlan'
      BY <2>1 DEF CallPlan, GlobusSteps, FileSteps
    <2> QED
      BY <2>3, <2>4 DEF TInv
  <1>9. ASSUME NEW i \in DOMAIN work, WorkEnds(i) PROVE TInv'
    <2>1. /\ work' \in Seq(Work) /\ Len(work') = Len(work)
          /\ UNCHANGED <<jobVars, at, mine, restVars>>
      BY <1>9, Ended DEF TInv, StageInTypeOK
    <2> QED
      BY <2>1 DEF TInv, StageInTypeOK, JobsTypeOK, CallPlan, jobVars, restVars, mapVars
  <1>10. CASE Restart
    <2>1. /\ at' = "idle" /\ mine' = 0 /\ tracked' = NoJob /\ holding' = NoJob
          /\ staging' = FALSE /\ crashes < MaxCrashes /\ crashes' = crashes + 1
          /\ UNCHANGED <<jobVars, pod, calls, work, created>>
          /\ excused' = excused \cup {j \in Jobs : Submitted(j)}
      BY <1>10 DEF Restart, Return
    <2>2. 0 \in 0 .. Len(work) /\ crashes' \in 0 .. MaxCrashes
      <3>1. work \in Seq(Work) /\ crashes \in 0 .. MaxCrashes /\ MaxCrashes \in Nat
        BY StageInAssumption DEF TInv, StageInTypeOK
      <3> QED
        BY <2>1, <3>1
    <2>3. StageInTypeOK'
      BY <2>1, <2>2 DEF TInv, StageInTypeOK, JobsTypeOK, jobVars, Labels
    <2>4. CallPlan'
      BY <2>1 DEF CallPlan, GlobusSteps, FileSteps
    <2> QED
      BY <2>3, <2>4 DEF TInv
  <1> QED
    BY <1>1, <1>2, <1>3, <1>4, <1>5, <1>6, <1>7, <1>8, <1>9, <1>10
    DEF Next, Call, Asking, Checking, TransferStep, WaitStep, OpenStep, CommandStep, UploadStep,
        SubmitStep

\* Each CreatePod call keeps to its labels, waits only for something it asked
\* for, and stores only a job it holds (nersc.go:173, staging.go:217).
THEOREM StageInTypes == Spec => []StageInTypeOK
  <1>1. TInv => StageInTypeOK
    BY DEF TInv
  <1> QED
    BY <1>1, TInvInit, TInvNext, PTL DEF Spec

-----------------------------------------------------------------------------
(* What a call knows of what it asked for.                                 *)

\* This call has had op done in dir.
Had(op, dir) ==
  \E i \in 1 .. Len(work) : /\ work[i].op = op /\ work[i].call = calls
                            /\ work[i].dir = dir /\ work[i].state = "succeeded"

WaitsFor(op, dir) ==
  work[mine].op = op /\ work[mine].call = calls /\ work[mine].dir = dir

CallWork ==
  /\ at = "wait" => WaitsFor("transfer", InputDir(pod))
  /\ at = "waitTask" => WaitsFor("mkdir", Front(InputTarget(pod)))
  /\ at = "upload" => Had("mkdir", Front(InputTarget(pod)))
  /\ at = "submit" /\ StagesIn(pod) =>
       \/ Mode(pod) = "globus" /\ Had("transfer", InputDir(pod))
       \/ /\ Mode(pod) = "sfapi" /\ LocalFileOpens(pod.input)
          /\ Had("upload", InputTarget(pod))

WInv == TInv /\ CallWork /\ UploadsFindDirectory

\* Nothing the service was asked for is taken back.
WorkStays ==
  /\ Len(work) <= Len(work')
  /\ \A i \in 1 .. Len(work) :
       /\ work'[i].op = work[i].op /\ work'[i].call = work[i].call
       /\ work'[i].dir = work[i].dir
       /\ work[i].state = "succeeded" => work'[i].state = "succeeded"

LEMMA WorkGrows ==
  ASSUME TInv, [Next]_vars
  PROVE  WorkStays
  <1>1. work \in Seq(Work)
    BY DEF TInv, StageInTypeOK
  <1>2. CASE UNCHANGED work
    BY <1>1, <1>2 DEF WorkStays
  <1>3. CASE Asking
    <2>1. CASE Ask(AskedOp, AskedDir, AskedState)
      <3>1. /\ Len(work') = Len(work) + 1
            /\ \A i \in 1 .. Len(work) : work'[i] = work[i]
        BY <1>3, <2>1, AskedType, Asked
      <3> QED
        BY <1>1, <3>1 DEF WorkStays
    <2> QED
      BY <1>2, <1>3, <2>1, AskingSteps
  <1>4. ASSUME NEW i \in DOMAIN work, WorkEnds(i)
        PROVE  WorkStays
    <2>1. /\ Len(work') = Len(work) /\ i \in 1 .. Len(work)
          /\ \A k \in 1 .. Len(work) \ {i} : work'[k] = work[k]
          /\ work'[i] = [work[i] EXCEPT !.state = work'[i].state]
          /\ work[i].state = "active"
      BY <1>1, <1>4, Ended
    <2>2. work'[i].op = work[i].op /\ work'[i].call = work[i].call /\ work'[i].dir = work[i].dir
      <3>1. work[i] \in Work
        BY <1>1, <2>1
      <3> QED
        BY <2>1, <3>1 DEF Work
    <2> QED
      BY <1>1, <2>1, <2>2 DEF WorkStays
  <1>5. CASE UNCHANGED vars
    BY <1>2, <1>5 DEF vars, callVars
  <1>6. CASE Checking
    BY <1>2, <1>6, CheckingSteps
  <1>7. CASE \/ \E p \in Shapes : PodArrives(p)
             \/ CallRefused \/ CallBegins \/ JobAccepted \/ JobReplyLost \/ JobStored \/ Restart
    BY <1>2, <1>7 DEF PodArrives, CallRefused, CallBegins, JobAccepted, JobReplyLost, JobStored,
       Restart
  <1> QED
    BY <1>3, <1>4, <1>5, <1>6, <1>7
    DEF Next, Call, Asking, Checking, TransferStep, WaitStep, OpenStep, CommandStep, UploadStep,
        SubmitStep

LEMMA HadStays ==
  ASSUME TInv, WorkStays, calls' = calls, NEW op, NEW dir, Had(op, dir)
  PROVE  Had(op, dir)'
  <1>1. PICK i \in 1 .. Len(work) : /\ work[i].op = op /\ work[i].call = calls
                                    /\ work[i].dir = dir /\ work[i].state = "succeeded"
    BY DEF Had
  <1>2. Len(work) \in Nat /\ Len(work') \in Nat
    BY DEF TInv, StageInTypeOK, WorkStays
  <1>3. i \in 1 .. Len(work')
    BY <1>1, <1>2 DEF WorkStays
  <1> QED
    BY <1>1, <1>3 DEF Had, WorkStays

\* The uploads there were keep their directories.
LEMMA UploadsStay ==
  ASSUME TInv, TInv', WorkStays, UploadsFindDirectory,
         \A i \in 1 .. Len(work') :
           i \notin 1 .. Len(work) /\ work'[i].op = "upload" =>
             \E k \in 1 .. Len(work) : /\ work[k].op = "mkdir"
                                       /\ work[k].call = work'[i].call
                                       /\ work[k].state = "succeeded"
                                       /\ work[k].dir = Front(work'[i].dir)
  PROVE  UploadsFindDirectory'
  <1>1. /\ DOMAIN work = 1 .. Len(work) /\ DOMAIN work' = 1 .. Len(work')
        /\ Len(work) \in Nat /\ Len(work') \in Nat /\ Len(work) <= Len(work')
    BY DEF TInv, StageInTypeOK, WorkStays
  <1> SUFFICES ASSUME NEW i \in 1 .. Len(work'), work'[i].op = "upload"
               PROVE  \E k \in 1 .. i - 1 : /\ work'[k].op = "mkdir"
                                            /\ work'[k].call = work'[i].call
                                            /\ work'[k].state = "succeeded"
                                            /\ work'[k].dir = Front(work'[i].dir)
    BY <1>1 DEF UploadsFindDirectory
  <1>2. \E k \in 1 .. Len(work) : /\ k < i
                                  /\ work[k].op = "mkdir"
                                  /\ work[k].call = work'[i].call
                                  /\ work[k].state = "succeeded"
                                  /\ work[k].dir = Front(work'[i].dir)
    <2>1. CASE i \in 1 .. Len(work)
      <3>1. /\ work'[i].op = work[i].op /\ work'[i].call = work[i].call
            /\ work'[i].dir = work[i].dir
        BY <2>1 DEF WorkStays
      <3>2. PICK k \in 1 .. i - 1 : /\ work[k].op = "mkdir"
                                    /\ work[k].call = work[i].call
                                    /\ work[k].state = "succeeded"
                                    /\ work[k].dir = Front(work[i].dir)
        BY <1>1, <2>1, <3>1 DEF UploadsFindDirectory
      <3>3. k \in 1 .. Len(work) /\ k < i
        BY <1>1, <2>1
      <3> QED
        BY <3>1, <3>2, <3>3
    <2>2. CASE i \notin 1 .. Len(work)
      <3>1. \A k \in 1 .. Len(work) : k < i
        BY <1>1, <2>2
      <3> QED
        BY <2>2, <3>1
    <2> QED
      BY <2>1, <2>2
  <1>3. PICK k \in 1 .. Len(work) : /\ k < i
                                    /\ work[k].op = "mkdir"
                                    /\ work[k].call = work'[i].call
                                    /\ work[k].state = "succeeded"
                                    /\ work[k].dir = Front(work'[i].dir)
    BY <1>2
  <1>4. k \in 1 .. i - 1
    BY <1>1, <1>3
  <1> QED
    BY <1>3, <1>4 DEF WorkStays

LEMMA WInvInit == Init => WInv
  <1> SUFFICES ASSUME Init PROVE WInv
    OBVIOUS
  <1>1. at = "idle" /\ DOMAIN work = {}
    BY DEF Init
  <1> QED
    BY <1>1, TInvInit DEF WInv, CallWork, UploadsFindDirectory

LEMMA WInvNext == WInv /\ [Next]_vars => WInv'
  <1> SUFFICES ASSUME WInv, [Next]_vars PROVE WInv'
    OBVIOUS
  <1>1. TInv /\ TInv' /\ WorkStays
    BY TInvNext, WorkGrows DEF WInv
  <1>2. work \in Seq(Work) /\ work' \in Seq(Work) /\ Len(work) \in Nat /\ Len(work') \in Nat
    BY <1>1 DEF TInv, StageInTypeOK
  <1>3. ASSUME Len(work') = Len(work) PROVE UploadsFindDirectory'
    BY <1>1, <1>3, UploadsStay DEF WInv
  <1>4. CASE Asking
    <2>1. /\ work \in Seq(Work) /\ calls \in 1 .. MaxCalls
          /\ at \in {"start", "mkdir", "upload"} /\ pod' = pod /\ calls' = calls
      BY <1>1, <1>4, AskingSteps, AskedType DEF restVars
    <2>2. CASE UNCHANGED work /\ at' = "idle"
      BY <1>3, <1>1, <2>2 DEF WInv, CallWork
    <2>3. CASE Ask(AskedOp, AskedDir, AskedState)
      <3>1. /\ Len(work') = Len(work) + 1
            /\ \A i \in 1 .. Len(work) : work'[i] = work[i]
            /\ work'[Len(work) + 1] =
                 [op |-> AskedOp, call |-> calls, dir |-> AskedDir, state |-> AskedState]
        BY <1>1, <1>4, <2>3, AskedType, Asked
      <3>2. /\ work'[Len(work')].op = AskedOp /\ work'[Len(work')].call = calls
            /\ work'[Len(work')].dir = AskedDir /\ work'[Len(work')].state = AskedState
        BY <3>1
      <3>3. UploadsFindDirectory'
        <4>1. ASSUME NEW i \in 1 .. Len(work'), i \notin 1 .. Len(work), work'[i].op = "upload"
              PROVE  \E k \in 1 .. Len(work) : /\ work[k].op = "mkdir"
                                               /\ work[k].call = work'[i].call
                                               /\ work[k].state = "succeeded"
                                               /\ work[k].dir = Front(work'[i].dir)
          <5>1. i = Len(work')
            BY <1>2, <3>1, <4>1
          <5>2. at = "upload"
            BY <2>1, <3>2, <4>1, <5>1 DEF AskedOp
          <5>3. Had("mkdir", Front(InputTarget(pod)))
            BY <5>2 DEF WInv, CallWork
          <5>4. work'[i].dir = InputTarget(pod) /\ work'[i].call = calls
            BY <3>2, <5>1, <5>2 DEF AskedDir
          <5> QED
            BY <5>3, <5>4 DEF Had
        <4> QED
          BY <1>1, <4>1, UploadsStay DEF WInv
      <3>4. CallWork'
        <4>1. CASE at' = "idle"
          BY <4>1 DEF CallWork
        <4>2. CASE at = "start" /\ at' = "wait" /\ mine' = Len(work')
          BY <2>1, <3>2, <4>2 DEF CallWork, WaitsFor, AskedOp, AskedDir
        <4>3. CASE at = "mkdir" /\ at' = "waitTask" /\ mine' = Len(work')
          BY <2>1, <3>2, <4>3 DEF CallWork, WaitsFor, AskedOp, AskedDir
        <4>4. CASE at = "upload" /\ at' = "submit"
          <5>1. /\ work'[Len(work')].op = "upload" /\ work'[Len(work')].call = calls
                /\ work'[Len(work')].dir = InputTarget(pod)
                /\ work'[Len(work')].state = "succeeded"
            BY <3>2, <4>4 DEF AskedOp, AskedDir, AskedState
          <5>2. Len(work') \in 1 .. Len(work')
            BY <1>2, <3>1
          <5>3. Had("upload", InputTarget(pod))'
            BY <2>1, <5>1, <5>2 DEF Had
          <5>4. Mode(pod) = "sfapi" /\ LocalFileOpens(pod.input)
            BY <1>1, <4>4 DEF TInv, CallPlan, FileSteps
          <5> QED
            BY <2>1, <4>4, <5>3, <5>4 DEF CallWork
        <4> QED
          BY <1>1, <1>4, <4>1, <4>2, <4>3, <4>4, <2>3, AskingSteps
      <3> QED
        BY <1>1, <3>3, <3>4 DEF WInv
    <2> QED
      BY <1>1, <1>4, <2>2, <2>3, AskingSteps
  <1>5. CASE Checking
    <2>1. /\ UNCHANGED <<work, pod, calls>> /\ at # "idle"
          /\ \/ at' = "idle"
             \/ at = "open" /\ at' = "mkdir"
             \/ /\ at = "wait" /\ at' = "submit" /\ work[mine].state = "succeeded"
             \/ /\ at = "waitTask" /\ at' = "upload" /\ work[mine].state = "succeeded"
      BY <1>1, <1>5, CheckingSteps DEF restVars
    <2>2. ASSUME at \in {"wait", "waitTask"} PROVE mine \in 1 .. Len(work)
      BY <1>1, <2>2 DEF TInv, StageInTypeOK
    <2>3. CallWork'
      <3>1. CASE at' \in {"idle", "mkdir"}
        BY <3>1 DEF CallWork
      <3>2. CASE at = "wait" /\ at' = "submit"
        <4>1. Had("transfer", InputDir(pod))'
          BY <2>1, <2>2, <3>2 DEF WInv, CallWork, WaitsFor, Had
        <4>2. Mode(pod) = "globus"
          BY <1>1, <3>2 DEF TInv, CallPlan, GlobusSteps
        <4> QED
          BY <2>1, <3>2, <4>1, <4>2 DEF CallWork
      <3>3. CASE at = "waitTask" /\ at' = "upload"
        <4>1. Had("mkdir", Front(InputTarget(pod)))'
          BY <2>1, <2>2, <3>3 DEF WInv, CallWork, WaitsFor, Had
        <4> QED
          BY <2>1, <3>3, <4>1 DEF CallWork
      <3> QED
        BY <2>1, <3>1, <3>2, <3>3
    <2> QED
      BY <1>1, <1>3, <2>1, <2>3 DEF WInv
  <1>6. ASSUME NEW i \in DOMAIN work, WorkEnds(i) PROVE WInv'
    <2>1. Len(work') = Len(work) /\ UNCHANGED <<pod, calls, at, mine>>
      BY <1>2, <1>6, Ended DEF restVars
    <2>2. \A op, dir : Had(op, dir) => Had(op, dir)'
      BY <1>1, <2>1, HadStays
    <2>3. ASSUME at \in {"wait", "waitTask"}, NEW op, NEW dir, WaitsFor(op, dir)
          PROVE  WaitsFor(op, dir)'
      <3>1. mine \in 1 .. Len(work)
        BY <1>1, <2>3 DEF TInv, StageInTypeOK
      <3> QED
        BY <1>1, <2>1, <2>3, <3>1 DEF WorkStays, WaitsFor
    <2>4. CallWork'
      BY <2>1, <2>2, <2>3 DEF WInv, CallWork
    <2> QED
      BY <1>1, <1>3, <2>1, <2>4 DEF WInv
  <1>7. CASE UNCHANGED vars
    <2>1. UNCHANGED <<work, pod, calls, at, mine>>
      BY <1>7 DEF vars, callVars
    <2>2. CallWork'
      BY <2>1 DEF WInv, CallWork, Had, WaitsFor
    <2> QED
      BY <1>1, <1>3, <2>1, <2>2 DEF WInv
  <1>8. CASE CallBegins
    <2>1. /\ UNCHANGED <<work, pod>>
          /\ \/ StagesIn(pod) /\ at' \in {"start", "open"}
             \/ ~StagesIn(pod) /\ at' = "submit"
      BY <1>8 DEF CallBegins, Goto
    <2>2. CallWork'
      BY <2>1 DEF CallWork
    <2> QED
      BY <1>1, <1>3, <2>1, <2>2 DEF WInv
  <1>9. CASE \/ \E p \in Shapes : PodArrives(p)
             \/ CallRefused \/ JobAccepted \/ JobReplyLost \/ JobStored \/ Restart
    <2>1. UNCHANGED work /\ at' \in {"idle", "store"}
      <3>1. ASSUME pod = NoPod PROVE at = "idle"
        BY <1>1, <3>1, StageInAssumption DEF TInv, StageInTypeOK
      <3> QED
        BY <1>9, <3>1 DEF PodArrives, CallRefused, Called, JobAccepted, JobReplyLost, JobStored,
           Restart, Return, Goto
    <2>2. CallWork'
      BY <2>1 DEF CallWork
    <2> QED
      BY <1>1, <1>3, <2>1, <2>2 DEF WInv
  <1> QED
    BY <1>4, <1>5, <1>6, <1>7, <1>8, <1>9
    DEF Next, Call, Asking, Checking, TransferStep, WaitStep, OpenStep, CommandStep, UploadStep,
        SubmitStep

\* No file is uploaded before a command of the same call is known to have made
\* its directory, whatever earlier calls left behind (staging.go:253-258).
THEOREM UploadsHaveDirectories == Spec => []UploadsFindDirectory
  <1>1. WInv => UploadsFindDirectory
    BY DEF WInv
  <1> QED
    BY <1>1, WInvInit, WInvNext, PTL DEF Spec

-----------------------------------------------------------------------------
(* What is known once there is a job.                                      *)

JobPlan == HasJob => pod \in Shapes /\ ~PlanRefused(pod) /\ ~ScriptRefused(pod)

JInv == TInv /\ JobPlan

LEMMA JInvInit == Init => JInv
  <1> SUFFICES ASSUME Init PROVE JInv
    OBVIOUS
  <1>1. ~HasJob
    BY DEF Init, JobsInit, HasJob, Submitted
  <1> QED
    BY <1>1, TInvInit DEF JInv, JobPlan

\* A job is given out by the last step of a call only.
LEMMA JobsComeFromSubmission ==
  ASSUME TInv, [Next]_vars, owner' # owner
  PROVE  /\ at = "submit" /\ ~ScriptRefused(pod) /\ pod' = pod
         /\ UNCHANGED <<calls, work>>
  <1>1. CASE JobAccepted \/ JobReplyLost
    BY <1>1 DEF JobAccepted, JobReplyLost
  <1>2. CASE Asking
    BY <1>2, AskingSteps DEF jobVars
  <1>3. CASE Checking
    BY <1>3, CheckingSteps DEF jobVars
  <1>4. CASE UNCHANGED vars
    BY <1>4 DEF vars
  <1>5. CASE \/ \E p \in Shapes : PodArrives(p)
             \/ CallRefused \/ CallBegins \/ JobStored \/ Restart
             \/ \E i \in DOMAIN work : WorkEnds(i)
    BY <1>5 DEF PodArrives, CallRefused, CallBegins, JobStored, Restart, WorkEnds, jobVars
  <1> QED
    BY <1>1, <1>2, <1>3, <1>4, <1>5
    DEF Next, Call, Asking, Checking, TransferStep, WaitStep, OpenStep, CommandStep, UploadStep,
        SubmitStep

\* A bound pod stays.
LEMMA PodStays ==
  ASSUME TInv, [Next]_vars, pod # NoPod
  PROVE  pod' = pod
  <1>1. CASE Asking
    BY <1>1, AskingSteps DEF restVars
  <1>2. CASE Checking
    BY <1>2, CheckingSteps DEF restVars
  <1>3. CASE UNCHANGED vars
    BY <1>3 DEF vars, callVars
  <1>4. CASE \/ \E p \in Shapes : PodArrives(p)
             \/ CallRefused \/ CallBegins \/ JobAccepted \/ JobReplyLost \/ JobStored \/ Restart
             \/ \E i \in DOMAIN work : WorkEnds(i)
    BY <1>4 DEF PodArrives, CallRefused, CallBegins, JobAccepted, JobReplyLost, JobStored,
       Restart, WorkEnds, restVars
  <1> QED
    BY <1>1, <1>2, <1>3, <1>4
    DEF Next, Call, Asking, Checking, TransferStep, WaitStep, OpenStep, CommandStep, UploadStep,
        SubmitStep

LEMMA JInvNext == JInv /\ [Next]_vars => JInv'
  <1> SUFFICES ASSUME JInv, [Next]_vars PROVE JInv'
    OBVIOUS
  <1>1. TInv /\ TInv'
    BY TInvNext DEF JInv
  <1>2. CASE owner' = owner
    <2>1. HasJob' <=> HasJob
      BY <1>2 DEF HasJob, Submitted
    <2>2. HasJob => pod' = pod
      BY <1>1, PodStays, StageInAssumption DEF JInv, JobPlan
    <2> QED
      BY <1>1, <2>1, <2>2 DEF JInv, JobPlan
  <1>3. CASE owner' # owner
    <2>1. at = "submit" /\ ~ScriptRefused(pod) /\ pod' = pod
      BY <1>1, <1>3, JobsComeFromSubmission
    <2>2. pod \in Shapes /\ ~PlanRefused(pod)
      BY <1>1, <2>1 DEF TInv, StageInTypeOK, CallPlan
    <2> QED
      BY <1>1, <2>1, <2>2 DEF JInv, JobPlan
  <1> QED
    BY <1>2, <1>3

LEMMA OptionsReach ==
  ASSUME NEW p \in Shapes, ~ScriptRefused(p), NEW o \in p.options
  PROVE  [flag |-> o, value |-> o] \in Directives(p) \cup LaunchFlags(p)
  <1>1. o \in SlurmOptions /\ o \in Given(p) /\ Value(p, o) = o
    BY ShapesAssumption DEF PodRecords, Given, Value
  <1>2. CASE o # "gpus-per-task"
    BY <1>1, <1>2 DEF Directives, Flags
  <1>3. CASE o = "gpus-per-task"
    <2>1. Launcher(p) = "srun"
      BY <1>3 DEF ScriptRefused, OptionsRefused
    <2>2. o \in {"ntasks", "tasks-per-node", "cpus-per-task", "gpus-per-task"}
      BY <1>3
    <2> QED
      BY <1>1, <2>1, <2>2 DEF LaunchFlags, Flags
  <1> QED
    BY <1>2, <1>3

\* No option a pod was annotated with is dropped on the way to Slurm: one that
\* no flag would carry makes CreatePod fail (slurm.go:176-195, 198-256).
THEOREM AllOptionsReachSlurm == Spec => []OptionsReachSlurm
  <1>1. JInv => OptionsReachSlurm
    BY OptionsReach DEF JInv, JobPlan, OptionsReachSlurm
  <1> QED
    BY <1>1, JInvInit, JInvNext, PTL DEF Spec

-----------------------------------------------------------------------------
(* What a script runs.                                                     *)

Containers == [name : Name, mounts : Seq(Name)]

LEMMA PodContainers ==
  ASSUME NEW p \in Shapes
  PROVE  /\ p.containers \in Seq(Containers) /\ Len(p.containers) \in Nat
         /\ p.containers # <<>> => Len(p.containers) > 0
         /\ \A i \in 1 .. Len(p.containers) : p.containers[i] \in Containers
  <1>1. p.containers \in Seq(Containers)
    BY ShapesAssumption DEF PodRecords, Containers
  <1> HIDE DEF Containers
  <1> QED
    BY <1>1

\* What is left of a sequence without one of its elements.
LEMMA Removed ==
  ASSUME NEW C, NEW s \in Seq(C), NEW m \in 1 .. Len(s)
  PROVE  /\ RemoveAt(s, m) \in Seq(C)
         /\ Len(RemoveAt(s, m)) = Len(s) - 1
         /\ \A i \in 1 .. Len(s) - 1 : RemoveAt(s, m)[i] = s[IF i < m THEN i ELSE i + 1]
  <1> DEFINE before == SubSeq(s, 1, m - 1)
             after  == SubSeq(s, m + 1, Len(s))
  <1>1. Len(s) \in Nat /\ \A i \in 1 .. Len(s) : s[i] \in C
    OBVIOUS
  <1>3. /\ before \in Seq(C) /\ Len(before) = m - 1
        /\ \A i \in 1 .. m - 1 : before[i] = s[i]
    <2>1. \A i \in 1 .. m - 1 : s[i] \in C
      BY <1>1
    <2>2. 1 \in Int /\ m - 1 \in Int
      OBVIOUS
    <2>3. /\ SubSeq(s, 1, m - 1) \in Seq(C)
          /\ Len(SubSeq(s, 1, m - 1)) = (IF 1 <= m - 1 THEN (m - 1) - 1 + 1 ELSE 0)
          /\ \A i \in 1 .. (m - 1) - 1 + 1 : SubSeq(s, 1, m - 1)[i] = s[1 + i - 1]
      BY <2>1, <2>2, SubSeqProperties
    <2> QED
      BY <2>3
  <1>4. /\ after \in Seq(C) /\ Len(after) = Len(s) - m
        /\ \A i \in 1 .. Len(s) - m : after[i] = s[m + i]
    <2>1. \A i \in m + 1 .. Len(s) : s[i] \in C
      BY <1>1
    <2>2. m + 1 \in Int /\ Len(s) \in Int
      BY <1>1
    <2>3. /\ SubSeq(s, m + 1, Len(s)) \in Seq(C)
          /\ Len(SubSeq(s, m + 1, Len(s))) =
               (IF m + 1 <= Len(s) THEN Len(s) - (m + 1) + 1 ELSE 0)
          /\ \A i \in 1 .. Len(s) - (m + 1) + 1 :
               SubSeq(s, m + 1, Len(s))[i] = s[(m + 1) + i - 1]
      BY <2>1, <2>2, SubSeqProperties
    <2> QED
      BY <1>1, <2>3
  <1>5. RemoveAt(s, m) = before \o after
    BY DEF RemoveAt
  <1> HIDE DEF before, after
  <1>6. /\ before \o after \in Seq(C)
        /\ Len(before \o after) = Len(before) + Len(after)
        /\ \A i \in 1 .. Len(before) + Len(after) :
             (before \o after)[i] = IF i <= Len(before) THEN before[i] ELSE after[i - Len(before)]
    BY <1>3, <1>4, ConcatProperties
  <1> QED
    BY <1>1, <1>3, <1>4, <1>5, <1>6

\* The main container is one of the pod's.
LEMMA MainIs ==
  ASSUME NEW p \in Shapes, ~ScriptRefused(p), Multi(p)
  PROVE  /\ MainIndex(p) \in 1 .. Len(p.containers)
         /\ p.mainContainer # "" => p.containers[MainIndex(p)].name = p.mainContainer
         /\ p.mainContainer = "" => MainIndex(p) = 1
  <1> DEFINE s == p.containers
             m == MainIndex(p)
  <1>1. s \in Seq(Containers) /\ Len(s) \in Nat /\ Len(s) > 1
    BY PodContainers DEF Multi
  <1>2. CASE p.mainContainer = ""
    <2>1. m = 1
      BY <1>2 DEF MainIndex
    <2> HIDE DEF s
    <2>2. 1 \in 1 .. Len(s)
      BY <1>1
    <2> QED
      BY <1>2, <2>1, <2>2 DEF s
  <1>3. CASE p.mainContainer # ""
    <2>1. Named(p, p.mainContainer) # {}
      BY <1>3 DEF ScriptRefused, MainUnknown
    <2>2. m \in Named(p, p.mainContainer)
      BY <1>3, <2>1 DEF MainIndex
    <2>3. m \in DOMAIN s /\ s[m].name = p.mainContainer
      BY <2>2 DEF Named
    <2> HIDE DEF s, m
    <2>4. m \in 1 .. Len(s)
      BY <1>1, <2>3
    <2> QED
      BY <1>3, <2>3, <2>4 DEF s, m
  <1> QED
    BY <1>2, <1>3

\* The place of the container that run i starts.
Place(p, i) ==
  IF ~Multi(p) THEN 1
  ELSE IF i = Len(p.containers) THEN MainIndex(p)
  ELSE IF i < MainIndex(p) THEN i ELSE i + 1

LEMMA PlaceIs ==
  ASSUME NEW p, NEW n \in Nat, n > 1, n = Len(p.containers), Multi(p),
         NEW m \in 1 .. n, m = MainIndex(p)
  PROVE  /\ Place(p, n) = m
         /\ \A i \in 1 .. n - 1 : Place(p, i) = IF i < m THEN i ELSE i + 1
  BY DEF Place

LEMMA RunsAre ==
  ASSUME NEW p \in Shapes, ~ScriptRefused(p), NEW paths
  PROVE  /\ Len(p.containers) \in Nat \ {0}
         /\ Len(Runs(p, paths)) = Len(p.containers)
         /\ DOMAIN Runs(p, paths) = 1 .. Len(p.containers)
         /\ \A i \in 1 .. Len(p.containers) :
              /\ Place(p, i) \in 1 .. Len(p.containers)
              /\ Runs(p, paths)[i] =
                   RunCommand(p.containers[Place(p, i)], paths, i # Len(p.containers))
  <1> DEFINE s == p.containers
             n == Len(s)
             run(i) == RunCommand(s[Place(p, i)], paths, i # n)
  <1>1. p.containers # <<>>
    BY DEF ScriptRefused
  <1>2. s \in Seq(Containers) /\ n \in Nat \ {0}
    BY <1>1, PodContainers
  <1>0. Multi(p) <=> n > 1
    BY DEF Multi
  <1>3. CASE ~Multi(p)
    <2>1. n = 1
      <3> HIDE DEF n
      <3> QED
        BY <1>0, <1>2, <1>3
    <2>2. Runs(p, paths) = <<RunCommand(s[1], paths, FALSE)>>
      BY <1>3 DEF Runs
    <2>3. \A i \in {1} : Place(p, i) = 1 /\ run(i) = RunCommand(s[1], paths, FALSE)
      BY <1>3, <2>1 DEF Place
    <2> DEFINE r == RunCommand(s[1], paths, FALSE)
    <2> HIDE DEF r, run, n
    <2>4. /\ Len(Runs(p, paths)) = 1 /\ DOMAIN Runs(p, paths) = 1 .. 1
          /\ Runs(p, paths)[1] = r
      BY <2>2 DEF r
    <2>5. 1 .. n = {1}
      BY <2>1
    <2> QED
      BY <1>2, <2>1, <2>3, <2>4, <2>5 DEF r, run, n
  <1>4. CASE Multi(p)
    <2> DEFINE m == MainIndex(p)
               side == Sidecars(p)
               rest == [i \in DOMAIN side |-> RunCommand(side[i], paths, TRUE)]
               main == RunCommand(s[m], paths, FALSE)
               R == {main} \cup {rest[i] : i \in DOMAIN rest}
    <2>0. m \in 1 .. n
      BY <1>4, MainIs
    <2>1. /\ side \in Seq(Containers) /\ Len(side) = n - 1
          /\ \A i \in 1 .. n - 1 : side[i] = s[IF i < m THEN i ELSE i + 1]
      <3> HIDE DEF m, s
      <3>1. m \in 1 .. Len(s) /\ s \in Seq(Containers)
        BY <1>2, <2>0
      <3>2. side = RemoveAt(s, m)
        BY DEF Sidecars, s, m
      <3> HIDE DEF side
      <3> QED
        BY <3>1, <3>2, Removed
    <2>p. Place(p, n) = m /\ \A i \in 1 .. n - 1 : Place(p, i) = IF i < m THEN i ELSE i + 1
      <3>1. n > 1 /\ n \in Nat /\ n = Len(p.containers) /\ m = MainIndex(p)
        BY <1>0, <1>2, <1>4
      <3> HIDE DEF n, m
      <3> QED
        BY <1>4, <2>0, <3>1, PlaceIs
    <2>2. DOMAIN rest = 1 .. n - 1 /\ rest \in Seq(R) /\ Len(rest) = n - 1
      <3> HIDE DEF s
      <3>1. DOMAIN side = 1 .. n - 1
        <4> HIDE DEF side, n
        <4> QED
          BY <2>1
      <3>2. rest \in [1 .. n - 1 -> R]
        BY <3>1
      <3>3. n - 1 \in Nat
        <4> HIDE DEF n
        <4> QED
          BY <1>2
      <3> HIDE DEF rest, R, n
      <3> QED
        BY <3>2, <3>3
    <2>3. Runs(p, paths) = Append(rest, main)
      BY <1>4 DEF Runs
    <2>5. \A i \in 1 .. n - 1 :
            rest[i] = RunCommand(s[Place(p, i)], paths, TRUE)
      <3>1. \A i \in 1 .. n - 1 : rest[i] = RunCommand(side[i], paths, TRUE)
        BY <2>2
      <3>2. \A i \in 1 .. n - 1 : side[i] = s[Place(p, i)]
        <4> HIDE DEF side, s, n, m
        <4> QED
          BY <2>1, <2>p
      <3> HIDE DEF rest, side, n
      <3> QED
        BY <3>1, <3>2
    <2>6. \A i \in 1 .. n : Place(p, i) \in 1 .. n
      <3> HIDE DEF n, m
      <3>1. \A i \in 1 .. n : i = n \/ i \in 1 .. n - 1
        BY <1>2
      <3>2. \A i \in 1 .. n - 1 : (IF i < m THEN i ELSE i + 1) \in 1 .. n
        BY <1>2, <2>0
      <3> QED
        BY <2>0, <2>p, <3>1, <3>2
    <2>7. main = RunCommand(s[Place(p, n)], paths, FALSE)
      BY <2>p
    <2>4. /\ Len(Runs(p, paths)) = n /\ DOMAIN Runs(p, paths) = 1 .. n
          /\ \A i \in 1 .. n - 1 : Runs(p, paths)[i] = rest[i]
          /\ Runs(p, paths)[n] = main
      <3>1. main \in R
        OBVIOUS
      <3> HIDE DEF rest, main, R, n
      <3>2. /\ Append(rest, main) \in Seq(R) /\ Len(Append(rest, main)) = Len(rest) + 1
            /\ \A i \in 1 .. Len(rest) : Append(rest, main)[i] = rest[i]
            /\ Append(rest, main)[Len(rest) + 1] = main
        BY <2>2, <3>1, AppendProperties
      <3> QED
        BY <1>2, <2>2, <2>3, <3>2
    <2> HIDE DEF rest, main, side, m
    <2>8. ASSUME NEW i \in 1 .. n PROVE Runs(p, paths)[i] = run(i)
      <3>1. CASE i = n
        BY <2>4, <2>7, <3>1
      <3>2. CASE i # n
        <4>1. i \in 1 .. n - 1
          <5> HIDE DEF n
          <5> QED
            BY <1>2, <3>2
        <4>2. run(i) = RunCommand(s[Place(p, i)], paths, TRUE)
          BY <3>2
        <4> QED
          BY <2>4, <2>5, <4>1, <4>2
      <3> QED
        BY <3>1, <3>2
    <2> QED
      BY <1>2, <2>4, <2>6, <2>8
  <1> QED
    BY <1>3, <1>4

\* A run mounts volumes of the pod, each at its own directory.
LEMMA MountsAre ==
  ASSUME NEW p \in Shapes, ~ScriptRefused(p), NEW paths,
         NEW run \in Range(Runs(p, paths)), NEW mount \in run.volumes
  PROVE  /\ mount.volume \in DOMAIN paths /\ mount.dir = paths[mount.volume]
         /\ \E c \in 1 .. Len(p.containers) :
              mount.volume \in Range(p.containers[c].mounts)
  <1> DEFINE runs == Runs(p, paths)
             n == Len(p.containers)
  <1>1. PICK i \in DOMAIN runs : run = runs[i]
    BY DEF Range
  <1>2. i \in 1 .. n
    BY <1>1, RunsAre
  <1>3. PICK c \in 1 .. n : run = RunCommand(p.containers[c], paths, i # n)
    BY <1>1, <1>2, RunsAre
  <1>4. run.volumes = VolumeArgs(p.containers[c], paths)
    BY <1>3 DEF RunCommand
  <1>5. PICK v \in Range(p.containers[c].mounts) \cap DOMAIN paths :
          mount = [volume |-> v, dir |-> paths[v]]
    BY <1>4 DEF VolumeArgs
  <1> QED
    BY <1>5

\* Every container has a run, and only the last run is the main one's.
LEMMA Placing ==
  ASSUME NEW p \in Shapes, ~ScriptRefused(p)
  PROVE  /\ \A c \in 1 .. Len(p.containers) :
              \E i \in 1 .. Len(p.containers) : Place(p, i) = c
         /\ \A i \in 1 .. Len(p.containers) :
              Place(p, i) = Place(p, Len(p.containers)) <=> i = Len(p.containers)
         /\ Place(p, Len(p.containers)) = IF Multi(p) THEN MainIndex(p) ELSE 1
  <1> DEFINE n == Len(p.containers)
             m == MainIndex(p)
  <1>1. n \in Nat \ {0}
    BY RunsAre
  <1>2. Multi(p) <=> n > 1
    BY DEF Multi
  <1>3. CASE ~Multi(p)
    <2>1. \A i \in 1 .. n : Place(p, i) = 1
      BY <1>3 DEF Place
    <2> HIDE DEF n
    <2>2. n = 1 /\ 1 .. n = {1}
      BY <1>1, <1>2, <1>3
    <2> QED
      BY <1>3, <2>1, <2>2 DEF n
  <1>4. CASE Multi(p)
    <2>1. m \in 1 .. n
      BY <1>4, MainIs
    <2>2. Place(p, n) = m /\ \A i \in 1 .. n - 1 : Place(p, i) = IF i < m THEN i ELSE i + 1
      <3>1. n > 1 /\ n \in Nat /\ n = Len(p.containers) /\ m = MainIndex(p)
        BY <1>1, <1>2, <1>4
      <3> HIDE DEF n, m
      <3> QED
        BY <1>4, <2>1, <3>1, PlaceIs
    <2> HIDE DEF n, m
    <2>3. ASSUME NEW c \in 1 .. n PROVE \E i \in 1 .. n : Place(p, i) = c
      <3>1. CASE c = m
        BY <1>1, <2>2, <3>1
      <3>2. CASE c < m
        BY <1>1, <2>1, <2>2, <3>2
      <3>3. CASE c > m
        <4>1. c - 1 \in 1 .. n - 1 /\ ~(c - 1 < m)
          BY <1>1, <2>1, <3>3
        <4> QED
          BY <1>1, <2>2, <4>1
      <3> QED
        BY <2>1, <3>1, <3>2, <3>3
    <2>4. ASSUME NEW i \in 1 .. n PROVE Place(p, i) = Place(p, n) <=> i = n
      <3>1. i = n \/ i \in 1 .. n - 1
        BY <1>1
      <3> QED
        BY <1>1, <2>1, <2>2, <3>1
    <2> QED
      BY <1>4, <2>2, <2>3, <2>4 DEF n, m
  <1> QED
    BY <1>3, <1>4

LEMMA EachRunsOnce ==
  ASSUME NEW p \in Shapes, ~ScriptRefused(p), NEW paths
  PROVE  LET runs == Runs(p, paths)
             main == IF p.mainContainer # "" /\ Multi(p) THEN p.mainContainer
                     ELSE p.containers[1].name
         IN /\ Len(runs) = Len(p.containers)
            /\ \A c \in Range(p.containers) : \E i \in DOMAIN runs : runs[i].container = c.name
            /\ \A i \in DOMAIN runs : /\ runs[i].background <=> i # Len(runs)
                                      /\ runs[i].container = main <=> i = Len(runs)
  <1> DEFINE runs == Runs(p, paths)
             s == p.containers
             n == Len(s)
             main == IF p.mainContainer # "" /\ Multi(p) THEN p.mainContainer
                     ELSE s[1].name
  <1>1. n \in Nat \ {0} /\ Len(runs) = n /\ DOMAIN runs = 1 .. n
    BY RunsAre
  <1>2. ASSUME NEW i \in 1 .. n
        PROVE  /\ Place(p, i) \in 1 .. n
               /\ runs[i].container = s[Place(p, i)].name
               /\ runs[i].background <=> i # n
    <2>1. /\ Place(p, i) \in 1 .. n
          /\ runs[i] = RunCommand(s[Place(p, i)], paths, i # n)
      BY RunsAre
    <2>2. \A c, b : /\ RunCommand(c, paths, b).container = c.name
                    /\ RunCommand(c, paths, b).background = b
      BY DEF RunCommand
    <2> HIDE DEF n, s, runs
    <2> QED
      BY <2>1, <2>2
  <1>3. s[Place(p, n)].name = main
    <2>1. CASE Multi(p)
      <3>1. Place(p, n) = MainIndex(p)
        BY <2>1, Placing
      <3>2. CASE p.mainContainer # ""
        BY <2>1, <3>1, <3>2, MainIs
      <3>3. CASE p.mainContainer = ""
        BY <2>1, <3>1, <3>3, MainIs
      <3> QED
        BY <3>2, <3>3
    <2>2. CASE ~Multi(p)
      BY <2>2, Placing
    <2> QED
      BY <2>1, <2>2
  <1>4. \A c, d \in 1 .. n : s[c].name = s[d].name => c = d
    <2>1. DOMAIN s = 1 .. n
      BY PodContainers
    <2> QED
      BY <2>1, ShapesAssumption
  <1>5. n \in 1 .. n
    <2> HIDE DEF n
    <2> QED
      BY <1>1
  <1>6. ASSUME NEW i \in 1 .. n PROVE runs[i].container = main <=> i = n
    <2>1. Place(p, i) \in 1 .. n /\ Place(p, n) \in 1 .. n
      BY <1>2, <1>5
    <2>2. runs[i].container = main <=> Place(p, i) = Place(p, n)
      <3>1. runs[i].container = s[Place(p, i)].name
        BY <1>2
      <3> HIDE DEF runs, n, s, main
      <3> QED
        BY <1>3, <1>4, <2>1, <3>1
    <2>3. Place(p, i) = Place(p, n) <=> i = n
      BY Placing
    <2> HIDE DEF n, runs, main
    <2> QED
      BY <2>2, <2>3
  <1>7. ASSUME NEW c \in Range(s) PROVE \E i \in 1 .. n : runs[i].container = c.name
    <2>1. PICK k \in 1 .. n : c = s[k]
      BY PodContainers DEF Range
    <2>2. PICK i \in 1 .. n : Place(p, i) = k
      BY Placing
    <2> QED
      BY <1>2, <2>1, <2>2
  <1> HIDE DEF runs, n, main
  <1>8. /\ \A c \in Range(s) : \E i \in DOMAIN runs : runs[i].container = c.name
        /\ \A i \in DOMAIN runs : /\ runs[i].background <=> i # Len(runs)
                                  /\ runs[i].container = main <=> i = Len(runs)
    BY <1>1, <1>2, <1>6, <1>7
  <1> QED
    BY <1>1, <1>8 DEF runs, n, main

\* No container of a job is skipped or run twice, and the job ends with its
\* main one, whichever place that has in the pod (slurm.go:105-115, 275-331).
THEOREM JobsRunEveryContainer == Spec => []ContainersRunOnce
  <1>1. JInv => ContainersRunOnce
    <2> SUFFICES ASSUME JInv, HasJob
                 PROVE  ContainersRunOnce
      BY DEF ContainersRunOnce
    <2>1. pod \in Shapes /\ ~ScriptRefused(pod)
      BY DEF JInv, JobPlan
    <2> QED
      BY <2>1, EachRunsOnce DEF ContainersRunOnce
  <1> QED
    BY <1>1, JInvInit, JInvNext, PTL DEF Spec

-----------------------------------------------------------------------------
(* Where the data of a pod is.                                             *)

\* The volume that may hold the data of a direction is at the chosen path.
LEMMA ChosenPath ==
  ASSUME NEW p \in Shapes, NEW specific, StagePath(p, specific) # NoPath,
         NEW v \in p.volumes, v \in DataVolumes(p, specific)
  PROVE  VolumePaths(p)[v] = StagePath(p, specific)
  <1>1. CASE ChosenVolume(p, specific) # ""
    <2>1. v = ChosenVolume(p, specific)
      BY <1>1 DEF ChosenVolume, DataVolumes
    <2> QED
      BY <1>1, <2>1 DEF StagePath
  <1>2. CASE ChosenVolume(p, specific) = ""
    <2>1. IsFiniteSet(p.volumes) /\ p.volumes # {}
      BY ShapesPlan DEF PlanPod
    <2>2. Cardinality(p.volumes) = 1
      BY <1>2, <2>1 DEF StagePath
    <2>3. StagePath(p, specific) = VolumePaths(p)[CHOOSE only \in p.volumes : TRUE]
      BY <1>2, <2>1, <2>2 DEF StagePath
    <2>4. PICK x : p.volumes = {x}
      BY <2>1, <2>2, FS_Singleton
    <2>5. v = x /\ (CHOOSE only \in p.volumes : TRUE) = x
      BY <2>4
    <2> QED
      BY <2>3, <2>5
  <1> QED
    BY <1>1, <1>2

\* A container that gets the data of a direction gets the chosen path.
LEMMA DataMounts ==
  ASSUME NEW p \in Shapes, ~ScriptRefused(p), NEW specific, StagePath(p, specific) # NoPath,
         NEW run \in Range(Runs(p, VolumePaths(p))), NEW mount \in run.volumes,
         mount.volume \in DataVolumes(p, specific)
  PROVE  mount.dir = StagePath(p, specific)
  <1>1. mount.volume \in DOMAIN VolumePaths(p) /\ mount.dir = VolumePaths(p)[mount.volume]
    BY MountsAre
  <1>2. mount.volume \in p.volumes
    BY <1>1, ScratchPaths
  <1> QED
    BY <1>1, <1>2, ChosenPath

\* Local paths end in a name.  One that ends in ".." opens the file its clean form
\* names, while filepath.Base looks at it as it is written (staging.go:62, 94).
LocalPathsEndInNames ==
  \A p \in Shapes :
    Mode(p) = "sfapi" =>
      /\ StagesIn(p) /\ p.input.path # <<>> => Last(p.input.path) \in Name
      /\ StagesOut(p) => p.output.path # <<>> /\ Last(p.output.path) \in Name

LEMMA UploadedFile ==
  ASSUME LocalPathsEndInNames, NEW p \in Shapes, ~PlanRefused(p), StagesIn(p),
         Mode(p) = "sfapi", LocalFileOpens(p.input)
  PROVE  InputTarget(p) = InputDir(p) \o <<Last(LocalPath(p.input))>>
  <1>1. InputDir(p) \in Seq(Name) /\ Parses("sfapi", p.input)
    BY Planned
  <1>2. p.input.path # <<>> /\ p.input.path \in Seq(STRING)
    BY <1>1, InputHasPath, ShapesPlan DEF PlanPod
  <1>3. Last(p.input.path) \in Name
    BY <1>2 DEF LocalPathsEndInNames
  <1>4. LocalPath(p.input) # NoPath
    BY StagingPlanAssumption DEF LocalFileOpens
  <1>5. Last(LocalPath(p.input)) = Last(p.input.path)
    BY <1>2, <1>3, <1>4, LocalEnd
  <1>6. InputTarget(p) = Append(InputDir(p), Last(p.input.path))
    BY <1>1, <1>3, TargetIs DEF InputTarget
  <1> QED
    BY <1>1, <1>3, <1>5, <1>6, AppendIsConcat

\* The input of a job was put, by the call that submits it, where the job's
\* containers find it, whichever volume is chosen for it (staging.go:217-266).
THEOREM InputsAreInPlace == LocalPathsEndInNames => (Spec => InputInPlace)
  <1> SUFFICES ASSUME LocalPathsEndInNames PROVE Spec => InputInPlace
    OBVIOUS
  <1>1. ASSUME WInv, [Next]_vars, owner' # owner, StagesIn(pod)
        PROVE  \E i \in DOMAIN work : work[i].call = calls /\ Serves(work[i], pod)
    <2>1. at = "submit" /\ ~ScriptRefused(pod) /\ pod \in Shapes /\ ~PlanRefused(pod)
          /\ work \in Seq(Work)
      <3>1. TInv
        BY <1>1 DEF WInv
      <3>2. at = "submit" /\ ~ScriptRefused(pod)
        BY <1>1, <3>1, JobsComeFromSubmission
      <3> QED
        BY <3>1, <3>2 DEF TInv, StageInTypeOK, CallPlan
    <2>2. \/ Mode(pod) = "globus" /\ Had("transfer", InputDir(pod))
          \/ /\ Mode(pod) = "sfapi" /\ LocalFileOpens(pod.input)
             /\ Had("upload", InputTarget(pod))
      BY <1>1, <2>1 DEF WInv, CallWork
    <2>3. InputDir(pod) \in Seq(Name) /\ StagePath(pod, pod.inputVolume) # NoPath
          /\ InputDir(pod) = StagePath(pod, pod.inputVolume)
      BY <1>1, <2>1, Planned DEF PlanRefused, InputDir
    <2>4. DOMAIN work = 1 .. Len(work)
      BY <2>1
    <2>5. \A run \in Range(Runs(pod, VolumePaths(pod))) : \A mount \in run.volumes :
            mount.volume \in DataVolumes(pod, pod.inputVolume) => mount.dir = InputDir(pod)
      BY <2>1, <2>3, DataMounts
    <2>6. CASE Mode(pod) = "globus"
      <3>1. PICK i \in 1 .. Len(work) :
              /\ work[i].op = "transfer" /\ work[i].call = calls
              /\ work[i].dir = InputDir(pod) /\ work[i].state = "succeeded"
        BY <2>2, <2>6 DEF Had
      <3>2. InputDir(pod) \o <<>> = InputDir(pod)
        BY <2>3, ConcatEmptySeq
      <3>3. Serves(work[i], pod)
        BY <2>5, <2>6, <3>1, <3>2 DEF Serves
      <3> QED
        BY <2>4, <3>1, <3>3
    <2>7. CASE Mode(pod) = "sfapi"
      <3>1. PICK i \in 1 .. Len(work) :
              /\ work[i].op = "upload" /\ work[i].call = calls
              /\ work[i].dir = InputTarget(pod) /\ work[i].state = "succeeded"
        BY <2>2, <2>7 DEF Had
      <3>2. InputTarget(pod) = InputDir(pod) \o <<Last(LocalPath(pod.input))>>
        BY <1>1, <2>1, <2>2, <2>7, UploadedFile
      <3>3. Serves(work[i], pod)
        BY <2>5, <2>7, <3>1, <3>2 DEF Serves
      <3> QED
        BY <2>4, <3>1, <3>3
    <2> QED
      BY <2>2, <2>6, <2>7
  <1>2. WInv /\ [Next]_vars =>
          [owner' # owner /\ StagesIn(pod) =>
             \E i \in DOMAIN work : work[i].call = calls /\ Serves(work[i], pod)]_vars
    BY <1>1
  <1> QED
    BY <1>2, WInvInit, WInvNext, PTL DEF Spec, InputInPlace

LEMMA OutputFound ==
  ASSUME LocalPathsEndInNames, NEW p \in Shapes, ~PlanRefused(p), StagesOut(p),
         Mode(p) = "sfapi"
  PROVE  Front(OutputSource(p)) = OutputDir(p)
  <1>1. OutputDir(p) \in Seq(Name)
    BY Planned
  <1>2. Last(p.output.path) \in Name
    BY DEF LocalPathsEndInNames
  <1>3. OutputSource(p) = Append(OutputDir(p), Last(p.output.path))
    BY <1>1, <1>2, TargetIs DEF OutputSource
  <1> QED
    BY <1>1, <1>2, <1>3, FrontOfAppend

\* The output of a job is fetched from where its containers write it
\* (staging.go:66-97, slurm.go:359-410).
THEOREM OutputsAreFound == LocalPathsEndInNames => (Spec => []OutputFromMount)
  <1> SUFFICES ASSUME LocalPathsEndInNames PROVE Spec => []OutputFromMount
    OBVIOUS
  <1>1. JInv => OutputFromMount
    <2> SUFFICES ASSUME JInv, HasJob, StagesOut(pod)
                 PROVE  OutputFromMount
      BY DEF OutputFromMount
    <2>1. pod \in Shapes /\ ~PlanRefused(pod) /\ ~ScriptRefused(pod)
      BY DEF JInv, JobPlan
    <2>2. /\ Mode(pod) \in {"globus", "sfapi"}
          /\ StagePath(pod, pod.outputVolume) # NoPath
          /\ OutputDir(pod) = StagePath(pod, pod.outputVolume)
      BY <2>1 DEF PlanRefused, OutputDir
    <2>3. \A run \in Range(Runs(pod, VolumePaths(pod))) : \A mount \in run.volumes :
            mount.volume \in DataVolumes(pod, pod.outputVolume) => mount.dir = OutputDir(pod)
      BY <2>1, <2>2, DataMounts
    <2>4. Mode(pod) = "sfapi" => Front(OutputSource(pod)) = OutputDir(pod)
      BY <2>1, OutputFound
    <2> QED
      BY <2>3, <2>4 DEF OutputFromMount
  <1> QED
    BY <1>1, JInvInit, JInvNext, PTL DEF Spec

-----------------------------------------------------------------------------
(* The directories a script makes.                                         *)

Dirs == Seq(Name)

Distinct(lines) == \A i, k \in 1 .. Len(lines) : lines[i] = lines[k] => i = k
Lines == {lines \in Seq(Dirs) : Distinct(lines)}
Grows(a, b) == \A dir : Contains(a, dir) => Contains(b, dir)

LEMMA OneLine ==
  ASSUME NEW lines \in Lines, NEW paths, \A v \in DOMAIN paths : paths[v] \in Dirs, NEW mount
  PROVE  /\ SetupLine(lines, mount, paths) \in Lines
         /\ Grows(lines, SetupLine(lines, mount, paths))
         /\ mount \in DOMAIN paths => Contains(SetupLine(lines, mount, paths), paths[mount])
  <1>1. CASE mount \in DOMAIN paths /\ ~Contains(lines, paths[mount])
    <2> DEFINE dir  == paths[mount]
               more == Append(lines, dir)
    <2>1. SetupLine(lines, mount, paths) = more
      BY <1>1 DEF SetupLine
    <2>2. lines \in Seq(Dirs) /\ Len(lines) \in Nat /\ Distinct(lines)
      BY DEF Lines
    <2>3. dir \in Dirs /\ \A i \in 1 .. Len(lines) : lines[i] # dir
      BY <1>1 DEF Contains
    <2> HIDE DEF dir
    <2>4. /\ more \in Seq(Dirs) /\ Len(more) = Len(lines) + 1
          /\ \A i \in 1 .. Len(lines) : more[i] = lines[i]
          /\ more[Len(lines) + 1] = dir
      BY <2>2, <2>3, AppendProperties
    <2> HIDE DEF more
    <2>5. Distinct(more)
      <3> SUFFICES ASSUME NEW i \in 1 .. Len(more), NEW k \in 1 .. Len(more), more[i] = more[k]
                   PROVE  i = k
        BY DEF Distinct
      <3>1. i \in 1 .. Len(lines) \/ i = Len(lines) + 1
        BY <2>2, <2>4
      <3>2. k \in 1 .. Len(lines) \/ k = Len(lines) + 1
        BY <2>2, <2>4
      <3> QED
        BY <2>2, <2>3, <2>4, <3>1, <3>2 DEF Distinct
    <2>6. Grows(lines, more)
      BY <2>2, <2>4 DEF Grows, Contains
    <2>7. Contains(more, dir)
      BY <2>2, <2>4 DEF Contains
    <2> QED
      BY <2>1, <2>4, <2>5, <2>6, <2>7 DEF Lines, dir
  <1>2. CASE ~(mount \in DOMAIN paths /\ ~Contains(lines, paths[mount]))
    <2>1. SetupLine(lines, mount, paths) = lines
      BY <1>2 DEF SetupLine
    <2> QED
      BY <1>2, <2>1 DEF Grows
  <1> QED
    BY <1>1, <1>2

\* Lines that grow step by step are there at the end.
LEMMA Grown ==
  ASSUME NEW N \in Nat, NEW r,
         \A n \in 1 .. N : Grows(r[n - 1], r[n])
  PROVE  \A n \in 0 .. N : Grows(r[n], r[N])
  <1> SUFFICES ASSUME NEW m \in 0 .. N PROVE Grows(r[m], r[N])
    OBVIOUS
  <1> DEFINE S == {n \in 0 .. N : m <= n => Grows(r[m], r[n])}
  <1>1. 0 \in S
    <2>1. m <= 0 => m = 0
      OBVIOUS
    <2> QED
      BY <2>1 DEF Grows
  <1>2. ASSUME NEW n \in 1 .. N, n - 1 \in S PROVE n \in S
    <2>1. CASE m <= n - 1
      <3>1. Grows(r[m], r[n - 1]) /\ Grows(r[n - 1], r[n])
        BY <1>2, <2>1
      <3> QED
        BY <3>1 DEF Grows
    <2>2. CASE m = n
      BY <2>2 DEF Grows
    <2>3. CASE m > n
      BY <2>3
    <2> QED
      BY <2>1, <2>2, <2>3
  <1> HIDE DEF S
  <1>3. 0 .. N \subseteq S
    BY <1>1, <1>2, Upward
  <1> QED
    BY <1>3 DEF S

LEMMA ContainerLines ==
  ASSUME NEW before \in Lines, NEW mounts \in Seq(Name),
         NEW paths, \A v \in DOMAIN paths : paths[v] \in Dirs
  PROVE  /\ SetupLines(before, mounts, paths) \in Lines
         /\ Grows(before, SetupLines(before, mounts, paths))
         /\ \A v \in Range(mounts) \cap DOMAIN paths :
              Contains(SetupLines(before, mounts, paths), paths[v])
  <1> DEFINE V == Lines
             N == Len(mounts)
             lines[n \in 0 .. Len(mounts)] ==
               IF n = 0 THEN before ELSE SetupLine(lines[n - 1], mounts[n], paths)
             step == [n \in 1 .. N |-> [d \in V |-> SetupLine(d, mounts[n], paths)]]
  <1>1. SetupLines(before, mounts, paths) = lines[N]
    BY DEF SetupLines
  <1>2. \A d \in V, n \in 1 .. N : /\ SetupLine(d, mounts[n], paths) \in V
                                   /\ step[n][d] = SetupLine(d, mounts[n], paths)
    BY OneLine
  <1>3. before \in V /\ N \in Nat /\ Closed(N, V, step)
    BY <1>2 DEF Closed
  <1>4. \E f : Follows(f, N, V, before, step)
    <2> HIDE DEF V, N, step
    <2> QED
      BY <1>3, StepsExist
  <1>5. PICK f : Follows(f, N, V, before, step)
    BY <1>4
  <1>6. f = [n \in 0 .. Len(mounts) |->
               IF n = 0 THEN before ELSE SetupLine(f[n - 1], mounts[n], paths)]
    <2> HIDE DEF step, V
    <2>1. \A n \in 1 .. N : f[n - 1] \in V /\ f[n] = step[n][f[n - 1]]
      BY <1>3, <1>5 DEF Follows
    <2>2. \A n \in 1 .. N : f[n] = SetupLine(f[n - 1], mounts[n], paths)
      BY <1>2, <2>1
    <2> QED
      BY <1>5, <2>2 DEF Follows
  <1>7. lines = [n \in 0 .. Len(mounts) |->
                   IF n = 0 THEN before ELSE SetupLine(lines[n - 1], mounts[n], paths)]
    BY <1>6
  <1> HIDE DEF lines, step, V
  <1>8. \A n \in 1 .. N : lines[n] = SetupLine(lines[n - 1], mounts[n], paths)
    BY <1>7
  <1>9. \A n \in 1 .. N : lines[n - 1] \in V => lines[n] = step[n][lines[n - 1]]
    BY <1>2, <1>8
  <1>10. lines[0] = before /\ lines = [n \in 0 .. N |-> lines[n]]
    BY <1>3, <1>7
  <1>11. Follows(lines, N, V, before, step)
    <2> HIDE DEF N
    <2> QED
      BY <1>3, <1>9, <1>10, Settled
  <1>12. \A n \in 0 .. N : lines[n] \in Lines
    BY <1>11 DEF Follows, V
  <1>13. \A n \in 1 .. N : /\ Grows(lines[n - 1], lines[n])
                           /\ mounts[n] \in DOMAIN paths => Contains(lines[n], paths[mounts[n]])
    <2> SUFFICES ASSUME NEW n \in 1 .. N
                 PROVE  /\ Grows(lines[n - 1], lines[n])
                        /\ mounts[n] \in DOMAIN paths => Contains(lines[n], paths[mounts[n]])
      OBVIOUS
    <2>1. lines[n - 1] \in Lines
      BY <1>12
    <2> QED
      BY <1>8, <2>1, OneLine
  <1>14. \A n \in 0 .. N : Grows(lines[n], lines[N])
    <2> HIDE DEF N
    <2> QED
      BY <1>3, <1>13, Grown
  <1>15. ASSUME NEW v \in Range(mounts) \cap DOMAIN paths
         PROVE  Contains(lines[N], paths[v])
    <2>1. PICK n \in 1 .. N : v = mounts[n]
      BY DEF Range
    <2>2. Contains(lines[n], paths[v]) /\ Grows(lines[n], lines[N])
      BY <1>13, <1>14, <2>1
    <2> QED
      BY <2>2 DEF Grows
  <1>16. lines[N] \in Lines /\ Grows(before, lines[N])
    BY <1>3, <1>10, <1>12, <1>14
  <1> QED
    BY <1>1, <1>15, <1>16

LEMMA PodLines ==
  ASSUME NEW p \in Shapes, NEW paths, \A v \in DOMAIN paths : paths[v] \in Dirs
  PROVE  /\ Setup(p, paths) \in Lines
         /\ \A c \in 1 .. Len(p.containers) :
              \A v \in Range(p.containers[c].mounts) \cap DOMAIN paths :
                Contains(Setup(p, paths), paths[v])
  <1> DEFINE V == Lines
             N == Len(p.containers)
             mounts(n) == p.containers[n].mounts
             lines[n \in 0 .. Len(p.containers)] ==
               IF n = 0 THEN <<>>
               ELSE SetupLines(lines[n - 1], p.containers[n].mounts, paths)
             step == [n \in 1 .. N |-> [d \in V |-> SetupLines(d, mounts(n), paths)]]
             b == <<>>
  <1>1. Setup(p, paths) = lines[N]
    BY DEF Setup
  <1>0. \A n \in 1 .. N : mounts(n) \in Seq(Name)
    BY PodContainers DEF Containers
  <1>2. \A d \in V, n \in 1 .. N : /\ SetupLines(d, mounts(n), paths) \in V
                                   /\ step[n][d] = SetupLines(d, mounts(n), paths)
    BY <1>0, ContainerLines
  <1>3. b \in V /\ N \in Nat /\ Closed(N, V, step)
    <2>1. N \in Nat
      BY PodContainers
    <2>2. b \in V
      BY DEF Lines, Distinct
    <2> QED
      BY <1>2, <2>1, <2>2 DEF Closed
  <1>4. \E f : Follows(f, N, V, b, step)
    <2> HIDE DEF V, N, b, step
    <2> QED
      BY <1>3, StepsExist
  <1>5. PICK f : Follows(f, N, V, b, step)
    BY <1>4
  <1>6. f = [n \in 0 .. Len(p.containers) |->
               IF n = 0 THEN <<>> ELSE SetupLines(f[n - 1], p.containers[n].mounts, paths)]
    <2>1. \A n \in 1 .. N : f[n - 1] \in V /\ f[n] = step[n][f[n - 1]]
      <3> HIDE DEF step, V, N
      <3> QED
        BY <1>3, <1>5 DEF Follows
    <2>2. \A n \in 1 .. N : f[n] = SetupLines(f[n - 1], mounts(n), paths)
      <3> HIDE DEF step, V, N, mounts
      <3> QED
        BY <1>2, <2>1
    <2>3. f = [n \in 0 .. N |-> f[n]] /\ f[0] = b
      <3> HIDE DEF step, V, N, b
      <3> QED
        BY <1>5 DEF Follows
    <2>4. f = [n \in 0 .. N |->
                 IF n = 0 THEN b ELSE SetupLines(f[n - 1], mounts(n), paths)]
      <3> HIDE DEF N, mounts, b
      <3>1. \A n \in 0 .. N :
              f[n] = IF n = 0 THEN b ELSE SetupLines(f[n - 1], mounts(n), paths)
        <4>1. \A n \in 0 .. N : n # 0 => n \in 1 .. N
          BY <1>3
        <4> QED
          BY <2>2, <2>3, <4>1, Zenon
      <3> QED
        BY <2>3, <3>1, Zenon
    <2> QED
      BY <2>4
  <1>7. lines = [n \in 0 .. N |->
                   IF n = 0 THEN <<>> ELSE SetupLines(lines[n - 1], mounts(n), paths)]
    BY <1>6
  <1> HIDE DEF lines, step, V, N, mounts
  <1>8. \A n \in 1 .. N : lines[n] = SetupLines(lines[n - 1], mounts(n), paths)
    BY <1>3, <1>7
  <1>9. \A n \in 1 .. N : lines[n - 1] \in V => lines[n] = step[n][lines[n - 1]]
    BY <1>2, <1>8
  <1>10. lines[0] = b /\ lines = [n \in 0 .. N |-> lines[n]]
    BY <1>3, <1>7
  <1>11. Follows(lines, N, V, b, step)
    <2> HIDE DEF b
    <2> QED
      BY <1>3, <1>9, <1>10, Settled
  <1>12. \A n \in 0 .. N : lines[n] \in Lines
    BY <1>11 DEF Follows, V
  <1>13. \A n \in 1 .. N :
           /\ Grows(lines[n - 1], lines[n])
           /\ \A v \in Range(mounts(n)) \cap DOMAIN paths : Contains(lines[n], paths[v])
    <2> SUFFICES ASSUME NEW n \in 1 .. N
                 PROVE  /\ Grows(lines[n - 1], lines[n])
                        /\ \A v \in Range(mounts(n)) \cap DOMAIN paths :
                             Contains(lines[n], paths[v])
      OBVIOUS
    <2>1. lines[n - 1] \in Lines
      BY <1>3, <1>12
    <2> QED
      BY <1>0, <1>8, <2>1, ContainerLines
  <1>14. \A n \in 0 .. N : Grows(lines[n], lines[N])
    BY <1>3, <1>13, Grown
  <1>15. ASSUME NEW c \in 1 .. N, NEW v \in Range(mounts(c)) \cap DOMAIN paths
         PROVE  Contains(lines[N], paths[v])
    <2>1. Contains(lines[c], paths[v]) /\ Grows(lines[c], lines[N])
      BY <1>13, <1>14
    <2> QED
      BY <2>1 DEF Grows
  <1>16. lines[N] \in Lines
    BY <1>3, <1>12
  <1> QED
    BY <1>1, <1>15, <1>16 DEF N, mounts

\* A script makes every directory that it mounts, and makes it once
\* (slurm.go:344-373, 386-410).
THEOREM MountedDirectoriesExist == Spec => []MountsAreCreated
  <1>1. JInv => MountsAreCreated
    <2> SUFFICES ASSUME JInv, HasJob PROVE MountsAreCreated
      BY DEF MountsAreCreated
    <2> DEFINE paths == VolumePaths(pod)
               setup == Setup(pod, paths)
    <2>1. pod \in Shapes /\ ~ScriptRefused(pod)
      BY DEF JInv, JobPlan
    <2>2. \A v \in DOMAIN paths : paths[v] \in Dirs
      BY <2>1, ScratchPaths DEF Dirs
    <2>3. ASSUME NEW run \in Range(Runs(pod, paths)), NEW mount \in run.volumes
          PROVE  \E i \in DOMAIN setup : \A k \in DOMAIN setup : setup[k] = mount.dir <=> k = i
      <3>1. PICK c \in 1 .. Len(pod.containers) :
              mount.volume \in Range(pod.containers[c].mounts) \cap DOMAIN paths
        BY <2>1, MountsAre
      <3>2. mount.dir = paths[mount.volume]
        BY <2>1, MountsAre
      <3> HIDE DEF paths, setup
      <3>3. setup \in Lines /\ Contains(setup, mount.dir)
        BY <2>1, <2>2, <3>1, <3>2, PodLines DEF setup
      <3>4. DOMAIN setup = 1 .. Len(setup) /\ Distinct(setup)
        BY <3>3 DEF Lines
      <3>5. PICK i \in 1 .. Len(setup) : setup[i] = mount.dir
        BY <3>3 DEF Contains
      <3> QED
        BY <3>4, <3>5 DEF Distinct
    <2> QED
      BY <2>3 DEF MountsAreCreated
  <1> QED
    BY <1>1, JInvInit, JInvNext, PTL DEF Spec

-----------------------------------------------------------------------------
(* Pods keep apart.                                                        *)

LEMMA PairOf ==
  ASSUME NEW b, NEW x, NEW y, b = <<x, y>>
  PROVE  Len(b) = 2 /\ b[2] = y
  OBVIOUS

LEMMA TripleOf ==
  ASSUME NEW b, NEW x, NEW y, NEW z, b = <<x, y, z>>
  PROVE  Len(b) = 3 /\ b[2] = y /\ b[3] = z
  OBVIOUS

LEMMA Longer ==
  ASSUME NEW S, NEW b \in Seq(S), NEW V \in SUBSET S, NEW d,
         d = b \/ \E v \in V : d = Append(b, v)
  PROVE  /\ \A i \in 1 .. Len(b) : d[i] = b[i]
         /\ Len(d) = Len(b) \/ (Len(d) = Len(b) + 1 /\ d[Len(b) + 1] \in V)
  <1>1. CASE d = b
    <2>1. \A i \in 1 .. Len(b) : d[i] = b[i]
      BY <1>1
    <2>2. Len(d) = Len(b)
      BY <1>1
    <2> QED
      BY <2>1, <2>2
  <1>2. CASE d # b
    <2>1. PICK v \in V : d = Append(b, v)
      BY <1>2
    <2>2. /\ Len(d) = Len(b) + 1 /\ d[Len(b) + 1] = v
          /\ \A i \in 1 .. Len(b) : d[i] = b[i]
      BY <2>1, AppendProperties
    <2> QED
      BY <2>2
  <1> QED
    BY <1>1, <1>2

\* A directory of a plain pod has two names, or a volume's for a third; one of a
\* replica has three, or a volume's for a fourth.
LEMMA DirectoriesAre ==
  ASSUME NEW p \in Shapes, NEW d \in Directories(p)
  PROVE  /\ d \in Seq(Name)
         /\ p.replicaOf # "" =>
              d[2] = p.replicaOf /\ d[3] = Ordinal(p) /\ (Len(d) = 3 \/ Len(d) = 4)
         /\ p.replicaOf = "" =>
              /\ d[2] = p.name
              /\ \/ d = JobScratchBase(p) /\ Len(d) = 2
                 \/ Len(d) = 3 /\ d[3] \in p.volumes
  <1> DEFINE b == JobScratchBase(p)
             V == p.volumes
  <1>1. b \in Seq(Name) /\ V \in SUBSET Name
    BY ScratchPaths, ShapesPlan DEF PlanPod
  <1>2. d = b \/ \E v \in V : d = Append(b, v)
    BY DEF Directories, VolumePaths, Range
  <1>3. /\ d \in Seq(Name)
        /\ \A i \in 1 .. Len(b) : d[i] = b[i]
        /\ (d = b /\ Len(d) = Len(b)) \/ (Len(d) = Len(b) + 1 /\ d[Len(b) + 1] \in V)
    <2> HIDE DEF b, V
    <2>1. d \in Seq(Name)
      BY <1>1, <1>2, AppendProperties
    <2>2. \A i \in 1 .. Len(b) : d[i] = b[i]
      BY <1>1, <1>2, Longer
    <2>3. CASE d = b
      BY <2>1, <2>2, <2>3
    <2>4. ASSUME NEW v \in V, d = Append(b, v)
          PROVE  Len(d) = Len(b) + 1 /\ d[Len(b) + 1] = v
      BY <1>1, <2>4, AppendProperties
    <2> QED
      BY <1>2, <2>1, <2>2, <2>3, <2>4
  <1>4. CASE p.replicaOf # ""
    <2>1. b = <<ScratchRoot(p), p.replicaOf, Ordinal(p)>>
      BY <1>4 DEF JobScratchBase
    <2>2. Len(b) = 3 /\ b[2] = p.replicaOf /\ b[3] = Ordinal(p)
      <3> HIDE DEF b
      <3> QED
        BY <2>1, TripleOf
    <2>3. d[2] = b[2] /\ d[3] = b[3] /\ (Len(d) = 3 \/ Len(d) = 4)
      <3>1. Len(b) = 3
        BY <2>2
      <3> HIDE DEF b, V
      <3> QED
        BY <1>3, <3>1
    <2> HIDE DEF b
    <2> QED
      BY <1>3, <1>4, <2>2, <2>3
  <1>5. CASE p.replicaOf = ""
    <2>1. b = <<ScratchRoot(p), p.name>>
      BY <1>5 DEF JobScratchBase
    <2>2. Len(b) = 2 /\ b[2] = p.name
      <3> HIDE DEF b
      <3> QED
        BY <2>1, PairOf
    <2>3. d[2] = b[2] /\ ((d = b /\ Len(d) = 2) \/ (Len(d) = 3 /\ d[3] \in V))
      <3>1. Len(b) = 2
        BY <2>2
      <3> HIDE DEF b, V
      <3> QED
        BY <1>3, <3>1
    <2>4. /\ d[2] = p.name
          /\ (d = JobScratchBase(p) /\ Len(d) = 2) \/ (Len(d) = 3 /\ d[3] \in p.volumes)
      BY <2>2, <2>3
    <2> QED
      BY <1>3, <1>5, <2>4
  <1> QED
    BY <1>4, <1>5

LEMMA PrefixAgrees ==
  ASSUME NEW S, NEW d \in Seq(S), NEW e \in Seq(S), IsPrefix(d, e)
  PROVE  Len(d) <= Len(e) /\ \A i \in 1 .. Len(d) : d[i] = e[i]
  <1>1. Len(d) \in Nat /\ Len(e) \in Nat /\ Len(d) <= Len(e)
    BY LenProperties DEF IsPrefix
  <1>2. \A i \in 1 .. Len(d) : SubSeq(d, 1, Len(d))[i] = d[i] /\ SubSeq(e, 1, Len(d))[i] = e[i]
    BY <1>1
  <1> QED
    BY <1>1, <1>2 DEF IsPrefix

\* The StatefulSet controller numbers the replicas of a set.
ReplicasAreNumbered ==
  \A p, q \in Shapes :
    p.replicaOf # "" /\ p.replicaOf = q.replicaOf /\ Ordinal(p) = Ordinal(q) => p.name = q.name

\* No pod that is named like a StatefulSet has a volume named like a replica's
\* number: it would have the directory of that replica (nersc.go:207-213).
NoVolumeIsAReplica ==
  \A p, q \in Shapes :
    p.replicaOf = "" /\ p.name = q.replicaOf => Ordinal(q) \notin p.volumes

\* A directory of one pod lies above one of another only as the base of a pod
\* named like the other's StatefulSet.
LEMMA OnlyTheSetsNameIsAbove ==
  ASSUME ReplicasAreNumbered, NoVolumeIsAReplica,
         NEW p \in Shapes, NEW q \in Shapes, p.name # q.name,
         NEW d \in Directories(p), NEW e \in Directories(q), IsPrefix(d, e)
  PROVE  NamesSetOf(p, q) /\ d = JobScratchBase(p)
  <1>0. d \in Seq(Name) /\ e \in Seq(Name)
    BY DirectoriesAre
  <1>1. Len(d) <= Len(e) /\ \A i \in 1 .. Len(d) : d[i] = e[i]
    BY <1>0, PrefixAgrees
  <1>2. Len(d) \in {2, 3, 4}
    <2>1. CASE p.replicaOf # ""
      BY <2>1, DirectoriesAre
    <2>2. CASE p.replicaOf = ""
      BY <2>2, DirectoriesAre
    <2> QED
      BY <2>1, <2>2
  <1>3. d[2] = e[2] /\ (Len(d) # 2 => d[3] = e[3])
    BY <1>1, <1>2
  <1>4. CASE p.replicaOf # "" /\ q.replicaOf # ""
    <2>1. Len(d) = 3 \/ Len(d) = 4
      BY <1>4, DirectoriesAre
    <2>2. d[3] = e[3]
      BY <1>3, <2>1
    <2>3. p.replicaOf = q.replicaOf /\ Ordinal(p) = Ordinal(q)
      BY <1>3, <1>4, <2>2, DirectoriesAre
    <2> QED
      BY <1>4, <2>3 DEF ReplicasAreNumbered
  <1>5. CASE p.replicaOf = "" /\ q.replicaOf = ""
    BY <1>3, <1>5, DirectoriesAre
  <1>6. CASE p.replicaOf = "" /\ q.replicaOf # ""
    <2>1. p.name = q.replicaOf /\ e[3] = Ordinal(q)
      BY <1>3, <1>6, DirectoriesAre
    <2>2. ASSUME Len(d) = 3, d[3] \in p.volumes
          PROVE  FALSE
      BY <1>3, <1>6, <2>1, <2>2 DEF NoVolumeIsAReplica
    <2> QED
      BY <1>6, <2>1, <2>2, DirectoriesAre DEF NamesSetOf
  <1>7. CASE p.replicaOf # "" /\ q.replicaOf = ""
    <2>1. d[2] = p.replicaOf /\ d[3] = Ordinal(p) /\ (Len(d) = 3 \/ Len(d) = 4)
      BY <1>7, DirectoriesAre
    <2>2. e[2] = q.name /\ (Len(e) = 2 \/ (Len(e) = 3 /\ e[3] \in q.volumes))
      BY <1>7, DirectoriesAre
    <2>3. d[3] = e[3] /\ e[3] \in q.volumes
      BY <1>1, <1>3, <2>1, <2>2
    <2> QED
      BY <1>3, <1>7, <2>1, <2>2, <2>3 DEF NoVolumeIsAReplica
  <1> QED
    BY <1>4, <1>5, <1>6, <1>7

\* Two pods, replicas of one StatefulSet or not, have no directory in common and
\* none inside the other's, but for the base of a pod that has the name of a
\* StatefulSet (nersc.go:194-214, 680-706; docs/statefulsets.md:10).
THEOREM PodsHaveOwnDirectories ==
  ReplicasAreNumbered /\ NoVolumeIsAReplica => (Spec => []PodsKeepApart)
  <1> SUFFICES ASSUME ReplicasAreNumbered, NoVolumeIsAReplica PROVE Spec => []PodsKeepApart
    OBVIOUS
  <1>1. TInv => PodsKeepApart
    BY OnlyTheSetsNameIsAbove DEF TInv, StageInTypeOK, PodsKeepApart
  <1> QED
    BY <1>1, TInvInit, TInvNext, PTL DEF Spec

-----------------------------------------------------------------------------
(* What holds of the pod's job while a call runs.                          *)

OneCall ==
  /\ at # "idle" => tracked = NoJob
  /\ holding # NoJob => at = "store"
  /\ staging => tracked # NoJob
  /\ created => pod # NoPod

MInv == TInv /\ OneCall

LEMMA MInvInit == Init => MInv
  BY TInvInit DEF Init, MInv, OneCall

WorkSteps == {"start", "wait", "open", "mkdir", "waitTask", "upload"}

\* A step of a call on its way to a submission, as PodLifecycle sees it.
LEMMA WayToSubmission ==
  ASSUME TInv, Asking \/ Checking
  PROVE  /\ UNCHANGED <<jobVars, restVars>>
         /\ \/ at \in WorkSteps /\ at' \in WorkSteps \cup {"submit", "idle"}
            \/ at = "submit" /\ at' = "idle"
  <1>1. CASE Asking
    BY <1>1, AskingSteps DEF WorkSteps
  <1>2. CASE Checking
    <2>1. at \in WorkSteps \cup {"submit"}
      BY <1>2 DEF Checking, TransferChecked, TransferCheckFails, TransferTimesOut, FileOpens,
         FileRefused, TaskEndSeen, TaskCheckFails, ScriptFails, JobRefused, WorkSteps
    <2> QED
      BY <1>2, <2>1, CheckingSteps DEF WorkSteps
  <1> QED
    BY <1>1, <1>2

LEMMA MInvNext == MInv /\ [Next]_vars => MInv'
  <1> SUFFICES ASSUME MInv, [Next]_vars PROVE OneCall'
    BY TInvNext DEF MInv
  <1>0. TInv
    BY DEF MInv
  <1>1. CASE UNCHANGED vars
    BY <1>1 DEF vars, callVars, MInv, OneCall
  <1>2. ASSUME NEW p \in Shapes, PodArrives(p) PROVE OneCall'
    BY <1>2, StageInAssumption DEF PodArrives, mapVars, MInv, OneCall
  <1>3. CASE CallRefused \/ CallBegins
    <2>1. /\ tracked = NoJob /\ at = "idle"
          /\ UNCHANGED <<pod, holding, tracked, staging, created>>
      BY <1>3 DEF CallRefused, CallBegins, Called, mapVars
    <2> QED
      BY <2>1 DEF MInv, OneCall
  <1>4. CASE Asking \/ Checking
    <2>1. at # "idle" /\ at # "store" /\ UNCHANGED <<pod, holding, tracked, staging, created>>
      BY <1>0, <1>4, WayToSubmission DEF WorkSteps, restVars, mapVars
    <2> QED
      BY <2>1 DEF MInv, OneCall
  <1>5. CASE JobAccepted
    BY <1>5 DEF JobAccepted, Goto, mapVars, MInv, OneCall
  <1>6. CASE JobReplyLost
    BY <1>6 DEF JobReplyLost, Return, mapVars, MInv, OneCall
  <1>7. CASE JobStored
    <2>1. pod # NoPod /\ holding # NoJob
      BY <1>0, <1>7, StageInAssumption DEF JobStored, TInv, StageInTypeOK
    <2> QED
      BY <1>7, <2>1 DEF JobStored, Return, OneCall
  <1>8. ASSUME NEW i \in DOMAIN work, WorkEnds(i) PROVE OneCall'
    BY <1>8 DEF WorkEnds, restVars, mapVars, MInv, OneCall
  <1>9. CASE Restart
    BY <1>9 DEF Restart, Return, MInv, OneCall
  <1> QED
    BY <1>1, <1>2, <1>3, <1>4, <1>5, <1>6, <1>7, <1>8, <1>9
    DEF Next, Call, Asking, Checking, TransferStep, WaitStep, OpenStep, CommandStep, UploadStep,
        SubmitStep

-----------------------------------------------------------------------------
(* The jobs of a pod.                                                      *)

\* A submitted job is tracked, in the hands of its call, or was lost with a
\* reply or with the process.
JobsAccounted == \A j \in Jobs : Submitted(j) => j \in {tracked, holding} \cup excused

\* However often CreatePod was called, one job is the most that nothing lost.
OneSubmission ==
  \A i, j \in Jobs : Submitted(i) /\ Submitted(j) /\ i \notin excused /\ j \notin excused => i = j

AInv == MInv /\ JobsAccounted

LEMMA NewSubmission ==
  ASSUME TInv, NEW j \in Jobs, SubmitJob(j, KindOf(pod))
  PROVE  \A i \in Jobs : Submitted(i)' => Submitted(i) \/ i = j
  BY SubmittedTypes DEF TInv, StageInTypeOK, JobsTypeOK, SubmitJob, Submitted

LEMMA AInvNext == AInv /\ [Next]_vars => AInv'
  <1> SUFFICES ASSUME AInv, [Next]_vars PROVE JobsAccounted'
    BY MInvNext DEF AInv
  <1>0. MInv /\ TInv /\ OneCall /\ JobsAccounted
    BY DEF AInv, MInv
  <1>1. CASE UNCHANGED <<owner, tracked, holding, excused>>
    BY <1>0, <1>1 DEF JobsAccounted, Submitted
  <1>2. CASE JobAccepted
    <2>1. PICK j \in Jobs : SubmitJob(j, KindOf(pod)) /\ holding' = j
      BY <1>2 DEF JobAccepted
    <2>2. tracked = NoJob /\ holding = NoJob /\ UNCHANGED <<tracked, excused>>
      BY <1>0, <1>2 DEF JobAccepted, OneCall, mapVars
    <2> QED
      BY <1>0, <2>1, <2>2, NewSubmission, StageInAssumption DEF JobsAccounted
  <1>3. CASE JobReplyLost
    <2>1. PICK j \in Jobs : SubmitJob(j, KindOf(pod)) /\ excused' = excused \cup {j}
      BY <1>3 DEF JobReplyLost
    <2>2. UNCHANGED <<tracked, holding>>
      BY <1>3 DEF JobReplyLost, mapVars
    <2> QED
      BY <1>0, <2>1, <2>2, NewSubmission DEF JobsAccounted
  <1>4. CASE JobStored
    <2>1. tracked = NoJob /\ tracked' = holding /\ UNCHANGED <<owner, excused>>
      BY <1>0, <1>4 DEF JobStored, OneCall, jobVars
    <2> QED
      BY <1>0, <2>1, StageInAssumption DEF JobsAccounted, Submitted
  <1>5. CASE Restart
    BY <1>5 DEF Restart, JobsAccounted, Submitted, jobVars
  <1>6. CASE Asking \/ Checking
    BY <1>0, <1>1, <1>6, WayToSubmission DEF jobVars, restVars, mapVars
  <1>7. CASE CallRefused \/ CallBegins
    BY <1>1, <1>7 DEF CallRefused, CallBegins, jobVars, mapVars
  <1>8. ASSUME NEW p \in Shapes, PodArrives(p) PROVE JobsAccounted'
    BY <1>1, <1>8 DEF PodArrives, jobVars, mapVars
  <1>9. ASSUME NEW i \in DOMAIN work, WorkEnds(i) PROVE JobsAccounted'
    BY <1>1, <1>9 DEF WorkEnds, jobVars, restVars, mapVars
  <1>10. CASE UNCHANGED vars
    BY <1>1, <1>10 DEF vars, callVars
  <1> QED
    BY <1>2, <1>3, <1>4, <1>5, <1>6, <1>7, <1>8, <1>9, <1>10
    DEF Next, Call, Asking, Checking, TransferStep, WaitStep, OpenStep, CommandStep, UploadStep,
        SubmitStep

\* A CreatePod call that is made again after an error, a timeout of the staging
\* or an end of the process submits no second job, unless the first was lost
\* with a reply or with the process (nersc.go:173-265).
THEOREM CallsSubmitOneJob == Spec => [](JobsAccounted /\ OneSubmission)
  <1>1. Init => AInv
    BY MInvInit DEF Init, JobsInit, AInv, JobsAccounted, Submitted
  <1>2. AInv => JobsAccounted /\ OneSubmission
    BY StageInAssumption DEF AInv, MInv, OneCall, JobsAccounted, OneSubmission
  <1> QED
    BY <1>1, <1>2, AInvNext, PTL DEF Spec

-----------------------------------------------------------------------------
(* The calls as steps of PodLifecycle.                                     *)

\* The variables of PodLifecycle, as StageIn implements them.
jobs    == [k \in {"key"} |-> tracked]
stages  == [k \in {"key"} |-> IF staging THEN tracked ELSE NoJob]
thread  == [w \in {"worker"} |->
              [at  |-> IF at \in {"start", "wait", "open", "mkdir", "waitTask", "upload"}
                       THEN "stageIn" ELSE at,
               pod |-> IF at = "idle" THEN NoPod ELSE KindOf(pod),
               job |-> holding]]
known   == [k \in Kinds |-> IF pod = NoPod THEN "absent"
                            ELSE IF KindOf(pod) = k THEN "bound" ELSE "absent"]
done    == IF created THEN {KindOf(pod)} ELSE {}

lifeVars == <<owner, task, slurm, jobs, stages, thread, known, {}, excused, done, crashes>>

Moves(label, p, j) ==
  thread' = [thread EXCEPT !["worker"] = [at |-> label, pod |-> p, job |-> j]]

\* A step of the only worker.
LEMMA ThreadMoves ==
  ASSUME NEW label, NEW p, NEW j,
         label = (IF at' \in WorkSteps THEN "stageIn" ELSE at'),
         p = (IF at' = "idle" THEN NoPod ELSE KindOf(pod')),
         j = holding'
  PROVE  Moves(label, p, j)
  BY DEF Moves, thread, WorkSteps

LEMMA KindsArePods ==
  ASSUME NEW p
  PROVE  KindOf(p) \in Kinds /\ Kinds = Pods
  BY StageInAssumption DEF KindOf, Kinds, StagesIn, StagesOut

LEMMA LifeInit == Init => Lifecycle!Init
  <1> SUFFICES ASSUME Init PROVE Lifecycle!Init
    OBVIOUS
  <1>1. Lifecycle!JobsInit
    BY DEF Init, JobsInit, Lifecycle!JobsInit
  <1>2. /\ jobs = [k \in {"key"} |-> NoJob] /\ stages = [k \in {"key"} |-> NoJob]
        /\ thread = [w \in {"worker"} |-> [at |-> "idle", pod |-> NoPod, job |-> NoJob]]
        /\ known = [k \in Pods |-> "absent"] /\ done = {}
        /\ excused = {} /\ crashes = 0
    BY KindsArePods DEF Init, jobs, stages, thread, known, done
  <1> QED
    BY <1>1, <1>2 DEF Lifecycle!Init, Lifecycle!Idle, jobs, stages, thread, known, done

\* A step that only the caller of the service notices.
LEMMA OwnStep ==
  ASSUME MInv, UNCHANGED <<jobVars, restVars>>, at \in WorkSteps, at' \in WorkSteps
  PROVE  UNCHANGED lifeVars
  <1>1. UNCHANGED <<pod, holding, tracked, staging, created, excused, crashes, owner, task, slurm>>
    BY DEF jobVars, restVars, mapVars
  <1>2. thread' = thread
    BY <1>1 DEF thread, WorkSteps
  <1> QED
    BY <1>1, <1>2 DEF lifeVars, jobs, stages, known, done

LEMMA StagingEnds ==
  ASSUME MInv, UNCHANGED <<jobVars, restVars>>,
         \/ at \in WorkSteps /\ at' \in {"submit", "idle"}
         \/ at = "submit" /\ at' = "idle"
  PROVE  Lifecycle!Next
  <1>1. UNCHANGED <<pod, holding, tracked, staging, created, excused, crashes, owner, task, slurm>>
    BY DEF jobVars, restVars, mapVars
  <1>2. holding = NoJob
    BY DEF MInv, OneCall, WorkSteps
  <1>3. UNCHANGED jobs /\ UNCHANGED stages /\ UNCHANGED known /\ UNCHANGED done
    BY <1>1 DEF jobs, stages, known, done
  <1>4. CASE at \in WorkSteps /\ at' = "submit"
    <2>1. Moves("submit", KindOf(pod), NoJob) /\ thread["worker"].at = "stageIn"
          /\ thread["worker"].pod = KindOf(pod)
      BY <1>1, <1>2, <1>4, ThreadMoves DEF WorkSteps, thread
    <2>2. Lifecycle!StageInDone("worker")
      BY <1>1, <1>3, <2>1
      DEF Lifecycle!StageInDone, Lifecycle!At, Lifecycle!Goto, Lifecycle!jobVars,
          Lifecycle!mapVars, Lifecycle!ghostVars, Moves, thread, jobs, stages, known, done
    <2> QED
      BY <2>2 DEF Lifecycle!Next, Lifecycle!Running, Lifecycle!Continue, Lifecycle!StageInStep
  <1>5. CASE at \in WorkSteps /\ at' = "idle"
    <2>1. Moves("idle", NoPod, NoJob) /\ thread["worker"].at = "stageIn"
      BY <1>1, <1>2, <1>5, ThreadMoves DEF WorkSteps, thread
    <2>2. Lifecycle!StageInFails("worker")
      BY <1>1, <1>3, <2>1
      DEF Lifecycle!StageInFails, Lifecycle!At, Lifecycle!Return, Lifecycle!Idle,
          Lifecycle!jobVars, Lifecycle!mapVars, Lifecycle!ghostVars, Moves, thread, jobs, stages,
          known, done
    <2> QED
      BY <2>2 DEF Lifecycle!Next, Lifecycle!Running, Lifecycle!Continue, Lifecycle!StageInStep
  <1>6. CASE at = "submit" /\ at' = "idle"
    <2>1. Moves("idle", NoPod, NoJob) /\ thread["worker"].at = "submit"
      BY <1>1, <1>2, <1>6, ThreadMoves DEF WorkSteps, thread
    <2>2. Lifecycle!SubmitRefused("worker")
      BY <1>1, <1>3, <2>1
      DEF Lifecycle!SubmitRefused, Lifecycle!At, Lifecycle!Return, Lifecycle!Idle,
          Lifecycle!jobVars, Lifecycle!mapVars, Lifecycle!ghostVars, Moves, thread, jobs, stages,
          known, done
    <2> QED
      BY <2>2 DEF Lifecycle!Next, Lifecycle!Running, Lifecycle!Continue, Lifecycle!SubmitStep
  <1> QED
    BY <1>4, <1>5, <1>6

LEMMA ArrivalStep ==
  ASSUME MInv, NEW p \in Shapes, PodArrives(p)
  PROVE  Lifecycle!Next
  <1> DEFINE kind == KindOf(p)
  <1>1. /\ pod = NoPod /\ pod' = p /\ pod' # NoPod /\ at = "idle" /\ ~created
        /\ UNCHANGED <<owner, task, slurm, at, holding, tracked, staging, created, excused,
                       crashes>>
    BY StageInAssumption DEF PodArrives, jobVars, mapVars, MInv, OneCall, TInv, StageInTypeOK
  <1>2. UNCHANGED jobs /\ UNCHANGED stages /\ UNCHANGED thread /\ UNCHANGED done
    BY <1>1 DEF jobs, stages, thread, done, WorkSteps
  <1>3. kind \in Pods /\ Kinds = Pods
    BY KindsArePods
  <1>4. known = [k \in Pods |-> "absent"] /\ known' = [known EXCEPT ![kind] = "bound"]
    BY <1>1, <1>3 DEF known
  <1> HIDE DEF kind
  <1>5. Lifecycle!SetPhase(kind, "absent", "bound")
    BY <1>1, <1>2, <1>3, <1>4
    DEF Lifecycle!SetPhase, Lifecycle!jobVars, Lifecycle!mapVars, known, jobs, stages, thread, done
  <1>6. Lifecycle!PodBound(kind)
    BY <1>4, <1>5 DEF Lifecycle!PodBound, Lifecycle!Live, known
  <1> QED
    BY <1>3, <1>6 DEF Lifecycle!Next, Lifecycle!Running, Lifecycle!Kubernetes

LEMMA BeginStep ==
  ASSUME MInv, CallBegins
  PROVE  Lifecycle!Next
  <1> DEFINE kind == KindOf(pod)
             label == IF kind \in {k \in Kinds : k.input} THEN "stageIn" ELSE "submit"
  <1>1. /\ pod # NoPod /\ at = "idle" /\ tracked = NoJob /\ holding = NoJob
        /\ at' = (IF ~StagesIn(pod) THEN "submit"
                  ELSE IF Mode(pod) = "globus" THEN "start" ELSE "open")
        /\ UNCHANGED <<owner, task, slurm, pod, holding, tracked, staging, created, excused,
                       crashes>>
    BY DEF CallBegins, Called, Goto, jobVars, mapVars, MInv, OneCall
  <1>2. UNCHANGED jobs /\ UNCHANGED stages /\ UNCHANGED known /\ UNCHANGED done
    BY <1>1 DEF jobs, stages, known, done
  <1>3. kind \in Pods /\ kind \in Kinds
    BY KindsArePods
  <1>4. kind \in {k \in Kinds : k.input} <=> StagesIn(pod)
    BY <1>3 DEF KindOf
  <1>5. label = (IF at' \in WorkSteps THEN "stageIn" ELSE at') /\ at' # "idle"
    BY <1>1, <1>4 DEF WorkSteps
  <1>6. Moves(label, kind, NoJob)
    BY <1>1, <1>5, ThreadMoves
  <1>7. /\ thread["worker"].at = "idle" /\ known[kind] = "bound" /\ jobs["key"] = NoJob
        /\ [k \in Kinds |-> "key"][kind] = "key"
    BY <1>1, <1>3 DEF thread, known, jobs, WorkSteps
  <1> HIDE DEF kind
  <1>8. Lifecycle!CreateBegin("worker", kind)
    BY <1>1, <1>2, <1>3, <1>6, <1>7
    DEF Lifecycle!CreateBegin, Lifecycle!At, Lifecycle!Tracked, Lifecycle!Goto,
        Lifecycle!jobVars, Lifecycle!mapVars, Lifecycle!ghostVars, Moves, known, jobs, stages,
        thread, done
  <1> QED
    BY <1>3, <1>8 DEF Lifecycle!Next, Lifecycle!Running, Lifecycle!Begin

LEMMA SubmittedStep ==
  ASSUME MInv, JobAccepted \/ JobReplyLost
  PROVE  Lifecycle!Next
  <1> DEFINE kind == KindOf(pod)
  <1>1. /\ at = "submit" /\ holding = NoJob
        /\ UNCHANGED <<pod, tracked, staging, created, crashes>>
    BY DEF JobAccepted, JobReplyLost, mapVars, MInv, OneCall
  <1>2. UNCHANGED jobs /\ UNCHANGED stages /\ UNCHANGED known /\ UNCHANGED done
    BY <1>1 DEF jobs, stages, known, done
  <1>3. thread["worker"].at = "submit" /\ thread["worker"].pod = kind
    BY <1>1 DEF thread, WorkSteps
  <1>4. CASE JobAccepted
    <2>1. PICK j \in Jobs : SubmitJob(j, kind) /\ holding' = j
      BY <1>4 DEF JobAccepted
    <2>2. at' = "store" /\ UNCHANGED excused
      BY <1>4 DEF JobAccepted, Goto
    <2>3. Moves("store", kind, j)
      BY <1>1, <2>1, <2>2, ThreadMoves DEF WorkSteps
    <2> HIDE DEF kind
    <2>4. Lifecycle!SubmitJob(j, kind)
      BY <2>1 DEF SubmitJob, Lifecycle!SubmitJob, Submitted, Lifecycle!Submitted
    <2>5. Lifecycle!SubmitAccepted("worker")
      BY <1>1, <1>2, <1>3, <2>2, <2>3, <2>4
      DEF Lifecycle!SubmitAccepted, Lifecycle!At, Lifecycle!Goto, Lifecycle!mapVars,
          Lifecycle!ghostVars, Moves, thread, jobs, stages, known, done
    <2> QED
      BY <2>5 DEF Lifecycle!Next, Lifecycle!Running, Lifecycle!Continue, Lifecycle!SubmitStep
  <1>5. CASE JobReplyLost
    <2>1. PICK j \in Jobs : SubmitJob(j, kind) /\ excused' = excused \cup {j}
      BY <1>5 DEF JobReplyLost
    <2>2. at' = "idle" /\ UNCHANGED holding
      BY <1>5 DEF JobReplyLost, Return
    <2>3. Moves("idle", NoPod, NoJob)
      BY <1>1, <2>2, ThreadMoves DEF WorkSteps
    <2> HIDE DEF kind
    <2>4. Lifecycle!SubmitJob(j, kind)
      BY <2>1 DEF SubmitJob, Lifecycle!SubmitJob, Submitted, Lifecycle!Submitted
    <2>5. Lifecycle!SubmitReplyLost("worker")
      BY <1>1, <1>2, <1>3, <2>1, <2>3, <2>4
      DEF Lifecycle!SubmitReplyLost, Lifecycle!At, Lifecycle!Return, Lifecycle!Idle,
          Lifecycle!mapVars, Moves, thread, jobs, stages, known, done
    <2> QED
      BY <2>5 DEF Lifecycle!Next, Lifecycle!Running, Lifecycle!Continue, Lifecycle!SubmitStep
  <1> QED
    BY <1>4, <1>5

\* The plan kept for a pod is the one for its input or its output.
LEMMA PlanIsStaging ==
  ASSUME NEW p \in Shapes, ~PlanRefused(p)
  PROVE  HasPlan(p) <=> KindOf(p) \in {k \in Kinds : k.input} \cup {k \in Kinds : k.output}
  <1>1. ~Parses("globus", NoLocation) /\ ~Parses("sfapi", NoLocation)
    BY DEF Parses, NoLocation
  <1>2. StagesOut(p) => p.output # NoLocation
    BY <1>1, Planned
  <1>3. KindOf(p) \in Kinds
    BY KindsArePods
  <1> QED
    BY <1>2, <1>3 DEF HasPlan, KindOf

LEMMA StoredStep ==
  ASSUME MInv, JobStored
  PROVE  Lifecycle!Next
  <1> DEFINE kind == KindOf(pod)
             in == {k \in Kinds : k.input}
             out == {k \in Kinds : k.output}
  <1>1. /\ at = "store" /\ at' = "idle" /\ tracked = NoJob /\ ~staging
        /\ pod \in Shapes /\ ~PlanRefused(pod)
        /\ tracked' = holding /\ holding' = NoJob /\ created' = TRUE
        /\ staging' = (staging \/ HasPlan(pod))
        /\ UNCHANGED <<owner, task, slurm, pod, excused, crashes>>
    BY DEF JobStored, Return, jobVars, MInv, OneCall, TInv, StageInTypeOK, CallPlan
  <1>2. staging' <=> kind \in in \cup out
    BY <1>1, PlanIsStaging
  <1>3. kind \in Pods /\ kind \in Kinds
    BY KindsArePods
  <1>4. /\ thread["worker"].at = "store" /\ thread["worker"].pod = kind
        /\ thread["worker"].job = holding
        /\ [k \in Kinds |-> "key"][kind] = "key"
    BY <1>1, <1>3 DEF thread, WorkSteps
  <1>5. Moves("idle", NoPod, NoJob)
    BY <1>1, ThreadMoves DEF WorkSteps
  <1>6. known' = known /\ done' = done \cup {kind}
    BY <1>1 DEF known, done
  <1>7. /\ jobs["key"] = NoJob
        /\ jobs' = [jobs EXCEPT !["key"] = holding]
        /\ stages' = [stages EXCEPT !["key"] = IF kind \in in \cup out THEN holding ELSE @]
    <2> HIDE DEF kind, in, out
    <2> QED
      BY <1>1, <1>2 DEF jobs, stages
  <1> HIDE DEF kind, in, out
  <1>8. Lifecycle!CreateStore("worker")
    BY <1>1, <1>4, <1>5, <1>6, <1>7
    DEF Lifecycle!CreateStore, Lifecycle!At, Lifecycle!Tracked, Lifecycle!Return, Lifecycle!Idle,
        Lifecycle!StagingPods, Lifecycle!jobVars, Moves, thread, jobs, stages, known, done, in, out
  <1> QED
    BY <1>8 DEF Lifecycle!Next, Lifecycle!Running, Lifecycle!Continue, Lifecycle!StoreStep

LEMMA RestartStep ==
  ASSUME MInv, Restart
  PROVE  Lifecycle!Next
  <1>1. /\ crashes < MaxCrashes /\ crashes' = crashes + 1
    BY DEF Restart
  <1>2. /\ at' = "idle" /\ tracked' = NoJob /\ staging' = FALSE /\ holding' = NoJob
        /\ excused' = excused \cup {j \in Jobs : Submitted(j)}
        /\ UNCHANGED <<owner, task, slurm, pod, created>>
    BY DEF Restart, Return, jobVars
  <1>3. /\ jobs' = [k \in {"key"} |-> NoJob]
        /\ stages' = [k \in {"key"} |-> NoJob]
        /\ thread' = [w \in {"worker"} |-> [at |-> "idle", pod |-> NoPod, job |-> NoJob]]
        /\ UNCHANGED known /\ UNCHANGED done
    BY <1>2 DEF jobs, stages, thread, known, done, WorkSteps
  <1>4. excused' = {j \in Jobs : Lifecycle!Submitted(j)} \cup excused
    BY <1>2 DEF Submitted, Lifecycle!Submitted
  <1>5. Lifecycle!Restart
    BY <1>1, <1>2, <1>3, <1>4
    DEF Lifecycle!Restart, Lifecycle!Idle, Lifecycle!jobVars, jobs, stages, thread, known, done
  <1> QED
    BY <1>5 DEF Lifecycle!Next

LEMMA LifeNext == MInv /\ [Next]_vars => Lifecycle!Next \/ UNCHANGED lifeVars
  <1> SUFFICES ASSUME MInv, [Next]_vars
               PROVE  Lifecycle!Next \/ UNCHANGED lifeVars
    OBVIOUS
  <1>0. TInv
    BY DEF MInv
  <1>1. CASE UNCHANGED vars
    BY <1>1 DEF vars, callVars, lifeVars, jobs, stages, thread, known, done
  <1>2. ASSUME NEW p \in Shapes, PodArrives(p) PROVE Lifecycle!Next
    BY <1>2, ArrivalStep
  <1>3. CASE CallRefused
    BY <1>3 DEF CallRefused, jobVars, mapVars, lifeVars, jobs, stages, thread, known, done
  <1>4. CASE CallBegins
    BY <1>4, BeginStep
  <1>5. CASE Asking \/ Checking
    <2>1. /\ UNCHANGED <<jobVars, restVars>>
          /\ \/ at \in WorkSteps /\ at' \in WorkSteps \cup {"submit", "idle"}
             \/ at = "submit" /\ at' = "idle"
      BY <1>0, <1>5, WayToSubmission
    <2> QED
      BY <2>1, OwnStep, StagingEnds
  <1>6. CASE JobAccepted \/ JobReplyLost
    BY <1>6, SubmittedStep
  <1>7. CASE JobStored
    BY <1>7, StoredStep
  <1>8. ASSUME NEW i \in DOMAIN work, WorkEnds(i) PROVE UNCHANGED lifeVars
    BY <1>8 DEF WorkEnds, jobVars, restVars, mapVars, lifeVars, jobs, stages, thread, known, done
  <1>9. CASE Restart
    BY <1>9, RestartStep
  <1> QED
    BY <1>1, <1>2, <1>3, <1>4, <1>5, <1>6, <1>7, <1>8, <1>9
    DEF Next, Call, Asking, Checking, TransferStep, WaitStep, OpenStep, CommandStep, UploadStep,
        SubmitStep

\* What stageInput does before a submission, and the errors that end a call
\* between two steps of it, is nothing to the maps and to the service's jobs
\* but what PodLifecycle says of a CreatePod call (nersc.go:173-265).
THEOREM CallsAreLifecycleCalls == Spec => ImplementsLifecycle
  <1>1. Init => Lifecycle!Init
    BY LifeInit
  <1>2. MInv /\ [Next]_vars => [Lifecycle!Next]_(Lifecycle!vars)
    BY LifeNext DEF Lifecycle!vars, lifeVars, jobs, stages, thread, known, done
  <1> QED
    BY <1>1, <1>2, MInvInit, MInvNext, PTL DEF Spec, ImplementsLifecycle, Lifecycle!Spec
=============================================================================
