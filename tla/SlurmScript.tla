---------------------------- MODULE SlurmScript ----------------------------
(***************************************************************************)
(* What pkg/scripts/slurm.go makes of a pod: which options reach Slurm,    *)
(* which containers run and how, which directories are made and mounted.   *)
(* Quoting and layout of the shell text are left out.                      *)
(*                                                                         *)
(* A pod p is a record; the fields used here are                           *)
(*   options, bad    annotated Slurm options, and those of them whose      *)
(*                   value its pattern or Atoi refuses                     *)
(*   launcher        the launcher annotation, "" when there is none        *)
(*   mainContainer   the mainContainer annotation, "" when there is none   *)
(*   containers      sequence of [name, mounts], mounts a sequence of      *)
(*                   volume names, one for each volumeMount                *)
(* and paths is the function from the pod's volumes to directories.        *)
(***************************************************************************)
EXTENDS Naturals, SequencesExt

IntOptions == {"nodes", "ntasks", "tasks-per-node", "cpus-per-task",
               "gpus", "gpus-per-node", "gpus-per-task"}
StringOptions == {"mem", "time", "partition", "qos", "constraint", "account"}
SlurmOptions == IntOptions \cup StringOptions

-----------------------------------------------------------------------------
(* Options.  The value an option was annotated with goes by the option's   *)
(* own name, so that a value under another's flag is noticed.              *)

Defaulted == {"nodes", "cpus-per-task", "mem", "time"}
Given(p) == p.options \cup Defaulted
Value(p, o) == IF o \in p.options THEN o ELSE "default"

Launcher(p) == IF p.launcher = "" THEN "none" ELSE p.launcher

\* Mutant: no launcher is asked for.
MutOptionsRefused(p) ==
  \/ p.bad # {}
  \/ {"gpus", "gpus-per-node"} \subseteq p.options
  \/ Launcher(p) \notin {"none", "srun"}

\* slurmOptionsFromPod returns an error.
OptionsRefused(p) ==
  \/ p.bad # {}
  \/ {"gpus", "gpus-per-node"} \subseteq p.options
  \/ Launcher(p) \notin {"none", "srun"}
  \/ "gpus-per-task" \in p.options /\ Launcher(p) # "srun"

Flags(p, set) == {[flag |-> o, value |-> Value(p, o)] : o \in Given(p) \cap set}

\* #SBATCH lines; gpus-per-task is none of them.
Directives(p) == Flags(p, SlurmOptions \ {"gpus-per-task"})

LaunchFlags(p) ==
  IF Launcher(p) = "srun"
  THEN Flags(p, {"ntasks", "tasks-per-node", "cpus-per-task", "gpus-per-task"})
  ELSE {}

-----------------------------------------------------------------------------
(* Containers.                                                             *)

Multi(p) == Len(p.containers) > 1

Named(p, name) == {i \in DOMAIN p.containers : p.containers[i].name = name}

MainUnknown(p) == p.mainContainer # "" /\ Named(p, p.mainContainer) = {}

MainIndex(p) ==
  IF p.mainContainer = "" THEN 1 ELSE CHOOSE i \in Named(p, p.mainContainer) : TRUE

\* Mutant: the first container is skipped, whichever is the main one.
MutSidecars(p) == Tail(p.containers)

Sidecars(p) == RemoveAt(p.containers, MainIndex(p))

\* The volumes a container gets: mounts of volumes with a directory.
VolumeArgs(c, paths) ==
  {[volume |-> v, dir |-> paths[v]] : v \in Range(c.mounts) \cap DOMAIN paths}

RunCommand(c, paths, background) ==
  [container |-> c.name, background |-> background, volumes |-> VolumeArgs(c, paths)]

Runs(p, paths) ==
  IF Multi(p)
  THEN LET sidecars == Sidecars(p)
       IN Append([i \in DOMAIN sidecars |-> RunCommand(sidecars[i], paths, TRUE)],
                 RunCommand(p.containers[MainIndex(p)], paths, FALSE))
  ELSE <<RunCommand(p.containers[1], paths, FALSE)>>

-----------------------------------------------------------------------------
(* Directories.                                                            *)

\* A line for a mount of a volume with a directory not seen before.
SetupLine(lines, mount, paths) ==
  IF mount \in DOMAIN paths /\ ~Contains(lines, paths[mount])
  THEN Append(lines, paths[mount]) ELSE lines

\* buildVolumeSetupLines, after the lines of the containers before.
SetupLines(before, mounts, paths) ==
  LET lines[n \in 0 .. Len(mounts)] ==
        IF n = 0 THEN before ELSE SetupLine(lines[n - 1], mounts[n], paths)
  IN lines[Len(mounts)]

\* Mutant: a pod's script prepares the first container's volumes only.
MutSetup(p, paths) == SetupLines(<<>>, p.containers[1].mounts, paths)

Setup(p, paths) ==
  LET lines[n \in 0 .. Len(p.containers)] ==
        IF n = 0 THEN <<>> ELSE SetupLines(lines[n - 1], p.containers[n].mounts, paths)
  IN lines[Len(p.containers)]

-----------------------------------------------------------------------------
(* The script, or an error.  Kubernetes has no pod without a container;     *)
(* CreatePod refuses one at once (nersc.go:177).                           *)

ScriptRefused(p) ==
  \/ p.containers = <<>>
  \/ OptionsRefused(p)
  \/ Multi(p) /\ (Launcher(p) # "none" \/ MainUnknown(p))

Script(p, paths) ==
  [directives |-> Directives(p),
   launch     |-> LaunchFlags(p),
   setup      |-> Setup(p, paths),
   runs       |-> Runs(p, paths)]
=============================================================================
