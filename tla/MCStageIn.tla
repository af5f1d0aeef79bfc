----------------------------- MODULE MCStageIn -----------------------------
(* Instances of StageIn for TLC: pods that differ in one concern each.     *)
EXTENDS StageIn

Globus(path) == [scheme |-> "globus", host |-> "dtn", absolute |-> TRUE, path |-> path]
Local(path)  == [scheme |-> "", host |-> "", absolute |-> FALSE, path |-> path]
File(path)   == [scheme |-> "file", host |-> "", absolute |-> TRUE, path |-> path]

Root  == <<"srv", "transfer">>
Files == {Root \o <<"in", "cfg">>, <<"etc", "cfg">>}

Container(name, mounts) == [name |-> name, mounts |-> mounts]

Plain ==
  [name |-> "demo", ordinal |-> "", replicaOf |-> "", scratchBase |-> "",
   volumes |-> {"data"}, mode |-> "", stageOut |-> "",
   inputVolume |-> "", outputVolume |-> "", stageVolume |-> "",
   input |-> NoLocation, output |-> NoLocation,
   options |-> {}, bad |-> {}, launcher |-> "", mainContainer |-> "",
   containers |-> <<Container("main", <<"data">>)>>]

\* Which volume gets the input, and whether output is asked for.
TwoVolumes == [Plain EXCEPT !.volumes = {"data", "out"}, !.input = Globus(<<"x">>),
                            !.containers = <<Container("main", <<"data", "out", "data">>)>>]
GlobusPods ==
  {[TwoVolumes EXCEPT !.inputVolume = v, !.stageVolume = s] :
     v \in {"", "data", "other"}, s \in {"", "out"}}
  \cup {[TwoVolumes EXCEPT !.inputVolume = "data", !.outputVolume = "out",
                           !.stageOut = "true", !.output = Globus(<<"y">>)],
        [TwoVolumes EXCEPT !.stageVolume = "data", !.outputVolume = "out",
                           !.stageOut = "true", !.output = Globus(<<"y">>)],
        [Plain EXCEPT !.input = Globus(<<"x">>)],
        [Plain EXCEPT !.input = Globus(<<"x">>), !.volumes = {}],
        [Plain EXCEPT !.stageOut = "true", !.output = Globus(<<"y">>)],
        [Plain EXCEPT !.stageOut = "false", !.output = Globus(<<"y">>)]}

\* Paths inside and outside the provider's root.
Concrete == [Plain EXCEPT !.mode = "sfapi", !.scratchBase = "/pscratch"]
SfapiPods ==
  {[Concrete EXCEPT !.input = l] :
     l \in {Local(<<"in", "cfg">>), Local(<<"in", "..", ".", "in", "cfg">>), Local(<<"in">>),
            Local(<<"..", "..", "etc", "cfg">>), File(Root \o <<"in", "cfg">>),
            File(<<"etc", "cfg">>), File(<<>>)}}
  \cup {[Concrete EXCEPT !.scratchBase = "", !.input = Local(<<"in", "cfg">>)],
        [Concrete EXCEPT !.stageOut = "true", !.output = Local(<<"res">>)],
        [Concrete EXCEPT !.volumes = {"data", "out"}, !.stageOut = "true",
                         !.outputVolume = "out", !.output = Local(<<"..", "res">>),
                         !.containers = <<Container("main", <<"out", "data">>)>>]}

\* Annotations that are refused.
RefusedPods ==
  {[Plain EXCEPT !.mode = "other"], [Plain EXCEPT !.stageOut = "maybe"],
   [Plain EXCEPT !.stageOut = "true"],
   [Plain EXCEPT !.input = Local(<<"in", "cfg">>)],
   [Concrete EXCEPT !.input = Globus(<<"x">>)],
   [Plain EXCEPT !.bad = {"time"}, !.options = {"time"}, !.input = Globus(<<"x">>)]}

\* Options, launchers and containers.
OptionPods ==
  {[Plain EXCEPT !.options = o, !.launcher = l] :
     o \in SUBSET {"ntasks", "cpus-per-task", "gpus", "gpus-per-node", "gpus-per-task", "qos"},
     l \in {"", "none", "srun", "mpirun"}}

Several(names) == [i \in DOMAIN names |-> Container(names[i], <<"data", names[i]>>)]
ContainerPods ==
  {[Plain EXCEPT !.volumes = {"data", "a", "b"}, !.containers = Several(names),
                 !.mainContainer = m, !.launcher = l, !.options = o] :
     names \in {<<"a", "b">>, <<"b", "c", "a">>}, m \in {"", "a", "b", "d"},
     l \in {"", "srun"}, o \in {{}, {"gpus-per-task"}, {"nodes", "account"}}}

Replica(set, n) ==
  [Plain EXCEPT !.name = set \o "-" \o n, !.ordinal = n, !.replicaOf = set]
Replicas == {Replica(set, n) : set \in {"web", "db"}, n \in {"0", "1"}}
            \cup {[Plain EXCEPT !.name = "web"]}

AllPods == GlobusPods \cup SfapiPods \cup RefusedPods \cup OptionPods
           \cup ContainerPods \cup Replicas
=============================================================================
