---------------------------- MODULE MCDeployment ----------------------------
(***************************************************************************)
(* Small instances of Deployment: which processes run together and what    *)
(* they find on disk.                                                      *)
(***************************************************************************)
EXTENDS Deployment

MCVersions == <<1, 2>>
MCLayers == [v \in {1, 2} |-> 3]

Job(role) == [role |-> role, profile |-> "", mode |-> "", index |-> 1, workers |-> 2,
              range |-> <<0, 1>>, trusted |-> None]
Compile(profile) == [Job("compile") EXCEPT !.profile = profile]
Deploy(workers) == [Job("deploy") EXCEPT !.workers = workers]
Worker(mode, i, range) == [Job("worker") EXCEPT !.mode = mode, !.index = i, !.range = range]
Coordinator(workers) == [Job("coordinator") EXCEPT !.workers = workers]

First == Manifest(BOUNDED_PROFILE, Gguf(1))
Bare == [path \in {Source} |-> Gguf(1)]
Newer == [path \in {Source} |-> Gguf(2)]
Add(f, g) == [path \in DOMAIN f \cup DOMAIN g |-> IF path \in DOMAIN g THEN g[path] ELSE f[path]]

\* The files of an artifact of the first version, of its shards and its plan.
ArtifactIn(dir) ==
  [path \in {Path(dir, "symbolic.json", 0)} \cup {Path(dir, "kernel", i) : i \in 1 .. Kernels} |->
     IF path[3] = "kernel" THEN First.kernels[path[4]] ELSE First]
Halves == layer_ranges(3, 2)
Alone == layer_ranges(3, 1)
Shard(ranges, i) == Descriptor(First, Gguf(1), ranges[i])
ShardsIn(dir, ranges, shards) ==
  [path \in {Path(dir, f, i) : f \in {"weights.json", "weights.bin"}, i \in shards} |->
     IF path[3] = "weights.json" THEN Shard(ranges, path[4]) ELSE Shard(ranges, path[4]).payload]
PlanIn(dir, ranges) ==
  [path \in {Path(dir, "plan.json", 0)} |->
     Plan(First, ranges, [i \in 1 .. Len(ranges) |-> Shard(ranges, i)])]
Bundle(dir, ranges, shards) ==
  Add(ArtifactIn(dir), Add(ShardsIn(dir, ranges, shards), PlanIn(dir, ranges)))

Published == Add(Bare, ArtifactIn(ModelDir))
Prep(ranges) == Bundle(Prepared, ranges, 1 .. Len(ranges))
Provisioned == Add(Published, Bundle(Remote(2), Halves, {2}))

Scene(jobs, files, d) == [job |-> jobs, fs |-> files, dirs |-> d]

MCScenarios == {
  Scene(<<Compile("v4"), Compile("v2"), Job("run")>>, Bare, {}),
  Scene(<<Compile("v3"), Job("causal"), Job("run")>>, Bare, {}),
  Scene(<<Compile("v4"), Job("run")>>, Published, {ModelDir}),
  Scene(<<Job("causal"), Job("run")>>, Bare, {}),
  Scene(<<Job("prepare"), Compile("v4")>>, Published, {ModelDir}),
  Scene(<<Job("export"), Compile("v4")>>, Published, {ModelDir}),
  Scene(<<Deploy(2)>>, Add(Newer, Prep(Halves)), {Prepared}),
  Scene(<<Deploy(1), Deploy(1)>>, Add(Newer, Prep(Alone)), {Prepared}),
  Scene(<<Deploy(1), Worker("prepared", 1, <<>>)>>, Add(Newer, Prep(Alone)), {Prepared}),
  Scene(<<Worker("source", 1, <<0, 3>>), Coordinator(1), Compile("v4")>>, Published, {ModelDir}),
  Scene(<<[Worker("shard", 1, <<0, 1>>) EXCEPT !.trusted = Shard(Halves, 1)],
          Worker("prepared", 2, <<>>), Coordinator(2)>>,
        Add(Provisioned, ShardsIn(ShardDir, Halves, {1})), {ModelDir, ShardDir, Remote(2)}),
  Scene(<<Job("write model"), Job("write model"), Job("append"), Job("append")>>, Bare, {})}
=============================================================================
