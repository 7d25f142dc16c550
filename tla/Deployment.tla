----------------------------- MODULE Deployment -----------------------------
(***************************************************************************)
(* Artifacts on disk and the programs that read and write them: the        *)
(* compilers that publish a directory of kernels with a manifest, the      *)
(* loaders, the checked identity, the export of weight shards, the         *)
(* preparation of a deployment plan, its provisioning over SSH, the        *)
(* admission of workers and of the coordinator, and the publication of     *)
(* autonomous resource files.                                              *)
(*                                                                         *)
(* A process is the list of file operations it has still to do, one step   *)
(* of the model each: between two of them any other process may write, the *)
(* operator may replace the GGUF or clear the artifact directory, and the  *)
(* process may fail or be killed.  A file being written or copied is torn  *)
(* until its last byte is there, and stays torn when the writer stops.     *)
(*                                                                         *)
(* A SHA-256 is modelled by the content it stands for.  A mapped GGUF is   *)
(* the file that was opened: it may be replaced, not overwritten (the      *)
(* documentation asks that much), and no version of it comes back.         *)
(***************************************************************************)
EXTENDS Integers, Sequences, FiniteSets, SequencesExt

CONSTANTS
  Versions,     \* the contents the source GGUF goes through, in order
  Layers,       \* config.n_layers of each version
  Kernels,      \* kernel files of an artifact
  Scenarios,    \* the processes that run together, and the files they find
  MaxCrashes,   \* serving workers that may be killed
  MaxTampered,  \* files another program may overwrite
  MaxPartial    \* files one scp may leave behind half sent

ASSUME DeploymentAssumption ==
  /\ Versions \in Seq(Nat) /\ Versions # <<>>
  /\ Layers \in [Range(Versions) -> Nat \ {0}]
  /\ {Kernels, MaxCrashes, MaxTampered, MaxPartial} \subseteq Nat /\ Kernels > 0

VARIABLES
  job,       \* what each process was started to do
  fs,        \* the content of every file there is
  dirs,      \* the directories there are
  todo,      \* the operations each process has still to do
  mem,       \* what each process remembers
  status,    \* "run", "serving", "ok", "failed" or "dead"
  conn,      \* the connection to each worker
  crashes, tampered

vars == <<job, fs, dirs, todo, mem, status, conn, crashes, tampered>>

Procs == DOMAIN job

None == [kind |-> "none"]
Torn == [kind |-> "torn"]
Gguf(v) == [kind |-> "gguf", v |-> v]
KernelFile(i, profile, source) ==
  [kind |-> "kernel", i |-> i, profile |-> profile, source |-> source]
Resource(source, launcher) == [kind |-> "resource", source |-> source, launcher |-> launcher]

\* What a compilation of one source with one profile produces.  The manifest
\* binds the source and every kernel by its hash.
Manifest(profile, source) ==
  [kind |-> "manifest", profile |-> profile, source |-> source,
   kernels |-> [i \in 1 .. Kernels |-> KernelFile(i, profile, source)]]

\* The encoded tensors of a range of layers, and the descriptor that binds
\* them to an artifact.
Weights(source, range) == [kind |-> "weights", source |-> source, range |-> range]
Descriptor(artifact, source, range) ==
  [kind |-> "descriptor", artifact |-> artifact, range |-> range,
   payload |-> Weights(source, range)]

Plan(artifact, ranges, shards) ==
  [kind |-> "plan", artifact |-> artifact, ranges |-> ranges, shards |-> shards]

\* The profiles that are loaded, and those that are still compiled.
BOUNDED_PROFILE == "v4"
LEGACY_PROFILE == "v1"
CompiledProfiles == {"v2", "v3", BOUNDED_PROFILE}
SymbolicProfiles == CompiledProfiles \cup {LEGACY_PROFILE}
MANIFEST(profile) == IF profile = "native" THEN "causal.json" ELSE "symbolic.json"

LayersOf(manifest) == Layers[manifest.source.v]

\* The contiguous ranges of a model's layers, one per worker.
layer_ranges(layers, workers) ==
  LET count == IF workers < layers THEN workers ELSE layers
  IN  [i \in 1 .. count |-> <<((i - 1) * layers) \div count, (i * layers) \div count>>]

Source == <<"source", 0, "gguf", 0>>
ModelDir == <<"model", 0>>
Prepared == <<"prepared", 0>>
ShardDir == <<"shard", 0>>
AotDir == <<"aot", 0>>
Remote(i) == <<"remote", i>>
Path(dir, file, i) == dir \o <<file, i>>
Exists(path) == path \in DOMAIN fs
Read(path) == IF Exists(path) THEN fs[path] ELSE None
FilesIn(dir) == {path \in DOMAIN fs : SubSeq(path, 1, 2) = dir}
With(path, content) == [q \in DOMAIN fs \cup {path} |-> IF q = path THEN content ELSE fs[q]]
Without(paths) == [q \in DOMAIN fs \ paths |-> fs[q]]

-----------------------------------------------------------------------------
(* The operations of the programs, as lists of file operations *)

Op(op, dir, file, i) == [op |-> op, dir |-> dir, file |-> file, i |-> i, to |-> dir, slot |-> 0]
OpTo(op, dir, to, file, i) == [Op(op, dir, file, i) EXCEPT !.to = to]
Slot(op, dir, slot) == [Op(op, dir, "symbolic.json", 0) EXCEPT !.slot = slot]
Each(n, F(_)) == FlattenSeq([i \in 1 .. n |-> F(i)])

\* fs::write: the file is truncated, then its bytes arrive.
Write(dir, file, i) == <<Op("create", dir, file, i), Op("fill", dir, file, i)>>

\* fs::copy, copy_bounded and scp: both files are opened, then the bytes follow.
Copy(dir, to, file, i) ==
  <<OpTo("open copy", dir, to, file, i), OpTo("copy", dir, to, file, i)>>
CopyKernels(dir, to) == Each(Kernels, LAMBDA i : Copy(dir, to, "kernel", i))

KernelReads(dir) == [i \in 1 .. Kernels |-> Op("read kernel", dir, "kernel", i)]

load_directory(dir) ==
  <<Op("read manifest", dir, "symbolic.json", 0), Op("open source", dir, "", 0)>> \o KernelReads(dir)

causal_load(dir) ==
  <<Op("read manifest", dir, "causal.json", 0), Op("open source", dir, "", 0)>> \o KernelReads(dir)

load_directory_authenticated(dir) ==
  <<Slot("read trusted", dir, 1)>> \o KernelReads(dir)

\* The runtime's models of the two kinds, from what was loaded.
open_artifact(dir) == load_directory(dir) \o <<Op("keep", dir, "", 0)>>
causal_open(dir) == causal_load(dir) \o <<Op("keep", dir, "", 0)>>

\* Verify everything, and read the manifest once more.  The identity is pinned
\* in a slot, or compared with the one that is there.
checked_identity(dir, use, slot) ==
  <<Slot("before", dir, slot)>> \o load_directory(dir)
  \o <<Slot(use, dir, slot)>>

\* Mutant: the manifest is written before the kernels.
publish_manifest_first(dir, profile) ==
  <<Op("check empty", dir, "", 0), Op("make all", dir, "", 0), Op("check empty", dir, "", 0)>>
  \o Write(dir, MANIFEST(profile), 0)
  \o Each(Kernels, LAMBDA i : Write(dir, "kernel", i))

publish(dir, profile) ==
  <<Op("check empty", dir, "", 0), Op("make all", dir, "", 0), Op("check empty", dir, "", 0)>>
  \o Each(Kernels, LAMBDA i : Write(dir, "kernel", i))
  \o Write(dir, MANIFEST(profile), 0)

\* The three symbolic compilers look at the directory before they compile too.
compile_directory(dir, profile) ==
  <<Op("check empty", dir, "", 0), Op("compile", dir, profile, 0)>> \o publish(dir, profile)

\* The native one compiles first.
causal_compile_directory(dir) ==
  <<Op("compile", dir, "native", 0), Op("make all", dir, "", 0), Op("check empty", dir, "", 0)>>
  \o Each(Kernels, LAMBDA i : Write(dir, "kernel", i))
  \o Write(dir, MANIFEST("native"), 0)

\* VerifiedLayerWeights::open
VerifyShard(dir, i) ==
  <<Op("read descriptor", dir, "weights.json", i), Op("read payload", dir, "weights.bin", i)>>

export_layer_weights(dir, i) ==
  checked_identity(ModelDir, "pin", 2) \o load_directory(ModelDir)
  \o checked_identity(ModelDir, "same", 2)
  \o <<Op("open source", dir, "", i), Op("make shard", dir, "weights.bin", i)>>
  \o Write(dir, "weights.bin", i) \o Write(dir, "weights.json", i)

\* prepare_shards up to the layer ranges, and the rest once they are known.
prepare_shards ==
  checked_identity(ModelDir, "pin", 1) \o load_directory(ModelDir)
  \o <<Op("assign", Prepared, "", 0)>>

PrepareRest(ranges) ==
  <<Op("make", Prepared, "", 0)>> \o Copy(ModelDir, Prepared, "symbolic.json", 0)
  \o CopyKernels(ModelDir, Prepared)
  \o load_directory_authenticated(Prepared)
  \o Each(Len(ranges), LAMBDA i : export_layer_weights(Prepared, i))
  \o checked_identity(ModelDir, "same", 1)
  \o Write(Prepared, "plan.json", 0)

export_shard ==
  checked_identity(ModelDir, "pin", 1) \o load_directory(ModelDir)
  \o <<Op("require v4", ShardDir, "", 0)>>
  \o export_layer_weights(ShardDir, 1)
  \o checked_identity(ModelDir, "same", 1)

\* What a process removes when it ends, and what it removes when it fails.
Snapshot(p) == <<"snapshot", p>>
Temporary(p) == <<"temporary", p>>

\* Everything is verified where it lies, copied into a private directory, and
\* verified there again before the first worker is contacted.
deploy ==
  <<Op("read plan", Prepared, "plan.json", 0)>> \o load_directory_authenticated(Prepared)
  \o <<Op("match plan", Prepared, "", 0)>>

\* Mutant: the staged shard is sent as it was copied.
StagedShardUnverified(snapshot, i) ==
  Copy(Prepared, snapshot, "weights.json", i) \o Copy(Prepared, snapshot, "weights.bin", i)

StagedShard(snapshot, i) ==
  Copy(Prepared, snapshot, "weights.json", i) \o Copy(Prepared, snapshot, "weights.bin", i)
  \o VerifyShard(snapshot, i)

\* ssh mkdir, one scp of everything a worker needs, and scp's exit status.
Provision(snapshot, i) ==
  <<Op("mkdir", Remote(i), "", 0)>>
  \o Copy(snapshot, Remote(i), "plan.json", 0) \o Copy(snapshot, Remote(i), "symbolic.json", 0)
  \o CopyKernels(snapshot, Remote(i))
  \o Copy(snapshot, Remote(i), "weights.json", i) \o Copy(snapshot, Remote(i), "weights.bin", i)
  \o <<Op("scp status", Remote(i), "", 0)>>

DeployRest(snapshot, workers) ==
  Each(workers, LAMBDA i : VerifyShard(Prepared, i))
  \o <<Op("make", snapshot, "", 0)>> \o Write(snapshot, "plan.json", 0)
  \o Copy(Prepared, snapshot, "symbolic.json", 0) \o CopyKernels(Prepared, snapshot)
  \o load_directory_authenticated(snapshot)
  \o Each(workers, LAMBDA i : StagedShard(snapshot, i))
  \o Each(workers, LAMBDA i : Provision(snapshot, i))

\* SymbolicCausalModel::open_authenticated_shard, and the worker that starts
\* from a provisioned directory with it.
open_authenticated_shard(dir, i) ==
  VerifyShard(dir, i) \o load_directory_authenticated(dir)

read_prepared_plan(dir) == <<Op("read plan", dir, "plan.json", 0)>>

new_authenticated(dir, i) ==
  read_prepared_plan(dir) \o open_authenticated_shard(dir, i) \o <<Op("serve", dir, "", i)>>

open_artifact_with_shard(dir, i) ==
  checked_identity(ModelDir, "pin", 2) \o VerifyShard(dir, i) \o open_artifact(ModelDir)
  \o checked_identity(ModelDir, "same", 2)

\* SymbolicLayerServer::new, and with_weight_shard.
new_server ==
  checked_identity(ModelDir, "pin", 1) \o open_artifact(ModelDir)
  \o checked_identity(ModelDir, "same", 1)

with_weight_shard == open_artifact_with_shard(ShardDir, 1)

\* serve_connection: a fresh model for the connection, and unless the worker
\* has no source, the artifact's identity once more.
serve_connection(mode, i) ==
  (CASE mode = "prepared" -> open_authenticated_shard(Remote(i), i) \o <<Op("keep", Remote(i), "", 0)>>
     [] mode = "shard" -> open_artifact_with_shard(ShardDir, 1)
     [] mode = "source" -> open_artifact(ModelDir))
  \o (IF mode = "prepared" THEN <<>> ELSE checked_identity(ModelDir, "same", 1))
  \o <<Op("ready", ModelDir, "", 0)>>

distribute ==
  <<Op("is file", ModelDir, "symbolic.json", 0)>>
  \o checked_identity(ModelDir, "pin", 1) \o load_directory(ModelDir)
  \o <<Op("plan workers", ModelDir, "", 0)>>

\* Mutant: the artifact is not looked at again after it was loaded.
pipeline_open_once ==
  checked_identity(ModelDir, "pin", 2) \o open_artifact(ModelDir)
  \o <<Op("coverage", ModelDir, "", 0)>>

\* SymbolicPipeline::open
pipeline_open ==
  checked_identity(ModelDir, "pin", 2) \o open_artifact(ModelDir)
  \o checked_identity(ModelDir, "same", 2)
  \o <<Op("coverage", ModelDir, "", 0)>>

\* TextArtifact::open: which of the two manifests is there, then the loader.
text_open == <<Op("native", ModelDir, "causal.json", 0), Op("symbolic", ModelDir, "symbolic.json", 0)>>

\* PendingOutput: a temporary of its own beside the destination, linked there
\* when it is complete.
Pending(file) ==
  <<Op("absent", AotDir, file, 0), Op("create temporary", AotDir, file, 0),
    Op("fill temporary", AotDir, file, 0), Op("link", AotDir, file, 0)>>

write_model_file(file) == <<Op("open gguf", AotDir, file, 0)>> \o Pending(file)
append_to_executable(file) == <<Op("open resource", AotDir, "model.bin", 0)>> \o Pending(file)

\* What a process is started to do.
Script(j) ==
  CASE j.role = "compile" -> compile_directory(ModelDir, j.profile)
    [] j.role = "causal" -> causal_compile_directory(ModelDir)
    [] j.role = "run" -> text_open
    [] j.role = "prepare" -> prepare_shards
    [] j.role = "export" -> export_shard
    [] j.role = "deploy" -> deploy
    [] j.role = "worker" /\ j.mode = "prepared" -> new_authenticated(Remote(j.index), j.index)
    [] j.role = "worker" /\ j.mode = "source" -> new_server \o <<Op("serve", ModelDir, "", 1)>>
    [] j.role = "worker" /\ j.mode = "shard" ->
         new_server \o with_weight_shard \o <<Op("serve", ModelDir, "", 1)>>
    [] j.role = "coordinator" -> distribute
    [] j.role = "write model" -> write_model_file("model.bin")
    [] j.role = "append" -> append_to_executable("app")

\* What a scenario may start with: the commands that the programs accept, and
\* files that earlier runs of the same programs have left.  A manifest is one a
\* compilation produced, and in the artifact directory its kernels lie beside it.
Profiles == SymbolicProfiles \cup {"native"}
Sources == {Gguf(v) : v \in Range(Versions)}
Manifests == {Manifest(profile, source) : profile \in Profiles, source \in Sources}

Command(j) ==
  /\ j.role \in {"compile", "causal", "run", "prepare", "export", "deploy", "worker",
                 "coordinator", "write model", "append"}
  /\ j.role = "compile" => j.profile \in CompiledProfiles
  /\ j.role = "worker" => j.mode \in {"prepared", "shard", "source"}
  /\ {j.index, j.workers} \subseteq Nat

FoundOn(f) ==
  /\ Source \in DOMAIN f => f[Source] \in Sources
  /\ \A path \in DOMAIN f : f[path].kind = "manifest" => f[path] \in Manifests
  /\ \A path \in DOMAIN f : SubSeq(path, 1, 2) = AotDir => f[path].kind = "resource"
  /\ \A profile \in {"native", "v4"} :
       LET path == Path(ModelDir, MANIFEST(profile), 0) IN
       path \in DOMAIN f /\ f[path].kind = "manifest" =>
         \A i \in 1 .. Kernels : /\ Path(ModelDir, "kernel", i) \in DOMAIN f
                                /\ f[Path(ModelDir, "kernel", i)] = f[path].kernels[i]

ASSUME ScenarioAssumption ==
  \A s \in Scenarios :
    /\ IsFiniteSet(DOMAIN s.job)
    /\ \A p \in DOMAIN s.job : Command(s.job[p])
    /\ FoundOn(s.fs)

-----------------------------------------------------------------------------
(* Steps *)

NoModel == [manifest |-> None, source |-> None, kernels |-> <<>>, shard |-> None]
Fresh == [before |-> None, manifest |-> None, source |-> None, kernels |-> <<>>,
          shard |-> None, ids |-> <<None, None>>, model |-> NoModel, plan |-> None,
          ranges |-> <<>>, shards |-> <<>>, native |-> FALSE, owns |-> <<>>,
          copied |-> None, partial |-> 0]
NoConn == [state |-> "none", id |-> None, range |-> <<>>]

Instr(p) == Head(todo[p])
Here(p) == Path(Instr(p).dir, Instr(p).file, Instr(p).i)
Workers == {p \in Procs : job[p].role = "worker"}
Publishers == {p \in Procs : job[p].role \in {"compile", "causal"}}
WorkerAt(i) == {w \in Workers : job[w].index = i}

\* The range of layers of shard i, and the hashes the process trusts for it.
RangeOf(p, i) == IF job[p].role \in {"export", "worker"} /\ mem[p].plan = None
                 THEN job[p].range
                 ELSE IF mem[p].plan # None THEN mem[p].plan.ranges[i] ELSE mem[p].ranges[i]
TrustedShard(p, i) == IF mem[p].plan # None THEN mem[p].plan.shards[i] ELSE job[p].trusted
TrustedArtifact(p) == IF mem[p].plan # None THEN mem[p].plan.artifact ELSE mem[p].ids[2]

Init ==
  \E s \in Scenarios :
    /\ job = s.job
    /\ fs = s.fs
    /\ dirs = s.dirs
    /\ todo = [p \in DOMAIN s.job |-> Script(s.job[p])]
    /\ mem = [p \in DOMAIN s.job |-> Fresh]
    /\ status = [p \in DOMAIN s.job |-> "run"]
    /\ conn = [p \in DOMAIN s.job |-> NoConn]
    /\ crashes = 0
    /\ tampered = {}

Owned(f, p) == {path \in DOMAIN f : SubSeq(path, 1, 2) \in {Snapshot(p), Temporary(p)}}

\* The step succeeds: the process goes on, and ends with its list.
Advance(p, m, f, d, rest) ==
  LET ends == rest = <<>> /\ status[p] = "run" IN
  /\ todo' = [todo EXCEPT ![p] = rest]
  /\ mem' = [mem EXCEPT ![p] = m]
  /\ fs' = IF ends THEN [path \in DOMAIN f \ Owned(f, p) |-> f[path]] ELSE f
  /\ dirs' = IF ends THEN d \ {Snapshot(p)} ELSE d
  /\ status' = IF ends THEN [status EXCEPT ![p] = "ok"] ELSE status
  /\ UNCHANGED <<conn, crashes>>

\* An error: a process gives up, and removes what it owns if it can and was not
\* killed.  A server
\* refuses the connection and goes on serving.
Fails(p) ==
  /\ todo' = [todo EXCEPT ![p] = <<>>]
  /\ IF status[p] = "serving"
     THEN /\ conn' = [conn EXCEPT ![p].state = "refused"]
          /\ UNCHANGED <<mem, status, fs, dirs>>
     ELSE /\ mem' = [mem EXCEPT ![p] = Fresh]
          /\ status' = [status EXCEPT ![p] = "failed"]
          /\ conn' = conn
          /\ \/ UNCHANGED <<fs, dirs>>
             \/ /\ mem[p].owns # <<>>
                /\ fs' = Without(FilesIn(mem[p].owns))
                /\ dirs' = {d \in dirs : d[1] # mem[p].owns[1]}
  /\ UNCHANGED crashes

Step(p, op, ok, m, f, d, rest) ==
  /\ todo[p] # <<>>
  /\ Instr(p).op = op
  /\ IF ok THEN Advance(p, m, f, d, rest) ELSE Fails(p)
  /\ UNCHANGED <<job, tampered>>

\* A step that only reads.
Reads(p, op, ok, m) == Step(p, op, ok, m, fs, dirs, Tail(todo[p]))
\* A step that changes files only.
Writes(p, op, ok, f, d) == Step(p, op, ok, mem[p], f, d, Tail(todo[p]))

(* Publishing *)

CheckEmpty(p) == Writes(p, "check empty", FilesIn(Instr(p).dir) = {}, fs, dirs)
MakeAll(p) == Writes(p, "make all", TRUE, fs, dirs \cup {Instr(p).dir})

CompileSource(p) ==
  Reads(p, "compile", Exists(Source), [mem[p] EXCEPT !.manifest = Manifest(Instr(p).file, fs[Source])])

\* What the process writes to a file of this name.
Produced(p, file, i) ==
  CASE file = "kernel" -> mem[p].manifest.kernels[i]
    [] file \in {"symbolic.json", "causal.json"} -> mem[p].manifest
    [] file = "weights.bin" -> Weights(mem[p].source, RangeOf(p, i))
    [] file = "weights.json" -> Descriptor(mem[p].ids[2], mem[p].source, RangeOf(p, i))
    [] file = "plan.json" -> IF mem[p].plan # None THEN mem[p].plan
                             ELSE Plan(mem[p].ids[1], mem[p].ranges, mem[p].shards)

Made(dir) == \E d \in dirs : d[1] = dir[1]

Create(p) == Writes(p, "create", Made(Instr(p).dir), With(Here(p), Torn), dirs)

\* The descriptor is an export's last file: its directory stays from here on,
\* and prepare_shards notes the descriptor's hash.
Fill(p) ==
  LET content == Produced(p, Instr(p).file, Instr(p).i)
      m == IF Instr(p).file # "weights.json" THEN mem[p]
           ELSE [mem[p] EXCEPT !.shards = Append(@, content),
                               !.owns = IF @ = ShardDir THEN <<>> ELSE @]
  IN  Step(p, "fill", TRUE, m, With(Here(p), content), dirs, Tail(todo[p]))

(* Loading *)

\* The profiles each manifest file may name.
Supported(file) == IF file = "causal.json" THEN {"native"} ELSE SymbolicProfiles

Loading(p, manifest) ==
  [mem[p] EXCEPT !.manifest = manifest, !.kernels = <<>>, !.source = None]

ReadManifest(p) ==
  LET found == Read(Here(p)) IN
  Reads(p, "read manifest",
        found.kind = "manifest" /\ found.profile \in Supported(Instr(p).file),
        Loading(p, found))

\* The manifest must be the trusted one, and its profile the bounded one.
ReadTrusted(p) ==
  LET found == Read(Here(p)) IN
  Reads(p, "read trusted",
        found = mem[p].ids[Instr(p).slot] /\ found.kind = "manifest" /\ found.profile = BOUNDED_PROFILE,
        Loading(p, found))

OpenSource(p) ==
  Reads(p, "open source", Read(Source) = mem[p].manifest.source,
        [mem[p] EXCEPT !.source = fs[Source]])

KernelVerified(p, content) == content = mem[p].manifest.kernels[Instr(p).i]

ReadKernel(p) ==
  LET found == Read(Here(p)) IN
  Reads(p, "read kernel", found # None /\ KernelVerified(p, found),
        [mem[p] EXCEPT !.kernels = Append(@, found)])

Before(p) ==
  Reads(p, "before", Exists(Here(p)), [mem[p] EXCEPT !.before = fs[Here(p)]])

Pin(p) ==
  LET found == Read(Here(p)) IN
  Reads(p, "pin", found = mem[p].before,
        [mem[p] EXCEPT !.ids[Instr(p).slot] = found, !.before = None])

Same(p) ==
  LET found == Read(Here(p)) IN
  Reads(p, "same", found = mem[p].before /\ found = mem[p].ids[Instr(p).slot],
        [mem[p] EXCEPT !.before = None])

\* The model a caller keeps of the load that has just ended.
Keep(p) ==
  Reads(p, "keep", TRUE,
        [mem[p] EXCEPT !.model = [manifest |-> mem[p].manifest, source |-> mem[p].source,
                                  kernels |-> mem[p].kernels, shard |-> mem[p].shard],
                       !.shard = None])

IsNative(p) == Reads(p, "native", TRUE, [mem[p] EXCEPT !.native = Exists(Here(p))])

IsSymbolic(p) ==
  Step(p, "symbolic", Exists(Here(p)) # mem[p].native, mem[p], fs, dirs,
       IF mem[p].native THEN causal_open(ModelDir) ELSE open_artifact(ModelDir))

(* Shards and plans *)

Assign(p) ==
  LET ranges == layer_ranges(LayersOf(mem[p].manifest), job[p].workers) IN
  Step(p, "assign", mem[p].manifest.profile = BOUNDED_PROFILE /\ ranges # <<>>,
       [mem[p] EXCEPT !.ranges = ranges], fs, dirs, PrepareRest(ranges))

RequireBounded(p) == Reads(p, "require v4", mem[p].manifest.profile = BOUNDED_PROFILE, mem[p])

Make(p) ==
  Step(p, "make", Instr(p).dir \notin dirs, [mem[p] EXCEPT !.owns = Instr(p).dir],
       fs, dirs \cup {Instr(p).dir}, Tail(todo[p]))

MakeShard(p) ==
  LET dir == <<Instr(p).dir[1], Instr(p).i>>
      range == RangeOf(p, Instr(p).i)
  IN  Step(p, "make shard",
           dir \notin dirs /\ range[1] < range[2] /\ range[2] <= LayersOf(mem[p].manifest),
           [mem[p] EXCEPT !.owns = IF @ = <<>> THEN Instr(p).dir ELSE @],
           fs, dirs \cup {dir}, Tail(todo[p]))

CopyTo(p) == Path(Instr(p).to, Instr(p).file, Instr(p).i)

\* The source is open: the destination is there from now on, and torn.
OpenCopy(p) ==
  Step(p, "open copy", Exists(Here(p)) /\ Made(Instr(p).to),
       [mem[p] EXCEPT !.copied = fs[Here(p)]], With(CopyTo(p), Torn), dirs, Tail(todo[p]))

\* What was read of a file that held old when it was opened and holds now when
\* its last byte is read: all of either, or a mixture.  An open file that was
\* removed is still read to its end.
ReadThrough(old, now) == IF now \in {old, None} THEN {old} ELSE {old, now, Torn}

CopyFile(p) ==
  /\ todo[p] # <<>>
  /\ \E content \in ReadThrough(mem[p].copied, Read(Here(p))) :
       Step(p, "copy", TRUE, [mem[p] EXCEPT !.copied = None], With(CopyTo(p), content), dirs,
            Tail(todo[p]))

\* scp goes on with the next file when one cannot be sent to its end, and says
\* so in its exit status.
SkipFile(p) ==
  /\ todo[p] # <<>> /\ Instr(p).to \in {Remote(i) : i \in 1 .. job[p].workers}
  /\ mem[p].partial < MaxPartial
  /\ Reads(p, "copy", TRUE, [mem[p] EXCEPT !.copied = None, !.partial = @ + 1])

ScpStatus(p) == Reads(p, "scp status", mem[p].partial = 0, mem[p])

ReadDescriptor(p) ==
  LET found == Read(Here(p))
      i == Instr(p).i
  IN  Reads(p, "read descriptor",
            /\ found = TrustedShard(p, i)
            /\ found.kind = "descriptor"
            /\ found.artifact = TrustedArtifact(p)
            /\ found.range = RangeOf(p, i),
            [mem[p] EXCEPT !.shard = found])

ReadPayload(p) ==
  LET found == Read(Here(p)) IN
  Reads(p, "read payload", found = mem[p].shard.payload, [mem[p] EXCEPT !.shard = found])

\* The assignments must cover consecutive layers from the first one.
Consecutive(ranges) ==
  \A i \in 1 .. Len(ranges) :
    /\ ranges[i][1] = IF i = 1 THEN 0 ELSE ranges[i - 1][2]
    /\ ranges[i][1] < ranges[i][2]

ReadPlan(p) ==
  LET found == Read(Here(p)) IN
  Reads(p, "read plan",
        /\ found.kind = "plan"
        /\ job[p].role = "worker" => job[p].index <= Len(found.ranges) /\ Consecutive(found.ranges),
        [mem[p] EXCEPT !.plan = found, !.ids[1] = found.artifact])

MatchPlan(p) ==
  LET plan == mem[p].plan IN
  Step(p, "match plan",
       /\ Len(plan.ranges) = job[p].workers
       /\ plan.ranges = layer_ranges(LayersOf(mem[p].manifest), job[p].workers),
       mem[p], fs, dirs, DeployRest(Snapshot(p), Len(plan.ranges)))

Mkdir(p) == Writes(p, "mkdir", Instr(p).dir \notin dirs, fs, dirs \cup {Instr(p).dir})

(* Workers and the coordinator *)

Serve(p) ==
  LET range == RangeOf(p, Instr(p).i)
      manifest == mem[p].manifest
      ok == /\ manifest.profile = BOUNDED_PROFILE
            /\ range[1] < range[2] /\ range[2] <= LayersOf(manifest)
  IN  /\ todo[p] # <<>> /\ Instr(p).op = "serve"
      /\ IF ok
         THEN /\ todo' = [todo EXCEPT ![p] = <<>>]
              /\ mem' = [mem EXCEPT ![p] = [Fresh EXCEPT !.ids[1] = mem[p].ids[1], !.plan = mem[p].plan]]
              /\ status' = [status EXCEPT ![p] = "serving"]
              /\ UNCHANGED <<fs, dirs, conn, crashes>>
         ELSE Fails(p)
      /\ UNCHANGED <<job, tampered>>

\* The server compares the identity and the range asked for with its own.
Accept(w) ==
  /\ status[w] = "serving" /\ conn[w].state = "open"
  /\ IF conn[w].id = mem[w].ids[1] /\ conn[w].range = RangeOf(w, job[w].index)
     THEN /\ todo' = [todo EXCEPT ![w] = serve_connection(job[w].mode, job[w].index)]
          /\ conn' = [conn EXCEPT ![w].state = "busy"]
     ELSE /\ conn' = [conn EXCEPT ![w].state = "refused"]
          /\ todo' = todo
  /\ UNCHANGED <<job, fs, dirs, mem, status, crashes, tampered>>

Ready(w) ==
  /\ todo[w] # <<>> /\ Instr(w).op = "ready"
  /\ todo' = [todo EXCEPT ![w] = <<>>]
  /\ conn' = [conn EXCEPT ![w].state = "ready"]
  /\ UNCHANGED <<job, fs, dirs, mem, status, crashes, tampered>>

IsFile(p) == Reads(p, "is file", Exists(Here(p)), mem[p])

PlanWorkers(p) ==
  LET ranges == layer_ranges(LayersOf(mem[p].manifest), job[p].workers) IN
  Step(p, "plan workers", ranges # <<>>, [mem[p] EXCEPT !.ranges = ranges], fs, dirs,
       Each(Len(ranges), LAMBDA i : <<Op("connect", ModelDir, "", i), Op("answer", ModelDir, "", i)>>)
       \o pipeline_open)

Connect(p) ==
  LET i == Instr(p).i
      there == {w \in WorkerAt(i) : status[w] = "serving"}
  IN  /\ todo[p] # <<>> /\ Instr(p).op = "connect"
      /\ IF there = {} THEN Fails(p)
         ELSE /\ conn' = [w \in Procs |-> IF w \in there
                            THEN [state |-> "open", id |-> mem[p].ids[1], range |-> mem[p].ranges[i]]
                            ELSE conn[w]]
              /\ todo' = [todo EXCEPT ![p] = Tail(@)]
              /\ UNCHANGED <<fs, dirs, mem, status, crashes>>
      /\ UNCHANGED <<job, tampered>>

Answer(p) ==
  /\ todo[p] # <<>> /\ Instr(p).op = "answer"
  /\ \A w \in WorkerAt(Instr(p).i) : conn[w].state \in {"ready", "refused"} \/ status[w] = "dead"
  /\ Reads(p, "answer",
           \A w \in WorkerAt(Instr(p).i) : status[w] = "serving" /\ conn[w].state = "ready",
           mem[p])

\* SymbolicPipeline::open: one identity, and ranges that cover every layer.
Coverage(p) ==
  LET ranges == mem[p].ranges IN
  Reads(p, "coverage",
        /\ mem[p].model.manifest.profile = BOUNDED_PROFILE
        /\ mem[p].ids[1] = mem[p].ids[2]
        /\ Consecutive(ranges)
        /\ ranges[Len(ranges)][2] = LayersOf(mem[p].model.manifest),
        mem[p])

(* Resource files *)

OpenGguf(p) == Reads(p, "open gguf", Exists(Source), [mem[p] EXCEPT !.source = Resource(fs[Source], FALSE)])

\* Artifact::open: the header, every checksum and the layout are verified.
OpenResource(p) ==
  LET found == Read(Here(p)) IN
  Reads(p, "open resource", found.kind = "resource",
        [mem[p] EXCEPT !.source = Resource(found.source, TRUE)])

Absent(p) == Reads(p, "absent", ~Exists(Here(p)), mem[p])

Temp(p) == Path(Temporary(p), Instr(p).file, 0)

CreateTemporary(p) ==
  Step(p, "create temporary", TRUE, [mem[p] EXCEPT !.owns = Temporary(p)],
       With(Temp(p), Torn), dirs, Tail(todo[p]))
FillTemporary(p) == Writes(p, "fill temporary", TRUE, With(Temp(p), mem[p].source), dirs)
Link(p) == Writes(p, "link", ~Exists(Here(p)), With(Here(p), fs[Temp(p)]), dirs)

(* The surroundings *)

\* Any operation may fail, or the process be killed before it; then nothing is
\* removed.
IoError(p) ==
  /\ todo[p] # <<>>
  /\ Fails(p)
  /\ UNCHANGED <<job, tampered>>

Crash(p) ==
  /\ crashes < MaxCrashes
  /\ status[p] = "serving"
  /\ crashes' = crashes + 1
  /\ status' = [status EXCEPT ![p] = "dead"]
  /\ todo' = [todo EXCEPT ![p] = <<>>]
  /\ mem' = [mem EXCEPT ![p] = Fresh]
  /\ UNCHANGED <<job, fs, dirs, conn, tampered>>

\* The operator replaces the GGUF by its next version, or clears the artifact
\* directory for another compilation, but not under one that is writing there.
ReplaceSource ==
  /\ \E i \in 1 .. Len(Versions) - 1 :
       /\ fs[Source] = Gguf(Versions[i])
       /\ fs' = With(Source, Gguf(Versions[i + 1]))
  /\ UNCHANGED <<job, dirs, todo, mem, status, conn, crashes, tampered>>

ClearModel ==
  /\ FilesIn(ModelDir) # {}
  /\ \A p \in Publishers : todo[p] # <<>> => Instr(p).op \notin {"create", "fill"}
  /\ fs' = Without(FilesIn(ModelDir))
  /\ dirs' = dirs \ {ModelDir}
  /\ UNCHANGED <<job, todo, mem, status, conn, crashes, tampered>>

\* Another program overwrites a prepared or provisioned file.
Tamper ==
  /\ Cardinality(tampered) < MaxTampered
  /\ \E path \in FilesIn(Prepared) \cup (UNION {FilesIn(Remote(i)) : i \in 1 .. 2}) :
       /\ fs' = With(path, Torn)
       /\ tampered' = tampered \cup {path}
  /\ UNCHANGED <<job, dirs, todo, mem, status, conn, crashes>>

Program(p) ==
  \/ CheckEmpty(p) \/ MakeAll(p) \/ CompileSource(p) \/ Create(p) \/ Fill(p)
  \/ ReadManifest(p) \/ ReadTrusted(p) \/ OpenSource(p) \/ ReadKernel(p)
  \/ Before(p) \/ Pin(p) \/ Same(p) \/ Keep(p) \/ IsNative(p) \/ IsSymbolic(p)
  \/ Assign(p) \/ RequireBounded(p) \/ Make(p) \/ MakeShard(p)
  \/ OpenCopy(p) \/ CopyFile(p) \/ SkipFile(p) \/ ScpStatus(p)
  \/ ReadDescriptor(p) \/ ReadPayload(p) \/ ReadPlan(p) \/ MatchPlan(p) \/ Mkdir(p)
  \/ Serve(p) \/ Accept(p) \/ Ready(p) \/ IsFile(p) \/ PlanWorkers(p)
  \/ Connect(p) \/ Answer(p) \/ Coverage(p)
  \/ OpenGguf(p) \/ OpenResource(p) \/ Absent(p)
  \/ CreateTemporary(p) \/ FillTemporary(p) \/ Link(p)

Next ==
  \/ \E p \in Procs : Program(p) \/ IoError(p) \/ Crash(p)
  \/ ReplaceSource \/ ClearModel \/ Tamper

Spec == Init /\ [][Next]_vars

-----------------------------------------------------------------------------
(* Properties *)

\* A loaded model is exactly what one compilation produced: its source, its
\* manifest and every kernel.
Whole(model) ==
  LET m == model.manifest IN
  /\ m = Manifest(m.profile, m.source)
  /\ model.kernels = m.kernels
  /\ model.source \in {None, m.source}

\* Whatever is interrupted, raced or cleared, a model that a load returns
\* (load_directory_inner) is exactly what one compilation produced.  In a
\* directory only one publisher uses, a manifest means that every kernel it
\* names is there, for it is written last.  A resource destination, once
\* visible, is complete, and of the processes that publish to it one succeeds.
PublishedIsWhole ==
  /\ \A p \in Procs : mem[p].model.manifest # None => Whole(mem[p].model)
  /\ \A profile \in {"native", "v4"} :
       LET manifest == Read(Path(ModelDir, MANIFEST(profile), 0)) IN
       (Cardinality(Publishers) = 1 /\ manifest.kind = "manifest")
         => \A i \in 1 .. Kernels : Read(Path(ModelDir, "kernel", i)) = manifest.kernels[i]
  /\ \A path \in FilesIn(AotDir) : fs[path].kind = "resource"
  /\ \A role \in {"write model", "append"} :
       Cardinality({p \in Procs : job[p].role = role /\ status[p] = "ok"}) <= 1

\* When the coordinator's pipeline is open, its head and every worker execute
\* the kernels of one artifact, with the weights of that artifact's source, and
\* the workers' ranges cover the layers once and in order -- although the
\* artifact directory, the source and the provisioned files may have changed
\* between any two of the checks that admitted them.
PipelineRunsOneArtifact ==
  \A c \in Procs : (job[c].role = "coordinator" /\ status[c] = "ok") =>
    LET head == mem[c].model
        ranges == mem[c].ranges
    IN  /\ Whole(head) /\ head.source = head.manifest.source
        /\ Consecutive(ranges) /\ ranges[Len(ranges)][2] = LayersOf(head.manifest)
        /\ \A i \in 1 .. Len(ranges) : \A w \in WorkerAt(i) : status[w] = "serving" =>
             LET model == mem[w].model IN
             /\ Whole(model)
             /\ model.manifest = head.manifest
             /\ model.shard = None => model.source = head.source
             /\ model.shard # None => model.shard = Weights(head.source, ranges[i])

\* The files of a directory that a plan has to find there.
Fits(plan, dir, shard) ==
  LET Good(file, i, content) ==
        Path(dir, file, i) \in tampered
          \/ Read(Path(dir, file, i)) = content
  IN  /\ Good("symbolic.json", 0, plan.artifact)
      /\ \A i \in 1 .. Kernels : Good("kernel", i, plan.artifact.kernels[i])
      /\ \A i \in shard :
           /\ Good("weights.json", i, plan.shards[i])
           /\ Good("weights.bin", i, Weights(plan.artifact.source, plan.ranges[i]))
           /\ plan.shards[i] = Descriptor(plan.artifact, plan.artifact.source, plan.ranges[i])

\* A plan.json in the prepared directory (prepare_shards) means that the whole
\* artifact and every shard it names are there and belong to one artifact.
\* Whatever arrived whole on a worker's machine (deploy) is part of one verified
\* plan, although a file may be overwritten between its verification and its
\* copy or while it is copied; an interrupted or partial scp leaves torn files
\* behind, but not under a deploy that succeeded: then every worker has all of
\* its plan.  And a worker that serves from a provisioned directory took
\* nothing but the plan's own artifact and weights from it, even if it started
\* before the copy had ended.
DeployedBytesVerified ==
  /\ LET plan == Read(Path(Prepared, "plan.json", 0)) IN
     plan.kind = "plan" => Fits(plan, Prepared, 1 .. Len(plan.ranges))
  /\ \A i \in 1 .. 2 :
       LET plan == Read(Path(Remote(i), "plan.json", 0)) IN
       plan.kind = "plan" =>
         \A path \in {q \in FilesIn(Remote(i)) \ tampered : fs[q] # Torn} :
           CASE path[3] = "symbolic.json" -> fs[path] = plan.artifact
             [] path[3] = "kernel" -> fs[path] = plan.artifact.kernels[path[4]]
             [] path[3] = "weights.json" -> fs[path] = plan.shards[i]
             [] path[3] = "weights.bin" -> fs[path] = Weights(plan.artifact.source, plan.ranges[i])
             [] OTHER -> TRUE
  /\ \A p \in Procs : (job[p].role = "deploy" /\ status[p] = "ok") =>
       \A i \in 1 .. job[p].workers :
         LET file == Path(Remote(i), "plan.json", 0) IN
         file \notin tampered => Read(file).kind = "plan" /\ Fits(fs[file], Remote(i), {i})
  /\ \A w \in Workers : job[w].mode = "prepared" /\ status[w] = "serving" =>
       LET plan == mem[w].plan
           i == job[w].index
           model == mem[w].model
       IN  /\ plan.shards[i] = Descriptor(plan.artifact, plan.artifact.source, plan.ranges[i])
           /\ model.manifest # None =>
                /\ model.manifest = plan.artifact
                /\ model.shard = Weights(plan.artifact.source, plan.ranges[i])
=============================================================================
