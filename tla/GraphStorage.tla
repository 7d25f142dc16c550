---------------------------- MODULE GraphStorage ----------------------------
(***************************************************************************)
(* How a compiled graph travels before it is executed.  A process writes   *)
(* it to one container, over what an earlier process left there, and may   *)
(* be killed at any byte; another process reads it at any time, one file   *)
(* after the other.  Formats:                                              *)
(*   "file"    BmlGraph::serialize / deserialize_with_limits;              *)
(*   "dir"     serialize_to_dir / load_from_dir_with_limits;               *)
(*   "dist"    serialize_distributed / load_distributed_fragment;          *)
(*   "sub"     serialize_sub_fragments (nothing reads these files);        *)
(*   "shm"     ShmChannel::write_fragment / read_fragment, write_result /  *)
(*             read_results, cleanup;                                      *)
(*   "wire"    the worker's fragment payload;                              *)
(*   "vector"  split_matmul_columns, one payload per worker.               *)
(* A payload on the wire is treated like a file: one cut short is what a   *)
(* failing peer sends.  A behaviour either stores a graph of Stored or     *)
(* executes a program of GraphExecution.                                   *)
(***************************************************************************)
EXTENDS GraphExecution, Containers, TLC

\* Stored: [ops, threshold, pool, config, parts, matmul].  SubTarget is the
\* byte target of sub-fragments, MaxResults bounds the results a worker appends.
CONSTANTS Stored, SubTarget, MaxResults

VARIABLES what,     \* the graph being stored: an index of Stored, 0 for none
          before,   \* [what, format] of the complete earlier save, what = 0 for none
          format,
          save,     \* "writing", then "saved", "refused", "panic" or "killed"
          writes,   \* [name, bytes] of the files still to write
          cut,      \* the first of them: "closed", "open" or "torn"
          disk,     \* file name -> [bytes, n]: the first n of the bytes are there
          results,  \* how many results each worker appended
          reader    \* the reading process

store == <<what, before, format, save, writes, cut, disk, results, reader>>

Graphs == Eager([k \in DOMAIN Stored |->
             [frags |-> fragment_program(Stored[k].ops, Stored[k].threshold)] @@ Stored[k]])
Formats == {"file", "dir", "dist", "sub", "shm", "wire", "vector"}

PartOps(g)    == [i \in DOMAIN g.parts |-> g.parts[i].ops]
HasContext(s) == OpsUsed(s) \cap ContextLoads # {}
File(kind, i, bytes) == [name |-> <<kind, i>>, bytes |-> bytes]

\* serialize_distributed indexes the first fragment after 12 header bytes.
DistFiles(g) ==
    LET version == VersionFor(PartOps(g))
        header  == HeaderBytes(version, Len(g.parts), g.config)
    IN  <<File("header", 0, IF g.parts = <<>> THEN SubSeq(header, 1, 12) ELSE header)>>
          \o [i \in DOMAIN g.parts |->
                File("fragment", g.parts[i].id, ShardBytes(version, g.parts[i]))]

SubFiles(p) == LET s == sub_fragment_with_threshold(p, SubTarget)
               IN  [i \in DOMAIN s |-> File("sub", 10 * p.id + s[i].sub, SubBytes(p, s[i]))]

\* write_fragment refuses one fragment at a time: those before it are written.
ShmFragments(g) == {i \in DOMAIN g.frags : \A j \in 1..i : ~HasContext(<<g.frags[j]>>)}

\* The files one save writes, in order; the checks come before the first one.
Files(f, g) ==
    CASE f = "file"   -> <<File("graph", 0, serialize(g))>>
      [] f = "dir"    -> IF HasContext(g.frags) THEN <<>>
                         ELSE <<File("header", 0, DirHeader(g))>>
                                \o [i \in DOMAIN g.frags |->
                                      File("fragment", i - 1, FragmentBytes(g.frags[i]))]
      [] f = "dist"   -> IF HasContext(PartOps(g)) THEN <<>> ELSE DistFiles(g)
      [] f = "sub"    -> IF HasContext(PartOps(g)) THEN <<>>
                         ELSE Flat([i \in DOMAIN g.parts |-> SubFiles(g.parts[i])])
      [] f = "shm"    -> [i \in 1..Cardinality(ShmFragments(g)) |->
                            File("shm", i - 1, FragmentBytes(g.frags[i]))]
      [] f = "wire"   -> [i \in DOMAIN g.parts |->
                            File("wire", g.parts[i].id,
                                 serialize_fragment_to_bytes(g.parts[i], g.config))]
      [] f = "vector" -> LET vs == split_matmul_columns(g.matmul, g.matmul.split)
                         IN  [i \in DOMAIN vs |->
                                File("vector", i - 1, serialize_vector_fragment(vs[i]))]

Result(f, g) ==
    CASE f \in {"dir", "shm"} /\ HasContext(g.frags) -> "refused"
      [] f \in {"dist", "sub"} /\ HasContext(PartOps(g)) -> "refused"
      [] f = "dist" /\ g.parts = <<>> -> "panic"
      [] OTHER -> "saved"

Content(bytes, n) == [bytes |-> bytes, n |-> n]
BytesOf(c)        == SubSeq(c.bytes, 1, c.n)

Whole(bytes)      == Content(bytes, Len(bytes))

AllWritten(fs) ==
    [name \in {fs[i].name : i \in DOMAIN fs} |->
        Whole(fs[CHOOSE i \in DOMAIN fs : fs[i].name = name].bytes)]
Complete(f, k) == AllWritten(Files(f, Graphs[k]))

NoReader == [kind |-> "none", at |-> "idle", i |-> 0, started |-> "none", out |-> "none",
             header |-> <<>>, got |-> <<>>, bytes |-> 0, ops |-> 0]

\* What an earlier process may have left: the two directories share names.
Earlier(f) == {[what |-> 0, format |-> f]} \cup
    CASE f = "file" -> [what : DOMAIN Stored, format : {"file"}]
      [] f \in {"dir", "dist"} -> [what : DOMAIN Stored, format : {"dir", "dist"}]
      [] OTHER -> {}

StorageInit ==
    /\ Init
    /\ save = "writing" /\ cut = "closed" /\ reader = NoReader
    /\ results = [w \in 1..2 |-> 0]
    /\ \/ /\ what = 0 /\ format = "file" /\ before = [what |-> 0, format |-> "file"]
          /\ disk = <<>> /\ writes = <<>>
       \/ /\ program = Programs[1] /\ what \in DOMAIN Stored /\ format \in Formats
          /\ before \in Earlier(format) /\ writes = Eager(Files(format, Graphs[what]))
          /\ disk = IF before.what = 0 THEN <<>> ELSE Complete(before.format, before.what)

Storing == what # 0 /\ UNCHANGED <<vars, what, before, format>>

-----------------------------------------------------------------------------
\* The writing process.

CreateFile ==
    /\ Storing /\ writes # <<>> /\ cut = "closed"
    /\ disk' = (Head(writes).name :> Content(Head(writes).bytes, 0)) @@ disk
    /\ cut' = "open"
    /\ UNCHANGED <<save, writes, results, reader>>

\* The bytes arrive in part first, or all at once.
WriteBytes(n) ==
    /\ Storing /\ cut \in {"open", "torn"}
    /\ LET all == Len(Head(writes).bytes)
       IN  /\ cut = "torn" => n = all
           /\ disk' = [disk EXCEPT ![Head(writes).name].n = n]
           /\ cut' = IF n = all THEN "closed" ELSE "torn"
           /\ writes' = IF n = all THEN Tail(writes) ELSE writes
    /\ UNCHANGED <<save, results, reader>>

SaveDone ==
    /\ Storing /\ save = "writing" /\ writes = <<>>
    /\ save' = Result(format, Graphs[what])
    /\ UNCHANGED <<writes, cut, disk, results, reader>>

\* The writer is killed, or a write fails.
KillWriter ==
    /\ Storing /\ writes # <<>>
    /\ save' = "killed" /\ writes' = <<>> /\ cut' = "closed"
    /\ UNCHANGED <<disk, results, reader>>

\* ShmChannel::write_result appends to the worker's file.
ResultValue(w, i) == Num(10 * w + i)
ResultBytes(w)    == Flat([i \in 1..results[w] |-> F64(ResultValue(w, i))])

WriteResult(w) ==
    /\ Storing /\ format = "shm" /\ save = "saved" /\ results[w] < MaxResults
    /\ results' = [results EXCEPT ![w] = @ + 1]
    /\ UNCHANGED <<save, writes, cut, disk, reader>>

\* cleanup on drop: the prefix of the session matches its fragments only.
Cleanup ==
    /\ Storing /\ format = "shm" /\ save \notin {"writing", "cleaned"}
    /\ save' = "cleaned"
    /\ disk' = [n \in {x \in DOMAIN disk : x[1] # "shm"} |-> disk[n]]
    /\ UNCHANGED <<writes, cut, results, reader>>

-----------------------------------------------------------------------------
\* The reading process.

Kinds == CASE format \in {"dir", "dist"} -> {"dir", "dist"}
           [] format = "shm" -> {"shm", "result"}
           [] format = "sub" -> {}
           [] OTHER -> {format}

\* The paths a caller may pass; the directory and the vector are read from 0.
Choices(kind) == CASE kind \in {"dist", "shm", "wire"} -> 0..1
                   [] kind = "result" -> 1..2
                   [] OTHER -> {0}

StartRead(kind, i) ==
    /\ Storing /\ reader.kind = "none" /\ kind \in Kinds /\ i \in Choices(kind)
    /\ reader' = [NoReader EXCEPT !.kind = kind, !.i = i, !.started = save,
                    !.at = IF kind \in {"dir", "dist"} THEN "header" ELSE "body",
                    !.bytes = LoadLimits.bytes, !.ops = LoadLimits.ops]
    /\ UNCHANGED <<save, writes, cut, disk, results>>

Read(name, decode(_)) == IF name \in DOMAIN disk THEN decode(BytesOf(disk[name])) ELSE Refused
Ended(out)   == [reader EXCEPT !.at = "done", !.out = out]

AfterHeader(h) ==
    IF h.out # "ok" THEN Ended("error")
    ELSE [reader EXCEPT !.header = h, !.bytes = @ - disk[<<"header", 0>>].n, !.out = "ok",
            !.at = IF reader.kind = "dir" /\ h.count = 0 THEN "done" ELSE "body"]

ReadHeaderFile ==
    /\ Storing /\ reader.at = "header"
    /\ reader' = AfterHeader(IF reader.kind = "dir" THEN Read(<<"header", 0>>, LoadHeader)
                             ELSE Read(<<"header", 0>>, load_distributed_header))
    /\ UNCHANGED <<save, writes, cut, disk, results>>

\* load_from_dir: the next fragment file, within the bytes and opcodes left.
NextFragment(f) ==
    IF f.out # "ok" THEN Ended("error")
    ELSE [reader EXCEPT !.got = Append(@, f.ops), !.ops = @ - Len(f.ops),
            !.bytes = @ - disk[<<"fragment", Len(reader.got)>>].n,
            !.at = IF Len(reader.got) + 1 = reader.header.count THEN "done" ELSE "body"]

\* The next worker's answer: its columns of the product.
NextColumns(v) ==
    IF v.out # "ok" THEN Ended("error")
    ELSE [reader EXCEPT !.got = @ \o VectorExecute(v.f), !.i = @ + 1, !.out = "ok",
            !.at = IF reader.i + 1 = Len(split_matmul_columns(Stored[what].matmul,
                                                              Stored[what].matmul.split))
                   THEN "done" ELSE "body"]

OnlyOne(r) == [Ended(r.out) EXCEPT !.got = IF r.out = "ok" THEN r ELSE <<>>]

\* What the reader becomes when it has read the next file of its container.
AfterBody(at) ==
    CASE reader.kind = "dir" ->
           NextFragment(Read(<<"fragment", Len(reader.got)>>,
               LAMBDA b : LoadFragment(b, reader.header.version, reader.bytes, reader.ops)))
      [] reader.kind = "vector" -> NextColumns(Read(at, deserialize_vector_fragment))
      [] reader.kind = "file" -> OnlyOne(Read(<<"graph", 0>>, deserialize_with_limits))
      [] reader.kind = "dist" ->
           OnlyOne(Read(<<"fragment", reader.i>>,
               LAMBDA b : load_distributed_fragment(b, reader.header.config)))
      [] reader.kind = "shm"  -> OnlyOne(Read(at, read_fragment))
      [] reader.kind = "wire" -> OnlyOne(Read(at, deserialize_fragment_from_bytes))
      [] reader.kind = "result" ->
           OnlyOne(IF results[reader.i] = 0 THEN Refused
                   ELSE [out |-> "ok", values |-> read_results(ResultBytes(reader.i))])

ReadBody ==
    /\ Storing /\ reader.at = "body"
    /\ reader' = AfterBody(<<reader.kind, reader.i>>)
    /\ UNCHANGED <<save, writes, cut, disk, results>>

StorageTerminated ==
    /\ what # 0 /\ save # "writing" /\ (reader.at = "done" \/ Kinds = {})
    /\ UNCHANGED <<vars, store>>

StorageNext ==
    \/ what = 0 /\ Next /\ UNCHANGED store
    \/ CreateFile \/ SaveDone \/ KillWriter \/ Cleanup
    \/ writes # <<>> /\ \E n \in 1..Len(Head(writes).bytes) : WriteBytes(n)
    \/ \E w \in 1..2 : WriteResult(w)
    \/ \E kind \in Kinds, i \in 0..2 : StartRead(kind, i)
    \/ ReadHeaderFile \/ ReadBody \/ StorageTerminated

StorageSpec == StorageInit /\ [][StorageNext]_<<vars, store>>

-----------------------------------------------------------------------------
\* Properties.

new   == Graphs[what]
Clean == reader.started = "saved"

\* The graphs a reader of this kind may find: after an undisturbed save only
\* the new one.
Sources == (IF reader.kind = format THEN {new} ELSE {})
             \cup (IF (Clean /\ reader.kind = format) \/ before.what = 0 \/ reader.kind # before.format
                   THEN {} ELSE {Graphs[before.what]})

Ids(g) == {g.parts[k].id : k \in DOMAIN g.parts}

RECURSIVE TotalOps(_)
TotalOps(frags) == IF frags = <<>> THEN 0 ELSE Len(Head(frags)) + TotalOps(Tail(frags))

GraphFits(g) == /\ Len(g.frags) <= LoadLimits.frags /\ Len(g.pool) <= LoadLimits.constants
                /\ TotalOps(g.frags) <= LoadLimits.ops

\* What a whole matrix product is, row by row.
Product(m) == [j \in 1..m.n_out |->
    Dot(m.x, [i \in 1..m.n_in |-> WeightAt(m.weights, m.offset + (i - 1) * m.n_out + j - 1)], m.n_in)]

\* What the reader returned was stored, in this place, by a process that used
\* the same container.
GotWhatWasStored ==
    LET r == reader.got
    IN  CASE reader.kind = "file" -> \E g \in Sources : r.frags = g.frags /\ r.pool = g.pool
          [] reader.kind = "dir" ->
               /\ \E g \in Sources : /\ reader.header.config = g.config /\ reader.header.pool = g.pool
                                     /\ Len(r) = Len(g.frags)
               /\ \A i \in DOMAIN r : \E g \in Sources : i \in DOMAIN g.frags /\ r[i] = g.frags[i]
          [] reader.kind = "dist" ->
               /\ \E g \in Sources \cup (IF Clean THEN {} ELSE {new}) : reader.header.config = g.config
               /\ \E g \in Sources \cup (IF Clean /\ reader.i \in Ids(new) THEN {}
                                         ELSE IF before.what = 0 THEN {} ELSE {Graphs[before.what]}) :
                    \E k \in DOMAIN g.parts : g.parts[k].id = reader.i /\ r.part = g.parts[k]
          [] reader.kind = "shm"  -> r.ops = new.frags[reader.i + 1]
          [] reader.kind = "wire" ->
               /\ r.config = new.config
               /\ \E k \in DOMAIN new.parts : /\ new.parts[k].id = reader.i
                                              /\ r.part = [new.parts[k] EXCEPT !.ops = <<>>]
          [] reader.kind = "result" ->
               \A k \in DOMAIN r.values : r.values[k] = ResultValue(reader.i, k)
          [] reader.kind = "vector" -> r = Product(new.matmul)

\* A graph that was saved undisturbed and is within the reader's bounds loads.
MustLoad ==
    /\ Clean /\ reader.kind = format /\ save # "cleaned"
    /\ CASE format \in {"file", "dir"} -> GraphFits(new)
         [] format = "dist" -> reader.i \in Ids(new)
         [] format = "shm" -> reader.i < Len(new.frags)
         [] format = "wire" -> \E k \in DOMAIN new.parts :
                                 /\ new.parts[k].id = reader.i
                                 /\ validate_legacy_fragment(new.parts[k], new.config)
         [] format = "vector" -> Len(new.matmul.x) = new.matmul.n_in

\* fragment_program and sub_fragment lose and reorder nothing, and a piece
\* passes its byte bound only with a single instruction.
WholePieces(pieces, ops, size(_), target) ==
    /\ Flat(pieces) = ops
    /\ \A i \in DOMAIN pieces : Len(pieces[i]) = 1 \/ pieces[i] = <<>> \/
         TotalOps([k \in DOMAIN pieces[i] |-> [b \in 1..size(pieces[i][k]) |-> 0]]) <= target

CutsFaithful ==
    /\ WholePieces(new.frags, new.ops, LAMBDA o : 12, new.threshold)
    /\ \A k \in DOMAIN new.parts :
         LET s == sub_fragment_with_threshold(new.parts[k], SubTarget)
         IN  /\ WholePieces([i \in DOMAIN s |-> s[i].ops], new.parts[k].ops, op_size, SubTarget)
             /\ \A i \in DOMAIN s : \A d \in DOMAIN s[i].deps : s[i].deps[d] < s[i].sub

\* Whatever a container returns is what was stored.  A file or payload that is
\* torn at any byte, still being written, or written in the other directory
\* format is never accepted; a save that nobody disturbed loads back exactly,
\* opcodes, constants, configuration and order of the fragments included; the
\* columns computed by several workers are those of the whole product.  Two
\* things the code does not promise are left open: the files of a directory
\* may come from two saves when one of them was interrupted, overlaps the read
\* or left more shards, for nothing ties a fragment to its header; and a graph
\* directory's header cut before its pool is a whole distributed header
\* (fragment.rs, gguf_compiler.rs, graph_directory.rs, distributed.rs, shm.rs,
\* worker/main.rs).
ContainersFaithful ==
    what # 0 =>
      /\ reader.at = "done" /\ reader.out = "ok" => GotWhatWasStored
      /\ reader.at = "done" /\ MustLoad => reader.out = "ok"
      /\ save = "saved" /\ reader.kind = "none" => CutsFaithful

=============================================================================
