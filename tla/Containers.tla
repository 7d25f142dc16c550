----------------------------- MODULE Containers -----------------------------
(***************************************************************************)
(* The byte containers that carry graphs between processes: the single     *)
(* .bmlgraph file (fragment.rs), the legacy graph directory                *)
(* (gguf_compiler.rs writes, graph_directory.rs reads), the distributed    *)
(* directory and the vector payload (distributed.rs), the shared-memory    *)
(* fragment (shm.rs) and the worker's wire fragment (worker/main.rs).      *)
(*                                                                         *)
(* Bytes are integers 0..255 and integers are little endian, as in the     *)
(* files.  A float is an injective code of the abstract value, padded to   *)
(* its width.  A text is a short byte sequence; a tensor name is           *)
(* <<layer, operation>> for "blk.N.operation" and any other length for a   *)
(* name without a layer.  An integer whose top byte exceeds 127 reads as   *)
(* Huge: every decoder compares it with a smaller count and refuses it.    *)
(* Recursive: this module is for TLC's runs only.                          *)
(***************************************************************************)
EXTENDS RpnMachine, FiniteSets

\* Admission bounds: files [frags, ops, constants, bytes, tensors].
CONSTANT LoadLimits

BMLGRAPH_MAGIC == 1280131655
Huge           == 2147483647

U32(n) == <<n % 256, (n \div 256) % 256, (n \div 65536) % 256, n \div 16777216>>
U64(n) == U32(n) \o <<0, 0, 0, 0>>

RealCode(v) == IF v = NaN THEN <<2, 0, 0>>
               ELSE IF IsExact(v) THEN <<0, (v[1] + ValueCap) % 256, (v[1] + ValueCap) \div 256>>
               ELSE <<1, v[2] % 256, v[2] \div 256>>
RealOf(b)   == IF b[1] = 2 THEN NaN
               ELSE IF b[1] = 0 THEN Num(b[2] + 256 * b[3] - ValueCap)
               ELSE Token(b[2] + 256 * b[3])
F32(v) == RealCode(v) \o <<0>>
F64(v) == RealCode(v) \o <<0, 0, 0, 0, 0>>

\* A sequence, evaluated once.
Eager(s) == s \o <<>>

\* Concatenation.
RECURSIVE Flat(_)
Flat(s) == IF s = <<>> THEN <<>> ELSE Head(s) \o Flat(Tail(s))

-----------------------------------------------------------------------------
\* Cursor: out is "ok", "error" or "panic", v the value read last.

Cursor(b) == [rest |-> b, out |-> "ok", v |-> <<>>]

take(c, n) ==
    IF c.out # "ok" THEN c
    ELSE IF n > Len(c.rest) THEN [c EXCEPT !.out = "error"]
    ELSE [c EXCEPT !.rest = SubSeq(c.rest, n + 1, Len(c.rest)), !.v = SubSeq(c.rest, 1, n)]

FromLE(b) == IF b[4] > 127 THEN Huge ELSE b[1] + 256 * (b[2] + 256 * (b[3] + 256 * b[4]))

\* n consecutive u32 fields, and one u64 length.
AsWords(t, n) ==
    IF t.out # "ok" THEN t
    ELSE [t EXCEPT !.v = Eager([i \in 1..n |-> FromLE(SubSeq(@, 4 * i - 3, 4 * i))])]
Words(c, n) == AsWords(take(c, 4 * n), n)
AsLength(t) ==
    IF t.out # "ok" THEN t
    ELSE [t EXCEPT !.v = IF SubSeq(@, 5, 8) = <<0, 0, 0, 0>> THEN FromLE(SubSeq(@, 1, 4)) ELSE Huge]
length(c) == AsLength(take(c, 8))

Refused               == [out |-> "error"]
Require(c, condition) == IF c.out = "ok" /\ ~condition THEN [c EXCEPT !.out = "error"] ELSE c
finish(c)             == Require(c, c.rest = <<>>)

\* A length n of values of w bytes that must lie in what is left.
Reals(c, n, w) ==
    IF c.out # "ok" THEN c
    ELSE IF n > Len(c.rest) \div w THEN [c EXCEPT !.out = "error"]
    ELSE [take(c, n * w) EXCEPT !.v =
            Eager([i \in 1..n |-> RealOf(SubSeq(@, w * (i - 1) + 1, w * i))])]

IsUtf8(text) == \A i \in DOMAIN text : text[i] < 128
AsText(t)    == Require(t, IsUtf8(t.v))
Text(c, n)   == AsText(take(c, n))

-----------------------------------------------------------------------------
\* Opcodes.

Tag == [One |-> 0, Bml |-> 1, Dup |-> 2, Loop |-> 3, Var |-> 4, Const |-> 5, Zero |-> 6,
        VarIndexed |-> 7, StoreResult |-> 8, FAdd |-> 9, FMul |-> 10, Pick |-> 11,
        Drop |-> 12, Swap |-> 13, ContextVarIndexed |-> 14, ContextConstIndexed |-> 15,
        FMax |-> 16]

ContextLoads == {"ContextVarIndexed", "ContextConstIndexed"}
Operands(k)  == IF k = "Loop" THEN 2
                ELSE IF k \in Loads \cup {"Var", "Const", "StoreResult", "Pick"} THEN 1 ELSE 0

op_size(o) == 1 + 4 * Operands(o.op)

serialize_op(o) ==
    <<Tag[o.op]>> \o (IF Operands(o.op) > 0 THEN U32(o.n) ELSE <<>>)
                  \o (IF Operands(o.op) > 1 THEN U32(o.len) ELSE <<>>)

FragmentBytes(ops) == U32(Len(ops)) \o Flat([i \in DOMAIN ops |-> serialize_op(ops[i])])

\* One opcode of the set known; short is what a truncated operand causes.
OpOf(k, w, short) ==
    IF w.out # "ok" THEN [w EXCEPT !.out = short]
    ELSE [w EXCEPT !.v = [op |-> k, n |-> IF Operands(k) > 0 THEN @[1] ELSE 0,
                                    len |-> IF Operands(k) > 1 THEN @[2] ELSE 0]]
OpTagged(t, known, short) ==
    IF t.out # "ok" \/ ~\E k \in known : Tag[k] = t.v[1] THEN Require(t, FALSE)
    ELSE LET k == CHOOSE x \in known : Tag[x] = t.v[1] IN OpOf(k, Words(t, Operands(k)), short)
deserialize_op(c, known, short) == OpTagged(take(c, 1), known, short)

\* n opcodes.
RECURSIVE ReadOps(_, _, _, _, _)
ReadOps(c, n, known, short, ops) ==
    IF c.out # "ok" \/ n = 0 THEN [c EXCEPT !.v = ops]
    ELSE LET r == deserialize_op(c, known, short)
         IN  ReadOps(r, n - 1, known, short, IF r.out = "ok" THEN Append(ops, r.v) ELSE ops)

OpsUsed(frags) == UNION {{frags[f][i].op : i \in DOMAIN frags[f]} : f \in DOMAIN frags}

\* The lowest format version that has every opcode, and the opcodes of one.
VersionFor(frags) == IF "FMax" \in OpsUsed(frags) THEN 4
                     ELSE IF OpsUsed(frags) \cap ContextLoads # {} THEN 3 ELSE 2
OpcodesOf(version) == (DOMAIN Tag \ IF version < 3 THEN ContextLoads ELSE {})
                         \ (IF version < 4 THEN {"FMax"} ELSE {})

-----------------------------------------------------------------------------
\* fragment.rs: the program cut under a byte threshold, and the single file.

\* Greedy pieces: an instruction that does not fit starts a new piece.
RECURSIVE Pieces(_, _, _, _, _)
Pieces(sizes, from, to, size, target) ==
    IF from > Len(sizes) THEN <<>>
    ELSE IF to < Len(sizes) /\ size + sizes[to + 1] <= target
    THEN Pieces(sizes, from, to + 1, size + sizes[to + 1], target)
    ELSE <<[from |-> from, to |-> to]>>
           \o Pieces(sizes, to + 1, to + 1, IF to < Len(sizes) THEN sizes[to + 1] ELSE 0, target)

Cut(ops, sizes, target) ==
    LET ps == Pieces(sizes, 1, 1, IF sizes = <<>> THEN 0 ELSE sizes[1], target)
    IN  Eager([i \in DOMAIN ps |-> SubSeq(ops, ps[i].from, ps[i].to)])

\* size_of::<RpnOp>() is 12.
fragment_program(ops, threshold) == Cut(ops, [i \in DOMAIN ops |-> 12], threshold)

PoolBytes(pool) == U64(Len(pool)) \o Flat([i \in DOMAIN pool |-> F64(pool[i])])

serialize(g) ==
    U32(BMLGRAPH_MAGIC) \o U32(VersionFor(g.frags)) \o U32(Len(g.frags))
      \o Flat([i \in DOMAIN g.frags |-> FragmentBytes(g.frags[i])]) \o PoolBytes(g.pool)

\* The fragments of a single file, left opcodes still allowed.
RECURSIVE ReadFragments(_, _, _, _, _)
ReadFragments(c, n, left, version, frags) ==
    IF c.out # "ok" \/ n = 0 THEN [c EXCEPT !.v = frags]
    ELSE LET w == Words(c, 1)
             o == ReadOps(Require(w, w.v[1] <= left), w.v[1], OpcodesOf(version), "error", <<>>)
         IN  IF w.out # "ok" THEN w
             ELSE ReadFragments(o, n - 1, left - w.v[1], version, Append(frags, o.v))

\* Mutant: the pool is whatever follows its length, up to that many values.
ReadPoolAvailable(c, limit) ==
    LET n == length(c)
        k == IF n.v < Len(n.rest) \div 8 THEN n.v ELSE Len(n.rest) \div 8
    IN  IF n.out # "ok" THEN n ELSE [Reals(n, k, 8) EXCEPT !.rest = <<>>]

\* The constant pool: its length is bounded and must be there in full.
ReadPool(c, limit) ==
    LET n == length(c)
    IN  IF n.out # "ok" THEN n ELSE Reals(Require(n, n.v <= limit), n.v, 8)

\* BmlGraph::deserialize_with_limits; version 1 files have no pool.
GraphRead(frags, p) ==
    IF finish(p).out # "ok" THEN Refused ELSE [out |-> "ok", frags |-> frags, pool |-> p.v]
GraphPool(version, f) ==
    IF f.out # "ok" THEN Refused
    ELSE GraphRead(f.v, IF version >= 2 THEN ReadPool(f, LoadLimits.constants)
                        ELSE [f EXCEPT !.v = <<>>])
GraphFragments(w) ==
    GraphPool(w.v[2], ReadFragments(Require(w, /\ w.v[1] = BMLGRAPH_MAGIC /\ w.v[2] \in 1..4
                                               /\ w.v[3] <= LoadLimits.frags),
                                    w.v[3], LoadLimits.ops, w.v[2], <<>>))
deserialize_with_limits(b) == GraphFragments(Words(Cursor(b), 3))

-----------------------------------------------------------------------------
\* The header both directory containers share: version, count, ModelConfig.

HeaderBytes(version, count, config) ==
    U32(BMLGRAPH_MAGIC) \o U32(version) \o U32(count) \o U64(Len(config.arch)) \o config.arch
      \o Flat([i \in DOMAIN config.sizes |-> U32(config.sizes[i])])

HeaderRead(w, arch, s) ==
    IF s.out # "ok" THEN s
    ELSE [s EXCEPT !.v = [version |-> w.v[2], count |-> w.v[3],
                          config |-> [arch |-> arch, sizes |-> @]]]
HeaderSizes(w, a) == HeaderRead(w, a.v, Words(a, 5))
HeaderArch(w, n) == HeaderSizes(w, Text(n, n.v))
HeaderWords(w) == HeaderArch(w, length(Require(w, w.v[1] = BMLGRAPH_MAGIC /\ w.v[2] \in {2, 4})))
ReadHeader(b) == HeaderWords(Words(Cursor(b), 3))

\* The legacy directory: the header also holds the constant pool; a fragment
\* file is an operation count and its opcodes.
DirHeader(g) == HeaderBytes(VersionFor(g.frags), Len(g.frags), g.config) \o PoolBytes(g.pool)

\* load_from_dir_with_limits: the header, then each fragment file.
DirRead(b, v, p) ==
    IF p.out # "ok" \/ v.count > (LoadLimits.bytes - Len(b)) \div 4 THEN Refused
    ELSE [out |-> "ok", version |-> v.version, count |-> v.count, config |-> v.config, pool |-> p.v]
DirPool(b, h) ==
    IF h.out # "ok" THEN Refused
    ELSE DirRead(b, h.v, finish(ReadPool(Require(h, h.v.count <= LoadLimits.frags),
                                         LoadLimits.constants)))
LoadHeader(b) == IF Len(b) > LoadLimits.bytes THEN Refused ELSE DirPool(b, ReadHeader(b))

FragmentRead(o) == IF finish(o).out # "ok" THEN Refused ELSE [out |-> "ok", ops |-> o.v]
FragmentOps(b, w, version, bytes, left) ==
    FragmentRead(ReadOps(Require(w, Len(b) <= bytes /\ w.v[1] <= left /\ w.v[1] <= Len(w.rest)),
                         w.v[1], OpcodesOf(version) \ ContextLoads, "error", <<>>))
LoadFragment(b, version, bytes, left) == FragmentOps(b, Words(Cursor(b), 1), version, bytes, left)

-----------------------------------------------------------------------------
\* The distributed directory: config in the header, the shards beside it.
\* A part: [id, first, last, ops, weights, tensors, kv, head].

TensorBytes(t) == U32(Len(t.name)) \o t.name \o U64(t.offset) \o U32(t.rows) \o U32(t.cols)

WeightBytes(ws) == U64(Len(ws)) \o Flat([i \in DOMAIN ws |-> F32(ws[i])])
TensorsBytes(ts) == U32(Len(ts)) \o Flat([i \in DOMAIN ts |-> TensorBytes(ts[i])])

ShardBytes(version, p) ==
    U32(BMLGRAPH_MAGIC) \o U32(version) \o U32(p.id) \o U32(p.first) \o U32(p.last)
      \o FragmentBytes(p.ops) \o WeightBytes(p.weights) \o TensorsBytes(p.tensors)
      \o U32(p.kv) \o U32(p.head)

DistRead(h) ==
    IF finish(Require(h, h.v.count \in 1..LoadLimits.tensors)).out # "ok" THEN Refused
    ELSE [out |-> "ok", config |-> h.v.config, count |-> h.v.count]
load_distributed_header(b) ==
    IF Len(b) > LoadLimits.bytes THEN Refused ELSE DistRead(ReadHeader(b))

\* n tensors, each inside the weights.
TensorRead(name, offset, d, weights) ==
    IF Require(d, offset + d.v[1] * d.v[2] <= weights).out # "ok" THEN Require(d, FALSE)
    ELSE [d EXCEPT !.v = [name |-> name, offset |-> offset, rows |-> @[1], cols |-> @[2]]]
TensorDims(name, o, weights) == TensorRead(name, o.v, Words(o, 2), weights)
TensorOffset(a, weights) == TensorDims(a.v, length(a), weights)
TensorName(w, weights) == TensorOffset(Text(w, w.v[1]), weights)

RECURSIVE ReadTensors(_, _, _, _)
ReadTensors(c, n, weights, ts) ==
    IF c.out # "ok" \/ n = 0 THEN [c EXCEPT !.v = ts]
    ELSE LET t == TensorName(Words(c, 1), weights)
         IN  ReadTensors(t, n - 1, weights, IF t.out = "ok" THEN Append(ts, t.v) ELSE ts)

\* The weights and the tensors that name them: v is [weights, tensors]; tail
\* bytes must remain behind the tensors.
StorageTensors(weights, k, tail, limit) ==
    [ReadTensors(Require(k, k.v[1] <= limit /\ k.v[1] <= (Len(k.rest) - tail) \div 20),
                 k.v[1], Len(weights), <<>>)
        EXCEPT !.v = [weights |-> weights, tensors |-> @]]
StorageWeights(w, tail, limit) ==
    IF w.out # "ok" THEN w ELSE StorageTensors(w.v, Words(w, 1), tail, limit)
StorageLength(n, tail, limit) == StorageWeights(Reals(n, n.v, 4), tail, limit)
ReadStorage(c, tail, limit) == StorageLength(length(c), tail, limit)

ShardRead(w, ops, storage, k) ==
    IF finish(k).out # "ok" THEN Refused
    ELSE [out |-> "ok",
          part |-> [id |-> w.v[3], first |-> w.v[4], last |-> w.v[5], ops |-> ops,
                    weights |-> storage.weights, tensors |-> storage.tensors,
                    kv |-> k.v[1], head |-> k.v[2]]]
ShardTail(w, ops, s) == ShardRead(w, ops, s.v, Words(s, 2))
ShardStorage(w, o) == ShardTail(w, o.v, ReadStorage(o, 8, LoadLimits.tensors))
ShardOps(w, config) ==
    ShardStorage(w, ReadOps(Require(w, /\ w.v[1] = BMLGRAPH_MAGIC /\ w.v[2] \in {2, 4}
                                       /\ w.v[4] <= w.v[5] /\ w.v[5] <= config.sizes[1]
                                       /\ w.v[6] <= LoadLimits.ops /\ w.v[6] <= Len(w.rest)),
                            w.v[6], OpcodesOf(w.v[2]) \ ContextLoads, "error", <<>>))
load_distributed_fragment(b, config) ==
    IF Len(b) > LoadLimits.bytes THEN Refused ELSE ShardOps(Words(Cursor(b), 6), config)

\* sub_fragment_with_threshold: pieces in a chain of dependencies; the first
\* piece holds the references to all weights.  At least one piece.
WeightRefs(p) == [i \in DOMAIN p.tensors |->
                    [name |-> p.tensors[i].name, offset |-> p.tensors[i].offset,
                     len |-> p.tensors[i].rows * p.tensors[i].cols]]
sub_fragment_with_threshold(p, target) ==
    LET cut    == Cut(p.ops, [i \in DOMAIN p.ops |-> op_size(p.ops[i])], target)
        pieces == IF cut = <<>> THEN <<<<>>>> ELSE cut
    IN  Eager([i \in DOMAIN pieces |->
           [sub |-> i - 1, ops |-> pieces[i], deps |-> IF i = 1 THEN <<>> ELSE <<i - 2>>,
            refs |-> IF i = 1 THEN WeightRefs(p) ELSE <<>>]])

\* serialize_sub_fragments: one file per piece, versioned on its own opcodes.
SubBytes(p, s) ==
    U32(BMLGRAPH_MAGIC) \o U32(VersionFor(<<s.ops>>)) \o U32(p.id) \o U32(s.sub)
      \o U32(p.first) \o U32(p.last) \o FragmentBytes(s.ops) \o U32(Len(s.refs))
      \o Flat([i \in DOMAIN s.refs |-> U32(Len(s.refs[i].name)) \o s.refs[i].name
                                          \o U64(s.refs[i].offset) \o U32(s.refs[i].len)])
      \o U32(Len(s.deps)) \o Flat([i \in DOMAIN s.deps |-> U32(s.deps[i])])

-----------------------------------------------------------------------------
\* shm.rs: an operation count and opcodes; FMax carries no version and a
\* truncated operand is an index out of range.

ShmRead(o) == IF o.out = "error" THEN Refused ELSE [out |-> o.out, ops |-> o.v]
ShmOps(w) == ShmRead(ReadOps(w, w.v[1], DOMAIN Tag \ ContextLoads, "panic", <<>>))
read_fragment(b) == ShmOps(Words(Cursor(b), 1))

\* read_results: whole values only.
read_results(b) == Eager([i \in 1..(Len(b) \div 8) |-> RealOf(SubSeq(b, 8 * i - 7, 8 * i))])

-----------------------------------------------------------------------------
\* worker/main.rs: a fragment on the wire, without its opcodes.

serialize_fragment_to_bytes(p, config) ==
    U32(p.id) \o U32(p.first) \o U32(p.last) \o U32(Len(config.arch)) \o config.arch
      \o Flat([i \in DOMAIN config.sizes |-> U32(config.sizes[i])]) \o U32(p.kv) \o U32(p.head)
      \o WeightBytes(p.weights) \o TensorsBytes(p.tensors)

\* legacy_tensor_layer; operation 1 is attn_norm.weight, 2 attn_q.weight.
InLayers(p, name)  == Len(name) = 2 /\ name[1] \in p.first..(p.last - 1)
LegacyShape(name, embd) == IF name[2] = 1 THEN <<embd, 1>> ELSE <<embd, embd>>

validate_legacy_fragment(p, config) ==
    /\ config.sizes[3] # 0
    /\ p.first <= p.last /\ p.last <= config.sizes[1]
    /\ \A i \in DOMAIN p.tensors :
         LET t == p.tensors[i]
         IN  /\ t.offset + t.rows * t.cols <= Len(p.weights)
             /\ InLayers(p, t.name) /\ t.name[2] \in {1, 2} =>
                  <<t.rows, t.cols>> = LegacyShape(t.name, config.sizes[3])

WireChecked(p, config) ==
    IF ~validate_legacy_fragment(p, config) THEN Refused
    ELSE [out |-> "ok", part |-> p, config |-> config]
WireRead(w, arch, sizes, s) ==
    IF finish(s).out # "ok" THEN Refused
    ELSE WireChecked([id |-> w.v[1], first |-> w.v[2], last |-> w.v[3], ops |-> <<>>,
                      weights |-> s.v.weights, tensors |-> s.v.tensors,
                      kv |-> sizes[6], head |-> sizes[7]],
                     [arch |-> arch, sizes |-> SubSeq(sizes, 1, 5)])
WireStorage(w, arch, z) ==
    WireRead(w, arch, z.v,
             ReadStorage(Require(z, w.v[2] <= w.v[3] /\ w.v[3] <= z.v[1]), 0, Huge))
WireSizes(w, a) == WireStorage(w, a.v, Words(a, 7))
WireWords(w) == WireSizes(w, Text(w, w.v[4]))
deserialize_fragment_from_bytes(b) == WireWords(Words(Cursor(b), 4))

-----------------------------------------------------------------------------
\* VectorFragment: columns j..j+cols-1 of a matrix and the shared input.

\* An index behind the weights reads as zero.
WeightAt(ws, i) == IF i < Len(ws) THEN ws[i + 1] ELSE Num(0)

Columns(m, id, j, cols) ==
    [id |-> id, x |-> m.x, n_in |-> m.n_in, n_out |-> m.n_out, j |-> j, cols |-> cols,
     w |-> Eager([k \in 1..(m.n_in * cols) |->
              WeightAt(m.weights, m.offset + ((k - 1) \div cols) * m.n_out + j + ((k - 1) % cols))])]

split_matmul_columns(m, n) ==
    LET per == (m.n_out + n - 1) \div n
        ids == {i \in 0..(n - 1) : i * per < m.n_out}
    IN  Eager([k \in 1..Cardinality(ids) |->
           Columns(m, k - 1, (k - 1) * per,
                   IF per < m.n_out - (k - 1) * per THEN per ELSE m.n_out - (k - 1) * per)])

\* A dot product: inputs times a column, from the first row on.
RECURSIVE Dot(_, _, _)
Dot(x, column, n) == IF n = 0 THEN Num(0) ELSE f_add(Dot(x, column, n - 1), f_mul(x[n], column[n]))

VectorExecute(f) ==
    LET rows == IF f.n_in < Len(f.x) THEN f.n_in ELSE Len(f.x)
    IN  Eager([j \in 1..f.cols |-> Dot(f.x, [i \in 1..rows |-> f.w[(i - 1) * f.cols + j]], rows)])

serialize_vector_fragment(f) ==
    U32(f.id) \o U32(f.n_in) \o U32(f.n_out) \o U32(f.j) \o U32(f.cols) \o U32(0)
      \o PoolBytes(f.x) \o PoolBytes(f.w)

VectorRead(w, x, y) ==
    IF finish(y).out # "ok" THEN Refused
    ELSE [out |-> "ok", f |-> [id |-> w.v[1], x |-> x, n_in |-> w.v[2], n_out |-> w.v[3],
                               j |-> w.v[4], cols |-> w.v[5], w |-> y.v]]
VectorWeights(w, x, k) == VectorRead(w, x, Reals(Require(k, k.v = w.v[2] * w.v[5]), k.v, 8))
VectorCount(w, x) == VectorWeights(w, x.v, length(x))
VectorInput(w, n) == VectorCount(w, Reals(Require(n, n.v = w.v[2]), n.v, 8))
VectorWords(w) == VectorInput(w, length(Require(w, w.v[4] + w.v[5] <= w.v[3])))
deserialize_vector_fragment(b) == VectorWords(Words(Cursor(b), 6))

=============================================================================
