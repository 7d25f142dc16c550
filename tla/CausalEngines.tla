--------------------------- MODULE CausalEngines ---------------------------
(***************************************************************************)
(* One token through one layer, as each of the causal engines computes it: *)
(* bml-inference's Session (model.rs), the InferenceCompiler with native   *)
(* or RPN projections (gguf_compiler.rs, cli/src/bml_inference.rs) and the *)
(* symbolic model (runtime/src/symbolic_causal.rs).                        *)
(*                                                                         *)
(* Numbers are taken modulo the prime P.  Sums and products are those of   *)
(* the code; the transcendental functions (inverse root mean square, SiLU, *)
(* softmax, cosine and sine) are fixed functions of the same arguments, so *)
(* two engines agree exactly when they apply the same operations to the    *)
(* same values.  Rounding is not modelled; that a value leaves the finite  *)
(* range is a failure the model may take at any operation.                 *)
(***************************************************************************)
EXTENDS LlamaModel

P == 32749

\* v itself: TLC evaluates a sequence when it concatenates it, and the elements
\* of a function constructor anew at every application.
Vector(v) == v \o <<>>

RECURSIVE SumTo(_, _)
SumTo(v, n) == IF n = 0 THEN 0 ELSE (SumTo(v, n - 1) + v[n]) % P
SumOf(v) == SumTo(v, Len(v))

Dot(x, w) == SumOf([i \in DOMAIN x |-> (x[i] * w[i]) % P])
Plus(x, y) == Vector([i \in DOMAIN x |-> (x[i] + y[i]) % P])
InvRms(sumSquares) == (sumSquares * 31 + 7) % P
Silu(g) == (g * ((g * 3 + 11) % P)) % P
Cos(position, within) == (1 + position * (11 + 4 * within)) % P
Sin(position, within) == (position * (17 + 6 * within)) % P
InvRoot(dim) == 20 + dim
Exp(s) == (s * ((s + 5) % P) + 1) % P
InvTotal(t) == (t * 13 + 3) % P

\* softmax_f32, the softmax inside Session::attention and the Softmax program
\* (whose shift by the maximum cancels).
Softmax(scores) ==
    LET e == Vector([i \in DOMAIN scores |-> Exp(scores[i])])
        inverse == InvTotal(SumOf(e))
    IN Vector([i \in DOMAIN scores |-> (e[i] * inverse) % P])

Normed(x, w) ==
    LET scale == InvRms(Dot(x, x))
    IN Vector([i \in DOMAIN x |-> (((x[i] * scale) % P) * w[i]) % P])

Slice(v, from, to) == IF to <= Len(v) THEN SubSeq(v, from + 1, to) ELSE Failed
Pair(x, y, c, s) == <<(x * c + (P - ((y * s) % P))) % P, (x * s + y * c) % P>>

\* copy_from_slice at `start'.
Stored(buffer, start, data) ==
    Vector([i \in DOMAIN buffer |-> IF i \in (start + 1)..(start + Len(data))
                                     THEN data[i - start] ELSE buffer[i]])

(***************************************************************************)
(* Weights.  A row that cannot be produced is Failed.                      *)
(***************************************************************************)
\* Model::row, decode_row, encoded_row.
SessionTensor(model, name) ==
    model.tensors[CHOOSE i \in DOMAIN model.tensors : model.tensors[i].name = name]

SessionRow(model, name, row) ==
    LET t == SessionTensor(model, name)
        e == encoding(t.dtype)
        rowBytes == (t.dims[1] \div e[1]) * e[2]
    IN IF (row + 1) * rowBytes > t.length THEN Failed
       ELSE SubSeq(t.values, row * t.dims[1] + 1, (row + 1) * t.dims[1])

\* project_rows of the InferenceCompiler: one row of the mapping or of the pool.
CompilerRow(m, name, row) ==
    LET columns == m.dims[name][1] IN
    IF m.mapped
    THEN decode_row_f32(m.views[CHOOSE k \in DOMAIN m.views : m.views[k].name = name], row)
    ELSE IF name \notin DOMAIN m.offsets THEN Failed
    ELSE Slice(m.pool, m.offsets[name] + row * columns, m.offsets[name] + (row + 1) * columns)

\* VerifiedLayerWeights::decode_row_f32.
ShardHas(m, name) == \E k \in DOMAIN m.shard.tensors : m.shard.tensors[k].name = name
ShardTensor(m, name) ==
    m.shard.tensors[CHOOSE k \in DOMAIN m.shard.tensors : m.shard.tensors[k].name = name]

\* A matrix times a vector: the dimensions declared for the matrix decide.
Projected(input, dims, Row(_)) ==
    IF input = Failed \/ Len(input) /= dims[1] THEN Failed
    ELSE LET rows == Vector([r \in 1..dims[2] |-> Row(r - 1)])
         IN IF \E r \in DOMAIN rows : Len(rows[r]) /= dims[1] THEN Failed
            ELSE Vector([r \in DOMAIN rows |-> Dot(input, rows[r])])

SessionProject(model, input, name) ==
    Projected(input, SessionTensor(model, name).dims, LAMBDA r : SessionRow(model, name, r))

matmul_f64(m, input, name) ==
    IF name \notin DOMAIN m.dims THEN Failed
    ELSE Projected(input, m.dims[name], LAMBDA r : CompilerRow(m, name, r))

\* bml_dot_program on a buffer with the input in slot 0 and one row in slot 1.
bml_dot_program(buffer, n) == SumOf([i \in 1..n |-> (buffer[i] * buffer[n + i]) % P])

\* project of bml_inference: each row is copied behind the input and reduced.
BmlProject(m, input, name) ==
    IF matmul_f64(m, input, name) = Failed THEN Failed
    ELSE Vector([r \in 1..m.dims[name][2] |->
            bml_dot_program(input \o CompilerRow(m, name, r - 1), Len(input))])

\* The projection that the caller of forward_cached_with_projection supplies.
project_checked(m, input, name, by) ==
    IF by = "rpn" THEN BmlProject(m, input, name) ELSE matmul_f64(m, input, name)

SymbolicProject(m, input, name) ==
    IF m.shard = NoShard THEN matmul_f64(m, input, name)
    ELSE IF ~ShardHas(m, name) THEN Failed
    ELSE Projected(input, DimsOf(ShardTensor(m, name)),
                   LAMBDA r : decode_row_f32(ShardTensor(m, name), r))

SessionNorm(model, input, name) ==
    IF input = Failed THEN Failed ELSE Normed(input, SessionRow(model, name, 0))

\* rmsnorm_inplace: a missing name reads from offset 0, a missing weight is one.
rmsnorm_inplace(m, input, name) ==
    IF input = Failed THEN Failed
    ELSE LET offset == IF name \in DOMAIN m.offsets THEN m.offsets[name] ELSE 0
         IN Normed(input, [i \in DOMAIN input |->
                IF offset + i <= Len(m.pool) THEN m.pool[offset + i] ELSE 1])

SymbolicNorm(m, input, name) ==
    LET w == IF m.shard /= NoShard
             THEN IF ShardHas(m, name) /\ ShardTensor(m, name).dims = <<Len(input)>>
                  THEN decode_row_f32(ShardTensor(m, name), 0) ELSE Failed
             ELSE IF name \in DOMAIN m.offsets
                  THEN Slice(m.pool, m.offsets[name], m.offsets[name] + Len(input)) ELSE Failed
    IN IF input = Failed \/ w = Failed THEN Failed ELSE Normed(input, w)

Residual(x, y) == IF Failed \in {x, y} \/ Len(x) /= Len(y) THEN Failed ELSE Plus(x, y)
Swiglu(gate, up) ==
    IF Failed \in {gate, up} THEN Failed
    ELSE Vector([i \in DOMAIN gate \cap DOMAIN up |-> (Silu(gate[i]) * up[i]) % P])

(***************************************************************************)
(* Rotary embedding: pairs within each head.                               *)
(***************************************************************************)
\* rope of model.rs and apply_rope_inplace: head by head.
RopeByHead(x, position, dim) ==
    IF x = Failed THEN Failed
    ELSE FlattenSeq([h \in 1..(Len(x) \div dim) |->
            FlattenSeq([i \in 1..(dim \div 2) |->
                LET at == (h - 1) * dim + 2 * (i - 1)
                IN Pair(x[at + 1], x[at + 2], Cos(position, 2 * (i - 1)), Sin(position, 2 * (i - 1)))])])

\* rotate of the symbolic model: pair by pair, the dimension taken modulo a head.
rotate(x, position, dim) ==
    IF x = Failed THEN Failed
    ELSE FlattenSeq([j \in 1..(Len(x) \div 2) |->
            LET within == (2 * (j - 1)) % dim
            IN Pair(x[2 * j - 1], x[2 * j], Cos(position, within), Sin(position, within))])

(***************************************************************************)
(* Causal attention of one query over rows 0..position of a layer's cache. *)
(* Key(p, kvHead) and Value(p, kvHead) read the cache.                     *)
(***************************************************************************)
Attended(query, position, heads, group, dim, Key(_, _), Value(_, _)) ==
    FlattenSeq([h \in 1..heads |->
        LET kvHead == (h - 1) \div group
            q == SubSeq(query, (h - 1) * dim + 1, h * dim)
            weights == Softmax(Vector([p \in 1..(position + 1) |->
                                    (Dot(q, Key(p - 1, kvHead)) * InvRoot(dim)) % P]))
            values == Vector([p \in 1..(position + 1) |-> Value(p - 1, kvHead)])
        IN [d \in 1..dim |->
                SumOf([p \in 1..(position + 1) |-> (weights[p] * values[p][d]) % P])]])

\* Session::attention on the session's flat buffers.
SessionAttention(c, kv, layer, position, query) ==
    LET At(buffer, p, h) == SubSeq(buffer, p * KvWidth(c) + h * HeadDim(c) + 1,
                                   p * KvWidth(c) + (h + 1) * HeadDim(c))
    IN Attended(query, position, c.heads, c.heads \div c.kvHeads, HeadDim(c),
                LAMBDA p, h : At(kv.k[layer], p, h), LAMBDA p, h : At(kv.v[layer], p, h))

\* HashConsedKV: a ring of max_seq_len rows of `stride' elements.
KvStart(kv, position, kvHead) == (position % kv.capacity) * kv.stride + kvHead * kv.headDim
load(kv, buffer, position, kvHead) ==
    Slice(buffer, KvStart(kv, position, kvHead), KvStart(kv, position, kvHead) + kv.headDim)

store(kv, layer, position, kvHead, key, value) ==
    [kv EXCEPT !.k[layer] = Stored(@, KvStart(kv, position, kvHead), key),
               !.v[layer] = Stored(@, KvStart(kv, position, kvHead), value)]

CacheAttention(kv, layer, position, query, heads, group, dim) ==
    Attended(query, position, heads, group, dim,
             LAMBDA p, h : load(kv, kv.k[layer], p, h), LAMBDA p, h : load(kv, kv.v[layer], p, h))

RECURSIVE StoreHeads(_, _, _, _, _, _, _)
StoreHeads(kv, layer, position, key, value, dim, heads) ==
    IF heads = 0 THEN kv
    ELSE LET h == heads - 1
         IN store(StoreHeads(kv, layer, position, key, value, dim, h), layer, position, h,
                  SubSeq(key, h * dim + 1, (h + 1) * dim), SubSeq(value, h * dim + 1, (h + 1) * dim))

(***************************************************************************)
(* A whole layer.  The result is the hidden state and the cache; `heads'   *)
(* bounds how many key/value heads are stored before the layer fails on a  *)
(* number out of range (all of them when it does not).                     *)
(***************************************************************************)
Blk(l, role) == <<"blk", l, role>>

LayerFailed(kv) == [kv |-> kv, hidden |-> Failed]

\* Session::forward_layer, from its end to its beginning.
SessionFeedForward(model, l, y) ==
    SessionProject(model, Swiglu(SessionProject(model, y, Blk(l, "ffn_gate")),
                                 SessionProject(model, y, Blk(l, "ffn_up"))),
                   Blk(l, "ffn_down"))

SessionMlp(model, kv, h1, l) ==
    [kv |-> kv, hidden |->
        Residual(h1, SessionFeedForward(model, l, SessionNorm(model, h1, Blk(l, "ffn_norm"))))]

SessionMix(model, kv, hidden, position, l, q) ==
    SessionMlp(model, kv, Residual(hidden, SessionProject(model,
                    SessionAttention(model.config, kv, l, position, q), Blk(l, "attn_output"))), l)

SessionCached(kv, l, start, k, v) ==
    [kv EXCEPT !.k[l] = Stored(@, start, k), !.v[l] = Stored(@, start, v)]

SessionStore(model, kv, hidden, position, l, stored, q, k, v) ==
    IF Failed \in {q, k, v} THEN LayerFailed(kv)
    ELSE SessionMix(model, IF stored = 0 THEN kv
                           ELSE SessionCached(kv, l, position * KvWidth(model.config), k, v),
                    hidden, position, l, q)

SessionAttend(model, kv, hidden, position, l, stored, x) ==
    SessionStore(model, kv, hidden, position, l, stored,
        RopeByHead(SessionProject(model, x, Blk(l, "attn_q")), position, HeadDim(model.config)),
        RopeByHead(SessionProject(model, x, Blk(l, "attn_k")), position, HeadDim(model.config)),
        SessionProject(model, x, Blk(l, "attn_v")))

SessionLayer(model, kv, hidden, position, l, stored) ==
    SessionAttend(model, kv, hidden, position, l, stored,
                  SessionNorm(model, hidden, Blk(l, "attn_norm")))

\* forward_layer_cached, with the projection its caller supplies; a short output
\* counts as zeros.
Added(h, y) ==
    IF Failed \in {h, y} THEN Failed
    ELSE Vector([i \in DOMAIN h |-> (h[i] + IF i \in DOMAIN y THEN y[i] ELSE 0) % P])

CompilerFeedForward(m, l, y, by) ==
    project_checked(m, Swiglu(project_checked(m, y, Blk(l, "ffn_gate"), by),
                              project_checked(m, y, Blk(l, "ffn_up"), by)),
                    Blk(l, "ffn_down"), by)

CompilerMlp(m, kv, h1, l, by) ==
    [kv |-> kv, hidden |->
        Added(h1, CompilerFeedForward(m, l, rmsnorm_inplace(m, h1, Blk(l, "ffn_norm")), by))]

CompilerMix(m, kv, hidden, position, l, q, heads, by) ==
    CompilerMlp(m, kv, Added(hidden, project_checked(m,
                    IF Len(q) < m.config.heads * m.headDim THEN Failed
                    ELSE CacheAttention(kv, l, position, q, m.config.heads,
                                        m.config.heads \div heads, m.headDim),
                    Blk(l, "attn_output"), by)), l, by)

Least(a, b) == IF a < b THEN a ELSE b

CompilerStore(m, kv, hidden, position, l, stored, q, k, v, by) ==
    IF Failed \in {q, k, v} THEN LayerFailed(kv)
    ELSE LET heads == Least(m.kvHeads, Len(k) \div m.headDim)
         IN CompilerMix(m, StoreHeads(kv, l, position, k, v, m.headDim, Least(stored, heads)),
                        hidden, position, l, q, heads, by)

CompilerAttend(m, kv, hidden, position, l, stored, x, by) ==
    CompilerStore(m, kv, hidden, position, l, stored,
        RopeByHead(project_checked(m, x, Blk(l, "attn_q"), by), position, m.headDim),
        RopeByHead(project_checked(m, x, Blk(l, "attn_k"), by), position, m.headDim),
        project_checked(m, x, Blk(l, "attn_v"), by), by)

CompilerLayer(m, kv, hidden, position, l, stored, by) ==
    CompilerAttend(m, kv, hidden, position, l, stored,
                   rmsnorm_inplace(m, hidden, Blk(l, "attn_norm")), by)

\* forward_layer_range_inner for one layer: the heads the model declares are cut
\* out of k and v, which must have them all.
SymbolicFeedForward(m, l, y) ==
    SymbolicProject(m, Swiglu(SymbolicProject(m, y, Blk(l, "ffn_gate")),
                              SymbolicProject(m, y, Blk(l, "ffn_up"))),
                    Blk(l, "ffn_down"))

SymbolicMlp(m, kv, h1, l) ==
    [kv |-> kv, hidden |->
        Residual(h1, SymbolicFeedForward(m, l, SymbolicNorm(m, h1, Blk(l, "ffn_norm"))))]

SymbolicMix(m, kv, hidden, position, l, q) ==
    SymbolicMlp(m, kv, Residual(hidden, SymbolicProject(m,
                    CacheAttention(kv, l, position, q, m.config.heads,
                                   m.config.heads \div m.kvHeads, m.headDim),
                    Blk(l, "attn_output"))), l)

SymbolicStore(m, kv, hidden, position, l, stored, q, k, v) ==
    IF \/ Failed \in {q, k, v}
       \/ Len(k) < m.kvHeads * m.headDim \/ Len(v) < m.kvHeads * m.headDim
    THEN LayerFailed(kv)
    ELSE SymbolicMix(m, StoreHeads(kv, l, position, k, v, m.headDim, Least(stored, m.kvHeads)),
                     hidden, position, l, q)

SymbolicAttend(m, kv, hidden, position, l, stored, x) ==
    SymbolicStore(m, kv, hidden, position, l, stored,
        rotate(SymbolicProject(m, x, Blk(l, "attn_q")), position, m.headDim),
        rotate(SymbolicProject(m, x, Blk(l, "attn_k")), position, m.headDim),
        SymbolicProject(m, x, Blk(l, "attn_v")))

SymbolicLayerStep(m, kv, hidden, position, l, stored) ==
    SymbolicAttend(m, kv, hidden, position, l, stored,
                   SymbolicNorm(m, hidden, Blk(l, "attn_norm")))

(***************************************************************************)
(* Embedding and output.                                                   *)
(***************************************************************************)
embed_token(model, token) == SessionRow(model, <<"token_embd">>, token)

final_logits(model, hidden) ==
    SessionProject(model, SessionNorm(model, hidden, <<"output_norm">>),
                   IF \E i \in DOMAIN model.tensors : model.tensors[i].name = <<"output">>
                   THEN <<"output">> ELSE <<"token_embd">>)

get_embedding(m, token) ==
    IF m.mapped THEN CompilerRow(m, <<"token_embd">>, token)
    ELSE IF <<"token_embd">> \notin DOMAIN m.offsets THEN Failed
    ELSE LET last == m.dims[<<"token_embd">>][2] - 1
         IN CompilerRow(m, <<"token_embd">>, IF token < last THEN token ELSE last)

compute_logits(m, hidden, by) ==
    project_checked(m, IF <<"output_norm">> \in DOMAIN m.offsets
                       THEN rmsnorm_inplace(m, hidden, <<"output_norm">>) ELSE hidden,
                    output_weight_name(m), by)

project_output(m, hidden) ==
    SymbolicProject(m, IF <<"output_norm">> \in DOMAIN m.offsets
                       THEN SymbolicNorm(m, hidden, <<"output_norm">>) ELSE hidden,
                    output_weight_name(m))

(***************************************************************************)
(* The programs a symbolic model runs, and the programs an artifact stores *)
(* (required_kernels).  An artifact's profile says whether a program holds *)
(* all the outputs of its operation (`shared', all but the legacy v1),     *)
(* whether attention has operations of its own (`bounded', v4) and whether *)
(* the down projection has one too (`separate', a v4 with its own bound).  *)
(* The programs of v3 are those of v2.                                     *)
(***************************************************************************)
Profile(name) ==
    [shared |-> name /= "v1", bounded |-> name \in {"v4", "v4 down"}, separate |-> name = "v4 down"]

FfWidth(m) ==
    IF m.shard = NoShard THEN m.dims[Blk(0, "ffn_gate")][2]
    ELSE DimsOf(ShardTensor(m, Blk(m.shard.layers[1], "ffn_gate")))[2]

\* The operation an own program is kept for, or the common dot product.
Family(has, own) == IF has THEN own ELSE "dot"

\* The programs of one layer for a token at a position.
TokenKernels(m, position, profile) ==
    {<<"norm", m.config.width>>, <<"rope", 2>>, <<"scale", 1>>, <<"add", 1>>, <<"swiglu", 1>>,
     <<"softmax", position + 1>>, <<Family(profile.bounded, "attention_dot"), m.headDim>>,
     <<Family(profile.bounded, "weighted_sum"), position + 1>>,
     <<Family(profile.separate, "down_dot"), FfWidth(m)>>}
    \cup {<<"dot", w>> : w \in {m.config.width, m.config.heads * m.headDim}}

OutputKernels(m) ==
    {<<"dot", m.config.width>>}
    \cup {k \in {<<"norm", m.config.width>>} : <<"output_norm">> \in DOMAIN m.offsets}

Projections(m) ==
    {<<"blk", l, r>> : l \in 0..(m.config.layers - 1),
        r \in {"attn_q", "attn_k", "attn_v", "attn_output", "ffn_gate", "ffn_up", "ffn_down"}}
    \cup {output_weight_name(m)}

ProjectionKernels(m, profile) ==
    {<<Family(Last(n) = "ffn_down" /\ profile.separate, "down_dot"), m.dims[n][1]>> : n \in Projections(m)}

LayerKernels(m, context, profile) ==
    {<<"rope", 2>>, <<"swiglu", 1>>, <<"add", 1>>, <<"scale", 1>>,
     <<Family(profile.bounded, "attention_dot"), m.headDim>>}
    \cup {<<op, w>> : op \in {"softmax", Family(profile.bounded, "weighted_sum")}, w \in 1..context}

\* A plan that stops one position short (a mutant).
required_kernels_short(m, context, profile) ==
    ProjectionKernels(m, profile) \cup LayerKernels(m, context - 1, profile) \cup OutputKernels(m)

required_kernels(m, context, profile) ==
    ProjectionKernels(m, profile)
    \cup {k \in {<<"norm", m.config.width>>} :
            m.config.layers > 0 \/ <<"output_norm">> \in DOMAIN m.offsets}
    \cup (IF m.config.layers > 0 THEN LayerKernels(m, context, profile) ELSE {})

\* The programs of one operation.
ProgramsOf(kernel, profile) ==
    IF ~profile.shared /\ kernel[1] \in {"norm", "softmax", "rope"} THEN kernel[2] ELSE 1

\* The errors of required_kernels: the context, the projections and the budget.
PlanAdmitted(m, context, limit, profile) ==
    /\ context \in 1..m.config.context
    /\ \A n \in Projections(m) : n \in DOMAIN m.dims /\ 0 \notin ToSet(m.dims[n])
    /\ m.config.layers > 0 =>
            (IF profile.shared THEN context ELSE (context * (context + 1)) \div 2) <= limit
    /\ MapThenSumSet(LAMBDA k : ProgramsOf(k, profile), required_kernels(m, context, profile)) <= limit

(***************************************************************************)
(* Reference: the hidden states of a whole prefix, layer by layer, with no *)
(* cache, from the tensors of the file.                                    *)
(***************************************************************************)
Matrix(file, name, x) ==
    LET t == file.tensors[find_tensor(file, name)]
    IN Vector([r \in 1..t.dims[2] |->
                Dot(x, SubSeq(t.values, (r - 1) * t.dims[1] + 1, r * t.dims[1]))])

NormBy(file, name, x) == Normed(x, file.tensors[find_tensor(file, name)].values)
\* Only a model without layers may have no output_norm.
OutputNormBy(file, x) ==
    IF find_tensor(file, <<"output_norm">>) = 0 THEN x ELSE NormBy(file, <<"output_norm">>, x)

ReferenceLayer(file, c, l, hs) ==
    LET x == Vector([p \in DOMAIN hs |-> NormBy(file, Blk(l, "attn_norm"), hs[p])])
        k == Vector([p \in DOMAIN hs |->
                RopeByHead(Matrix(file, Blk(l, "attn_k"), x[p]), p - 1, HeadDim(c))])
        v == Vector([p \in DOMAIN hs |-> Matrix(file, Blk(l, "attn_v"), x[p])])
        Cut1(row, h) == SubSeq(row, h * HeadDim(c) + 1, (h + 1) * HeadDim(c))
        h1 == Vector([p \in DOMAIN hs |->
            LET q == RopeByHead(Matrix(file, Blk(l, "attn_q"), x[p]), p - 1, HeadDim(c))
                a == Attended(q, p - 1, c.heads, c.heads \div c.kvHeads, HeadDim(c),
                              LAMBDA i, h : Cut1(k[i + 1], h), LAMBDA i, h : Cut1(v[i + 1], h))
            IN Plus(hs[p], Matrix(file, Blk(l, "attn_output"), a))])
    IN Vector([p \in DOMAIN hs |->
            LET y == NormBy(file, Blk(l, "ffn_norm"), h1[p])
            IN Plus(h1[p], Matrix(file, Blk(l, "ffn_down"),
                        Swiglu(Matrix(file, Blk(l, "ffn_gate"), y), Matrix(file, Blk(l, "ffn_up"), y))))])

RECURSIVE ReferenceHidden(_, _, _, _)
ReferenceHidden(file, c, l, hs) ==
    IF l = c.layers THEN hs ELSE ReferenceHidden(file, c, l + 1, ReferenceLayer(file, c, l, hs))

ReferenceLogits(file, c, tokens) ==
    LET t == file.tensors[find_tensor(file, <<"token_embd">>)]
        hs == ReferenceHidden(file, c, 0, [p \in DOMAIN tokens |->
                SubSeq(t.values, tokens[p] * c.width + 1, (tokens[p] + 1) * c.width)])
    IN Matrix(file, IF find_tensor(file, <<"output">>) = 0 THEN <<"token_embd">> ELSE <<"output">>,
              OutputNormBy(file, Last(hs)))
=============================================================================
