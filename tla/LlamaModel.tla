---------------------------- MODULE LlamaModel ----------------------------
(***************************************************************************)
(* Admission of a dense Llama model: bml-inference's Model (inference/src/ *)
(* model.rs) and the InferenceCompiler of bml-compiler (gguf_compiler.rs,  *)
(* prepared_model.rs), each with the storage it reads its weights from.    *)
(* Tensor names are tuples: <<"blk", l, "attn_q">>, <<"token_embd">>.      *)
(***************************************************************************)
EXTENDS GgufReader, Tokenizer

CONSTANT MaxEvaluatedWeights     \* the cap on weights evaluated from BMLGGUF

(***************************************************************************)
(* Typed metadata.  A float is a number, NonFinite one that is not finite. *)
(***************************************************************************)
Absent == 0 - 1
Invalid == 0 - 2
NonFinite == 999999

optional_usize(file, key) ==
    LET entry == get_metadata(file, key) IN
    CASE entry.type = "none" -> Absent
      [] entry.type \in {"u8", "u16", "u32", "u64"} -> entry.value
      [] entry.type \in {"i8", "i16", "i32", "i64"} /\ entry.value >= 0 -> entry.value
      [] OTHER -> Invalid

required_usize(file, key) ==
    LET n == optional_usize(file, key) IN IF n = Absent THEN Invalid ELSE n

optional_float(file, key) ==
    LET entry == get_metadata(file, key) IN
    CASE entry.type = "none" -> Absent
      [] entry.type \in {"f32", "f64"} /\ entry.value /= NonFinite -> entry.value
      [] OTHER -> Invalid

optional_bool(file, key, default) ==
    LET entry == get_metadata(file, key)
    IN CASE entry.type = "none" -> <<default>>
         [] entry.type = "bool" -> <<entry.value>>
         [] OTHER -> <<>>

Or(n, default) == IF n = Absent THEN default ELSE n

\* TokenizerSpec::from_metadata.  The arrays' contents are file.vocab.
TokenizerAdmitted(file) ==
    LET Entry(key) == get_metadata(file, <<"tokenizer", key>>)
        Flag(key, default) == optional_bool(file, <<"tokenizer", key>>, default)
        Array(key, type) == Entry(key).type = "array" /\ Entry(key).value = type IN
    /\ Entry("model").type = "string" /\ Entry("model").value = "llama"
    /\ \/ Entry("pre").type = "none"
       \/ Entry("pre").type = "string" /\ Entry("pre").value \in {"default", "llama"}
    /\ \A key \in {"remove_extra_whitespaces", "clean_spaces"} : Flag(key, FALSE) = <<FALSE>>
    /\ Entry("precompiled_charsmap").type = "none"
    /\ Array("tokens", "string") /\ Array("scores", "f32") /\ Array("token_type", "i32")
    /\ \A key \in {"bos_token_id", "eos_token_id", "unknown_token_id"} : Entry(key).type = "u32"
    /\ \A key \in {"add_bos_token", "add_eos_token", "add_space_prefix"} : Flag(key, TRUE) /= <<>>
    /\ validate(file.vocab)

\* reject_variants: keys are <<"llama", name>>.
Supported ==
    {"embedding_length", "block_count", "attention.head_count", "attention.head_count_kv",
     "feed_forward_length", "context_length", "vocab_size", "rope.dimension_count",
     "rope.freq_base", "attention.layer_norm_rms_epsilon", "attention.key_length",
     "attention.value_length", "expert_count", "expert_used_count", "attention.sliding_window",
     "rope.scaling.type", "rope.scaling.factor", "rope.freq_scale", "attention.causal"}

Llama(name) == <<"llama", name>>

VariantsAdmitted(file) ==
    /\ \A k \in DOMAIN file.metadata :
        LET key == file.metadata[k].key
        IN (Len(key) = 2 /\ Head(key) = "llama") => key[2] \in Supported
    /\ optional_bool(file, Llama("attention.causal"), TRUE) = <<TRUE>>
    /\ \A name \in {"expert_count", "expert_used_count", "attention.sliding_window"} :
        optional_usize(file, Llama(name)) \in {Absent, 0}
    /\ LET scaling == get_metadata(file, Llama("rope.scaling.type"))
       IN scaling.type = "none" \/ (scaling.type = "string" /\ scaling.value = "none")
    /\ \A name \in {"rope.scaling.factor", "rope.freq_scale"} :
        optional_float(file, Llama(name)) \in {Absent, 1}

\* Config::validate.
ConfigAdmitted(c) ==
    /\ 0 \notin {c.width, c.layers, c.heads, c.kvHeads, c.ff, c.context, c.vocab}
    /\ Invalid \notin {c.width, c.layers, c.heads, c.kvHeads, c.ff, c.context, c.vocab,
                       c.rope, c.base, c.epsilon}
    /\ c.width % c.heads = 0 /\ c.heads % c.kvHeads = 0
    /\ (c.width \div c.heads) % 2 = 0
    /\ c.rope = c.width \div c.heads
    /\ c.base > 0 /\ c.epsilon > 0
    /\ c.width * c.vocab <= MaxSize /\ c.width * c.ff <= MaxSize
    /\ c.layers * c.context * c.kvHeads * c.rope * 8 <= MaxSize

HeadDim(c) == c.width \div c.heads
KvWidth(c) == HeadDim(c) * c.kvHeads

\* Model::profile_metadata: the configuration, or NoConfig.
NoConfig == [layers |-> 0]
IsLlama(architecture) == architecture.type = "string" /\ architecture.value = "llama"

ConfigRead(file, width, heads) ==
    LET U(name) == optional_usize(file, Llama(name))
    IN [width |-> width, heads |-> heads,
        layers |-> required_usize(file, Llama("block_count")),
        kvHeads |-> Or(U("attention.head_count_kv"), heads),
        ff |-> required_usize(file, Llama("feed_forward_length")),
        context |-> required_usize(file, Llama("context_length")),
        vocab |-> Or(U("vocab_size"), Len(file.vocab.tokens)),
        rope |-> Or(U("rope.dimension_count"), width \div heads),
        base |-> Or(optional_float(file, Llama("rope.freq_base")), 10000),
        epsilon |-> Or(optional_float(file, Llama("attention.layer_norm_rms_epsilon")), Invalid)]

ConfigChecked(file, c) ==
    IF ConfigAdmitted(c)
       /\ \A name \in {"attention.key_length", "attention.value_length"} :
            optional_usize(file, Llama(name)) \in {Absent, HeadDim(c)}
    THEN c ELSE NoConfig

ProfileOf(file, width, heads) ==
    IF ~IsLlama(get_metadata(file, <<"architecture">>)) \/ ~VariantsAdmitted(file)
       \/ ~TokenizerAdmitted(file) \/ width = Invalid \/ heads \in {Invalid, 0}
    THEN NoConfig ELSE ConfigChecked(file, ConfigRead(file, width, heads))

profile_metadata(file) ==
    ProfileOf(file, required_usize(file, Llama("embedding_length")),
              required_usize(file, Llama("attention.head_count")))

(***************************************************************************)
(* Model::from_tensors: every role of the profile present with its shape,  *)
(* decodable and finite, and no other tensor.                              *)
(***************************************************************************)
Roles(c) ==
    {<<"attn_norm", <<c.width>>>>, <<"attn_q", <<c.width, c.width>>>>,
     <<"attn_k", <<c.width, KvWidth(c)>>>>, <<"attn_v", <<c.width, KvWidth(c)>>>>,
     <<"attn_output", <<c.width, c.width>>>>, <<"ffn_norm", <<c.width>>>>,
     <<"ffn_gate", <<c.width, c.ff>>>>, <<"ffn_up", <<c.width, c.ff>>>>,
     <<"ffn_down", <<c.ff, c.width>>>>}

Required(c, hasOutput) ==
    {<<<<"token_embd">>, <<c.width, c.vocab>>>>, <<<<"output_norm">>, <<c.width>>>>}
    \cup (IF hasOutput THEN {<<<<"output">>, <<c.width, c.vocab>>>>} ELSE {})
    \cup {<<<<"blk", l, r[1]>>, r[2]>> : l \in 0..(c.layers - 1), r \in Roles(c)}

validate_tensor(t) ==
    /\ t.dtype \in Decodable
    /\ LET e == encoding(t.dtype)
           rows == IF Len(t.dims) > 1 THEN t.dims[2] ELSE 1
       IN t.dims[1] % e[1] = 0 /\ t.length = (t.dims[1] \div e[1]) * e[2] * rows
    /\ Infinite \notin ToSet(t.values)

\* A resource list (views of a GGUF, or evaluated terms) admitted as a model.
from_tensors(c, vocab, tensors) ==
    LET names == {tensors[i].name : i \in DOMAIN tensors}
        Find(name) == CHOOSE i \in DOMAIN tensors : tensors[i].name = name
        required == Required(c, <<"output">> \in names) IN
    /\ ConfigAdmitted(c) /\ validate(vocab) /\ Len(vocab.tokens) = c.vocab
    /\ \A i, j \in DOMAIN tensors : tensors[i].name = tensors[j].name => i = j
    /\ \A r \in required :
        /\ r[1] \in names
        /\ tensors[Find(r[1])].dims = r[2] /\ validate_tensor(tensors[Find(r[1])])
    /\ names = {r[1] : r \in required}

\* Model::from_gguf.
NoModel == [ok |-> FALSE]
ModelOf(c, vocab, views) ==
    IF c.layers = 0 \/ (\E k \in DOMAIN views : ~views[k].ok) \/ ~from_tensors(c, vocab, views)
    THEN NoModel
    ELSE [ok |-> TRUE, config |-> c, vocab |-> vocab, tensors |-> views]

from_gguf(file, views) == ModelOf(profile_metadata(file), file.vocab, views)

\* memory_plan and session_with_memory_limit.
memory_plan(model, context) ==
    LET c == model.config
        row == IF c.width > c.ff THEN c.width ELSE c.ff
        parts == {5 * c.width + 2 * KvWidth(c), 3 * c.width + 2 * c.ff, 2 * c.width + c.vocab}
        transient == CHOOSE n \in parts : \A k \in parts : k <= n
    IN [kv |-> c.layers * context * KvWidth(c) * 8, scratch |-> (transient + row) * 4 + context * 8]

SessionAdmitted(model, context, limit) ==
    /\ context \in 1..model.config.context
    /\ memory_plan(model, context).kv + memory_plan(model, context).scratch <= limit

(***************************************************************************)
(* InferenceCompiler: config is its own reading of the metadata, `dims'    *)
(* and `offsets' describe the tensors it knows, `pool' the decoded weights *)
(* and `views' the mapped ones.                                            *)
(***************************************************************************)
get_u32(file, name) ==
    LET entry == get_metadata(file, Llama(name)) IN
    CASE entry.type = "none" -> 0
      [] entry.type \in {"u32", "u64", "i32", "i64"} /\ entry.value >= 0 -> entry.value
      [] OTHER -> Invalid

read_model_config(file) ==
    [ok |-> IsLlama(get_metadata(file, <<"architecture">>)),
     layers |-> get_u32(file, "block_count"), heads |-> get_u32(file, "attention.head_count"),
     width |-> get_u32(file, "embedding_length"), context |-> get_u32(file, "context_length"),
     vocab |-> get_u32(file, "vocab_size")]

\* The key/value heads as from_parser_storage reads them: a width other than
\* 32 bits is ignored and the query heads take its place.
CompilerKvHeads(file, heads) ==
    LET entry == get_metadata(file, Llama("attention.head_count_kv"))
    IN IF entry.type \in {"u32", "i32"} THEN entry.value ELSE heads

\* Vocabulary::from_projection_fixture (zero layers and no scores).
ProjectionVocabulary(file) ==
    /\ get_metadata(file, <<"tokenizer", "model">>).type = "string"
    /\ get_metadata(file, <<"tokenizer", "tokens">>).type = "array"
    /\ get_metadata(file, <<"tokenizer", "tokens">>).value = "string"

VocabularyAdmitted(file, layers) ==
    IF layers = 0 /\ get_metadata(file, <<"tokenizer", "scores">>).type = "none"
    THEN ProjectionVocabulary(file) ELSE TokenizerAdmitted(file)

EpsilonAdmitted(file) ==
    LET entry == get_metadata(file, Llama("attention.layer_norm_rms_epsilon")) IN
    \/ entry.type = "none"
    \/ entry.type = "f32" /\ entry.value /= NonFinite /\ entry.value > 0

\* The epsilon of a model that does not state one.
DefaultEpsilon == 1
EpsilonOf(file) ==
    LET entry == get_metadata(file, Llama("attention.layer_norm_rms_epsilon"))
    IN IF entry.type = "none" THEN DefaultEpsilon ELSE entry.value

IsNorm(name) == Last(name) \in {"attn_norm", "ffn_norm", "output_norm"}
DimsOf(t) == <<t.dims[1], IF Len(t.dims) > 1 THEN t.dims[2] ELSE 1>>

\* The layer weights of a shard worker (VerifiedLayerWeights), or none.
NoShard == [layers |-> <<0, 0>>, tensors |-> <<>>]

\* One tensor after another appended to the pool: [name -> offset] and the pool.
RECURSIVE Pooled(_, _, _)
Pooled(views, pool, offsets) ==
    IF views = <<>> THEN [pool |-> pool, offsets |-> offsets]
    ELSE LET t == Head(views)
         IN Pooled(Tail(views), pool \o t.values,
                   [n \in DOMAIN offsets \cup {t.name} |->
                        IF n = t.name THEN Len(pool) ELSE offsets[n]])

NoOffsets == [n \in {} |-> 0]

LayerRoles == <<"attn_norm", "attn_q", "attn_k", "attn_v", "attn_output",
                "ffn_norm", "ffn_gate", "ffn_up", "ffn_down">>
\* open: the embedding, the layers' tensors in this order, the two output tensors.
LoadOrder(layers) ==
    <<<<"token_embd">>>>
    \o FlattenSeq([l \in 1..layers |-> [r \in DOMAIN LayerRoles |-> <<"blk", l - 1, LayerRoles[r]>>]])
    \o <<<<"output_norm">>, <<"output">>>>

HasTensor(views, name) == \E k \in DOMAIN views : views[k].name = name
TensorOf(views, name) == views[CHOOSE k \in DOMAIN views : views[k].name = name]

\* The checks that do not depend on the storage of the weights.
CompilerAdmitted(file, views, c, kv) ==
    /\ c.ok /\ Invalid \notin {c.layers, c.heads, c.width, c.context, c.vocab}
    /\ 0 \notin {c.heads, c.width, c.context} /\ c.width % c.heads = 0
    /\ c.layers /= 0 => HasTensor(views, <<"output_norm">>) /\ from_gguf(file, views).ok
    /\ VocabularyAdmitted(file, c.layers) /\ EpsilonAdmitted(file)
    /\ kv /= 0 /\ c.heads % kv = 0

NormAdmitted(t, width) ==
    t.dims = <<width>> /\ read_tensor_f32(t) /= Failed /\ Infinite \notin ToSet(t.values)

MappingAdmitted(views, width, tokens) ==
    /\ \A k \in DOMAIN views : IsNorm(views[k].name) => NormAdmitted(views[k], width)
    /\ HasTensor(views, <<"token_embd">>)
    /\ \A k \in DOMAIN views : views[k].name \in {<<"token_embd">>, <<"output">>} =>
            /\ views[k].dims = <<width, tokens>>
            /\ views[k].ok /\ decode_row_f32(views[k], 0) /= Failed

PoolAdmitted(views, width, tokens) ==
    \A k \in DOMAIN views :
        /\ views[k].name = <<"output_norm">> => NormAdmitted(views[k], width)
        /\ views[k].name = <<"output">> =>
                views[k].dims = <<width, tokens>> /\ read_tensor_f32(views[k]) /= Failed

\* The pool: the norms of a mapped model, every tensor that can be read otherwise.
Expanded(views, order) ==
    [i \in DOMAIN order |-> TensorOf(views, order[i])]
Decoded(views, layers) ==
    Expanded(views, SelectSeq(LoadOrder(layers), LAMBDA name :
        HasTensor(views, name) /\ read_tensor_f32(TensorOf(views, name)) /= Failed))

DimsBy(tensors) ==
    [n \in {tensors[i].name : i \in DOMAIN tensors} |-> DimsOf(TensorOf(tensors, n))]

\* The fields that say where the weights are.
Stores(m, pooled) == m @@ [pool |-> pooled.pool, offsets |-> pooled.offsets]

MappedStorage(m, views) ==
    Stores(m @@ [mapped |-> TRUE, views |-> views,
                 dims |-> DimsBy(SelectSeq(views, LAMBDA t : Len(t.dims) <= 2))],
           Pooled(SelectSeq(views, LAMBDA t : IsNorm(t.name)), <<>>, NoOffsets))

PoolStorage(m, tensors) ==
    Stores(m @@ [mapped |-> FALSE, views |-> <<>>, dims |-> DimsBy(tensors)],
           Pooled(tensors, <<>>, NoOffsets))

CompilerOf(file, views, c, kv, mapped) ==
    IF ~CompilerAdmitted(file, views, c, kv)
       \/ (mapped /\ ~MappingAdmitted(views, c.width, Len(file.vocab.tokens)))
       \/ (~mapped /\ ~PoolAdmitted(views, c.width, Len(file.vocab.tokens)))
    THEN NoModel
    ELSE LET m == [ok |-> TRUE, config |-> c, vocab |-> file.vocab, shard |-> NoShard,
                   encodes |-> get_metadata(file, <<"tokenizer", "scores">>).type /= "none",
                   headDim |-> c.width \div c.heads, kvHeads |-> kv, epsilon |-> EpsilonOf(file),
                   base |-> IF c.layers = 0 THEN 10000 ELSE profile_metadata(file).base]
         IN IF mapped THEN MappedStorage(m, views) ELSE PoolStorage(m, Decoded(views, c.layers))

from_parser_storage(file, views, mapped) ==
    CompilerOf(file, views, read_model_config(file),
               CompilerKvHeads(file, get_u32(file, "attention.head_count")), mapped)

(***************************************************************************)
(* prepared_model::load: weights evaluated from BML terms.  `exact' says   *)
(* that every term's F32 evaluation is the term's exact rational target.   *)
(***************************************************************************)
Evaluated(file) ==
    [k \in DOMAIN file.tensors |->
        [ok |-> TRUE, length |-> 4 * Len(file.tensors[k].values), name |-> file.tensors[k].name,
         dims |-> file.tensors[k].dims, dtype |-> "F32", values |-> file.tensors[k].values]]

PreparedOf(file, c, tensors) ==
    IF c.layers = 0
       \/ Len(FlattenSeq([k \in DOMAIN tensors |-> tensors[k].values])) > MaxEvaluatedWeights
       \/ (\E k \in DOMAIN file.tensors : ~file.tensors[k].exact)
       \/ ~from_tensors(c, file.vocab, tensors)
       \/ (\E k \in DOMAIN tensors : Len(tensors[k].dims) \notin 1..2)
    THEN NoModel
    ELSE PoolStorage([ok |-> TRUE,
            config |-> [ok |-> TRUE, layers |-> c.layers, heads |-> c.heads, width |-> c.width,
                        context |-> c.context, vocab |-> c.vocab],
            vocab |-> file.vocab, shard |-> NoShard, encodes |-> TRUE,
            headDim |-> HeadDim(c), kvHeads |-> c.kvHeads, epsilon |-> c.epsilon, base |-> c.base], tensors)

load_prepared(file) == PreparedOf(file, profile_metadata(file), Evaluated(file))

\* from_authenticated_manifest: a shard worker's model has the configuration and
\* the tokenizer of the artifact, and no weights of its own.
from_authenticated_manifest(m) ==
    LET c == m.config IN
    IF ~c.ok \/ 0 \in {c.layers, c.heads, c.width, c.context, m.kvHeads}
       \/ c.width % c.heads /= 0 \/ c.heads % m.kvHeads /= 0
       \/ (\E x \in {m.epsilon, m.base} : x = NonFinite \/ x <= 0)
       \/ ~validate(m.vocab) \/ (c.vocab /= 0 /\ Len(m.vocab.tokens) /= c.vocab)
    THEN NoModel
    ELSE [m EXCEPT !.pool = <<>>, !.offsets = NoOffsets, !.views = <<>>, !.mapped = FALSE,
                   !.dims = [n \in {} |-> <<0, 0>>], !.headDim = c.width \div c.heads]

output_weight_name(m) == IF <<"output">> \in DOMAIN m.dims THEN <<"output">> ELSE <<"token_embd">>
=============================================================================
