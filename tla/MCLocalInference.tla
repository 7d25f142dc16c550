-------------------------- MODULE MCLocalInference --------------------------
(***************************************************************************)
(* Files of a two-layer model of width 4 (two heads of dimension 2, one or *)
(* two key/value heads; one file has one head of dimension 4), a context   *)
(* of 3, and variations that the loaders refuse or must survive.           *)
(***************************************************************************)
EXTENDS LocalInference

MCUtf8 == [c \in {"a", "b", " ", "e'", "U", "<>", Space} |->
            CASE c = "a" -> <<97>> [] c = "b" -> <<98>> [] c = " " -> <<32>>
              [] c = "e'" -> <<195, 169>> [] c = "U" -> <<85>> [] c = "<>" -> <<60>>
              [] OTHER -> <<226, 150, 129>>]
MCLetters == {"a", "b", " ", "e'", "U"}

Token(t, score, kind, byte) ==
    [text |-> t, score |-> score, finite |-> TRUE, kind |-> kind, byte |-> byte]
Normal(t, score) == Token(t, score, "normal", NoByte)
ByteTokens == LET bytes == <<32, 60, 85, 97, 98, 129, 150, 169, 195, 226>>
              IN [i \in DOMAIN bytes |-> Token(<<"<byte>", ToString(bytes[i])>>, 0, "byte", bytes[i])]
Basic == <<Token(<<"<>", "unk">>, 0, "unknown", NoByte), Token(<<"<>", "s">>, 0, "control", NoByte),
           Token(<<"<>", "/s">>, 0, "control", NoByte)>>
Pieces == <<Normal(<<Space>>, 0), Normal(<<"a">>, 0), Normal(<<"a", "b">>, 2), Normal(<<"b", "a">>, 3),
            Normal(<<Space, "a">>, 1), Normal(<<"a", "b", "a">>, 2), Normal(<<"b", "e'">>, 3)>>
Users == <<Token(<<"U">>, 0, "user", NoByte), Token(<<"U", "a">>, 0, "user", NoByte)>>

Vocab1 == [tokens |-> Basic \o Pieces \o ByteTokens, sameLengths |-> TRUE, bos |-> 1, eos |-> 2,
           unk |-> 0, addBos |-> TRUE, addEos |-> FALSE, addSpacePrefix |-> TRUE]
Vocab2 == [Vocab1 EXCEPT !.tokens = Basic \o Users \o Pieces \o ByteTokens,
                         !.addBos = FALSE, !.addEos = TRUE]
Vocab3 == [Vocab2 EXCEPT !.addSpacePrefix = FALSE, !.addEos = FALSE]

Value(seed, i) == (seed * 97 + i * (13 + seed) + 5) % P
T(name, dims, seed) ==
    [name |-> name, dims |-> dims, dtype |-> "F32", offset |-> 0, bytes |-> 10, ok |-> TRUE,
     values |-> [i \in 1..Product(dims) |-> Value(seed, i)], exact |-> TRUE]

\* Offsets one after the other, aligned to 32.
RECURSIVE Laid(_, _)
Laid(ts, offset) ==
    IF ts = <<>> THEN <<>>
    ELSE LET t == Head(ts)
             size == 4 * Len(t.values)
         IN <<[t EXCEPT !.offset = offset]>> \o Laid(Tail(ts), offset + ((size + 31) \div 32) * 32)

Blocks(layers, width, kvWidth, ff) == FlattenSeq([l \in 1..layers |->
    LET B(role, dims, seed) == T(<<"blk", l - 1, role>>, dims, seed + 20 * l)
    IN <<B("attn_q", <<width, width>>, 1), B("attn_k", <<width, kvWidth>>, 2),
         B("attn_v", <<width, kvWidth>>, 3), B("attn_output", <<width, width>>, 4),
         B("attn_norm", <<width>>, 5), B("ffn_norm", <<width>>, 6),
         B("ffn_gate", <<width, ff>>, 7), B("ffn_up", <<width, ff>>, 8),
         B("ffn_down", <<ff, width>>, 9)>>])

E(key, type, value) == [key |-> key, type |-> type, ok |-> TRUE, value |-> value, bytes |-> 10]
L(name, n) == E(Llama(name), "u32", n)
Tok(name, type, value) == E(<<"tokenizer", name>>, type, value)

Metadata(layers, width, heads, kvEntry, ff, vocab) ==
    <<E(<<"architecture">>, "string", "llama"), L("block_count", layers),
      L("embedding_length", width), L("attention.head_count", heads), kvEntry,
      L("feed_forward_length", ff), L("context_length", 3),
      E(Llama("attention.layer_norm_rms_epsilon"), "f32", 1),
      Tok("model", "string", "llama"), Tok("tokens", "array", "string"),
      Tok("scores", "array", "f32"), Tok("token_type", "array", "i32"),
      Tok("bos_token_id", "u32", vocab.bos), Tok("eos_token_id", "u32", vocab.eos),
      Tok("unknown_token_id", "u32", vocab.unk)>>

Sized(f) ==
    LET m == Len(f.metadata)
        n == Len(f.tensors)
        laid == Laid(f.tensors, 0)
        data == ((HeaderBytes + 10 * m + 10 * n + 31) \div 32) * 32
    IN [f EXCEPT !.metadataCount = m, !.tensorCount = n, !.tensors = laid,
                    !.bytes = IF n = 0 THEN data ELSE data + Last(laid).offset + 4 * Len(Last(laid).values)]

Make(metadata, tensors, vocab) ==
    Sized([bytes |-> 0, magic |-> TRUE, version |-> 3, metadataCount |-> 0, tensorCount |-> 0,
           metadata |-> metadata, tensors |-> tensors, vocab |-> vocab])

Ends(width, vocab, output) ==
    <<T(<<"token_embd">>, <<width, Len(vocab.tokens)>>, 61), T(<<"output_norm">>, <<width>>, 62)>>
    \o (IF output THEN <<T(<<"output">>, <<width, Len(vocab.tokens)>>, 63)>> ELSE <<>>)

Model1(layers, width, heads, kvHeads, kvEntry, vocab, output) ==
    Make(Metadata(layers, width, heads, kvEntry, 2, vocab),
         Ends(width, vocab, output) \o Blocks(layers, width, kvHeads * (width \div heads), 2), vocab)
Kv(n) == L("attention.head_count_kv", n)

Tied == Model1(2, 4, 2, 1, Kv(1), Vocab1, FALSE)
Explicit == Model1(2, 4, 2, 2, Kv(2), Vocab2, TRUE)
OneHead == Model1(1, 4, 1, 1, Kv(1), Vocab3, FALSE)
Wide == Model1(2, 4, 2, 1, E(Llama("attention.head_count_kv"), "u64", 1), Vocab1, FALSE)
Fixture == LET m == Model1(0, 4, 2, 1, Kv(1), Vocab1, FALSE)
           IN Sized([m EXCEPT !.metadata = SelectSeq(@, LAMBDA e : e.key /= <<"tokenizer", "scores">>)])

With(f, entry) == Sized([f EXCEPT !.metadata = Append(@, entry)])
Drop(f, name) == Sized([f EXCEPT !.tensors = SelectSeq(@, LAMBDA t : t.name /= name)])
Edit(f, name, new) ==
    Sized([f EXCEPT !.tensors = [k \in DOMAIN @ |-> IF @[k].name = name THEN new ELSE @[k]]])
AttnK == <<"blk", 1, "attn_k">>

NoNorm == Drop(Model1(0, 4, 2, 1, Kv(1), Vocab1, FALSE), <<"output_norm">>)
Bare == Drop(Fixture, <<"token_embd">>)

Refused == <<
    [Tied EXCEPT !.magic = FALSE], [Tied EXCEPT !.version = 4],
    [Tied EXCEPT !.bytes = @ - 1], [Tied EXCEPT !.tensors[2].offset = 8],
    [Tied EXCEPT !.tensorCount = 40], [Tied EXCEPT !.metadata[2].ok = FALSE],
    With(Tied, L("block_count", 2)), With(Tied, E(<<"alignment">>, "u32", 12)),
    With(Tied, L("expert_count", 2)), With(Tied, E(Llama("rope.scaling.type"), "string", "yarn")),
    With(Tied, L("vocab_size", 7)), With(Tied, L("unknown_key", 1)),
    With(Tied, L("attention.key_length", 4)),
    [Tied EXCEPT !.tensors[4].dtype = "Q4_1"], [Tied EXCEPT !.tensors[3].dtype = "Q4_0"],
    [Tied EXCEPT !.vocab.eos = 5], [Tied EXCEPT !.vocab.tokens[4].finite = FALSE],
    Edit(Tied, AttnK, T(AttnK, <<4, 4>>, 3)), Edit(Tied, AttnK, T(AttnK, <<2, 4>>, 3)),
    Edit(Tied, AttnK, [T(AttnK, <<4, 2>>, 3) EXCEPT !.values[3] = Infinite]),
    Drop(Tied, AttnK), Drop(Tied, <<"output_norm">>),
    Sized([Tied EXCEPT !.tensors = Append(@, T(<<"rope_freqs">>, <<2>>, 1))]),
    Sized([Tied EXCEPT !.tensors = Append(@, T(AttnK, <<4, 2>>, 1))])>>

MCFiles == <<Tied, Explicit, OneHead, Wide, Fixture, NoNorm, Bare,
             [Tied EXCEPT !.tensors[5].exact = FALSE]>>
           \o Refused

Plan(profile, context, limit) == [profile |-> profile, context |-> context, limit |-> limit]
S(f, engine, client, context) ==
    [file |-> f, engine |-> engine, client |-> client, context |-> context,
     plan |-> Plan(IF engine = "shards" THEN "v4 down" ELSE "v2", 3, 100),
     prompt |-> <<>>, predict |-> 0, greedy |-> TRUE]
Gen(f, engine, client, context, prompt, predict, greedy) ==
    [S(f, engine, client, context) EXCEPT !.prompt = prompt, !.predict = predict, !.greedy = greedy]
PlannedBy(s, plans) == {[s EXCEPT !.plan = plan] : plan \in plans}

\* Contexts of none, of a part, of all and of more than the file's; 12 programs
\* (19 in the legacy profile) are what the model takes.
Plans ==
    {Plan(p, c, 100) : p \in {"v1", "v2", "v4", "v4 down"}, c \in 0..4}
    \cup {Plan("v2", 3, n) : n \in {2, 11, 12}} \cup {Plan("v1", 3, n) : n \in {5, 18, 19}}

MCScenarios ==
    {S(f, e, "library", 3) : f \in 1..3, e \in Engines}
    \cup {S(4, e, "library", 2) : e \in Engines}
    \cup {S(5, e, "library", 2) : e \in Compiled \cup {"artifact"}}
    \cup {S(6, e, "library", 2) : e \in Compiled \cup {"symbolic", "artifact"}}
    \cup {S(7, e, "library", 2) : e \in Compiled}
    \cup {S(f, e, "library", 2) : f \in 8..Len(MCFiles), e \in {"session", "mapped", "pool", "prepared"}}
    \cup {S(1, e, "library", c) : e \in {"session", "mapped", "artifact"}, c \in {0, 2, 4}}
    \cup UNION {PlannedBy(S(1, e, "library", 3), Plans) : e \in StoredPrograms}
    \cup PlannedBy(Gen(1, "artifact", "cli", 3, <<"a">>, 3, TRUE), {Plan("v2", 2, 100), Plan("v4", 3, 100)})
    \cup {S(f, "session", "text", 1) : f \in 1..3}
    \cup {Gen(f, e, "cli", c, p, 3, g) : f \in {1, 3}, e \in {"mapped", "bml", "symbolic", "artifact"},
            c \in {3, 8}, p \in {<<>>, <<"a">>}, g \in BOOLEAN}
    \cup {Gen(f, e, "driver", c, p, n, TRUE) : f \in {1, 3}, e \in Native,
            c \in {2, 3}, p \in {<<>>, <<"a">>}, n \in {0, 1, 2}}
    \cup {Gen(5, "mapped", "cli", 3, <<"a">>, 1, TRUE)}

MCCalls == {<<>>, <<4>>, <<5>>, <<4, 6>>, <<3, 99>>}
MCDrawn == {2, 4, 7}
=============================================================================
