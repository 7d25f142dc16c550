--------------------------- MODULE LocalInference ---------------------------
(***************************************************************************)
(* One process that opens a model file and generates text with it, through *)
(* one of the local engines:                                               *)
(*   "session"   Session::prefill and decode (inference/src/model.rs),     *)
(*   "tokens"    TokenStep, the token evaluator of a compiled executable,  *)
(*   "mapped", "pool"   InferenceCompiler::forward_cached on the mapping   *)
(*               or on the expanded weights (gguf_compiler.rs),            *)
(*   "bml"       the same with RPN projections (cli/src/bml_inference.rs), *)
(*   "symbolic"  SymbolicCausalModel with programs compiled on demand,     *)
(*   "artifact"  the same with the stored programs of a compiled context,  *)
(*   "prepared"  the same on weights evaluated from BML terms,             *)
(*   "shards"    one shard worker per layer, and a coordinator, with the   *)
(*               programs of the bounded profile.                          *)
(* The client is a library user, who may repeat a failed call or reset the *)
(* session, `driver' (bml-model, inference/src/driver.rs) or `cli'         *)
(* (cli/src/main.rs), which end at the first failure, or `text', which     *)
(* only uses the tokenizer.                                                *)
(*                                                                         *)
(* A number may leave the finite range at any point of a layer and at the  *)
(* logits: the call fails, after `stored' key/value heads of the row have  *)
(* been written.  Every other failure of a started call sets `broken'.     *)
(*                                                                         *)
(* A scenario's `plan' is what an artifact was compiled with: a profile, a *)
(* context and a limit of programs.  A call of "shards" is committed as a  *)
(* whole: the per-token commits of the ranges, and what their failure does *)
(* to the pipeline, are in SymbolicPipeline.                               *)
(***************************************************************************)
EXTENDS CausalEngines

CONSTANTS Files,            \* the files, a sequence
          Scenarios,        \* [file, engine, client, context, plan, prompt, predict, greedy]
          Calls,            \* the token sequences a library user may pass
          Drawn,            \* the tokens sampling at a positive temperature may pick
          MemoryLimit,      \* the numerical bytes a session may take
          Letters, MaxText, \* the texts of the `text' client
          MaxCalls, MaxFailures

ASSUME BoundsAssumption ==
    {MemoryLimit, MaxText, MaxCalls, MaxFailures} \subseteq Nat

VARIABLES scenario, file, model, phase, position, kv, call, said, answer, tokens, text,
          calls, failures, broken

vars == <<scenario, file, model, phase, position, kv, call, said, answer, tokens, text,
          calls, failures, broken>>

Native == {"session", "tokens"}
Compiled == {"mapped", "pool", "bml"}
StoredPrograms == {"artifact", "shards"} \* engines that run stored programs
Engines == Native \cup Compiled \cup StoredPrograms \cup {"symbolic", "prepared"}

(***************************************************************************)
(* Opening.  A symbolic model carries the programs it may run (`kernels')  *)
(* and the context they were compiled for, 0 when they are made on demand. *)
(***************************************************************************)
Symbolic(m, kernels, context) ==
    IF ~m.ok THEN NoModel
    ELSE [ok |-> TRUE, m |-> m, workers |-> <<>>, kernels |-> kernels, context |-> context]

\* The worker of layer l holds that layer's tensors and nothing else.
Worker(m, l) ==
    [from_authenticated_manifest(m) EXCEPT !.shard = [layers |-> <<l, l + 1>>,
        tensors |-> SelectSeq(m.views, LAMBDA t : Len(t.name) = 3 /\ t.name[2] = l)]]

\* An artifact compiled from m.  Its tokenizer is complete, and its plan within
\* the limits.
ArtifactOf(m, plan) ==
    LET profile == Profile(plan.profile) IN
    IF ~m.encodes \/ ~PlanAdmitted(m, plan.context, plan.limit, profile) THEN NoModel
    ELSE Symbolic(m, required_kernels(m, plan.context, profile), plan.context)

\* Workers without the source only take the bounded profile.
Sharded(m, plan) ==
    IF ~ArtifactOf(m, plan).ok \/ ~Profile(plan.profile).bounded \/ ~from_authenticated_manifest(m).ok
    THEN NoModel
    ELSE [ArtifactOf(m, plan) EXCEPT !.workers = [l \in 1..m.config.layers |-> Worker(m, l - 1)]]

\* An engine on the mapped InferenceCompiler m.
OnMapping(engine, m) ==
    IF ~m.ok THEN NoModel
    ELSE CASE engine \in {"mapped", "bml"} -> m
           [] engine = "symbolic" -> Symbolic(m, {}, 0)
           [] engine = "artifact" -> ArtifactOf(m, scenario.plan)
           [] engine = "shards" -> Sharded(m, scenario.plan)

OnViews(engine, views) ==
    CASE engine \in Native -> from_gguf(file, views)
      \* The conversion to BML terms decoded every tensor.
      [] engine = "prepared" ->
            IF \A k \in DOMAIN views : read_tensor_f32(views[k]) /= Failed
            THEN Symbolic(load_prepared(file), {}, 0) ELSE NoModel
      [] engine = "pool" -> from_parser_storage(file, views, FALSE)
      [] OTHER -> OnMapping(engine, from_parser_storage(file, views, TRUE))

OpenModel(engine, reader) ==
    IF reader.ok THEN OnViews(engine, Views(file, reader)) ELSE NoModel

Engine == scenario.engine
Library == scenario.client = "library"
\* The InferenceCompiler of an engine that has one.
Comp == IF Engine \in Compiled THEN model ELSE model.m
Layers == IF Engine \in Native THEN model.config.layers ELSE Comp.config.layers
Vocab == IF Engine \in Native THEN model.vocab ELSE Comp.vocab
ContextLength == IF Engine \in Native THEN model.config.context ELSE Comp.config.context
\* context_limit of a symbolic model.
ContextLimit ==
    IF Engine \in Native \cup Compiled \/ model.context = 0 THEN ContextLength ELSE model.context

\* The capacity of the session or cache a client asks for.
Capacity == IF scenario.client = "cli" THEN Least(scenario.context, ContextLimit)
            ELSE scenario.context

\* session_with_memory_limit, or HashConsedKV::try_new.
SessionCreated ==
    IF Engine \in Native THEN SessionAdmitted(model, Capacity, MemoryLimit) ELSE Capacity > 0

Rows(width) == [l \in 0..(Layers - 1) |-> [i \in 1..(Capacity * width) |-> 0]]
EmptyCache ==
    IF Engine \in Native
    THEN [k |-> Rows(KvWidth(model.config)), v |-> Rows(KvWidth(model.config))]
    ELSE LET stride == Comp.kvHeads * Comp.headDim
         IN [k |-> Rows(stride), v |-> Rows(stride), capacity |-> Capacity, stride |-> stride,
             headDim |-> Comp.headDim]

NoKv == [k |-> <<>>, v |-> <<>>]
NoCall == [ids |-> <<>>, at |-> 0, layer |-> 0, hidden |-> <<>>, start |-> 0]

Init ==
    /\ scenario \in Scenarios /\ file = Files[scenario.file] /\ model = NoModel
    /\ phase = "closed" /\ position = 0 /\ kv = NoKv /\ call = NoCall
    /\ said = <<>> /\ answer = <<>> /\ tokens = <<>> /\ text = <<>>
    /\ calls = 0 /\ failures = 0 /\ broken = FALSE

Open ==
    /\ phase = "closed"
    /\ UNCHANGED <<scenario, file, position, call, said, answer, tokens, text, calls, failures, broken>>
    /\ model' = OpenModel(Engine, open_gguf(file))
    /\ IF model'.ok /\ SessionCreated'
       THEN phase' = "ready" /\ kv' = EmptyCache'
       ELSE phase' = "ended" /\ UNCHANGED kv

(***************************************************************************)
(* One call: token after token, layer after layer.                         *)
(***************************************************************************)
Known(ids) == \A i \in DOMAIN ids : ids[i] < Len(Vocab.tokens)

\* The checks of prefill, validate_causal_input and SymbolicCausalModel::
\* forward_cached, before any change; begin_token checks one token.
CallAdmitted(ids) ==
    /\ ids /= <<>>
    /\ IF Engine = "tokens" THEN position < Capacity /\ Known(<<Head(ids)>>)
       ELSE /\ Known(ids)
            /\ position + Len(ids) <= Least(Capacity, Least(ContextLength, ContextLimit))

Embedding(id) ==
    IF Engine \in Native THEN embed_token(model, id) ELSE get_embedding(Comp, id)

\* The position the current token is written at.
Pos == IF Engine \in Native THEN position ELSE position + call.at - 1

\* ensure_kernel: a stored program that is missing is not recompiled.
ProgramsStored(kernels) == Engine \in StoredPrograms => kernels \subseteq model.kernels

ProjectsBy == IF Engine = "bml" THEN "rpn" ELSE "native"

RunLayer(stored) ==
    LET l == call.layer IN
    CASE Engine \in Native -> SessionLayer(model, kv, call.hidden, Pos, l, stored)
      [] Engine \in Compiled -> CompilerLayer(Comp, kv, call.hidden, Pos, l, stored, ProjectsBy)
      [] OTHER ->
            LET m == IF Engine = "shards" THEN model.workers[l + 1] ELSE Comp
            IN IF ProgramsStored(TokenKernels(m, Pos, Profile(scenario.plan.profile)))
               THEN SymbolicLayerStep(m, kv, call.hidden, Pos, l, stored)
               ELSE [kv |-> kv, hidden |-> Failed]

Logits(hidden) ==
    CASE Engine \in Native -> final_logits(model, hidden)
      [] Engine \in Compiled -> compute_logits(Comp, hidden, ProjectsBy)
      [] OTHER -> IF ProgramsStored(OutputKernels(Comp)) THEN project_output(Comp, hidden) ELSE Failed

\* A started call begins with its first token.
Begin(ids) ==
    /\ phase' = "running" /\ answer' = <<>>
    /\ call' = [ids |-> ids, at |-> 1, layer |-> 0, hidden |-> Embedding(Head(ids)),
                start |-> position]
    /\ broken' = (broken \/ Embedding(Head(ids)) = Failed)

\* A prefill that forgets to go back (a mutant).
RestoredNever == position

\* Where a failed call leaves the committed position: prefill goes back to where
\* it began, the others have committed nothing (TokenStep: the tokens finished).
Restored == IF Engine = "session" THEN call.start ELSE position

FailCall ==
    /\ position' = Restored
    /\ call' = NoCall /\ answer' = <<>>
    /\ phase' = IF Library THEN "ready" ELSE "ended"

HeadsOf == IF Engine \in Native THEN model.config.kvHeads ELSE Comp.kvHeads

LayerEnds(result) ==
    /\ kv' = result.kv
    /\ IF result.hidden = Failed
       THEN FailCall /\ broken' = TRUE
       ELSE /\ call' = [call EXCEPT !.layer = @ + 1, !.hidden = result.hidden]
            /\ UNCHANGED <<phase, position, answer, broken>>

Layer ==
    /\ phase = "running" /\ call.layer < Layers
    /\ LayerEnds(RunLayer(HeadsOf))
    /\ UNCHANGED <<scenario, file, model, said, tokens, text, calls, failures>>

\* A number of the layer leaves the finite range after `stored' heads.
LayerFails(stored) ==
    /\ phase = "running" /\ call.layer < Layers /\ failures < MaxFailures
    /\ stored \in 0..HeadsOf
    /\ kv' = RunLayer(stored).kv
    /\ failures' = failures + 1
    /\ FailCall
    /\ UNCHANGED <<scenario, file, model, said, tokens, text, calls, broken>>

AtLastToken == call.at = Len(call.ids)

\* The next token of the call: begin_token checks it again.
NextToken(at) ==
    LET id == call.ids[call.at + 1] IN
    IF Engine = "tokens" /\ ~(at < Capacity /\ Known(<<id>>))
    THEN /\ phase' = (IF Library THEN "ready" ELSE "ended")
         /\ call' = NoCall /\ UNCHANGED broken
    ELSE /\ call' = [call EXCEPT !.at = @ + 1, !.layer = 0, !.hidden = Embedding(id)]
         /\ broken' = (broken \/ Embedding(id) = Failed)
         /\ UNCHANGED phase

\* Between two tokens of a call: nothing for the engines that only want the
\* logits of the last one.
TokenEnds ==
    /\ phase = "running" /\ call.layer = Layers /\ ~AtLastToken /\ Engine \notin Native
    /\ NextToken(0)
    /\ UNCHANGED <<scenario, file, model, position, kv, said, answer, tokens, text, calls, failures>>

\* TokenStep::finish commits one token; forward_cached commits the whole call.
Finish ==
    /\ phase = "running" /\ call.layer = Layers /\ (AtLastToken \/ Engine \in Native)
    /\ LET logits == Logits(call.hidden) IN
       IF logits = Failed THEN FailCall /\ broken' = TRUE /\ UNCHANGED said
       ELSE /\ position' = position + (IF Engine \in Native THEN 1 ELSE Len(call.ids))
            /\ said' = CASE Engine = "tokens" -> Append(said, call.ids[call.at])
                         [] Engine /= "tokens" /\ AtLastToken -> said \o call.ids
                         [] OTHER -> said
            /\ IF AtLastToken
               THEN /\ answer' = logits /\ call' = NoCall
                    /\ phase' = IF Library THEN "ready" ELSE "answered"
                    /\ UNCHANGED broken
               ELSE NextToken(position + 1) /\ UNCHANGED answer
    /\ UNCHANGED <<scenario, file, model, kv, tokens, text, calls, failures>>

FinishFails ==
    /\ phase = "running" /\ call.layer = Layers /\ (AtLastToken \/ Engine \in Native)
    /\ failures < MaxFailures
    /\ failures' = failures + 1
    /\ FailCall
    /\ UNCHANGED <<scenario, file, model, kv, said, tokens, text, calls, broken>>

(***************************************************************************)
(* A library user: any call, a refused one included, and resets.           *)
(***************************************************************************)
LibraryCall(ids) ==
    /\ Library /\ phase = "ready" /\ calls < MaxCalls
    /\ calls' = calls + 1
    /\ IF CallAdmitted(ids) THEN Begin(ids) ELSE answer' = <<>> /\ UNCHANGED <<phase, call, broken>>
    /\ UNCHANGED <<scenario, file, model, position, kv, said, tokens, text, failures>>

Reset ==
    /\ Library /\ phase = "ready" /\ calls < MaxCalls /\ Engine \in Native
    /\ calls' = calls + 1
    /\ position' = 0 /\ said' = <<>> /\ answer' = <<>>
    /\ UNCHANGED <<scenario, file, model, phase, kv, call, tokens, text, failures, broken>>

(***************************************************************************)
(* execute of the driver and the loops of the command line.                *)
(***************************************************************************)
Generates == scenario.client \in {"driver", "cli"}
PromptIds == encode(Vocab, scenario.prompt, TRUE)
Encodes == Engine \in Native \/ Comp.encodes

Prompt ==
    /\ Generates /\ phase = "ready"
    /\ IF /\ Encodes /\ PromptIds /= <<>>
          /\ scenario.client = "driver" => Len(PromptIds) + scenario.predict <= scenario.context
          /\ CallAdmitted(PromptIds)
       THEN Begin(PromptIds)
       ELSE phase' = "ended" /\ UNCHANGED <<call, answer, broken>>
    /\ UNCHANGED <<scenario, file, model, position, kv, said, tokens, text, calls, failures>>

\* argmax: the first of the largest.
Argmax(logits) ==
    (CHOOSE i \in DOMAIN logits :
        \A j \in DOMAIN logits : logits[j] < logits[i] \/ (logits[j] = logits[i] /\ i <= j)) - 1

\* The driver stops after the token it decoded was the end of the sequence; the
\* command line stops when the context is full, before it samples.
Stops ==
    \/ Len(tokens) = scenario.predict
    \/ scenario.client = "driver" /\ tokens /= <<>> /\ Last(tokens) = Vocab.eos
    \/ scenario.client = "cli" /\ Len(PromptIds) + Len(tokens) >= Capacity

Sample(id) ==
    /\ phase = "answered" /\ ~Stops
    /\ IF scenario.greedy THEN id = Argmax(answer) ELSE id \in Drawn
    /\ tokens' = Append(tokens, id)
    /\ phase' = "sampled"
    /\ UNCHANGED <<scenario, file, model, position, kv, call, said, answer, text, calls, failures, broken>>

Stop ==
    /\ phase = "answered" /\ Stops
    /\ phase' = "ended"
    /\ UNCHANGED <<scenario, file, model, position, kv, call, said, answer, tokens, text, calls, failures, broken>>

\* The sampled token is evaluated, unless the loop will not need its logits.
Evaluates ==
    \/ scenario.client = "driver"
    \/ /\ Last(tokens) /= Vocab.eos /\ Len(tokens) < scenario.predict
       /\ Len(PromptIds) + Len(tokens) < Capacity

Continue ==
    /\ phase = "sampled"
    /\ IF ~Evaluates THEN phase' = "ended" /\ UNCHANGED <<call, answer, broken>>
       ELSE IF CallAdmitted(<<Last(tokens)>>) THEN Begin(<<Last(tokens)>>)
       ELSE phase' = "ended" /\ broken' = TRUE /\ UNCHANGED <<call, answer>>
    /\ UNCHANGED <<scenario, file, model, position, kv, said, tokens, text, calls, failures>>

(***************************************************************************)
(* The client that only encodes and decodes.                               *)
(***************************************************************************)
Type(c) ==
    /\ scenario.client = "text" /\ phase = "ready" /\ Len(text) < MaxText
    /\ text' = Append(text, c)
    /\ UNCHANGED <<scenario, file, model, phase, position, kv, call, said, answer, tokens, calls, failures, broken>>

Next ==
    \/ Open \/ Layer \/ TokenEnds \/ Finish \/ FinishFails
    \/ \E stored \in 0..2 : LayerFails(stored)
    \/ \E ids \in Calls : LibraryCall(ids)
    \/ Reset \/ Prompt \/ Stop \/ Continue
    \/ \E id \in 0..(Len(file.vocab.tokens) - 1) : Sample(id)
    \/ \E c \in Letters : Type(c)

Spec == Init /\ [][Next]_vars
-----------------------------------------------------------------------------
(***************************************************************************)
(* Properties.                                                             *)
(***************************************************************************)
\* What the file says, for the reference computation.
Facts ==
    LET U(name) == optional_usize(file, Llama(name))
    IN [width |-> U("embedding_length"), heads |-> U("attention.head_count"),
        kvHeads |-> Or(U("attention.head_count_kv"), U("attention.head_count")),
        layers |-> U("block_count")]

\* Encoding with the heap of candidates gives the pieces that repeated joining of
\* the best neighbours gives (the heap's stale candidates are told apart), and
\* decoding gives back the bytes of the text, whatever mixture of user-defined
\* tokens, byte fallback and added spaces it takes (tokenizer.rs, merge and
\* decode_bytes).
TextRoundTrips ==
    (scenario.client = "text" /\ phase = "ready") =>
        LET spec == file.vocab
            parts == partition(spec, text) IN
        /\ \A k \in DOMAIN parts : parts[k].special = NoId =>
                merge(spec, Normalized(spec, parts, k)) = ReferenceMerge(spec, Normalized(spec, parts, k))
        /\ \A special \in BOOLEAN :
                LET ids == encode(spec, text, special) IN
                /\ InVocabulary(spec, ids)
                /\ decode_bytes(spec, ids, special) = ReferenceBytes(spec, text, special)

\* The width of head_count_kv: the compiler only reads 32-bit integers, and takes
\* the number of query heads for any other.
Misread ==
    LET entry == get_metadata(file, Llama("attention.head_count_kv"))
    IN entry.type \notin {"none", "u32", "i32"} /\ entry.value /= Facts.heads

\* A projection fixture: no layers, and in a pool no embedding either, of which
\* the loader says that it is for projections only.
ProjectionOnly == Engine = "pool" /\ Layers = 0 /\ find_tensor(file, <<"token_embd">>) = 0

\* A model that was admitted is run to the end by every engine: no projection
\* meets a matrix of another shape, no tensor and no stored program is missing,
\* no slice is out of range and no generation loop asks for more context than it
\* was given (Model::from_tensors, from_parser_storage, required_kernels against
\* what the forward passes use).  Two admitted files are the exception: one whose
\* head_count_kv is misread, which the engines that cut the declared heads out of
\* k and v (the symbolic ones on the mapping) do not survive, and a file without
\* layers and without an embedding, which the pool loader keeps for projections.
AdmittedModelRuns ==
    broken => \/ Engine \in {"symbolic", "artifact", "shards"} /\ Misread
              \/ ProjectionOnly

\* What the requirements say of grouped queries: the key/value heads are shared
\* as head_count_kv declares, and incompatible dimensions are refused, so a model
\* with attention layers that declares a number of its own is refused when it is
\* opened, or runs; no call is started on it that can only fail
\* (from_parser_storage, head_count_kv).
DeclaredGroupingRuns ==
    LET declared == get_metadata(file, Llama("attention.head_count_kv"))
    IN Facts.layers > 0 /\ declared.type /= "none" /\ declared.value /= Facts.heads => ~broken

\* The logits a call returns are those of the tokens the client has had accepted,
\* in order, whatever failed in between: a failed call commits nothing, its rows
\* are overwritten before they are attended to, a reset forgets, and the engines
\* compute the same function.  A generated token is drawn from the logits of the
\* prompt and the tokens before it, and the text never outgrows its context.
AnswersAreOfThePrefix ==
    /\ phase /= "running" => position = Len(said)
    /\ answer /= <<>> => answer = ReferenceLogits(file, Facts, said)
    /\ phase = "sampled" =>
        /\ said = PromptIds \o Front(tokens)
        /\ Len(PromptIds) + Len(tokens) <= Capacity
=============================================================================
