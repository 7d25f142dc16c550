------------------------------- MODULE ApiServer -------------------------------
(***************************************************************************)
(* bml-server (crates/api/src/main.rs) over the request batcher of         *)
(* crates/runtime/src/scheduler/requests.rs and the RemotePipeline.        *)
(* HTTP handlers admit requests to a bounded channel without blocking; one *)
(* scheduler thread collects batches, assigns each to the next replica and *)
(* executes its requests one after another, streaming pieces of text       *)
(* through a bounded channel per request.                                  *)
(*                                                                         *)
(* Text is abstracted to numbered pieces: a sampled token completes a      *)
(* piece or leaves bytes of an incomplete UTF-8 sequence held back.        *)
(* /health only reads.                                                     *)
(***************************************************************************)
EXTENDS RemotePipeline, FiniteSets, SequencesExt

CONSTANTS Requests,
          Capacity,    \* queue_capacity of the batcher
          MaxBatch,    \* max_batch_size
          StreamCap,   \* capacity of an event channel
          Prompt,      \* tokens of a prompt
          MaxTokens,   \* tokens to generate
          Backends     \* a subset of {"local", "remote"}

ASSUME LimitsAssumption ==
    /\ Capacity \in Nat \ {0} /\ MaxBatch \in Nat \ {0} /\ StreamCap \in Nat \ {0}
    /\ Prompt \in Nat \ {0} /\ MaxTokens \in Nat
ASSUME BackendsAssumption == Backends \subseteq {"local", "remote"}

VARIABLES backend,   \* ModelBackend of this server
          http,      \* completions: each request's handler and its client
          queue,     \* the batcher's channel
          pending,   \* pending_requests
          sched,     \* the scheduler thread
          gen        \* the generation it is running

front == <<backend, http, queue, pending>>
vars  == <<remoteVars, front, sched, gen>>

None == "none"
Piece(n) == [kind |-> "piece", n |-> n]
Event(kind) == [kind |-> kind, n |-> 0]

\* st: "new", "counted", "waiting", "streaming", "ended", or "left": the client hung up.
\* chan is the event channel, got what the client received, and (history) text
\* the number of pieces generated.
NewRequest == [st |-> "new", stream |-> FALSE, answer |-> None,
               chan |-> <<>>, got |-> <<>>, text |-> 0]

NoGeneration == [left |-> 0, made |-> 0, held |-> FALSE, result |-> None]

Init ==
    /\ RemoteInit
    /\ backend \in Backends
    /\ http = [r \in Requests |-> NewRequest]
    /\ queue = <<>>
    /\ pending = 0
    /\ sched = [pc |-> "recv", batch |-> <<>>, next |-> 0]
    /\ gen = NoGeneration

Job    == Head(sched.batch)
Executing(r) == sched.batch # <<>> /\ Job = r
Gone   == http[Job].st = "left"
Stream == http[Job].stream

-----------------------------------------------------------------------------
(* completions *)

Ended(r, answer) == http' = [http EXCEPT ![r].st = "ended", ![r].answer = answer]

\* A temperature that is not finite and nonnegative.
BadRequest(r) ==
    /\ http[r].st = "new"
    /\ Ended(r, "400")
    /\ UNCHANGED <<remoteVars, backend, queue, pending, sched, gen>>

\* The request is counted, and its guard follows it from here on.
Admit(r, stream) ==
    /\ http[r].st = "new"
    /\ http' = [http EXCEPT ![r].st = "counted", ![r].stream = stream]
    /\ pending' = pending + 1
    /\ UNCHANGED <<remoteVars, backend, queue, sched, gen>>

\* try_submit; a refusal hands the request back and its guard is dropped.
TrySubmit(r) ==
    /\ http[r].st = "counted"
    /\ \/ /\ sched.pc # "dead" /\ Len(queue) < Capacity
          /\ http' = [http EXCEPT ![r].st = "waiting"]
          /\ queue' = Append(queue, r)
          /\ UNCHANGED pending
       \/ /\ sched.pc = "dead" \/ Len(queue) = Capacity
          /\ Ended(r, IF sched.pc = "dead" THEN "503" ELSE "429")
          /\ pending' = pending - 1
          /\ UNCHANGED queue
    /\ UNCHANGED <<remoteVars, backend, sched, gen>>

\* The client disconnects: the handler's future or the event stream is dropped.
Leave(r) ==
    /\ http[r].st \in {"waiting", "streaming"}
    /\ http' = [http EXCEPT ![r].st = "left", ![r].chan = <<>>]
    /\ UNCHANGED <<remoteVars, backend, queue, pending, sched, gen>>

ReadEvent(r) ==
    /\ http[r].st = "streaming"
    /\ http[r].chan # <<>>
    /\ http' = [http EXCEPT ![r].chan = Tail(@), ![r].got = Append(@, Head(http[r].chan))]
    /\ UNCHANGED <<remoteVars, backend, queue, pending, sched, gen>>

\* The sender is dropped and the channel drained: the response body ends.
StreamEnds(r) ==
    /\ http[r].st = "streaming"
    /\ http[r].chan = <<>>
    /\ ~Executing(r)
    /\ Ended(r, "200")
    /\ UNCHANGED <<remoteVars, backend, queue, pending, sched, gen>>

-----------------------------------------------------------------------------
(* next_batch *)

\* Wait for the first request.
Receive ==
    /\ sched.pc = "recv"
    /\ queue # <<>>
    /\ sched' = [sched EXCEPT !.pc = "collect", !.batch = <<Head(queue)>>]
    /\ queue' = Tail(queue)
    /\ UNCHANGED <<remoteVars, backend, http, pending, gen>>

CollectMore ==
    /\ sched.pc = "collect"
    /\ Len(sched.batch) < MaxBatch
    /\ queue # <<>>
    /\ sched' = [sched EXCEPT !.batch = Append(@, Head(queue))]
    /\ queue' = Tail(queue)
    /\ UNCHANGED <<remoteVars, backend, http, pending, gen>>

\* The batch is full or the window expired: assign the next replica.  A local
\* backend has one node.
BatchReady ==
    /\ sched.pc = "collect"
    /\ sched' = [sched EXCEPT !.pc = "dispatch",
                              !.next = IF backend = "local" \/ @ = NNodes - 1 THEN 0
                                       ELSE @ + 1]
    /\ pl' = [pl EXCEPT !.node = sched.next]
    /\ UNCHANGED <<link, stale, front, gen>>

-----------------------------------------------------------------------------
(* start_scheduler: the requests of a batch *)

BatchDone ==
    /\ sched.pc = "dispatch"
    /\ sched.batch = <<>>
    /\ sched' = [sched EXCEPT !.pc = "recv"]
    /\ UNCHANGED <<remoteVars, front, gen>>

\* The request is dropped, and its guard with it.
DropJob ==
    /\ sched' = [sched EXCEPT !.pc = "dispatch", !.batch = Tail(@)]
    /\ pending' = pending - 1
    /\ gen' = NoGeneration

\* A plausible bug: the count of a cancelled request is not released.
SkipUncounted ==
    /\ sched.pc = "dispatch"
    /\ sched.batch # <<>>
    /\ Gone
    /\ sched' = [sched EXCEPT !.batch = Tail(@)]
    /\ UNCHANGED <<remoteVars, front, gen>>

\* Nobody waits for the answer any more (is_closed).
Skip ==
    /\ sched.pc = "dispatch"
    /\ sched.batch # <<>>
    /\ Gone
    /\ DropJob
    /\ UNCHANGED <<remoteVars, backend, http, queue>>

\* execute_request: a stream's response is sent before anything is generated.
Execute ==
    /\ sched.pc = "dispatch"
    /\ sched.batch # <<>>
    /\ ~Gone
    /\ sched' = [sched EXCEPT !.pc = IF Stream THEN "respond" ELSE "generate"]
    /\ UNCHANGED <<remoteVars, front, gen>>

Respond ==
    /\ sched.pc = "respond"
    /\ IF Gone THEN DropJob /\ UNCHANGED http
       ELSE /\ http' = [http EXCEPT ![Job].st = "streaming"]
            /\ sched' = [sched EXCEPT !.pc = "generate"]
            /\ UNCHANGED <<pending, gen>>
    /\ UNCHANGED <<remoteVars, backend, queue>>

-----------------------------------------------------------------------------
(* generate_remote and generate_local *)

Goto(pc)      == sched' = [sched EXCEPT !.pc = pc]
Results(res)  == Goto("finish") /\ gen' = [NoGeneration EXCEPT !.result = res]

\* Encode and check the prompt; nothing to generate ends at once.
Begin ==
    /\ sched.pc = "generate"
    /\ \/ Results("error") /\ UNCHANGED pl
       \/ MaxTokens = 0 /\ Results("ok") /\ UNCHANGED pl
       \/ /\ MaxTokens > 0
          /\ Goto("run")
          /\ gen' = [NoGeneration EXCEPT !.left = IF backend = "local" THEN 1 ELSE Prompt]
          /\ pl' = [NoPipeline EXCEPT !.node = pl.node,
                                      !.op = IF backend = "local" THEN "head" ELSE "connect"]
    /\ UNCHANGED <<link, stale, front>>

\* A step of the pipeline's connect, decode or close.
PipelineStep ==
    /\ sched.pc = "run"
    /\ \/ Dial \/ Opened \/ SendForward(pl.position + 1) \/ Forwarded
       \/ pl.stage <= NStages /\ (SendClose \/ Closed)
    /\ UNCHANGED <<front, sched, gen>>

PipelineFails ==
    /\ sched.pc = "run"
    /\ Fails
    /\ pl' = [NoPipeline EXCEPT !.node = pl.node]
    /\ Results("error")
    /\ UNCHANGED front

\* The generation returns early; the pipeline is dropped without a Close.
Abandon(res) ==
    /\ DropAll
    /\ pl' = [NoPipeline EXCEPT !.node = pl.node]
    /\ Results(res)

NextForward == [pl EXCEPT !.op = IF backend = "local" THEN "head" ELSE "forward"]

\* Logits of the prompt's next token or of the sampled one, or an error.
Logits ==
    /\ sched.pc = "run"
    /\ pl.op = "head"
    /\ \/ Abandon("error")
       \/ /\ pl' = [(IF gen.left > 1 THEN NextForward ELSE [pl EXCEPT !.op = "sample"])
                      EXCEPT !.position = @ + 1]
          /\ gen' = [gen EXCEPT !.left = IF @ > 0 THEN @ - 1 ELSE 0]
          /\ UNCHANGED <<link, stale, sched>>
    /\ UNCHANGED front

\* After a token: decode it, or stop when enough were made.
Continue == pl' = IF gen'.made < MaxTokens THEN NextForward
                  ELSE [pl EXCEPT !.op = "tail"]

\* Sample a token: unusable logits, end of sequence, bytes to hold back, or a
\* complete piece, which is emitted and may leave bytes behind.
Sample ==
    /\ sched.pc = "run"
    /\ pl.op = "sample"
    /\ \/ Abandon("error") /\ UNCHANGED http
       \/ /\ pl' = [pl EXCEPT !.op = "tail"]
          /\ UNCHANGED <<gen, link, stale, sched, http>>
       \/ /\ gen' = [gen EXCEPT !.made = @ + 1, !.held = TRUE]
          /\ Continue
          /\ UNCHANGED <<link, stale, sched, http>>
       \/ \E held \in BOOLEAN :
          /\ gen' = [gen EXCEPT !.made = @ + 1, !.held = held]
          /\ pl' = [pl EXCEPT !.op = "emit"]
          /\ http' = [http EXCEPT ![Job].text = @ + 1]
          /\ UNCHANGED <<link, stale, sched>>
    /\ UNCHANGED <<backend, queue, pending>>

\* blocking_send waits for room in the channel.
Room == Len(http[Job].chan) < StreamCap

Sent(e) == http' = IF Stream THEN [http EXCEPT ![Job].chan = Append(@, e)] ELSE http

\* A plausible bug: the piece is dropped when the channel is full.
EmitLossy ==
    /\ sched.pc = "run"
    /\ pl.op = "emit"
    /\ ~(Stream /\ Gone)
    /\ IF Stream /\ Room THEN Sent(Piece(http[Job].text)) ELSE UNCHANGED http
    /\ gen' = gen
    /\ Continue
    /\ UNCHANGED <<link, stale, backend, queue, pending, sched>>

\* emit: when the client is gone the generation ends, without an error.
Emit ==
    /\ sched.pc = "run"
    /\ pl.op = "emit"
    /\ \/ Stream /\ Gone /\ Abandon("ok") /\ UNCHANGED http
       \/ /\ ~(Stream /\ Gone)
          /\ Stream => Room
          /\ Sent(Piece(http[Job].text))
          /\ gen' = gen
          /\ Continue
          /\ UNCHANGED <<link, stale, sched>>
    /\ UNCHANGED <<backend, queue, pending>>

\* The bytes held back become the last piece, sent whether or not the client is
\* gone; then the pipeline is closed.  The remote path decodes the whole text
\* again and may fail.
EmitTail ==
    /\ sched.pc = "run"
    /\ pl.op = "tail"
    /\ \/ backend = "remote" /\ Abandon("error") /\ UNCHANGED http
       \/ /\ IF ~gen.held THEN UNCHANGED http
             ELSE /\ Stream /\ ~Gone => Room
                  /\ http' = [http EXCEPT ![Job].text = @ + 1,
                                ![Job].chan = IF Stream /\ ~Gone
                                  THEN Append(@, Piece(http[Job].text + 1)) ELSE @]
          /\ pl' = [pl EXCEPT !.op = "close",
                              !.stage = IF backend = "local" THEN NStages + 1 ELSE 1]
          /\ UNCHANGED <<link, stale, sched, gen>>
    /\ UNCHANGED <<backend, queue, pending>>

GenerationDone ==
    /\ sched.pc = "run"
    /\ pl.op = "close"
    /\ pl.stage > NStages
    /\ Results(IF pl.failed THEN "error" ELSE "ok")
    /\ pl' = [NoPipeline EXCEPT !.node = pl.node]
    /\ UNCHANGED <<link, stale, front>>

-----------------------------------------------------------------------------
(* execute_request: the answer *)

\* A stream gets its finish reason, then [DONE].
FinishStream ==
    /\ sched.pc = "finish"
    /\ Stream
    /\ \/ Gone /\ UNCHANGED http
       \/ ~Gone /\ Room /\ Sent(Event(IF gen.result = "ok" THEN "stop" ELSE "error"))
    /\ Goto("last")
    /\ UNCHANGED <<remoteVars, backend, queue, pending, gen>>

Done ==
    /\ sched.pc = "last"
    /\ \/ Gone /\ UNCHANGED http
       \/ ~Gone /\ Room /\ Sent(Event("done"))
    /\ DropJob
    /\ UNCHANGED <<remoteVars, backend, queue>>

Finish ==
    /\ sched.pc = "finish"
    /\ ~Stream
    /\ IF Gone THEN UNCHANGED http ELSE Ended(Job, gen.result)
    /\ DropJob
    /\ UNCHANGED <<remoteVars, backend, queue>>

\* The scheduler thread unwinds: everything it owns is dropped, the channel is
\* closed with what it holds, and handlers that wait answer 503.
Unwind ==
    /\ sched.pc # "dead"
    /\ LET lost == ToSet(queue) \cup ToSet(sched.batch)
       IN  http' = [r \in Requests |->
                      IF r \in lost /\ http[r].st = "waiting"
                        THEN [http[r] EXCEPT !.st = "ended", !.answer = "503"]
                        ELSE http[r]]
    /\ pending' = pending - Len(queue) - Len(sched.batch)
    /\ queue' = <<>>
    /\ sched' = [sched EXCEPT !.pc = "dead", !.batch = <<>>]
    /\ gen' = NoGeneration
    /\ HangUp(Stages)
    /\ pl' = [NoPipeline EXCEPT !.node = pl.node]
    /\ UNCHANGED backend

-----------------------------------------------------------------------------
Scheduler ==
    \/ Receive \/ CollectMore \/ BatchReady \/ BatchDone
    \/ Skip \/ Execute \/ Respond
    \/ Begin \/ PipelineStep \/ PipelineFails \/ Logits \/ Sample \/ Emit
    \/ EmitTail \/ GenerationDone
    \/ FinishStream \/ Done \/ Finish

Reader(r) == ReadEvent(r) \/ StreamEnds(r)

Next ==
    \/ \E r \in Requests :
         BadRequest(r) \/ (\E b \in BOOLEAN : Admit(r, b)) \/ TrySubmit(r)
           \/ Leave(r) \/ Reader(r)
    \/ Scheduler
    \/ Unwind
    \/ Worker /\ UNCHANGED <<front, sched, gen>>

Spec == Init /\ [][Next]_vars

\* The scheduler's thread runs, each of its socket operations has a timeout, and
\* the readers of streams read on or leave.  Layer workers owe nothing.
FairSpec == Spec /\ WF_vars(Scheduler) /\ \A r \in Requests : WF_vars(Reader(r))

-----------------------------------------------------------------------------
(* Properties *)

\* What a worker's sessions hold agrees with the pipeline that uses them: the
\* rows of its tokens in order, none missing and none twice; a stage leads by at
\* most the token under way and never lags behind a later one; and when logits
\* are computed or a token is sampled every stage has the same rows.
StagesInStep ==
    LET rows(i) == link[i].rows IN
    \A i \in Stages : link[i].ready =>
       /\ rows(i) = [k \in 1..Len(rows(i)) |-> k]
       /\ Len(rows(i)) = pl.position + IF pl.op = "head" THEN 1
            ELSE IF pl.op = "forward" THEN Count(i < pl.stage)
            ELSE IF pl.op = "forwarding" /\ i <= pl.stage
              THEN Count(i < pl.stage \/ link[i].rows # [k \in 1..pl.position |-> k])
            ELSE 0

\* pending_requests counts exactly the requests being admitted, waiting or
\* executed, on every path: refused, cancelled while waiting, cancelled while
\* streaming, finished, or unwound.
PendingExact ==
    pending = Len(queue) + Len(sched.batch)
              + Cardinality({r \in Requests : http[r].st = "counted"})

\* A worker never runs more sessions than its limit, although clients come and
\* go faster than its threads end.
SessionsBounded == \A n \in Nodes, i \in Stages : Running(n, i) <= MaxSessions

\* A client receives the pieces in order and without a gap; "stop" comes after
\* all of them; [DONE] is the last event and follows "stop" or an error.
StreamFaithful ==
    \A r \in Requests :
       LET g == http[r].got IN
       \E n \in 0..Len(g) :     \* the pieces among them
         /\ \A k \in 1..n : g[k] = Piece(k)
         /\ \A k \in n + 1..Len(g) :
              /\ g[k].kind \in {"stop", "error", "done"}
              /\ g[k].kind = "stop" => n = http[r].text
              /\ g[k].kind \in {"stop", "error"} <=> k = n + 1
              /\ g[k].kind = "done" <=> k = n + 2

\* Every admitted request is answered, or its client leaves: as long as readers
\* of streams read on, no worker and no network can stop the server.
RequestsReturn ==
    \A r \in Requests : (http[r].st \in {"waiting", "streaming"})
                           ~> (http[r].st \in {"ended", "left"})
==============================================================================
