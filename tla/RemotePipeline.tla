---------------------------- MODULE RemotePipeline ----------------------------
(***************************************************************************)
(* The one-phase layer transport of crates/inference (remote.rs,           *)
(* LayerSession in model.rs, bml-layer-worker): a RemotePipeline dials one *)
(* layer worker per stage, and each token's hidden state goes through all  *)
(* stages with Forward, which the worker commits when it answers.  Every   *)
(* failure discards the whole pipeline.                                    *)
(*                                                                         *)
(* One pipeline exists at a time (ApiServer's scheduler thread owns it).   *)
(* Its connections are link; what it left behind on the workers when it    *)
(* hung up, sockets not yet accepted and session threads not yet finished, *)
(* is counted in stale.  A hidden state is the number of the token it was  *)
(* computed from.  A worker that crashes and restarts shows as its         *)
(* connections ending.  RemotePipeline::reset is used by no program of the *)
(* repository and --once by tests only; neither is modelled.               *)
(***************************************************************************)
EXTENDS Naturals, Sequences

CONSTANTS NNodes,      \* replicas of the layer workers
          NStages,     \* layer ranges of a replica
          MaxSessions  \* sessions a worker serves at once

ASSUME NodesAssumption    == NNodes \in Nat \ {0}
ASSUME StagesAssumption   == NStages \in Nat \ {0}
ASSUME SessionsAssumption == MaxSessions \in Nat \ {0}

VARIABLES link,    \* LayerClient of each stage and the session that serves it
          stale,   \* what earlier pipelines left on each worker
          pl       \* RemotePipeline: its operation, stage and position

remoteVars == <<link, stale, pl>>

Nodes  == 0..(NNodes - 1)
Stages == 1..NStages

Msg(kind, p, t) == [kind |-> kind, position |-> p, token |-> t]
NoMsg == Msg("none", 0, 0)

\* conn: "none", "syn" dialled, "served" by a thread, "gone" closed by the worker.
NoLink == [conn |-> "none", req |-> NoMsg, resp |-> NoMsg, ready |-> FALSE, rows |-> <<>>]

NoPipeline == [op |-> "none", node |-> 0, stage |-> 1, position |-> 0, failed |-> FALSE]

RemoteInit ==
    /\ link = [i \in Stages |-> NoLink]
    /\ stale = [n \in Nodes |-> [i \in Stages |-> [syn |-> 0, run |-> 0]]]
    /\ pl = NoPipeline

Count(b) == IF b THEN 1 ELSE 0

\* Session threads of a worker that have not finished.
Running(n, i) == stale[n][i].run + Count(pl.node = n /\ link[i].conn = "served")

-----------------------------------------------------------------------------
(* bml-layer-worker: the accept loop and serve_layer_connection *)

\* A plausible bug: finished or not, a connection is always served.
AcceptAlways(i) ==
    /\ link[i].conn = "syn"
    /\ link' = [link EXCEPT ![i].conn = "served"]
    /\ UNCHANGED <<stale, pl>>

\* A connection is served by a new thread, or dropped when MaxSessions run.
Accept(i) ==
    /\ link[i].conn = "syn"
    /\ link' = [link EXCEPT ![i].conn =
                  IF Running(pl.node, i) < MaxSessions THEN "served" ELSE "gone"]
    /\ UNCHANGED <<stale, pl>>

\* The same for a connection whose client is gone already.
AcceptStale(n, i) ==
    /\ stale[n][i].syn > 0
    /\ stale' = [stale EXCEPT ![n][i] =
                   [syn |-> @.syn - 1,
                    run |-> @.run + Count(Running(n, i) < MaxSessions)]]
    /\ UNCHANGED <<link, pl>>

\* A thread whose client hung up reads the end of its connection, or times out.
StaleEnds(n, i) ==
    /\ stale[n][i].run > 0
    /\ stale' = [stale EXCEPT ![n][i].run = @ - 1]
    /\ UNCHANGED <<link, pl>>

\* LayerSession::forward: the row counts only when every layer succeeded.
SessionForward(rows, m) ==
    IF m.position # Len(rows) THEN {<<rows, Msg("rejected", 0, 0)>>}
    ELSE {<<Append(rows, m.token), Msg("output", m.position, m.token)>>,
          <<rows, Msg("rejected", 0, 0)>>}

\* Open admits the context and allocates the session, or is refused.
ServeOpen(i) ==
    /\ link[i].req.kind = "open"
    /\ \E ok \in BOOLEAN :
         link' = [link EXCEPT ![i].req = NoMsg, ![i].ready = ok,
                              ![i].resp = Msg(IF ok THEN "ready" ELSE "rejected", 0, 0)]

ServeForward(i) ==
    /\ link[i].req.kind = "forward"
    /\ \E o \in SessionForward(link[i].rows, link[i].req) :
         link' = [link EXCEPT ![i].req = NoMsg, ![i].rows = o[1], ![i].resp = o[2]]

\* Close is acknowledged; the thread ends some time after that (ThreadEnds).
ServeClose(i) ==
    /\ link[i].req.kind = "close"
    /\ link' = [link EXCEPT ![i].req = NoMsg, ![i].ready = FALSE,
                            ![i].resp = Msg("ack", 0, 0)]

Serve(i) ==
    /\ link[i].conn = "served"
    /\ ServeOpen(i) \/ ServeForward(i) \/ ServeClose(i)
    /\ UNCHANGED <<stale, pl>>

\* serve_layer_connection returns: after a refusal or a Close, on a timeout, an
\* I/O error, or because the worker died.  An answer already sent may be lost.
ThreadEnds(i) ==
    /\ link[i].conn = "served"
    /\ \E r \in {link[i].resp, NoMsg} :
         link' = [link EXCEPT ![i].conn = "gone", ![i].req = NoMsg, ![i].resp = r]
    /\ UNCHANGED <<stale, pl>>

-----------------------------------------------------------------------------
(* LayerClient and RemotePipeline *)

\* The sockets of the stages in S are shut down or dropped.
HangUp(S) ==
    /\ link' = [i \in Stages |-> IF i \in S THEN NoLink ELSE link[i]]
    /\ stale' = [stale EXCEPT ![pl.node] =
         [i \in Stages |->
            IF i \in S THEN [syn |-> @[i].syn + Count(link[i].conn = "syn"),
                             run |-> @[i].run + Count(link[i].conn = "served")]
            ELSE @[i]]]

Ask(i, m) == link' = [link EXCEPT ![i].req = IF link[i].conn = "gone" THEN NoMsg ELSE m]

\* A plausible bug: without a socket timeout only a closed connection ends a
\* wait.
BrokenOnly(i) == link[i].conn = "gone" /\ link[i].resp = NoMsg

\* A write fails, the connection ends or the socket's timeout expires.
Broken(i) == link[i].conn # "none"

\* The coordinator waits for an answer from its stage.
Awaiting == pl.op \in {"opening", "forwarding", "closing"}

Answer(i, kind) == Awaiting /\ link[i].resp.kind = kind

\* connect: dial the next stage and send Open.
Dial ==
    /\ pl.op = "connect"
    /\ link' = [link EXCEPT ![pl.stage] =
                  [NoLink EXCEPT !.conn = "syn", !.req = Msg("open", 0, 0)]]
    /\ pl' = [pl EXCEPT !.op = "opening"]
    /\ UNCHANGED stale

\* The workers' ranges must cover the model in order; connect checks each.
Opened ==
    /\ pl.op = "opening"
    /\ Answer(pl.stage, "ready")
    /\ link' = [link EXCEPT ![pl.stage].resp = NoMsg]
    /\ pl' = IF pl.stage < NStages
               THEN [pl EXCEPT !.op = "connect", !.stage = @ + 1]
               ELSE [pl EXCEPT !.op = "forward", !.stage = 1]
    /\ UNCHANGED stale

\* decode: the first stage gets the embedding, each next one the output.
SendForward(t) ==
    /\ pl.op = "forward"
    /\ Ask(pl.stage, Msg("forward", pl.position, t))
    /\ pl' = [pl EXCEPT !.op = "forwarding"]
    /\ UNCHANGED stale

Forwarded ==
    /\ pl.op = "forwarding"
    /\ Answer(pl.stage, "output")
    /\ link[pl.stage].resp.position = pl.position
    /\ link' = [link EXCEPT ![pl.stage].resp = NoMsg]
    /\ pl' = IF pl.stage < NStages
               THEN [pl EXCEPT !.op = "forward", !.stage = @ + 1]
               ELSE [pl EXCEPT !.op = "head", !.stage = 1]
    /\ UNCHANGED stale

\* close visits every stage; a client is dropped with its socket.
SendClose ==
    /\ pl.op = "close"
    /\ Ask(pl.stage, Msg("close", 0, 0))
    /\ pl' = [pl EXCEPT !.op = "closing"]
    /\ UNCHANGED stale

Closed ==
    /\ pl.op = "closing"
    /\ HangUp({pl.stage})
    /\ \/ Answer(pl.stage, "ack") /\ pl' = [pl EXCEPT !.op = "close", !.stage = @ + 1]
       \/ /\ Answer(pl.stage, "rejected") \/ Broken(pl.stage)
          /\ pl' = [pl EXCEPT !.op = "close", !.stage = @ + 1, !.failed = TRUE]

\* A plausible bug: only the stage that failed is dropped.
DropStage == HangUp({pl.stage})

\* poison, and drop of the stages when connect returns an error.
DropAll == HangUp(Stages)

\* connect and decode fail: a worker that is not there, a hidden state that may
\* not be sent, a refusal, a lost or late answer.  Nothing of the pipeline is used again.
Fails ==
    /\ \/ pl.op \in {"connect", "forward"}
       \/ pl.op \in {"opening", "forwarding"}
            /\ (Answer(pl.stage, "rejected") \/ Broken(pl.stage))
    /\ DropAll

Worker ==
    \/ \E i \in Stages : Accept(i) \/ Serve(i) \/ ThreadEnds(i)
    \/ \E n \in Nodes, i \in Stages : AcceptStale(n, i) \/ StaleEnds(n, i)
==============================================================================
