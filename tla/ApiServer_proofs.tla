---------------------------- MODULE ApiServer_proofs ----------------------------
(***************************************************************************)
(* Proofs about the HTTP server, its batcher and its pipeline of layer     *)
(* workers, for any number of requests, replicas, stages and sessions, any *)
(* capacity of the queue and the event channels and any length of prompt   *)
(* and answer.                                                             *)
(***************************************************************************)
EXTENDS ApiServer, FiniteSetTheorems, TLAPS

-----------------------------------------------------------------------------
(* The pipeline and the workers *)

PlOps == {"none", "connect", "opening", "forward", "forwarding", "head", "sample", "emit",
          "tail", "close", "closing"}
Conns == {"none", "syn", "served", "gone"}
Msgs == [kind : {"none", "open", "forward", "close", "ready", "rejected", "output", "ack"},
         position : Nat, token : Nat]
Pipes == [op : PlOps, node : Nodes, stage : 1 .. NStages + 1, position : Nat,
          failed : BOOLEAN]
Links == [conn : Conns, req : Msgs, resp : Msgs, ready : BOOLEAN, rows : Seq(Nat)]

RemoteType ==
  /\ pl \in Pipes
  /\ link \in [Stages -> Links]
  /\ stale \in [Nodes -> [Stages -> [syn : Nat, run : Nat]]]

\* Which stage an operation is at, and which of them a local backend has.
PipeOk(p, b) ==
  /\ p.op # "close" => p.stage <= NStages
  /\ p.op \in {"none", "head", "sample", "emit", "tail"} => p.stage = 1
  /\ p.op \in {"none", "connect", "opening"} => p.position = 0
  /\ b = "local" => /\ p.op \in {"none", "head", "sample", "emit", "tail", "close"}
                    /\ p.op = "close" => p.stage = NStages + 1

\* The rows of the first n tokens.
RowsOf(s, n) == Len(s) = n /\ \A k \in 1 .. n : s[k] = k

Quiet(l) == l.req = NoMsg /\ l.resp = NoMsg

\* Rows a stage has beyond the pipeline's position.
Ahead(p, i) == IF p.op = "head" THEN 1
               ELSE IF p.op \in {"forward", "forwarding"} THEN Count(i < p.stage) ELSE 0

\* The stage that the pipeline waits for: what it was asked, and what it did.
Asked(l, p) ==
  /\ p.op = "opening" => /\ l.req.kind \in {"none", "open"}
                         /\ l.resp.kind \in {"none", "ready", "rejected"}
                         /\ l.resp.kind # "none" => l.req = NoMsg
  /\ p.op = "closing" => /\ l.req.kind \in {"none", "close"}
                         /\ l.resp.kind \in {"none", "ack"}
  /\ p.op = "forwarding" =>
       \/ /\ l.req \in {NoMsg, Msg("forward", p.position, p.position + 1)}
          /\ l.resp.kind \in {"none", "rejected"} /\ RowsOf(l.rows, p.position)
       \/ /\ l.req = NoMsg /\ l.resp \in {NoMsg, Msg("output", p.position, p.position + 1)}
          /\ RowsOf(l.rows, p.position + 1)

\* The stages that pipeline p of backend b has a connection to.
Dialled(p, b, i) ==
  /\ p.op # "none" /\ b # "local"
  /\ p.op = "connect" => i < p.stage
  /\ p.op = "opening" => i <= p.stage
  /\ p.op \in {"close", "closing"} => i >= p.stage

\* The connection of stage i.
LinkOk(l, p, b, i) ==
  /\ l.conn = "none" => l = NoLink
  /\ l.conn # "none" <=> Dialled(p, b, i)
  /\ p.op \notin {"opening", "forwarding", "closing"} \/ i # p.stage => Quiet(l)
  /\ i = p.stage => Asked(l, p)
  /\ l.conn # "none" /\ ~(p.op = "forwarding" /\ i = p.stage)
       => RowsOf(l.rows, p.position + Ahead(p, i))

RemoteInv ==
  /\ RemoteType /\ PipeOk(pl, backend) /\ SessionsBounded
  /\ \A i \in Stages : LinkOk(link[i], pl, backend, i)

LEMMA NoLinkIs ==
  /\ NoMsg \in Msgs /\ NoMsg.kind = "none"
  /\ NoLink \in Links /\ NoLink.conn = "none" /\ NoLink.req = NoMsg /\ NoLink.resp = NoMsg
  /\ NoLink.rows = <<>> /\ ~NoLink.ready
  /\ RowsOf(<<>>, 0)
  BY DEF NoMsg, Msg, Msgs, NoLink, Links, Conns, RowsOf

\* A stage without a connection.
LEMMA NoLinkOk ==
  ASSUME NEW p \in Pipes, NEW b, NEW i \in Stages, ~Dialled(p, b, i),
         p.op \notin {"opening", "forwarding", "closing"} \/ i # p.stage
  PROVE  LinkOk(NoLink, p, b, i)
  <1>1. Asked(NoLink, p) \/ i # p.stage
    BY NoLinkIs DEF Asked
  <1> QED BY <1>1, NoLinkIs DEF LinkOk, Quiet

\* Hanging up moves a served connection to the threads that have not noticed.
LEMMA HangUpEffect ==
  ASSUME RemoteType, SessionsBounded, NEW S \in SUBSET Stages, HangUp(S), pl'.node = pl.node
  PROVE  /\ link' \in [Stages -> Links]
         /\ stale' \in [Nodes -> [Stages -> [syn : Nat, run : Nat]]]
         /\ SessionsBounded'
         /\ \A i \in Stages : link'[i] = IF i \in S THEN NoLink ELSE link[i]
  <1> DEFINE old == stale[pl.node]
             moved == [i \in Stages |->
                IF i \in S THEN [syn |-> old[i].syn + Count(link[i].conn = "syn"),
                                 run |-> old[i].run + Count(link[i].conn = "served")]
                ELSE old[i]]
  <1>1. pl.node \in Nodes /\ old \in [Stages -> [syn : Nat, run : Nat]]
    BY DEF RemoteType, Pipes
  <1>2. stale' = [stale EXCEPT ![pl.node] = moved]
    BY DEF HangUp
  <1>3. link' = [i \in Stages |-> IF i \in S THEN NoLink ELSE link[i]]
    BY DEF HangUp
  <1>4. \A i \in Stages : link'[i] = IF i \in S THEN NoLink ELSE link[i]
    BY <1>3
  <1>5. link' \in [Stages -> Links]
    BY <1>3, NoLinkIs DEF RemoteType
  <1>6. \A i \in Stages : moved[i] \in [syn : Nat, run : Nat]
    BY <1>1 DEF Count
  <1>7. \A i \in Stages :
          moved[i].run = IF i \in S THEN old[i].run + Count(link[i].conn = "served")
                         ELSE old[i].run
    BY <1>1
  <1>8. moved \in [Stages -> [syn : Nat, run : Nat]]
    BY <1>6
  <1> HIDE DEF moved
  <1>9. stale' \in [Nodes -> [Stages -> [syn : Nat, run : Nat]]]
    BY <1>2, <1>8 DEF RemoteType
  <1>10. \A n \in Nodes : stale'[n] = IF n = pl.node THEN moved ELSE stale[n]
    BY <1>2 DEF RemoteType
  <1>11. ASSUME NEW n \in Nodes, NEW i \in Stages PROVE Running(n, i)' = Running(n, i)
    <2>1. CASE n # pl.node
      <3>1. stale'[n][i].run = stale[n][i].run
        BY <1>10, <2>1
      <3> QED BY <2>1, <3>1 DEF Running, Count
    <2>2. CASE n = pl.node /\ i \in S
      <3>1. stale'[n][i].run = stale[n][i].run + Count(link[i].conn = "served")
        BY <1>7, <1>10, <2>2
      <3>2. link'[i].conn = "none"
        BY <1>4, <2>2, NoLinkIs
      <3>3. stale[n][i].run \in Nat /\ stale'[n][i].run \in Nat
        BY <1>9 DEF RemoteType
      <3> QED BY <2>2, <3>1, <3>2, <3>3 DEF Running, Count
    <2>3. CASE n = pl.node /\ i \notin S
      <3>1. stale'[n][i].run = stale[n][i].run /\ link'[i] = link[i]
        BY <1>4, <1>7, <1>10, <2>3
      <3> QED BY <2>3, <3>1 DEF Running, Count
    <2> QED BY <2>1, <2>2, <2>3
  <1>12. SessionsBounded'
    BY <1>11 DEF SessionsBounded
  <1> QED BY <1>4, <1>5, <1>9, <1>12

LEMMA FreshPipe ==
  ASSUME NEW n \in Nodes
  PROVE  LET p == [NoPipeline EXCEPT !.node = n] IN
         p \in Pipes /\ p.node = n /\ p.op = "none" /\ p.stage = 1 /\ p.position = 0
  <1>1. 1 \in 1 .. NStages + 1
    BY StagesAssumption
  <1>2. "none" \in PlOps
    BY DEF PlOps
  <1> QED BY <1>1, <1>2 DEF Pipes, NoPipeline

\* A pipeline dropped with all its connections.
LEMMA DropEffect ==
  ASSUME RemoteInv, HangUp(Stages), pl' = [NoPipeline EXCEPT !.node = pl.node],
         backend' = backend
  PROVE  RemoteInv' /\ pl'.op = "none"
  <1>0. pl.node \in Nodes
    BY DEF RemoteInv, RemoteType, Pipes
  <1>1. pl' \in Pipes /\ pl'.node = pl.node /\ pl'.op = "none" /\ pl'.stage = 1
        /\ pl'.position = 0
    BY <1>0, FreshPipe
  <1>2. /\ link' \in [Stages -> Links]
        /\ stale' \in [Nodes -> [Stages -> [syn : Nat, run : Nat]]]
        /\ SessionsBounded'
        /\ \A i \in Stages : link'[i] = NoLink
    BY <1>1, HangUpEffect DEF RemoteInv
  <1>3. ASSUME NEW i \in Stages PROVE LinkOk(link'[i], pl', backend', i)
    <2>1. LinkOk(NoLink, pl', backend', i)
      BY <1>1, NoLinkOk DEF Dialled
    <2> QED BY <1>2, <2>1
  <1>4. PipeOk(pl', backend')
    BY <1>1, StagesAssumption DEF PipeOk
  <1> QED BY <1>1, <1>2, <1>3, <1>4 DEF RemoteInv, RemoteType

\* The pipeline moves from pl to q and the connection of stage i to m.
LEMMA LinkMoves ==
  ASSUME RemoteInv, NEW i \in Stages, NEW m \in Links, NEW q \in Pipes,
         link' = [link EXCEPT ![i] = m], pl' = q, stale' = stale, backend' = backend,
         q.node = pl.node, PipeOk(q, backend), LinkOk(m, q, backend, i),
         \A j \in Stages : j # i => LinkOk(link[j], q, backend, j),
         m.conn = "served" => link[i].conn = "served" \/ Running(pl.node, i) < MaxSessions
  PROVE  RemoteInv'
  <1>1. link' \in [Stages -> Links] /\ \A j \in Stages : link'[j] = IF j = i THEN m ELSE link[j]
    BY DEF RemoteInv, RemoteType
  <1>2. \A j \in Stages : LinkOk(link'[j], pl', backend', j)
    BY <1>1
  <1>3. ASSUME NEW n \in Nodes, NEW j \in Stages PROVE Running(n, j)' <= MaxSessions
    <2>1. Running(n, j) <= MaxSessions /\ MaxSessions \in Nat /\ stale[n][j].run \in Nat
      BY SessionsAssumption DEF RemoteInv, RemoteType, SessionsBounded
    <2>2. CASE j = i /\ m.conn = "served" /\ link[i].conn # "served" /\ n = pl.node
      <3>1. Running(n, j) < MaxSessions
        BY <2>2
      <3>2. stale[n][j].run < MaxSessions
        BY <2>1, <2>2, <3>1 DEF Running, Count
      <3> QED BY <1>1, <2>1, <2>2, <3>2 DEF Running, Count
    <2>3. CASE ~(j = i /\ m.conn = "served" /\ link[i].conn # "served" /\ n = pl.node)
      BY <1>1, <2>1, <2>3 DEF Running, Count
    <2> QED BY <2>2, <2>3
  <1>4. SessionsBounded'
    BY <1>3 DEF SessionsBounded
  <1> QED BY <1>1, <1>2, <1>4 DEF RemoteInv, RemoteType

\* A change of one connection that the pipeline takes no part in.
LEMMA LinkServed ==
  ASSUME RemoteInv, NEW i \in Stages, NEW m \in Links,
         link' = [link EXCEPT ![i] = m], pl' = pl, stale' = stale, backend' = backend,
         link[i].conn # "none", m.conn # "none",
         pl.op \notin {"opening", "forwarding", "closing"} \/ i # pl.stage => Quiet(m),
         i = pl.stage => Asked(m, pl),
         ~(pl.op = "forwarding" /\ i = pl.stage) => m.rows = link[i].rows,
         m.conn = "served" => link[i].conn = "served" \/ Running(pl.node, i) < MaxSessions
  PROVE  RemoteInv'
  <1>1. \A j \in Stages : LinkOk(link[j], pl, backend, j)
    BY DEF RemoteInv
  <1>2. link[i] # NoLink
    BY NoLinkIs
  <1>3. LinkOk(m, pl, backend, i)
    BY <1>1, <1>2 DEF LinkOk
  <1>4. pl \in Pipes /\ PipeOk(pl, backend)
    BY DEF RemoteInv, RemoteType
  <1> QED BY <1>1, <1>3, <1>4, LinkMoves

LEMMA LinkIs ==
  ASSUME RemoteInv, NEW i \in Stages
  PROVE  /\ link[i] \in Links /\ LinkOk(link[i], pl, backend, i)
         /\ link[i].conn \in Conns /\ link[i].req \in Msgs /\ link[i].resp \in Msgs
         /\ link[i].ready \in BOOLEAN /\ link[i].rows \in Seq(Nat)
         /\ link[i] = [conn |-> link[i].conn, req |-> link[i].req, resp |-> link[i].resp,
                       ready |-> link[i].ready, rows |-> link[i].rows]
  BY DEF RemoteInv, RemoteType, Links

LEMMA PipeIs ==
  ASSUME RemoteInv
  PROVE  /\ pl \in Pipes /\ PipeOk(pl, backend)
         /\ pl.op \in PlOps /\ pl.node \in Nodes /\ pl.stage \in 1 .. NStages + 1
         /\ pl.position \in Nat /\ pl.failed \in BOOLEAN
         /\ NStages \in Nat /\ NStages > 0
  BY StagesAssumption DEF RemoteInv, RemoteType, Pipes

LEMMA AcceptStep ==
  ASSUME RemoteInv, NEW i \in Stages, Accept(i), backend' = backend
  PROVE  RemoteInv'
  <1> DEFINE c == IF Running(pl.node, i) < MaxSessions THEN "served" ELSE "gone"
             m == [link[i] EXCEPT !.conn = c]
  <1>1. link[i].conn = "syn" /\ link' = [link EXCEPT ![i] = m] /\ UNCHANGED <<stale, pl>>
    BY DEF Accept
  <1>2. m \in Links /\ m.conn = c /\ m.req = link[i].req /\ m.resp = link[i].resp
        /\ m.rows = link[i].rows
    BY LinkIs DEF Links, Conns
  <1>3. LinkOk(link[i], pl, backend, i)
    BY LinkIs
  <1> HIDE DEF m
  <1>4. /\ pl.op \notin {"opening", "forwarding", "closing"} \/ i # pl.stage => Quiet(m)
        /\ i = pl.stage => Asked(m, pl)
    BY <1>2, <1>3 DEF LinkOk, Quiet, Asked
  <1> QED BY <1>1, <1>2, <1>4, LinkServed

LEMMA ThreadEndsStep ==
  ASSUME RemoteInv, NEW i \in Stages, ThreadEnds(i), backend' = backend
  PROVE  RemoteInv'
  <1>1. PICK r \in {link[i].resp, NoMsg} :
          link' = [link EXCEPT ![i].conn = "gone", ![i].req = NoMsg, ![i].resp = r]
    BY DEF ThreadEnds
  <1> DEFINE m == [link[i] EXCEPT !.conn = "gone", !.req = NoMsg, !.resp = r]
  <1>2. link[i].conn = "served" /\ link' = [link EXCEPT ![i] = m] /\ UNCHANGED <<stale, pl>>
    BY <1>1 DEF ThreadEnds
  <1>3. r \in Msgs
    BY LinkIs, NoLinkIs
  <1>4. m \in Links /\ m.conn = "gone" /\ m.req = NoMsg /\ m.resp = r /\ m.rows = link[i].rows
    BY <1>3, LinkIs, NoLinkIs DEF Links, Conns
  <1>5. LinkOk(link[i], pl, backend, i)
    BY LinkIs
  <1> HIDE DEF m
  <1>6. /\ pl.op \notin {"opening", "forwarding", "closing"} \/ i # pl.stage => Quiet(m)
        /\ i = pl.stage => Asked(m, pl)
    BY <1>4, <1>5, NoLinkIs DEF LinkOk, Quiet, Asked
  <1> QED BY <1>2, <1>4, <1>6, LinkServed

LEMMA MsgIs ==
  ASSUME NEW kind \in {"none", "open", "forward", "close", "ready", "rejected", "output", "ack"},
         NEW p \in Nat, NEW t \in Nat
  PROVE  /\ Msg(kind, p, t) \in Msgs /\ Msg(kind, p, t).kind = kind
         /\ Msg(kind, p, t).position = p /\ Msg(kind, p, t).token = t
  BY DEF Msg, Msgs

LEMMA AppendRow ==
  ASSUME NEW s \in Seq(Nat), NEW n \in Nat, RowsOf(s, n)
  PROVE  Append(s, n + 1) \in Seq(Nat) /\ RowsOf(Append(s, n + 1), n + 1)
  <1>1. Append(s, n + 1) \in Seq(Nat) /\ Len(Append(s, n + 1)) = n + 1
    BY DEF RowsOf
  <1>2. ASSUME NEW k \in 1 .. n + 1 PROVE Append(s, n + 1)[k] = k
    <2>1. CASE k = n + 1
      BY <2>1 DEF RowsOf
    <2>2. CASE k # n + 1
      BY <2>2 DEF RowsOf
    <2> QED BY <2>1, <2>2
  <1> QED BY <1>1, <1>2 DEF RowsOf

LEMMA ServeStep ==
  ASSUME RemoteInv, NEW i \in Stages, Serve(i), backend' = backend
  PROVE  RemoteInv'
  <1>0. /\ link[i].conn = "served" /\ UNCHANGED <<stale, pl>>
        /\ link[i].req.kind \in {"open", "forward", "close"}
    BY DEF Serve, ServeOpen, ServeForward, ServeClose
  <1>1. LinkOk(link[i], pl, backend, i)
    BY LinkIs
  <1>2. pl.op \in {"opening", "forwarding", "closing"} /\ i = pl.stage /\ Asked(link[i], pl)
    BY <1>0, <1>1, NoLinkIs DEF LinkOk, Quiet
  <1>a. Msg("forward", pl.position, pl.position + 1).kind = "forward"
    BY DEF Msg
  <1>3. CASE ServeOpen(i)
    <2>1. PICK ok \in BOOLEAN :
            link' = [link EXCEPT ![i].req = NoMsg, ![i].ready = ok,
                                 ![i].resp = Msg(IF ok THEN "ready" ELSE "rejected", 0, 0)]
      BY <1>3 DEF ServeOpen
    <2> DEFINE r == Msg(IF ok THEN "ready" ELSE "rejected", 0, 0)
               m == [link[i] EXCEPT !.req = NoMsg, !.ready = ok, !.resp = r]
    <2>2. r \in Msgs /\ r.kind \in {"ready", "rejected"}
      BY MsgIs
    <2> HIDE DEF r
    <2>3. m \in Links /\ m.conn = "served" /\ m.req = NoMsg /\ m.resp = r
          /\ m.rows = link[i].rows
      BY <1>0, <2>2, LinkIs, NoLinkIs DEF Links
    <2>4. link' = [link EXCEPT ![i] = m]
      BY <2>1 DEF r
    <2> HIDE DEF m
    <2>5. link[i].req.kind = "open"
      BY <1>3 DEF ServeOpen
    <2>6. pl.op = "opening"
      BY <1>2, <1>a, <2>5, NoLinkIs DEF Asked
    <2>7. Asked(m, pl)
      BY <2>2, <2>3, <2>6, NoLinkIs DEF Asked
    <2> QED BY <1>0, <1>2, <2>3, <2>4, <2>6, <2>7, LinkServed
  <1>4. CASE ServeForward(i)
    <2>1. PICK o \in SessionForward(link[i].rows, link[i].req) :
            link' = [link EXCEPT ![i].req = NoMsg, ![i].rows = o[1], ![i].resp = o[2]]
      BY <1>4 DEF ServeForward
    <2> DEFINE m == [link[i] EXCEPT !.req = NoMsg, !.rows = o[1], !.resp = o[2]]
    <2>2. link[i].req.kind = "forward"
      BY <1>4 DEF ServeForward
    <2>3. pl.op = "forwarding"
      BY <1>2, <2>2 DEF Asked
    <2>4. /\ link[i].req = Msg("forward", pl.position, pl.position + 1)
          /\ RowsOf(link[i].rows, pl.position)
      BY <1>2, <2>2, <2>3, NoLinkIs DEF Asked
    <2>5. link[i].req.position = pl.position /\ link[i].req.token = pl.position + 1
      BY <2>4, PipeIs DEF Msg
    <2>6. /\ o[1] \in Seq(Nat) /\ o[2] \in Msgs
          /\ \/ o[2].kind = "rejected" /\ RowsOf(o[1], pl.position)
             \/ o[2] = Msg("output", pl.position, pl.position + 1)
                /\ RowsOf(o[1], pl.position + 1)
      <3>1. CASE o = <<link[i].rows, Msg("rejected", 0, 0)>>
        <4>1. Msg("rejected", 0, 0) \in Msgs /\ Msg("rejected", 0, 0).kind = "rejected"
          BY MsgIs
        <4>2. link[i].rows \in Seq(Nat)
          BY LinkIs
        <4>3. o[1] = link[i].rows /\ o[2] = Msg("rejected", 0, 0)
          BY <3>1
        <4> QED BY <2>4, <4>1, <4>2, <4>3
      <3>2. CASE o = <<Append(link[i].rows, link[i].req.token),
                       Msg("output", link[i].req.position, link[i].req.token)>>
        <4>1. o[1] = Append(link[i].rows, pl.position + 1)
              /\ o[2] = Msg("output", pl.position, pl.position + 1)
          BY <2>5, <3>2
        <4>2. pl.position \in Nat /\ link[i].rows \in Seq(Nat)
          BY LinkIs, PipeIs
        <4>3. o[2] \in Msgs
          BY <4>1, <4>2, MsgIs
        <4>4. o[1] \in Seq(Nat) /\ RowsOf(o[1], pl.position + 1)
          BY <2>4, <4>1, <4>2, AppendRow
        <4> QED BY <4>1, <4>3, <4>4
      <3> QED BY <2>1, <3>1, <3>2 DEF SessionForward
    <2>7. m \in Links /\ m.conn = "served" /\ m.req = NoMsg /\ m.resp = o[2] /\ m.rows = o[1]
      BY <1>0, <2>6, LinkIs, NoLinkIs DEF Links
    <2>8. link' = [link EXCEPT ![i] = m]
      BY <2>1
    <2> HIDE DEF m
    <2>9. Asked(m, pl)
      BY <2>3, <2>6, <2>7 DEF Asked
    <2> QED BY <1>0, <1>2, <2>3, <2>7, <2>8, <2>9, LinkServed
  <1>5. CASE ServeClose(i)
    <2> DEFINE r == Msg("ack", 0, 0)
               m == [link[i] EXCEPT !.req = NoMsg, !.ready = FALSE, !.resp = r]
    <2>1. link' = [link EXCEPT ![i] = m] /\ link[i].req.kind = "close"
      BY <1>5 DEF ServeClose
    <2>2. r \in Msgs /\ r.kind = "ack"
      BY MsgIs
    <2> HIDE DEF r
    <2>3. m \in Links /\ m.conn = "served" /\ m.req = NoMsg /\ m.resp = r
          /\ m.rows = link[i].rows
      BY <1>0, <2>2, LinkIs, NoLinkIs DEF Links
    <2> HIDE DEF m
    <2>4. pl.op = "closing"
      BY <1>2, <1>a, <2>1, NoLinkIs DEF Asked
    <2>5. Asked(m, pl)
      BY <2>2, <2>3, <2>4, NoLinkIs DEF Asked
    <2> QED BY <1>0, <1>2, <2>1, <2>3, <2>4, <2>5, LinkServed
  <1> QED BY <1>3, <1>4, <1>5 DEF Serve

\* What the threads of earlier pipelines do.
LEMMA StaleStep ==
  ASSUME RemoteInv, NEW n \in Nodes, NEW i \in Stages, AcceptStale(n, i) \/ StaleEnds(n, i),
         backend' = backend
  PROVE  RemoteInv'
  <1>1. link' = link /\ pl' = pl
    BY DEF AcceptStale, StaleEnds
  <1>2. PICK x \in [syn : Nat, run : Nat] :
          /\ stale' = [stale EXCEPT ![n][i] = x]
          /\ \/ x.run <= stale[n][i].run
             \/ Running(n, i) < MaxSessions /\ x.run = stale[n][i].run + 1
    <2>1. stale[n][i] \in [syn : Nat, run : Nat]
      BY DEF RemoteInv, RemoteType
    <2>2. CASE AcceptStale(n, i)
      <3> DEFINE x == [syn |-> stale[n][i].syn - 1,
                       run |-> stale[n][i].run + Count(Running(n, i) < MaxSessions)]
      <3>1. stale[n][i].syn > 0 /\ stale' = [stale EXCEPT ![n][i] = x]
        BY <2>2 DEF AcceptStale
      <3>2. x \in [syn : Nat, run : Nat]
        BY <2>1, <3>1 DEF Count
      <3>3. x.run <= stale[n][i].run
              \/ (Running(n, i) < MaxSessions /\ x.run = stale[n][i].run + 1)
        BY <2>1 DEF Count
      <3> HIDE DEF x
      <3> QED BY <3>1, <3>2, <3>3
    <2>3. CASE StaleEnds(n, i)
      <3> DEFINE x == [stale[n][i] EXCEPT !.run = stale[n][i].run - 1]
      <3>1. stale[n][i].run > 0 /\ stale' = [stale EXCEPT ![n][i] = x]
        BY <2>3 DEF StaleEnds
      <3>2. x \in [syn : Nat, run : Nat] /\ x.run <= stale[n][i].run
        BY <2>1, <3>1
      <3> HIDE DEF x
      <3> QED BY <3>1, <3>2
    <2> QED BY <2>2, <2>3
  <1>3. stale \in [Nodes -> [Stages -> [syn : Nat, run : Nat]]]
    BY DEF RemoteInv, RemoteType
  <1>4. /\ stale' \in [Nodes -> [Stages -> [syn : Nat, run : Nat]]]
        /\ stale'[n][i] = x
        /\ \A k \in Nodes, j \in Stages : k # n \/ j # i => stale'[k][j] = stale[k][j]
    BY <1>2, <1>3
  <1>5. ASSUME NEW k \in Nodes, NEW j \in Stages PROVE Running(k, j)' <= MaxSessions
    <2>1. Running(k, j) <= MaxSessions /\ MaxSessions \in Nat
          /\ stale[k][j].run \in Nat /\ stale'[k][j].run \in Nat
      BY <1>3, <1>4, SessionsAssumption DEF RemoteInv, SessionsBounded
    <2>2. CASE k # n \/ j # i
      BY <1>1, <1>4, <2>1, <2>2 DEF Running, Count
    <2>3. CASE k = n /\ j = i
      <3>1. stale'[k][j].run = x.run /\ x.run \in Nat
        BY <1>4, <2>3
      <3> QED BY <1>1, <1>2, <2>1, <2>3, <3>1 DEF Running, Count
    <2> QED BY <2>2, <2>3
  <1>6. SessionsBounded'
    BY <1>5 DEF SessionsBounded
  <1> QED BY <1>1, <1>4, <1>6 DEF RemoteInv, RemoteType

LEMMA WorkerStep ==
  ASSUME RemoteInv, Worker, backend' = backend
  PROVE  RemoteInv'
  BY AcceptStep, ServeStep, ThreadEndsStep, StaleStep DEF Worker

-----------------------------------------------------------------------------
(* The pipeline's own steps *)

\* connect dials the stage it has come to.
LEMMA DialStep ==
  ASSUME RemoteInv, Dial, backend' = backend
  PROVE  RemoteInv' /\ pl'.op = "opening"
  <1> DEFINE r == Msg("open", 0, 0)
             m == [NoLink EXCEPT !.conn = "syn", !.req = r]
             q == [pl EXCEPT !.op = "opening"]
             i == pl.stage
  <1>1. pl.op = "connect" /\ link' = [link EXCEPT ![i] = m] /\ pl' = q /\ stale' = stale
    BY DEF Dial
  <1>2. pl \in Pipes /\ i \in Stages /\ pl.position = 0 /\ backend # "local"
    BY <1>1, PipeIs DEF PipeOk, Stages
  <1>3. /\ q \in Pipes /\ q.op = "opening" /\ q.stage = i /\ q.position = 0
        /\ q.node = pl.node
    BY <1>2 DEF Pipes, PlOps
  <1>4. r \in Msgs /\ r.kind = "open"
    BY MsgIs
  <1> HIDE DEF r
  <1>5. /\ m \in Links /\ m.conn = "syn" /\ m.req = r /\ m.resp = NoMsg /\ m.rows = <<>>
    BY <1>4, NoLinkIs DEF Links, Conns, NoLink
  <1> HIDE DEF m, q
  <1>6. PipeOk(q, backend)
    BY <1>2, <1>3, PipeIs DEF PipeOk, Stages
  <1>7. LinkOk(m, q, backend, i)
    <2>1. Asked(m, q)
      BY <1>3, <1>4, <1>5, NoLinkIs DEF Asked
    <2>2. RowsOf(m.rows, q.position + Ahead(q, i))
      BY <1>3, <1>5, NoLinkIs DEF Ahead
    <2>3. Dialled(q, backend, i)
      BY <1>2, <1>3, PipeIs DEF Dialled
    <2> QED BY <1>3, <1>5, <2>1, <2>2, <2>3 DEF LinkOk
  <1>8. ASSUME NEW j \in Stages, j # i PROVE LinkOk(link[j], q, backend, j)
    <2>1. LinkOk(link[j], pl, backend, j)
      BY LinkIs
    <2>2. Dialled(q, backend, j) <=> Dialled(pl, backend, j)
      BY <1>1, <1>2, <1>3, <1>8, PipeIs DEF Dialled, Stages
    <2>3. Ahead(q, j) = Ahead(pl, j)
      BY <1>1, <1>3 DEF Ahead
    <2> QED BY <1>1, <1>2, <1>3, <1>8, <2>1, <2>2, <2>3 DEF LinkOk
  <1> QED BY <1>1, <1>2, <1>3, <1>5, <1>6, <1>7, <1>8, LinkMoves

\* A stage is ready: connect goes on to the next one, or the pipeline stands.
LEMMA OpenedStep ==
  ASSUME RemoteInv, Opened, backend' = backend
  PROVE  RemoteInv' /\ pl'.op \in {"connect", "forward"}
  <1> DEFINE i == pl.stage
             m == [link[i] EXCEPT !.resp = NoMsg]
             o == IF i < NStages THEN "connect" ELSE "forward"
             s == IF i < NStages THEN i + 1 ELSE 1
             q == [pl EXCEPT !.op = o, !.stage = s]
  <1>1. /\ pl.op = "opening" /\ link[i].resp.kind = "ready"
        /\ link' = [link EXCEPT ![i] = m] /\ pl' = q /\ stale' = stale
    BY DEF Opened, Answer
  <1>2. pl \in Pipes /\ i \in Stages /\ i \in Nat /\ i >= 1 /\ i <= NStages /\ NStages \in Nat
        /\ pl.position = 0 /\ backend # "local"
    BY <1>1, PipeIs DEF PipeOk, Stages
  <1>a. o \in PlOps /\ s \in 1 .. NStages + 1 /\ s <= NStages
    <2>1. o \in {"connect", "forward"}
      OBVIOUS
    <2>2. s \in Nat /\ s >= 1 /\ s <= NStages
      BY <1>2
    <2> QED BY <1>2, <2>1, <2>2 DEF PlOps
  <1>b. /\ i < NStages => o = "connect" /\ s = i + 1
        /\ i >= NStages => o = "forward" /\ s = 1
    BY <1>2
  <1> HIDE DEF o, s
  <1>3. /\ q \in Pipes /\ q.position = 0 /\ q.node = pl.node /\ q.op = o /\ q.stage = s
    <2>1. /\ q \in Pipes /\ q.position = pl.position /\ q.node = pl.node
          /\ q.op = o /\ q.stage = s
      BY <1>2, <1>a DEF Pipes
    <2> HIDE DEF q
    <2> QED BY <1>2, <2>1
  <1>4. LinkOk(link[i], pl, backend, i) /\ Asked(link[i], pl)
    BY <1>2, LinkIs DEF LinkOk
  <1>5. link[i].conn # "none"
    BY <1>1, <1>4, NoLinkIs DEF LinkOk
  <1>6. /\ m \in Links /\ m.conn = link[i].conn /\ m.req = link[i].req /\ m.resp = NoMsg
        /\ m.rows = link[i].rows
    BY <1>2, LinkIs, NoLinkIs DEF Links
  <1>7. link[i].req = NoMsg /\ RowsOf(link[i].rows, 0)
    BY <1>1, <1>2, <1>4, <1>5 DEF Asked, LinkOk, Ahead
  <1> HIDE DEF m, q
  <1>8. PipeOk(q, backend)
    BY <1>2, <1>3, <1>a, <1>b DEF PipeOk
  <1>9. LinkOk(m, q, backend, i)
    <2>1. Ahead(q, i) = 0
      BY <1>2, <1>3, <1>b DEF Ahead, Count
    <2>2. Asked(m, q)
      BY <1>3, <1>b, <1>2 DEF Asked
    <2>3. Quiet(m) /\ RowsOf(m.rows, 0)
      BY <1>6, <1>7 DEF Quiet
    <2>4. Dialled(q, backend, i)
      BY <1>2, <1>3, <1>b DEF Dialled
    <2> QED BY <1>2, <1>3, <1>b, <1>5, <1>6, <2>1, <2>2, <2>3, <2>4 DEF LinkOk
  <1>10. ASSUME NEW j \in Stages, j # i PROVE LinkOk(link[j], q, backend, j)
    <2>1. LinkOk(link[j], pl, backend, j)
      BY LinkIs
    <2>2. Quiet(link[j]) /\ (link[j].conn # "none" => RowsOf(link[j].rows, 0))
      BY <1>1, <1>2, <1>10, <2>1 DEF LinkOk, Ahead
    <2>3. j \in Nat /\ j >= 1 /\ j <= NStages
      BY <1>2 DEF Stages
    <2>4. Ahead(q, j) = 0 /\ Asked(link[j], q)
      BY <1>3, <1>b, <1>2, <2>3 DEF Ahead, Count, Asked
    <2>5. Dialled(q, backend, j) <=> Dialled(pl, backend, j)
      <3>1. CASE i < NStages
        BY <1>1, <1>2, <1>3, <1>b, <1>10, <2>3, <3>1 DEF Dialled
      <3>2. CASE i >= NStages
        BY <1>1, <1>2, <1>3, <1>b, <1>10, <2>3, <3>2 DEF Dialled
      <3> QED BY <1>2, <3>1, <3>2
    <2> QED BY <1>2, <1>3, <2>1, <2>2, <2>4, <2>5 DEF LinkOk
  <1>11. RemoteInv'
    BY <1>1, <1>2, <1>3, <1>6, <1>8, <1>9, <1>10, LinkMoves, <1>5
  <1>12. pl'.op \in {"connect", "forward"}
    BY <1>1, <1>2, <1>3, <1>b
  <1> QED BY <1>11, <1>12

\* decode sends the token under way to the stage it has come to.
LEMMA SendForwardStep ==
  ASSUME RemoteInv, SendForward(pl.position + 1), backend' = backend
  PROVE  RemoteInv' /\ pl'.op = "forwarding"
  <1> DEFINE i == pl.stage
             f == Msg("forward", pl.position, pl.position + 1)
             r == IF link[i].conn = "gone" THEN NoMsg ELSE f
             m == [link[i] EXCEPT !.req = r]
             q == [pl EXCEPT !.op = "forwarding"]
  <1>1. pl.op = "forward" /\ link' = [link EXCEPT ![i] = m] /\ pl' = q /\ stale' = stale
    BY DEF SendForward, Ask
  <1>2. /\ pl \in Pipes /\ i \in Stages /\ i \in Nat /\ pl.position \in Nat
        /\ i <= NStages /\ NStages \in Nat /\ backend # "local"
    BY <1>1, PipeIs DEF PipeOk, Stages
  <1>3. /\ q \in Pipes /\ q.op = "forwarding" /\ q.stage = i /\ q.position = pl.position
        /\ q.node = pl.node
    BY <1>2 DEF Pipes, PlOps
  <1>4. f \in Msgs
    BY <1>2, MsgIs
  <1>5. r \in Msgs /\ r \in {NoMsg, f}
    BY <1>4, NoLinkIs
  <1> HIDE DEF r
  <1>6. /\ m \in Links /\ m.conn = link[i].conn /\ m.req = r /\ m.resp = link[i].resp
        /\ m.rows = link[i].rows
    BY <1>2, <1>5, LinkIs DEF Links
  <1>7. LinkOk(link[i], pl, backend, i)
    BY <1>2, LinkIs
  <1> HIDE DEF m, q
  <1>8. link[i].conn # "none" /\ link[i].resp = NoMsg /\ RowsOf(link[i].rows, pl.position)
    <2>1. Dialled(pl, backend, i)
      BY <1>1, <1>2 DEF Dialled
    <2>2. Ahead(pl, i) = 0
      BY <1>1, <1>2 DEF Ahead, Count
    <2> QED BY <1>1, <1>2, <1>7, <2>1, <2>2 DEF LinkOk, Quiet
  <1>9. PipeOk(q, backend)
    BY <1>2, <1>3 DEF PipeOk
  <1>10. LinkOk(m, q, backend, i)
    <2>1. Asked(m, q)
      BY <1>3, <1>5, <1>6, <1>8, NoLinkIs DEF Asked
    <2>2. Dialled(q, backend, i)
      BY <1>2, <1>3 DEF Dialled
    <2> QED BY <1>3, <1>6, <1>8, <2>1, <2>2 DEF LinkOk
  <1>11. ASSUME NEW j \in Stages, j # i PROVE LinkOk(link[j], q, backend, j)
    <2>1. LinkOk(link[j], pl, backend, j)
      BY LinkIs
    <2>2. Dialled(q, backend, j) <=> Dialled(pl, backend, j)
      BY <1>1, <1>3 DEF Dialled
    <2>3. Ahead(q, j) = Ahead(pl, j)
      BY <1>1, <1>3 DEF Ahead
    <2> QED BY <1>1, <1>3, <1>11, <2>1, <2>2, <2>3 DEF LinkOk
  <1> QED BY <1>1, <1>2, <1>3, <1>6, <1>9, <1>10, <1>11, LinkMoves

\* A stage answers: its output goes to the next one, or the head's turn comes.
LEMMA ForwardedStep ==
  ASSUME RemoteInv, Forwarded, backend' = backend
  PROVE  RemoteInv' /\ pl'.op \in {"forward", "head"}
  <1> DEFINE i == pl.stage
             m == [link[i] EXCEPT !.resp = NoMsg]
             o == IF i < NStages THEN "forward" ELSE "head"
             s == IF i < NStages THEN i + 1 ELSE 1
             q == [pl EXCEPT !.op = o, !.stage = s]
  <1>1. /\ pl.op = "forwarding" /\ link[i].resp.kind = "output"
        /\ link' = [link EXCEPT ![i] = m] /\ pl' = q /\ stale' = stale
    BY DEF Forwarded, Answer
  <1>2. pl \in Pipes /\ i \in Stages /\ i \in Nat /\ i >= 1 /\ i <= NStages /\ NStages \in Nat
        /\ pl.position \in Nat /\ backend # "local"
    BY <1>1, PipeIs DEF PipeOk, Stages
  <1>a. o \in PlOps /\ s \in 1 .. NStages + 1 /\ s <= NStages
    <2>1. o \in {"forward", "head"}
      OBVIOUS
    <2>2. s \in Nat /\ s >= 1 /\ s <= NStages
      BY <1>2
    <2> QED BY <1>2, <2>1, <2>2 DEF PlOps
  <1>b. /\ i < NStages => o = "forward" /\ s = i + 1
        /\ i >= NStages => o = "head" /\ s = 1 /\ i = NStages
    BY <1>2
  <1> HIDE DEF o, s
  <1>3. /\ q \in Pipes /\ q.position = pl.position /\ q.node = pl.node /\ q.op = o
        /\ q.stage = s
    BY <1>2, <1>a DEF Pipes
  <1>4. LinkOk(link[i], pl, backend, i) /\ Asked(link[i], pl)
    BY <1>2, LinkIs DEF LinkOk
  <1>5. link[i].conn # "none"
    BY <1>1, <1>4, NoLinkIs DEF LinkOk
  <1>6. /\ m \in Links /\ m.conn = link[i].conn /\ m.req = link[i].req /\ m.resp = NoMsg
        /\ m.rows = link[i].rows
    BY <1>2, LinkIs, NoLinkIs DEF Links
  <1>7. link[i].req = NoMsg /\ RowsOf(link[i].rows, pl.position + 1)
    BY <1>1, <1>4 DEF Asked
  <1> HIDE DEF m, q
  <1>8. PipeOk(q, backend)
    BY <1>2, <1>3, <1>a, <1>b DEF PipeOk
  <1>9. LinkOk(m, q, backend, i)
    <2>1. Ahead(q, i) = 1
      BY <1>2, <1>3, <1>b DEF Ahead, Count
    <2>2. Asked(m, q)
      BY <1>3, <1>b, <1>2 DEF Asked
    <2>3. Quiet(m) /\ RowsOf(m.rows, pl.position + 1)
      BY <1>6, <1>7 DEF Quiet
    <2>4. Dialled(q, backend, i)
      BY <1>2, <1>3, <1>b DEF Dialled
    <2> QED BY <1>3, <1>5, <1>6, <2>1, <2>2, <2>3, <2>4 DEF LinkOk
  <1>10. ASSUME NEW j \in Stages, j # i PROVE LinkOk(link[j], q, backend, j)
    <2>1. LinkOk(link[j], pl, backend, j)
      BY LinkIs
    <2>2. Quiet(link[j])
      BY <1>1, <1>10, <2>1 DEF LinkOk
    <2>3. j \in Nat /\ j >= 1 /\ j <= NStages
      BY <1>2 DEF Stages
    <2>4. Ahead(q, j) = Ahead(pl, j) /\ Asked(link[j], q)
      BY <1>1, <1>3, <1>b, <1>2, <1>10, <2>3 DEF Ahead, Count, Asked
    <2>5. Dialled(q, backend, j) <=> Dialled(pl, backend, j)
      BY <1>1, <1>2, <1>3, <1>b DEF Dialled
    <2>6. link[j].conn # "none" => RowsOf(link[j].rows, pl.position + Ahead(pl, j))
      BY <1>10, <2>1 DEF LinkOk
    <2> QED BY <1>3, <2>1, <2>2, <2>4, <2>5, <2>6 DEF LinkOk
  <1>11. RemoteInv'
    BY <1>1, <1>2, <1>3, <1>6, <1>8, <1>9, <1>10, LinkMoves, <1>5
  <1>12. pl'.op \in {"forward", "head"}
    BY <1>1, <1>2, <1>3, <1>b
  <1> QED BY <1>11, <1>12

\* close asks the stage it has come to.
LEMMA SendCloseStep ==
  ASSUME RemoteInv, SendClose, pl.stage <= NStages, backend' = backend
  PROVE  RemoteInv' /\ pl'.op = "closing"
  <1> DEFINE i == pl.stage
             f == Msg("close", 0, 0)
             r == IF link[i].conn = "gone" THEN NoMsg ELSE f
             m == [link[i] EXCEPT !.req = r]
             q == [pl EXCEPT !.op = "closing"]
  <1>1. pl.op = "close" /\ link' = [link EXCEPT ![i] = m] /\ pl' = q /\ stale' = stale
    BY DEF SendClose, Ask
  <1>2. /\ pl \in Pipes /\ i \in Stages /\ i \in Nat /\ pl.position \in Nat
        /\ i <= NStages /\ NStages \in Nat /\ backend # "local"
    BY <1>1, PipeIs DEF PipeOk, Stages
  <1>3. /\ q \in Pipes /\ q.op = "closing" /\ q.stage = i /\ q.position = pl.position
        /\ q.node = pl.node
    BY <1>2 DEF Pipes, PlOps
  <1>4. f \in Msgs /\ f.kind = "close"
    BY MsgIs
  <1>5. r \in Msgs /\ r.kind \in {"none", "close"}
    BY <1>4, NoLinkIs
  <1> HIDE DEF r
  <1>6. /\ m \in Links /\ m.conn = link[i].conn /\ m.req = r /\ m.resp = link[i].resp
        /\ m.rows = link[i].rows
    BY <1>2, <1>5, LinkIs DEF Links
  <1>7. LinkOk(link[i], pl, backend, i)
    BY <1>2, LinkIs
  <1> HIDE DEF m, q
  <1>8. link[i].conn # "none" /\ link[i].resp = NoMsg /\ RowsOf(link[i].rows, pl.position + 0)
    <2>1. Dialled(pl, backend, i)
      BY <1>1, <1>2 DEF Dialled
    <2>2. Ahead(pl, i) = 0
      BY <1>1 DEF Ahead
    <2> QED BY <1>1, <1>2, <1>7, <2>1, <2>2 DEF LinkOk, Quiet
  <1>9. PipeOk(q, backend)
    BY <1>2, <1>3 DEF PipeOk
  <1>10. LinkOk(m, q, backend, i)
    <2>1. Asked(m, q)
      BY <1>3, <1>5, <1>6, <1>8, NoLinkIs DEF Asked
    <2>2. Dialled(q, backend, i) /\ Ahead(q, i) = 0
      BY <1>2, <1>3 DEF Dialled, Ahead
    <2> QED BY <1>3, <1>6, <1>8, <2>1, <2>2 DEF LinkOk
  <1>11. ASSUME NEW j \in Stages, j # i PROVE LinkOk(link[j], q, backend, j)
    <2>1. LinkOk(link[j], pl, backend, j)
      BY LinkIs
    <2>2. Dialled(q, backend, j) <=> Dialled(pl, backend, j)
      BY <1>1, <1>3 DEF Dialled
    <2>3. Ahead(q, j) = Ahead(pl, j)
      BY <1>1, <1>3 DEF Ahead
    <2> QED BY <1>1, <1>3, <1>11, <2>1, <2>2, <2>3 DEF LinkOk
  <1> QED BY <1>1, <1>2, <1>3, <1>6, <1>9, <1>10, <1>11, LinkMoves

\* close drops the client of a stage that answered, or that did not.
LEMMA ClosedStep ==
  ASSUME RemoteInv, Closed, backend' = backend
  PROVE  RemoteInv' /\ pl'.op = "close"
  <1> DEFINE i == pl.stage
  <1>1. pl.op = "closing" /\ HangUp({i})
    BY DEF Closed
  <1>2. /\ pl \in Pipes /\ i \in Stages /\ i \in Nat /\ i >= 1 /\ pl.position \in Nat
        /\ i <= NStages /\ NStages \in Nat /\ backend # "local"
    BY <1>1, PipeIs DEF PipeOk, Stages
  <1>3. /\ pl' \in Pipes /\ pl'.op = "close" /\ pl'.stage = i + 1
        /\ pl'.position = pl.position /\ pl'.node = pl.node
    <2>1. "close" \in PlOps /\ i + 1 \in 1 .. NStages + 1
      BY <1>2 DEF PlOps
    <2>2. CASE pl' = [pl EXCEPT !.op = "close", !.stage = i + 1]
      BY <1>2, <2>1, <2>2 DEF Pipes
    <2>3. CASE pl' = [pl EXCEPT !.op = "close", !.stage = i + 1, !.failed = TRUE]
      BY <1>2, <2>1, <2>3 DEF Pipes
    <2> QED BY <2>2, <2>3 DEF Closed
  <1>4. /\ link' \in [Stages -> Links]
        /\ stale' \in [Nodes -> [Stages -> [syn : Nat, run : Nat]]]
        /\ SessionsBounded'
        /\ \A j \in Stages : link'[j] = IF j \in {i} THEN NoLink ELSE link[j]
    <2>1. {i} \in SUBSET Stages
      BY <1>2
    <2> QED BY <1>1, <1>3, <2>1, HangUpEffect DEF RemoteInv
  <1>5. PipeOk(pl', backend')
    BY <1>2, <1>3 DEF PipeOk
  <1>6. ASSUME NEW j \in Stages PROVE LinkOk(link'[j], pl', backend', j)
    <2>1. CASE j = i
      <3>1. ~Dialled(pl', backend', j)
        BY <1>2, <1>3, <2>1 DEF Dialled
      <3>2. LinkOk(NoLink, pl', backend', j)
        BY <1>3, <3>1, NoLinkOk
      <3> QED BY <1>4, <2>1, <3>2
    <2>2. CASE j # i
      <3>1. LinkOk(link[j], pl, backend, j)
        BY LinkIs
      <3>2. Dialled(pl', backend', j) <=> Dialled(pl, backend, j)
        BY <1>1, <1>2, <1>3, <2>2 DEF Dialled, Stages
      <3>3. Ahead(pl', j) = Ahead(pl, j) /\ Asked(link[j], pl')
        BY <1>1, <1>3 DEF Ahead, Asked
      <3>4. LinkOk(link[j], pl', backend', j)
        BY <1>1, <1>3, <2>2, <3>1, <3>2, <3>3 DEF LinkOk
      <3> QED BY <1>4, <2>2, <3>4
    <2> QED BY <2>1, <2>2
  <1> QED BY <1>3, <1>4, <1>5, <1>6 DEF RemoteInv, RemoteType

\* The pipeline moves and its connections stay.
LEMMA PipeOnly ==
  ASSUME RemoteInv, link' = link, stale' = stale, backend' = backend, pl' \in Pipes,
         pl'.node = pl.node \/ pl.op = "none", PipeOk(pl', backend),
         \A j \in Stages : LinkOk(link[j], pl', backend, j)
  PROVE  RemoteInv'
  <1>1. ASSUME NEW n \in Nodes, NEW j \in Stages PROVE Running(n, j)' <= MaxSessions
    <2>1. Running(n, j) <= MaxSessions
      BY DEF RemoteInv, SessionsBounded
    <2>2. CASE pl'.node = pl.node
      BY <2>1, <2>2 DEF Running
    <2>3. CASE pl.op = "none"
      <3>1. link[j].conn = "none"
        BY <2>3, LinkIs DEF LinkOk, Dialled
      <3> QED BY <2>1, <3>1 DEF Running, Count
    <2> QED BY <2>2, <2>3
  <1>2. SessionsBounded'
    BY <1>1 DEF SessionsBounded
  <1> QED BY <1>2 DEF RemoteInv, RemoteType

\* After the head, a sampled token or a piece: the next token, the next step of
\* this one, or the end.
LEMMA TokenStep ==
  ASSUME RemoteInv, link' = link, stale' = stale, backend' = backend, pl' \in Pipes,
         pl'.node = pl.node, pl.op \in {"head", "sample", "emit", "tail"},
         pl'.position = pl.position + (IF pl.op = "head" THEN 1 ELSE 0),
         \/ pl'.op \in {"sample", "emit", "tail"} /\ pl'.stage = 1
         \/ pl'.op = (IF backend = "local" THEN "head" ELSE "forward") /\ pl'.stage = 1
         \/ pl'.op = "close" /\ pl'.stage = (IF backend = "local" THEN NStages + 1 ELSE 1)
  PROVE  RemoteInv' /\ pl'.op # "none"
  <1>1. PipeOk(pl', backend)
    BY PipeIs DEF PipeOk
  <1>2. ASSUME NEW j \in Stages PROVE LinkOk(link[j], pl', backend, j)
    <2>1. LinkOk(link[j], pl, backend, j)
      BY LinkIs
    <2>2. j \in Nat /\ j >= 1 /\ pl.stage = 1
      BY PipeIs DEF Stages, PipeOk
    <2>3. CASE backend = "local"
      <3>1. link[j] = NoLink
        BY <2>1, <2>3 DEF LinkOk, Dialled
      <3>2. ~Dialled(pl', backend, j)
        BY <2>3 DEF Dialled
      <3>3. pl'.op \notin {"opening", "forwarding", "closing"}
        OBVIOUS
      <3> QED BY <3>1, <3>2, <3>3, NoLinkOk
    <2>4. CASE backend # "local"
      <3>1. pl'.op \in {"sample", "emit", "tail", "forward", "close"} /\ pl'.stage = 1
        BY <2>4
      <3>2. Dialled(pl, backend, j) /\ Dialled(pl', backend, j)
        BY <2>2, <2>4, <3>1 DEF Dialled
      <3>3. Quiet(link[j]) /\ link[j].conn # "none"
            /\ RowsOf(link[j].rows, pl.position + Ahead(pl, j))
        BY <2>1, <3>2 DEF LinkOk
      <3>4. Ahead(pl', j) = 0
        BY <2>2, <3>1 DEF Ahead, Count
      <3>5. pl.position + Ahead(pl, j) = pl'.position + Ahead(pl', j)
        BY <3>4, PipeIs DEF Ahead
      <3>6. Asked(link[j], pl')
        BY <3>1 DEF Asked
      <3> QED BY <3>1, <3>2, <3>3, <3>5, <3>6 DEF LinkOk
    <2> QED BY <2>3, <2>4
  <1> QED BY <1>1, <1>2, PipeOnly

\* A pipeline without connections becomes another one without.
LEMMA IdleStep ==
  ASSUME RemoteInv, link' = link, stale' = stale, backend' = backend,
         pl.op = "none" \/ (pl.op = "close" /\ pl.stage > NStages /\ pl'.node = pl.node),
         pl' \in Pipes, pl'.op \in {"none", "connect", "head"},
         pl'.op = "connect" => backend # "local", pl'.op = "head" => backend = "local",
         pl'.stage = 1, pl'.position = 0
  PROVE  RemoteInv'
  <1>2. pl'.op \in {"none", "connect", "head"} /\ pl'.stage = 1 /\ pl'.position = 0
    OBVIOUS
  <1>3. PipeOk(pl', backend)
    BY <1>2, StagesAssumption DEF PipeOk
  <1>4. ASSUME NEW j \in Stages PROVE LinkOk(link[j], pl', backend, j)
    <2>1. j \in Nat /\ j >= 1 /\ j <= NStages /\ pl.stage \in Nat
      BY PipeIs DEF Stages
    <2>2. ~Dialled(pl, backend, j)
      BY <2>1, PipeIs DEF Dialled
    <2>3. link[j] = NoLink
      BY <2>2, LinkIs DEF LinkOk
    <2>4. ~Dialled(pl', backend, j)
      BY <1>2, <2>1 DEF Dialled
    <2>5. LinkOk(NoLink, pl', backend, j)
      BY <1>2, <2>4, NoLinkOk
    <2> QED BY <2>3, <2>5
  <1> QED BY <1>2, <1>3, <1>4, PipeOnly

-----------------------------------------------------------------------------
(* The requests *)

Statuses == {"new", "counted", "waiting", "streaming", "ended", "left"}
Answers == {None, "400", "503", "429", "200", "ok", "error"}
Events == [kind : {"piece", "stop", "error", "done"}, n : Nat]
Https == [st : Statuses, stream : BOOLEAN, answer : Answers,
          chan : Seq(Events), got : Seq(Events), text : Nat]

\* The k-th event of a stream with n pieces, of an answer of that many pieces.
Shape(e, k, n, text) ==
  /\ k <= n => e = Piece(k)
  /\ k = n + 1 => e = Event("error") \/ (e = Event("stop") /\ n = text)
  /\ k = n + 2 => e = Event("done")
  /\ k <= n + 2

\* What the client has and what is on its way to it.
Fits(h, n, text) ==
  /\ \A k \in 1 .. Len(h.got) : Shape(h.got[k], k, n, text)
  /\ \A k \in 1 .. Len(h.chan) : Shape(h.chan[k], Len(h.got) + k, n, text)

StreamIs(h, n) == Fits(h, n, h.text)

Total(h) == Len(h.got) + Len(h.chan)
Untouched(h) == h.got = <<>> /\ h.chan = <<>> /\ h.text = 0

\* The pieces of a request that the scheduler is at: "work", or "emit" with one
\* piece of the text not sent yet, or "last" with the finish reason sent.
StreamOk(h, role) ==
  \E n \in 0 .. h.text :
    /\ StreamIs(h, n)
    /\ role \in {"work", "emit"} => Total(h) <= n
    /\ role = "work" /\ h.st = "streaming" => Total(h) = n /\ n = h.text
    /\ role = "emit" /\ h.st = "streaming" => Total(h) = n /\ n + 1 = h.text
    /\ role = "last" /\ h.st = "streaming" => Total(h) = n + 1

\* A request that the scheduler does not have ("out"), has in its queue or its
\* batch ("wait"), has a response to send for ("first") or is executing.
ReqOk(h, role) ==
  /\ h.st \in {"new", "counted"} => Untouched(h) /\ role = "out"
  /\ role # "out" => h.st \in {"waiting", "streaming", "left"}
  /\ role \in {"wait", "first"} => Untouched(h) /\ h.st # "streaming"
  /\ role \in {"first", "last"} => h.stream
  /\ role \in {"work", "emit", "last"} /\ h.st # "left" => (h.stream <=> h.st = "streaming")
  /\ h.st = "left" \/ ~h.stream => h.chan = <<>>
  /\ ~h.stream => h.got = <<>>
  /\ StreamOk(h, role)

\* The part of the first request of the batch.
Phase(pc, op) == IF pc = "respond" THEN "first"
                 ELSE IF pc = "last" THEN "last"
                 ELSE IF pc = "run" /\ op = "emit" THEN "emit"
                 ELSE IF pc \in {"generate", "run", "finish"} THEN "work" ELSE "wait"

RoleIn(r, q, b, phase) == IF r \notin ToSet(q) \cup ToSet(b) THEN "out"
                          ELSE IF b # <<>> /\ r = Head(b) THEN phase ELSE "wait"

Pcs == {"recv", "collect", "dispatch", "respond", "generate", "run", "finish", "last", "dead"}
Busy == {"respond", "generate", "run", "finish", "last"}

Gens == [left : Nat, made : Nat, held : BOOLEAN, result : {None, "ok", "error"}]

FrontType ==
  /\ backend \in {"local", "remote"} /\ queue \in Seq(Requests)
  /\ sched \in [pc : Pcs, batch : Seq(Requests), next : Nodes]
  /\ gen \in Gens
  /\ http \in [Requests -> Https]

\* A request is in one place of the queue or the batch.
PlacedOnce(q, b) == IsInjective(q) /\ IsInjective(b) /\ ToSet(q) \cap ToSet(b) = {}

ControlInv ==
  /\ sched.pc \in Busy => sched.batch # <<>>
  /\ sched.pc \in {"recv", "dead"} => sched.batch = <<>>
  /\ sched.pc = "dead" => queue = <<>>
  /\ pl.op = "none" <=> sched.pc # "run"
  /\ PlacedOnce(queue, sched.batch)

RequestsInv ==
  \A r \in Requests : ReqOk(http[r], RoleIn(r, queue, sched.batch, Phase(sched.pc, pl.op)))

CountedFinite == IsFiniteSet({r \in Requests : http[r].st = "counted"})

FrontInv == FrontType /\ ControlInv /\ RequestsInv /\ PendingExact /\ CountedFinite

LEMMA SeqEnds ==
  ASSUME NEW S, NEW s \in Seq(S)
  PROVE  /\ Len(s) \in Nat /\ DOMAIN s = 1 .. Len(s) /\ (s = <<>> <=> Len(s) = 0)
         /\ \A i \in DOMAIN s : s[i] \in S
         /\ \A x \in S : /\ Append(s, x) # <<>> /\ Len(Append(s, x)) = Len(s) + 1
                         /\ DOMAIN Append(s, x) = 1 .. Len(s) + 1
                         /\ Append(s, x)[Len(s) + 1] = x
                         /\ \A i \in 1 .. Len(s) : Append(s, x)[i] = s[i]
                         /\ Append(<<>>, x) = <<x>>
         /\ s # <<>> => /\ Head(s) = s[1] /\ 1 \in DOMAIN s /\ Tail(s) \in Seq(S)
                       /\ Len(Tail(s)) = Len(s) - 1 /\ DOMAIN Tail(s) = 1 .. Len(s) - 1
                       /\ \A i \in 1 .. Len(s) - 1 : Tail(s)[i] = s[i + 1]
  <1>1. /\ Len(s) \in Nat /\ DOMAIN s = 1 .. Len(s) /\ (s = <<>> <=> Len(s) = 0)
        /\ \A i \in DOMAIN s : s[i] \in S
    OBVIOUS
  <1>2. ASSUME NEW x \in S
        PROVE  /\ Append(s, x) # <<>> /\ Len(Append(s, x)) = Len(s) + 1
               /\ DOMAIN Append(s, x) = 1 .. Len(s) + 1
               /\ Append(s, x)[Len(s) + 1] = x
               /\ \A i \in 1 .. Len(s) : Append(s, x)[i] = s[i]
               /\ Append(<<>>, x) = <<x>>
    OBVIOUS
  <1>3. ASSUME s # <<>>
        PROVE  /\ Head(s) = s[1] /\ 1 \in DOMAIN s /\ Tail(s) \in Seq(S)
               /\ Len(Tail(s)) = Len(s) - 1 /\ DOMAIN Tail(s) = 1 .. Len(s) - 1
               /\ \A i \in 1 .. Len(s) - 1 : Tail(s)[i] = s[i + 1]
    BY <1>3
  <1> QED BY <1>1, <1>2, <1>3

LEMMA SetsOfSeq ==
  ASSUME NEW S, NEW s \in Seq(S)
  PROVE  /\ ToSet(s) \subseteq S /\ ToSet(<<>>) = {} /\ IsInjective(<<>>)
         /\ \A x \in S : /\ ToSet(Append(s, x)) = ToSet(s) \cup {x}
                         /\ IsInjective(s) /\ x \notin ToSet(s) => IsInjective(Append(s, x))
         /\ s # <<>> /\ IsInjective(s) =>
              /\ Head(s) \in ToSet(s) /\ ToSet(Tail(s)) = ToSet(s) \ {Head(s)}
              /\ IsInjective(Tail(s))
  <1>1. ToSet(s) \subseteq S /\ ToSet(<<>>) = {} /\ IsInjective(<<>>)
    BY DEF ToSet, IsInjective
  <1>2. ASSUME NEW x \in S
        PROVE  /\ ToSet(Append(s, x)) = ToSet(s) \cup {x}
               /\ IsInjective(s) /\ x \notin ToSet(s) => IsInjective(Append(s, x))
    <2> DEFINE t == Append(s, x)
               n == Len(s)
    <2>1. /\ n \in Nat /\ DOMAIN s = 1 .. n /\ DOMAIN t = 1 .. n + 1 /\ t[n + 1] = x
          /\ \A i \in 1 .. n : t[i] = s[i]
      BY SeqEnds
    <2> HIDE DEF t, n
    <2>2. \A i \in 1 .. n + 1 : i = n + 1 \/ i \in 1 .. n
      BY <2>1
    <2>3. n + 1 \in 1 .. n + 1 /\ 1 .. n \subseteq 1 .. n + 1
      BY <2>1
    <2>4. ToSet(t) = ToSet(s) \cup {x}
      BY <2>1, <2>2, <2>3 DEF ToSet
    <2>5. ASSUME IsInjective(s), x \notin ToSet(s) PROVE IsInjective(t)
      BY <2>1, <2>2, <2>5 DEF IsInjective, ToSet
    <2> QED BY <2>4, <2>5 DEF t
  <1>3. ASSUME s # <<>>, IsInjective(s)
        PROVE  /\ Head(s) \in ToSet(s) /\ ToSet(Tail(s)) = ToSet(s) \ {Head(s)}
               /\ IsInjective(Tail(s))
    <2> DEFINE t == Tail(s)
               n == Len(s)
    <2>1. /\ n \in Nat /\ n # 0 /\ DOMAIN s = 1 .. n /\ Head(s) = s[1]
          /\ DOMAIN t = 1 .. n - 1
          /\ \A i \in 1 .. n - 1 : t[i] = s[i + 1]
      BY <1>3, SeqEnds
    <2> HIDE DEF t, n
    <2>2. \A i \in 1 .. n - 1 : i + 1 \in 1 .. n /\ i + 1 # 1
      BY <2>1
    <2>3. \A i \in 1 .. n : i # 1 => i - 1 \in 1 .. n - 1 /\ t[i - 1] = s[i]
      BY <2>1
    <2>4. 1 \in 1 .. n
      BY <2>1
    <2>5. Head(s) \in ToSet(s)
      BY <2>1, <2>4 DEF ToSet
    <2>6. ToSet(t) \subseteq ToSet(s) \ {Head(s)}
      BY <1>3, <2>1, <2>2, <2>4 DEF ToSet, IsInjective
    <2>7. ToSet(s) \ {Head(s)} \subseteq ToSet(t)
      <3> SUFFICES ASSUME NEW i \in 1 .. n, s[i] # s[1] PROVE s[i] \in ToSet(t)
        BY <2>1 DEF ToSet
      <3>1. i - 1 \in DOMAIN t /\ t[i - 1] = s[i]
        BY <2>1, <2>3
      <3> QED BY <3>1 DEF ToSet
    <2>8. IsInjective(t)
      <3> SUFFICES ASSUME NEW i \in 1 .. n - 1, NEW j \in 1 .. n - 1, t[i] = t[j] PROVE i = j
        BY <2>1 DEF IsInjective
      <3>1. i + 1 = j + 1
        BY <1>3, <2>1, <2>2 DEF IsInjective
      <3> QED BY <3>1
    <2> QED BY <2>5, <2>6, <2>7, <2>8 DEF t
  <1> QED BY <1>1, <1>2, <1>3

LEMMA RoleOfRest ==
  ASSUME NEW q \in Seq(Requests), NEW b \in Seq(Requests), PlacedOnce(q, b), b # <<>>,
         NEW phase, NEW other, NEW r \in Requests, r # Head(b)
  PROVE  /\ RoleIn(r, q, b, phase) = RoleIn(r, q, b, other)
         /\ RoleIn(r, q, Tail(b), "wait") = RoleIn(r, q, b, phase)
  <1>1. ToSet(Tail(b)) = ToSet(b) \ {Head(b)}
    BY SetsOfSeq DEF PlacedOnce
  <1> QED BY <1>1 DEF RoleIn

LEMMA RoleOfHead ==
  ASSUME NEW q \in Seq(Requests), NEW b \in Seq(Requests), PlacedOnce(q, b), b # <<>>,
         NEW phase
  PROVE  /\ Head(b) \in Requests
         /\ RoleIn(Head(b), q, b, phase) = phase
         /\ RoleIn(Head(b), q, Tail(b), "wait") = "out"
         /\ Tail(b) \in Seq(Requests) /\ PlacedOnce(q, Tail(b))
         /\ Len(b) = Len(Tail(b)) + 1
  <1>1. /\ ToSet(Tail(b)) = ToSet(b) \ {Head(b)} /\ Head(b) \in ToSet(b)
        /\ ToSet(b) \subseteq Requests /\ IsInjective(Tail(b))
    BY SetsOfSeq DEF PlacedOnce
  <1>2. Tail(b) \in Seq(Requests) /\ Len(b) = Len(Tail(b)) + 1
    BY SeqEnds
  <1>3. Head(b) \notin ToSet(q)
    BY <1>1 DEF PlacedOnce
  <1> QED BY <1>1, <1>2, <1>3 DEF RoleIn, PlacedOnce

LEMMA HttpIs ==
  ASSUME NEW h \in Https
  PROVE  /\ h.st \in Statuses /\ h.stream \in BOOLEAN /\ h.answer \in Answers
         /\ h.chan \in Seq(Events) /\ h.got \in Seq(Events) /\ h.text \in Nat
         /\ Len(h.chan) \in Nat /\ Len(h.got) \in Nat
  BY DEF Https

\* Nothing was sent to a request that was not touched.
LEMMA UntouchedOk ==
  ASSUME NEW h \in Https, Untouched(h), NEW role, role # "emit" \/ h.st # "streaming",
         role # "last" \/ h.st # "streaming"
  PROVE  StreamOk(h, role)
  <1>1. Len(h.got) = 0 /\ Len(h.chan) = 0 /\ h.text = 0
    BY DEF Untouched
  <1>2. StreamIs(h, 0) /\ Total(h) = 0
    BY <1>1 DEF StreamIs, Fits, Total
  <1> QED BY <1>1, <1>2 DEF StreamOk

-----------------------------------------------------------------------------
(* What a step does to the requests *)

LEMMA FrontIs ==
  ASSUME FrontInv
  PROVE  /\ queue \in Seq(Requests) /\ sched.batch \in Seq(Requests) /\ sched.pc \in Pcs
         /\ sched.next \in Nodes /\ backend \in {"local", "remote"}
         /\ sched = [pc |-> sched.pc, batch |-> sched.batch, next |-> sched.next]
         /\ gen.result \in {None, "ok", "error"}
         /\ PlacedOnce(queue, sched.batch)
         /\ \A r \in Requests :
              /\ http[r] \in Https
              /\ ReqOk(http[r], RoleIn(r, queue, sched.batch, Phase(sched.pc, pl.op)))
  BY DEF FrontInv, FrontType, ControlInv, RequestsInv, Gens

\* One request changes and keeps its part, the others keep theirs.
LEMMA RequestMoves ==
  ASSUME FrontInv, NEW r \in Requests, NEW h \in Https, http' = [http EXCEPT ![r] = h],
         ReqOk(h, RoleIn(r, queue', sched'.batch, Phase(sched'.pc, pl'.op))),
         \A s \in Requests : s # r =>
            RoleIn(s, queue', sched'.batch, Phase(sched'.pc, pl'.op))
              = RoleIn(s, queue, sched.batch, Phase(sched.pc, pl.op))
  PROVE  http' \in [Requests -> Https] /\ RequestsInv'
  <1>1. http \in [Requests -> Https]
    BY DEF FrontInv, FrontType
  <1>2. http' \in [Requests -> Https] /\ \A s \in Requests : http'[s] = IF s = r THEN h ELSE http[s]
    BY <1>1
  <1>3. ASSUME NEW s \in Requests
        PROVE  ReqOk(http'[s], RoleIn(s, queue', sched'.batch, Phase(sched'.pc, pl'.op)))
    <2>1. CASE s = r
      BY <1>2, <2>1
    <2>2. CASE s # r
      <3>1. ReqOk(http[s], RoleIn(s, queue, sched.batch, Phase(sched.pc, pl.op)))
        BY FrontIs
      <3> QED BY <1>2, <2>2, <3>1
    <2> QED BY <2>1, <2>2
  <1> QED BY <1>2, <1>3 DEF RequestsInv

\* The scheduler works on the first request of its batch.
LEMMA JobMoves ==
  ASSUME FrontInv, sched.batch # <<>>, NEW h \in Https, http' = [http EXCEPT ![Job] = h],
         queue' = queue, sched'.batch = sched.batch, ReqOk(h, Phase(sched'.pc, pl'.op))
  PROVE  http' \in [Requests -> Https] /\ RequestsInv'
  <1> DEFINE b == sched.batch
             p == Phase(sched.pc, pl.op)
             n == Phase(sched'.pc, pl'.op)
  <1>1. queue \in Seq(Requests) /\ b \in Seq(Requests) /\ PlacedOnce(queue, b) /\ b # <<>>
    BY FrontIs
  <1> HIDE DEF b, n, p
  <1>2. Head(b) \in Requests /\ RoleIn(Head(b), queue, b, n) = n
    BY <1>1, RoleOfHead
  <1>3. \A s \in Requests : s # Head(b) => RoleIn(s, queue, b, n) = RoleIn(s, queue, b, p)
    BY <1>1, RoleOfRest
  <1>4. ReqOk(h, RoleIn(Head(b), queue', sched'.batch, n))
    BY <1>2 DEF b, n
  <1>5. \A s \in Requests : s # Head(b) =>
          RoleIn(s, queue', sched'.batch, n) = RoleIn(s, queue, b, p)
    BY <1>3 DEF b
  <1> QED BY <1>2, <1>4, <1>5, RequestMoves DEF Job, b, n, p

\* The scheduler is done with it.
LEMMA JobDropped ==
  ASSUME FrontInv, sched.batch # <<>>, NEW h \in Https, http' = [http EXCEPT ![Job] = h],
         queue' = queue, sched'.batch = Tail(sched.batch), sched'.pc = "dispatch",
         ReqOk(h, "out")
  PROVE  http' \in [Requests -> Https] /\ RequestsInv'
  <1> DEFINE b == sched.batch
             p == Phase(sched.pc, pl.op)
             n == Phase(sched'.pc, pl'.op)
  <1>1. queue \in Seq(Requests) /\ b \in Seq(Requests) /\ PlacedOnce(queue, b) /\ b # <<>>
    BY FrontIs
  <1>2. n = "wait"
    BY DEF Phase
  <1>3. Head(b) \in Requests /\ RoleIn(Head(b), queue, Tail(b), "wait") = "out"
    BY <1>1, RoleOfHead
  <1>4. \A s \in Requests : s # Head(b) =>
           RoleIn(s, queue, Tail(b), "wait") = RoleIn(s, queue, b, p)
    BY <1>1, RoleOfRest
  <1> HIDE DEF n, p
  <1>5. ReqOk(h, RoleIn(Head(b), queue', sched'.batch, n))
    BY <1>2, <1>3
  <1>6. \A s \in Requests : s # Head(b) =>
          RoleIn(s, queue', sched'.batch, n) = RoleIn(s, queue, b, p)
    BY <1>2, <1>4
  <1> QED BY <1>3, <1>5, <1>6, RequestMoves DEF Job, n, p

LEMMA SameRequest ==
  ASSUME FrontInv, NEW r \in Requests, http' = http
  PROVE  http' = [http EXCEPT ![r] = http[r]]
  BY DEF FrontInv, FrontType

LEMMA JobIs ==
  ASSUME FrontInv, sched.batch # <<>>
  PROVE  /\ Job \in Requests /\ http[Job] \in Https
         /\ ReqOk(http[Job], Phase(sched.pc, pl.op))
  <1>1. /\ queue \in Seq(Requests) /\ sched.batch \in Seq(Requests)
        /\ PlacedOnce(queue, sched.batch)
    BY FrontIs
  <1> DEFINE p == Phase(sched.pc, pl.op)
  <1> HIDE DEF p
  <1>2. /\ Head(sched.batch) \in Requests
        /\ RoleIn(Head(sched.batch), queue, sched.batch, p) = p
    BY <1>1, RoleOfHead
  <1> QED BY <1>2, FrontIs DEF Job, p

\* The count follows the requests.
LEMMA CountSame ==
  ASSUME FrontInv, \A r \in Requests : http'[r].st = "counted" <=> http[r].st = "counted",
         pending' - Len(queue') - Len(sched'.batch) = pending - Len(queue) - Len(sched.batch),
         Len(queue') \in Nat, Len(sched'.batch) \in Nat, pending' \in Int
  PROVE  PendingExact' /\ CountedFinite'
  <1> DEFINE C == {r \in Requests : http[r].st = "counted"}
             D == {r \in Requests : http'[r].st = "counted"}
  <1>1. D = C
    OBVIOUS
  <1>2. IsFiniteSet(C)
    BY DEF FrontInv, CountedFinite
  <1>3. Cardinality(C) \in Nat
    BY <1>2, FS_CardinalityType
  <1>4. Cardinality(D) = Cardinality(C) /\ IsFiniteSet(D)
    BY <1>1, <1>2
  <1>5. pending = Len(queue) + Len(sched.batch) + Cardinality(C)
    BY DEF FrontInv, PendingExact
  <1>6. Len(queue) \in Nat /\ Len(sched.batch) \in Nat
    BY FrontIs, SeqEnds
  <1> HIDE DEF C, D
  <1>7. pending' = Len(queue') + Len(sched'.batch) + Cardinality(D)
    BY <1>3, <1>4, <1>5, <1>6
  <1> QED BY <1>4, <1>7 DEF PendingExact, CountedFinite, D

-----------------------------------------------------------------------------
(* What a step does to one request *)

Roles == {"out", "wait", "first", "work", "emit", "last"}

LEMMA ShapeKept ==
  ASSUME NEW e, NEW k \in Nat, NEW n \in Nat, NEW m \in Nat, NEW t, NEW u,
         Shape(e, k, n, t), k <= n, n <= m
  PROVE  Shape(e, k, m, u)
  BY DEF Shape

\* An event is sent.
LEMMA StreamAppend ==
  ASSUME NEW h \in Https, NEW g \in Https, NEW m \in Nat, NEW e \in Events,
         g.got = h.got, g.chan = Append(h.chan, e), Fits(h, m, g.text),
         Shape(e, Total(h) + 1, m, g.text)
  PROVE  StreamIs(g, m) /\ Total(g) = Total(h) + 1
  <1> DEFINE a == Len(h.got)
             l == Len(h.chan)
             c == g.chan
  <1>1. /\ l \in Nat /\ a \in Nat /\ Len(g.got) = a /\ Len(c) = l + 1 /\ c[l + 1] = e
        /\ \A k \in 1 .. l : c[k] = h.chan[k]
    BY HttpIs, SeqEnds
  <1>2. Total(h) = a + l /\ Total(g) = Len(g.got) + Len(c)
    BY DEF Total
  <1>3. /\ \A k \in 1 .. a : Shape(h.got[k], k, m, g.text)
        /\ \A k \in 1 .. l : Shape(h.chan[k], a + k, m, g.text)
    BY DEF Fits
  <1> HIDE DEF a, l, c
  <1>4. ASSUME NEW k \in 1 .. l + 1 PROVE Shape(c[k], a + k, m, g.text)
    <2>1. CASE k = l + 1
      <3>1. a + k = Total(h) + 1
        BY ONLY <1>1, <1>2, <2>1
      <3> QED BY <1>1, <2>1, <3>1
    <2>2. CASE k # l + 1
      BY <1>1, <1>3, <2>2
    <2> QED BY <2>1, <2>2
  <1>5. Total(g) = Total(h) + 1
    BY ONLY <1>1, <1>2
  <1> QED BY <1>1, <1>3, <1>4, <1>5 DEF StreamIs, Fits, a, c

\* A stream that consists of pieces fits a longer text.
LEMMA StreamOfPieces ==
  ASSUME NEW h \in Https, NEW n \in Nat, NEW m \in Nat, NEW u, StreamIs(h, n), Total(h) <= n,
         n <= m
  PROVE  Fits(h, m, u)
  <1> DEFINE a == Len(h.got)
             l == Len(h.chan)
  <1>1. l \in Nat /\ a \in Nat /\ a + l <= n
    BY HttpIs DEF Total
  <1>2. /\ \A k \in 1 .. a : Shape(h.got[k], k, n, h.text)
        /\ \A k \in 1 .. l : Shape(h.chan[k], a + k, n, h.text)
    BY DEF StreamIs, Fits
  <1> HIDE DEF a, l
  <1>3. ASSUME NEW k \in 1 .. a PROVE Shape(h.got[k], k, m, u)
    <2>1. k \in Nat /\ k <= n
      BY <1>1
    <2> QED BY <1>2, <2>1, ShapeKept
  <1>4. ASSUME NEW k \in 1 .. l PROVE Shape(h.chan[k], a + k, m, u)
    <2>1. a + k \in Nat /\ a + k <= n
      BY <1>1
    <2> QED BY <1>2, <2>1, ShapeKept
  <1> QED BY <1>3, <1>4 DEF Fits, a, l

\* A request the scheduler lets go of.
LEMMA OutOk ==
  ASSUME NEW h \in Https, NEW role \in Roles, ReqOk(h, role)
  PROVE  ReqOk(h, "out")
  <1>1. PICK n \in 0 .. h.text : StreamIs(h, n)
    BY DEF ReqOk, StreamOk
  <1>2. StreamOk(h, "out")
    BY <1>1 DEF StreamOk
  <1> QED BY <1>2 DEF ReqOk, Roles

\* A request that is answered.
LEMMA EndedOk ==
  ASSUME NEW h \in Https, NEW g \in Https, NEW role \in Roles, ReqOk(h, role),
         g.st = "ended", g.stream = h.stream, g.chan = h.chan, g.got = h.got, g.text = h.text
  PROVE  ReqOk(g, "out")
  <1>1. PICK n \in 0 .. h.text : StreamIs(h, n)
    BY DEF ReqOk, StreamOk
  <1>2. StreamIs(g, n)
    BY <1>1 DEF StreamIs, Fits
  <1>3. StreamOk(g, "out")
    BY <1>2 DEF StreamOk
  <1> QED BY <1>3 DEF ReqOk

\* A request that is counted, or waits from now on.
LEMMA AdmittedOk ==
  ASSUME NEW g \in Https, Untouched(g),
         NEW role, \/ g.st = "counted" /\ role = "out"
                   \/ g.st = "waiting" /\ role = "wait"
  PROVE  ReqOk(g, role)
  <1>1. StreamOk(g, role)
    BY UntouchedOk
  <1> QED BY <1>1 DEF ReqOk, Untouched

\* A client that leaves.
LEMMA LeftOk ==
  ASSUME NEW h \in Https, NEW g \in Https, NEW role \in Roles, ReqOk(h, role),
         h.st \in {"waiting", "streaming"},
         g.st = "left", g.stream = h.stream, g.chan = <<>>, g.got = h.got, g.text = h.text
  PROVE  ReqOk(g, role)
  <1>1. PICK n \in 0 .. h.text : StreamIs(h, n) /\ (role \in {"work", "emit"} => Total(h) <= n)
    BY DEF ReqOk, StreamOk
  <1> DEFINE a == Len(h.got)
             l == Len(h.chan)
  <1>2. /\ Len(g.chan) = 0 /\ Len(g.got) = a /\ l \in Nat /\ a \in Nat /\ n \in Nat
        /\ Total(h) = a + l /\ Total(g) = Len(g.got) + Len(g.chan)
    BY HttpIs DEF Total
  <1>b. \A k \in 1 .. Len(g.got) : Shape(g.got[k], k, n, g.text)
    BY <1>1 DEF StreamIs, Fits
  <1>c. \A k \in 1 .. Len(g.chan) : Shape(g.chan[k], Len(g.got) + k, n, g.text)
    BY <1>2
  <1>3. StreamIs(g, n)
    BY <1>b, <1>c DEF StreamIs, Fits
  <1>a. Total(g) <= Total(h) /\ Total(g) \in Nat /\ Total(h) \in Nat
    <2> HIDE DEF a, l
    <2> QED BY ONLY <1>2
  <1>4. StreamOk(g, role)
    <2>1. ASSUME role \in {"work", "emit"} PROVE Total(g) <= n
      <3>1. Total(h) <= n
        BY <1>1, <2>1
      <3>2. n \in Nat
        BY <1>2
      <3> QED BY ONLY <3>1, <3>2, <1>a
    <2>2. n \in 0 .. g.text
      OBVIOUS
    <2> QED BY <1>3, <2>1, <2>2 DEF StreamOk
  <1> QED BY <1>4 DEF ReqOk, Untouched

\* A client that reads the next event.
LEMMA ReadOk ==
  ASSUME NEW h \in Https, NEW g \in Https, NEW role \in Roles, ReqOk(h, role),
         h.st = "streaming", h.chan # <<>>, g.st = h.st, g.stream = h.stream,
         g.chan = Tail(h.chan), g.got = Append(h.got, Head(h.chan)), g.text = h.text
  PROVE  ReqOk(g, role)
  <1>1. PICK n \in 0 .. h.text :
          /\ StreamIs(h, n)
          /\ role \in {"work", "emit"} => Total(h) <= n
          /\ role = "work" => Total(h) = n /\ n = h.text
          /\ role = "emit" => Total(h) = n /\ n + 1 = h.text
          /\ role = "last" => Total(h) = n + 1
    BY DEF ReqOk, StreamOk
  <1> DEFINE a == Len(h.got)
             l == Len(h.chan)
  <1>2. /\ l \in Nat /\ l # 0 /\ a \in Nat /\ Head(h.chan) = h.chan[1]
        /\ Head(h.chan) \in Events
        /\ Len(g.chan) = l - 1 /\ \A k \in 1 .. l - 1 : g.chan[k] = h.chan[k + 1]
    BY HttpIs, SeqEnds
  <1>3. /\ Len(g.got) = a + 1 /\ g.got[a + 1] = h.chan[1]
        /\ \A k \in 1 .. a : g.got[k] = h.got[k]
    BY <1>2, HttpIs, SeqEnds
  <1>b. /\ \A k \in 1 .. a : Shape(h.got[k], k, n, g.text)
        /\ \A k \in 1 .. l : Shape(h.chan[k], a + k, n, g.text)
    BY <1>1 DEF StreamIs, Fits
  <1>c. Total(h) = a + l /\ Total(g) = Len(g.got) + Len(g.chan)
    BY DEF Total
  <1> HIDE DEF a, l
  <1>4. Total(g) = Total(h)
    BY ONLY <1>2, <1>3, <1>c
  <1>5. ASSUME NEW k \in 1 .. a + 1 PROVE Shape(g.got[k], k, n, g.text)
    <2>1. CASE k = a + 1
      <3>1. 1 \in 1 .. l
        BY <1>2
      <3> QED BY <1>b, <1>2, <1>3, <2>1, <3>1
    <2>2. CASE k # a + 1
      BY <1>b, <1>2, <1>3, <2>2
    <2> QED BY <2>1, <2>2
  <1>6. ASSUME NEW k \in 1 .. l - 1 PROVE Shape(g.chan[k], (a + 1) + k, n, g.text)
    <2>1. k + 1 \in 1 .. l /\ g.chan[k] = h.chan[k + 1] /\ (a + 1) + k = a + (k + 1)
      BY <1>2
    <2> QED BY <1>b, <2>1
  <1>7. StreamIs(g, n)
    BY <1>2, <1>3, <1>5, <1>6 DEF StreamIs, Fits
  <1>8. StreamOk(g, role)
    BY <1>1, <1>4, <1>7 DEF StreamOk
  <1>9. h.stream /\ role \notin {"wait", "first"}
    BY DEF ReqOk
  <1> QED BY <1>8, <1>9 DEF ReqOk

LEMMA EventIs ==
  ASSUME NEW k \in Nat
  PROVE  /\ Piece(k) \in Events /\ Event("stop") \in Events /\ Event("error") \in Events
         /\ Event("done") \in Events
  BY DEF Piece, Event, Events

\* A request whose turn comes.
LEMMA ExecutedOk ==
  ASSUME NEW h \in Https, ReqOk(h, "wait"), h.st # "left"
  PROVE  /\ h.stream => ReqOk(h, "first")
         /\ ~h.stream => ReqOk(h, "work")
  <1>1. Untouched(h) /\ h.st = "waiting"
    BY DEF ReqOk
  <1>2. StreamOk(h, "first") /\ StreamOk(h, "work")
    BY <1>1, UntouchedOk
  <1> QED BY <1>1, <1>2 DEF ReqOk

\* The response of a stream is sent.
LEMMA RespondedOk ==
  ASSUME NEW h \in Https, NEW g \in Https, ReqOk(h, "first"), g.st = "streaming",
         g.stream = h.stream, g.chan = h.chan, g.got = h.got, g.text = h.text
  PROVE  ReqOk(g, "work")
  <1>1. Untouched(g) /\ h.stream
    BY DEF ReqOk, Untouched
  <1>2. StreamOk(g, "work")
    BY <1>1, UntouchedOk
  <1> QED BY <1>1, <1>2 DEF ReqOk

\* A piece is generated.
LEMMA SampledOk ==
  ASSUME NEW h \in Https, NEW g \in Https, ReqOk(h, "work"), g.st = h.st,
         g.stream = h.stream, g.chan = h.chan, g.got = h.got, g.text = h.text + 1
  PROVE  ReqOk(g, "emit") /\ (h.st # "streaming" => ReqOk(g, "work"))
  <1>1. PICK n \in 0 .. h.text :
          StreamIs(h, n) /\ Total(h) <= n /\ (h.st = "streaming" => Total(h) = n /\ n = h.text)
    BY DEF ReqOk, StreamOk
  <1>2. h.text \in Nat /\ n \in Nat /\ n <= n
    BY HttpIs
  <1>3. Fits(h, n, g.text)
    BY <1>1, <1>2, StreamOfPieces
  <1>4. StreamIs(g, n) /\ Total(g) = Total(h)
    BY <1>3 DEF StreamIs, Fits, Total
  <1>5. n \in 0 .. g.text /\ (h.st = "streaming" => n + 1 = g.text)
    BY <1>1, <1>2
  <1>6. StreamOk(g, "emit") /\ (h.st # "streaming" => StreamOk(g, "work"))
    BY <1>1, <1>4, <1>5 DEF StreamOk
  <1> QED BY <1>6 DEF ReqOk

\* A piece need not be sent.
LEMMA UnsentOk ==
  ASSUME NEW h \in Https, ReqOk(h, "emit"), h.st # "streaming"
  PROVE  ReqOk(h, "work")
  <1>1. StreamOk(h, "work")
    BY DEF ReqOk, StreamOk
  <1> QED BY <1>1 DEF ReqOk

\* A piece is sent: the one that was pending, or one that is new.
LEMMA SentOk ==
  ASSUME NEW h \in Https, NEW g \in Https, h.st = "streaming", g.st = "streaming",
         g.stream = h.stream, g.got = h.got, g.chan = Append(h.chan, Piece(g.text)),
         \/ ReqOk(h, "emit") /\ g.text = h.text
         \/ ReqOk(h, "work") /\ g.text = h.text + 1
  PROVE  ReqOk(g, "work")
  <1>1. PICK n \in 0 .. h.text : StreamIs(h, n) /\ Total(h) = n /\ g.text = n + 1
    BY DEF ReqOk, StreamOk
  <1> DEFINE m == n + 1
  <1>2. h.text \in Nat /\ g.text \in Nat /\ n \in Nat /\ m \in Nat /\ n <= m
    BY HttpIs
  <1>3. Total(h) <= n
    BY <1>1, <1>2
  <1>4. Fits(h, m, g.text)
    <2> HIDE DEF m
    <2> QED BY <1>1, <1>2, <1>3, StreamOfPieces
  <1>5. Shape(Piece(m), Total(h) + 1, m, g.text)
    BY <1>1, <1>2 DEF Shape
  <1>6. Piece(m) \in Events
    BY <1>2, EventIs
  <1>7. g.chan = Append(h.chan, Piece(m)) /\ g.text = m /\ Total(h) + 1 = m
    BY <1>1, <1>2
  <1> HIDE DEF m
  <1>8. StreamIs(g, m) /\ Total(g) = m
    BY <1>2, <1>4, <1>5, <1>6, <1>7, StreamAppend
  <1>9. StreamOk(g, "work")
    <2>1. m \in 0 .. g.text /\ m <= m
      BY <1>2, <1>7
    <2> QED BY <1>7, <1>8, <2>1 DEF StreamOk
  <1>10. h.stream
    BY DEF ReqOk
  <1> QED BY <1>9, <1>10 DEF ReqOk

\* The finish reason of a stream, or none because its client left.
LEMMA FinishedOk ==
  ASSUME NEW h \in Https, ReqOk(h, "work"), h.stream
  PROVE  /\ h.st = "left" => ReqOk(h, "last")
         /\ \A g \in Https, e \in {Event("stop"), Event("error")} :
              h.st # "left" /\ g.st = h.st /\ g.stream = h.stream /\ g.text = h.text
                /\ g.got = h.got /\ g.chan = Append(h.chan, e) => ReqOk(g, "last")
  <1>1. ASSUME h.st = "left" PROVE ReqOk(h, "last")
    <2>1. StreamOk(h, "last")
      BY <1>1 DEF ReqOk, StreamOk
    <2> QED BY <1>1, <2>1 DEF ReqOk
  <1>2. ASSUME NEW g \in Https, NEW e \in {Event("stop"), Event("error")}, h.st # "left",
               g.st = h.st, g.stream = h.stream, g.text = h.text, g.got = h.got,
               g.chan = Append(h.chan, e)
        PROVE  ReqOk(g, "last")
    <2>1. h.st = "streaming"
      BY <1>2 DEF ReqOk
    <2>2. PICK n \in 0 .. h.text : StreamIs(h, n) /\ Total(h) = n /\ n = h.text
      BY <2>1 DEF ReqOk, StreamOk
    <2>3. n \in Nat /\ Fits(h, n, g.text) /\ n = g.text
      BY <1>2, <2>2, HttpIs DEF StreamIs
    <2>4. Shape(e, n + 1, n, g.text)
      BY <2>3 DEF Shape
    <2>5. e \in Events
      BY EventIs
    <2>6. StreamIs(g, n) /\ Total(g) = n + 1
      BY <1>2, <2>2, <2>3, <2>4, <2>5, StreamAppend
    <2>7. StreamOk(g, "last")
      BY <2>2, <2>3, <2>6, <1>2 DEF StreamOk
    <2> QED BY <1>2, <2>1, <2>7 DEF ReqOk
  <1> QED BY <1>1, <1>2

\* [DONE].
LEMMA DoneOk ==
  ASSUME NEW h \in Https, NEW g \in Https, ReqOk(h, "last"), h.st # "left", g.st = h.st,
         g.stream = h.stream, g.text = h.text, g.got = h.got,
         g.chan = Append(h.chan, Event("done"))
  PROVE  ReqOk(g, "out")
  <1>1. h.st = "streaming" /\ h.stream
    BY DEF ReqOk
  <1>2. PICK n \in 0 .. h.text : StreamIs(h, n) /\ Total(h) = n + 1
    BY <1>1 DEF ReqOk, StreamOk
  <1>3. n \in Nat /\ Fits(h, n, g.text)
    BY <1>2, HttpIs DEF StreamIs
  <1>4. Shape(Event("done"), Total(h) + 1, n, g.text)
    BY <1>2, <1>3 DEF Shape
  <1>5. Event("done") \in Events
    BY EventIs
  <1>6. StreamIs(g, n)
    BY <1>3, <1>4, <1>5, StreamAppend
  <1>7. StreamOk(g, "out")
    BY <1>6 DEF StreamOk
  <1> QED BY <1>1, <1>7 DEF ReqOk

-----------------------------------------------------------------------------
(* The steps of the server *)

LEMMA RoleIs ==
  ASSUME FrontInv, NEW r \in Requests
  PROVE  RoleIn(r, queue, sched.batch, Phase(sched.pc, pl.op)) \in Roles
  BY DEF RoleIn, Phase, Roles

LEMMA LengthsAre ==
  ASSUME FrontInv
  PROVE  Len(queue) \in Nat /\ Len(sched.batch) \in Nat /\ pending \in Nat
  <1>1. Len(queue) \in Nat /\ Len(sched.batch) \in Nat
    BY FrontIs, SeqEnds
  <1>2. Cardinality({r \in Requests : http[r].st = "counted"}) \in Nat
    BY FS_CardinalityType DEF FrontInv, CountedFinite
  <1>3. pending = Len(queue) + Len(sched.batch)
                  + Cardinality({r \in Requests : http[r].st = "counted"})
    BY DEF FrontInv, PendingExact
  <1> QED BY <1>1, <1>2, <1>3

LEMMA HttpChanges ==
  ASSUME FrontInv, NEW r \in Requests, NEW h \in Https, http' = [http EXCEPT ![r] = h],
         h.st = "counted" <=> http[r].st = "counted"
  PROVE  \A s \in Requests : http'[s].st = "counted" <=> http[s].st = "counted"
  <1>1. \A s \in Requests : http'[s] = IF s = r THEN h ELSE http[s]
    BY DEF FrontInv, FrontType
  <1> QED BY <1>1

\* A client and its handler.
LEMMA ClientMoves ==
  ASSUME FrontInv, NEW r \in Requests, NEW h \in Https, http' = [http EXCEPT ![r] = h],
         UNCHANGED <<backend, queue, pending, sched, gen>>, pl' = pl,
         h.st = "counted" <=> http[r].st = "counted",
         ReqOk(h, RoleIn(r, queue, sched.batch, Phase(sched.pc, pl.op)))
  PROVE  FrontInv'
  <1>1. http' \in [Requests -> Https] /\ RequestsInv'
    BY RequestMoves
  <1>2. PendingExact' /\ CountedFinite'
    BY HttpChanges, LengthsAre, CountSame
  <1>3. FrontType' /\ ControlInv'
    BY <1>1 DEF FrontInv, FrontType, ControlInv
  <1> QED BY <1>1, <1>2, <1>3 DEF FrontInv

\* The scheduler goes on with the first request of its batch.
LEMMA JobStep ==
  ASSUME FrontInv, sched.batch # <<>>, NEW h \in Https, http' = [http EXCEPT ![Job] = h],
         UNCHANGED <<backend, queue, pending>>, gen' \in Gens,
         NEW pc \in Busy, sched' = [sched EXCEPT !.pc = pc],
         pl'.op = "none" <=> pc # "run",
         ReqOk(h, Phase(pc, pl'.op)), h.st # "counted", http[Job].st # "counted"
  PROVE  FrontInv'
  <1>0. pc \in Pcs /\ pc \notin {"recv", "dead"}
    BY DEF Busy, Pcs
  <1>1. sched' \in [pc : Pcs, batch : Seq(Requests), next : Nodes] /\ sched'.pc = pc
        /\ sched'.batch = sched.batch
    BY <1>0 DEF FrontInv, FrontType
  <1>2. http' \in [Requests -> Https] /\ RequestsInv'
    BY <1>1, JobMoves
  <1>3. Job \in Requests
    BY JobIs
  <1>4. PendingExact' /\ CountedFinite'
    BY <1>1, <1>3, HttpChanges, LengthsAre, CountSame
  <1>5. FrontType'
    BY <1>1, <1>2 DEF FrontInv, FrontType
  <1>6. ControlInv'
    BY <1>0, <1>1 DEF FrontInv, ControlInv
  <1> QED BY <1>2, <1>4, <1>5, <1>6 DEF FrontInv

\* The scheduler drops it.
LEMMA DropStep ==
  ASSUME FrontInv, sched.batch # <<>>, NEW h \in Https, http' = [http EXCEPT ![Job] = h],
         UNCHANGED <<backend, queue>>, pl' = pl, sched.pc # "run", DropJob,
         ReqOk(h, "out"), h.st # "counted", http[Job].st # "counted"
  PROVE  FrontInv'
  <1>0. "dispatch" \in Pcs
    BY DEF Pcs
  <1>1. /\ sched' = [sched EXCEPT !.pc = "dispatch", !.batch = Tail(sched.batch)]
        /\ pending' = pending - 1 /\ gen' = NoGeneration
    BY DEF DropJob
  <1>2. /\ Tail(sched.batch) \in Seq(Requests) /\ PlacedOnce(queue, Tail(sched.batch))
        /\ Len(sched.batch) = Len(Tail(sched.batch)) + 1
    BY FrontIs, RoleOfHead
  <1>3. sched' \in [pc : Pcs, batch : Seq(Requests), next : Nodes] /\ sched'.pc = "dispatch"
        /\ sched'.batch = Tail(sched.batch)
    BY <1>0, <1>1, <1>2 DEF FrontInv, FrontType
  <1>4. http' \in [Requests -> Https] /\ RequestsInv'
    BY <1>3, JobDropped
  <1>5. Job \in Requests
    BY JobIs
  <1>6. Len(Tail(sched.batch)) \in Nat
    BY <1>2, SeqEnds
  <1>7. PendingExact' /\ CountedFinite'
    <2>1. \A s \in Requests : http'[s].st = "counted" <=> http[s].st = "counted"
      BY <1>5, HttpChanges
    <2>2. /\ Len(queue') \in Nat /\ Len(sched'.batch) \in Nat /\ pending' \in Int
          /\ pending' - Len(queue') - Len(sched'.batch)
               = pending - Len(queue) - Len(sched.batch)
      BY <1>1, <1>2, <1>3, <1>6, LengthsAre
    <2> QED BY <2>1, <2>2, CountSame
  <1>8. NoGeneration \in Gens
    BY DEF NoGeneration, Gens
  <1>9. FrontType'
    BY <1>1, <1>3, <1>4, <1>8 DEF FrontInv, FrontType
  <1>10. ControlInv'
    BY <1>2, <1>3 DEF FrontInv, ControlInv, Busy
  <1> QED BY <1>4, <1>7, <1>9, <1>10 DEF FrontInv

LEMMA EndedIs ==
  ASSUME FrontInv, NEW r \in Requests, NEW a \in Answers, Ended(r, a)
  PROVE  \E g \in Https :
           /\ http' = [http EXCEPT ![r] = g] /\ g.st = "ended" /\ g.stream = http[r].stream
           /\ g.chan = http[r].chan /\ g.got = http[r].got /\ g.text = http[r].text
  <1> DEFINE g == [http[r] EXCEPT !.st = "ended", !.answer = a]
  <1>1. http[r] \in Https
    BY FrontIs
  <1>2. /\ g \in Https /\ g.st = "ended" /\ g.stream = http[r].stream
        /\ g.chan = http[r].chan /\ g.got = http[r].got /\ g.text = http[r].text
    BY <1>1 DEF Https, Statuses
  <1>3. http' = [http EXCEPT ![r] = g]
    BY DEF Ended
  <1> QED BY <1>2, <1>3

LEMMA BadRequestStep ==
  ASSUME FrontInv, NEW r \in Requests, BadRequest(r)
  PROVE  FrontInv'
  <1> DEFINE p == Phase(sched.pc, pl.op)
             role == RoleIn(r, queue, sched.batch, p)
  <1>1. http[r] \in Https /\ ReqOk(http[r], role) /\ role \in Roles
    BY FrontIs, RoleIs
  <1>2. http[r].st = "new" /\ UNCHANGED <<backend, queue, pending, sched, gen>> /\ pl' = pl
        /\ Ended(r, "400")
    BY DEF BadRequest, remoteVars
  <1>3. "400" \in Answers
    BY DEF Answers
  <1>4. PICK g \in Https :
          /\ http' = [http EXCEPT ![r] = g] /\ g.st = "ended" /\ g.stream = http[r].stream
          /\ g.chan = http[r].chan /\ g.got = http[r].got /\ g.text = http[r].text
    BY <1>2, <1>3, EndedIs
  <1> HIDE DEF role
  <1>5. role = "out"
    BY <1>1, <1>2 DEF ReqOk
  <1>6. ReqOk(g, role)
    BY <1>1, <1>4, <1>5, EndedOk
  <1> QED BY <1>2, <1>4, <1>6, ClientMoves DEF role

LEMMA StreamEndsStep ==
  ASSUME FrontInv, NEW r \in Requests, StreamEnds(r)
  PROVE  FrontInv'
  <1> DEFINE p == Phase(sched.pc, pl.op)
             role == RoleIn(r, queue, sched.batch, p)
  <1>1. http[r] \in Https /\ ReqOk(http[r], role) /\ role \in Roles
    BY FrontIs, RoleIs
  <1>2. /\ http[r].st = "streaming" /\ UNCHANGED <<backend, queue, pending, sched, gen>>
        /\ pl' = pl /\ ~Executing(r) /\ Ended(r, "200")
    BY DEF StreamEnds, remoteVars
  <1>3. "200" \in Answers
    BY DEF Answers
  <1>4. PICK g \in Https :
          /\ http' = [http EXCEPT ![r] = g] /\ g.st = "ended" /\ g.stream = http[r].stream
          /\ g.chan = http[r].chan /\ g.got = http[r].got /\ g.text = http[r].text
    BY <1>2, <1>3, EndedIs
  <1>a. role \in {"out", "wait"}
    BY <1>2 DEF RoleIn, Executing, Job
  <1> HIDE DEF role
  <1>5. role = "out"
    BY <1>1, <1>2, <1>a DEF ReqOk
  <1>6. ReqOk(g, role)
    BY <1>1, <1>4, <1>5, EndedOk
  <1> QED BY <1>2, <1>4, <1>6, ClientMoves DEF role

LEMMA LeaveStep ==
  ASSUME FrontInv, NEW r \in Requests, Leave(r)
  PROVE  FrontInv'
  <1> DEFINE p == Phase(sched.pc, pl.op)
             role == RoleIn(r, queue, sched.batch, p)
             g == [http[r] EXCEPT !.st = "left", !.chan = <<>>]
  <1>1. http[r] \in Https /\ ReqOk(http[r], role) /\ role \in Roles
    BY FrontIs, RoleIs
  <1>2. /\ http[r].st \in {"waiting", "streaming"} /\ http' = [http EXCEPT ![r] = g]
        /\ UNCHANGED <<backend, queue, pending, sched, gen>> /\ pl' = pl
    BY DEF Leave, remoteVars
  <1>a. <<>> \in Seq(Events) /\ "left" \in Statuses
    BY DEF Statuses
  <1>3. /\ g \in Https /\ g.st = "left" /\ g.stream = http[r].stream
        /\ g.chan = <<>> /\ g.got = http[r].got /\ g.text = http[r].text
    BY <1>1, <1>a DEF Https
  <1> HIDE DEF role, g
  <1>4. ReqOk(g, role)
    BY <1>1, <1>2, <1>3, LeftOk
  <1> QED BY <1>2, <1>3, <1>4, ClientMoves DEF role

LEMMA ReadEventStep ==
  ASSUME FrontInv, NEW r \in Requests, ReadEvent(r)
  PROVE  FrontInv'
  <1> DEFINE p == Phase(sched.pc, pl.op)
             role == RoleIn(r, queue, sched.batch, p)
             c == http[r].chan
             g == [http[r] EXCEPT !.chan = Tail(c), !.got = Append(http[r].got, Head(c))]
  <1>1. http[r] \in Https /\ ReqOk(http[r], role) /\ role \in Roles
    BY FrontIs, RoleIs
  <1>2. /\ http[r].st = "streaming" /\ c # <<>> /\ http' = [http EXCEPT ![r] = g]
        /\ UNCHANGED <<backend, queue, pending, sched, gen>> /\ pl' = pl
    BY DEF ReadEvent, remoteVars
  <1>3. Tail(c) \in Seq(Events) /\ Append(http[r].got, Head(c)) \in Seq(Events)
    BY <1>1, <1>2, HttpIs
  <1>4. /\ g \in Https /\ g.st = http[r].st /\ g.stream = http[r].stream
        /\ g.chan = Tail(c) /\ g.got = Append(http[r].got, Head(c))
        /\ g.text = http[r].text
    BY <1>1, <1>3 DEF Https
  <1> HIDE DEF role, g
  <1>5. ReqOk(g, role)
    BY <1>1, <1>2, <1>4, ReadOk
  <1> QED BY <1>2, <1>4, <1>5, ClientMoves DEF role

\* A request becomes, or is no longer, one that is being admitted.
LEMMA CountMoves ==
  ASSUME FrontInv, NEW r \in Requests, NEW h \in Https, http' = [http EXCEPT ![r] = h]
  PROVE  LET C == {s \in Requests : http[s].st = "counted"}
             D == {s \in Requests : http'[s].st = "counted"}
         IN  /\ IsFiniteSet(D) /\ Cardinality(C) \in Nat /\ Cardinality(D) \in Nat
             /\ h.st = "counted" /\ http[r].st # "counted" => Cardinality(D) = Cardinality(C) + 1
             /\ h.st # "counted" /\ http[r].st = "counted" => Cardinality(D) = Cardinality(C) - 1
  <1> DEFINE C == {s \in Requests : http[s].st = "counted"}
             D == {s \in Requests : http'[s].st = "counted"}
  <1>1. \A s \in Requests : http'[s] = IF s = r THEN h ELSE http[s]
    BY DEF FrontInv, FrontType
  <1>2. IsFiniteSet(C) /\ Cardinality(C) \in Nat
    BY FS_CardinalityType DEF FrontInv, CountedFinite
  <1>3. /\ h.st = "counted" => D = C \cup {r}
        /\ h.st # "counted" => D = C \ {r}
        /\ r \in C <=> http[r].st = "counted"
    BY <1>1
  <1> HIDE DEF C, D
  <1>4. /\ IsFiniteSet(C \cup {r})
        /\ r \notin C => Cardinality(C \cup {r}) = Cardinality(C) + 1
    BY <1>2, FS_AddElement
  <1>5. /\ IsFiniteSet(C \ {r})
        /\ r \in C => Cardinality(C \ {r}) = Cardinality(C) - 1
    BY <1>2, FS_RemoveElement
  <1>6. IsFiniteSet(D)
    BY <1>3, <1>4, <1>5
  <1>7. Cardinality(D) \in Nat
    BY <1>6, FS_CardinalityType
  <1> QED BY <1>2, <1>3, <1>4, <1>5, <1>6, <1>7 DEF C, D

LEMMA AdmitStep ==
  ASSUME FrontInv, NEW r \in Requests, NEW stream \in BOOLEAN, Admit(r, stream)
  PROVE  FrontInv'
  <1> DEFINE p == Phase(sched.pc, pl.op)
             role == RoleIn(r, queue, sched.batch, p)
             g == [http[r] EXCEPT !.st = "counted", !.stream = stream]
  <1>1. http[r] \in Https /\ ReqOk(http[r], role)
    BY FrontIs
  <1>2. /\ http[r].st = "new" /\ http' = [http EXCEPT ![r] = g] /\ pending' = pending + 1
        /\ UNCHANGED <<backend, queue, sched, gen>> /\ pl' = pl
    BY DEF Admit, remoteVars
  <1>3. /\ g \in Https /\ g.st = "counted"
        /\ g.chan = http[r].chan /\ g.got = http[r].got /\ g.text = http[r].text
    BY <1>1 DEF Https, Statuses
  <1> HIDE DEF role, g
  <1>4. role = "out" /\ Untouched(g)
    BY <1>1, <1>2, <1>3 DEF ReqOk, Untouched
  <1>5. ReqOk(g, role)
    BY <1>3, <1>4, AdmittedOk
  <1>6. http' \in [Requests -> Https] /\ RequestsInv'
    BY <1>2, <1>3, <1>5, RequestMoves DEF role
  <1>7. FrontType' /\ ControlInv'
    BY <1>2, <1>6 DEF FrontInv, FrontType, ControlInv
  <1>8. PendingExact' /\ CountedFinite'
    <2> DEFINE c == Cardinality({s \in Requests : http[s].st = "counted"})
               d == Cardinality({s \in Requests : http'[s].st = "counted"})
    <2>1. c \in Nat /\ d = c + 1 /\ IsFiniteSet({s \in Requests : http'[s].st = "counted"})
      BY <1>2, <1>3, CountMoves
    <2>2. pending = Len(queue) + Len(sched.batch) + c
      BY DEF FrontInv, PendingExact
    <2>3. Len(queue) \in Nat /\ Len(sched.batch) \in Nat
      BY LengthsAre
    <2> DEFINE a == Len(queue)
               l == Len(sched.batch)
    <2>4. Len(queue') = a /\ Len(sched'.batch) = l /\ pending' = a + l + c + 1
      BY <1>2, <2>2
    <2>5. a \in Nat /\ l \in Nat
      BY <2>3
    <2> HIDE DEF a, l, c, d
    <2>6. pending' = Len(queue') + Len(sched'.batch) + d
      BY ONLY <2>1, <2>4, <2>5
    <2> QED BY <2>1, <2>6 DEF PendingExact, CountedFinite, d
  <1> QED BY <1>6, <1>7, <1>8 DEF FrontInv

LEMMA RefusedStep ==
  ASSUME FrontInv, NEW r \in Requests, http[r].st = "counted",
         Ended(r, IF sched.pc = "dead" THEN "503" ELSE "429"), pending' = pending - 1,
         UNCHANGED <<backend, queue, sched, gen>>, pl' = pl
  PROVE  FrontInv'
  <1> DEFINE p == Phase(sched.pc, pl.op)
             role == RoleIn(r, queue, sched.batch, p)
             a == IF sched.pc = "dead" THEN "503" ELSE "429"
  <1>1. http[r] \in Https /\ ReqOk(http[r], role) /\ role \in Roles
    BY FrontIs, RoleIs
  <1>2. a \in Answers
    BY DEF Answers
  <1>3. Ended(r, a)
    OBVIOUS
  <1> HIDE DEF a
  <1>4. PICK g \in Https :
          /\ http' = [http EXCEPT ![r] = g] /\ g.st = "ended" /\ g.stream = http[r].stream
          /\ g.chan = http[r].chan /\ g.got = http[r].got /\ g.text = http[r].text
    BY <1>2, <1>3, EndedIs
  <1> HIDE DEF role
  <1>5. role = "out"
    BY <1>1 DEF ReqOk
  <1>6. ReqOk(g, role)
    BY <1>1, <1>4, <1>5, EndedOk
  <1>7. http' \in [Requests -> Https] /\ RequestsInv'
    BY <1>4, <1>6, RequestMoves DEF role
  <1>8. FrontType' /\ ControlInv'
    BY <1>7 DEF FrontInv, FrontType, ControlInv
  <1>9. PendingExact' /\ CountedFinite'
    <2> DEFINE c == Cardinality({s \in Requests : http[s].st = "counted"})
               d == Cardinality({s \in Requests : http'[s].st = "counted"})
    <2>1. c \in Nat /\ d = c - 1 /\ IsFiniteSet({s \in Requests : http'[s].st = "counted"})
      BY <1>4, CountMoves
    <2>2. pending = Len(queue) + Len(sched.batch) + c
      BY DEF FrontInv, PendingExact
    <2>3. Len(queue) \in Nat /\ Len(sched.batch) \in Nat
      BY LengthsAre
    <2> HIDE DEF c, d
    <2>4. pending' = Len(queue') + Len(sched'.batch) + d
      BY <2>1, <2>2, <2>3
    <2> QED BY <2>1, <2>4 DEF PendingExact, CountedFinite, d
  <1> QED BY <1>7, <1>8, <1>9 DEF FrontInv

LEMMA SubmittedStep ==
  ASSUME FrontInv, NEW r \in Requests, http[r].st = "counted", sched.pc # "dead",
         http' = [http EXCEPT ![r].st = "waiting"], queue' = Append(queue, r),
         UNCHANGED <<backend, pending, sched, gen>>, pl' = pl
  PROVE  FrontInv'
  <1> DEFINE p == Phase(sched.pc, pl.op)
             b == sched.batch
             role == RoleIn(r, queue, b, p)
             g == [http[r] EXCEPT !.st = "waiting"]
  <1>1. /\ http[r] \in Https /\ ReqOk(http[r], role) /\ PlacedOnce(queue, b)
        /\ queue \in Seq(Requests) /\ b \in Seq(Requests)
    BY FrontIs
  <1>2. http' = [http EXCEPT ![r] = g]
    OBVIOUS
  <1>3. /\ g \in Https /\ g.st = "waiting"
        /\ g.chan = http[r].chan /\ g.got = http[r].got /\ g.text = http[r].text
    BY <1>1 DEF Https, Statuses
  <1> HIDE DEF g
  <1>4. role = "out" /\ Untouched(g)
    BY <1>1, <1>3 DEF ReqOk, Untouched
  <1>5. ReqOk(g, "wait")
    BY <1>3, <1>4, AdmittedOk
  <1> HIDE DEF p
  <1>6. r \notin ToSet(queue) /\ r \notin ToSet(b)
    <2>1. p # "out"
      BY DEF p, Phase
    <2> QED BY <1>4, <2>1 DEF RoleIn
  <1>7. /\ ToSet(queue') = ToSet(queue) \cup {r} /\ IsInjective(queue')
        /\ queue' \in Seq(Requests) /\ Len(queue') = Len(queue) + 1
    <2>1. queue' \in Seq(Requests) /\ Len(queue') = Len(queue) + 1
      BY <1>1
    <2> QED BY <1>1, <1>6, <2>1, SetsOfSeq DEF PlacedOnce
  <1>8. PlacedOnce(queue', b)
    BY <1>1, <1>6, <1>7 DEF PlacedOnce
  <1>9. RoleIn(r, queue', b, p) = "wait"
    <2>1. b # <<>> => Head(b) \in ToSet(b)
      BY <1>1, SetsOfSeq DEF PlacedOnce
    <2> QED BY <1>6, <1>7, <2>1 DEF RoleIn
  <1>10. \A s \in Requests : s # r => RoleIn(s, queue', b, p) = RoleIn(s, queue, b, p)
    BY <1>7 DEF RoleIn
  <1>11. http' \in [Requests -> Https] /\ RequestsInv'
    BY <1>2, <1>3, <1>5, <1>9, <1>10, RequestMoves DEF p
  <1>12. FrontType' /\ ControlInv'
    BY <1>7, <1>8, <1>11 DEF FrontInv, FrontType, ControlInv
  <1>13. PendingExact' /\ CountedFinite'
    <2> DEFINE c == Cardinality({s \in Requests : http[s].st = "counted"})
               d == Cardinality({s \in Requests : http'[s].st = "counted"})
    <2>1. c \in Nat /\ d = c - 1 /\ IsFiniteSet({s \in Requests : http'[s].st = "counted"})
      BY <1>2, <1>3, CountMoves
    <2>2. pending = Len(queue) + Len(sched.batch) + c
      BY DEF FrontInv, PendingExact
    <2>3. Len(queue) \in Nat /\ Len(sched.batch) \in Nat
      BY LengthsAre
    <2> DEFINE a == Len(queue)
               l == Len(sched.batch)
               e == Len(queue')
    <2>4. e = a + 1 /\ Len(sched'.batch) = l /\ pending' = a + l + c
      BY <1>7, <2>2
    <2>5. a \in Nat /\ l \in Nat
      BY <2>3
    <2> HIDE DEF a, l, c, d, e
    <2>6. pending' = e + Len(sched'.batch) + d
      BY ONLY <2>1, <2>4, <2>5
    <2> QED BY <2>1, <2>6 DEF PendingExact, CountedFinite, d, e
  <1> QED BY <1>11, <1>12, <1>13 DEF FrontInv

LEMMA TrySubmitStep ==
  ASSUME FrontInv, NEW r \in Requests, TrySubmit(r)
  PROVE  FrontInv'
  <1>1. http[r].st = "counted" /\ UNCHANGED <<backend, sched, gen>> /\ pl' = pl
    BY DEF TrySubmit, remoteVars
  <1>2. \/ /\ sched.pc # "dead" /\ http' = [http EXCEPT ![r].st = "waiting"]
           /\ queue' = Append(queue, r) /\ UNCHANGED pending
        \/ /\ Ended(r, IF sched.pc = "dead" THEN "503" ELSE "429")
           /\ pending' = pending - 1 /\ UNCHANGED queue
    BY DEF TrySubmit
  <1> QED BY <1>1, <1>2, SubmittedStep, RefusedStep

\* Requests move from the queue to the batch, and none is executed.
LEMMA BatchMoves ==
  ASSUME FrontInv, http' = http, UNCHANGED <<backend, pending, gen>>, pl'.op = "none",
         sched.pc \in {"recv", "collect", "dispatch"},
         sched'.pc \in {"recv", "collect", "dispatch"},
         sched' \in [pc : Pcs, batch : Seq(Requests), next : Nodes],
         sched'.pc = "recv" => sched'.batch = <<>>,
         queue' \in Seq(Requests), PlacedOnce(queue', sched'.batch),
         ToSet(queue') \cup ToSet(sched'.batch) = ToSet(queue) \cup ToSet(sched.batch),
         Len(queue') + Len(sched'.batch) = Len(queue) + Len(sched.batch)
  PROVE  FrontInv'
  <1>1. Phase(sched.pc, pl.op) = "wait" /\ Phase(sched'.pc, pl'.op) = "wait"
    BY DEF Phase
  <1>2. \A r \in Requests : RoleIn(r, queue', sched'.batch, "wait")
                              = RoleIn(r, queue, sched.batch, "wait")
    BY DEF RoleIn
  <1>3. RequestsInv'
    <2>1. ASSUME NEW r \in Requests
          PROVE  ReqOk(http'[r], RoleIn(r, queue', sched'.batch, Phase(sched'.pc, pl'.op)))
      <3>1. ReqOk(http[r], RoleIn(r, queue, sched.batch, "wait"))
        BY <1>1, FrontIs
      <3> QED BY <1>1, <1>2, <3>1
    <2> QED BY <2>1 DEF RequestsInv
  <1>4. PendingExact' /\ CountedFinite'
    <2>1. Len(queue') \in Nat /\ Len(sched'.batch) \in Nat
      BY SeqEnds
    <2>2. Len(queue) \in Nat /\ Len(sched.batch) \in Nat /\ pending \in Nat
      BY LengthsAre
    <2>3. pending' - Len(queue') - Len(sched'.batch) = pending - Len(queue) - Len(sched.batch)
      <3> DEFINE a == Len(queue)
                 b == Len(sched.batch)
                 c == Len(queue')
                 d == Len(sched'.batch)
      <3>1. a \in Nat /\ b \in Nat /\ c \in Nat /\ d \in Nat /\ c + d = a + b /\ pending \in Nat
            /\ pending' = pending
        BY <2>1, <2>2
      <3> HIDE DEF a, b, c, d
      <3>2. pending' - c - d = pending - a - b
        BY ONLY <3>1
      <3> QED BY <3>2 DEF a, b, c, d
    <2> QED BY <2>1, <2>2, <2>3, CountSame
  <1>5. FrontType'
    BY DEF FrontInv, FrontType
  <1>6. ControlInv'
    BY DEF FrontInv, ControlInv, Busy
  <1> QED BY <1>3, <1>4, <1>5, <1>6 DEF FrontInv

LEMMA ReceiveStep ==
  ASSUME FrontInv, Receive \/ CollectMore
  PROVE  FrontInv'
  <1> DEFINE q == queue
             b == sched.batch
             h == Head(q)
             c == Append(b, h)
  <1>1. /\ sched.pc \in {"recv", "collect"} /\ q # <<>> /\ queue' = Tail(q)
        /\ UNCHANGED <<backend, http, pending, gen>> /\ pl' = pl
    BY DEF Receive, CollectMore, remoteVars
  <1>2. q \in Seq(Requests) /\ b \in Seq(Requests) /\ PlacedOnce(q, b)
    BY FrontIs
  <1>3. h \in Requests /\ Tail(q) \in Seq(Requests) /\ c \in Seq(Requests)
    BY <1>1, <1>2
  <1>4. sched' = [sched EXCEPT !.pc = "collect", !.batch = c]
    <2>1. CASE Receive
      <3>1. b = <<>>
        BY <2>1 DEF Receive, FrontInv, ControlInv
      <3>2. c = <<h>>
        BY <1>3, <3>1
      <3> QED BY <2>1, <3>2 DEF Receive
    <2>2. CASE CollectMore
      <3>1. sched.pc = "collect" /\ sched' = [sched EXCEPT !.batch = c]
        BY <2>2 DEF CollectMore
      <3>2. sched = [pc |-> sched.pc, batch |-> sched.batch, next |-> sched.next]
        BY FrontIs
      <3> QED BY <3>1, <3>2
    <2> QED BY <2>1, <2>2
  <1>5. "collect" \in Pcs
    BY DEF Pcs
  <1>6. /\ sched' \in [pc : Pcs, batch : Seq(Requests), next : Nodes]
        /\ sched'.pc = "collect" /\ sched'.batch = c
    BY <1>3, <1>4, <1>5 DEF FrontInv, FrontType
  <1>7. /\ h \in ToSet(q) /\ ToSet(Tail(q)) = ToSet(q) \ {h} /\ IsInjective(Tail(q))
        /\ ToSet(c) = ToSet(b) \cup {h} /\ (h \notin ToSet(b) => IsInjective(c))
    BY <1>1, <1>2, <1>3, SetsOfSeq DEF PlacedOnce
  <1>8. Len(Tail(q)) + Len(c) = Len(q) + Len(b)
    <2>1. Len(q) \in Nat /\ Len(b) \in Nat /\ Len(Tail(q)) = Len(q) - 1 /\ Len(c) = Len(b) + 1
      BY <1>1, <1>2, <1>3, SeqEnds
    <2> DEFINE x == Len(q)
               y == Len(b)
               z == Len(Tail(q))
               w == Len(c)
    <2>2. x \in Nat /\ y \in Nat /\ z = x - 1 /\ w = y + 1
      BY <2>1
    <2> HIDE DEF x, y, z, w
    <2>3. z + w = x + y
      BY ONLY <2>2
    <2> QED BY <2>3 DEF x, y, z, w
  <1> HIDE DEF c
  <1>9. PlacedOnce(Tail(q), c)
    BY <1>2, <1>7 DEF PlacedOnce
  <1>10. ToSet(Tail(q)) \cup ToSet(c) = ToSet(q) \cup ToSet(b)
    BY <1>7
  <1>11. pl'.op = "none"
    BY <1>1 DEF FrontInv, ControlInv
  <1> QED BY <1>1, <1>3, <1>6, <1>8, <1>9, <1>10, <1>11, BatchMoves

LEMMA BatchReadyStep ==
  ASSUME RemoteInv, FrontInv, BatchReady
  PROVE  RemoteInv' /\ FrontInv'
  <1> DEFINE n == IF backend = "local" \/ sched.next = NNodes - 1 THEN 0 ELSE sched.next + 1
  <1>1. /\ sched.pc = "collect" /\ sched' = [sched EXCEPT !.pc = "dispatch", !.next = n]
        /\ pl' = [pl EXCEPT !.node = sched.next]
        /\ UNCHANGED <<link, stale, backend, http, queue, pending, gen>>
    BY DEF BatchReady, front
  <1>2. sched.next \in Nodes
    BY FrontIs
  <1>3. n \in Nodes
    BY <1>2, NodesAssumption DEF Nodes
  <1> HIDE DEF n
  <1>4. "dispatch" \in Pcs
    BY DEF Pcs
  <1>5. /\ sched' \in [pc : Pcs, batch : Seq(Requests), next : Nodes]
        /\ sched'.pc = "dispatch" /\ sched'.batch = sched.batch
    BY <1>1, <1>3, <1>4 DEF FrontInv, FrontType
  <1>6. pl.op = "none" /\ pl \in Pipes
    BY <1>1, PipeIs DEF FrontInv, ControlInv
  <1>7. /\ pl' \in Pipes /\ pl'.op = "none" /\ pl'.stage = pl.stage
        /\ pl'.position = pl.position /\ pl'.node = sched.next
    BY <1>1, <1>2, <1>6 DEF Pipes
  <1>8. PipeOk(pl', backend)
    BY <1>6, <1>7, PipeIs DEF PipeOk
  <1>9. ASSUME NEW j \in Stages PROVE LinkOk(link[j], pl', backend, j)
    <2>1. LinkOk(link[j], pl, backend, j)
      BY LinkIs
    <2>2. link[j] = NoLink
      BY <1>6, <2>1 DEF LinkOk, Dialled
    <2>3. ~Dialled(pl', backend, j)
      BY <1>7 DEF Dialled
    <2> QED BY <1>7, <2>2, <2>3, NoLinkOk
  <1>10. RemoteInv'
    BY <1>1, <1>6, <1>7, <1>8, <1>9, PipeOnly
  <1>11. FrontInv'
    <2>1. queue' \in Seq(Requests) /\ PlacedOnce(queue', sched'.batch)
      BY <1>1, <1>5, FrontIs
    <2> QED BY <1>1, <1>5, <1>7, <2>1, BatchMoves
  <1> QED BY <1>10, <1>11

LEMMA BatchDoneStep ==
  ASSUME FrontInv, BatchDone
  PROVE  FrontInv'
  <1>1. /\ sched.pc = "dispatch" /\ sched.batch = <<>> /\ sched' = [sched EXCEPT !.pc = "recv"]
        /\ UNCHANGED <<backend, http, queue, pending, gen>> /\ pl' = pl
    BY DEF BatchDone, front, remoteVars
  <1>2. "recv" \in Pcs
    BY DEF Pcs
  <1>3. /\ sched' \in [pc : Pcs, batch : Seq(Requests), next : Nodes]
        /\ sched'.pc = "recv" /\ sched'.batch = sched.batch
    BY <1>1, <1>2 DEF FrontInv, FrontType
  <1>4. pl'.op = "none"
    BY <1>1 DEF FrontInv, ControlInv
  <1>5. queue' \in Seq(Requests) /\ PlacedOnce(queue', sched'.batch)
    BY <1>1, <1>3, FrontIs
  <1> QED BY <1>1, <1>3, <1>4, <1>5, BatchMoves

LEMMA RemoteSame ==
  ASSUME RemoteInv, UNCHANGED remoteVars, backend' = backend
  PROVE  RemoteInv'
  <1>1. link' = link /\ stale' = stale /\ pl' = pl
    BY DEF remoteVars
  <1>2. pl \in Pipes /\ PipeOk(pl, backend)
    BY PipeIs
  <1>3. \A j \in Stages : LinkOk(link[j], pl, backend, j)
    BY LinkIs
  <1> QED BY <1>1, <1>2, <1>3, PipeOnly

LEMMA SkipStep ==
  ASSUME FrontInv, Skip
  PROVE  FrontInv'
  <1>1. /\ sched.pc = "dispatch" /\ sched.batch # <<>> /\ http[Job].st = "left" /\ DropJob
        /\ UNCHANGED <<backend, http, queue>> /\ pl' = pl
    BY DEF Skip, Gone, remoteVars
  <1>2. Job \in Requests /\ http[Job] \in Https /\ ReqOk(http[Job], "wait")
    BY <1>1, JobIs DEF Phase
  <1>3. ReqOk(http[Job], "out")
    BY <1>2, OutOk DEF Roles
  <1>4. http' = [http EXCEPT ![Job] = http[Job]]
    BY <1>1, <1>2, SameRequest
  <1> QED BY <1>1, <1>2, <1>3, <1>4, DropStep

LEMMA ExecuteStep ==
  ASSUME FrontInv, Execute
  PROVE  FrontInv'
  <1> DEFINE pc == IF http[Job].stream THEN "respond" ELSE "generate"
             h == http[Job]
  <1>1. /\ sched.pc = "dispatch" /\ sched.batch # <<>> /\ h.st # "left"
        /\ sched' = [sched EXCEPT !.pc = pc]
        /\ UNCHANGED <<backend, http, queue, pending, gen>> /\ pl' = pl
    BY DEF Execute, Gone, Stream, front, remoteVars
  <1>2. Job \in Requests /\ h \in Https /\ ReqOk(h, "wait")
    BY <1>1, JobIs DEF Phase
  <1>3. pc \in Busy /\ pc # "run" /\ pl'.op = "none"
    BY <1>1 DEF Busy, FrontInv, ControlInv
  <1>4. ReqOk(h, Phase(pc, pl'.op))
    <2>1. CASE h.stream
      <3>1. Phase(pc, pl'.op) = "first"
        BY <2>1 DEF Phase
      <3> QED BY <1>1, <1>2, <2>1, <3>1, ExecutedOk
    <2>2. CASE ~h.stream
      <3>1. Phase(pc, pl'.op) = "work"
        BY <2>2 DEF Phase
      <3> QED BY <1>1, <1>2, <2>2, <3>1, ExecutedOk
    <2> QED BY <2>1, <2>2
  <1>5. h.st # "counted"
    BY <1>2 DEF ReqOk
  <1>6. http' = [http EXCEPT ![Job] = h]
    BY <1>1, <1>2, SameRequest
  <1>7. gen' \in Gens
    BY <1>1 DEF FrontInv, FrontType
  <1> HIDE DEF pc
  <1> QED BY <1>1, <1>2, <1>3, <1>4, <1>5, <1>6, <1>7, JobStep

LEMMA RespondStep ==
  ASSUME FrontInv, Respond
  PROVE  FrontInv'
  <1> DEFINE h == http[Job]
  <1>1. /\ sched.pc = "respond" /\ UNCHANGED <<backend, queue>> /\ pl' = pl
        /\ sched.batch # <<>>
    BY DEF Respond, remoteVars, FrontInv, ControlInv, Busy
  <1>2. Job \in Requests /\ h \in Https /\ ReqOk(h, "first")
    BY <1>1, JobIs DEF Phase
  <1>3. h.st # "counted"
    BY <1>2 DEF ReqOk
  <1>4. CASE h.st = "left"
    <2>1. DropJob /\ UNCHANGED http
      BY <1>4 DEF Respond, Gone
    <2>2. ReqOk(h, "out")
      BY <1>2, OutOk DEF Roles
    <2>3. http' = [http EXCEPT ![Job] = h]
      BY <1>2, <2>1, SameRequest
    <2> QED BY <1>1, <1>2, <1>3, <2>1, <2>2, <2>3, DropStep
  <1>5. CASE h.st # "left"
    <2> DEFINE g == [h EXCEPT !.st = "streaming"]
    <2>1. /\ http' = [http EXCEPT ![Job] = g] /\ sched' = [sched EXCEPT !.pc = "generate"]
          /\ UNCHANGED <<pending, gen>>
      BY <1>5 DEF Respond, Gone
    <2>2. /\ g \in Https /\ g.st = "streaming" /\ g.stream = h.stream
          /\ g.chan = h.chan /\ g.got = h.got /\ g.text = h.text
      BY <1>2 DEF Https, Statuses
    <2> HIDE DEF g
    <2>3. ReqOk(g, "work")
      BY <1>2, <2>2, RespondedOk
    <2>4. "generate" \in Busy /\ pl'.op = "none" /\ gen' \in Gens
      BY <1>1, <2>1 DEF Busy, FrontInv, FrontType, ControlInv
    <2>5. Phase("generate", pl'.op) = "work"
      BY DEF Phase
    <2> QED BY <1>1, <1>3, <2>1, <2>2, <2>3, <2>4, <2>5, JobStep
  <1> QED BY <1>4, <1>5

LEMMA FinishStreamStep ==
  ASSUME FrontInv, FinishStream
  PROVE  FrontInv'
  <1> DEFINE h == http[Job]
             e == Event(IF gen.result = "ok" THEN "stop" ELSE "error")
  <1>1. /\ sched.pc = "finish" /\ h.stream /\ UNCHANGED <<backend, queue, pending, gen>>
        /\ pl' = pl /\ sched' = [sched EXCEPT !.pc = "last"] /\ sched.batch # <<>>
    BY DEF FinishStream, Stream, Goto, remoteVars, FrontInv, ControlInv, Busy
  <1>2. Job \in Requests /\ h \in Https /\ ReqOk(h, "work")
    BY <1>1, JobIs DEF Phase
  <1>3. h.st # "counted" /\ pl'.op = "none" /\ "last" \in Busy /\ gen' \in Gens
    BY <1>1, <1>2 DEF ReqOk, FrontInv, FrontType, ControlInv, Busy
  <1>4. Phase("last", pl'.op) = "last"
    BY DEF Phase
  <1>5. CASE h.st = "left" /\ UNCHANGED http
    <2>1. http' = [http EXCEPT ![Job] = h]
      BY <1>2, <1>5, SameRequest
    <2>2. ReqOk(h, "last")
      BY <1>1, <1>2, <1>5, FinishedOk
    <2> QED BY <1>1, <1>2, <1>3, <1>4, <2>1, <2>2, JobStep
  <1>6. CASE h.st # "left" /\ Sent(e)
    <2> DEFINE g == [h EXCEPT !.chan = Append(h.chan, e)]
    <2>1. http' = [http EXCEPT ![Job] = g]
      BY <1>1, <1>6 DEF Sent, Stream
    <2>2. e \in {Event("stop"), Event("error")}
      OBVIOUS
    <2> HIDE DEF e
    <2>3. e \in Events
      BY <2>2, EventIs
    <2>4. Append(h.chan, e) \in Seq(Events)
      BY <1>2, <2>3, HttpIs
    <2>5. /\ g \in Https /\ g.st = h.st /\ g.stream = h.stream
          /\ g.chan = Append(h.chan, e) /\ g.got = h.got /\ g.text = h.text
      BY <1>2, <2>4 DEF Https
    <2> HIDE DEF g
    <2>6. ReqOk(g, "last")
      BY <1>1, <1>2, <1>6, <2>2, <2>5, FinishedOk
    <2>7. g.st # "counted"
      BY <1>3, <2>5
    <2> QED BY <1>1, <1>3, <1>4, <2>1, <2>5, <2>6, <2>7, JobStep
  <1>7. (h.st = "left" /\ UNCHANGED http) \/ (h.st # "left" /\ Sent(e))
    BY DEF FinishStream, Gone
  <1> QED BY <1>5, <1>6, <1>7

LEMMA DoneStep ==
  ASSUME FrontInv, Done
  PROVE  FrontInv'
  <1> DEFINE h == http[Job]
             e == Event("done")
  <1>1. /\ sched.pc = "last" /\ UNCHANGED <<backend, queue>> /\ pl' = pl /\ DropJob
        /\ sched.batch # <<>>
    BY DEF Done, remoteVars, FrontInv, ControlInv, Busy
  <1>2. Job \in Requests /\ h \in Https /\ ReqOk(h, "last")
    BY <1>1, JobIs DEF Phase
  <1>3. h.st # "counted" /\ h.stream
    BY <1>2 DEF ReqOk
  <1>4. CASE h.st = "left" /\ UNCHANGED http
    <2>1. http' = [http EXCEPT ![Job] = h]
      BY <1>2, <1>4, SameRequest
    <2>2. ReqOk(h, "out")
      BY <1>2, OutOk DEF Roles
    <2> QED BY <1>1, <1>2, <1>3, <2>1, <2>2, DropStep
  <1>5. CASE h.st # "left" /\ Sent(e)
    <2> DEFINE g == [h EXCEPT !.chan = Append(h.chan, e)]
    <2>1. http' = [http EXCEPT ![Job] = g]
      BY <1>3, <1>5 DEF Sent, Stream
    <2>2. e \in Events
      BY EventIs
    <2>3. Append(h.chan, e) \in Seq(Events)
      BY <1>2, <2>2, HttpIs
    <2> HIDE DEF e
    <2>4. /\ g \in Https /\ g.st = h.st /\ g.stream = h.stream
          /\ g.chan = Append(h.chan, e) /\ g.got = h.got /\ g.text = h.text
      BY <1>2, <2>3 DEF Https
    <2> HIDE DEF g
    <2>5. ReqOk(g, "out")
      BY <1>2, <1>5, <2>4, DoneOk DEF e
    <2>6. g.st # "counted"
      BY <1>3, <2>4
    <2> QED BY <1>1, <1>3, <2>1, <2>4, <2>5, <2>6, DropStep
  <1>6. (h.st = "left" /\ UNCHANGED http) \/ (h.st # "left" /\ Sent(e))
    BY DEF Done, Gone
  <1> QED BY <1>4, <1>5, <1>6

LEMMA FinishStep ==
  ASSUME FrontInv, Finish
  PROVE  FrontInv'
  <1> DEFINE h == http[Job]
  <1>1. /\ sched.pc = "finish" /\ UNCHANGED <<backend, queue>> /\ pl' = pl /\ DropJob
        /\ sched.batch # <<>>
    BY DEF Finish, remoteVars, FrontInv, ControlInv, Busy
  <1>2. Job \in Requests /\ h \in Https /\ ReqOk(h, "work")
    BY <1>1, JobIs DEF Phase
  <1>3. h.st # "counted"
    BY <1>2 DEF ReqOk
  <1>4. CASE h.st = "left" /\ UNCHANGED http
    <2>1. http' = [http EXCEPT ![Job] = h]
      BY <1>2, <1>4, SameRequest
    <2>2. ReqOk(h, "out")
      BY <1>2, OutOk DEF Roles
    <2> QED BY <1>1, <1>2, <1>3, <2>1, <2>2, DropStep
  <1>5. CASE Ended(Job, gen.result)
    <2>1. gen.result \in Answers
      BY FrontIs DEF Answers
    <2>2. PICK g \in Https :
            /\ http' = [http EXCEPT ![Job] = g] /\ g.st = "ended" /\ g.stream = h.stream
            /\ g.chan = h.chan /\ g.got = h.got /\ g.text = h.text
      BY <1>2, <1>5, <2>1, EndedIs
    <2>3. ReqOk(g, "out")
      BY <1>2, <2>2, EndedOk DEF Roles
    <2>4. g.st # "counted"
      BY <2>2
    <2> QED BY <1>1, <1>3, <2>2, <2>3, <2>4, DropStep
  <1>6. (h.st = "left" /\ UNCHANGED http) \/ Ended(Job, gen.result)
    BY DEF Finish, Gone
  <1> QED BY <1>4, <1>5, <1>6

-----------------------------------------------------------------------------
(* Generation *)

ApiInv == RemoteInv /\ FrontInv

LEMMA RunIs ==
  ASSUME ApiInv, sched.pc \in {"generate", "run", "finish"}
  PROVE  /\ sched.batch # <<>> /\ Job \in Requests /\ http[Job] \in Https
         /\ ReqOk(http[Job], IF sched.pc = "run" /\ pl.op = "emit" THEN "emit" ELSE "work")
         /\ http[Job].st # "counted"
         /\ (http' = http => http' = [http EXCEPT ![Job] = http[Job]])
         /\ sched = [sched EXCEPT !.pc = sched.pc]
         /\ pl.op = "none" <=> sched.pc # "run"
  <1>1. FrontInv /\ sched.batch # <<>>
    BY DEF ApiInv, FrontInv, ControlInv, Busy
  <1>2. /\ Job \in Requests /\ http[Job] \in Https
        /\ ReqOk(http[Job], Phase(sched.pc, pl.op))
    BY <1>1, JobIs
  <1>3. Phase(sched.pc, pl.op) = IF sched.pc = "run" /\ pl.op = "emit" THEN "emit" ELSE "work"
    BY DEF Phase
  <1>4. http[Job].st # "counted"
    BY <1>2, <1>3 DEF ReqOk
  <1>5. http' = http => http' = [http EXCEPT ![Job] = http[Job]]
    BY <1>1, <1>2, SameRequest
  <1>6. sched = [sched EXCEPT !.pc = sched.pc]
    BY DEF ApiInv, FrontInv, FrontType
  <1>7. pl.op = "none" <=> sched.pc # "run"
    BY <1>1 DEF FrontInv, ControlInv
  <1> QED BY <1>1, <1>2, <1>3, <1>4, <1>5, <1>6, <1>7

LEMMA ResultIs ==
  ASSUME ApiInv, NEW res \in {"ok", "error"}, Results(res)
  PROVE  sched' = [sched EXCEPT !.pc = "finish"] /\ gen' \in Gens
  BY DEF Results, Goto, NoGeneration, Gens

\* The generation is over: its request is left as it is.
LEMMA OverStep ==
  ASSUME ApiInv, sched.pc \in {"generate", "run"}, NEW res \in {"ok", "error"}, Results(res),
         UNCHANGED <<backend, http, queue, pending>>, pl'.op = "none",
         ReqOk(http[Job], "work")
  PROVE  FrontInv'
  <1>1. /\ FrontInv /\ sched.batch # <<>> /\ http[Job] \in Https /\ http[Job].st # "counted"
        /\ http' = [http EXCEPT ![Job] = http[Job]]
    BY RunIs DEF ApiInv
  <1>2. sched' = [sched EXCEPT !.pc = "finish"] /\ gen' \in Gens
    BY ResultIs
  <1>3. "finish" \in Busy /\ Phase("finish", pl'.op) = "work"
    BY DEF Busy, Phase
  <1> QED BY <1>1, <1>2, <1>3, JobStep

\* The generation goes on.
LEMMA OnStep ==
  ASSUME ApiInv, sched.pc = "run", UNCHANGED <<backend, queue, pending, sched>>,
         NEW h \in Https, http' = [http EXCEPT ![Job] = h], h.st # "counted",
         gen' \in Gens, pl'.op # "none",
         ReqOk(h, IF pl'.op = "emit" THEN "emit" ELSE "work")
  PROVE  FrontInv'
  <1>1. /\ FrontInv /\ sched.batch # <<>> /\ http[Job].st # "counted"
        /\ sched' = [sched EXCEPT !.pc = "run"]
    BY RunIs DEF ApiInv
  <1>2. "run" \in Busy /\ Phase("run", pl'.op) = IF pl'.op = "emit" THEN "emit" ELSE "work"
    BY DEF Busy, Phase
  <1> QED BY <1>1, <1>2, JobStep

LEMMA BeginStep ==
  ASSUME ApiInv, Begin
  PROVE  ApiInv'
  <1>1. /\ sched.pc = "generate" /\ link' = link /\ stale' = stale
        /\ UNCHANGED <<backend, http, queue, pending>>
    BY DEF Begin, front
  <1>2. /\ RemoteInv /\ FrontInv /\ pl.op = "none" /\ ReqOk(http[Job], "work")
        /\ sched.batch # <<>> /\ http[Job] \in Https /\ http[Job].st # "counted"
        /\ http' = [http EXCEPT ![Job] = http[Job]]
    BY <1>1, RunIs DEF ApiInv
  <1>3. CASE \E res \in {"ok", "error"} : Results(res) /\ UNCHANGED pl
    <2>1. PICK res \in {"ok", "error"} : Results(res) /\ pl' = pl
      BY <1>3
    <2>2. FrontInv'
      BY <1>1, <1>2, <2>1, OverStep
    <2>3. RemoteInv'
      BY <1>1, <1>2, <2>1, RemoteSame DEF remoteVars
    <2> QED BY <2>2, <2>3 DEF ApiInv
  <1>4. ASSUME Goto("run"),
               gen' = [NoGeneration EXCEPT !.left = IF backend = "local" THEN 1 ELSE Prompt],
               pl' = [NoPipeline EXCEPT !.node = pl.node,
                                        !.op = IF backend = "local" THEN "head" ELSE "connect"]
        PROVE  ApiInv'
    <2> DEFINE o == IF backend = "local" THEN "head" ELSE "connect"
               l == IF backend = "local" THEN 1 ELSE Prompt
    <2>1. /\ o \in {"none", "connect", "head"} /\ o \in {"connect", "head"}
          /\ o = "connect" => backend # "local"
          /\ o = "head" => backend = "local"
      OBVIOUS
    <2>2. l \in Nat
      BY LimitsAssumption
    <2>3. /\ gen' = [NoGeneration EXCEPT !.left = l]
          /\ pl' = [NoPipeline EXCEPT !.node = pl.node, !.op = o]
      BY <1>4
    <2> HIDE DEF o, l
    <2>4. gen' \in Gens
      BY <2>2, <2>3 DEF NoGeneration, Gens
    <2>a. o \in PlOps /\ 1 \in 1 .. NStages + 1 /\ pl.node \in Nodes
      BY <1>2, <2>1, StagesAssumption, PipeIs DEF PlOps
    <2>b. pl' \in Pipes /\ pl'.op = o /\ pl'.stage = 1 /\ pl'.position = 0
      BY <2>3, <2>a DEF Pipes, NoPipeline
    <2>5. RemoteInv' /\ pl'.op = o
      BY <1>1, <1>2, <2>1, <2>b, IdleStep
    <2>6. sched' = [sched EXCEPT !.pc = "run"] /\ "run" \in Busy /\ pl'.op # "none"
          /\ Phase("run", pl'.op) = "work"
      BY <1>4, <2>1, <2>5 DEF Goto, Busy, Phase
    <2>7. FrontInv'
      BY <1>1, <1>2, <2>4, <2>6, JobStep
    <2> QED BY <2>5, <2>7 DEF ApiInv
  <1> QED BY <1>3, <1>4 DEF Begin

LEMMA PipelineStepStep ==
  ASSUME ApiInv, PipelineStep
  PROVE  ApiInv'
  <1>1. /\ sched.pc = "run" /\ UNCHANGED <<backend, http, queue, pending, sched, gen>>
    BY DEF PipelineStep, front
  <1>2. RemoteInv /\ FrontInv /\ gen' \in Gens
    BY <1>1 DEF ApiInv, FrontInv, FrontType
  <1>3. /\ RemoteInv' /\ pl.op # "emit"
        /\ pl'.op \in {"opening", "connect", "forward", "forwarding", "head", "closing", "close"}
    <2>1. CASE Dial
      BY <1>1, <1>2, <2>1, DialStep DEF Dial
    <2>2. CASE Opened
      BY <1>1, <1>2, <2>2, OpenedStep DEF Opened
    <2>3. CASE SendForward(pl.position + 1)
      BY <1>1, <1>2, <2>3, SendForwardStep DEF SendForward
    <2>4. CASE Forwarded
      BY <1>1, <1>2, <2>4, ForwardedStep DEF Forwarded
    <2>5. CASE SendClose /\ pl.stage <= NStages
      BY <1>1, <1>2, <2>5, SendCloseStep DEF SendClose
    <2>6. CASE Closed
      BY <1>1, <1>2, <2>6, ClosedStep DEF Closed
    <2> QED BY <2>1, <2>2, <2>3, <2>4, <2>5, <2>6 DEF PipelineStep
  <1>4. /\ http[Job] \in Https /\ http[Job].st # "counted" /\ ReqOk(http[Job], "work")
        /\ http' = [http EXCEPT ![Job] = http[Job]]
    BY <1>1, <1>3, RunIs
  <1>5. FrontInv'
    BY <1>1, <1>2, <1>3, <1>4, OnStep
  <1> QED BY <1>3, <1>5 DEF ApiInv

\* The pipeline is dropped and the generation is over.
LEMMA DroppedStep ==
  ASSUME ApiInv, sched.pc = "run", HangUp(Stages), pl' = [NoPipeline EXCEPT !.node = pl.node],
         NEW res \in {"ok", "error"}, Results(res),
         UNCHANGED <<backend, http, queue, pending>>, ReqOk(http[Job], "work")
  PROVE  ApiInv'
  <1>1. RemoteInv' /\ pl'.op = "none"
    BY DropEffect DEF ApiInv
  <1>2. FrontInv'
    BY <1>1, OverStep
  <1> QED BY <1>1, <1>2 DEF ApiInv

LEMMA PipelineFailsStep ==
  ASSUME ApiInv, PipelineFails
  PROVE  ApiInv'
  <1>1. /\ sched.pc = "run" /\ HangUp(Stages) /\ pl' = [NoPipeline EXCEPT !.node = pl.node]
        /\ Results("error") /\ UNCHANGED <<backend, http, queue, pending>>
        /\ pl.op # "emit"
    BY DEF PipelineFails, Fails, DropAll, front
  <1>2. ReqOk(http[Job], "work")
    BY <1>1, RunIs
  <1> QED BY <1>1, <1>2, DroppedStep

LEMMA GenerationDoneStep ==
  ASSUME ApiInv, GenerationDone
  PROVE  ApiInv'
  <1> DEFINE res == IF pl.failed THEN "error" ELSE "ok"
  <1>1. /\ sched.pc = "run" /\ pl.op = "close" /\ pl.stage > NStages /\ Results(res)
        /\ pl' = [NoPipeline EXCEPT !.node = pl.node] /\ link' = link /\ stale' = stale
        /\ UNCHANGED <<backend, http, queue, pending>>
    BY DEF GenerationDone, front
  <1>2. res \in {"ok", "error"}
    OBVIOUS
  <1> HIDE DEF res
  <1>3. pl.node \in Nodes /\ RemoteInv
    BY PipeIs DEF ApiInv
  <1>4. /\ pl' \in Pipes /\ pl'.node = pl.node /\ pl'.op = "none" /\ pl'.stage = 1
        /\ pl'.position = 0
    BY <1>1, <1>3, FreshPipe
  <1>5. RemoteInv' /\ pl'.op = "none"
    BY <1>1, <1>3, <1>4, IdleStep
  <1>6. ReqOk(http[Job], "work")
    BY <1>1, RunIs
  <1>7. FrontInv'
    BY <1>1, <1>2, <1>5, <1>6, OverStep
  <1> QED BY <1>5, <1>7 DEF ApiInv

\* The pipeline stands and its next operation is o.
LEMMA TokenPipe ==
  ASSUME RemoteInv, NEW o \in {"head", "forward", "sample", "emit", "tail"}
  PROVE  /\ LET q == [pl EXCEPT !.op = o] IN
              /\ q \in Pipes /\ q.op = o /\ q.stage = pl.stage
              /\ q.position = pl.position /\ q.node = pl.node
         /\ LET q == [[pl EXCEPT !.op = o] EXCEPT !.position = @ + 1] IN
              /\ q \in Pipes /\ q.op = o /\ q.stage = pl.stage
              /\ q.position = pl.position + 1 /\ q.node = pl.node
  <1>1. pl \in Pipes /\ pl.position + 1 \in Nat /\ o \in PlOps
    BY PipeIs DEF PlOps
  <1> QED BY <1>1 DEF Pipes

LEMMA GenIs ==
  ASSUME ApiInv, NEW b \in BOOLEAN
  PROVE  /\ gen \in Gens
         /\ [gen EXCEPT !.made = gen.made + 1, !.held = b] \in Gens
         /\ [gen EXCEPT !.left = IF gen.left > 0 THEN gen.left - 1 ELSE 0] \in Gens
  <1>1. gen \in Gens /\ gen.made + 1 \in Nat
        /\ (IF gen.left > 0 THEN gen.left - 1 ELSE 0) \in Nat
    BY DEF ApiInv, FrontInv, FrontType, Gens
  <1> QED BY <1>1 DEF Gens

LEMMA LogitsStep ==
  ASSUME ApiInv, Logits
  PROVE  ApiInv'
  <1>1. /\ sched.pc = "run" /\ pl.op = "head" /\ UNCHANGED <<backend, http, queue, pending>>
    BY DEF Logits, front
  <1>2. /\ RemoteInv /\ ReqOk(http[Job], "work") /\ http[Job] \in Https
        /\ http[Job].st # "counted" /\ http' = [http EXCEPT ![Job] = http[Job]]
    BY <1>1, RunIs DEF ApiInv
  <1>3. CASE Abandon("error")
    BY <1>1, <1>2, <1>3, DroppedStep DEF Abandon, DropAll
  <1>4. ASSUME pl' = [(IF gen.left > 1 THEN NextForward ELSE [pl EXCEPT !.op = "sample"])
                        EXCEPT !.position = @ + 1],
               gen' = [gen EXCEPT !.left = IF @ > 0 THEN @ - 1 ELSE 0],
               UNCHANGED <<link, stale, sched>>
        PROVE  ApiInv'
    <2> DEFINE f == IF backend = "local" THEN "head" ELSE "forward"
               o == IF gen.left > 1 THEN f ELSE "sample"
    <2>1. pl' = [[pl EXCEPT !.op = o] EXCEPT !.position = @ + 1]
      <3>1. CASE gen.left > 1
        BY <1>4, <3>1 DEF NextForward
      <3>2. CASE ~(gen.left > 1)
        BY <1>4, <3>2
      <3> QED BY <3>1, <3>2
    <2>2. o \in {"head", "forward", "sample", "emit", "tail"} /\ o \in {f, "sample"}
      OBVIOUS
    <2> HIDE DEF o
    <2>3. /\ pl' \in Pipes /\ pl'.op = o /\ pl'.stage = pl.stage
          /\ pl'.position = pl.position + 1 /\ pl'.node = pl.node
      BY <1>2, <2>1, <2>2, TokenPipe
    <2>4. pl.stage = 1
      BY <1>1, <1>2, PipeIs DEF PipeOk
    <2>5. RemoteInv' /\ pl'.op # "none"
      BY <1>1, <1>2, <1>4, <2>2, <2>3, <2>4, TokenStep
    <2>6. gen' \in Gens
      BY <1>4, GenIs
    <2>7. pl'.op # "emit"
      BY <2>2, <2>3
    <2>8. FrontInv'
      BY <1>1, <1>2, <1>4, <2>5, <2>6, <2>7, OnStep
    <2> QED BY <2>5, <2>8 DEF ApiInv
  <1> QED BY <1>3, <1>4 DEF Logits

\* After a token, with the request h.
LEMMA ContinueStep ==
  ASSUME ApiInv, sched.pc = "run", pl.op \in {"sample", "emit"},
         Continue \/ pl' = [pl EXCEPT !.op = "tail"],
         UNCHANGED <<backend, queue, pending, sched, link, stale>>, gen' \in Gens,
         NEW h \in Https, http' = [http EXCEPT ![Job] = h], h.st # "counted", ReqOk(h, "work")
  PROVE  ApiInv'
  <1> DEFINE f == IF backend = "local" THEN "head" ELSE "forward"
  <1>1. PICK o \in {f, "tail"} : pl' = [pl EXCEPT !.op = o]
    BY DEF Continue, NextForward
  <1>2. o \in {"head", "forward", "sample", "emit", "tail"} /\ o # "emit"
    BY <1>1
  <1>3. RemoteInv /\ pl.stage = 1 /\ pl.position \in Nat
    BY PipeIs DEF ApiInv, PipeOk
  <1>4. /\ pl' \in Pipes /\ pl'.op = o /\ pl'.stage = pl.stage
        /\ pl'.position = pl.position /\ pl'.node = pl.node
    BY <1>1, <1>2, <1>3, TokenPipe
  <1>5. pl'.position = pl.position + (IF pl.op = "head" THEN 1 ELSE 0)
    BY <1>3, <1>4
  <1>6. RemoteInv' /\ pl'.op # "none"
    BY <1>1, <1>3, <1>4, <1>5, TokenStep
  <1>7. FrontInv'
    BY <1>2, <1>4, <1>6, OnStep
  <1> QED BY <1>6, <1>7 DEF ApiInv

LEMMA SampleStep ==
  ASSUME ApiInv, Sample
  PROVE  ApiInv'
  <1> DEFINE h == http[Job]
  <1>1. sched.pc = "run" /\ pl.op = "sample" /\ UNCHANGED <<backend, queue, pending>>
    BY DEF Sample
  <1>2. /\ RemoteInv /\ ReqOk(h, "work") /\ h \in Https
        /\ h.st # "counted" /\ (http' = http => http' = [http EXCEPT ![Job] = h])
    BY <1>1, RunIs DEF ApiInv
  <1>3. CASE Abandon("error") /\ UNCHANGED http
    BY <1>1, <1>2, <1>3, DroppedStep DEF Abandon, DropAll
  <1>4. CASE pl' = [pl EXCEPT !.op = "tail"] /\ UNCHANGED <<gen, link, stale, sched, http>>
    <2>1. gen' \in Gens
      BY <1>4, GenIs
    <2> QED BY <1>1, <1>2, <1>4, <2>1, ContinueStep
  <1>5. ASSUME gen' = [gen EXCEPT !.made = @ + 1, !.held = TRUE], Continue,
               UNCHANGED <<link, stale, sched, http>>
        PROVE  ApiInv'
    <2>1. gen' \in Gens
      BY <1>5, GenIs
    <2> QED BY <1>1, <1>2, <1>5, <2>1, ContinueStep
  <1>6. ASSUME NEW held \in BOOLEAN, gen' = [gen EXCEPT !.made = @ + 1, !.held = held],
               pl' = [pl EXCEPT !.op = "emit"], http' = [http EXCEPT ![Job].text = @ + 1],
               UNCHANGED <<link, stale, sched>>
        PROVE  ApiInv'
    <2> DEFINE g == [h EXCEPT !.text = h.text + 1]
    <2>1. http' = [http EXCEPT ![Job] = g]
      BY <1>6
    <2>2. h.text + 1 \in Nat
      BY <1>2, HttpIs
    <2>3. /\ g \in Https /\ g.st = h.st /\ g.stream = h.stream /\ g.chan = h.chan
          /\ g.got = h.got /\ g.text = h.text + 1
      BY <1>2, <2>2 DEF Https
    <2> HIDE DEF g
    <2>4. ReqOk(g, "emit") /\ g.st # "counted"
      BY <1>2, <2>3, SampledOk
    <2>5. /\ pl' \in Pipes /\ pl'.op = "emit" /\ pl'.stage = pl.stage
          /\ pl'.position = pl.position /\ pl'.node = pl.node
      BY <1>2, <1>6, TokenPipe
    <2>6. pl.stage = 1 /\ pl'.position = pl.position + (IF pl.op = "head" THEN 1 ELSE 0)
      BY <1>1, <1>2, <2>5, PipeIs DEF PipeOk
    <2>7. RemoteInv' /\ pl'.op # "none"
      BY <1>1, <1>2, <1>6, <2>5, <2>6, TokenStep
    <2>8. gen' \in Gens
      BY <1>6, GenIs
    <2>9. FrontInv'
      BY <1>1, <1>6, <2>1, <2>3, <2>4, <2>5, <2>7, <2>8, OnStep
    <2> QED BY <2>7, <2>9 DEF ApiInv
  <1> QED BY <1>3, <1>4, <1>5, <1>6 DEF Sample

LEMMA EmitStep ==
  ASSUME ApiInv, Emit
  PROVE  ApiInv'
  <1> DEFINE h == http[Job]
             e == Piece(h.text)
  <1>1. sched.pc = "run" /\ pl.op = "emit" /\ UNCHANGED <<backend, queue, pending>>
    BY DEF Emit
  <1>2. /\ RemoteInv /\ ReqOk(h, "emit") /\ h \in Https
        /\ h.st # "counted" /\ (http' = http => http' = [http EXCEPT ![Job] = h])
    BY <1>1, RunIs DEF ApiInv
  <1>3. CASE h.st = "left" /\ Abandon("ok") /\ UNCHANGED http
    <2>1. ReqOk(h, "work")
      BY <1>2, <1>3, UnsentOk
    <2> QED BY <1>1, <1>3, <2>1, DroppedStep DEF Abandon, DropAll
  <1>4. ASSUME ~(h.stream /\ h.st = "left"), Sent(e), gen' = gen, Continue,
               UNCHANGED <<link, stale, sched>>
        PROVE  ApiInv'
    <2>0. gen' \in Gens
      BY <1>4, GenIs
    <2>1. CASE ~h.stream
      <3>1. http' = http
        BY <1>4, <2>1 DEF Sent, Stream
      <3>2. h.st # "streaming"
        BY <1>2, <2>1 DEF ReqOk
      <3>3. ReqOk(h, "work")
        BY <1>2, <3>2, UnsentOk
      <3> QED BY <1>1, <1>2, <1>4, <2>0, <3>1, <3>3, ContinueStep
    <2>2. CASE h.stream
      <3> DEFINE g == [h EXCEPT !.chan = Append(h.chan, e)]
      <3>1. http' = [http EXCEPT ![Job] = g]
        BY <1>4, <2>2 DEF Sent, Stream
      <3>2. e \in Events
        BY <1>2, EventIs, HttpIs
      <3>3. Append(h.chan, e) \in Seq(Events)
        BY <1>2, <3>2, HttpIs
      <3> HIDE DEF e
      <3>4. /\ g \in Https /\ g.st = h.st /\ g.stream = h.stream
            /\ g.chan = Append(h.chan, e) /\ g.got = h.got /\ g.text = h.text
        BY <1>2, <3>3 DEF Https
      <3> HIDE DEF g
      <3>5. h.st = "streaming"
        BY <1>2, <1>4, <2>2 DEF ReqOk
      <3>6. g.chan = Append(h.chan, Piece(g.text))
        BY <3>4 DEF e
      <3>7. ReqOk(g, "work")
        BY <1>2, <3>4, <3>5, <3>6, SentOk
      <3>8. g.st # "counted"
        BY <1>2, <3>4
      <3> QED BY <1>1, <1>4, <2>0, <3>1, <3>4, <3>7, <3>8, ContinueStep
    <2> QED BY <2>1, <2>2
  <1> QED BY <1>3, <1>4 DEF Emit, Stream, Gone

LEMMA EmitTailStep ==
  ASSUME ApiInv, EmitTail
  PROVE  ApiInv'
  <1> DEFINE h == http[Job]
             live == h.stream /\ h.st # "left"
             e == Piece(h.text + 1)
  <1>1. sched.pc = "run" /\ pl.op = "tail" /\ UNCHANGED <<backend, queue, pending>>
    BY DEF EmitTail
  <1>2. /\ RemoteInv /\ ReqOk(h, "work") /\ h \in Https
        /\ h.st # "counted" /\ (http' = http => http' = [http EXCEPT ![Job] = h])
    BY <1>1, RunIs DEF ApiInv
  <1>3. CASE Abandon("error") /\ UNCHANGED http
    BY <1>1, <1>2, <1>3, DroppedStep DEF Abandon, DropAll
  <1>4. ASSUME IF ~gen.held THEN UNCHANGED http
               ELSE /\ Stream /\ ~Gone => Room
                    /\ http' = [http EXCEPT ![Job].text = @ + 1,
                                  ![Job].chan = IF Stream /\ ~Gone
                                    THEN Append(@, Piece(http[Job].text + 1)) ELSE @],
               pl' = [pl EXCEPT !.op = "close",
                                !.stage = IF backend = "local" THEN NStages + 1 ELSE 1],
               UNCHANGED <<link, stale, sched, gen>>
        PROVE  ApiInv'
    <2> DEFINE s == IF backend = "local" THEN NStages + 1 ELSE 1
    <2>1. pl \in Pipes /\ s \in 1 .. NStages + 1 /\ "close" \in PlOps /\ pl.position \in Nat
      BY <1>2, PipeIs DEF PlOps
    <2>2. pl' = [pl EXCEPT !.op = "close", !.stage = s]
      BY <1>4
    <2> HIDE DEF s
    <2>3. /\ pl' \in Pipes /\ pl'.op = "close" /\ pl'.stage = s
          /\ pl'.position = pl.position /\ pl'.node = pl.node
      BY <2>1, <2>2 DEF Pipes
    <2>4. pl'.position = pl.position + (IF pl.op = "head" THEN 1 ELSE 0)
      BY <1>1, <2>1, <2>3
    <2>5. RemoteInv' /\ pl'.op # "none"
      BY <1>1, <1>2, <1>4, <2>3, <2>4, TokenStep DEF s
    <2>6. gen' \in Gens
      BY <1>4, GenIs
    <2>7. PICK g \in Https : http' = [http EXCEPT ![Job] = g] /\ g.st = h.st /\ ReqOk(g, "work")
      <3>1. CASE http' = http
        BY <1>2, <3>1
      <3>2. CASE live /\ http' = [http EXCEPT ![Job].text = @ + 1,
                                              ![Job].chan = Append(@, e)]
        <4> DEFINE c == Append(h.chan, e)
                   g == [h EXCEPT !.text = h.text + 1, !.chan = c]
        <4>1. http' = [http EXCEPT ![Job] = g]
          BY <3>2
        <4>2. h.text + 1 \in Nat
          BY <1>2, HttpIs
        <4>3. c \in Seq(Events)
          BY <1>2, <4>2, EventIs, HttpIs
        <4> HIDE DEF c
        <4>4. /\ g \in Https /\ g.st = h.st /\ g.stream = h.stream
              /\ g.chan = c /\ g.got = h.got /\ g.text = h.text + 1
          BY <1>2, <4>2, <4>3 DEF Https
        <4> HIDE DEF g
        <4>5. h.st = "streaming"
          BY <1>2, <3>2 DEF ReqOk
        <4>6. g.chan = Append(h.chan, Piece(g.text))
          BY <4>4 DEF c
        <4>7. ReqOk(g, "work")
          BY <1>2, <4>4, <4>5, <4>6, SentOk
        <4> QED BY <4>1, <4>4, <4>7
      <3>3. CASE ~live /\ http' = [http EXCEPT ![Job].text = @ + 1, ![Job].chan = @]
        <4> DEFINE g == [h EXCEPT !.text = h.text + 1, !.chan = h.chan]
        <4>1. http' = [http EXCEPT ![Job] = g]
          BY <3>3
        <4>2. h.text + 1 \in Nat
          BY <1>2, HttpIs
        <4>3. /\ g \in Https /\ g.st = h.st /\ g.stream = h.stream
              /\ g.chan = h.chan /\ g.got = h.got /\ g.text = h.text + 1
          BY <1>2, <4>2 DEF Https
        <4> HIDE DEF g
        <4>4. h.st # "streaming"
          BY <1>2, <3>3 DEF ReqOk
        <4>5. ReqOk(g, "work")
          BY <1>2, <4>3, <4>4, SampledOk
        <4> QED BY <4>1, <4>3, <4>5
      <3> QED BY <1>4, <3>1, <3>2, <3>3 DEF Stream, Gone
    <2>8. FrontInv'
      BY <1>1, <1>2, <1>4, <2>3, <2>5, <2>6, <2>7, OnStep
    <2> QED BY <2>5, <2>8 DEF ApiInv
  <1> QED BY <1>3, <1>4 DEF EmitTail

LEMMA UnwindStep ==
  ASSUME ApiInv, Unwind
  PROVE  ApiInv'
  <1> DEFINE lost == ToSet(queue) \cup ToSet(sched.batch)
             gone(r) == r \in lost /\ http[r].st = "waiting"
             g(r) == [http[r] EXCEPT !.st = "ended", !.answer = "503"]
  <1>1. /\ http' = [r \in Requests |-> IF gone(r) THEN g(r) ELSE http[r]]
        /\ pending' = pending - Len(queue) - Len(sched.batch) /\ queue' = <<>>
        /\ sched' = [sched EXCEPT !.pc = "dead", !.batch = <<>>] /\ gen' = NoGeneration
        /\ HangUp(Stages) /\ pl' = [NoPipeline EXCEPT !.node = pl.node] /\ backend' = backend
    BY DEF Unwind
  <1>2. RemoteInv' /\ pl'.op = "none"
    BY <1>1, DropEffect DEF ApiInv
  <1>3. <<>> \in Seq(Requests) /\ "dead" \in Pcs /\ Len(<<>>) = 0
    BY DEF Pcs
  <1>4. /\ sched' \in [pc : Pcs, batch : Seq(Requests), next : Nodes] /\ sched'.pc = "dead"
        /\ sched'.batch = <<>>
    BY <1>1, <1>3 DEF ApiInv, FrontInv, FrontType
  <1>5. ASSUME NEW r \in Requests
        PROVE  /\ http'[r] \in Https /\ ReqOk(http'[r], "out")
               /\ http'[r].st = "counted" <=> http[r].st = "counted"
    <2> DEFINE role == RoleIn(r, queue, sched.batch, Phase(sched.pc, pl.op))
    <2>1. http[r] \in Https /\ ReqOk(http[r], role) /\ role \in Roles
      BY FrontIs, RoleIs DEF ApiInv
    <2> HIDE DEF role
    <2>2. CASE gone(r)
      <3> DEFINE h == g(r)
      <3>1. "ended" \in Statuses /\ "503" \in Answers
        BY DEF Statuses, Answers
      <3>2. /\ h \in Https /\ h.st = "ended" /\ h.stream = http[r].stream
            /\ h.chan = http[r].chan /\ h.got = http[r].got /\ h.text = http[r].text
        BY <2>1, <3>1 DEF Https
      <3>3. http'[r] = h
        BY <1>1, <2>2
      <3> HIDE DEF h
      <3>4. ReqOk(h, "out")
        BY <2>1, <3>2, EndedOk
      <3> QED BY <2>2, <3>2, <3>3, <3>4
    <2>3. CASE ~gone(r)
      <3>1. http'[r] = http[r]
        BY <1>1, <2>3
      <3>2. ReqOk(http[r], "out")
        BY <2>1, OutOk
      <3> QED BY <2>1, <3>1, <3>2
    <2> QED BY <2>2, <2>3
  <1>6. http' \in [Requests -> Https]
    <2>1. \A r \in Requests : http'[r] \in Https
      BY <1>5
    <2>2. http' = [r \in Requests |-> http'[r]]
      BY <1>1
    <2> QED BY <2>1, <2>2
  <1>7. ToSet(<<>>) = {} /\ PlacedOnce(<<>>, <<>>)
    BY DEF ToSet, PlacedOnce, IsInjective
  <1>8. RequestsInv'
    <2>1. \A r \in Requests : RoleIn(r, queue', sched'.batch, Phase(sched'.pc, pl'.op)) = "out"
      BY <1>1, <1>4, <1>7 DEF RoleIn
    <2> QED BY <1>5, <2>1 DEF RequestsInv
  <1>9. FrontType' /\ ControlInv'
    <2>1. NoGeneration \in Gens
      BY DEF NoGeneration, Gens
    <2>2. FrontType'
      BY <1>1, <1>3, <1>4, <1>6, <2>1 DEF ApiInv, FrontInv, FrontType
    <2> QED BY <1>1, <1>2, <1>4, <1>7, <2>2 DEF ControlInv, Busy
  <1>10. PendingExact' /\ CountedFinite'
    <2> DEFINE a == Len(queue)
               b == Len(sched.batch)
    <2>1. a \in Nat /\ b \in Nat /\ pending \in Nat
      BY LengthsAre DEF ApiInv
    <2>2. pending' = pending - a - b /\ Len(queue') = 0 /\ Len(sched'.batch) = 0
      BY <1>1, <1>3, <1>4
    <2> HIDE DEF a, b
    <2>3. pending' \in Int /\ pending' - 0 - 0 = pending - a - b
      BY ONLY <2>1, <2>2
    <2>4. pending' - Len(queue') - Len(sched'.batch) = pending - Len(queue) - Len(sched.batch)
      BY <2>2, <2>3 DEF a, b
    <2>5. FrontInv /\ \A r \in Requests : http'[r].st = "counted" <=> http[r].st = "counted"
      BY <1>5 DEF ApiInv
    <2>6. Len(queue') \in Nat /\ Len(sched'.batch) \in Nat
      BY <2>2
    <2> QED BY <2>3, <2>4, <2>5, <2>6, CountSame
  <1> QED BY <1>2, <1>8, <1>9, <1>10 DEF ApiInv, FrontInv

LEMMA WorkerServes ==
  ASSUME ApiInv, Worker, UNCHANGED <<front, sched, gen>>
  PROVE  ApiInv'
  <1>1. /\ UNCHANGED <<backend, http, queue, pending, sched, gen>> /\ pl' = pl
    BY DEF front, Worker, Accept, Serve, ThreadEnds, AcceptStale, StaleEnds
  <1>2. RemoteInv'
    BY <1>1, WorkerStep DEF ApiInv
  <1>3. FrontType' /\ CountedFinite'
    BY <1>1 DEF ApiInv, FrontInv, FrontType, CountedFinite
  <1>4. ControlInv'
    BY <1>1 DEF ApiInv, FrontInv, ControlInv
  <1>5. RequestsInv'
    BY <1>1 DEF ApiInv, FrontInv, RequestsInv
  <1>6. PendingExact'
    BY <1>1 DEF ApiInv, FrontInv, PendingExact
  <1> QED BY <1>2, <1>3, <1>4, <1>5, <1>6 DEF ApiInv, FrontInv

-----------------------------------------------------------------------------
(* The invariant and what it implies *)

LEMMA ApiInit == Init => ApiInv
  <1> SUFFICES ASSUME Init PROVE ApiInv
    OBVIOUS
  <1>1. /\ link = [i \in Stages |-> NoLink] /\ pl = NoPipeline
        /\ stale = [n \in Nodes |-> [i \in Stages |-> [syn |-> 0, run |-> 0]]]
        /\ backend \in Backends /\ http = [r \in Requests |-> NewRequest] /\ queue = <<>>
        /\ pending = 0 /\ sched = [pc |-> "recv", batch |-> <<>>, next |-> 0]
        /\ gen = NoGeneration
    BY DEF Init, RemoteInit
  <1>2. 0 \in Nodes /\ 1 \in 1 .. NStages + 1 /\ 1 <= NStages /\ "none" \in PlOps
    BY NodesAssumption, StagesAssumption DEF Nodes, PlOps
  <1>3. pl \in Pipes /\ pl.op = "none" /\ pl.stage = 1 /\ pl.position = 0 /\ pl.node = 0
    BY <1>1, <1>2 DEF Pipes, NoPipeline
  <1>4. backend \in {"local", "remote"}
    BY <1>1, BackendsAssumption
  <1>5. /\ link \in [Stages -> Links] /\ \A i \in Stages : link[i] = NoLink
        /\ stale \in [Nodes -> [Stages -> [syn : Nat, run : Nat]]]
    BY <1>1, NoLinkIs
  <1>6. \A i \in Stages : LinkOk(link[i], pl, backend, i)
    <2> SUFFICES ASSUME NEW i \in Stages PROVE LinkOk(NoLink, pl, backend, i)
      BY <1>5
    <2>1. ~Dialled(pl, backend, i)
      BY <1>3 DEF Dialled
    <2> QED BY <1>3, <2>1, NoLinkOk
  <1>7. PipeOk(pl, backend)
    BY <1>2, <1>3 DEF PipeOk
  <1>8. SessionsBounded
    <2> SUFFICES ASSUME NEW n \in Nodes, NEW i \in Stages PROVE Running(n, i) <= MaxSessions
      BY DEF SessionsBounded
    <2>1. stale[n][i].run = 0 /\ link[i].conn = "none"
      BY <1>1, <1>5, NoLinkIs
    <2> QED BY <2>1, SessionsAssumption DEF Running, Count
  <1>9. RemoteInv
    BY <1>3, <1>5, <1>6, <1>7, <1>8 DEF RemoteInv, RemoteType
  <1>10. NewRequest \in Https /\ Untouched(NewRequest) /\ NewRequest.st = "new"
         /\ ~NewRequest.stream
    BY DEF NewRequest, Https, Statuses, Answers, Untouched
  <1>11. ReqOk(NewRequest, "out")
    <2>1. StreamOk(NewRequest, "out")
      BY <1>10, UntouchedOk
    <2> QED BY <1>10, <2>1 DEF ReqOk, Untouched
  <1>12. http \in [Requests -> Https] /\ \A r \in Requests : http[r] = NewRequest
    BY <1>1, <1>10
  <1>13. /\ sched \in [pc : Pcs, batch : Seq(Requests), next : Nodes] /\ sched.pc = "recv"
         /\ sched.batch = <<>> /\ queue \in Seq(Requests) /\ gen \in Gens
    BY <1>1, <1>2 DEF Pcs, NoGeneration, Gens
  <1>14. ToSet(<<>>) = {} /\ PlacedOnce(<<>>, <<>>)
    BY DEF ToSet, PlacedOnce, IsInjective
  <1>15. FrontType
    BY <1>4, <1>12, <1>13 DEF FrontType
  <1>16. ControlInv
    BY <1>1, <1>3, <1>13, <1>14 DEF ControlInv, Busy
  <1>17. RequestsInv
    <2>1. \A r \in Requests : RoleIn(r, queue, sched.batch, Phase(sched.pc, pl.op)) = "out"
      BY <1>1, <1>13, <1>14 DEF RoleIn
    <2> QED BY <1>11, <1>12, <2>1 DEF RequestsInv
  <1>18. PendingExact /\ CountedFinite
    <2>1. {r \in Requests : http[r].st = "counted"} = {}
      BY <1>10, <1>12
    <2>2. Cardinality({}) = 0 /\ IsFiniteSet({})
      BY FS_EmptySet
    <2>3. Len(queue) = 0 /\ Len(sched.batch) = 0 /\ pending = 0
      BY <1>1, <1>13
    <2> DEFINE C == {r \in Requests : http[r].st = "counted"}
    <2>4. Cardinality(C) = 0 /\ IsFiniteSet(C)
      BY <2>1, <2>2
    <2> HIDE DEF C
    <2>5. pending = Len(queue) + Len(sched.batch) + Cardinality(C)
      BY <2>3, <2>4
    <2> QED BY <2>4, <2>5 DEF PendingExact, CountedFinite, C
  <1> QED BY <1>9, <1>15, <1>16, <1>17, <1>18 DEF ApiInv, FrontInv

LEMMA ApiStep == ApiInv /\ [Next]_vars => ApiInv'
  <1> SUFFICES ASSUME ApiInv, [Next]_vars PROVE ApiInv'
    OBVIOUS
  <1>0. RemoteInv /\ FrontInv
    BY DEF ApiInv
  <1>1. ASSUME NEW r \in Requests,
               \/ BadRequest(r) \/ (\E b \in BOOLEAN : Admit(r, b)) \/ TrySubmit(r)
               \/ Leave(r) \/ Reader(r)
        PROVE  ApiInv'
    <2>1. UNCHANGED remoteVars /\ backend' = backend
      BY <1>1 DEF BadRequest, Admit, TrySubmit, Leave, Reader, ReadEvent, StreamEnds
    <2>2. FrontInv'
      BY <1>0, <1>1, BadRequestStep, AdmitStep, TrySubmitStep, LeaveStep, ReadEventStep,
         StreamEndsStep DEF Reader
    <2> QED BY <1>0, <2>1, <2>2, RemoteSame DEF ApiInv
  <1>2. CASE Receive \/ CollectMore \/ BatchDone \/ Skip \/ Execute \/ Respond \/ FinishStream
             \/ Done \/ Finish
    <2>1. UNCHANGED remoteVars /\ backend' = backend
      BY <1>2 DEF Receive, CollectMore, BatchDone, Skip, Execute, Respond, FinishStream, Done,
                  Finish, front
    <2>2. FrontInv'
      BY <1>0, <1>2, ReceiveStep, BatchDoneStep, SkipStep, ExecuteStep, RespondStep,
         FinishStreamStep, DoneStep, FinishStep
    <2> QED BY <1>0, <2>1, <2>2, RemoteSame DEF ApiInv
  <1>3. CASE BatchReady
    BY <1>0, <1>3, BatchReadyStep DEF ApiInv
  <1>4. CASE Begin \/ PipelineStep \/ PipelineFails \/ Logits \/ Sample \/ Emit \/ EmitTail
             \/ GenerationDone
    BY <1>4, BeginStep, PipelineStepStep, PipelineFailsStep, LogitsStep, SampleStep, EmitStep,
       EmitTailStep, GenerationDoneStep
  <1>5. CASE Unwind
    BY <1>5, UnwindStep
  <1>6. CASE Worker /\ UNCHANGED <<front, sched, gen>>
    BY <1>6, WorkerServes
  <1>7. CASE UNCHANGED vars
    <2>1. UNCHANGED remoteVars /\ UNCHANGED <<backend, http, queue, pending, sched, gen>>
      BY <1>7 DEF vars, front
    <2>2. RemoteInv'
      BY <1>0, <2>1, RemoteSame
    <2>3. FrontInv'
      BY <1>0, <2>1 DEF remoteVars, FrontInv, FrontType, ControlInv, RequestsInv,
                        PendingExact, CountedFinite
    <2> QED BY <2>2, <2>3 DEF ApiInv
  <1> QED BY <1>1, <1>2, <1>3, <1>4, <1>5, <1>6, <1>7 DEF Next, Scheduler

\* The server's invariant: every connection has exactly the rows and the messages
\* that the pipeline's operation calls for, and every request exactly the events
\* that its part in the scheduler's queue, batch or generation calls for.
THEOREM ApiInvariant == Spec => []ApiInv
  BY ApiInit, ApiStep, PTL DEF Spec

\* A worker never runs more sessions than its limit, although pipelines hang up
\* and dial again faster than its threads notice (the accept loop).
THEOREM ApiSessionsBounded == Spec => []SessionsBounded
  <1>1. ApiInv => SessionsBounded
    BY DEF ApiInv, RemoteInv
  <1> QED BY <1>1, ApiInvariant, PTL

\* pending_requests counts exactly the requests that are admitted, queued or in the
\* batch, on every path by which the guard of a request is dropped.
THEOREM ApiPendingExact == Spec => []PendingExact
  <1>1. ApiInv => PendingExact
    BY DEF ApiInv, FrontInv
  <1> QED BY <1>1, ApiInvariant, PTL

LEMMA RowsAre ==
  ASSUME NEW s \in Seq(Nat), NEW n \in Nat, RowsOf(s, n)
  PROVE  s = [k \in 1 .. n |-> k] /\ Len(s) = n
  BY DEF RowsOf

\* The sessions of all stages hold the rows of the tokens decoded, in order, and are
\* in step whenever logits are computed (RemotePipeline::decode and LayerSession).
THEOREM ApiStagesInStep == Spec => []StagesInStep
  <1>1. ApiInv => StagesInStep
    <2> SUFFICES ASSUME ApiInv, NEW i \in Stages, link[i].ready
                 PROVE  LET rows(j) == link[j].rows IN
                        /\ rows(i) = [k \in 1..Len(rows(i)) |-> k]
                        /\ Len(rows(i)) = pl.position + IF pl.op = "head" THEN 1
                             ELSE IF pl.op = "forward" THEN Count(i < pl.stage)
                             ELSE IF pl.op = "forwarding" /\ i <= pl.stage
                               THEN Count(i < pl.stage \/ link[i].rows # [k \in 1..pl.position |-> k])
                             ELSE 0
      BY DEF StagesInStep
    <2> DEFINE s == link[i].rows
               p == pl.position
    <2>1. LinkOk(link[i], pl, backend, i) /\ s \in Seq(Nat) /\ p \in Nat
          /\ pl.stage \in Nat /\ i \in Nat
      <3>1. RemoteInv
        BY DEF ApiInv
      <3>2. LinkOk(link[i], pl, backend, i) /\ s \in Seq(Nat)
        BY <3>1, LinkIs
      <3>3. p \in Nat /\ pl.stage \in Nat
        BY <3>1, PipeIs
      <3> QED BY <3>2, <3>3 DEF Stages
    <2>2. link[i].conn # "none"
      BY <2>1, NoLinkIs DEF LinkOk
    <2>3. CASE pl.op = "forwarding" /\ i = pl.stage
      <3>1. RowsOf(s, p) \/ RowsOf(s, p + 1)
        BY <2>1, <2>3 DEF LinkOk, Asked
      <3>2. CASE RowsOf(s, p)
        <4>1. s = [k \in 1 .. p |-> k] /\ Len(s) = p
          BY <2>1, <3>2, RowsAre
        <4>2. Count(i < pl.stage \/ s # [k \in 1 .. p |-> k]) = 0
          BY <2>1, <2>3, <4>1 DEF Count
        <4> QED BY <2>1, <2>3, <4>1, <4>2
      <3>3. CASE RowsOf(s, p + 1)
        <4>1. s = [k \in 1 .. p + 1 |-> k] /\ Len(s) = p + 1
          BY <2>1, <3>3, RowsAre
        <4>2. Len([k \in 1 .. p |-> k]) = p
          BY <2>1
        <4>3. Count(i < pl.stage \/ s # [k \in 1 .. p |-> k]) = 1
          BY <2>1, <4>1, <4>2 DEF Count
        <4> QED BY <2>1, <2>3, <4>1, <4>3
      <3> QED BY <3>1, <3>2, <3>3
    <2>4. CASE ~(pl.op = "forwarding" /\ i = pl.stage)
      <3> DEFINE a == Ahead(pl, i)
      <3>1. RowsOf(s, p + a) /\ a \in {0, 1}
        BY <2>1, <2>2, <2>4 DEF LinkOk, Ahead, Count
      <3>2. s = [k \in 1 .. p + a |-> k] /\ Len(s) = p + a
        BY <2>1, <3>1, RowsAre
      <3>3. a = IF pl.op = "head" THEN 1
                ELSE IF pl.op = "forward" THEN Count(i < pl.stage)
                ELSE IF pl.op = "forwarding" /\ i <= pl.stage
                  THEN Count(i < pl.stage \/ s # [k \in 1 .. p |-> k])
                ELSE 0
        BY <2>1, <2>4 DEF Ahead, Count
      <3> HIDE DEF a
      <3> QED BY <3>2, <3>3
    <2> QED BY <2>3, <2>4
  <1> QED BY <1>1, ApiInvariant, PTL

\* A client receives the pieces of the answer in order and without a gap, "stop" only
\* after all of them, and [DONE] last (execute_request and the event channel).
THEOREM ApiStreamFaithful == Spec => []StreamFaithful
  <1>1. ApiInv => StreamFaithful
    <2> SUFFICES ASSUME ApiInv, NEW r \in Requests
                 PROVE  LET g == http[r].got IN
                        \E n \in 0..Len(g) :
                          /\ \A k \in 1..n : g[k] = Piece(k)
                          /\ \A k \in n + 1..Len(g) :
                               /\ g[k].kind \in {"stop", "error", "done"}
                               /\ g[k].kind = "stop" => n = http[r].text
                               /\ g[k].kind \in {"stop", "error"} <=> k = n + 1
                               /\ g[k].kind = "done" <=> k = n + 2
      BY DEF StreamFaithful
    <2> DEFINE g == http[r].got
               l == Len(g)
               t == http[r].text
    <2>1. http[r] \in Https /\ \E n \in 0 .. t : StreamIs(http[r], n)
      BY FrontIs DEF ApiInv, ReqOk, StreamOk
    <2>2. PICK n \in 0 .. t : \A k \in 1 .. l : Shape(g[k], k, n, t)
      BY <2>1 DEF StreamIs, Fits
    <2>3. l \in Nat /\ t \in Nat /\ n \in Nat
      BY <2>1, HttpIs
    <2> HIDE DEF g, l, t
    <2>4. \A k \in 1 .. l : k <= n => g[k] = Piece(k)
      BY <2>2 DEF Shape
    <2>5. CASE n <= l
      <3>1. n \in 0 .. l /\ \A k \in 1 .. n : g[k] = Piece(k)
        BY <2>3, <2>4, <2>5
      <3>2. ASSUME NEW k \in n + 1 .. l
            PROVE  /\ g[k].kind \in {"stop", "error", "done"}
                   /\ g[k].kind = "stop" => n = t
                   /\ g[k].kind \in {"stop", "error"} <=> k = n + 1
                   /\ g[k].kind = "done" <=> k = n + 2
        <4>1. k \in 1 .. l /\ k \in Nat /\ k > n
          BY <2>3
        <4>2. Shape(g[k], k, n, t) /\ (k = n + 1 \/ k = n + 2)
          BY <2>2, <2>3, <4>1 DEF Shape
        <4>3. CASE k = n + 1
          <5>1. g[k] = Event("error") \/ (g[k] = Event("stop") /\ n = t)
            BY <4>2, <4>3 DEF Shape
          <5>2. k # n + 2
            BY <2>3, <4>3
          <5> QED BY <4>3, <5>1, <5>2 DEF Event
        <4>4. CASE k = n + 2
          <5>1. g[k] = Event("done")
            BY <4>2, <4>4 DEF Shape
          <5>2. k # n + 1
            BY <2>3, <4>4
          <5> QED BY <4>4, <5>1, <5>2 DEF Event
        <4> QED BY <4>2, <4>3, <4>4
      <3> QED BY <3>1, <3>2 DEF g, l, t
    <2>6. CASE n > l
      <3>1. l \in 0 .. l /\ (\A k \in 1 .. l : g[k] = Piece(k)) /\ l + 1 .. l = {}
        BY <2>3, <2>4, <2>6
      <3> QED BY <3>1 DEF g, l, t
    <2> QED BY <2>3, <2>5, <2>6
  <1> QED BY <1>1, ApiInvariant, PTL
================================================================================
