------------------------ MODULE SymbolicPipeline_proofs ------------------------
(***************************************************************************)
(* Proofs about the layer protocol, one connection keeping its two ends in *)
(* step for any number of stages, any context and any caller; and about    *)
(* the coordinator: it keeps its types, and everything it does to its      *)
(* clients is a use of the protocol that SymbolicLayer allows, so that all *)
(* that is proved of any caller holds of the pipeline; and it implements   *)
(* the abstract log of tokens.                                             *)
(***************************************************************************)
EXTENDS SymbolicPipeline, TLAPS

-----------------------------------------------------------------------------
(* The layer protocol, whoever calls it *)

\* Both ends agree.
InStep(c, s) == s.position = c.position /\ s.prepared = c.prepared

\* Request m is one the client in state c may have sent.
Fits(c, m) ==
    /\ m.kind \in {"commit", "abort"} => c.prepared /\ m.position = c.position
    /\ m.kind = "prepare" => ~c.prepared /\ m.position = c.position

\* Nothing in flight: the client is idle, or waits for a worker that is gone.
Quiet(c, q, a, s) ==
    /\ q = <<>> /\ a = <<>>
    /\ c.call # NoCall => ~s.open
    /\ c.healthy /\ s.open => InStep(c, s)

\* The request is under way, and fits the session that will read it.
Requested(c, q, a, s) ==
    /\ a = <<>>
    /\ \E m \in Requests :
         /\ q = <<m>>
         /\ c.healthy => c.call = m
         /\ c.call # NoCall => c.call = m
         /\ Fits(c, m)
         /\ s.open => InStep(c, s)

\* The response is under way; taking it will bring the ends into step.
Responded(c, q, a, s) ==
    /\ q = <<>>
    /\ \E st \in {"ok", "reject"} :
         /\ a = <<st>>
         /\ c.healthy => c.call # NoCall
         /\ c.call # NoCall /\ s.open
              => IF st = "ok" THEN InStep(Acknowledge(c), s) ELSE InStep(c, s)

LinkInv(c, q, a, s) ==
    /\ c \in Clients /\ s \in Sessions
    /\ c.call # NoCall => c.healthy /\ Fits(c, c.call)
    /\ c.prepared => c.position \in Positions
    /\ s.open => s.position \in {c.position, c.position + 1, 0}
    /\ Quiet(c, q, a, s) \/ Requested(c, q, a, s) \/ Responded(c, q, a, s)

\* The inductive invariant of the protocol.
LayerInv ==
    /\ LayerTypeOK
    /\ \A i \in Stages : LinkInv(client[i], req[i], resp[i], session[i])

-----------------------------------------------------------------------------
(* Facts about the message and session operators *)

\* A request is exactly one of the five kinds, with its fields in range.
LEMMA RequestShape ==
    ASSUME NEW m \in Requests
    PROVE  /\ m.kind \in {"prepare", "commit", "abort", "reset", "close"}
           /\ m.position \in Positions \cup {0}
           /\ m.kind \in {"prepare", "commit", "abort"} => m.position \in Positions
           /\ m.kind = "prepare" => m.token \in Tokens
           /\ m # NoCall
  BY DEF Requests, PrepareReq, CommitReq, AbortReq, ResetReq, CloseReq, NoCall

\* Positions are naturals below the context.
LEMMA PositionRange ==
    /\ Context \in Nat /\ Context > 0
    /\ \A p \in Positions : p \in Nat /\ p < Context /\ p \in 0..Context
                                /\ p + 1 \in 0..Context
    /\ \A p \in 0..Context : p \in Nat /\ (p < Context => p \in Positions)
    /\ 0 \in Positions /\ 0 \in 0..Context
  BY ContextAssumption DEF Positions

\* Writing one KV cell keeps a cache a cache.
LEMMA RowsType ==
    /\ NoRows \in [Positions -> Tokens \cup {NoRow}]
    /\ \A r \in [Positions -> Tokens \cup {NoRow}], p \in Positions, t \in Tokens :
         [r EXCEPT ![p] = t] \in [Positions -> Tokens \cup {NoRow}]
  BY DEF NoRows

\* What serving a request does to a session that the request fits: the session
\* stays well formed, a rejection leaves position and pending flag alone, and an
\* acknowledgement changes them exactly as Acknowledge changes the client.
LEMMA OutcomeFacts ==
    ASSUME NEW s \in Sessions, s.open, NEW m \in Requests,
           NEW c \in Clients, c.call = m, Fits(c, m), InStep(c, s),
           NEW o \in Outcomes(s, m)
    PROVE  /\ o[1] \in Sessions
           /\ o[2] \in {"ok", "reject"}
           /\ o[2] = "reject" => InStep(c, o[1])
           /\ o[2] = "ok" /\ o[1].open => InStep(Acknowledge(c), o[1])
           /\ o[1].position \in {c.position, c.position + 1, 0}
  <1> USE DEF InStep, Fits
  <1>1. CASE m.kind = "prepare"
    <2>1. o \in SessionPrepare(s, m.position, m.token)
      BY <1>1 DEF Outcomes
    <2>2. m.position \in Positions /\ m.token \in Tokens
      BY <1>1, RequestShape
    <2>3. \/ o = <<[s EXCEPT !.rows[m.position] = m.token, !.prepared = TRUE], "ok">>
          \/ o = <<[s EXCEPT !.rows[m.position] = m.token], "reject">>
          \/ o = <<s, "reject">>
      BY <2>1, <2>2 DEF SessionPrepare
    <2>4. Acknowledge(c) = [c EXCEPT !.prepared = TRUE]
      BY <1>1 DEF Acknowledge
    <2> DEFINE r == [s.rows EXCEPT ![m.position] = m.token]
    <2>5. r \in [Positions -> Tokens \cup {NoRow}]
      BY <2>2, RowsType DEF Sessions
    <2> HIDE DEF r
    <2>6. CASE o = <<[s EXCEPT !.rows = r, !.prepared = TRUE], "ok">>
      BY <1>1, <2>4, <2>5, <2>6 DEF Sessions, Clients
    <2>7. CASE o = <<[s EXCEPT !.rows = r], "reject">>
      BY <1>1, <2>5, <2>7 DEF Sessions, Clients
    <2>8. CASE o = <<s, "reject">>
      BY <1>1, <2>8
    <2> QED BY <2>3, <2>6, <2>7, <2>8 DEF r
  <1>2. CASE m.kind = "commit"
    <2>1. o = <<[s EXCEPT !.position = @ + 1, !.prepared = FALSE], "ok">>
      BY <1>2 DEF Outcomes, SessionCommit
    <2>2. Acknowledge(c) = [c EXCEPT !.position = @ + 1, !.prepared = FALSE]
      BY <1>2 DEF Acknowledge
    <2>3. s.position + 1 \in 0..Context
      BY <1>2, RequestShape, PositionRange
    <2> QED BY <2>1, <2>2, <2>3 DEF Sessions, Clients
  <1>3. CASE m.kind = "abort"
    <2>1. o = <<[s EXCEPT !.prepared = FALSE], "ok">>
      BY <1>3 DEF Outcomes, SessionAbort
    <2>2. Acknowledge(c) = [c EXCEPT !.prepared = FALSE]
      BY <1>3 DEF Acknowledge
    <2> QED BY <2>1, <2>2 DEF Sessions, Clients
  <1>4. CASE m.kind = "reset"
    <2>1. \/ o = <<[s EXCEPT !.position = 0, !.prepared = FALSE, !.rows = NoRows], "ok">>
          \/ o = <<s, "reject">>
      BY <1>4 DEF Outcomes, SessionReset
    <2>2. Acknowledge(c) = [c EXCEPT !.position = 0, !.prepared = FALSE]
      BY <1>4 DEF Acknowledge
    <2>3. CASE o = <<[s EXCEPT !.position = 0, !.prepared = FALSE,
                                !.rows = NoRows], "ok">>
      <3>1. o[1] \in Sessions
        BY <2>3, RowsType, PositionRange DEF Sessions
      <3> QED BY <2>2, <2>3, <3>1 DEF Sessions, Clients
    <2>4. CASE o = <<s, "reject">>
      BY <2>4
    <2> QED BY <2>1, <2>3, <2>4
  <1>5. CASE m.kind = "close"
    <2>1. o = <<[s EXCEPT !.open = FALSE], "ok">>
      BY <1>5 DEF Outcomes, SessionClose
    <2> QED BY <2>1 DEF Sessions
  <1> QED BY <1>1, <1>2, <1>3, <1>4, <1>5, RequestShape

-----------------------------------------------------------------------------
(* The steps of one connection preserve its invariant *)

\* One-element sequences, as the wire uses them.
LEMMA OneFrame ==
    ASSUME NEW x
    PROVE  /\ Head(<<x>>) = x /\ Tail(<<x>>) = <<>> /\ <<x>> # <<>>
           /\ Append(<<>>, x) = <<x>> /\ Len(<<x>>) = 1 /\ Len(<<>>) = 0
  OBVIOUS

\* A turn of the worker's loop keeps its connection's invariant.
LEMMA ServeLink ==
    ASSUME NEW c, NEW q, NEW a, NEW s, LinkInv(c, q, a, s),
           s.open, q # <<>>, NEW o \in Outcomes(s, Head(q))
    PROVE  LinkInv(c, Tail(q), Append(a, o[2]), o[1])
  <1>1. Requested(c, q, a, s)
    BY DEF LinkInv, Quiet, Responded
  <1>2. PICK m \in Requests : /\ q = <<m>>
                              /\ c.healthy => c.call = m
                              /\ c.call # NoCall => c.call = m
                              /\ Fits(c, m)
                              /\ InStep(c, s)
    BY <1>1 DEF Requested
  <1>3. Head(q) = m /\ Tail(q) = <<>> /\ Append(a, o[2]) = <<o[2]>>
    BY <1>1, <1>2, OneFrame DEF Requested
  <1> DEFINE d == [c EXCEPT !.call = m]
  <1>4. /\ d \in Clients /\ d.call = m /\ Fits(d, m) /\ InStep(d, s)
        /\ d.position = c.position /\ d.prepared = c.prepared
    BY <1>2 DEF LinkInv, Clients, Fits, InStep
  <1> HIDE DEF d
  <1>5. /\ o[1] \in Sessions
        /\ o[2] \in {"ok", "reject"}
        /\ o[2] = "reject" => InStep(d, o[1])
        /\ o[2] = "ok" /\ o[1].open => InStep(Acknowledge(d), o[1])
        /\ o[1].position \in {d.position, d.position + 1, 0}
    <2>1. s \in Sessions /\ o \in Outcomes(s, m)
      BY <1>3 DEF LinkInv
    <2> QED BY <1>4, <2>1, OutcomeFacts
  <1>6. c.call # NoCall => d = c
    BY <1>2 DEF d, LinkInv, Clients
  <1>7. Responded(c, <<>>, <<o[2]>>, o[1])
    <2>1. c.healthy => c.call # NoCall
      BY <1>2, RequestShape
    <2> QED BY <1>5, <1>6, <2>1 DEF Responded
  <1>8. o[1].position \in {c.position, c.position + 1, 0}
    BY <1>4, <1>5
  <1> QED BY <1>3, <1>5, <1>7, <1>8 DEF LinkInv

\* The end of the worker's loop keeps it: the request is gone, an answer already
\* sent is not.
LEMMA EndLink ==
    ASSUME NEW c, NEW q, NEW a, NEW s, LinkInv(c, q, a, s), s.open
    PROVE  LinkInv(c, <<>>, a, [s EXCEPT !.open = FALSE])
  <1> DEFINE z == [s EXCEPT !.open = FALSE]
  <1>1. z \in Sessions /\ z.open = FALSE
    BY DEF LinkInv, Sessions
  <1> HIDE DEF z
  <1>2. CASE Responded(c, q, a, s)
    <2>1. Responded(c, <<>>, a, z)
      BY <1>1, <1>2 DEF Responded
    <2> QED BY <1>1, <2>1 DEF LinkInv, z
  <1>3. CASE a = <<>>
    <2>1. Quiet(c, <<>>, a, z)
      BY <1>1, <1>3 DEF Quiet
    <2> QED BY <1>1, <2>1 DEF LinkInv, z
  <1> QED BY <1>2, <1>3 DEF LinkInv, Quiet, Requested

\* A request that fits the client's state keeps it.
LEMMA SendLink ==
    ASSUME NEW c, NEW q, NEW a, NEW s, LinkInv(c, q, a, s),
           NEW m \in Requests, Fits(c, m), c.healthy, c.call = NoCall
    PROVE  LinkInv([c EXCEPT !.call = m], Append(q, m), a, s)
  <1> DEFINE d == [c EXCEPT !.call = m]
  <1>1. Quiet(c, q, a, s)
    BY RequestShape DEF LinkInv, Requested, Responded
  <1>2. /\ d \in Clients /\ d.call = m /\ d.healthy
        /\ d.position = c.position /\ d.prepared = c.prepared
    BY DEF LinkInv, Clients
  <1> HIDE DEF d
  <1>3. Fits(d, m) /\ (s.open => InStep(d, s))
    BY <1>1, <1>2 DEF Fits, InStep, Quiet
  <1>4. Append(q, m) = <<m>> /\ a = <<>>
    BY <1>1, OneFrame DEF Quiet
  <1>5. Requested(d, <<m>>, a, s)
    BY <1>2, <1>3, <1>4 DEF Requested
  <1>6. LinkInv(d, <<m>>, a, s)
    BY <1>2, <1>3, <1>5 DEF LinkInv
  <1> QED BY <1>4, <1>6 DEF d

\* Reading the answer keeps it: the client catches up with the session.
LEMMA AnswerLink ==
    ASSUME NEW c, NEW q, NEW a, NEW s, LinkInv(c, q, a, s),
           c.call # NoCall, a # <<>>, NEW st \in {"ok", "reject"}, Head(a) = st
    PROVE  LinkInv([(IF st = "ok" THEN Acknowledge(c) ELSE c)
                      EXCEPT !.call = NoCall, !.healthy = c.call.kind # "close"],
                   q, Tail(a), s)
  <1>1. Responded(c, q, a, s)
    BY DEF LinkInv, Quiet, Requested
  <1>2. q = <<>> /\ a = <<st>> /\ Tail(a) = <<>>
    BY <1>1, OneFrame DEF Responded
  <1>3. c.call \in Requests /\ Fits(c, c.call) /\ c \in Clients /\ s \in Sessions
    BY DEF LinkInv, Clients
  <1> DEFINE e == IF st = "ok" THEN Acknowledge(c) ELSE c
             d == [e EXCEPT !.call = NoCall, !.healthy = c.call.kind # "close"]
  <1>4. e \in Clients
    <2>1. CASE c.call.kind = "commit"
      <3>1. c.position + 1 \in 0..Context
        BY <1>3, <2>1, RequestShape, PositionRange DEF Fits
      <3>2. e \in {c, [c EXCEPT !.position = @ + 1, !.prepared = FALSE]}
        BY <2>1 DEF Acknowledge
      <3> QED BY <1>3, <3>1, <3>2 DEF Clients
    <2>2. CASE c.call.kind = "prepare"
      <3>1. e \in {c, [c EXCEPT !.prepared = TRUE]}
        BY <2>2 DEF Acknowledge
      <3> QED BY <1>3, <3>1 DEF Clients
    <2>3. CASE c.call.kind = "abort"
      <3>1. e \in {c, [c EXCEPT !.prepared = FALSE]}
        BY <2>3 DEF Acknowledge
      <3> QED BY <1>3, <3>1 DEF Clients
    <2>4. CASE c.call.kind = "reset"
      <3>1. e \in {c, [c EXCEPT !.position = 0, !.prepared = FALSE]}
        BY <2>4 DEF Acknowledge
      <3> QED BY <1>3, <3>1, PositionRange DEF Clients
    <2>5. CASE c.call.kind = "close"
      BY <1>3, <2>5 DEF Acknowledge
    <2> QED BY <1>3, <2>1, <2>2, <2>3, <2>4, <2>5, RequestShape
  <1>5. s.open => InStep(e, s)
    BY <1>1, <1>2 DEF Responded
  <1> HIDE DEF e
  <1>6. /\ d \in Clients /\ d.call = NoCall
        /\ d.position = e.position /\ d.prepared = e.prepared
    BY <1>4 DEF Clients
  <1> HIDE DEF d
  <1>7. s.open => InStep(d, s)
    BY <1>5, <1>6 DEF InStep
  <1>8. Quiet(d, <<>>, <<>>, s)
    BY <1>6, <1>7 DEF Quiet
  <1>9. d.prepared => d.position \in Positions
    BY <1>3, <1>6, RequestShape DEF e, Acknowledge, Fits, LinkInv, Clients
  <1>10. LinkInv(d, <<>>, <<>>, s)
    BY <1>3, <1>6, <1>7, <1>8, <1>9 DEF LinkInv, InStep
  <1> QED BY <1>2, <1>10 DEF d, e

\* Invalidating the client keeps it, whatever is still under way.
LEMMA FailLink ==
    ASSUME NEW c, NEW q, NEW a, NEW s, LinkInv(c, q, a, s), c.call # NoCall
    PROVE  LinkInv([c EXCEPT !.call = NoCall, !.healthy = FALSE], q, a, s)
  <1> DEFINE d == [c EXCEPT !.call = NoCall, !.healthy = FALSE]
  <1>1. /\ d \in Clients /\ d.call = NoCall /\ d.healthy = FALSE
        /\ d.position = c.position /\ d.prepared = c.prepared
    BY DEF LinkInv, Clients
  <1> HIDE DEF d
  <1>2. Quiet(c, q, a, s) => Quiet(d, q, a, s)
    BY <1>1 DEF Quiet
  <1>3. Requested(c, q, a, s) => Requested(d, q, a, s)
    BY <1>1 DEF Requested, Fits, InStep
  <1>4. Responded(c, q, a, s) => Responded(d, q, a, s)
    BY <1>1 DEF Responded
  <1>5. LinkInv(d, q, a, s)
    BY <1>1, <1>2, <1>3, <1>4 DEF LinkInv
  <1> QED BY <1>5 DEF d

-----------------------------------------------------------------------------
(* The whole protocol *)

\* Changing one connection by a step that keeps its own invariant keeps that
\* of all.
LEMMA OneLinkMoves ==
    ASSUME LayerInv, NEW i \in Stages, NEW c, NEW q, NEW a, NEW s,
           LinkInv(c, q, a, s),
           client' = [client EXCEPT ![i] = c], req' = [req EXCEPT ![i] = q],
           resp' = [resp EXCEPT ![i] = a], session' = [session EXCEPT ![i] = s]
    PROVE  LayerInv'
  <1>1. c \in Clients /\ s \in Sessions
    BY DEF LinkInv
  <1>2. q \in Seq(Requests) /\ a \in Seq({"ok", "reject"})
    <2>1. /\ \A m \in Requests : <<m>> \in Seq(Requests)
          /\ \A st \in {"ok", "reject"} : <<st>> \in Seq({"ok", "reject"})
          /\ <<>> \in Seq(Requests) /\ <<>> \in Seq({"ok", "reject"})
      OBVIOUS
    <2> QED BY <2>1 DEF LinkInv, Quiet, Requested, Responded
  <1>3. LayerTypeOK'
    BY <1>1, <1>2 DEF LayerInv, LayerTypeOK
  <1>4. \A j \in Stages : LinkInv(client'[j], req'[j], resp'[j], session'[j])
    <2> TAKE j \in Stages
    <2>1. CASE j = i
      <3>1. client'[j] = c /\ req'[j] = q /\ resp'[j] = a /\ session'[j] = s
        BY <2>1 DEF LayerInv, LayerTypeOK
      <3> QED BY <3>1
    <2>2. CASE j # i
      <3>1. /\ client'[j] = client[j] /\ req'[j] = req[j]
            /\ resp'[j] = resp[j] /\ session'[j] = session[j]
        BY <2>2 DEF LayerInv, LayerTypeOK
      <3>2. LinkInv(client[j], req[j], resp[j], session[j])
        BY DEF LayerInv
      <3> QED BY <3>1, <3>2
    <2> QED BY <2>1, <2>2
  <1> QED BY <1>3, <1>4 DEF LayerInv

\* A freshly opened set of connections satisfies the invariant.
LEMMA LayerInvInit == LayerInit => LayerInv
  <1> SUFFICES ASSUME LayerInit PROVE LayerInv
    OBVIOUS
  <1>1. LayerTypeOK
    BY RowsType, PositionRange DEF LayerInit, LayerTypeOK, Clients, Sessions
  <1>2. \A i \in Stages : Quiet(client[i], req[i], resp[i], session[i])
    BY DEF LayerInit, Quiet, InStep
  <1>3. \A i \in Stages : LinkInv(client[i], req[i], resp[i], session[i])
    BY <1>1, <1>2 DEF LayerInit, LayerTypeOK, LinkInv
  <1> QED BY <1>1, <1>3 DEF LayerInv

\* Every step of the protocol, of either end, keeps the invariant.
LEMMA LayerInvStep == LayerInv /\ [LayerNext]_layerVars => LayerInv'
  <1> SUFFICES ASSUME LayerInv, [LayerNext]_layerVars PROVE LayerInv'
    OBVIOUS
  <1>1. CASE UNCHANGED layerVars
    BY <1>1 DEF layerVars, LayerInv, LayerTypeOK
  <1>2. ASSUME NEW i \in Stages
        PROVE  /\ LinkInv(client[i], req[i], resp[i], session[i])
               /\ client = [client EXCEPT ![i] = client[i]]
               /\ req = [req EXCEPT ![i] = req[i]]
               /\ resp = [resp EXCEPT ![i] = resp[i]]
               /\ session = [session EXCEPT ![i] = session[i]]
    BY DEF LayerInv, LayerTypeOK
  <1>3. ASSUME NEW i \in Stages, Serve(i) PROVE LayerInv'
    <2>1. PICK o \in Outcomes(session[i], Head(req[i])) :
             /\ session' = [session EXCEPT ![i] = o[1]]
             /\ resp' = [resp EXCEPT ![i] = Append(resp[i], o[2])]
      BY <1>3 DEF Serve
    <2>2. LinkInv(client[i], Tail(req[i]), Append(resp[i], o[2]), o[1])
      BY <1>2, <1>3, ServeLink DEF Serve
    <2>3. client' = client /\ req' = [req EXCEPT ![i] = Tail(req[i])]
      BY <1>3 DEF Serve
    <2> QED BY <1>2, <2>1, <2>2, <2>3, OneLinkMoves
  <1>4. ASSUME NEW i \in Stages, ServerEnds(i) PROVE LayerInv'
    <2> DEFINE s == [session[i] EXCEPT !.open = FALSE]
    <2>1. LinkInv(client[i], <<>>, resp[i], s)
      BY <1>2, <1>4, EndLink DEF ServerEnds
    <2>2. /\ client' = client /\ req' = [req EXCEPT ![i] = <<>>]
          /\ resp' = resp /\ session' = [session EXCEPT ![i] = s]
      BY <1>4 DEF ServerEnds
    <2> HIDE DEF s
    <2>3. client' = [client EXCEPT ![i] = client[i]] /\ resp' = [resp EXCEPT ![i] = resp[i]]
      BY <1>2, <2>2
    <2> QED BY <2>1, <2>2, <2>3, OneLinkMoves
  <1>5. ASSUME NEW i \in Stages, NEW m \in Requests, Fits(client[i], m), Send(i, m)
        PROVE  LayerInv'
    <2> DEFINE c == [client[i] EXCEPT !.call = m]
    <2>1. LinkInv(c, Append(req[i], m), resp[i], session[i])
      BY <1>2, <1>5, SendLink DEF Send
    <2>2. /\ client' = [client EXCEPT ![i] = c] /\ session' = session
          /\ req' = [req EXCEPT ![i] = Append(req[i], m)] /\ resp' = resp
      BY <1>5 DEF Send
    <2> HIDE DEF c
    <2>3. session' = [session EXCEPT ![i] = session[i]] /\ resp' = [resp EXCEPT ![i] = resp[i]]
      BY <1>2, <2>2
    <2> QED BY <2>1, <2>2, <2>3, OneLinkMoves
  <1>6. ASSUME NEW i \in Stages, NEW p \in 0..Context, NEW t \in Tokens,
               CallPrepare(i, p, t)
        PROVE  LayerInv'
    <2>1. PrepareReq(p, t) \in Requests /\ Fits(client[i], PrepareReq(p, t))
      BY <1>6, PositionRange DEF CallPrepare, Requests, PrepareReq, Fits
    <2> QED BY <1>5, <1>6, <2>1 DEF CallPrepare
  <1>7. ASSUME NEW i \in Stages, NEW p \in 0..Context, CallCommit(i, p)
        PROVE  LayerInv'
    <2>1. CommitReq(p) \in Requests /\ Fits(client[i], CommitReq(p))
      BY <1>2, <1>7 DEF CallCommit, Requests, CommitReq, Fits, LinkInv
    <2> QED BY <1>5, <1>7, <2>1 DEF CallCommit
  <1>8. ASSUME NEW i \in Stages, NEW p \in 0..Context, CallAbort(i, p)
        PROVE  LayerInv'
    <2>1. AbortReq(p) \in Requests /\ Fits(client[i], AbortReq(p))
      BY <1>2, <1>8 DEF CallAbort, Requests, AbortReq, Fits, LinkInv
    <2> QED BY <1>5, <1>8, <2>1 DEF CallAbort
  <1>9. ASSUME NEW i \in Stages, CallReset(i) \/ CallClose(i) PROVE LayerInv'
    <2>1. /\ ResetReq \in Requests /\ Fits(client[i], ResetReq)
          /\ CloseReq \in Requests /\ Fits(client[i], CloseReq)
      BY DEF Requests, ResetReq, CloseReq, Fits
    <2> QED BY <1>5, <1>9, <2>1 DEF CallReset, CallClose
  <1>10. ASSUME NEW i \in Stages, NEW st \in {"ok", "reject"}, Answered(i, st)
         PROVE  LayerInv'
    <2> DEFINE c == [(IF st = "ok" THEN Acknowledge(client[i]) ELSE client[i])
                       EXCEPT !.call = NoCall,
                              !.healthy = client[i].call.kind # "close"]
    <2>1. LinkInv(c, req[i], Tail(resp[i]), session[i])
      BY <1>2, <1>10, AnswerLink DEF Answered
    <2>2. /\ client' = [client EXCEPT ![i] = c] /\ req' = req
          /\ resp' = [resp EXCEPT ![i] = Tail(resp[i])] /\ session' = session
      BY <1>10 DEF Answered
    <2> HIDE DEF c
    <2>3. session' = [session EXCEPT ![i] = session[i]] /\ req' = [req EXCEPT ![i] = req[i]]
      BY <1>2, <2>2
    <2> QED BY <2>1, <2>2, <2>3, OneLinkMoves
  <1>11. ASSUME NEW i \in Stages, ExchangeFails(i) PROVE LayerInv'
    <2> DEFINE c == [client[i] EXCEPT !.call = NoCall, !.healthy = FALSE]
    <2>1. LinkInv(c, req[i], resp[i], session[i])
      BY <1>2, <1>11, FailLink DEF ExchangeFails
    <2>2. client' = [client EXCEPT ![i] = c]
      BY <1>11 DEF ExchangeFails, LayerInv, LayerTypeOK
    <2> HIDE DEF c
    <2>3. /\ session' = [session EXCEPT ![i] = session[i]]
          /\ req' = [req EXCEPT ![i] = req[i]] /\ resp' = [resp EXCEPT ![i] = resp[i]]
      BY <1>2, <1>11 DEF ExchangeFails
    <2> QED BY <2>1, <2>2, <2>3, OneLinkMoves
  <1> QED
    BY <1>1, <1>3, <1>4, <1>6, <1>7, <1>8, <1>9, <1>10, <1>11 DEF LayerNext

\* What the invariant gives at every moment: types, at most one frame per
\* connection, agreement of the two ends, requests that fit, and a position
\* that is off by at most one unanswered request.
LEMMA LayerInvImplies ==
    LayerInv => /\ LayerTypeOK /\ OneOutstanding /\ Agreement
                /\ RequestFits /\ BoundedAmbiguity
  <1> SUFFICES ASSUME LayerInv
               PROVE  /\ LayerTypeOK /\ OneOutstanding /\ Agreement
                      /\ RequestFits /\ BoundedAmbiguity
    OBVIOUS
  <1>1. LayerTypeOK
    BY DEF LayerInv
  <1>2. \A i \in Stages : LinkInv(client[i], req[i], resp[i], session[i])
    BY DEF LayerInv
  <1>3. OneOutstanding
    <2> SUFFICES ASSUME NEW i \in Stages
                 PROVE  /\ Len(req[i]) + Len(resp[i]) <= 1
                        /\ client[i].healthy /\ client[i].call = NoCall
                             => req[i] = <<>> /\ resp[i] = <<>>
      BY DEF OneOutstanding
    <2>1. CASE Quiet(client[i], req[i], resp[i], session[i])
      BY <2>1 DEF Quiet
    <2>2. CASE Requested(client[i], req[i], resp[i], session[i])
      BY <2>2, OneFrame, RequestShape DEF Requested
    <2>3. CASE Responded(client[i], req[i], resp[i], session[i])
      BY <2>3, OneFrame DEF Responded
    <2> QED BY <1>2, <2>1, <2>2, <2>3 DEF LinkInv
  <1>4. Agreement
    BY <1>2, RequestShape
    DEF Agreement, LinkInv, Quiet, Requested, Responded, InStep
  <1>5. RequestFits
    <2> SUFFICES ASSUME NEW i \in Stages, session[i].open, req[i] # <<>>
                 PROVE  LET m == Head(req[i]) IN
                        /\ m.kind \in {"commit", "abort"}
                             => session[i].prepared /\ m.position = session[i].position
                        /\ m.kind = "prepare"
                             => ~session[i].prepared /\ m.position = session[i].position
      BY DEF RequestFits
    <2>1. Requested(client[i], req[i], resp[i], session[i])
      BY <1>2 DEF LinkInv, Quiet, Responded
    <2>2. PICK m \in Requests : /\ req[i] = <<m>> /\ Fits(client[i], m)
                                /\ InStep(client[i], session[i])
      BY <2>1 DEF Requested
    <2> QED BY <2>2, OneFrame DEF Fits, InStep
  <1>6. BoundedAmbiguity
    BY <1>2 DEF BoundedAmbiguity, LinkInv
  <1> QED BY <1>1, <1>3, <1>4, <1>5, <1>6

\* Serving a request leaves the rows below the confirmed position alone, unless
\* it empties the session.
LEMMA OutcomeKeepsRows ==
    ASSUME NEW s \in Sessions, NEW m \in Requests, NEW o \in Outcomes(s, m),
           NEW p \in 0..(s.position - 1), o[1].position # 0
    PROVE  o[1].rows[p] = s.rows[p]
  <1>0. s.position \in Nat /\ s.position <= Context
    BY ContextAssumption DEF Sessions
  <1>1. CASE m.kind = "prepare"
    <2>1. m.position \in Positions
      BY <1>1, RequestShape
    <2>2. CASE s.prepared \/ m.position # s.position \/ m.position >= Context
      BY <1>1, <2>2 DEF Outcomes, SessionPrepare
    <2>3. CASE ~(s.prepared \/ m.position # s.position \/ m.position >= Context)
      <3> DEFINE r == [s.rows EXCEPT ![m.position] = m.token]
      <3>1. r[p] = s.rows[p]
        <4>1. p \in Positions /\ p # m.position
          BY <1>0, <2>3, ContextAssumption DEF Positions
        <4> QED BY <2>1, <4>1 DEF Sessions
      <3>2. \/ o[1] = [s EXCEPT !.rows = r, !.prepared = TRUE]
            \/ o[1] = [s EXCEPT !.rows = r]
            \/ o[1] = s
        BY <1>1, <2>3 DEF Outcomes, SessionPrepare
      <3> HIDE DEF r
      <3>3. o[1].rows \in {r, s.rows}
        BY <3>2 DEF Sessions
      <3> QED BY <3>1, <3>3
    <2> QED BY <2>2, <2>3
  <1>2. CASE m.kind = "commit"
    <2>1. \/ o = <<s, "reject">>
          \/ o = <<[s EXCEPT !.position = @ + 1, !.prepared = FALSE], "ok">>
      BY <1>2 DEF Outcomes, SessionCommit
    <2>2. CASE o = <<[s EXCEPT !.position = @ + 1, !.prepared = FALSE], "ok">>
      BY <2>2 DEF Sessions
    <2> QED BY <2>1, <2>2
  <1>3. CASE m.kind = "abort"
    <2>1. o = <<s, "reject">> \/ o = <<[s EXCEPT !.prepared = FALSE], "ok">>
      BY <1>3 DEF Outcomes, SessionAbort
    <2> QED BY <2>1 DEF Sessions
  <1>4. CASE m.kind = "reset"
    <2>1. \/ o = <<[s EXCEPT !.position = 0, !.prepared = FALSE, !.rows = NoRows], "ok">>
          \/ o = <<s, "reject">>
      BY <1>4 DEF Outcomes, SessionReset
    <2>2. CASE o = <<[s EXCEPT !.position = 0, !.prepared = FALSE, !.rows = NoRows], "ok">>
      BY <2>2 DEF Sessions
    <2> QED BY <2>1, <2>2
  <1>5. CASE m.kind = "close"
    <2>1. o = <<[s EXCEPT !.open = FALSE], "ok">>
      BY <1>5 DEF Outcomes, SessionClose
    <2> QED BY <2>1 DEF Sessions
  <1> QED BY <1>1, <1>2, <1>3, <1>4, <1>5, RequestShape

\* No step of the protocol writes a row below the confirmed position.
LEMMA LayerKeepsRows ==
    LayerInv /\ [LayerNext]_layerVars
      => \A i \in Stages :
           session'[i].position # 0
             => \A p \in 0..(session[i].position - 1) :
                  session'[i].rows[p] = session[i].rows[p]
  <1> SUFFICES ASSUME LayerInv, [LayerNext]_layerVars, NEW i \in Stages,
                      session'[i].position # 0,
                      NEW p \in 0..(session[i].position - 1)
               PROVE  session'[i].rows[p] = session[i].rows[p]
    OBVIOUS
  <1>1. session \in [Stages -> Sessions] /\ req \in [Stages -> Seq(Requests)]
    BY DEF LayerInv, LayerTypeOK
  <1>2. CASE session' = session
    BY <1>2
  <1>3. ASSUME NEW j \in Stages, Serve(j)
        PROVE  session'[i].rows[p] = session[i].rows[p]
    <2>1. PICK o \in Outcomes(session[j], Head(req[j])) :
             session' = [session EXCEPT ![j] = o[1]]
      BY <1>3 DEF Serve
    <2>2. Head(req[j]) \in Requests /\ session[j] \in Sessions
      BY <1>1, <1>3 DEF Serve
    <2>3. CASE j = i
      <3>1. session'[i] = o[1]
        BY <1>1, <2>1, <2>3
      <3> QED BY <2>2, <2>3, <3>1, OutcomeKeepsRows
    <2>4. CASE j # i
      BY <1>1, <2>1, <2>4
    <2> QED BY <2>3, <2>4
  <1>4. ASSUME NEW j \in Stages, ServerEnds(j)
        PROVE  session'[i].rows[p] = session[i].rows[p]
    BY <1>1, <1>4 DEF ServerEnds, Sessions
  <1>5. LayerNext /\ ~(\E j \in Stages : Serve(j) \/ ServerEnds(j)) => session' = session
    BY DEF LayerNext, CallPrepare, CallCommit, CallAbort, CallReset, CallClose, Send,
           Answered, ExchangeFails
  <1> QED BY <1>2, <1>3, <1>4, <1>5 DEF layerVars

\* For every number of stages and every context length the layer protocol keeps
\* its types, whatever the caller does, whatever is lost and whoever dies.
THEOREM LayerTypeCorrect == LayerSpec => []LayerTypeOK
  BY LayerInvInit, LayerInvStep, LayerInvImplies, PTL DEF LayerSpec

\* A connection never carries two frames, so an answer is never taken for that
\* of a later request.
THEOREM LayerOneOutstanding == LayerSpec => []OneOutstanding
  BY LayerInvInit, LayerInvStep, LayerInvImplies, PTL DEF LayerSpec

\* A healthy client between two calls knows its session's position and whether
\* a row is prepared.
THEOREM LayerAgreement == LayerSpec => []Agreement
  BY LayerInvInit, LayerInvStep, LayerInvImplies, PTL DEF LayerSpec

\* A worker never has to reject a request because of its position or pending
\* state.
THEOREM LayerRequestFits == LayerSpec => []RequestFits
  BY LayerInvInit, LayerInvStep, LayerInvImplies, PTL DEF LayerSpec

\* Even an invalidated client is at most one commit or one reset behind.
THEOREM LayerBoundedAmbiguity == LayerSpec => []BoundedAmbiguity
  BY LayerInvInit, LayerInvStep, LayerInvImplies, PTL DEF LayerSpec

\* Confirmed KV rows are never overwritten: only a reset, which forgets them all,
\* may change them.
THEOREM LayerCommittedRowsStable == LayerSpec => CommittedRowsStable
  <1>1. LayerInv /\ [LayerNext]_layerVars
          => [\A i \in Stages :
                session'[i].position # 0
                  => \A p \in 0..(session[i].position - 1) :
                       session'[i].rows[p] = session[i].rows[p]]_layerVars
    BY LayerKeepsRows
  <1> QED BY <1>1, LayerInvInit, LayerInvStep, PTL DEF LayerSpec, CommittedRowsStable

-----------------------------------------------------------------------------
(* The coordinator *)

\* The coordinator's own part of the inductive invariant: while a token is
\* being prepared it is at hand, and the context has room for it.
CoordinatorInv ==
    /\ pl \in Pipelines
    /\ history \in Seq(Tokens)
    /\ projected \in Seq(Tokens)
    /\ pl.op \in {"prepare", "head"} => pl.token \in Tokens
    /\ pl.op \in {"prepare", "head", "commit"} => pl.position < Context

Exchanging == {"prepare", "commit", "reset", "close"}

\* Only the client of the current stage can be inside a call.
OneCall ==
    \A i \in Stages :
       client[i].call # NoCall => i = pl.stage /\ pl.op \in Exchanging

\* Ending an operation keeps the coordinator's type.
LEMMA IdleType ==
    ASSUME pl \in Pipelines
    PROVE  /\ Idle(pl) \in Pipelines /\ Idle(pl).op = "idle"
           /\ Idle(pl).position = pl.position
           /\ Invalidate(pl) \in Pipelines /\ Invalidate(pl).op = "idle"
  <1>1. 1 \in Stages
    BY NStagesAssumption DEF Stages
  <1>2. /\ Idle(pl) \in Pipelines /\ Idle(pl).op = "idle"
        /\ Idle(pl).position = pl.position
    BY <1>1 DEF Idle, Pipelines, Ops
  <1>3. Invalidate(pl) \in Pipelines /\ Invalidate(pl).op = "idle"
    BY <1>2 DEF Invalidate, Pipelines
  <1> QED BY <1>2, <1>3

\* The pipeline starts in a state that the layer protocol starts in.
LEMMA CoordinatorInvInit == Init => LayerInit /\ CoordinatorInv /\ OneCall
  <1> SUFFICES ASSUME Init PROVE LayerInit /\ CoordinatorInv /\ OneCall
    OBVIOUS
  <1>1. 1 \in Stages
    BY NStagesAssumption DEF Stages
  <1>2. 0 \in 0..Context
    BY PositionRange
  <1> QED BY <1>1, <1>2 DEF Init, LayerInit, CoordinatorInv, OneCall, Pipelines, Ops

\* Going on to the next stage, or ending the operation.
LEMMA StageDoneStep ==
    ASSUME CoordinatorInv, pl.op \in Exchanging, StageDone
    PROVE  CoordinatorInv'
  <1> DEFINE q == [Idle(pl) EXCEPT !.position = @ + 1]
             z == [Idle(pl) EXCEPT !.position = 0]
  <1>1. /\ pl \in Pipelines /\ Idle(pl) \in Pipelines /\ Idle(pl).op = "idle"
        /\ Idle(pl).position = pl.position
    BY IdleType DEF CoordinatorInv
  <1>2. CASE pl.stage < NStages
    <2>1. pl' = [pl EXCEPT !.stage = @ + 1] /\ UNCHANGED logs
      BY <1>2 DEF StageDone
    <2>2. pl.stage + 1 \in Stages
      BY <1>1, <1>2, NStagesAssumption DEF Pipelines, Stages
    <2>3. /\ pl' \in Pipelines /\ pl'.op = pl.op /\ pl'.token = pl.token
          /\ pl'.position = pl.position
      BY <1>1, <2>1, <2>2 DEF Pipelines
    <2> QED BY <2>1, <2>3 DEF CoordinatorInv, logs
  <1>3. CASE ~(pl.stage < NStages) /\ pl.op = "prepare"
    <2>1. pl' = [pl EXCEPT !.op = "head"] /\ UNCHANGED logs
      BY <1>3 DEF StageDone
    <2> QED BY <1>1, <1>3, <2>1 DEF CoordinatorInv, Pipelines, Ops, logs
  <1>4. CASE ~(pl.stage < NStages) /\ pl.op = "commit"
    <2>1. pl' = q /\ history' = projected /\ projected' = projected
      BY <1>4 DEF StageDone
    <2>2. pl.position + 1 \in 0..Context
      BY <1>1, <1>4, PositionRange DEF CoordinatorInv, Pipelines
    <2>3. q \in Pipelines /\ q.op = "idle"
      BY <1>1, <2>2 DEF Pipelines
    <2> QED BY <2>1, <2>3 DEF CoordinatorInv
  <1>5. CASE ~(pl.stage < NStages) /\ pl.op = "reset"
    <2>1. pl' = z /\ history' = <<>> /\ projected' = <<>>
      BY <1>5 DEF StageDone
    <2>2. z \in Pipelines /\ z.op = "idle"
      BY <1>1, PositionRange DEF Pipelines
    <2> QED BY <2>1, <2>2 DEF CoordinatorInv
  <1>6. CASE ~(pl.stage < NStages) /\ pl.op = "close"
    <2>1. pl' = Idle(pl) /\ UNCHANGED logs
      BY <1>6 DEF StageDone
    <2> QED BY <1>1, <2>1 DEF CoordinatorInv, logs
  <1> QED BY <1>2, <1>3, <1>4, <1>5, <1>6 DEF Exchanging

\* A failed stage invalidates the pipeline; close() goes on.
LEMMA StageFailedStep ==
    ASSUME CoordinatorInv, pl.op \in Exchanging, StageFailed
    PROVE  CoordinatorInv'
  <1>1. CASE pl.op = "close"
    BY <1>1, StageDoneStep DEF StageFailed
  <1>2. CASE pl.op # "close"
    <2>1. pl' = Invalidate(pl) /\ UNCHANGED logs
      BY <1>2 DEF StageFailed
    <2>2. Invalidate(pl) \in Pipelines /\ Invalidate(pl).op = "idle"
      BY IdleType DEF CoordinatorInv
    <2> QED BY <2>1, <2>2 DEF CoordinatorInv, logs
  <1> QED BY <1>1, <1>2

\* Sending on behalf of the current stage leaves the coordinator alone.
LEMMA SendStep ==
    ASSUME LayerTypeOK, CoordinatorInv, OneCall, pl.op \in Exchanging,
           NEW m, Send(pl.stage, m), UNCHANGED <<pl, logs>>
    PROVE  CoordinatorInv' /\ OneCall'
  <1>1. CoordinatorInv'
    BY DEF CoordinatorInv, logs
  <1>2. \A i \in Stages : i # pl.stage => client'[i] = client[i]
    BY DEF Send, LayerTypeOK
  <1> QED BY <1>1, <1>2 DEF OneCall

\* An answered client is not inside a call, whatever it was told.
LEMMA AnsweredCall ==
    ASSUME NEW c \in Clients, c.call \in Requests, NEW st, NEW h
    PROVE  [(IF st = "ok" THEN Acknowledge(c) ELSE c)
              EXCEPT !.call = NoCall, !.healthy = h].call = NoCall
  <1> DEFINE P(e) == [e EXCEPT !.call = NoCall, !.healthy = h].call = NoCall
  <1>1. P(c)
    BY DEF Clients
  <1>2. P([c EXCEPT !.prepared = TRUE]) /\ P([c EXCEPT !.prepared = FALSE])
    BY DEF Clients
  <1>3. P([c EXCEPT !.position = @ + 1, !.prepared = FALSE])
    BY DEF Clients
  <1>4. P([c EXCEPT !.position = 0, !.prepared = FALSE])
    BY DEF Clients
  <1>5. c.call.kind \in {"prepare", "commit", "abort", "reset", "close"}
    BY RequestShape
  <1>6. Acknowledge(c) \in {c, [c EXCEPT !.prepared = TRUE], [c EXCEPT !.prepared = FALSE],
                            [c EXCEPT !.position = @ + 1, !.prepared = FALSE],
                            [c EXCEPT !.position = 0, !.prepared = FALSE]}
    BY <1>5 DEF Acknowledge
  <1>7. P(Acknowledge(c))
    <2> HIDE DEF P
    <2> QED BY <1>1, <1>2, <1>3, <1>4, <1>6
  <1> QED BY <1>1, <1>7

\* When the current stage's exchange ends, no client is inside a call.
LEMMA ExchangeEnds ==
    ASSUME LayerTypeOK, CoordinatorInv, OneCall,
           \/ \E st \in {"ok", "reject"} : Answered(pl.stage, st)
           \/ ExchangeFails(pl.stage)
    PROVE  /\ pl.op \in Exchanging
           /\ \A i \in Stages : client'[i].call = NoCall
  <1>1. pl.stage \in Stages /\ client[pl.stage].call # NoCall
    BY DEF CoordinatorInv, Pipelines, Answered, ExchangeFails
  <1>2. /\ client'[pl.stage].call = NoCall
        /\ \A i \in Stages : i # pl.stage => client'[i] = client[i]
    <2>1. CASE ExchangeFails(pl.stage)
      BY <1>1, <2>1 DEF ExchangeFails, LayerTypeOK, Clients
    <2>2. ASSUME NEW st \in {"ok", "reject"}, Answered(pl.stage, st)
          PROVE  /\ client'[pl.stage].call = NoCall
                 /\ \A i \in Stages : i # pl.stage => client'[i] = client[i]
      <3> DEFINE e == IF st = "ok" THEN Acknowledge(client[pl.stage])
                      ELSE client[pl.stage]
                 d == [e EXCEPT !.call = NoCall,
                                !.healthy = client[pl.stage].call.kind # "close"]
      <3>1. client' = [client EXCEPT ![pl.stage] = d]
        BY <2>2 DEF Answered
      <3>2. client[pl.stage] \in Clients /\ client[pl.stage].call \in Requests
        BY <1>1 DEF LayerTypeOK, Clients
      <3>3. d.call = NoCall
        BY <3>2, AnsweredCall
      <3> HIDE DEF d
      <3> QED BY <1>1, <3>1, <3>3 DEF LayerTypeOK
    <2> QED BY <2>1, <2>2
  <1> QED BY <1>1, <1>2 DEF OneCall

\* Every step keeps the coordinator's invariant and is a step of the layer
\* protocol, or none.
LEMMA CoordinatorStep ==
    ASSUME LayerTypeOK, CoordinatorInv, OneCall, [Next]_vars
    PROVE  CoordinatorInv' /\ OneCall' /\ [LayerNext]_layerVars
  <1>1. /\ pl \in Pipelines /\ pl.stage \in Stages /\ pl.position \in 0..Context
        /\ 1 \in Stages
    BY NStagesAssumption DEF CoordinatorInv, Pipelines, Stages
  <1>2. CASE UNCHANGED vars
    BY <1>2 DEF vars, layerVars, CoordinatorInv, OneCall
  <1>3. ASSUME UNCHANGED layerVars, pl.op \in {"idle", "head"}, CoordinatorInv'
        PROVE  CoordinatorInv' /\ OneCall' /\ [LayerNext]_layerVars
    BY <1>3 DEF OneCall, layerVars, Exchanging
  <1>4. ASSUME NEW t \in Tokens, Forward(t)
        PROVE  CoordinatorInv' /\ OneCall' /\ [LayerNext]_layerVars
    <2>1. CASE pl' = [pl EXCEPT !.op = "prepare", !.stage = 1, !.token = t]
      <3>1. /\ pl' \in Pipelines /\ pl'.op = "prepare" /\ pl'.token = t
            /\ pl'.position = pl.position
        BY <1>1, <2>1 DEF Pipelines, Ops
      <3> QED BY <1>3, <1>4, <3>1 DEF Forward, CoordinatorInv, logs
    <2>2. CASE pl' = Invalidate(pl)
      <3>1. pl' \in Pipelines /\ pl'.op = "idle"
        BY <1>1, <2>2, IdleType
      <3> QED BY <1>3, <1>4, <3>1 DEF Forward, CoordinatorInv, logs
    <2> QED BY <1>4, <2>1, <2>2 DEF Forward
  <1>5. CASE Project
    <2>1. CASE /\ pl' = [pl EXCEPT !.op = "commit", !.stage = 1]
               /\ projected' = Append(history, pl.token)
      <3>1. /\ pl' \in Pipelines /\ pl'.op = "commit" /\ pl'.position = pl.position
        BY <1>1, <2>1 DEF Pipelines, Ops
      <3>2. Append(history, pl.token) \in Seq(Tokens)
        BY <1>5 DEF Project, CoordinatorInv
      <3> QED BY <1>3, <1>5, <2>1, <3>1, <3>2 DEF Project, CoordinatorInv
    <2>2. CASE pl' = Invalidate(pl) /\ UNCHANGED projected
      <3>1. pl' \in Pipelines /\ pl'.op = "idle"
        BY <1>1, <2>2, IdleType
      <3> QED BY <1>3, <1>5, <2>2, <3>1 DEF Project, CoordinatorInv
    <2> QED BY <1>5, <2>1, <2>2 DEF Project
  <1>6. CASE Reset \/ Close
    <2>1. pl' \in Pipelines /\ pl'.op \in {"reset", "close"} /\ pl.op = "idle"
      BY <1>1, <1>6 DEF Reset, Close, Pipelines, Ops
    <2> QED BY <1>3, <1>6, <2>1 DEF Reset, Close, CoordinatorInv, logs
  <1>7. CASE PrepareStage
    <2>1. /\ pl.op = "prepare" /\ pl.token \in Tokens /\ UNCHANGED <<pl, logs>>
          /\ CallPrepare(pl.stage, pl.position, pl.token)
      BY <1>7 DEF PrepareStage, CoordinatorInv
    <2>2. LayerNext
      BY <1>1, <2>1 DEF LayerNext
    <2>3. Send(pl.stage, PrepareReq(pl.position, pl.token))
      BY <2>1 DEF CallPrepare
    <2> QED BY <2>1, <2>2, <2>3, SendStep DEF Exchanging
  <1>8. CASE CommitStage
    <2>1. /\ pl.op = "commit" /\ UNCHANGED <<pl, logs>>
          /\ CallCommit(pl.stage, pl.position)
      BY <1>8 DEF CommitStage
    <2>2. LayerNext
      BY <1>1, <2>1 DEF LayerNext
    <2>3. Send(pl.stage, CommitReq(pl.position))
      BY <2>1 DEF CallCommit
    <2> QED BY <2>1, <2>2, <2>3, SendStep DEF Exchanging
  <1>9. CASE ResetStage \/ CloseStage
    <2>1. /\ pl.op \in {"reset", "close"} /\ UNCHANGED <<pl, logs>>
          /\ CallReset(pl.stage) \/ CallClose(pl.stage)
      BY <1>9 DEF ResetStage, CloseStage
    <2>2. LayerNext
      BY <1>1, <2>1 DEF LayerNext
    <2>3. \E m : Send(pl.stage, m)
      BY <2>1 DEF CallReset, CallClose
    <2> QED BY <2>1, <2>2, <2>3, SendStep DEF Exchanging
  <1>10. CASE StageAnswered \/ StageTransportError
    <2>1. \/ \E st \in {"ok", "reject"} : Answered(pl.stage, st)
          \/ ExchangeFails(pl.stage)
      BY <1>10 DEF StageAnswered, StageTransportError
    <2>2. LayerNext
      BY <1>1, <2>1 DEF LayerNext
    <2>3. pl.op \in Exchanging /\ \A i \in Stages : client'[i].call = NoCall
      BY <2>1, ExchangeEnds
    <2>4. StageDone \/ StageFailed
      BY <1>10 DEF StageAnswered, StageTransportError
    <2>5. CoordinatorInv'
      BY <2>3, <2>4, StageDoneStep, StageFailedStep
    <2> QED BY <2>2, <2>3, <2>5 DEF OneCall
  <1>11. CASE CloseSkips
    <2>1. CoordinatorInv'
      BY <1>11, StageFailedStep DEF CloseSkips, Exchanging
    <2>2. \A i \in Stages : client[i].call = NoCall
      BY <1>11 DEF CloseSkips, Awaiting, OneCall
    <2> QED BY <1>11, <2>1, <2>2 DEF CloseSkips, OneCall, layerVars
  <1>12. ASSUME NEW i \in Stages, Worker(i)
         PROVE  CoordinatorInv' /\ OneCall' /\ [LayerNext]_layerVars
    <2>1. /\ Serve(i) \/ ServerEnds(i)
          /\ UNCHANGED <<pl, history, projected, client>>
      BY <1>12 DEF Worker, Serve, ServerEnds, logs
    <2>2. LayerNext
      BY <2>1 DEF LayerNext
    <2> QED BY <2>1, <2>2 DEF CoordinatorInv, OneCall
  <1> QED
    BY <1>2, <1>4, <1>5, <1>6, <1>7, <1>8, <1>9, <1>10, <1>11, <1>12
    DEF Next, Coordinator, Caller

\* The invariant of the whole: the layer protocol's and the coordinator's.
PipelineInv == LayerInv /\ CoordinatorInv /\ OneCall

\* It holds at the start.
LEMMA PipelineInvInit == Init => PipelineInv
  BY CoordinatorInvInit, LayerInvInit DEF PipelineInv

\* It is inductive, and every step is one of the layer protocol.
LEMMA PipelineInvStep ==
    PipelineInv /\ [Next]_vars => PipelineInv' /\ [LayerNext]_layerVars
  <1> SUFFICES ASSUME PipelineInv, [Next]_vars
               PROVE  PipelineInv' /\ [LayerNext]_layerVars
    OBVIOUS
  <1>1. CoordinatorInv' /\ OneCall' /\ [LayerNext]_layerVars
    BY CoordinatorStep DEF PipelineInv, LayerInv
  <1>2. LayerInv'
    BY <1>1, LayerInvStep DEF PipelineInv
  <1> QED BY <1>1, <1>2 DEF PipelineInv

\* The types follow.
LEMMA PipelineInvImplies == PipelineInv => TypeOK /\ LayerTypeOK
  BY DEF PipelineInv, LayerInv, CoordinatorInv, TypeOK

\* The coordinator keeps its types: in particular its position never passes the
\* context, and only tokens reach the history.
THEOREM PipelineTypeCorrect == Spec => []TypeOK
  BY PipelineInvInit, PipelineInvStep, PipelineInvImplies, PTL DEF Spec

\* The coordinator uses every client as the layer protocol allows: the pipeline
\* implements the protocol with its free caller.
THEOREM PipelineUsesLayers == Spec => LayerSpec
  BY PipelineInvInit, PipelineInvStep, CoordinatorInvInit, PTL DEF Spec, LayerSpec

\* A worker never has to reject a request of the coordinator because of its
\* position or of what it has prepared.
THEOREM PipelineRequestFits == Spec => []RequestFits
  BY PipelineUsesLayers, LayerRequestFits, PTL

-----------------------------------------------------------------------------
(* The pipeline implements the token log, for any number of ranges, any    *)
(* context and any set of tokens.  The inductive invariant LogInv says     *)
(* where every client stands in the current operation of a healthy         *)
(* coordinator, which rows a live session can hold whatever failed, and    *)
(* what a request that nobody waits for any more finds when it is served.  *)

\* The rows a session has confirmed, as a sequence of tokens.
Rows(s) == [k \in 1..s.position |-> s.rows[k - 1]]

\* They are as many as its position says.
LEMMA RowsFacts ==
    ASSUME NEW s \in Sessions
    PROVE  /\ Rows(s) \in Seq(Tokens \cup {NoRow})
           /\ Len(Rows(s)) = s.position
           /\ s.position = 0 => Rows(s) = <<>>
  <1>1. s.position \in Nat /\ s.position <= Context
    BY ContextAssumption DEF Sessions
  <1>2. \A k \in 1..s.position : k - 1 \in Positions
    BY <1>1, ContextAssumption DEF Positions
  <1>3. Rows(s) \in Seq(Tokens \cup {NoRow})
    BY <1>1, <1>2 DEF Rows, Sessions
  <1>4. DOMAIN Rows(s) = 1..s.position
    BY DEF Rows
  <1>5. Len(Rows(s)) = s.position
    BY <1>1, <1>3, <1>4
  <1>6. s.position = 0 => Rows(s) = <<>>
    BY <1>3, <1>5
  <1> QED BY <1>3, <1>5, <1>6

\* What happens at and above the position does not show.
LEMMA SameRows ==
    ASSUME NEW s \in Sessions, NEW z \in Sessions, z.position = s.position,
           \A p \in 0..(s.position - 1) : z.rows[p] = s.rows[p]
    PROVE  Rows(z) = Rows(s)
  <1>1. s.position \in Nat
    BY ContextAssumption DEF Sessions
  <1>2. \A k \in 1..s.position : k - 1 \in 0..(s.position - 1)
    BY <1>1
  <1> QED BY <1>2 DEF Rows

\* Moving the position by one confirms the row it pointed at.
LEMMA OneMoreRow ==
    ASSUME NEW s \in Sessions, NEW z \in Sessions, z.position = s.position + 1,
           z.rows = s.rows
    PROVE  Rows(z) = Append(Rows(s), s.rows[s.position])
  <1>1. s.position \in Nat
    BY ContextAssumption DEF Sessions
  <1> DEFINE a == Append(Rows(s), s.rows[s.position])
  <1>2. Rows(s) \in Seq(Tokens \cup {NoRow}) /\ Len(Rows(s)) = s.position
    BY RowsFacts
  <1>8. s.rows[s.position] \in Tokens \cup {NoRow}
    <2>1. z.position <= Context
      BY ContextAssumption DEF Sessions
    <2>2. s.position \in Positions
      BY <1>1, <2>1, ContextAssumption DEF Positions
    <2> QED BY <2>2 DEF Sessions
  <1>3. /\ a \in Seq(Tokens \cup {NoRow}) /\ Len(a) = s.position + 1
        /\ \A k \in 1..s.position : a[k] = Rows(s)[k]
        /\ a[s.position + 1] = s.rows[s.position]
    BY <1>1, <1>2, <1>8
  <1> HIDE DEF a
  <1>4. Rows(z) \in Seq(Tokens \cup {NoRow}) /\ Len(Rows(z)) = s.position + 1
    BY RowsFacts
  <1>5. \A k \in 1..(s.position + 1) : Rows(z)[k] = s.rows[k - 1]
    BY DEF Rows
  <1>6. \A k \in 1..s.position : Rows(s)[k] = s.rows[k - 1]
    BY DEF Rows
  <1>7. \A k \in 1..(s.position + 1) : Rows(z)[k] = a[k]
    BY <1>1, <1>3, <1>5, <1>6
  <1> QED BY <1>3, <1>4, <1>7 DEF a

\* What serving a request that fits does to the confirmed rows: a commit adds
\* the prepared row, a reset that succeeds forgets them all, and nothing else
\* touches them.  The row of a preparation that succeeded is its token's.
LEMMA OutcomeRows ==
    ASSUME NEW s \in Sessions, s.open, NEW m \in Requests,
           m.kind \in {"commit", "abort"} => s.prepared /\ m.position = s.position,
           m.kind = "prepare" => ~s.prepared /\ m.position = s.position,
           NEW o \in Outcomes(s, m), o[1] \in Sessions
    PROVE  /\ m.kind \notin {"commit", "reset"} => Rows(o[1]) = Rows(s)
           /\ m.kind = "commit" =>
                /\ o[1].open /\ ~o[1].prepared
                /\ Rows(o[1]) = Append(Rows(s), s.rows[s.position])
           /\ m.kind = "reset" =>
                \/ o[1] = s
                \/ o[1].open /\ ~o[1].prepared /\ Rows(o[1]) = <<>>
           /\ m.kind = "prepare" =>
                /\ o[1].open /\ o[1].position = s.position
                /\ o[1].prepared => o[1].rows[s.position] = m.token
           /\ m.kind = "abort" => o[1].open /\ ~o[1].prepared
           /\ m.kind = "close" => ~o[1].open
  <1> DEFINE z == o[1]
  <1>0. s.position \in Nat /\ z.position \in Nat
    BY ContextAssumption DEF Sessions
  <1>1. CASE m.kind = "prepare"
    <2>1. m.position \in Positions
      BY <1>1, RequestShape
    <2>2. \/ z = [s EXCEPT !.rows[m.position] = m.token, !.prepared = TRUE]
          \/ z = [s EXCEPT !.rows[m.position] = m.token]
          \/ z = s
      BY <1>1, <2>1 DEF Outcomes, SessionPrepare
    <2>3. /\ z.open /\ z.position = s.position
          /\ \A p \in Positions : p # m.position => z.rows[p] = s.rows[p]
          /\ z.prepared => z.rows[s.position] = m.token
      <3> DEFINE r == [s.rows EXCEPT ![m.position] = m.token]
      <3>1. /\ r[m.position] = m.token
            /\ \A p \in Positions : p # m.position => r[p] = s.rows[p]
        BY <2>1 DEF Sessions
      <3>2. CASE z = [s EXCEPT !.rows = r, !.prepared = TRUE]
        <4> HIDE DEF r
        <4>1. z.open /\ z.position = s.position /\ z.rows = r
          BY <3>2 DEF Sessions
        <4> QED BY <1>1, <3>1, <4>1
      <3>3. CASE z = [s EXCEPT !.rows = r]
        <4> HIDE DEF r
        <4>1. z.open /\ z.position = s.position /\ z.rows = r /\ z.prepared = s.prepared
          BY <3>3 DEF Sessions
        <4> QED BY <1>1, <3>1, <4>1
      <3>4. CASE z = s
        BY <1>1, <3>4
      <3> QED BY <2>2, <3>2, <3>3, <3>4
    <2>4. \A p \in 0..(s.position - 1) : p \in Positions /\ p # m.position
      BY <1>0, <1>1, <2>1, PositionRange DEF Positions
    <2>5. Rows(z) = Rows(s)
      BY <2>3, <2>4, SameRows
    <2> QED BY <1>1, <2>3, <2>5
  <1>2. CASE m.kind = "commit"
    <2>1. z = [s EXCEPT !.position = @ + 1, !.prepared = FALSE]
      BY <1>2 DEF Outcomes, SessionCommit
    <2>2. z.open /\ ~z.prepared /\ z.position = s.position + 1 /\ z.rows = s.rows
      BY <2>1 DEF Sessions
    <2>3. Rows(z) = Append(Rows(s), s.rows[s.position])
      BY <2>2, OneMoreRow
    <2> QED BY <1>2, <2>2, <2>3
  <1>3. CASE m.kind = "abort"
    <2>1. o = <<[s EXCEPT !.prepared = FALSE], "ok">>
      BY <1>3 DEF Outcomes, SessionAbort
    <2>2. z.open /\ ~z.prepared /\ z.position = s.position /\ z.rows = s.rows
      BY <2>1 DEF Sessions
    <2> QED BY <1>3, <2>2 DEF Rows
  <1>4. CASE m.kind = "reset"
    <2>1. \/ z = [s EXCEPT !.position = 0, !.prepared = FALSE, !.rows = NoRows]
          \/ z = s
      BY <1>4 DEF Outcomes, SessionReset
    <2>2. CASE z = [s EXCEPT !.position = 0, !.prepared = FALSE, !.rows = NoRows]
      <3>1. z.open /\ ~z.prepared /\ z.position = 0
        BY <2>2 DEF Sessions
      <3> QED BY <1>4, <3>1, RowsFacts
    <2> QED BY <1>4, <2>1, <2>2
  <1>5. CASE m.kind = "close"
    <2>1. z = [s EXCEPT !.open = FALSE]
      BY <1>5 DEF Outcomes, SessionClose
    <2>2. ~z.open /\ z.position = s.position /\ z.rows = s.rows
      BY <2>1 DEF Sessions
    <2> QED BY <1>5, <2>2 DEF Rows
  <1> QED BY <1>1, <1>2, <1>3, <1>4, <1>5, RequestShape

-----------------------------------------------------------------------------
(* The inductive invariant *)

\* What an operation that visits the stages turns their rows into.
Target == IF projected = history THEN <<>> ELSE projected

\* The head's decision is at most one token ahead of what was returned.
OneAhead ==
    \/ projected = history
    \/ \E t \in Tokens : projected = Append(history, t)

\* A live session holds the old rows or the new ones, in stage order.
RowsOrdered ==
    /\ \A i \in Stages :
         session[i].open => CommittedRows(i) \in {history, Target}
    /\ \A i, j \in Stages :
         i < j /\ session[i].open /\ session[j].open
           => CommittedRows(i) = Target \/ CommittedRows(j) = history

\* A commit or a reset that is still to be served, perhaps for a coordinator
\* that gave up on it, finds all earlier stages done.
LateRequests ==
    \A i \in Stages : session[i].open /\ req[i] # <<>> =>
       LET m == Head(req[i]) IN
         /\ m.kind = "commit" =>
              /\ projected = Append(history, session[i].rows[session[i].position])
              /\ CommittedRows(i) = history
         /\ m.kind = "reset" => projected = history
         /\ m.kind \in {"commit", "reset"} =>
              \A j \in Stages : j < i /\ session[j].open => CommittedRows(j) = Target

RowsInv == OneAhead /\ RowsOrdered /\ LateRequests

\* The request the current operation sends to a stage.
PhaseCall == CASE pl.op = "prepare" -> PrepareReq(pl.position, pl.token)
               [] pl.op = "commit"  -> CommitReq(pl.position)
               [] pl.op = "reset"   -> ResetReq
               [] OTHER             -> NoCall

\* Where the current operation has brought the client of stage i.
PhasePosition(i) ==
    CASE pl.op = "commit" /\ i < pl.stage -> pl.position + 1
      [] pl.op = "reset" /\ i < pl.stage  -> 0
      [] OTHER                            -> pl.position

PhasePrepared(i) ==
    \/ pl.op = "prepare" /\ i < pl.stage
    \/ pl.op = "head"
    \/ pl.op = "commit" /\ i >= pl.stage

\* The coordinator of a healthy pipeline knows where every client stands, and
\* what a prepared session has prepared.
HealthyPhase ==
    /\ pl.op # "close"
    /\ Len(history) = pl.position
    /\ projected = IF pl.op = "commit" THEN Append(history, pl.token) ELSE history
    /\ pl.op \in {"prepare", "head", "commit"} => pl.token \in Tokens
    /\ \A i \in Stages :
         /\ client[i].healthy
         /\ client[i].call \in {NoCall, PhaseCall}
         /\ client[i].position = PhasePosition(i)
         /\ client[i].prepared <=> PhasePrepared(i)
         /\ session[i].open /\ session[i].prepared
              => session[i].rows[session[i].position] = pl.token

\* forward() and reset() run only while the pipeline is healthy.
PhaseInv == IF pl.healthy THEN HealthyPhase ELSE pl.op \in {"idle", "close"}

LogInv == PipelineInv /\ RowsInv /\ PhaseInv

\* Types and link facts of one stage, as the lemmas below use them.
LEMMA StageFacts ==
    ASSUME PipelineInv, NEW i \in Stages
    PROVE  /\ client[i] \in Clients /\ session[i] \in Sessions
           /\ LinkInv(client[i], req[i], resp[i], session[i])
           /\ CommittedRows(i) = Rows(session[i])
           /\ CommittedRows(i) \in Seq(Tokens \cup {NoRow})
           /\ Len(CommittedRows(i)) = session[i].position
  <1>1. /\ client[i] \in Clients /\ session[i] \in Sessions
        /\ LinkInv(client[i], req[i], resp[i], session[i])
    BY DEF PipelineInv, LayerInv, LayerTypeOK
  <1>2. CommittedRows(i) = Rows(session[i])
    BY DEF CommittedRows, Rows
  <1> QED BY <1>1, <1>2, RowsFacts

\* A client that is not inside a call, or whose request is still under way, is
\* in step with its session, if that lives.
LEMMA ClientInStep ==
    ASSUME PipelineInv, NEW i \in Stages, session[i].open, client[i].healthy,
           client[i].call = NoCall \/ req[i] # <<>>
    PROVE  InStep(client[i], session[i])
  <1>1. LinkInv(client[i], req[i], resp[i], session[i])
    BY StageFacts
  <1> QED BY <1>1, RequestShape DEF LinkInv, Quiet, Requested, Responded

\* The sequences the log deals with have lengths.
LEMMA LogFacts ==
    ASSUME PipelineInv, OneAhead
    PROVE  /\ history \in Seq(Tokens) /\ projected \in Seq(Tokens)
           /\ Len(history) \in Nat
           /\ projected # history => /\ Len(projected) = Len(history) + 1
                                     /\ Target = projected
           /\ projected = history => Target = <<>>
           /\ Target \in Seq(Tokens)
  <1>1. history \in Seq(Tokens) /\ projected \in Seq(Tokens)
    BY DEF PipelineInv, CoordinatorInv
  <1>2. ASSUME NEW t \in Tokens, projected = Append(history, t)
        PROVE  Len(projected) = Len(history) + 1
    BY <1>1, <1>2
  <1> QED BY <1>1, <1>2 DEF OneAhead, Target

\* The position of a live session decides which rows it holds.
LEMMA RowsByPosition ==
    ASSUME PipelineInv, RowsInv, NEW i \in Stages, session[i].open
    PROVE  /\ session[i].position = Len(history) => CommittedRows(i) = history
           /\ projected # history /\ session[i].position = Len(history) + 1
                => CommittedRows(i) = projected
           /\ session[i].position = 0 => CommittedRows(i) = <<>>
  <1>1. CommittedRows(i) \in {history, Target}
    BY DEF RowsInv, RowsOrdered
  <1>2. /\ CommittedRows(i) \in Seq(Tokens \cup {NoRow})
        /\ Len(CommittedRows(i)) = session[i].position
        /\ CommittedRows(i) = Rows(session[i]) /\ session[i] \in Sessions
    BY StageFacts
  <1>3. session[i].position = 0 => CommittedRows(i) = <<>>
    BY <1>2, RowsFacts
  <1>4. /\ history \in Seq(Tokens) /\ Len(history) \in Nat
        /\ projected # history => Len(projected) = Len(history) + 1 /\ Target = projected
        /\ projected = history => Target = <<>>
    BY LogFacts DEF RowsInv
  <1>5. ASSUME session[i].position = Len(history) PROVE CommittedRows(i) = history
    <2>1. CASE projected = history /\ CommittedRows(i) = <<>>
      <3>1. Len(history) = 0
        BY <1>2, <1>5, <2>1
      <3> QED BY <1>4, <2>1, <3>1
    <2>2. CASE projected # history /\ CommittedRows(i) = projected
      BY <1>2, <1>4, <1>5, <2>2
    <2> QED BY <1>1, <1>4, <2>1, <2>2
  <1>6. projected # history /\ session[i].position = Len(history) + 1
          => CommittedRows(i) = projected
    BY <1>1, <1>2, <1>4
  <1> QED BY <1>3, <1>5, <1>6

\* A healthy client that is not inside a call has nothing in flight, and is in
\* step with its session, if that lives.
LEMMA QuietLink ==
    ASSUME NEW c, NEW q, NEW a, NEW s, LinkInv(c, q, a, s),
           c.healthy, c.call = NoCall
    PROVE  q = <<>> /\ a = <<>> /\ (s.open => InStep(c, s))
  BY RequestShape DEF LinkInv, Quiet, Requested, Responded

\* Which rows a live session holds while an operation of a healthy pipeline is
\* under way: new ones before the current stage, old ones after it.
LEMMA RowsInPhase ==
    ASSUME LogInv, pl.healthy, NEW i \in Stages, session[i].open,
           client[i].call = NoCall \/ req[i] # <<>>
    PROVE  /\ CommittedRows(i) = IF pl.op \in {"commit", "reset"} /\ i < pl.stage
                                   THEN Target ELSE history
           /\ session[i].prepared <=> PhasePrepared(i)
           /\ session[i].position = PhasePosition(i)
  <1>1. /\ Len(history) = pl.position /\ client[i].healthy
        /\ client[i].position = PhasePosition(i)
        /\ client[i].prepared <=> PhasePrepared(i)
        /\ projected = IF pl.op = "commit" THEN Append(history, pl.token) ELSE history
        /\ pl.op = "commit" => pl.token \in Tokens
    BY DEF LogInv, PhaseInv, HealthyPhase
  <1>2. InStep(client[i], session[i])
    BY <1>1, ClientInStep DEF LogInv
  <1>3. /\ history \in Seq(Tokens) /\ Len(history) \in Nat
        /\ projected # history => Target = projected
        /\ projected = history => Target = <<>>
    BY LogFacts DEF LogInv, RowsInv
  <1>4. pl.op = "commit" => projected # history
    <2>1. \A t \in Tokens : Len(Append(history, t)) = Len(history) + 1
      BY <1>3
    <2> QED BY <1>1, <1>3, <2>1
  <1>5. session[i].position = PhasePosition(i) /\ (session[i].prepared <=> PhasePrepared(i))
    BY <1>1, <1>2 DEF InStep
  <1>6. CASE pl.op = "commit" /\ i < pl.stage
    BY <1>1, <1>3, <1>4, <1>5, <1>6, RowsByPosition DEF LogInv, PhasePosition
  <1>7. CASE pl.op = "reset" /\ i < pl.stage
    BY <1>1, <1>3, <1>5, <1>7, RowsByPosition DEF LogInv, PhasePosition
  <1>8. CASE ~(pl.op \in {"commit", "reset"} /\ i < pl.stage)
    BY <1>1, <1>5, <1>8, RowsByPosition DEF LogInv, PhasePosition
  <1> QED BY <1>5, <1>6, <1>7, <1>8

\* A step of the coordinator that leaves requests, sessions and the log alone
\* keeps the rows' part of the invariant.
LEMMA RowsKept ==
    ASSUME RowsInv, UNCHANGED <<session, req, history, projected>>
    PROVE  RowsInv'
  BY DEF RowsInv, OneAhead, RowsOrdered, LateRequests, CommittedRows, Target

\* So does a request that finds the earlier stages done, if it is a commit or a
\* reset.
LEMMA RowsSend ==
    ASSUME PipelineInv, RowsInv, NEW i \in Stages, NEW m \in Requests, Send(i, m),
           UNCHANGED logs,
           session[i].open /\ m.kind = "commit" =>
              /\ projected = Append(history, session[i].rows[session[i].position])
              /\ CommittedRows(i) = history,
           m.kind = "reset" => projected = history,
           m.kind \in {"commit", "reset"} =>
              \A j \in Stages : j < i /\ session[j].open => CommittedRows(j) = Target
    PROVE  RowsInv'
  <1>1. req[i] = <<>>
    BY StageFacts, QuietLink DEF Send
  <1>2. req'[i] = <<m>> /\ Head(req'[i]) = m
    BY <1>1, OneFrame DEF Send, PipelineInv, LayerInv, LayerTypeOK
  <1>3. \A j \in Stages : j # i => req'[j] = req[j]
    BY DEF Send, PipelineInv, LayerInv, LayerTypeOK
  <1>4. /\ session' = session /\ history' = history /\ projected' = projected
        /\ Target' = Target /\ \A j \in Stages : CommittedRows(j)' = CommittedRows(j)
    BY DEF Send, logs, Target, CommittedRows
  <1>5. OneAhead' /\ RowsOrdered'
    BY <1>4 DEF RowsInv, OneAhead, RowsOrdered
  <1>6. LateRequests'
    <2> SUFFICES ASSUME NEW j \in Stages, session[j].open, req'[j] # <<>>
                 PROVE  LET n == Head(req'[j]) IN
                        /\ n.kind = "commit" =>
                             /\ projected = Append(history, session[j].rows[session[j].position])
                             /\ CommittedRows(j) = history
                        /\ n.kind = "reset" => projected = history
                        /\ n.kind \in {"commit", "reset"} =>
                             \A k \in Stages : k < j /\ session[k].open => CommittedRows(k) = Target
      BY <1>4 DEF LateRequests
    <2>1. CASE j = i
      BY <1>2, <2>1
    <2>2. CASE j # i
      BY <1>3, <2>2 DEF RowsInv, LateRequests
    <2> QED BY <2>1, <2>2
  <1> QED BY <1>5, <1>6 DEF RowsInv

\* With nothing in flight, a log may move to what every live session holds.
LEMMA RowsSettled ==
    ASSUME PipelineInv, UNCHANGED <<session, req>>, OneAhead',
           \A i \in Stages : req[i] = <<>>,
           \A i \in Stages : session[i].open => CommittedRows(i) = history'
    PROVE  RowsInv'
  <1>1. \A i \in Stages : CommittedRows(i)' = CommittedRows(i)
    BY DEF CommittedRows
  <1>2. RowsOrdered'
    BY <1>1 DEF RowsOrdered
  <1>3. LateRequests'
    BY DEF LateRequests
  <1> QED BY <1>2, <1>3 DEF RowsInv

\* Between operations, and at the head, no client of the pipeline is inside a
\* call and nothing is in flight.
LEMMA NothingInFlight ==
    ASSUME LogInv, pl.healthy, pl.op \in {"idle", "head"}, NEW i \in Stages
    PROVE  client[i].call = NoCall /\ req[i] = <<>>
  <1>1. client[i].call = NoCall /\ client[i].healthy
    BY DEF LogInv, PipelineInv, OneCall, Exchanging, PhaseInv, HealthyPhase
  <1> QED BY <1>1, StageFacts, QuietLink DEF LogInv

\* The caller's steps: an operation starts at the first stage.
LEMMA CallerLog ==
    ASSUME LogInv, Caller
    PROVE  RowsInv' /\ PhaseInv'
  <1>1. RowsInv'
    <2>1. UNCHANGED <<session, req, history, projected>>
      BY DEF Caller, Forward, Reset, Close, layerVars, logs
    <2> QED BY <2>1, RowsKept DEF LogInv
  <1>2. /\ pl \in Pipelines /\ pl.op = "idle" /\ UNCHANGED <<layerVars, logs>>
    BY DEF LogInv, PipelineInv, CoordinatorInv, Caller, Forward, Reset, Close
  <1>3. Invalidate(pl).healthy = FALSE /\ Invalidate(pl).op = "idle"
    BY <1>2, IdleType DEF Invalidate, Pipelines
  <1>4. ASSUME pl.healthy, pl'.healthy, pl'.op \in {"prepare", "reset"}, pl'.stage = 1,
               pl'.position = pl.position,
               pl'.op = "prepare" => pl'.token \in Tokens
        PROVE  PhaseInv'
    <2>1. \A i \in Stages : ~(i < 1)
      BY NStagesAssumption DEF Stages
    <2>2. /\ Len(history) = pl.position /\ projected = history
      BY <1>2, <1>4 DEF LogInv, PhaseInv, HealthyPhase
    <2>3. ASSUME NEW i \in Stages
          PROVE  /\ client[i].healthy /\ client[i].call = NoCall
                 /\ client[i].position = pl.position /\ ~client[i].prepared
                 /\ session[i].open => ~session[i].prepared
      <3>1. client[i].call = NoCall
        BY <1>2, <1>4, NothingInFlight
      <3>2. session[i].open => ~session[i].prepared
        BY <1>2, <1>4, <3>1, RowsInPhase DEF PhasePrepared
      <3> QED BY <1>2, <1>4, <3>1, <3>2 DEF LogInv, PhaseInv, HealthyPhase, PhasePosition, PhasePrepared
    <2>4. \A i \in Stages : PhasePosition(i)' = pl.position /\ ~PhasePrepared(i)'
      BY <1>4, <2>1 DEF PhasePosition, PhasePrepared
    <2> QED BY <1>2, <1>4, <2>2, <2>3, <2>4 DEF PhaseInv, HealthyPhase, layerVars, logs
  <1>5. PhaseInv'
    <2>1. ASSUME NEW t \in Tokens, Forward(t) PROVE PhaseInv'
      <3>1. CASE pl' = [pl EXCEPT !.op = "prepare", !.stage = 1, !.token = t]
        <4>1. /\ pl'.op = "prepare" /\ pl'.stage = 1 /\ pl'.token = t
              /\ pl'.position = pl.position /\ pl'.healthy = pl.healthy
          BY <1>2, <3>1 DEF Pipelines
        <4> QED BY <1>4, <2>1, <4>1 DEF Forward
      <3>2. CASE pl' = Invalidate(pl)
        BY <1>3, <3>2 DEF PhaseInv, HealthyPhase
      <3> QED BY <2>1, <3>1, <3>2 DEF Forward
    <2>2. CASE Reset
      <3>1. /\ pl'.op = "reset" /\ pl'.stage = 1 /\ pl'.position = pl.position
            /\ pl'.healthy = pl.healthy
        BY <1>2, <2>2 DEF Reset, Pipelines
      <3> QED BY <1>4, <2>2, <3>1 DEF Reset
    <2>3. CASE Close
      <3>1. pl'.healthy = FALSE /\ pl'.op = "close"
        BY <1>2, <2>3 DEF Close, Pipelines
      <3> QED BY <3>1 DEF PhaseInv, HealthyPhase
    <2> QED BY <2>1, <2>2, <2>3 DEF Caller
  <1> QED BY <1>1, <1>5

\* The decision: nothing is in flight, and every live session holds the
\* history and the prepared row of the token.
LEMMA ProjectLog ==
    ASSUME LogInv, Project
    PROVE  RowsInv' /\ PhaseInv'
  <1>1. /\ pl \in Pipelines /\ pl.op = "head" /\ UNCHANGED <<layerVars, history>>
    BY DEF LogInv, PipelineInv, CoordinatorInv, Project
  <1>2. CASE pl' = Invalidate(pl) /\ UNCHANGED projected
    <2>1. Invalidate(pl).healthy = FALSE /\ Invalidate(pl).op = "idle"
      BY <1>1, IdleType DEF Invalidate, Pipelines
    <2>2. RowsInv'
      BY <1>1, <1>2, RowsKept DEF LogInv, layerVars
    <2> QED BY <1>2, <2>1, <2>2 DEF PhaseInv, HealthyPhase
  <1>3. CASE /\ pl' = [pl EXCEPT !.op = "commit", !.stage = 1]
             /\ projected' = Append(history, pl.token)
             /\ ~pl.healthy
    <2>1. FALSE
      BY <1>1, <1>3 DEF LogInv, PhaseInv
    <2> QED BY <2>1
  <1>4. CASE /\ pl' = [pl EXCEPT !.op = "commit", !.stage = 1]
             /\ projected' = Append(history, pl.token)
             /\ pl.healthy
    <2>1. /\ pl'.op = "commit" /\ pl'.stage = 1 /\ pl'.token = pl.token
          /\ pl'.position = pl.position /\ pl'.healthy = pl.healthy
      BY <1>1, <1>4 DEF Pipelines
    <2>2. /\ pl.token \in Tokens /\ Len(history) = pl.position
          /\ \A i \in Stages : req[i] = <<>> /\ client[i].call = NoCall
      BY <1>1, <1>4, NothingInFlight DEF LogInv, PhaseInv, HealthyPhase
    <2>3. OneAhead'
      BY <1>1, <1>4, <2>2 DEF OneAhead
    <2>4. \A i \in Stages : session[i].open => CommittedRows(i) = history
      BY <1>1, <1>4, <2>2, RowsInPhase
    <2>5. RowsInv'
      BY <1>1, <2>2, <2>3, <2>4, RowsSettled DEF LogInv, layerVars
    <2>6. \A i \in Stages : i >= 1 /\ ~(i < 1)
      BY NStagesAssumption DEF Stages
    <2>7. \A i \in Stages : PhasePosition(i)' = PhasePosition(i)
                              /\ PhasePrepared(i)' /\ PhasePrepared(i)
      BY <1>1, <2>1, <2>6 DEF PhasePosition, PhasePrepared
    <2>8. PhaseInv'
      BY <1>1, <1>4, <2>1, <2>2, <2>7 DEF LogInv, PhaseInv, HealthyPhase, layerVars
    <2> QED BY <2>5, <2>8
  <1> QED BY <1>2, <1>3, <1>4 DEF Project

\* A request of the current operation keeps the phase.
LEMMA PhaseSend ==
    ASSUME LogInv, NEW m, Send(pl.stage, m), UNCHANGED <<pl, logs>>,
           pl.healthy => m = PhaseCall
    PROVE  PhaseInv'
  <1>1. pl.stage \in Stages /\ client \in [Stages -> Clients]
    BY DEF LogInv, PipelineInv, CoordinatorInv, Pipelines, LayerInv, LayerTypeOK
  <1>2. ASSUME NEW i \in Stages
        PROVE  /\ client'[i].healthy = client[i].healthy
               /\ client'[i].position = client[i].position
               /\ client'[i].prepared = client[i].prepared
               /\ client'[i].call \in {client[i].call, m}
    BY <1>1 DEF Send, Clients
  <1>3. /\ PhaseCall' = PhaseCall
        /\ \A i \in Stages : PhasePosition(i)' = PhasePosition(i)
                               /\ (PhasePrepared(i)' <=> PhasePrepared(i))
    BY DEF PhaseCall, PhasePosition, PhasePrepared
  <1>4. session' = session /\ history' = history /\ projected' = projected /\ pl' = pl
    BY DEF Send, logs
  <1> QED BY <1>2, <1>3, <1>4 DEF LogInv, PhaseInv, HealthyPhase

\* The coordinator's requests.
LEMMA SendLog ==
    ASSUME LogInv, PrepareStage \/ CommitStage \/ ResetStage \/ CloseStage
    PROVE  RowsInv' /\ PhaseInv'
  <1>1. /\ pl.stage \in Stages /\ UNCHANGED <<pl, logs>>
        /\ client[pl.stage].call = NoCall
    BY DEF LogInv, PipelineInv, CoordinatorInv, Pipelines, PrepareStage, CommitStage,
           ResetStage, CloseStage, CallPrepare, CallCommit, CallReset, CallClose, Send
  <1>2. CASE PrepareStage
    <2> DEFINE m == PrepareReq(pl.position, pl.token)
    <2>1. Send(pl.stage, m) /\ m = PhaseCall
      BY <1>2 DEF PrepareStage, CallPrepare, PhaseCall
    <2>2. m \in Requests /\ m.kind = "prepare"
      BY <1>2, PositionRange
      DEF PrepareStage, LogInv, PipelineInv, CoordinatorInv, Pipelines, Requests, PrepareReq
    <2> HIDE DEF m
    <2> QED BY <1>1, <2>1, <2>2, PhaseSend, RowsSend DEF LogInv
  <1>3. CASE CommitStage
    <2> DEFINE m == CommitReq(pl.position)
    <2>1. Send(pl.stage, m) /\ m = PhaseCall /\ pl.op = "commit" /\ pl.healthy
      BY <1>3 DEF CommitStage, CallCommit, PhaseCall, LogInv, PhaseInv
    <2>2. m \in Requests /\ m.kind = "commit"
      BY <1>3, PositionRange
      DEF CommitStage, LogInv, PipelineInv, CoordinatorInv, Pipelines, Requests, CommitReq
    <2> HIDE DEF m
    <2>3. /\ projected = Append(history, pl.token)
          /\ session[pl.stage].open => CommittedRows(pl.stage) = history
                                         /\ session[pl.stage].prepared
      <3>1. pl.stage >= pl.stage /\ ~(pl.stage < pl.stage)
        BY <1>1, NStagesAssumption DEF Stages
      <3> QED BY <1>1, <2>1, <3>1, RowsInPhase
              DEF PhasePrepared, LogInv, PhaseInv, HealthyPhase
    <2>4. session[pl.stage].open
            => projected = Append(history, session[pl.stage].rows[session[pl.stage].position])
      BY <1>1, <2>1, <2>3 DEF LogInv, PhaseInv, HealthyPhase
    <2>5. ASSUME NEW j \in Stages, j < pl.stage, session[j].open
          PROVE  CommittedRows(j) = Target
      <3>1. j # pl.stage
        BY <1>1, <2>5, NStagesAssumption DEF Stages
      <3>2. client[j].call = NoCall
        BY <3>1 DEF LogInv, PipelineInv, OneCall
      <3> QED BY <2>1, <2>5, <3>2, RowsInPhase
    <2> QED BY <1>1, <2>1, <2>2, <2>3, <2>4, <2>5, PhaseSend, RowsSend DEF LogInv
  <1>4. CASE ResetStage
    <2>1. Send(pl.stage, ResetReq) /\ ResetReq = PhaseCall /\ pl.op = "reset" /\ pl.healthy
      BY <1>4 DEF ResetStage, CallReset, PhaseCall, LogInv, PhaseInv
    <2>2. ResetReq \in Requests /\ ResetReq.kind = "reset"
      BY DEF Requests, ResetReq
    <2>3. projected = history
      BY <2>1 DEF LogInv, PhaseInv, HealthyPhase
    <2>5. ASSUME NEW j \in Stages, j < pl.stage, session[j].open
          PROVE  CommittedRows(j) = Target
      <3>1. j # pl.stage
        BY <1>1, <2>5, NStagesAssumption DEF Stages
      <3>2. client[j].call = NoCall
        BY <3>1 DEF LogInv, PipelineInv, OneCall
      <3> QED BY <2>1, <2>5, <3>2, RowsInPhase
    <2> QED BY <1>1, <2>1, <2>2, <2>3, <2>5, PhaseSend, RowsSend DEF LogInv
  <1>5. CASE CloseStage
    <2>1. Send(pl.stage, CloseReq) /\ ~pl.healthy
      BY <1>5 DEF CloseStage, CallClose, LogInv, PhaseInv, HealthyPhase
    <2>2. CloseReq \in Requests /\ CloseReq.kind = "close"
      BY DEF Requests, CloseReq
    <2> QED BY <1>1, <2>1, <2>2, PhaseSend, RowsSend DEF LogInv
  <1> QED BY <1>2, <1>3, <1>4, <1>5

\* A client that has been told "ok".
LEMMA AcknowledgedClient ==
    ASSUME NEW c \in Clients, c.call \in Requests, c.call.kind # "close"
    PROVE  LET d == [Acknowledge(c) EXCEPT !.call = NoCall,
                                           !.healthy = c.call.kind # "close"]
           IN  /\ d.call = NoCall /\ d.healthy
               /\ c.call.kind = "prepare" => d.position = c.position /\ d.prepared
               /\ c.call.kind = "commit" => d.position = c.position + 1 /\ ~d.prepared
               /\ c.call.kind = "reset" => d.position = 0 /\ ~d.prepared
  <1>1. CASE c.call.kind = "prepare"
    <2>1. Acknowledge(c) = [c EXCEPT !.prepared = TRUE]
      BY <1>1 DEF Acknowledge
    <2> QED BY <1>1, <2>1 DEF Clients
  <1>2. CASE c.call.kind = "commit"
    <2>1. Acknowledge(c) = [c EXCEPT !.position = @ + 1, !.prepared = FALSE]
      BY <1>2 DEF Acknowledge
    <2> QED BY <1>2, <2>1 DEF Clients
  <1>3. CASE c.call.kind = "abort"
    <2>1. Acknowledge(c) = [c EXCEPT !.prepared = FALSE]
      BY <1>3 DEF Acknowledge
    <2> QED BY <1>3, <2>1 DEF Clients
  <1>4. CASE c.call.kind = "reset"
    <2>1. Acknowledge(c) = [c EXCEPT !.position = 0, !.prepared = FALSE]
      BY <1>4 DEF Acknowledge
    <2> QED BY <1>4, <2>1 DEF Clients
  <1> QED BY <1>1, <1>2, <1>3, <1>4, RequestShape

\* A failed exchange, or any end of one during close(), leaves an unusable
\* pipeline and the log as it was.
LEMMA FailureLog ==
    ASSUME LogInv, UNCHANGED <<req, session>>,
           \/ StageFailed /\ pl.op \in Exchanging
           \/ StageDone /\ pl.op = "close"
    PROVE  RowsInv' /\ PhaseInv' /\ UNCHANGED logs /\ ~pl'.healthy
  <1>1. pl \in Pipelines
    BY DEF LogInv, PipelineInv, CoordinatorInv
  <1>2. CASE pl.op # "close"
    <2>1. pl' = Invalidate(pl) /\ UNCHANGED logs
      BY <1>2 DEF StageFailed
    <2>2. ~pl'.healthy /\ pl'.op = "idle"
      BY <1>1, <2>1, IdleType DEF Invalidate, Pipelines
    <2> QED BY <2>1, <2>2, RowsKept DEF LogInv, PhaseInv, logs
  <1>3. CASE pl.op = "close"
    <2>1. StageDone
      BY <1>3 DEF StageFailed
    <2>2. \/ pl' = [pl EXCEPT !.stage = @ + 1] /\ UNCHANGED logs
          \/ pl' = Idle(pl) /\ UNCHANGED logs
      BY <1>3, <2>1 DEF StageDone
    <2>3. ~pl.healthy
      BY <1>3 DEF LogInv, PhaseInv, HealthyPhase
    <2>4. ~pl'.healthy /\ pl'.op \in {"idle", "close"}
      BY <1>1, <1>3, <2>2, <2>3 DEF Idle, Pipelines
    <2> QED BY <2>2, <2>4, RowsKept DEF LogInv, PhaseInv, logs
  <1> QED BY <1>2, <1>3

\* The state after an acknowledged exchange of a healthy pipeline: no client is
\* inside a call, nothing is in flight, and every client is where the current
\* operation brings it once the current stage is done.
LEMMA AnsweredLog ==
    ASSUME LogInv, PipelineInv', pl.healthy, Answered(pl.stage, "ok"), NEW j \in Stages
    PROVE  /\ client'[j].healthy /\ client'[j].call = NoCall /\ req[j] = <<>>
           /\ session[j].open => InStep(client'[j], session[j])
           /\ j <= pl.stage =>
                client'[j].position = IF pl.op = "commit" THEN pl.position + 1
                                      ELSE IF pl.op = "reset" THEN 0 ELSE pl.position
           /\ j <= pl.stage => (client'[j].prepared <=> pl.op = "prepare")
           /\ ~(j <= pl.stage) =>
                /\ client'[j].position = pl.position
                /\ client'[j].prepared <=> pl.op = "commit"
           /\ pl.op \in {"prepare", "commit", "reset"}
  <1>1. /\ pl.stage \in Stages /\ client \in [Stages -> Clients]
        /\ client[pl.stage].call # NoCall /\ client[pl.stage] \in Clients
        /\ session' = session /\ req' = req
    BY DEF LogInv, PipelineInv, CoordinatorInv, Pipelines, LayerInv, LayerTypeOK, Answered
  <1>2. pl.op \in {"prepare", "commit", "reset"} /\ client[pl.stage].call = PhaseCall
    BY <1>1 DEF LogInv, PhaseInv, HealthyPhase, PipelineInv, OneCall, Exchanging
  <1>3. client[pl.stage].call.kind = pl.op /\ client[pl.stage].call \in Requests
    BY <1>1, <1>2 DEF PhaseCall, PrepareReq, CommitReq, ResetReq, Clients
  <1>4. client[j].healthy /\ client[j].position = PhasePosition(j)
         /\ (client[j].prepared <=> PhasePrepared(j))
    BY DEF LogInv, PhaseInv, HealthyPhase
  <1>5. ASSUME client'[j].healthy, client'[j].call = NoCall
        PROVE  req[j] = <<>> /\ (session[j].open => InStep(client'[j], session[j]))
    <2>1. LinkInv(client'[j], req'[j], resp'[j], session'[j])
      BY DEF PipelineInv, LayerInv
    <2> QED BY <1>1, <1>5, <2>1, QuietLink
  <1>6. CASE j = pl.stage
    <2> DEFINE d == [Acknowledge(client[j]) EXCEPT !.call = NoCall,
                                                   !.healthy = client[j].call.kind # "close"]
    <2>1. client' = [client EXCEPT ![j] = d]
      BY <1>6 DEF Answered
    <2>2. /\ d.call = NoCall /\ d.healthy
          /\ pl.op = "prepare" => d.position = client[j].position /\ d.prepared
          /\ pl.op = "commit" => d.position = client[j].position + 1 /\ ~d.prepared
          /\ pl.op = "reset" => d.position = 0 /\ ~d.prepared
      BY <1>1, <1>2, <1>3, <1>6, AcknowledgedClient
    <2>3. client'[j] = d
      BY <1>1, <2>1
    <2> HIDE DEF d
    <2>4. j <= pl.stage /\ ~(j < pl.stage) /\ client[j].position = pl.position
      BY <1>1, <1>4, <1>6, NStagesAssumption DEF Stages, PhasePosition
    <2> QED BY <1>2, <1>5, <2>2, <2>3, <2>4
  <1>7. CASE j # pl.stage
    <2>1. client'[j] = client[j]
      BY <1>1, <1>7 DEF Answered
    <2>2. client[j].call = NoCall
      BY <1>7 DEF LogInv, PipelineInv, OneCall
    <2>3. (j <= pl.stage <=> j < pl.stage) /\ (j >= pl.stage <=> ~(j < pl.stage))
      BY <1>1, <1>7, NStagesAssumption DEF Stages
    <2>4. /\ pl.op = "prepare" => client[j].position = pl.position
                                   /\ (client[j].prepared <=> j < pl.stage)
          /\ pl.op = "commit" => /\ client[j].position = IF j < pl.stage THEN pl.position + 1
                                                         ELSE pl.position
                                 /\ client[j].prepared <=> ~(j < pl.stage)
          /\ pl.op = "reset" => /\ client[j].position = IF j < pl.stage THEN 0 ELSE pl.position
                                /\ ~client[j].prepared
      BY <1>4, <2>3 DEF PhasePosition, PhasePrepared
    <2> QED BY <1>2, <1>4, <1>5, <2>1, <2>2, <2>3, <2>4
  <1> QED BY <1>6, <1>7

\* An acknowledged exchange of forward() or reset().
LEMMA DoneLog ==
    ASSUME LogInv, PipelineInv', pl.healthy, Answered(pl.stage, "ok"), StageDone
    PROVE  RowsInv' /\ PhaseInv'
  <1>1. /\ pl \in Pipelines /\ pl.stage \in Stages /\ pl.position \in 0..Context
        /\ session' = session /\ req' = req
    BY DEF LogInv, PipelineInv, CoordinatorInv, Pipelines, Answered
  <1>2. /\ Len(history) = pl.position
        /\ projected = IF pl.op = "commit" THEN Append(history, pl.token) ELSE history
        /\ pl.op \in {"prepare", "head", "commit"} => pl.token \in Tokens
        /\ \A i \in Stages : session[i].open /\ session[i].prepared
              => session[i].rows[session[i].position] = pl.token
    BY DEF LogInv, PhaseInv, HealthyPhase
  <1>3. pl.op \in {"prepare", "commit", "reset"}
    BY <1>1, AnsweredLog
  <1>4. history \in Seq(Tokens) /\ projected \in Seq(Tokens)
    BY DEF LogInv, PipelineInv, CoordinatorInv
  <1>5. CASE pl.stage < NStages
    <2>1. pl' = [pl EXCEPT !.stage = @ + 1] /\ UNCHANGED logs
      BY <1>5 DEF StageDone
    <2>2. /\ pl'.stage = pl.stage + 1 /\ pl'.op = pl.op /\ pl'.position = pl.position
          /\ pl'.token = pl.token /\ pl'.healthy = pl.healthy
      BY <1>1, <2>1 DEF Pipelines
    <2>3. \A j \in Stages : (j < pl'.stage <=> j <= pl.stage)
                              /\ (j >= pl'.stage <=> ~(j <= pl.stage))
      BY <1>1, <2>2, NStagesAssumption DEF Stages
    <2>4. ASSUME NEW j \in Stages
          PROVE  /\ client'[j].healthy /\ client'[j].call = NoCall
                 /\ client'[j].position = PhasePosition(j)'
                 /\ client'[j].prepared <=> PhasePrepared(j)'
      BY <1>1, <1>3, <2>2, <2>3, AnsweredLog DEF PhasePosition, PhasePrepared
    <2>5. PhaseInv'
      BY <1>1, <1>2, <1>3, <2>1, <2>2, <2>4 DEF PhaseInv, HealthyPhase, logs
    <2> QED BY <1>1, <2>1, <2>5, RowsKept DEF LogInv, logs
  <1>6. ASSUME ~(pl.stage < NStages), NEW j \in Stages
        PROVE  j <= pl.stage
    BY <1>1, <1>6, NStagesAssumption DEF Stages
  <1>7. CASE ~(pl.stage < NStages) /\ pl.op = "prepare"
    <2>1. pl' = [pl EXCEPT !.op = "head"] /\ UNCHANGED logs
      BY <1>7 DEF StageDone
    <2>2. /\ pl'.op = "head" /\ pl'.position = pl.position
          /\ pl'.token = pl.token /\ pl'.healthy = pl.healthy
      BY <1>1, <2>1 DEF Pipelines
    <2>3. ASSUME NEW j \in Stages
          PROVE  /\ client'[j].healthy /\ client'[j].call = NoCall
                 /\ client'[j].position = PhasePosition(j)'
                 /\ client'[j].prepared <=> PhasePrepared(j)'
      BY <1>1, <1>6, <1>7, <2>2, AnsweredLog DEF PhasePosition, PhasePrepared
    <2>4. PhaseInv'
      BY <1>1, <1>2, <1>7, <2>1, <2>2, <2>3 DEF PhaseInv, HealthyPhase, logs
    <2> QED BY <1>1, <2>1, <2>4, RowsKept DEF LogInv, logs
  <1>8. ASSUME ~(pl.stage < NStages), pl.op \in {"commit", "reset"},
               history' = projected', pl'.op = "idle", pl'.healthy,
               pl'.position = IF pl.op = "commit" THEN pl.position + 1 ELSE 0,
               Len(history') = pl'.position,
               \A j \in Stages : session[j].open /\ session[j].position = pl'.position
                                   => CommittedRows(j) = history'
        PROVE  RowsInv' /\ PhaseInv'
    <2>1. ASSUME NEW j \in Stages
          PROVE  /\ client'[j].healthy /\ client'[j].call = NoCall /\ req[j] = <<>>
                 /\ client'[j].position = pl'.position /\ ~client'[j].prepared
                 /\ session[j].open => session[j].position = pl'.position
                                         /\ ~session[j].prepared
      <3>1. /\ client'[j].healthy /\ client'[j].call = NoCall /\ req[j] = <<>>
            /\ client'[j].position = pl'.position /\ ~client'[j].prepared
            /\ session[j].open => InStep(client'[j], session[j])
        BY <1>6, <1>8, AnsweredLog
      <3> QED BY <3>1 DEF InStep
    <2>2. RowsInv'
      BY <1>1, <1>8, <2>1, RowsSettled DEF LogInv, OneAhead
    <2>3. \A j \in Stages : PhasePosition(j)' = pl'.position /\ ~PhasePrepared(j)'
      BY <1>8 DEF PhasePosition, PhasePrepared
    <2>4. PhaseInv'
      BY <1>1, <1>8, <2>1, <2>3 DEF PhaseInv, HealthyPhase
    <2> QED BY <2>2, <2>4
  <1>9. CASE ~(pl.stage < NStages) /\ pl.op = "commit"
    <2>1. pl' = [Idle(pl) EXCEPT !.position = @ + 1] /\ history' = projected
          /\ projected' = projected
      BY <1>9 DEF StageDone
    <2>2. pl'.op = "idle" /\ pl'.healthy /\ pl'.position = pl.position + 1
      BY <1>1, <2>1, IdleType DEF Idle, Pipelines
    <2>3. Len(projected) = pl.position + 1 /\ projected # history
      <3>1. \A t \in Tokens : Len(Append(history, t)) = Len(history) + 1
        BY <1>4
      <3> QED BY <1>1, <1>2, <1>9, <3>1, ContextAssumption
    <2>4. \A j \in Stages : session[j].open /\ session[j].position = pl'.position
                               => CommittedRows(j) = history'
      BY <1>2, <2>1, <2>2, <2>3, RowsByPosition DEF LogInv
    <2> QED BY <1>8, <1>9, <2>1, <2>2, <2>3, <2>4
  <1>10. CASE ~(pl.stage < NStages) /\ pl.op = "reset"
    <2>1. pl' = [Idle(pl) EXCEPT !.position = 0] /\ history' = <<>>
          /\ projected' = <<>>
      BY <1>10 DEF StageDone
    <2>2. pl'.op = "idle" /\ pl'.healthy /\ pl'.position = 0
      BY <1>1, <2>1, IdleType DEF Idle, Pipelines
    <2>3. \A j \in Stages : session[j].open /\ session[j].position = pl'.position
                               => CommittedRows(j) = history'
      BY <2>1, <2>2, RowsByPosition DEF LogInv
    <2> QED BY <1>8, <1>10, <2>1, <2>2, <2>3
  <1> QED BY <1>3, <1>5, <1>7, <1>9, <1>10

-----------------------------------------------------------------------------
(* The workers' steps *)

\* What a worker's step does to the rows: nothing, a new row that the head
\* decided, or a reset; and what it leaves in the way of requests.
LEMMA ServeRows ==
    ASSUME LogInv, NEW i \in Stages, Serve(i)
    PROVE  /\ session'[i] \in Sessions /\ req'[i] = <<>>
           /\ \A j \in Stages : j # i => session'[j] = session[j] /\ req'[j] = req[j]
           /\ \A j \in Stages : j # i => CommittedRows(j)' = CommittedRows(j)
           /\ session'[i].open =>
                \/ CommittedRows(i)' = CommittedRows(i)
                \/ /\ projected # history /\ Target = projected
                   /\ CommittedRows(i) = history /\ CommittedRows(i)' = projected
                   /\ \A j \in Stages : j < i /\ session[j].open => CommittedRows(j) = Target
                \/ /\ projected = history /\ Target = <<>> /\ CommittedRows(i)' = <<>>
                   /\ \A j \in Stages : j < i /\ session[j].open => CommittedRows(j) = Target
           /\ ~session'[i].open => CommittedRows(i)' = CommittedRows(i)
           /\ pl.healthy /\ session'[i].open /\ session'[i].prepared
                => session'[i].rows[session'[i].position] = pl.token
  <1>1. /\ client \in [Stages -> Clients] /\ session \in [Stages -> Sessions]
        /\ req \in [Stages -> Seq(Requests)] /\ session[i].open /\ req[i] # <<>>
        /\ LinkInv(client[i], req[i], resp[i], session[i])
    BY DEF LogInv, PipelineInv, LayerInv, LayerTypeOK, Serve
  <1>2. Requested(client[i], req[i], resp[i], session[i])
    BY <1>1 DEF LinkInv, Quiet, Responded
  <1>3. PICK m \in Requests : /\ req[i] = <<m>>
                              /\ client[i].healthy => client[i].call = m
                              /\ Fits(client[i], m)
                              /\ InStep(client[i], session[i])
    BY <1>1, <1>2 DEF Requested
  <1>4. Head(req[i]) = m /\ Tail(req[i]) = <<>>
    BY <1>3, OneFrame
  <1>5. PICK o \in Outcomes(session[i], m) : session' = [session EXCEPT ![i] = o[1]]
    BY <1>4 DEF Serve
  <1>6. /\ session'[i] = o[1] /\ req'[i] = <<>>
        /\ \A j \in Stages : j # i => session'[j] = session[j] /\ req'[j] = req[j]
    BY <1>1, <1>4, <1>5 DEF Serve
  <1>7. o[1] \in Sessions
    <2>1. LinkInv(client[i], Tail(req[i]), Append(resp[i], o[2]), o[1])
      BY <1>1, <1>4, ServeLink
    <2> QED BY <2>1 DEF LinkInv
  <1>8. /\ m.kind \in {"commit", "abort"}
             => session[i].prepared /\ m.position = session[i].position
        /\ m.kind = "prepare" => ~session[i].prepared /\ m.position = session[i].position
    BY <1>3 DEF Fits, InStep
  <1>9. /\ CommittedRows(i) = Rows(session[i]) /\ CommittedRows(i)' = Rows(o[1])
        /\ \A j \in Stages : j # i => CommittedRows(j)' = CommittedRows(j)
    BY <1>6 DEF CommittedRows, Rows
  <1>10. /\ m.kind \notin {"commit", "reset"} => Rows(o[1]) = Rows(session[i])
         /\ m.kind = "commit" =>
              /\ o[1].open /\ ~o[1].prepared
              /\ Rows(o[1]) = Append(Rows(session[i]), session[i].rows[session[i].position])
         /\ m.kind = "reset" =>
              \/ o[1] = session[i]
              \/ o[1].open /\ ~o[1].prepared /\ Rows(o[1]) = <<>>
         /\ m.kind = "prepare" =>
              /\ o[1].open /\ o[1].position = session[i].position
              /\ o[1].prepared => o[1].rows[session[i].position] = m.token
         /\ m.kind = "abort" => o[1].open /\ ~o[1].prepared
         /\ m.kind = "close" => ~o[1].open
    <2>1. session[i] \in Sessions
      BY <1>1
    <2> QED BY <1>1, <1>7, <1>8, <2>1, OutcomeRows
  <1>11. /\ m.kind = "commit" =>
              /\ projected = Append(history, session[i].rows[session[i].position])
              /\ CommittedRows(i) = history
         /\ m.kind = "reset" => projected = history
         /\ m.kind \in {"commit", "reset"} =>
              \A j \in Stages : j < i /\ session[j].open => CommittedRows(j) = Target
    BY <1>1, <1>4 DEF LogInv, RowsInv, LateRequests
  <1>12. /\ projected # history => Target = projected
         /\ projected = history => Target = <<>>
    BY DEF Target
  <1>13. m.kind = "commit" => projected # history
    <2>1. ASSUME NEW x PROVE Append(history, x) # history
      <3>1. history \in Seq(Tokens)
        BY DEF LogInv, PipelineInv, CoordinatorInv
      <3>2. Len(Append(history, x)) = Len(history) + 1 /\ Len(history) \in Nat
        BY <3>1
      <3> QED BY <3>2
    <2> QED BY <1>11, <2>1
  <1>14. /\ session'[i].open =>
              \/ CommittedRows(i)' = CommittedRows(i)
              \/ /\ projected # history /\ Target = projected
                 /\ CommittedRows(i) = history /\ CommittedRows(i)' = projected
                 /\ \A j \in Stages : j < i /\ session[j].open => CommittedRows(j) = Target
              \/ /\ projected = history /\ Target = <<>> /\ CommittedRows(i)' = <<>>
                 /\ \A j \in Stages : j < i /\ session[j].open => CommittedRows(j) = Target
         /\ ~session'[i].open => CommittedRows(i)' = CommittedRows(i)
    <2>1. CASE m.kind = "commit"
      BY <1>6, <1>9, <1>10, <1>11, <1>12, <1>13, <2>1
    <2>2. CASE m.kind = "reset"
      BY <1>1, <1>6, <1>9, <1>10, <1>11, <1>12, <2>2
    <2>3. CASE m.kind \notin {"commit", "reset"}
      BY <1>9, <1>10, <2>3
    <2> QED BY <2>1, <2>2, <2>3
  <1>15. ASSUME pl.healthy, o[1].open, o[1].prepared
         PROVE  o[1].rows[o[1].position] = pl.token
    <2>1. client[i].healthy /\ client[i].call \in {NoCall, PhaseCall}
          /\ (session[i].open /\ session[i].prepared
                => session[i].rows[session[i].position] = pl.token)
          /\ pl.op # "close"
      BY <1>15 DEF LogInv, PhaseInv, HealthyPhase
    <2>2. m = PhaseCall
      BY <1>3, <2>1, RequestShape
    <2>3. CASE m.kind = "prepare"
      <3>1. m.token = pl.token
        BY <2>2, <2>3 DEF PhaseCall, PrepareReq, CommitReq, ResetReq, NoCall
      <3> QED BY <1>10, <1>15, <2>3, <3>1
    <2>4. CASE m.kind = "reset"
      BY <1>10, <1>15, <2>1, <2>4
    <2> QED BY <1>10, <1>15, <2>3, <2>4, RequestShape
  <1> QED BY <1>6, <1>7, <1>9, <1>14, <1>15

\* Both steps of a worker.
LEMMA WorkerLog ==
    ASSUME LogInv, NEW i \in Stages, Worker(i)
    PROVE  RowsInv' /\ PhaseInv'
  <1>1. UNCHANGED <<pl, history, projected, client>> /\ Target' = Target
    BY DEF Worker, Serve, ServerEnds, logs, Target
  <1>2. /\ \A j \in Stages : j # i => session'[j] = session[j] /\ req'[j] = req[j]
        /\ \A j \in Stages : j # i => CommittedRows(j)' = CommittedRows(j)
        /\ session'[i].open =>
             \/ CommittedRows(i)' = CommittedRows(i)
             \/ /\ CommittedRows(i)' = Target
                /\ \A j \in Stages : j < i /\ session[j].open => CommittedRows(j) = Target
        /\ session'[i].open => session[i].open
        /\ req'[i] = <<>>
        /\ pl.healthy /\ session'[i].open /\ session'[i].prepared
             => session'[i].rows[session'[i].position] = pl.token
    <2>1. CASE Serve(i)
      BY <2>1, ServeRows DEF Serve
    <2>2. CASE ServerEnds(i)
      <3>1. session \in [Stages -> Sessions] /\ req \in [Stages -> Seq(Requests)]
        BY DEF LogInv, PipelineInv, LayerInv, LayerTypeOK
      <3>2. /\ ~session'[i].open /\ req'[i] = <<>>
            /\ \A j \in Stages : j # i => session'[j] = session[j] /\ req'[j] = req[j]
        BY <2>2, <3>1 DEF ServerEnds, Sessions
      <3> QED BY <3>2 DEF CommittedRows
    <2> QED BY <2>1, <2>2 DEF Worker
  <1>3. /\ \A j \in Stages : session[j].open => CommittedRows(j) \in {history, Target}
        /\ \A j, k \in Stages : j < k /\ session[j].open /\ session[k].open
             => CommittedRows(j) = Target \/ CommittedRows(k) = history
    BY DEF LogInv, RowsInv, RowsOrdered
  <1>4. RowsOrdered'
    <2>1. \A j \in Stages : session'[j].open => session[j].open
      BY <1>2
    <2>2. \A j \in Stages : session'[j].open
             => CommittedRows(j)' \in {CommittedRows(j), Target}
      BY <1>2
    <2>3. \A j \in Stages : session'[j].open => CommittedRows(j)' \in {history, Target}
      BY <1>3, <2>1, <2>2
    <2>4. ASSUME NEW j \in Stages, NEW k \in Stages, j < k,
                 session'[j].open, session'[k].open
          PROVE  CommittedRows(j)' = Target \/ CommittedRows(k)' = history
      <3>1. CASE CommittedRows(k)' = CommittedRows(k)
        BY <1>3, <2>1, <2>2, <2>4, <3>1
      <3>2. CASE CommittedRows(k)' # CommittedRows(k)
        <4>1. k = i
          BY <1>2, <3>2
        <4>2. CommittedRows(j) = Target
          BY <1>2, <2>1, <2>4, <3>2, <4>1
        <4> QED BY <2>2, <2>4, <4>2
      <3> QED BY <3>1, <3>2
    <2> QED BY <1>1, <2>3, <2>4 DEF RowsOrdered
  <1>5. LateRequests'
    <2> SUFFICES ASSUME NEW j \in Stages, session'[j].open, req'[j] # <<>>
                 PROVE  LET m == Head(req'[j]) IN
                        /\ m.kind = "commit" =>
                             /\ projected = Append(history, session'[j].rows[session'[j].position])
                             /\ CommittedRows(j)' = history
                        /\ m.kind = "reset" => projected = history
                        /\ m.kind \in {"commit", "reset"} =>
                             \A k \in Stages : k < j /\ session'[k].open
                                                  => CommittedRows(k)' = Target
      BY <1>1 DEF LateRequests
    <2>1. /\ j # i /\ session'[j] = session[j] /\ req'[j] = req[j]
          /\ CommittedRows(j)' = CommittedRows(j)
      BY <1>2
    <2>2. \A k \in Stages : session'[k].open /\ CommittedRows(k) = Target
                               => session[k].open /\ CommittedRows(k)' = Target
      BY <1>2
    <2>3. /\ Head(req[j]).kind = "commit" =>
               /\ projected = Append(history, session[j].rows[session[j].position])
               /\ CommittedRows(j) = history
          /\ Head(req[j]).kind = "reset" => projected = history
          /\ Head(req[j]).kind \in {"commit", "reset"} =>
               \A k \in Stages : k < j /\ session[k].open => CommittedRows(k) = Target
      BY <2>1 DEF LogInv, RowsInv, LateRequests
    <2>4. \A k \in Stages : session'[k].open => session[k].open
      BY <1>2
    <2> QED BY <2>1, <2>2, <2>3, <2>4
  <1>6. OneAhead'
    BY <1>1 DEF LogInv, RowsInv, OneAhead
  <1>7. PhaseInv'
    <2>1. /\ PhaseCall' = PhaseCall
          /\ \A j \in Stages : PhasePosition(j)' = PhasePosition(j)
                                 /\ (PhasePrepared(j)' <=> PhasePrepared(j))
      BY <1>1 DEF PhaseCall, PhasePosition, PhasePrepared
    <2>2. ASSUME pl.healthy, NEW j \in Stages, session'[j].open, session'[j].prepared
          PROVE  session'[j].rows[session'[j].position] = pl.token
      BY <1>2, <2>2 DEF LogInv, PhaseInv, HealthyPhase
    <2> QED BY <1>1, <2>1, <2>2 DEF LogInv, PhaseInv, HealthyPhase
  <1> QED BY <1>4, <1>5, <1>6, <1>7 DEF RowsInv

-----------------------------------------------------------------------------
(* The whole *)

\* It holds of a pipeline that was just opened.
LEMMA LogInvInit == Init => LogInv
  <1> SUFFICES ASSUME Init PROVE LogInv
    OBVIOUS
  <1>1. PipelineInv
    BY PipelineInvInit
  <1>2. \A i \in Stages : CommittedRows(i) = <<>>
    <2>1. \A i \in Stages : session[i].position = 0
      BY DEF Init, LayerInit
    <2> QED BY <1>1, <2>1, StageFacts, RowsFacts
  <1>3. RowsInv
    BY <1>2 DEF RowsInv, OneAhead, RowsOrdered, LateRequests, Init, LayerInit, Target
  <1>4. PhaseInv
    BY DEF PhaseInv, HealthyPhase, PhasePosition, PhasePrepared, Init, LayerInit
  <1> QED BY <1>1, <1>3, <1>4 DEF LogInv

\* Every step keeps it.
LEMMA LogInvStep == LogInv /\ [Next]_vars => LogInv'
  <1> SUFFICES ASSUME LogInv, [Next]_vars PROVE LogInv'
    OBVIOUS
  <1>1. PipelineInv'
    BY PipelineInvStep DEF LogInv
  <1>2. CASE UNCHANGED vars
    <2>1. RowsInv'
      BY <1>2, RowsKept DEF LogInv, vars
    <2>2. PhaseInv'
      BY <1>2 DEF LogInv, vars, PhaseInv, HealthyPhase, PhaseCall, PhasePosition, PhasePrepared
    <2> QED BY <1>1, <2>1, <2>2 DEF LogInv
  <1>3. CASE Caller
    BY <1>1, <1>3, CallerLog DEF LogInv
  <1>4. CASE Project
    BY <1>1, <1>4, ProjectLog DEF LogInv
  <1>5. CASE PrepareStage \/ CommitStage \/ ResetStage \/ CloseStage
    BY <1>1, <1>5, SendLog DEF LogInv
  <1>6. CASE StageAnswered \/ StageTransportError
    <2>1. UNCHANGED <<req, session>> /\ pl.op \in Exchanging
      <3>1. \/ \E st \in {"ok", "reject"} : Answered(pl.stage, st)
            \/ ExchangeFails(pl.stage)
        BY <1>6 DEF StageAnswered, StageTransportError
      <3> QED BY <3>1, ExchangeEnds
              DEF LogInv, PipelineInv, LayerInv, Answered, ExchangeFails
    <2>2. CASE StageFailed
      BY <1>1, <2>1, <2>2, FailureLog DEF LogInv
    <2>3. CASE Answered(pl.stage, "ok") /\ StageDone
      <3>1. CASE pl.healthy
        BY <1>1, <2>3, <3>1, DoneLog DEF LogInv
      <3>2. CASE ~pl.healthy
        <4>1. pl.op = "close"
          BY <2>1, <3>2 DEF LogInv, PhaseInv, Exchanging
        <4> QED BY <1>1, <2>1, <2>3, <4>1, FailureLog DEF LogInv
      <3> QED BY <3>1, <3>2
    <2> QED BY <1>6, <2>2, <2>3 DEF StageAnswered, StageTransportError
  <1>7. CASE CloseSkips
    <2>1. StageFailed /\ pl.op \in Exchanging /\ UNCHANGED <<req, session>>
      BY <1>7 DEF CloseSkips, Exchanging, layerVars
    <2> QED BY <1>1, <2>1, FailureLog DEF LogInv
  <1>8. ASSUME NEW i \in Stages, Worker(i) PROVE LogInv'
    BY <1>1, <1>8, WorkerLog DEF LogInv
  <1> QED BY <1>2, <1>3, <1>4, <1>5, <1>6, <1>7, <1>8 DEF Next, Coordinator

\* What the invariant says at every moment.
LEMMA LogInvImplies == LogInv => SessionsInStep /\ OnlyProjectedConfirmed /\ StageOrder
  <1> SUFFICES ASSUME LogInv PROVE SessionsInStep /\ OnlyProjectedConfirmed /\ StageOrder
    OBVIOUS
  <1>1. SessionsInStep
    <2> SUFFICES ASSUME pl.op = "idle", pl.healthy
                 PROVE  /\ Len(history) = pl.position
                        /\ \A i \in Stages : session[i].open
                              => CommittedRows(i) = history /\ ~session[i].prepared
      BY DEF SessionsInStep
    <2>1. Len(history) = pl.position
      BY DEF LogInv, PhaseInv, HealthyPhase
    <2>2. ASSUME NEW i \in Stages, session[i].open
          PROVE  CommittedRows(i) = history /\ ~session[i].prepared
      BY <2>2, NothingInFlight, RowsInPhase DEF PhasePrepared
    <2> QED BY <2>1, <2>2
  <1>2. OnlyProjectedConfirmed
    BY DEF OnlyProjectedConfirmed, LogInv, RowsInv, RowsOrdered, Target
  <1>3. StageOrder
    <2> SUFFICES ASSUME NEW i \in Stages, NEW j \in Stages, i < j,
                        session[i].open, session[j].open
                 PROVE  \/ CommittedRows(i) = CommittedRows(j)
                        \/ CommittedRows(i) = projected /\ CommittedRows(j) = history
                        \/ CommittedRows(i) = <<>> /\ (pl.op = "reset" \/ ~pl.healthy)
      BY DEF StageOrder
    <2>1. /\ CommittedRows(i) \in {history, Target} /\ CommittedRows(j) \in {history, Target}
          /\ CommittedRows(i) = Target \/ CommittedRows(j) = history
      BY DEF LogInv, RowsInv, RowsOrdered
    <2>2. CASE projected # history
      BY <2>1, <2>2 DEF Target
    <2>3. CASE projected = history /\ (pl.op = "reset" \/ ~pl.healthy)
      BY <2>1, <2>3 DEF Target
    <2>4. CASE projected = history /\ pl.op # "reset" /\ pl.healthy
      <3>1. ASSUME NEW k \in Stages, session[k].open PROVE CommittedRows(k) = history
        <4>1. pl.op # "commit"
          <5>1. ASSUME NEW t \in Tokens PROVE Append(history, t) # history
            <6>1. history \in Seq(Tokens)
              BY DEF LogInv, PipelineInv, CoordinatorInv
            <6>2. Len(Append(history, t)) = Len(history) + 1 /\ Len(history) \in Nat
              BY <6>1
            <6> QED BY <6>2
          <5> QED BY <2>4, <5>1 DEF LogInv, PhaseInv, HealthyPhase
        <4>2. CASE client[k].call = NoCall \/ req[k] # <<>>
          BY <2>4, <3>1, <4>1, <4>2, RowsInPhase
        <4>3. CASE client[k].call # NoCall /\ req[k] = <<>>
          <5>1. /\ client[k].call = PhaseCall /\ pl.op \in Exchanging /\ pl.op # "close"
                /\ client[k].position = PhasePosition(k) /\ Len(history) = pl.position
            BY <2>4, <4>3 DEF LogInv, PhaseInv, HealthyPhase, PipelineInv, OneCall
          <5>2. client[k].call.kind = "prepare" /\ client[k].position = pl.position
            BY <2>4, <4>1, <5>1
            DEF Exchanging, PhaseCall, PrepareReq, PhasePosition
          <5>3. /\ client[k] \in Clients
                /\ LinkInv(client[k], req[k], resp[k], session[k])
            BY StageFacts DEF LogInv
          <5>4. Responded(client[k], req[k], resp[k], session[k])
            BY <3>1, <4>3, <5>3, OneFrame DEF LinkInv, Quiet, Requested
          <5>5. Acknowledge(client[k]).position = client[k].position
            BY <5>2, <5>3 DEF Acknowledge, Clients
          <5>6. session[k].position = Len(history)
            BY <3>1, <4>3, <5>1, <5>2, <5>4, <5>5 DEF Responded, InStep
          <5> QED BY <3>1, <5>6, RowsByPosition DEF LogInv
        <4> QED BY <4>2, <4>3
      <3> QED BY <3>1
    <2> QED BY <2>2, <2>3, <2>4
  <1> QED BY <1>1, <1>2, <1>3

\* Between operations of a healthy pipeline every live session holds exactly the
\* rows of the tokens whose logits forward() returned, and nothing prepared.
THEOREM PipelineSessionsInStep == Spec => []SessionsInStep
  BY LogInvInit, LogInvStep, LogInvImplies, PTL DEF Spec

\* Whatever fails, no live session confirms a token that the head did not accept.
THEOREM PipelineOnlyProjectedConfirmed == Spec => []OnlyProjectedConfirmed
  BY LogInvInit, LogInvStep, LogInvImplies, PTL DEF Spec

\* Commits and resets reach the stages in order, those that a coordinator gave up
\* on included.
THEOREM PipelineStageOrder == Spec => []StageOrder
  BY LogInvInit, LogInvStep, LogInvImplies, PTL DEF Spec

-----------------------------------------------------------------------------
(* Refinement of the token log *)

\* The abstract log of the stages, and the stages whose session is gone.
StageLog == [i \in Stages |-> CommittedRows(i)]
Lost == {i \in Stages : ~session[i].open}

\* A freshly opened pipeline is an empty log.
LEMMA LogInitImplements == Init => Log!Init
  <1> SUFFICES ASSUME Init PROVE Log!Init
    OBVIOUS
  <1>1. \A i \in Stages : CommittedRows(i) = <<>>
    <2>1. \A i \in Stages : session[i].position = 0
      BY DEF Init, LayerInit
    <2>2. PipelineInv
      BY PipelineInvInit
    <2> QED BY <2>1, <2>2, StageFacts, RowsFacts
  <1>2. \A i \in Stages : session[i].open
    BY DEF Init, LayerInit
  <1> QED BY <1>1, <1>2 DEF Log!Init, Init

\* A step that leaves the sessions alone leaves the stages' log alone.
LEMMA SessionsAlone ==
    ASSUME UNCHANGED session
    PROVE  UNCHANGED <<StageLog, Lost>>
  BY DEF StageLog, Lost, CommittedRows

\* The pipeline's end.
LEMMA FailImplements ==
    ASSUME LogInv, UNCHANGED <<session, history, projected>>, pl'.healthy \in {pl.healthy, FALSE}
    PROVE  [Log!Next]_Log!logVars
  <1>1. UNCHANGED <<StageLog, Lost>>
    BY SessionsAlone
  <1>2. CASE pl'.healthy = pl.healthy
    BY <1>1, <1>2 DEF Log!logVars, StageLog, Lost
  <1>3. CASE pl'.healthy = FALSE /\ pl.healthy # FALSE
    <2>1. pl.healthy
      BY <1>3 DEF LogInv, PipelineInv, CoordinatorInv, Pipelines
    <2>2. Log!Fail
      BY <1>1, <1>3, <2>1 DEF Log!Fail, StageLog, Lost
    <2> QED BY <2>2 DEF Log!Next
  <1> QED BY <1>2, <1>3

\* The head's decision decides the token.
LEMMA ProjectImplements ==
    ASSUME LogInv, Project
    PROVE  [Log!Next]_Log!logVars
  <1>1. /\ pl \in Pipelines /\ pl.op = "head" /\ UNCHANGED <<layerVars, history>>
        /\ pl.healthy /\ pl.token \in Tokens /\ pl.position < Context
        /\ Len(history) = pl.position /\ projected = history
    BY DEF LogInv, PipelineInv, CoordinatorInv, Project, PhaseInv, HealthyPhase
  <1>2. CASE pl' = Invalidate(pl) /\ UNCHANGED projected
    <2>1. pl'.healthy = FALSE
      BY <1>1, <1>2, IdleType DEF Invalidate, Pipelines
    <2> QED BY <1>1, <1>2, <2>1, FailImplements DEF layerVars
  <1>3. CASE /\ pl' = [pl EXCEPT !.op = "commit", !.stage = 1]
             /\ projected' = Append(history, pl.token)
    <2>1. pl'.healthy = pl.healthy
      BY <1>1, <1>3 DEF Pipelines
    <2>2. \A i \in Stages : session[i].open => CommittedRows(i) = history
      BY <1>1, NothingInFlight, RowsInPhase
    <2>3. UNCHANGED <<StageLog, Lost>>
      BY <1>1, SessionsAlone DEF layerVars
    <2>4. \A i \in Stages \ Lost : StageLog[i] = history
      BY <2>2 DEF Lost, StageLog
    <2>5. Log!Decide(pl.token)
      BY <1>1, <1>3, <2>1, <2>3, <2>4 DEF Log!Decide, Log!Surviving, StageLog, Lost
    <2> QED BY <1>1, <2>5 DEF Log!Next
  <1> QED BY <1>2, <1>3 DEF Project

\* The last acknowledgement delivers the token, or restarts the log.
LEMMA DoneImplements ==
    ASSUME LogInv, PipelineInv', pl.healthy, Answered(pl.stage, "ok"), StageDone
    PROVE  [Log!Next]_Log!logVars
  <1>1. /\ pl \in Pipelines /\ pl.stage \in Stages /\ session' = session
        /\ Len(history) = pl.position /\ pl.position \in Nat
        /\ pl.op \in {"prepare", "commit", "reset"}
        /\ projected = IF pl.op = "commit" THEN Append(history, pl.token) ELSE history
        /\ pl.op = "commit" => pl.token \in Tokens
    BY AnsweredLog, ContextAssumption
    DEF LogInv, PipelineInv, CoordinatorInv, Pipelines, Answered, PhaseInv, HealthyPhase
  <1>2. UNCHANGED <<StageLog, Lost>>
    BY <1>1, SessionsAlone
  <1>3. CASE pl.stage < NStages \/ pl.op = "prepare"
    <2>1. \/ pl' = [pl EXCEPT !.stage = @ + 1] /\ UNCHANGED logs
          \/ pl' = [pl EXCEPT !.op = "head"] /\ UNCHANGED logs
      BY <1>3 DEF StageDone
    <2>2. pl'.healthy = pl.healthy
      BY <1>1, <2>1 DEF Pipelines
    <2> QED BY <1>1, <2>1, <2>2, FailImplements DEF logs
  <1>4. CASE ~(pl.stage < NStages) /\ pl.op # "prepare"
    <2>1. \A j \in Stages : j <= pl.stage
      BY <1>1, <1>4, NStagesAssumption DEF Stages
    <2>2. ASSUME NEW j \in Stages, session[j].open
          PROVE  session[j].position = IF pl.op = "commit" THEN pl.position + 1 ELSE 0
      <3>1. /\ InStep(client'[j], session[j])
            /\ client'[j].position = IF pl.op = "commit" THEN pl.position + 1
                                     ELSE IF pl.op = "reset" THEN 0 ELSE pl.position
        BY <2>1, <2>2, AnsweredLog
      <3> QED BY <1>1, <1>4, <3>1 DEF InStep
    <2>3. CASE pl.op = "commit"
      <3>1. pl' = [Idle(pl) EXCEPT !.position = @ + 1] /\ history' = projected
            /\ projected' = projected
        BY <1>4, <2>3 DEF StageDone
      <3>2. pl'.healthy = pl.healthy
        BY <1>1, <3>1, IdleType DEF Idle, Pipelines
      <3>3. projected # history
        <4>1. history \in Seq(Tokens)
          BY DEF LogInv, PipelineInv, CoordinatorInv
        <4>2. \A t \in Tokens : Len(Append(history, t)) = Len(history) + 1
          BY <4>1
        <4> QED BY <1>1, <2>3, <4>2
      <3>4. \A j \in Stages : session[j].open => CommittedRows(j) = projected
        BY <1>1, <2>2, <2>3, <3>3, RowsByPosition DEF LogInv
      <3>5. \A j \in Stages \ Lost : StageLog[j] = projected
        BY <3>4 DEF Lost, StageLog
      <3>6. Log!Deliver
        BY <1>2, <3>1, <3>2, <3>3, <3>5 DEF Log!Deliver, Log!Surviving, StageLog, Lost
      <3> QED BY <3>6 DEF Log!Next
    <2>4. CASE pl.op = "reset"
      <3>1. pl' = [Idle(pl) EXCEPT !.position = 0] /\ history' = <<>> /\ projected' = <<>>
        BY <1>4, <2>4 DEF StageDone
      <3>2. pl'.healthy = pl.healthy
        BY <1>1, <3>1, IdleType DEF Idle, Pipelines
      <3>3. \A j \in Stages : session[j].open => CommittedRows(j) = <<>>
        BY <2>2, <2>4, RowsByPosition DEF LogInv
      <3>4. \A j \in Stages \ Lost : StageLog[j] = <<>>
        BY <3>3 DEF Lost, StageLog
      <3>5. projected = history
        BY <1>1, <2>4
      <3>6. Log!Restart
        BY <1>2, <3>1, <3>2, <3>4, <3>5 DEF Log!Restart, Log!Surviving, StageLog, Lost
      <3> QED BY <3>6 DEF Log!Next
    <2> QED BY <1>1, <1>4, <2>3, <2>4
  <1> QED BY <1>3, <1>4

\* A worker's step is one of its range: it learns the decided token, forgets,
\* is lost, or does nothing the log can tell.
LEMMA WorkerImplements ==
    ASSUME LogInv, NEW i \in Stages, Worker(i)
    PROVE  [Log!Next]_Log!logVars
  <1>1. UNCHANGED <<pl, history, projected>>
    BY DEF Worker, logs
  <1>2. session[i].open
    BY DEF Worker, Serve, ServerEnds
  <1>3. /\ \A j \in Stages : j # i => session'[j] = session[j]
        /\ \A j \in Stages : j # i => CommittedRows(j)' = CommittedRows(j)
        /\ session'[i].open =>
             \/ CommittedRows(i)' = CommittedRows(i)
             \/ /\ projected # history
                /\ CommittedRows(i) = history /\ CommittedRows(i)' = projected
             \/ projected = history /\ CommittedRows(i)' = <<>>
        /\ ~session'[i].open => CommittedRows(i)' = CommittedRows(i)
    <2>1. CASE Serve(i)
      BY <2>1, ServeRows
    <2>2. CASE ServerEnds(i)
      <3>1. session \in [Stages -> Sessions]
        BY DEF LogInv, PipelineInv, LayerInv, LayerTypeOK
      <3>2. /\ ~session'[i].open /\ session'[i].position = session[i].position
            /\ session'[i].rows = session[i].rows
            /\ \A j \in Stages : j # i => session'[j] = session[j]
        BY <2>2, <3>1 DEF ServerEnds, Sessions
      <3> QED BY <3>2 DEF CommittedRows
    <2> QED BY <2>1, <2>2 DEF Worker
  <1>4. i \in Stages \ Lost /\ StageLog[i] = CommittedRows(i)
    BY <1>2 DEF Lost, StageLog
  <1>5. CASE ~session'[i].open
    <2>1. StageLog' = StageLog
      BY <1>3, <1>5 DEF StageLog
    <2>2. Lost' = Lost \cup {i}
      BY <1>3, <1>5 DEF Lost
    <2>3. Log!Lose(i)
      BY <1>1, <1>4, <2>1, <2>2 DEF Log!Lose, Log!Surviving, StageLog, Lost
    <2> QED BY <2>3 DEF Log!Next
  <1>6. CASE session'[i].open
    <2>1. Lost' = Lost
      BY <1>2, <1>3, <1>6 DEF Lost
    <2>2. CASE CommittedRows(i)' = CommittedRows(i)
      <3>1. StageLog' = StageLog
        BY <1>3, <2>2 DEF StageLog
      <3> QED BY <1>1, <2>1, <3>1 DEF Log!logVars, StageLog, Lost
    <2>3. CASE projected # history /\ CommittedRows(i) = history
                 /\ CommittedRows(i)' = projected
      <3>1. StageLog' = [StageLog EXCEPT ![i] = projected]
        BY <1>3, <2>3 DEF StageLog
      <3>2. Log!Learn(i)
        BY <1>1, <1>4, <2>1, <2>3, <3>1 DEF Log!Learn, Log!Surviving, StageLog, Lost
      <3> QED BY <3>2 DEF Log!Next
    <2>4. CASE projected = history /\ CommittedRows(i)' = <<>>
      <3>1. StageLog' = [StageLog EXCEPT ![i] = <<>>]
        BY <1>3, <2>4 DEF StageLog
      <3>2. Log!Forget(i)
        BY <1>1, <1>4, <2>1, <2>4, <3>1 DEF Log!Forget, Log!Surviving, StageLog, Lost
      <3> QED BY <3>2 DEF Log!Next
    <2> QED BY <1>3, <1>6, <2>2, <2>3, <2>4
  <1> QED BY <1>5, <1>6

\* Every step of the pipeline is a step of the log, or none.
LEMMA LogStepImplements == LogInv /\ [Next]_vars => [Log!Next]_Log!logVars
  <1> SUFFICES ASSUME LogInv, [Next]_vars PROVE [Log!Next]_Log!logVars
    OBVIOUS
  <1>1. pl \in Pipelines
    BY DEF LogInv, PipelineInv, CoordinatorInv
  <1>2. CASE UNCHANGED vars
    BY <1>2, FailImplements DEF vars
  <1>3. CASE Caller
    <2>1. UNCHANGED <<session, history, projected>>
      BY <1>3 DEF Caller, Forward, Reset, Close, layerVars, logs
    <2>2. Invalidate(pl).healthy = FALSE
      BY <1>1, IdleType DEF Invalidate, Pipelines
    <2>3. pl'.healthy \in {pl.healthy, FALSE}
      BY <1>1, <1>3, <2>2 DEF Caller, Forward, Reset, Close, Pipelines
    <2> QED BY <2>1, <2>3, FailImplements
  <1>4. CASE Project
    BY <1>4, ProjectImplements
  <1>5. CASE PrepareStage \/ CommitStage \/ ResetStage \/ CloseStage
    <2>1. UNCHANGED <<session, pl, history, projected>>
      BY <1>5 DEF PrepareStage, CommitStage, ResetStage, CloseStage, CallPrepare,
                  CallCommit, CallReset, CallClose, Send, logs
    <2> QED BY <2>1, FailImplements
  <1>6. ASSUME UNCHANGED <<req, session>>, pl.op \in Exchanging,
               StageFailed \/ (StageDone /\ pl.op = "close")
        PROVE  [Log!Next]_Log!logVars
    <2>1. UNCHANGED logs /\ ~pl'.healthy /\ pl' \in Pipelines
      <3>1. CoordinatorInv'
        BY <1>6, StageDoneStep, StageFailedStep DEF LogInv, PipelineInv
      <3> QED BY <1>6, <3>1, FailureLog DEF CoordinatorInv
    <2>2. pl'.healthy = FALSE
      BY <2>1 DEF Pipelines
    <2> QED BY <1>6, <2>1, <2>2, FailImplements DEF logs
  <1>7. CASE StageAnswered \/ StageTransportError
    <2>1. UNCHANGED <<req, session>> /\ pl.op \in Exchanging
      <3>1. \/ \E st \in {"ok", "reject"} : Answered(pl.stage, st)
            \/ ExchangeFails(pl.stage)
        BY <1>7 DEF StageAnswered, StageTransportError
      <3> QED BY <3>1, ExchangeEnds
              DEF LogInv, PipelineInv, LayerInv, Answered, ExchangeFails
    <2>2. CASE StageFailed
      BY <1>6, <2>1, <2>2
    <2>3. CASE Answered(pl.stage, "ok") /\ StageDone
      <3>1. CASE pl.healthy
        <4>1. PipelineInv'
          BY PipelineInvStep DEF LogInv
        <4> QED BY <2>3, <3>1, <4>1, DoneImplements
      <3>2. CASE ~pl.healthy
        <4>1. pl.op = "close"
          BY <2>1, <3>2 DEF LogInv, PhaseInv, Exchanging
        <4> QED BY <1>6, <2>1, <2>3, <4>1
      <3> QED BY <3>1, <3>2
    <2> QED BY <1>7, <2>2, <2>3 DEF StageAnswered, StageTransportError
  <1>8. CASE CloseSkips
    <2>1. StageFailed /\ pl.op \in Exchanging /\ UNCHANGED <<req, session>>
      BY <1>8 DEF CloseSkips, Exchanging, layerVars
    <2> QED BY <1>6, <2>1
  <1>9. ASSUME NEW i \in Stages, Worker(i) PROVE [Log!Next]_Log!logVars
    BY <1>9, WorkerImplements
  <1> QED BY <1>2, <1>3, <1>4, <1>5, <1>7, <1>8, <1>9 DEF Next, Coordinator

\* The two-phase pipeline implements the abstract log: decided by the head,
\* learnt by every range, delivered when all surviving ranges have it.
THEOREM PipelineImplementsTokenLog == Spec => ImplementsTokenLog
  BY LogInvInit, LogInvStep, LogInitImplements, LogStepImplements, PTL
  DEF Spec, ImplementsTokenLog, Log!Spec
================================================================================
