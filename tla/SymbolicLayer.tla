---------------------------- MODULE SymbolicLayer ----------------------------
(***************************************************************************)
(* The two-phase layer protocol of crates/runtime: for every pipeline      *)
(* stage, one SymbolicLayerClient at the coordinator, one TCP connection,  *)
(* and one SymbolicLayerServer connection loop that owns a                 *)
(* SymbolicLayerSession (symbolic_transport.rs, symbolic_session.rs).      *)
(*                                                                         *)
(* The caller of a client is left free here: any order of prepare, commit, *)
(* abort, reset and close that the public API accepts.  SymbolicPipeline   *)
(* restricts it to what the coordinator does.                              *)
(*                                                                         *)
(* A call the client refuses by itself (unhealthy connection, wrong        *)
(* position, nothing prepared) changes nothing and sends nothing, so it is *)
(* a stuttering step.  Hidden vectors are abstracted to the token they     *)
(* were computed from.  The connection never delivers a frame twice or out *)
(* of order; a frame may be delayed for ever or die with the connection.   *)
(***************************************************************************)
EXTENDS Naturals, Sequences

CONSTANTS NStages,  \* number of layer ranges, one connection each
          Context,  \* context length admitted by the OPEN handshake
          Tokens,   \* token identifiers
          NoRow     \* content of a KV cell that was never written

ASSUME NStagesAssumption == NStages \in Nat \ {0}
ASSUME ContextAssumption == Context \in Nat \ {0}
ASSUME TokensAssumption  == NoRow \notin Tokens

VARIABLES client,   \* SymbolicLayerClient of each stage
          req,      \* frames on their way to the worker
          resp,     \* frames on their way to the coordinator
          session   \* SymbolicLayerSession of each connection

layerVars == <<client, req, resp, session>>

Stages    == 1..NStages
Positions == 0..(Context - 1)

(***************************************************************************)
(* Requests.  The position of RESET and CLOSE, and the token of anything   *)
(* but PREPARE, are not on the wire; they are filled with constants here.  *)
(***************************************************************************)
PrepareReq(p, t) == [kind |-> "prepare", position |-> p, token |-> t]
CommitReq(p)     == [kind |-> "commit",  position |-> p, token |-> NoRow]
AbortReq(p)      == [kind |-> "abort",   position |-> p, token |-> NoRow]
ResetReq         == [kind |-> "reset",   position |-> 0, token |-> NoRow]
CloseReq         == [kind |-> "close",   position |-> 0, token |-> NoRow]
NoCall           == [kind |-> "none",    position |-> 0, token |-> NoRow]

Requests == {PrepareReq(p, t) : p \in Positions, t \in Tokens}
              \cup {CommitReq(p) : p \in Positions}
              \cup {AbortReq(p) : p \in Positions}
              \cup {ResetReq, CloseReq}

Clients  == [healthy : BOOLEAN, position : 0..Context, prepared : BOOLEAN,
             call : Requests \cup {NoCall}]
Sessions == [open : BOOLEAN, position : 0..Context, prepared : BOOLEAN,
             rows : [Positions -> Tokens \cup {NoRow}]]

NoRows == [p \in Positions |-> NoRow]

LayerInit ==
    /\ client = [i \in Stages |->
                   [healthy |-> TRUE, position |-> 0, prepared |-> FALSE,
                    call |-> NoCall]]
    /\ req  = [i \in Stages |-> <<>>]
    /\ resp = [i \in Stages |-> <<>>]
    /\ session = [i \in Stages |->
                    [open |-> TRUE, position |-> 0, prepared |-> FALSE,
                     rows |-> NoRows]]

-----------------------------------------------------------------------------
(* The session object on the worker: what one request does to it.  Each    *)
(* operator is the set of <<session, status>> pairs the call may end in.   *)

\* A plausible bug: the row counts as prepared although the BML failed.
PrepareKeptOnFailure(s, p, t) ==
    IF s.prepared \/ p # s.position \/ p >= Context
      THEN {<<s, "reject">>}
      ELSE {<<[s EXCEPT !.rows[p] = t, !.prepared = TRUE], st>> :
              st \in {"ok", "reject"}}

\* A plausible bug: the pending row's slot is taken from the row before it.
PrepareOverCommitted(s, p, t) ==
    IF s.prepared \/ p # s.position \/ p >= Context
      THEN {<<s, "reject">>}
      ELSE {<<[s EXCEPT !.rows[IF p = 0 THEN 0 ELSE p - 1] = t,
                        !.prepared = TRUE], "ok">>}

\* prepare: execution may fail before or after it wrote the KV row, or yield
\* a nonfinite output; the row stays uncommitted and nothing is prepared.
SessionPrepare(s, p, t) ==
    IF s.prepared \/ p # s.position \/ p >= Context
      THEN {<<s, "reject">>}
      ELSE {<<[s EXCEPT !.rows[p] = t, !.prepared = TRUE], "ok">>,
            <<[s EXCEPT !.rows[p] = t], "reject">>,
            <<s, "reject">>}

\* A plausible bug: the committed row still counts as prepared.
CommitKeepsPrepared(s, p) ==
    IF ~s.prepared \/ p # s.position
      THEN {<<s, "reject">>}
      ELSE {<<[s EXCEPT !.position = @ + 1], "ok">>}

SessionCommit(s, p) ==
    IF ~s.prepared \/ p # s.position
      THEN {<<s, "reject">>}
      ELSE {<<[s EXCEPT !.position = @ + 1, !.prepared = FALSE], "ok">>}

SessionAbort(s, p) ==
    IF ~s.prepared \/ p # s.position
      THEN {<<s, "reject">>}
      ELSE {<<[s EXCEPT !.prepared = FALSE], "ok">>}

\* A plausible bug: the cache is replaced and the position is not.
ResetKeepsPosition(s) ==
    {<<[s EXCEPT !.prepared = FALSE, !.rows = NoRows], "ok">>, <<s, "reject">>}

\* reset: a fresh cache is allocated before the old one is replaced.
SessionReset(s) ==
    {<<[s EXCEPT !.position = 0, !.prepared = FALSE, !.rows = NoRows], "ok">>,
     <<s, "reject">>}

\* CLOSE is acknowledged and ends the connection loop.
SessionClose(s) == {<<[s EXCEPT !.open = FALSE], "ok">>}

Outcomes(s, m) ==
    CASE m.kind = "prepare" -> SessionPrepare(s, m.position, m.token)
      [] m.kind = "commit"  -> SessionCommit(s, m.position)
      [] m.kind = "abort"   -> SessionAbort(s, m.position)
      [] m.kind = "reset"   -> SessionReset(s)
      [] m.kind = "close"   -> SessionClose(s)

-----------------------------------------------------------------------------
(* The worker's connection loop. *)

\* One turn: read a frame, run it, write the response.
Serve(i) ==
    /\ session[i].open
    /\ req[i] # <<>>
    /\ \E o \in Outcomes(session[i], Head(req[i])) :
         /\ session' = [session EXCEPT ![i] = o[1]]
         /\ resp' = [resp EXCEPT ![i] = Append(@, o[2])]
    /\ req' = [req EXCEPT ![i] = Tail(@)]
    /\ UNCHANGED client

\* The loop returns an error: read timeout while idle, connection reset, a
\* failed write, or the process dies.  The session is dropped with the
\* connection; a frame it had not answered is never answered.
ServerEnds(i) ==
    /\ session[i].open
    /\ session' = [session EXCEPT ![i].open = FALSE]
    /\ req' = [req EXCEPT ![i] = <<>>]
    /\ UNCHANGED <<client, resp>>

-----------------------------------------------------------------------------
(* The client.  A method call is two steps: Call..., which checks and      *)
(* writes the frame, then Answered or ExchangeFails.                       *)

Send(i, m) ==
    /\ client[i].healthy
    /\ client[i].call = NoCall
    /\ client' = [client EXCEPT ![i].call = m]
    /\ req' = [req EXCEPT ![i] = Append(@, m)]
    /\ UNCHANGED <<resp, session>>

CallPrepare(i, p, t) ==
    /\ ~client[i].prepared
    /\ p = client[i].position
    /\ p < Context
    /\ Send(i, PrepareReq(p, t))

CallCommit(i, p) ==
    /\ client[i].prepared
    /\ p = client[i].position
    /\ Send(i, CommitReq(p))

CallAbort(i, p) ==
    /\ client[i].prepared
    /\ p = client[i].position
    /\ Send(i, AbortReq(p))

CallReset(i) == Send(i, ResetReq)

CallClose(i) == Send(i, CloseReq)

\* What an acknowledged request does to the client.
Acknowledge(c) ==
    CASE c.call.kind = "prepare" -> [c EXCEPT !.prepared = TRUE]
      [] c.call.kind = "commit"  -> [c EXCEPT !.position = @ + 1,
                                              !.prepared = FALSE]
      [] c.call.kind = "abort"   -> [c EXCEPT !.prepared = FALSE]
      [] c.call.kind = "reset"   -> [c EXCEPT !.position = 0,
                                              !.prepared = FALSE]
      [] c.call.kind = "close"   -> c

\* A response frame arrives in time.  A rejection (status 1) is returned to
\* the caller and leaves the client as it was; close() ends the client either
\* way.
Answered(i, status) ==
    /\ client[i].call # NoCall
    /\ resp[i] # <<>>
    /\ Head(resp[i]) = status
    /\ resp' = [resp EXCEPT ![i] = Tail(@)]
    /\ client' = [client EXCEPT ![i] =
                    [(IF status = "ok" THEN Acknowledge(@) ELSE @)
                       EXCEPT !.call = NoCall,
                              !.healthy = client[i].call.kind # "close"]]
    /\ UNCHANGED <<req, session>>

\* A plausible bug: no read timeout, so only a closed connection ends a wait.
WaitForPeer(i) ==
    /\ client[i].call # NoCall
    /\ ~session[i].open
    /\ client' = [client EXCEPT ![i].call = NoCall, ![i].healthy = FALSE]
    /\ UNCHANGED <<req, resp, session>>

\* The write fails, the read times out, or the frame read is not a valid
\* response: the client is invalidated whatever the worker did or will do.
ExchangeFails(i) ==
    /\ client[i].call # NoCall
    /\ client' = [client EXCEPT ![i].call = NoCall, ![i].healthy = FALSE]
    /\ UNCHANGED <<req, resp, session>>

-----------------------------------------------------------------------------
LayerNext ==
    \E i \in Stages :
       \/ Serve(i)
       \/ ServerEnds(i)
       \/ \E p \in 0..Context, t \in Tokens : CallPrepare(i, p, t)
       \/ \E p \in 0..Context : CallCommit(i, p)
       \/ \E p \in 0..Context : CallAbort(i, p)
       \/ CallReset(i)
       \/ CallClose(i)
       \/ \E status \in {"ok", "reject"} : Answered(i, status)
       \/ ExchangeFails(i)

LayerSpec == LayerInit /\ [][LayerNext]_layerVars

-----------------------------------------------------------------------------
(* Properties *)

\* Types of the client, wire and session state.
LayerTypeOK ==
    /\ client \in [Stages -> Clients]
    /\ req \in [Stages -> Seq(Requests)]
    /\ resp \in [Stages -> Seq({"ok", "reject"})]
    /\ session \in [Stages -> Sessions]

\* exchange() is synchronous and an unhealthy client never writes again, so a
\* connection carries at most one frame, in one direction, at any time; a
\* client that is healthy and not inside a call has nothing in flight, so it
\* can never take a late answer for the answer to its next request.
OneOutstanding ==
    \A i \in Stages :
       /\ Len(req[i]) + Len(resp[i]) <= 1
       /\ client[i].healthy /\ client[i].call = NoCall
             => req[i] = <<>> /\ resp[i] = <<>>

\* A healthy client that is not inside a call knows the worker's session: if
\* the session still lives, both agree on the confirmed position and on
\* whether a row is prepared.
Agreement ==
    \A i \in Stages :
       client[i].healthy /\ client[i].call = NoCall /\ session[i].open
         => /\ session[i].position = client[i].position
            /\ session[i].prepared = client[i].prepared

\* A request in flight from a client fits the session it is addressed to, so
\* the worker's own position and pending checks never reject it: COMMIT and
\* ABORT fail only with the connection, PREPARE only by its execution.
RequestFits ==
    \A i \in Stages :
       session[i].open /\ req[i] # <<>>
         => LET m == Head(req[i]) IN
            /\ m.kind \in {"commit", "abort"}
                 => session[i].prepared /\ m.position = session[i].position
            /\ m.kind = "prepare"
                 => ~session[i].prepared /\ m.position = session[i].position

\* After an unanswered request the client's position is off by at most that
\* request: one commit, or one reset.  Never two.
BoundedAmbiguity ==
    \A i \in Stages :
       session[i].open
         => session[i].position \in {client[i].position,
                                     client[i].position + 1, 0}

\* Rows below the confirmed position are written by nobody: a worker changes
\* them only by replacing the whole cache in reset().
CommittedRowsStable ==
    [][\A i \in Stages :
         session'[i].position # 0
           => \A p \in 0..(session[i].position - 1) :
                session'[i].rows[p] = session[i].rows[p]]_layerVars
==============================================================================
