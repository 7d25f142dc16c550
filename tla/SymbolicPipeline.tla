--------------------------- MODULE SymbolicPipeline ---------------------------
(***************************************************************************)
(* SymbolicPipeline (crates/runtime/src/symbolic_transport.rs): the        *)
(* coordinator that owns one client per layer range and drives all of them *)
(* in order.  forward() prepares every range, projects the output head,    *)
(* then commits every range; reset() and close() visit them in order too.  *)
(* The object is used through &mut self, so one operation runs at a time;  *)
(* the workers' connection loops and the network run concurrently with it. *)
(*                                                                         *)
(* The behaviour starts after SymbolicPipeline::open admitted the clients. *)
(* A call on an invalidated pipeline, or with an exhausted context,        *)
(* returns an error without effect and is a stuttering step.               *)
(***************************************************************************)
EXTENDS SymbolicLayer

VARIABLES pl,         \* the coordinator and its program counter
          history,    \* tokens whose logits forward() returned since reset
          projected   \* tokens the output head accepted since reset

vars == <<client, req, resp, session, pl, history, projected>>
logs == <<history, projected>>

Ops == {"idle", "prepare", "head", "commit", "reset", "close"}

Pipelines == [healthy : BOOLEAN, position : 0..Context, op : Ops,
              stage : Stages, token : Tokens \cup {NoRow}]

\* The admission checks of open(): every client healthy, unprepared and at
\* position 0, one per consecutive layer range.
Init ==
    /\ LayerInit
    /\ pl = [healthy |-> TRUE, position |-> 0, op |-> "idle", stage |-> 1,
             token |-> NoRow]
    /\ history = <<>>
    /\ projected = <<>>

Idle(p) == [p EXCEPT !.op = "idle", !.stage = 1, !.token = NoRow]

\* A plausible bug: an error is returned but the pipeline stays usable.
ErrorOnly(p) == Idle(p)

Invalidate(p) == [Idle(p) EXCEPT !.healthy = FALSE]

\* The coordinator is blocked in the exchange of its current stage.
Awaiting == client[pl.stage].call # NoCall

-----------------------------------------------------------------------------
(* forward *)

\* The embedding is looked up before anything is sent; if that fails the
\* pipeline is invalidated.
Forward(t) ==
    /\ pl.op = "idle"
    /\ pl.healthy
    /\ pl.position < Context
    /\ \/ pl' = [pl EXCEPT !.op = "prepare", !.stage = 1, !.token = t]
       \/ pl' = Invalidate(pl)
    /\ UNCHANGED <<layerVars, logs>>

PrepareStage ==
    /\ pl.op = "prepare"
    /\ CallPrepare(pl.stage, pl.position, pl.token)
    /\ UNCHANGED <<pl, logs>>

\* A plausible bug: commits are sent whatever the head answers.
CommitWithoutLogits ==
    /\ pl.op = "head"
    /\ pl' = [pl EXCEPT !.op = "commit", !.stage = 1]
    /\ UNCHANGED <<layerVars, logs>>

\* A plausible bug: only the last range is told to commit.
CommitLastOnly ==
    /\ pl.op = "head"
    /\ pl' = [pl EXCEPT !.op = "commit", !.stage = NStages]
    /\ projected' = Append(history, pl.token)
    /\ UNCHANGED <<layerVars, history>>

\* head.project_output and the check of its logits: the decision.
Project ==
    /\ pl.op = "head"
    /\ \/ /\ pl' = [pl EXCEPT !.op = "commit", !.stage = 1]
          /\ projected' = Append(history, pl.token)
       \/ /\ pl' = Invalidate(pl)
          /\ UNCHANGED projected
    /\ UNCHANGED <<layerVars, history>>

CommitStage ==
    /\ pl.op = "commit"
    /\ CallCommit(pl.stage, pl.position)
    /\ UNCHANGED <<pl, logs>>

-----------------------------------------------------------------------------
(* reset and close *)

Reset ==
    /\ pl.op = "idle"
    /\ pl.healthy
    /\ pl' = [pl EXCEPT !.op = "reset", !.stage = 1]
    /\ UNCHANGED <<layerVars, logs>>

ResetStage ==
    /\ pl.op = "reset"
    /\ CallReset(pl.stage)
    /\ UNCHANGED <<pl, logs>>

Close ==
    /\ pl.op = "idle"
    /\ pl' = [pl EXCEPT !.op = "close", !.stage = 1, !.healthy = FALSE]
    /\ UNCHANGED <<layerVars, logs>>

CloseStage ==
    /\ pl.op = "close"
    /\ CallClose(pl.stage)
    /\ UNCHANGED <<pl, logs>>

-----------------------------------------------------------------------------
(* The loop over the clients *)

\* The current operation is done with its stage: go on to the next one, or
\* finish.  forward() returns the logits, reset() zeroes the position.
StageDone ==
    IF pl.stage < NStages
      THEN /\ pl' = [pl EXCEPT !.stage = @ + 1]
           /\ UNCHANGED logs
      ELSE CASE pl.op = "prepare" ->
                  /\ pl' = [pl EXCEPT !.op = "head"]
                  /\ UNCHANGED logs
             [] pl.op = "commit" ->
                  /\ pl' = [Idle(pl) EXCEPT !.position = @ + 1]
                  /\ history' = projected
                  /\ UNCHANGED projected
             [] pl.op = "reset" ->
                  /\ pl' = [Idle(pl) EXCEPT !.position = 0]
                  /\ history' = <<>>
                  /\ projected' = <<>>
             [] pl.op = "close" ->
                  /\ pl' = Idle(pl)
                  /\ UNCHANGED logs

\* A plausible bug: forward() and reset() skip a stage that failed.
FailureIgnored == StageDone

\* The first failure ends forward() and reset() and invalidates the pipeline;
\* close() remembers the error and goes on.
StageFailed ==
    IF pl.op = "close"
      THEN StageDone
      ELSE pl' = Invalidate(pl) /\ UNCHANGED logs

StageAnswered ==
    \/ Answered(pl.stage, "ok") /\ StageDone
    \/ Answered(pl.stage, "reject") /\ StageFailed

StageTransportError == ExchangeFails(pl.stage) /\ StageFailed

\* close() on a client that is already invalid returns an error and sends
\* nothing.
CloseSkips ==
    /\ pl.op = "close"
    /\ ~Awaiting
    /\ ~client[pl.stage].healthy
    /\ StageFailed
    /\ UNCHANGED layerVars

-----------------------------------------------------------------------------
Coordinator ==
    \/ PrepareStage
    \/ Project
    \/ CommitStage
    \/ ResetStage
    \/ CloseStage
    \/ StageAnswered
    \/ StageTransportError
    \/ CloseSkips

Caller ==
    \/ \E t \in Tokens : Forward(t)
    \/ Reset
    \/ Close

Worker(i) == (Serve(i) \/ ServerEnds(i)) /\ UNCHANGED <<pl, logs>>

Next == Coordinator \/ Caller \/ \E i \in Stages : Worker(i)

Spec == Init /\ [][Next]_vars

\* The coordinator's thread keeps running, and every read it blocks on has a
\* timeout (setup), so a step of it is always taken in the end.  Workers owe
\* nothing.
FairSpec == Spec /\ WF_vars(Coordinator)

-----------------------------------------------------------------------------
(* Properties *)

\* Types of the coordinator's state.
TypeOK ==
    /\ LayerTypeOK
    /\ pl \in Pipelines
    /\ history \in Seq(Tokens)
    /\ projected \in Seq(Tokens)

\* Tokens whose rows the session of stage i holds confirmed.
CommittedRows(i) == [k \in 1..session[i].position |-> session[i].rows[k - 1]]

\* Between operations of a healthy pipeline every session that still lives
\* holds exactly the rows of the tokens whose logits were returned, and no
\* prepared row.
SessionsInStep ==
    pl.op = "idle" /\ pl.healthy
      => /\ Len(history) = pl.position
         /\ \A i \in Stages :
              session[i].open
                => CommittedRows(i) = history /\ ~session[i].prepared

\* Whatever fails, at any moment: the rows a live session has confirmed are a
\* prefix of the tokens the output head accepted, and it misses at most the
\* last of them unless it was reset.  No row of a failed token is confirmed.
OnlyProjectedConfirmed ==
    \A i \in Stages :
       session[i].open
         => CommittedRows(i) \in {history, projected, <<>>}

\* Commits run in stage order: a session that confirmed the pending token
\* implies that all earlier ones that still live did.  The same holds of reset,
\* and an incomplete reset leaves the pipeline unusable.
StageOrder ==
    \A i, j \in Stages :
       i < j /\ session[i].open /\ session[j].open
         => \/ CommittedRows(i) = CommittedRows(j)
            \/ CommittedRows(i) = projected /\ CommittedRows(j) = history
            \/ CommittedRows(i) = <<>> /\ (pl.op = "reset" \/ ~pl.healthy)

\* forward, reset and close always return: every wait is bounded by a timeout.
OperationsReturn == (pl.op # "idle") ~> (pl.op = "idle")

\* The coordinator, its clients and the workers implement a token log: decided
\* by the head, learnt by every range, delivered when all surviving ranges
\* have confirmed it.
Log == INSTANCE TokenLog WITH
         Ranges <- Stages,
         live <- pl.healthy,
         tokens <- history,
         decided <- projected,
         log <- [i \in Stages |-> CommittedRows(i)],
         lost <- {i \in Stages : ~session[i].open}

ImplementsTokenLog == Log!Spec
==============================================================================
