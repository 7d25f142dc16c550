------------------------------ MODULE WorkerNode ------------------------------
(***************************************************************************)
(* bml-worker in its legacy role (crates/worker/src/main.rs): one thread   *)
(* per accepted connection runs handle_connection over the frames of       *)
(* crates/runtime/src/net.rs, and all of them share one bounded queue of   *)
(* pending work.  The other end of a connection is a NodeHandle.           *)
(*                                                                         *)
(* A piece of work is the ticket of the enqueue_fragment call that brought *)
(* it: submitting the same fragment again takes a new ticket.  The queue's *)
(* push and pop are atomic here (ArrayQueue shows that they are            *)
(* linearizable).  A NodeHandle is never reconnected; a process that       *)
(* connects again uses another handle.  send_fragment and recv_result are  *)
(* used as a pair, as the callers in the repository do.  No handle sends a *)
(* frame of the kinds the worker only logs (the last arm of its match).    *)
(***************************************************************************)
EXTENDS Naturals, Sequences, FiniteSets, SequencesExt

CONSTANTS Handles,      \* connections, one NodeHandle each
          Capacity,     \* of the pending queue (64 in the daemon)
          MaxWork,      \* bound: enqueue_fragment calls of a behaviour
          MaxUnread,    \* bound: frames a connection holds unread
          Used,         \* the kinds of request each caller makes
          Timed,        \* handles whose caller set a read timeout (stream_mut)
          Cut,          \* handles whose reads may stop inside a frame
          Preloaded     \* was a fragment file given on the command line?

ASSUME CapacityAssumption == Capacity \in Nat \ {0}
ASSUME BoundsAssumption == MaxWork \in Nat /\ MaxUnread \in Nat \ {0}
ASSUME TimedAssumption == Timed \subseteq Handles /\ Cut \subseteq Handles
ASSUME PreloadedAssumption == Preloaded \in BOOLEAN
ASSUME UsedAssumption ==
    Used \in [Handles -> SUBSET {"enqueue", "steal", "health", "graph", "load",
                                 "vector", "batch"}]

VARIABLES handle,     \* NodeHandle: is its socket usable, the call it is in, do
                      \* bytes of a frame given up stand before the next frame
                      \* (astray), and (history) did a call give up while a
                      \* frame was owed, or in the middle of one (late)?
          req, resp,  \* frames under way on each connection
          conn,       \* handle_connection: alive, and the reply it is about to send
          pending,    \* PendingWork, shared by the threads
          loaded,     \* WorkerState.fragment is present
          died,       \* the worker process ended
          work        \* history: the enqueue_fragment calls and what became of them

net  == <<req, resp, conn>>
node == <<pending, loaded, died>>
vars == <<handle, net, node, work>>

Tickets == 1..MaxWork
NoWork  == 0

\* Request kinds, each answered by one frame.  "load" is ExecuteFragment.
Kinds == {"enqueue", "steal", "health", "graph", "load", "vector", "batch"}

\* A request carries a payload its decoder accepts, or not.
Request(kind, valid, k) == [kind |-> kind, valid |-> valid, ticket |-> k]
NoCall == Request("none", FALSE, NoWork)

\* Requests without a payload, and BatchRequest, whose payload is not read,
\* are always valid.
Payloads(kind) == IF kind \in {"steal", "health", "batch"} THEN {TRUE} ELSE BOOLEAN

\* A reply names its kind; data is a status, a count or a ticket; last says
\* that the thread returns after sending it.
Reply(kind, data, last) == [kind |-> kind, data |-> data, last |-> last]
NoReply == Reply("none", 0, FALSE)

Init ==
    /\ handle = [h \in Handles |-> [open |-> TRUE, call |-> NoCall, late |-> FALSE,
                              astray |-> FALSE]]
    /\ req = [h \in Handles |-> <<>>]
    /\ resp = [h \in Handles |-> <<>>]
    /\ conn = [h \in Handles |-> [alive |-> TRUE, out |-> NoReply]]
    /\ pending = <<>>
    /\ loaded = Preloaded
    /\ died = FALSE
    /\ work = [issued |-> 0, admitted |-> {},
               producer |-> [k \in Tickets |-> NoWork],
               outcome |-> [k \in Tickets |-> "none"],
               taken |-> [h \in Handles |-> {}],
               received |-> [h \in Handles |-> <<>>]]

-----------------------------------------------------------------------------
(* NodeHandle: a call writes a request, then blocks until a frame is read *)

Call(h, kind, valid) ==
    /\ handle[h].open
    /\ handle[h].call = NoCall
    /\ Len(req[h]) + Len(resp[h]) < MaxUnread
    /\ LET k == IF kind = "enqueue" THEN work.issued + 1 ELSE NoWork
           m == Request(kind, valid, k)
       IN  /\ k <= MaxWork
           /\ work' = IF k = NoWork THEN work
                      ELSE [work EXCEPT !.issued = k, !.producer[k] = h]
           /\ handle' = [handle EXCEPT ![h].call = m]
           /\ req' = IF conn[h].alive THEN [req EXCEPT ![h] = Append(@, m)] ELSE req
    /\ UNCHANGED <<resp, conn, node>>

\* The call returns an error.  Only execute_graph shuts its socket down.
CallFails(h, late, astray) ==
    LET m == handle[h].call IN
    /\ handle' = [handle EXCEPT ![h] = [open |-> @.open /\ m.kind # "graph",
                                        call |-> NoCall, late |-> @.late \/ late,
                                        astray |-> astray]]
    /\ work' = IF m.kind = "enqueue" THEN [work EXCEPT !.outcome[m.ticket] = "error"]
               ELSE work

CallReturns(h) == handle' = [handle EXCEPT ![h].call = NoCall]

\* enqueue_fragment: 1 accepted, 0 queue full, anything else an error.
EnqueueReturns(h, r) ==
    IF r.kind = "enqueue" /\ r.data \in {0, 1}
      THEN /\ CallReturns(h)
           /\ work' = [work EXCEPT !.outcome[handle[h].call.ticket] =
                         IF r.data = 1 THEN "accepted" ELSE "full"]
      ELSE CallFails(h, FALSE, FALSE)

\* steal_work: an empty payload means that there was nothing to steal.
StealReturns(h, r) ==
    IF r.kind = "steal"
      THEN /\ CallReturns(h)
           /\ work' = IF r.data = NoWork THEN work
                      ELSE [work EXCEPT !.received[h] = Append(@, r.data)]
      ELSE CallFails(h, FALSE, FALSE)

\* A frame is read whole.  The other methods only compare the frame's type;
\* execute_graph keeps the socket after a complete rejection, not after a frame
\* of another type.
Return(h) ==
    /\ handle[h].call # NoCall
    /\ ~handle[h].astray
    /\ resp[h] # <<>>
    /\ LET r == Head(resp[h])  kind == handle[h].call.kind
       IN  \/ kind = "enqueue" /\ EnqueueReturns(h, r)
           \/ kind = "steal" /\ StealReturns(h, r)
           \/ kind \in Kinds \ {"enqueue", "steal"} /\ r.kind = kind
                /\ CallReturns(h) /\ UNCHANGED work
           \/ kind \in Kinds \ {"enqueue", "steal"} /\ r.kind # kind
                /\ CallFails(h, FALSE, FALSE)
    /\ resp' = [resp EXCEPT ![h] = Tail(@)]
    /\ UNCHANGED <<req, conn, node>>

\* Frames without a payload: BatchResult, and the answers to a steal that found
\* nothing and to a vector that could not be decoded.
Bare(r) == r.kind = "batch" \/ (r.kind \in {"steal", "vector"} /\ r.data = 0)

\* recv_msg reads the header and refuses the payload: it is over the caller's
\* 64 MiB (the worker's own limit may be larger) or cannot be allocated.  The
\* body stays in the stream and, but for execute_graph, so does the socket.
ReceiveFails(h) ==
    /\ h \in Cut
    /\ handle[h].call # NoCall
    /\ ~handle[h].astray
    /\ resp[h] # <<>>
    /\ ~Bare(Head(resp[h]))
    /\ CallFails(h, TRUE, TRUE)
    /\ resp' = [resp EXCEPT ![h] = Tail(@)]
    /\ UNCHANGED <<req, conn, node>>

\* A read that starts inside a body takes payload bytes for headers, and may
\* eat into the frames behind it.  It fails, or finds bytes that look like an
\* answer (but are no piece of work), or waits for the rest of a frame that is
\* none; it may end, by chance, where a frame begins.
AstrayRead(h) ==
    /\ handle[h].call # NoCall
    /\ handle[h].astray
    /\ \E n \in 0..Len(resp[h]) :
         resp' = [resp EXCEPT ![h] = SubSeq(@, n + 1, Len(@))]
    /\ \/ \E astray \in BOOLEAN : CallFails(h, TRUE, astray)
       \/ \E astray \in BOOLEAN, o \in {"accepted", "full"} :
            /\ handle' = [handle EXCEPT ![h].call = NoCall, ![h].astray = astray]
            /\ work' = IF handle[h].call.kind # "enqueue" THEN work
                       ELSE [work EXCEPT !.outcome[handle[h].call.ticket] = o]
       \/ UNCHANGED <<handle, work>>
    /\ UNCHANGED <<req, conn, node>>

\* The connection is gone: the write fails or the read reaches its end.
Disconnected(h) ==
    /\ handle[h].call # NoCall
    /\ ~conn[h].alive
    /\ ~handle[h].astray
    /\ resp[h] = <<>>
    /\ CallFails(h, FALSE, FALSE)
    /\ UNCHANGED <<net, node>>

\* The caller's read timeout expires first, before a frame or in its middle.
TimedOut(h) ==
    /\ h \in Timed
    /\ handle[h].call # NoCall
    /\ \/ CallFails(h, TRUE, handle[h].astray) /\ UNCHANGED resp
       \/ /\ h \in Cut /\ resp[h] # <<>>
          /\ CallFails(h, TRUE, TRUE)
          /\ resp' = [resp EXCEPT ![h] = Tail(@)]
    /\ UNCHANGED <<req, conn, node>>

-----------------------------------------------------------------------------
(* handle_connection: read a frame, act on it, send the reply *)

Take(h, kinds) ==
    /\ conn[h].alive
    /\ conn[h].out = NoReply
    /\ req[h] # <<>>
    /\ Head(req[h]).kind \in kinds
    /\ req' = [req EXCEPT ![h] = Tail(@)]
    /\ UNCHANGED <<handle, resp, died>>

Answer(h, kind, data, last) ==
    conn' = [conn EXCEPT ![h].out = Reply(kind, data, last)]

\* A plausible bug: the result of push is ignored.
EnqueueUnchecked(h) ==
    /\ Take(h, {"enqueue"})
    /\ LET m == Head(req[h])  fits == m.valid /\ Len(pending) < Capacity
       IN  /\ pending' = IF fits THEN Append(pending, m.ticket) ELSE pending
           /\ work' = IF fits THEN [work EXCEPT !.admitted = @ \cup {m.ticket}] ELSE work
           /\ Answer(h, "enqueue", IF m.valid THEN 1 ELSE 2, FALSE)
    /\ UNCHANGED loaded

\* A plausible bug: force_push, which displaces the oldest work of a full queue.
EnqueueForced(h) ==
    /\ Take(h, {"enqueue"})
    /\ LET m == Head(req[h])
           room == IF Len(pending) < Capacity THEN pending ELSE Tail(pending)
       IN  /\ pending' = IF m.valid THEN Append(room, m.ticket) ELSE pending
           /\ work' = IF m.valid THEN [work EXCEPT !.admitted = @ \cup {m.ticket}] ELSE work
           /\ Answer(h, "enqueue", IF m.valid THEN 1 ELSE 2, FALSE)
    /\ UNCHANGED loaded

\* EnqueueFragment: decode and validate, push, report the status.
HandleEnqueue(h) ==
    /\ Take(h, {"enqueue"})
    /\ LET m == Head(req[h])  fits == m.valid /\ Len(pending) < Capacity
       IN  /\ pending' = IF fits THEN Append(pending, m.ticket) ELSE pending
           /\ work' = IF fits THEN [work EXCEPT !.admitted = @ \cup {m.ticket}] ELSE work
           /\ Answer(h, "enqueue", IF ~m.valid THEN 2 ELSE IF fits THEN 1 ELSE 0, FALSE)
    /\ UNCHANGED loaded

\* A plausible bug: the work is copied out and stays in the queue.
StealCopies(h) ==
    /\ Take(h, {"steal"})
    /\ Answer(h, "steal", IF pending = <<>> THEN NoWork ELSE Head(pending), FALSE)
    /\ UNCHANGED <<pending, loaded, work>>

\* StealWork: the pop comes before the reply is sent.
HandleSteal(h) ==
    /\ Take(h, {"steal"})
    /\ pending' = IF pending = <<>> THEN <<>> ELSE Tail(pending)
    /\ Answer(h, "steal", IF pending = <<>> THEN NoWork ELSE Head(pending), FALSE)
    /\ work' = IF pending = <<>> THEN work ELSE [work EXCEPT !.taken[h] = @ \cup {Head(pending)}]
    /\ UNCHANGED loaded

\* HealthCheck, ExecuteGraph, BatchRequest and VectorMatmul touch no shared
\* state; a VectorMatmul that cannot be decoded ends the connection.
HandleStateless(h) ==
    /\ Take(h, {"health", "graph", "batch", "vector"})
    /\ LET m == Head(req[h])
       IN  Answer(h, m.kind,
                  IF m.kind = "health" THEN Len(pending) ELSE IF m.valid THEN 1 ELSE 0,
                  m.kind = "vector" /\ ~m.valid)
    /\ UNCHANGED <<pending, loaded, work>>

\* A plausible bug: a fragment that cannot be decoded is dropped unanswered.
LoadUnanswered(h) ==
    /\ Take(h, {"load"})
    /\ loaded' = (loaded \/ Head(req[h]).valid)
    /\ conn' = IF Head(req[h]).valid
                 THEN [conn EXCEPT ![h].out = Reply("load", 1, FALSE)] ELSE conn
    /\ UNCHANGED <<pending, work>>

\* ExecuteFragment: replace the loaded fragment and acknowledge, or answer NaN
\* and end the connection.
HandleLoad(h) ==
    /\ Take(h, {"load"})
    /\ LET valid == Head(req[h]).valid
       IN  /\ loaded' = (loaded \/ valid)
           /\ Answer(h, "load", IF valid THEN 1 ELSE 0, ~valid)
    /\ UNCHANGED <<pending, work>>

\* The reply is written; a socket that the peer shut down swallows it.
SendReply(h) ==
    /\ conn[h].alive
    /\ conn[h].out # NoReply
    /\ conn' = [conn EXCEPT ![h] = [alive |-> ~conn[h].out.last, out |-> NoReply]]
    /\ resp' = IF handle[h].open THEN [resp EXCEPT ![h] = Append(@, conn[h].out)] ELSE resp
    /\ req' = IF conn[h].out.last THEN [req EXCEPT ![h] = <<>>] ELSE req
    /\ UNCHANGED <<handle, node, work>>

\* The connection breaks while the thread reads or writes: the thread returns,
\* the reply it held is dropped, and frames under way may be.
ConnectionBreaks(h) ==
    /\ conn[h].alive
    /\ conn' = [conn EXCEPT ![h] = [alive |-> FALSE, out |-> NoReply]]
    /\ req' = [req EXCEPT ![h] = <<>>]
    /\ \/ UNCHANGED resp
       \/ resp' = [resp EXCEPT ![h] = <<>>]
    /\ UNCHANGED <<handle, node, work>>

\* Nothing the worker holds is persistent.
WorkerDies ==
    /\ ~died
    /\ died' = TRUE
    /\ pending' = <<>>
    /\ loaded' = FALSE
    /\ conn' = [h \in Handles |-> [alive |-> FALSE, out |-> NoReply]]
    /\ req' = [h \in Handles |-> <<>>]
    /\ UNCHANGED <<handle, resp, work>>

-----------------------------------------------------------------------------
Client(h) == \/ Return(h) \/ ReceiveFails(h) \/ AstrayRead(h) \/ Disconnected(h)
             \/ TimedOut(h)

Thread(h) == \/ HandleEnqueue(h) \/ HandleSteal(h) \/ HandleStateless(h)
             \/ HandleLoad(h) \/ SendReply(h)

Next ==
    \/ \E h \in Handles :
         \/ \E kind \in Used[h] : \E valid \in Payloads(kind) : Call(h, kind, valid)
         \/ Client(h)
         \/ Thread(h)
         \/ ConnectionBreaks(h)
    \/ WorkerDies

Spec == Init /\ [][Next]_vars

-----------------------------------------------------------------------------
(* Properties *)

\* Where work is: queued, in a thread's hands, on the wire, or received.
OnWire(h) == {i \in DOMAIN resp[h] : resp[h][i].kind = "steal" /\ resp[h][i].data # NoWork}
Wired(h)  == {resp[h][i].data : i \in OnWire(h)}
InHand(h) == IF conn[h].out.kind = "steal" /\ conn[h].out.data # NoWork
               THEN {conn[h].out.data} ELSE {}
Carried(h) == InHand(h) \cup (IF handle[h].open THEN Wired(h) ELSE {})
Stolen(h)  == ToSet(work.received[h])

\* A pop transfers work to one owner: no piece of work is in two places, or
\* twice in one, whatever times out, breaks or dies.
AtMostOnce ==
    /\ IsInjective(pending)
    /\ \A h \in Handles :
         /\ IsInjective(work.received[h])
         /\ \A i, j \in OnWire(h) : i # j => resp[h][i].data # resp[h][j].data
         /\ ToSet(pending) \cap (Carried(h) \cup Stolen(h)) = {}
         /\ InHand(h) \cap Wired(h) = {}
         /\ Carried(h) \cap Stolen(h) = {}
         /\ \A g \in Handles \ {h} :
              (Carried(h) \cup Stolen(h)) \cap (Carried(g) \cup Stolen(g)) = {}

\* What a thread popped for h and h can no longer receive.
Lost(h) == work.taken[h] \ (Carried(h) \cup Stolen(h))

\* Admitted work is lost only by the connection it was popped for: while the
\* worker lives, what no steal took is queued.  A connection none of whose calls
\* timed out or gave up a frame (a reply over the client's limit, a failed
\* allocation) loses nothing while it stands, and one piece of work at most when
\* it breaks, whatever happens on the others.
LossBounded ==
    /\ ~died => work.admitted \subseteq ToSet(pending) \cup UNION {work.taken[h] : h \in Handles}
    /\ \A h \in Handles : ~handle[h].late =>
         /\ Cardinality(Lost(h)) <= 1
         /\ conn[h].alive => Lost(h) = {}

\* What enqueue_fragment returned for k is true of k itself: true, it was
\* admitted; false, it was not and never will be.
Truthful(k) ==
    /\ work.outcome[k] = "accepted" => k \in work.admitted
    /\ work.outcome[k] = "full" => k \notin work.admitted

\* enqueue_fragment tells the truth on every handle none of whose calls timed
\* out or gave up a frame, whatever the other handles do and however the worker
\* or its connections end.
AdmissionTruthful ==
    \A k \in 1..work.issued : ~handle[work.producer[k]].late => Truthful(k)

\* net.rs says of enqueue_fragment, without a condition, "false indicates queue
\* saturation": also on a handle whose earlier call failed and left it usable.
AnswersOwnRequest == \A k \in 1..work.issued : Truthful(k)

\* Nobody waits for nothing: while the connection stands, a call that has not
\* returned has its request under way, in the thread's hands, or a reply on the
\* wire, although most callers set no read timeout and payloads may not decode.
\* The exception is a read that starts inside the body of a frame given up.
AnswerOwed ==
    \A h \in Handles :
       handle[h].call # NoCall /\ conn[h].alive /\ ~handle[h].astray
         => req[h] # <<>> \/ conn[h].out # NoReply \/ resp[h] # <<>>
==============================================================================
