--------------------------- MODULE WorkerNode_proofs ---------------------------
(***************************************************************************)
(* Proofs about the legacy worker, for any number of connections, any      *)
(* queue capacity, any number of calls and any mix of requests, timeouts,  *)
(* broken connections and the death of the process.                        *)
(***************************************************************************)
EXTENDS WorkerNode, FiniteSetTheorems, TLAPS

-----------------------------------------------------------------------------
(* The invariant *)

Requests == [kind : Kinds, valid : BOOLEAN, ticket : 0 .. MaxWork]
Replies == [kind : Kinds, data : Nat, last : BOOLEAN]
Outcomes == {"none", "accepted", "full", "error"}

LinkType ==
  /\ handle \in [Handles -> [open : BOOLEAN, call : Requests \cup {NoCall}, late : BOOLEAN, astray : BOOLEAN]]
  /\ req \in [Handles -> Seq(Requests)]
  /\ resp \in [Handles -> Seq(Replies)]
  /\ conn \in [Handles -> [alive : BOOLEAN, out : Replies \cup {NoReply}]]

WorkType ==
  /\ pending \in Seq(Tickets)
  /\ work \in [issued : 0 .. MaxWork, admitted : SUBSET Tickets,
               producer : [Tickets -> Handles \cup {NoWork}],
               outcome : [Tickets -> Outcomes],
               taken : [Handles -> SUBSET Tickets],
               received : [Handles -> Seq(Tickets)]]

\* Tickets are handed out in order, each to the handle that asked.
TicketInv ==
  /\ work.admitted \subseteq 1 .. work.issued
  /\ \A k \in Tickets : /\ k > work.issued => work.outcome[k] = "none"
                        /\ k <= work.issued => work.producer[k] \in Handles

\* A fragment that is still under way to the worker was not admitted, and is
\* under way once.
FreshInv(h) ==
  \A i \in DOMAIN req[h] : req[h][i].kind = "enqueue" =>
    /\ req[h][i].ticket \in 1 .. work.issued
    /\ work.producer[req[h][i].ticket] = h
    /\ req[h][i].ticket \notin work.admitted
    /\ \A j \in DOMAIN req[h] :
         j # i /\ req[h][j].kind = "enqueue" => req[h][j].ticket # req[h][i].ticket

\* A call in progress has an open socket, and a ticket without an outcome.
CallInv(h) ==
  handle[h].call # NoCall =>
    /\ handle[h].open
    /\ handle[h].call.kind = "enqueue" =>
         /\ handle[h].call.ticket \in 1 .. work.issued
         /\ work.producer[handle[h].call.ticket] = h
         /\ work.outcome[handle[h].call.ticket] = "none"

\* r is the truth about the request m.
Answers(r, m) ==
  /\ r \in Replies
  /\ r.kind = m.kind
  /\ m.kind = "enqueue" => /\ r.data = 1 => m.ticket \in work.admitted
                           /\ r.data = 0 => m.ticket \notin work.admitted

\* A stream is out of step with its frames only after a call gave one up.
AstrayInv(h) == handle[h].astray => handle[h].late

\* A handle none of whose calls timed out or gave up a frame is in step with its thread: what is
\* under way is the request or the answer of the call it is in.
InStepInv(h) ==
  ~handle[h].late =>
    \/ /\ req[h] = <<>> /\ conn[h].out = NoReply /\ resp[h] = <<>>
       /\ handle[h].call = NoCall \/ ~conn[h].alive
    \/ /\ handle[h].call # NoCall
       /\ req[h] = <<handle[h].call>> /\ conn[h].out = NoReply /\ resp[h] = <<>>
    \/ /\ handle[h].call # NoCall
       /\ req[h] = <<>> /\ Answers(conn[h].out, handle[h].call) /\ resp[h] = <<>>
    \/ /\ handle[h].call # NoCall
       /\ req[h] = <<>> /\ conn[h].out = NoReply
       /\ Len(resp[h]) = 1 /\ Answers(resp[h][1], handle[h].call)

\* A thread that returned left nothing behind it.
ThreadInv(h) == ~conn[h].alive => req[h] = <<>> /\ conn[h].out = NoReply

\* Every piece of work that is somewhere was admitted, and is nowhere else;
\* on a closed socket, too.
Mine(h) == InHand(h) \cup Wired(h) \cup Stolen(h)

PlaceInv(h) ==
  /\ Mine(h) \subseteq work.admitted
  /\ Mine(h) \cap ToSet(pending) = {}
  /\ InHand(h) \cap (Wired(h) \cup Stolen(h)) = {}
  /\ Wired(h) \cap Stolen(h) = {}
  /\ \A i, j \in OnWire(h) : i # j => resp[h][i].data # resp[h][j].data
  /\ IsInjective(work.received[h])

PendingInv == IsInjective(pending) /\ ToSet(pending) \subseteq work.admitted

Disjoint == \A g, h \in Handles : g # h => Mine(g) \cap Mine(h) = {}

WorkerInv ==
  /\ LinkType /\ WorkType /\ TicketInv /\ PendingInv /\ Disjoint
  /\ \A h \in Handles : /\ FreshInv(h) /\ CallInv(h) /\ InStepInv(h) /\ ThreadInv(h)
                        /\ AstrayInv(h) /\ PlaceInv(h)
  /\ AdmissionTruthful /\ AnswerOwed

-----------------------------------------------------------------------------
(* What the steps do *)

\* A step of one connection leaves the others alone.
Others(h) ==
  \A g \in Handles : g # h =>
    /\ handle'[g] = handle[g] /\ req'[g] = req[g] /\ resp'[g] = resp[g]
    /\ conn'[g] = conn[g] /\ work'.received[g] = work.received[g]

\* A call begins.
Begins(h) ==
  \E m \in Requests :
    /\ handle[h].open /\ handle[h].call = NoCall
    /\ handle'[h].open /\ handle'[h].call = m /\ handle'[h].late = handle[h].late
    /\ handle'[h].astray = handle[h].astray
    /\ req'[h] = IF conn[h].alive THEN Append(req[h], m) ELSE req[h]
    /\ UNCHANGED <<resp, conn, pending, died>>
    /\ work'.admitted = work.admitted /\ work'.outcome = work.outcome
    /\ work'.received = work.received /\ work'.taken = work.taken
    /\ IF m.kind = "enqueue"
         THEN /\ m.ticket = work.issued + 1 /\ work'.issued = work.issued + 1
              /\ work.issued < MaxWork
              /\ work'.producer = [work.producer EXCEPT ![m.ticket] = h]
         ELSE work'.issued = work.issued /\ work'.producer = work.producer

\* A call returns what it read, which is k for work it stole and o for the
\* outcome of an enqueue_fragment.
Finishes(h, late, o, k) ==
  /\ handle[h].call # NoCall
  /\ handle'[h].call = NoCall /\ handle'[h].late = (handle[h].late \/ late)
  /\ handle'[h].astray => handle'[h].late
  /\ handle'[h].open => handle[h].open
  /\ handle'[h].open = handle[h].open \/ handle[h].call.kind = "graph"
  /\ UNCHANGED <<req, conn, pending, died>>
  /\ work'.issued = work.issued /\ work'.admitted = work.admitted
  /\ work'.producer = work.producer /\ work'.taken = work.taken
  /\ work'.outcome = IF handle[h].call.kind = "enqueue"
                       THEN [work.outcome EXCEPT ![handle[h].call.ticket] = o]
                       ELSE work.outcome
  /\ work'.received[h] = IF k = NoWork THEN work.received[h] ELSE Append(work.received[h], k)

\* The thread takes a request and holds the answer r.
Serves(h, r) ==
  /\ conn[h].alive /\ conn[h].out = NoReply /\ req[h] # <<>>
  /\ r.kind = Head(req[h]).kind
  /\ req'[h] = Tail(req[h])
  /\ conn'[h].alive /\ conn'[h].out = r
  /\ UNCHANGED <<handle, resp, died>>

LEMMA NoCallKind == NoCall.kind = "none" /\ NoCall.ticket = 0 /\ "none" \notin Kinds
                    /\ NoReply.kind = "none" /\ NoReply.data = 0 /\ ~NoReply.last
  BY DEF NoCall, Request, Kinds, NoReply, Reply, NoWork

LEMMA CallEffect ==
  ASSUME LinkType, WorkType, NEW h \in Handles, NEW kind \in Used[h],
         NEW valid \in Payloads(kind), Call(h, kind, valid)
  PROVE  Begins(h) /\ Others(h) /\ LinkType' /\ WorkType'
  <1> DEFINE k == IF kind = "enqueue" THEN work.issued + 1 ELSE NoWork
             m == Request(kind, valid, k)
  <1>1. kind \in Kinds /\ valid \in BOOLEAN
    BY UsedAssumption DEF Kinds, Payloads
  <1>2. k \in 0 .. MaxWork /\ (kind = "enqueue" => k = work.issued + 1 /\ work.issued < MaxWork
                               /\ k \in Tickets /\ k # NoWork)
    BY BoundsAssumption DEF Call, WorkType, NoWork, Tickets
  <1>3. m \in Requests /\ m.kind = kind /\ m.ticket = k
    BY <1>1, <1>2 DEF Request, Requests
  <1>4. /\ handle[h].open /\ handle[h].call = NoCall
        /\ work' = IF k = NoWork THEN work
                   ELSE [work EXCEPT !.issued = k, !.producer[k] = h]
        /\ handle' = [handle EXCEPT ![h].call = m]
        /\ req' = IF conn[h].alive THEN [req EXCEPT ![h] = Append(@, m)] ELSE req
        /\ UNCHANGED <<resp, conn, pending, loaded, died>>
    BY DEF Call, node
  <1> HIDE DEF m
  <1>5. /\ handle'[h].open /\ handle'[h].call = m /\ handle'[h].late = handle[h].late
        /\ handle'[h].astray = handle[h].astray
        /\ \A g \in Handles : g # h => handle'[g] = handle[g]
        /\ handle' \in [Handles -> [open : BOOLEAN, call : Requests \cup {NoCall}, late : BOOLEAN, astray : BOOLEAN]]
    BY <1>3, <1>4 DEF LinkType
  <1>6. /\ req'[h] = IF conn[h].alive THEN Append(req[h], m) ELSE req[h]
        /\ \A g \in Handles : g # h => req'[g] = req[g]
        /\ req' \in [Handles -> Seq(Requests)]
    BY <1>3, <1>4 DEF LinkType
  <1>7. /\ work'.admitted = work.admitted /\ work'.outcome = work.outcome
        /\ work'.received = work.received /\ work'.taken = work.taken
        /\ IF kind = "enqueue"
             THEN /\ work'.issued = k
                  /\ work'.producer = [work.producer EXCEPT ![k] = h]
             ELSE work'.issued = work.issued /\ work'.producer = work.producer
        /\ WorkType'
    <2>1. CASE kind = "enqueue"
      <3>1. k # NoWork
        BY <1>2, <2>1
      <3>2. work' = [work EXCEPT !.issued = k, !.producer[k] = h]
        BY <1>4, <3>1
      <3>3. k \in Tickets /\ k \in 0 .. MaxWork
        BY <1>2, <2>1
      <3> HIDE DEF k
      <3>4. /\ work'.admitted = work.admitted /\ work'.outcome = work.outcome
            /\ work'.received = work.received /\ work'.issued = k /\ work'.taken = work.taken
            /\ work'.producer = [work.producer EXCEPT ![k] = h]
        BY <3>2 DEF WorkType
      <3>5. work' \in [issued : 0 .. MaxWork, admitted : SUBSET Tickets,
                       producer : [Tickets -> Handles \cup {NoWork}],
                       outcome : [Tickets -> Outcomes],
                       taken : [Handles -> SUBSET Tickets],
                       received : [Handles -> Seq(Tickets)]]
        BY <3>2, <3>3 DEF WorkType
      <3> QED BY <1>4, <2>1, <3>4, <3>5 DEF WorkType
    <2>2. CASE kind # "enqueue"
      BY <1>4, <2>2 DEF WorkType
    <2> QED BY <2>1, <2>2
  <1>8. LinkType'
    BY <1>4, <1>5, <1>6 DEF LinkType
  <1> HIDE DEF k
  <1>9. Others(h)
    BY <1>4, <1>5, <1>6, <1>7 DEF Others
  <1>10. Begins(h)
    BY <1>2, <1>3, <1>4, <1>5, <1>6, <1>7 DEF Begins
  <1> QED BY <1>7, <1>8, <1>9, <1>10

\* Giving a call an outcome, or a handle work, changes nothing else.
LEMMA OutcomeEffect ==
  ASSUME WorkType, NEW k \in 0 .. MaxWork, NEW o \in Outcomes,
         work' = [work EXCEPT !.outcome[k] = o], pending' = pending
  PROVE  /\ work'.issued = work.issued /\ work'.admitted = work.admitted
         /\ work'.producer = work.producer /\ work'.received = work.received
         /\ work'.outcome = [work.outcome EXCEPT ![k] = o] /\ work'.taken = work.taken
         /\ WorkType'
  BY DEF WorkType

LEMMA ReceiveEffect ==
  ASSUME WorkType, NEW h \in Handles, NEW k \in Tickets,
         work' = [work EXCEPT !.received[h] = Append(@, k)], pending' = pending
  PROVE  /\ work'.issued = work.issued /\ work'.admitted = work.admitted
         /\ work'.producer = work.producer /\ work'.outcome = work.outcome
         /\ work'.taken = work.taken
         /\ work'.received[h] = Append(work.received[h], k)
         /\ \A g \in Handles : g # h => work'.received[g] = work.received[g]
         /\ WorkType'
  <1>1. work.received[h] \in Seq(Tickets)
    BY DEF WorkType
  <1>2. Append(work.received[h], k) \in Seq(Tickets)
    BY <1>1
  <1> DEFINE s == Append(work.received[h], k)
  <1>3. work' = [work EXCEPT !.received = [work.received EXCEPT ![h] = s]]
    BY DEF WorkType
  <1> HIDE DEF s
  <1>4. s \in Seq(Tickets)
    BY <1>2 DEF s
  <1>5. [work.received EXCEPT ![h] = s] \in [Handles -> Seq(Tickets)]
    BY <1>4 DEF WorkType
  <1> DEFINE rec == [work.received EXCEPT ![h] = s]
  <1>6. rec[h] = s /\ \A g \in Handles : g # h => rec[g] = work.received[g]
    BY DEF WorkType
  <1> HIDE DEF rec
  <1>7. work' = [work EXCEPT !.received = rec] /\ rec \in [Handles -> Seq(Tickets)]
    BY <1>3, <1>5 DEF rec
  <1>8. /\ work'.issued = work.issued /\ work'.admitted = work.admitted
        /\ work'.producer = work.producer /\ work'.outcome = work.outcome
        /\ work'.received = rec /\ work'.taken = work.taken /\ WorkType'
    BY <1>7 DEF WorkType
  <1> QED BY <1>6, <1>8 DEF s

LEMMA ReturnsEffect ==
  ASSUME LinkType, NEW h \in Handles, CallReturns(h)
  PROVE  /\ handle'[h].call = NoCall /\ handle'[h].late = handle[h].late
         /\ handle'[h].open = handle[h].open /\ handle'[h].astray = handle[h].astray
         /\ \A g \in Handles : g # h => handle'[g] = handle[g]
         /\ handle' \in [Handles -> [open : BOOLEAN, call : Requests \cup {NoCall},
                                     late : BOOLEAN, astray : BOOLEAN]]
  BY DEF LinkType, CallReturns

LEMMA FailsEffect ==
  ASSUME LinkType, WorkType, NEW h \in Handles, NEW late \in BOOLEAN, NEW astray \in BOOLEAN,
         CallFails(h, late, astray), astray => late \/ handle[h].late, handle[h].call # NoCall,
         UNCHANGED <<req, conn, node>>
  PROVE  /\ Finishes(h, late, "error", NoWork)
         /\ \A g \in Handles : g # h => /\ handle'[g] = handle[g]
                                        /\ work'.received[g] = work.received[g]
         /\ handle' \in [Handles -> [open : BOOLEAN, call : Requests \cup {NoCall},
                                     late : BOOLEAN, astray : BOOLEAN]]
         /\ WorkType'
  <1> DEFINE m == handle[h].call
  <1>1. m \in Requests
    BY DEF LinkType
  <1>2. /\ handle' = [handle EXCEPT ![h] = [open |-> handle[h].open /\ m.kind # "graph",
                                           call |-> NoCall, late |-> handle[h].late \/ late,
                                           astray |-> astray]]
        /\ work' = IF m.kind = "enqueue" THEN [work EXCEPT !.outcome[m.ticket] = "error"]
                   ELSE work
    BY DEF CallFails
  <1>3. /\ handle'[h].call = NoCall /\ handle'[h].late = (handle[h].late \/ late)
        /\ handle'[h].astray => handle'[h].late
        /\ handle'[h].open => handle[h].open
        /\ handle'[h].open = handle[h].open \/ m.kind = "graph"
        /\ \A g \in Handles : g # h => handle'[g] = handle[g]
        /\ handle' \in [Handles -> [open : BOOLEAN, call : Requests \cup {NoCall},
                                     late : BOOLEAN, astray : BOOLEAN]]
    BY <1>2 DEF LinkType
  <1>4. /\ work'.issued = work.issued /\ work'.admitted = work.admitted
        /\ work'.producer = work.producer /\ work'.received = work.received
        /\ work'.taken = work.taken
        /\ work'.outcome = IF m.kind = "enqueue"
                             THEN [work.outcome EXCEPT ![m.ticket] = "error"]
                             ELSE work.outcome
        /\ WorkType'
    <2>1. CASE m.kind = "enqueue"
      <3>1. m.ticket \in 0 .. MaxWork /\ "error" \in Outcomes /\ pending' = pending
        BY <1>1 DEF Requests, Outcomes, node
      <3> QED BY <1>2, <2>1, <3>1, OutcomeEffect
    <2>2. CASE m.kind # "enqueue"
      BY <1>2, <2>2 DEF WorkType, node
    <2> QED BY <2>1, <2>2
  <1>5. Finishes(h, late, "error", NoWork)
    BY <1>3, <1>4 DEF Finishes, node
  <1> QED BY <1>3, <1>4, <1>5

\* A frame r was read: what the call makes of it.
Reads(h) ==
  \E o \in Outcomes, k \in 0 .. MaxWork :
    LET r == Head(resp[h]) IN
    /\ resp[h] # <<>> /\ resp'[h] = Tail(resp[h])
    /\ Finishes(h, FALSE, o, k)
    /\ k # NoWork => r.kind = "steal" /\ r.data = k
    /\ r.kind = handle[h].call.kind =>
         /\ o = "accepted" => r.data = 1
         /\ o = "full" => r.data = 0
         /\ r.kind = "steal" => k = r.data
         /\ handle'[h].open = handle[h].open \/ r.kind = "enqueue"
    /\ r.kind # handle[h].call.kind => o = "error"
    /\ o # "none"

LEMMA ReturnEffect ==
  ASSUME LinkType, WorkType, NEW h \in Handles, Return(h),
         \A i \in OnWire(h) : resp[h][i].data \in Tickets
  PROVE  Reads(h) /\ Others(h) /\ LinkType' /\ WorkType'
  <1> DEFINE r == Head(resp[h])
             kind == handle[h].call.kind
  <1>1. /\ handle[h].call # NoCall /\ resp[h] # <<>> /\ ~handle[h].astray
        /\ resp' = [resp EXCEPT ![h] = Tail(resp[h])]
        /\ UNCHANGED <<req, conn, pending, loaded, died>>
        /\ UNCHANGED <<req, conn, node>>
    BY DEF Return, node
  <1>2. /\ resp[h] \in Seq(Replies) /\ r \in Replies /\ Tail(resp[h]) \in Seq(Replies)
        /\ handle[h].call \in Requests /\ kind \in Kinds
    BY <1>1 DEF LinkType, Requests
  <1>3. /\ resp'[h] = Tail(resp[h]) /\ \A g \in Handles : g # h => resp'[g] = resp[g]
        /\ resp' \in [Handles -> Seq(Replies)]
    BY <1>1, <1>2 DEF LinkType
  <1>4. r.kind = "steal" => r.data \in 0 .. MaxWork
    <2>1. 1 \in DOMAIN resp[h] /\ r = resp[h][1]
      BY <1>1, <1>2
    <2>2. r.kind = "steal" /\ r.data # NoWork => r.data \in Tickets
      BY <2>1 DEF OnWire
    <2> QED BY <2>2, BoundsAssumption DEF Tickets, NoWork
  <1>5. NoWork \in 0 .. MaxWork /\ FALSE \in BOOLEAN
    BY BoundsAssumption DEF NoWork
  <1> DEFINE Goal ==
        /\ handle' \in [Handles -> [open : BOOLEAN, call : Requests \cup {NoCall},
                                    late : BOOLEAN, astray : BOOLEAN]]
        /\ WorkType'
        /\ \A g \in Handles : g # h => /\ handle'[g] = handle[g]
                                       /\ work'.received[g] = work.received[g]
        /\ \E o \in Outcomes, k \in 0 .. MaxWork :
             /\ Finishes(h, FALSE, o, k)
             /\ k # NoWork => r.kind = "steal" /\ r.data = k
             /\ r.kind = kind => /\ o = "accepted" => r.data = 1
                                 /\ o = "full" => r.data = 0
                                 /\ r.kind = "steal" => k = r.data
                                 /\ handle'[h].open = handle[h].open \/ r.kind = "enqueue"
             /\ r.kind # kind => o = "error"
             /\ o # "none"
  <1> SUFFICES Goal
    BY <1>1, <1>2, <1>3 DEF Reads, Others, LinkType
  <1> HIDE DEF r, Goal
  <1>6. ASSUME CallFails(h, FALSE, FALSE), r.kind # kind \/ r.kind = "enqueue"
        PROVE  Goal
    <2>1. /\ Finishes(h, FALSE, "error", NoWork)
          /\ \A g \in Handles : g # h => /\ handle'[g] = handle[g]
                                         /\ work'.received[g] = work.received[g]
          /\ handle' \in [Handles -> [open : BOOLEAN, call : Requests \cup {NoCall},
                                      late : BOOLEAN, astray : BOOLEAN]]
          /\ WorkType'
      BY <1>1, <1>5, <1>6, FailsEffect
    <2>2. "error" \in Outcomes
      BY DEF Outcomes
    <2> QED BY <1>5, <1>6, <2>1, <2>2 DEF Goal
  <1>7. ASSUME CallReturns(h), NEW o \in Outcomes \ {"none"}, NEW k \in 0 .. MaxWork,
               o \in {"accepted", "full"} => kind = "enqueue" /\ r.kind = "enqueue",
               o = "accepted" => r.data = 1, o = "full" => r.data = 0,
               k # NoWork => r.kind = "steal" /\ r.data = k,
               r.kind = kind /\ r.kind = "steal" => k = r.data,
               work'.issued = work.issued, work'.admitted = work.admitted,
               work'.producer = work.producer, work'.taken = work.taken,
               work'.outcome = IF kind = "enqueue"
                       THEN [work.outcome EXCEPT ![handle[h].call.ticket] = o]
                       ELSE work.outcome,
               work'.received[h] = IF k = NoWork THEN work.received[h]
                                   ELSE Append(work.received[h], k),
               \A g \in Handles : g # h => work'.received[g] = work.received[g],
               WorkType'
        PROVE  Goal
    <2>1. /\ handle'[h].call = NoCall /\ handle'[h].late = handle[h].late
          /\ handle'[h].open = handle[h].open /\ handle'[h].astray = handle[h].astray
          /\ \A g \in Handles : g # h => handle'[g] = handle[g]
          /\ handle' \in [Handles -> [open : BOOLEAN, call : Requests \cup {NoCall},
                                      late : BOOLEAN, astray : BOOLEAN]]
      BY <1>7, ReturnsEffect
    <2>2. handle'[h].late = (handle[h].late \/ FALSE)
      BY <2>1 DEF LinkType
    <2>3. Finishes(h, FALSE, o, k)
      BY <1>1, <1>7, <2>1, <2>2 DEF Finishes
    <2>4. r.kind # kind => o = "error"
      BY <1>7 DEF Outcomes
    <2> QED BY <1>7, <2>1, <2>3, <2>4 DEF Goal
  <1>8. CASE kind = "enqueue" /\ EnqueueReturns(h, r)
    <2>1. CASE ~(r.kind = "enqueue" /\ r.data \in {0, 1})
      BY <1>6, <1>8, <2>1 DEF EnqueueReturns
    <2>2. CASE r.kind = "enqueue" /\ r.data \in {0, 1}
      <3> DEFINE o == IF r.data = 1 THEN "accepted" ELSE "full"
      <3>1. CallReturns(h) /\ work' = [work EXCEPT !.outcome[handle[h].call.ticket] = o]
        BY <1>8, <2>2 DEF EnqueueReturns
      <3>2. o \in Outcomes \ {"none"} /\ (o = "accepted" => r.data = 1)
            /\ (o = "full" => r.data = 0)
        BY <2>2 DEF Outcomes
      <3> HIDE DEF o
      <3>3. handle[h].call.ticket \in 0 .. MaxWork
        BY <1>2 DEF Requests
      <3>4. /\ work'.issued = work.issued /\ work'.admitted = work.admitted
            /\ work'.producer = work.producer /\ work'.received = work.received
            /\ work'.outcome = [work.outcome EXCEPT ![handle[h].call.ticket] = o]
            /\ WorkType'
        BY <1>1, <3>1, <3>2, <3>3, OutcomeEffect
      <3> QED BY <1>5, <1>7, <1>8, <2>2, <3>1, <3>2, <3>4
    <2> QED BY <2>1, <2>2
  <1>9. CASE kind = "steal" /\ StealReturns(h, r)
    <2>1. CASE r.kind # "steal"
      BY <1>6, <1>9, <2>1 DEF StealReturns
    <2>2. CASE r.kind = "steal"
      <3>1. /\ CallReturns(h)
            /\ work' = IF r.data = NoWork THEN work
                       ELSE [work EXCEPT !.received[h] = Append(@, r.data)]
        BY <1>9, <2>2 DEF StealReturns
      <3>2. r.data \in 0 .. MaxWork /\ (r.data # NoWork => r.data \in Tickets)
        BY <1>4, <2>2, BoundsAssumption DEF NoWork, Tickets
      <3>3. /\ work'.issued = work.issued /\ work'.admitted = work.admitted
            /\ work'.producer = work.producer /\ work'.outcome = work.outcome
            /\ work'.received[h] = IF r.data = NoWork THEN work.received[h]
                                   ELSE Append(work.received[h], r.data)
            /\ \A g \in Handles : g # h => work'.received[g] = work.received[g]
            /\ WorkType'
        <4>1. CASE r.data = NoWork
          BY <1>1, <3>1, <4>1 DEF WorkType
        <4>2. CASE r.data # NoWork
          BY <1>1, <3>1, <3>2, <4>2, ReceiveEffect
        <4> QED BY <4>1, <4>2
      <3>4. "error" \in Outcomes \ {"none"} /\ kind # "enqueue"
        BY <1>9 DEF Outcomes
      <3> QED BY <1>7, <1>9, <2>2, <3>1, <3>2, <3>3, <3>4
    <2> QED BY <2>1, <2>2
  <1>10. CASE /\ kind \in Kinds \ {"enqueue", "steal"} /\ r.kind = kind
              /\ CallReturns(h) /\ UNCHANGED work
    <2>1. "error" \in Outcomes \ {"none"} /\ kind # "enqueue" /\ kind # "steal"
      BY <1>10 DEF Outcomes
    <2>2. WorkType'
      BY <1>1, <1>10 DEF WorkType
    <2> QED BY <1>5, <1>7, <1>10, <2>1, <2>2
  <1>11. CASE kind \in Kinds \ {"enqueue", "steal"} /\ r.kind # kind /\ CallFails(h, FALSE, FALSE)
    BY <1>6, <1>11
  <1> QED BY <1>8, <1>9, <1>10, <1>11 DEF Return, r

\* A call that fails without a frame.
GivesUp(h) ==
  \E late \in BOOLEAN :
    /\ Finishes(h, late, "error", NoWork)
    /\ UNCHANGED resp
    /\ late \/ (~conn[h].alive /\ resp[h] = <<>>)

LEMMA GiveUpEffect ==
  ASSUME LinkType, WorkType, NEW h \in Handles, AstrayInv(h),
         Disconnected(h) \/ (TimedOut(h) /\ UNCHANGED resp)
  PROVE  GivesUp(h) /\ Others(h) /\ LinkType' /\ WorkType'
  <1>1. PICK late \in BOOLEAN, astray \in BOOLEAN :
               /\ CallFails(h, late, astray) /\ (astray => late \/ handle[h].late)
               /\ late \/ (~conn[h].alive /\ resp[h] = <<>>)
    <2>1. handle[h].astray \in BOOLEAN
      BY DEF LinkType
    <2> QED BY <2>1 DEF Disconnected, TimedOut, AstrayInv
  <1>2. handle[h].call # NoCall /\ UNCHANGED <<req, conn, node>> /\ UNCHANGED <<req, resp, conn>>
    BY DEF Disconnected, TimedOut, net
  <1>3. /\ Finishes(h, late, "error", NoWork)
        /\ \A g \in Handles : g # h => /\ handle'[g] = handle[g]
                                       /\ work'.received[g] = work.received[g]
        /\ handle' \in [Handles -> [open : BOOLEAN, call : Requests \cup {NoCall},
                                    late : BOOLEAN, astray : BOOLEAN]]
        /\ WorkType'
    BY <1>1, <1>2, FailsEffect
  <1>4. LinkType' /\ Others(h)
    BY <1>2, <1>3 DEF LinkType, Others
  <1> QED BY <1>1, <1>2, <1>3, <1>4 DEF GivesUp

\* A call that leaves the stream out of step, or reads from one that is; frames
\* may go with it.
Suffix(t, s) == \E n \in 0 .. Len(s) : t = SubSeq(s, n + 1, Len(s))

Strays(h) ==
  /\ Suffix(resp'[h], resp[h])
  /\ \E o \in Outcomes \ {"none"} : Finishes(h, TRUE, o, NoWork)

Stalls(h) ==
  /\ Suffix(resp'[h], resp[h]) /\ handle[h].astray
  /\ UNCHANGED <<handle, req, conn, pending, died, work>>

LEMMA SuffixOf ==
  ASSUME NEW S, NEW s \in Seq(S), NEW n \in 0 .. Len(s)
  PROVE  LET t == SubSeq(s, n + 1, Len(s)) IN
           /\ t \in Seq(S) /\ DOMAIN t = 1 .. Len(s) - n
           /\ \A i \in 1 .. Len(s) - n : t[i] = s[i + n]
  OBVIOUS

LEMMA TailSuffix ==
  ASSUME NEW S, NEW s \in Seq(S), s # <<>>
  PROVE  Suffix(Tail(s), s)
  <1>1. 1 \in 0 .. Len(s)
    OBVIOUS
  <1>2. Tail(s) = SubSeq(s, 1 + 1, Len(s))
    OBVIOUS
  <1> QED BY <1>1, <1>2 DEF Suffix

LEMMA StrayEffect ==
  ASSUME LinkType, WorkType, NEW h \in Handles, AstrayInv(h),
         ReceiveFails(h) \/ AstrayRead(h) \/ TimedOut(h), ~(TimedOut(h) /\ UNCHANGED resp)
  PROVE  (Strays(h) \/ Stalls(h)) /\ Others(h) /\ LinkType' /\ WorkType'
  <1>1. handle[h].call # NoCall /\ UNCHANGED <<req, conn, node>>
    BY DEF ReceiveFails, AstrayRead, TimedOut
  <1>2. resp[h] \in Seq(Replies) /\ handle[h].call \in Requests
    BY <1>1 DEF LinkType
  <1>3. \E t : Suffix(t, resp[h]) /\ t \in Seq(Replies) /\ resp' = [resp EXCEPT ![h] = t]
    <2>1. CASE AstrayRead(h)
      <3>1. PICK n \in 0 .. Len(resp[h]) :
              resp' = [resp EXCEPT ![h] = SubSeq(resp[h], n + 1, Len(resp[h]))]
        BY <2>1 DEF AstrayRead
      <3>2. SubSeq(resp[h], n + 1, Len(resp[h])) \in Seq(Replies)
        BY <1>2, SuffixOf
      <3> QED BY <3>1, <3>2 DEF Suffix
    <2>2. CASE ~AstrayRead(h)
      <3>1. resp[h] # <<>> /\ resp' = [resp EXCEPT ![h] = Tail(resp[h])]
        BY <2>2 DEF ReceiveFails, TimedOut
      <3>2. Tail(resp[h]) \in Seq(Replies)
        BY <1>2, <3>1
      <3> QED BY <1>2, <3>1, <3>2, TailSuffix
    <2> QED BY <2>1, <2>2
  <1>4. /\ Suffix(resp'[h], resp[h]) /\ \A g \in Handles : g # h => resp'[g] = resp[g]
        /\ resp' \in [Handles -> Seq(Replies)]
    <2>1. PICK t : Suffix(t, resp[h]) /\ t \in Seq(Replies) /\ resp' = [resp EXCEPT ![h] = t]
      BY <1>3
    <2>2. resp'[h] = t /\ \A g \in Handles : g # h => resp'[g] = resp[g]
      BY <2>1 DEF LinkType
    <2> QED BY <2>1, <2>2 DEF LinkType
  <1> DEFINE Goal ==
        /\ \/ \E o \in Outcomes \ {"none"} : Finishes(h, TRUE, o, NoWork)
           \/ handle[h].astray /\ UNCHANGED <<handle, work>>
        /\ \A g \in Handles : g # h => /\ handle'[g] = handle[g]
                                       /\ work'.received[g] = work.received[g]
        /\ handle' \in [Handles -> [open : BOOLEAN, call : Requests \cup {NoCall},
                                    late : BOOLEAN, astray : BOOLEAN]]
        /\ WorkType'
  <1>5. ASSUME NEW astray \in BOOLEAN, CallFails(h, TRUE, astray) PROVE Goal
    <2>1. TRUE \in BOOLEAN /\ (astray => TRUE \/ handle[h].late)
      OBVIOUS
    <2>2. "error" \in Outcomes \ {"none"}
      BY DEF Outcomes
    <2>3. /\ Finishes(h, TRUE, "error", NoWork)
          /\ \A g \in Handles : g # h => /\ handle'[g] = handle[g]
                                         /\ work'.received[g] = work.received[g]
          /\ handle' \in [Handles -> [open : BOOLEAN, call : Requests \cup {NoCall},
                                      late : BOOLEAN, astray : BOOLEAN]]
          /\ WorkType'
      BY <1>1, <1>5, <2>1, FailsEffect
    <2> QED BY <2>2, <2>3
  <1>6. ASSUME NEW astray \in BOOLEAN, NEW o \in {"accepted", "full"}, handle[h].astray,
               handle' = [handle EXCEPT ![h].call = NoCall, ![h].astray = astray],
               work' = IF handle[h].call.kind # "enqueue" THEN work
                       ELSE [work EXCEPT !.outcome[handle[h].call.ticket] = o]
        PROVE  Goal
    <2>1. /\ handle'[h].call = NoCall /\ handle'[h].late = (handle[h].late \/ TRUE)
          /\ handle'[h].open = handle[h].open
          /\ \A g \in Handles : g # h => handle'[g] = handle[g]
          /\ handle' \in [Handles -> [open : BOOLEAN, call : Requests \cup {NoCall},
                                      late : BOOLEAN, astray : BOOLEAN]]
      <3>1. handle[h].late
        BY <1>6 DEF AstrayInv
      <3> QED BY <1>6, <3>1 DEF LinkType
    <2>2. /\ work'.issued = work.issued /\ work'.admitted = work.admitted
          /\ work'.producer = work.producer /\ work'.received = work.received
          /\ work'.taken = work.taken
          /\ work'.outcome = IF handle[h].call.kind = "enqueue"
                               THEN [work.outcome EXCEPT ![handle[h].call.ticket] = o]
                               ELSE work.outcome
          /\ WorkType'
      <3>1. CASE handle[h].call.kind = "enqueue"
        <4>1. handle[h].call.ticket \in 0 .. MaxWork /\ o \in Outcomes /\ pending' = pending
          BY <1>1, <1>2 DEF Requests, Outcomes, node
        <4>2. work' = [work EXCEPT !.outcome[handle[h].call.ticket] = o]
          BY <1>6, <3>1
        <4> QED BY <3>1, <4>1, <4>2, OutcomeEffect
      <3>2. CASE handle[h].call.kind # "enqueue"
        BY <1>1, <1>6, <3>2 DEF WorkType, node
      <3> QED BY <3>1, <3>2
    <2>3. Finishes(h, TRUE, o, NoWork)
      BY <1>1, <2>1, <2>2 DEF Finishes, node
    <2>4. o \in Outcomes \ {"none"}
      BY DEF Outcomes
    <2> QED BY <2>1, <2>2, <2>3, <2>4
  <1>7. ASSUME handle[h].astray, UNCHANGED <<handle, work>> PROVE Goal
    <2>1. pending' = pending
      BY <1>1 DEF node
    <2>2. WorkType'
      BY <1>7, <2>1 DEF WorkType
    <2> QED BY <1>7, <2>2 DEF LinkType
  <1> HIDE DEF Goal
  <1>8. Goal
    <2>1. CASE AstrayRead(h)
      <3>1. /\ handle[h].astray
            /\ \/ \E astray \in BOOLEAN : CallFails(h, TRUE, astray)
               \/ \E astray \in BOOLEAN, o \in {"accepted", "full"} :
                    /\ handle' = [handle EXCEPT ![h].call = NoCall, ![h].astray = astray]
                    /\ work' = IF handle[h].call.kind # "enqueue" THEN work
                               ELSE [work EXCEPT !.outcome[handle[h].call.ticket] = o]
               \/ UNCHANGED <<handle, work>>
        BY <2>1 DEF AstrayRead
      <3> QED BY <1>5, <1>6, <1>7, <3>1
    <2>2. CASE ~AstrayRead(h)
      <3>1. CallFails(h, TRUE, TRUE) /\ TRUE \in BOOLEAN
        BY <2>2 DEF ReceiveFails, TimedOut
      <3> QED BY <1>5, <3>1
    <2> QED BY <2>1, <2>2
  <1>9. LinkType' /\ WorkType' /\ Others(h)
    BY <1>1, <1>4, <1>8 DEF Goal, LinkType, Others
  <1>10. Strays(h) \/ Stalls(h)
    BY <1>1, <1>4, <1>8 DEF Goal, Strays, Stalls, node
  <1> QED BY <1>9, <1>10

\* What serving a request does to the shared queue.
Admits(h, r) ==
  LET m == Head(req[h]) IN
  /\ m.kind = "enqueue" /\ r.data = 1
  /\ pending' = Append(pending, m.ticket)
  /\ work' = [work EXCEPT !.admitted = @ \cup {m.ticket}]

Pops(h, r) ==
  /\ r.kind = "steal" /\ pending # <<>> /\ r.data = Head(pending)
  /\ pending' = Tail(pending)
  /\ work' = [work EXCEPT !.taken[h] = @ \cup {r.data}]

Ignores(r) ==
  /\ pending' = pending /\ work' = work
  /\ r.kind = "enqueue" => r.data # 1
  /\ r.kind = "steal" => r.data = NoWork

LEMMA PopEffect ==
  ASSUME WorkType, NEW h \in Handles, NEW r, Pops(h, r)
  PROVE  /\ work'.issued = work.issued /\ work'.admitted = work.admitted
         /\ work'.producer = work.producer /\ work'.outcome = work.outcome
         /\ work'.received = work.received
         /\ work'.taken = [work.taken EXCEPT ![h] = @ \cup {r.data}]
         /\ r.data \in Tickets /\ WorkType'
  <1>1. r.data \in Tickets /\ pending' \in Seq(Tickets)
    <2>1. pending \in Seq(Tickets) /\ pending # <<>>
      BY DEF WorkType, Pops
    <2> QED BY <2>1 DEF Pops
  <1> DEFINE k == r.data
  <1>2. work' = [work EXCEPT !.taken[h] = @ \cup {k}] /\ k \in Tickets
    BY <1>1 DEF Pops
  <1> HIDE DEF k
  <1>3. /\ work'.issued = work.issued /\ work'.admitted = work.admitted
        /\ work'.producer = work.producer /\ work'.outcome = work.outcome
        /\ work'.received = work.received
        /\ work'.taken = [work.taken EXCEPT ![h] = @ \cup {k}]
    BY <1>2 DEF WorkType
  <1>4. WorkType'
    BY <1>1, <1>2 DEF WorkType
  <1> QED BY <1>1, <1>3, <1>4 DEF k

LEMMA ServeFrame ==
  ASSUME LinkType, WorkType, NEW h \in Handles, NEW r \in Replies, NEW kinds, Take(h, kinds),
         r.kind = Head(req[h]).kind, conn' = [conn EXCEPT ![h].out = r],
         work'.received = work.received
  PROVE  Serves(h, r) /\ Others(h) /\ LinkType'
  <1>1. /\ conn[h].alive /\ conn[h].out = NoReply /\ req[h] # <<>>
        /\ req' = [req EXCEPT ![h] = Tail(req[h])]
        /\ UNCHANGED <<handle, resp, died>>
    BY DEF Take
  <1>2. req[h] \in Seq(Requests) /\ Tail(req[h]) \in Seq(Requests)
    BY <1>1 DEF LinkType
  <1>3. /\ req'[h] = Tail(req[h]) /\ \A g \in Handles : g # h => req'[g] = req[g]
        /\ req' \in [Handles -> Seq(Requests)]
    BY <1>1, <1>2 DEF LinkType
  <1>4. /\ conn'[h].out = r /\ conn'[h].alive = conn[h].alive
        /\ \A g \in Handles : g # h => conn'[g] = conn[g]
        /\ conn' \in [Handles -> [alive : BOOLEAN, out : Replies \cup {NoReply}]]
    BY DEF LinkType
  <1>5. LinkType'
    BY <1>1, <1>3, <1>4 DEF LinkType
  <1>6. Others(h)
    BY <1>1, <1>3, <1>4 DEF Others
  <1>7. Serves(h, r)
    BY <1>1, <1>3, <1>4 DEF Serves
  <1> QED BY <1>5, <1>6, <1>7

ServesOne(h) == HandleEnqueue(h) \/ HandleSteal(h) \/ HandleStateless(h) \/ HandleLoad(h)

LEMMA ServeEffect ==
  ASSUME LinkType, WorkType, NEW h \in Handles, FreshInv(h), ServesOne(h)
  PROVE  /\ \E r \in Replies : Serves(h, r) /\ (Admits(h, r) \/ Pops(h, r) \/ Ignores(r))
         /\ Others(h) /\ LinkType' /\ WorkType'
  <1> DEFINE m == Head(req[h])
  <1>1. req[h] # <<>>
    BY DEF ServesOne, HandleEnqueue, HandleSteal, HandleStateless, HandleLoad, Take
  <1>2. /\ m \in Requests /\ 1 \in DOMAIN req[h] /\ m = req[h][1]
        /\ m.kind \in Kinds /\ m.valid \in BOOLEAN
    <2>1. req[h] \in Seq(Requests)
      BY DEF LinkType
    <2>2. m \in Requests /\ 1 \in DOMAIN req[h] /\ m = req[h][1]
      BY <1>1, <2>1
    <2> HIDE DEF m
    <2> QED BY <2>2 DEF Requests
  <1>3. m.kind = "enqueue" => m.ticket \in Tickets
    <2>1. m.kind = "enqueue" => m.ticket \in 1 .. work.issued
      BY <1>2 DEF FreshInv
    <2>2. 1 .. work.issued \subseteq Tickets
      BY BoundsAssumption DEF WorkType, Tickets
    <2> QED BY <2>1, <2>2
  <1> HIDE DEF m
  <1>4. ASSUME NEW kinds, Take(h, kinds), NEW d \in Nat, NEW last \in BOOLEAN,
               Answer(h, m.kind, d, last),
               LET r == Reply(m.kind, d, last) IN Admits(h, r) \/ Pops(h, r) \/ Ignores(r)
        PROVE  /\ \E r \in Replies : Serves(h, r) /\ (Admits(h, r) \/ Pops(h, r) \/ Ignores(r))
               /\ Others(h) /\ LinkType' /\ WorkType'
    <2> DEFINE r == Reply(m.kind, d, last)
    <2>1. r \in Replies /\ r.kind = m.kind /\ r.data = d
      BY <1>2 DEF Reply, Replies
    <2>2. conn' = [conn EXCEPT ![h].out = r]
      BY <1>4 DEF Answer
    <2>3. Admits(h, r) \/ Pops(h, r) \/ Ignores(r)
      BY <1>4
    <2> HIDE DEF r
    <2>4. work'.received = work.received /\ WorkType'
      <3>1. CASE Admits(h, r)
        <4>1. m.ticket \in Tickets /\ pending' = Append(pending, m.ticket)
              /\ work' = [work EXCEPT !.admitted = @ \cup {m.ticket}]
          BY <1>3, <3>1 DEF Admits, m
        <4>2. pending' \in Seq(Tickets)
          BY <4>1 DEF WorkType
        <4>3. work.admitted \cup {m.ticket} \in SUBSET Tickets
          BY <4>1 DEF WorkType
        <4> QED BY <4>1, <4>2, <4>3 DEF WorkType
      <3>2. CASE Pops(h, r)
        BY <3>2, PopEffect
      <3>3. CASE Ignores(r)
        BY <3>3 DEF Ignores, WorkType
      <3> QED BY <2>3, <3>1, <3>2, <3>3
    <2>5. Serves(h, r) /\ Others(h) /\ LinkType'
      BY <1>4, <2>1, <2>2, <2>4, ServeFrame DEF m
    <2> QED BY <2>1, <2>3, <2>4, <2>5
  <1>5. CASE HandleEnqueue(h)
    <2> DEFINE fits == m.valid /\ Len(pending) < Capacity
               d == IF ~m.valid THEN 2 ELSE IF fits THEN 1 ELSE 0
    <2>1. /\ Take(h, {"enqueue"}) /\ m.kind = "enqueue"
          /\ pending' = IF fits THEN Append(pending, m.ticket) ELSE pending
          /\ work' = IF fits THEN [work EXCEPT !.admitted = @ \cup {m.ticket}] ELSE work
          /\ Answer(h, m.kind, d, FALSE)
      BY <1>5 DEF HandleEnqueue, Take, m
    <2>2. d \in Nat /\ (d = 1 <=> fits) /\ FALSE \in BOOLEAN
      OBVIOUS
    <2>3. Reply(m.kind, d, FALSE).kind = m.kind /\ Reply(m.kind, d, FALSE).data = d
      BY DEF Reply
    <2>4. LET r == Reply(m.kind, d, FALSE) IN Admits(h, r) \/ Pops(h, r) \/ Ignores(r)
      BY <2>1, <2>2, <2>3 DEF Admits, Ignores, m
    <2> HIDE DEF d
    <2> QED BY <1>4, <2>1, <2>2, <2>4
  <1>6. CASE HandleSteal(h)
    <2> DEFINE d == IF pending = <<>> THEN NoWork ELSE Head(pending)
    <2>1. /\ Take(h, {"steal"}) /\ m.kind = "steal"
          /\ work' = IF pending = <<>> THEN work
                     ELSE [work EXCEPT !.taken[h] = @ \cup {Head(pending)}]
          /\ pending' = IF pending = <<>> THEN <<>> ELSE Tail(pending)
          /\ Answer(h, m.kind, d, FALSE)
      BY <1>6 DEF HandleSteal, Take, m
    <2>2. d \in Nat /\ FALSE \in BOOLEAN
      <3>1. pending \in Seq(Tickets)
        BY DEF WorkType
      <3>2. pending # <<>> => Head(pending) \in Tickets
        BY <3>1
      <3>3. Tickets \subseteq Nat /\ NoWork \in Nat
        BY DEF Tickets, NoWork
      <3> QED BY <3>2, <3>3
    <2>3. Reply(m.kind, d, FALSE).kind = m.kind /\ Reply(m.kind, d, FALSE).data = d
      BY DEF Reply
    <2>4. LET r == Reply(m.kind, d, FALSE) IN Admits(h, r) \/ Pops(h, r) \/ Ignores(r)
      BY <2>1, <2>3 DEF Pops, Ignores
    <2> HIDE DEF d
    <2> QED BY <1>4, <2>1, <2>2, <2>4
  <1>7. CASE HandleStateless(h)
    <2> DEFINE d == IF m.kind = "health" THEN Len(pending) ELSE IF m.valid THEN 1 ELSE 0
               last == m.kind = "vector" /\ ~m.valid
    <2>1. /\ Take(h, {"health", "graph", "batch", "vector"})
          /\ m.kind \in {"health", "graph", "batch", "vector"}
          /\ work' = work /\ pending' = pending
          /\ Answer(h, m.kind, d, last)
      BY <1>7 DEF HandleStateless, Take, m
    <2>2. d \in Nat /\ last \in BOOLEAN
      BY DEF WorkType
    <2>3. Reply(m.kind, d, last).kind = m.kind /\ Reply(m.kind, d, last).data = d
      BY DEF Reply
    <2>4. LET r == Reply(m.kind, d, last) IN Admits(h, r) \/ Pops(h, r) \/ Ignores(r)
      BY <2>1, <2>3 DEF Ignores
    <2> HIDE DEF d, last
    <2> QED BY <1>4, <2>1, <2>2, <2>4
  <1>8. CASE HandleLoad(h)
    <2> DEFINE d == IF m.valid THEN 1 ELSE 0
               last == ~m.valid
    <2>1. /\ Take(h, {"load"}) /\ m.kind = "load"
          /\ work' = work /\ pending' = pending
          /\ Answer(h, m.kind, d, last)
      BY <1>8 DEF HandleLoad, Take, m
    <2>2. d \in Nat /\ last \in BOOLEAN
      OBVIOUS
    <2>3. Reply(m.kind, d, last).kind = m.kind /\ Reply(m.kind, d, last).data = d
      BY DEF Reply
    <2>4. LET r == Reply(m.kind, d, last) IN Admits(h, r) \/ Pops(h, r) \/ Ignores(r)
      BY <2>1, <2>3 DEF Ignores
    <2> HIDE DEF d, last
    <2> QED BY <1>4, <2>1, <2>2, <2>4
  <1> QED BY <1>5, <1>6, <1>7, <1>8 DEF ServesOne

\* The reply goes out, or the socket swallows it.
Sends(h) ==
  LET r == conn[h].out IN
  /\ conn[h].alive /\ r # NoReply
  /\ conn'[h].out = NoReply /\ conn'[h].alive = ~r.last
  /\ resp'[h] = IF handle[h].open THEN Append(resp[h], r) ELSE resp[h]
  /\ req'[h] = IF r.last THEN <<>> ELSE req[h]
  /\ UNCHANGED <<handle, pending, died, work>>

Breaks(h) ==
  /\ conn[h].alive /\ ~conn'[h].alive /\ conn'[h].out = NoReply
  /\ req'[h] = <<>> /\ resp'[h] \in {resp[h], <<>>}
  /\ UNCHANGED <<handle, pending, died, work>>

LEMMA SendEffect ==
  ASSUME LinkType, WorkType, NEW h \in Handles, SendReply(h)
  PROVE  Sends(h) /\ Others(h) /\ LinkType' /\ WorkType'
  <1> DEFINE r == conn[h].out
  <1>1. /\ conn[h].alive /\ r # NoReply
        /\ conn' = [conn EXCEPT ![h] = [alive |-> ~r.last, out |-> NoReply]]
        /\ resp' = IF handle[h].open THEN [resp EXCEPT ![h] = Append(@, r)] ELSE resp
        /\ req' = IF r.last THEN [req EXCEPT ![h] = <<>>] ELSE req
        /\ UNCHANGED <<handle, pending, died, work>>
    BY DEF SendReply, node
  <1>2. r \in Replies /\ r.last \in BOOLEAN
    BY <1>1 DEF LinkType, Replies
  <1> HIDE DEF r
  <1>3. /\ conn'[h].out = NoReply /\ conn'[h].alive = ~r.last
        /\ \A g \in Handles : g # h => conn'[g] = conn[g]
        /\ conn' \in [Handles -> [alive : BOOLEAN, out : Replies \cup {NoReply}]]
    BY <1>1, <1>2 DEF LinkType
  <1>4. /\ resp'[h] = IF handle[h].open THEN Append(resp[h], r) ELSE resp[h]
        /\ \A g \in Handles : g # h => resp'[g] = resp[g]
        /\ resp' \in [Handles -> Seq(Replies)]
    BY <1>1, <1>2 DEF LinkType
  <1>5. /\ req'[h] = IF r.last THEN <<>> ELSE req[h]
        /\ \A g \in Handles : g # h => req'[g] = req[g]
        /\ req' \in [Handles -> Seq(Requests)]
    BY <1>1 DEF LinkType
  <1>6. LinkType' /\ WorkType'
    BY <1>1, <1>3, <1>4, <1>5 DEF LinkType, WorkType
  <1>7. Others(h)
    BY <1>1, <1>3, <1>4, <1>5 DEF Others
  <1>8. Sends(h)
    BY <1>1, <1>3, <1>4, <1>5 DEF Sends, r
  <1> QED BY <1>6, <1>7, <1>8

LEMMA BreakEffect ==
  ASSUME LinkType, WorkType, NEW h \in Handles, ConnectionBreaks(h)
  PROVE  Breaks(h) /\ Others(h) /\ LinkType' /\ WorkType'
  <1>1. /\ conn[h].alive
        /\ conn' = [conn EXCEPT ![h] = [alive |-> FALSE, out |-> NoReply]]
        /\ req' = [req EXCEPT ![h] = <<>>]
        /\ resp' = resp \/ resp' = [resp EXCEPT ![h] = <<>>]
        /\ UNCHANGED <<handle, pending, died, work>>
    BY DEF ConnectionBreaks, node
  <1>2. /\ conn'[h].out = NoReply /\ ~conn'[h].alive
        /\ \A g \in Handles : g # h => conn'[g] = conn[g]
        /\ conn' \in [Handles -> [alive : BOOLEAN, out : Replies \cup {NoReply}]]
    BY <1>1 DEF LinkType
  <1>3. /\ resp'[h] \in {resp[h], <<>>}
        /\ \A g \in Handles : g # h => resp'[g] = resp[g]
        /\ resp' \in [Handles -> Seq(Replies)]
    <2>1. CASE resp' = resp
      BY <2>1 DEF LinkType
    <2>2. CASE resp' = [resp EXCEPT ![h] = <<>>]
      BY <2>2 DEF LinkType
    <2> QED BY <1>1, <2>1, <2>2
  <1>4. /\ req'[h] = <<>> /\ \A g \in Handles : g # h => req'[g] = req[g]
        /\ req' \in [Handles -> Seq(Requests)]
    BY <1>1 DEF LinkType
  <1>5. LinkType' /\ WorkType'
    BY <1>1, <1>2, <1>3, <1>4 DEF LinkType, WorkType
  <1>6. Others(h)
    BY <1>1, <1>2, <1>3, <1>4 DEF Others
  <1>7. Breaks(h)
    BY <1>1, <1>2, <1>3, <1>4 DEF Breaks
  <1> QED BY <1>5, <1>6, <1>7

LEMMA DeathEffect ==
  ASSUME LinkType, WorkType, WorkerDies
  PROVE  /\ LinkType' /\ WorkType' /\ died' /\ pending' = <<>>
         /\ UNCHANGED <<handle, resp, work>>
         /\ \A h \in Handles : ~conn'[h].alive /\ conn'[h].out = NoReply /\ req'[h] = <<>>
  BY DEF WorkerDies, LinkType, WorkType

-----------------------------------------------------------------------------
(* Every step is one of these *)

Moves(h) ==
  \/ Begins(h) \/ Reads(h) \/ GivesUp(h) \/ Strays(h) \/ Stalls(h) \/ Sends(h) \/ Breaks(h)
  \/ \E r \in Replies : Serves(h, r) /\ (Admits(h, r) \/ Pops(h, r) \/ Ignores(r))

LEMMA StepEffect ==
  ASSUME LinkType, WorkType,
         \A h \in Handles : FreshInv(h) /\ AstrayInv(h) /\ PlaceInv(h), [Next]_vars
  PROVE  /\ LinkType' /\ WorkType'
         /\ \/ UNCHANGED vars
            \/ WorkerDies
            \/ \E h \in Handles : Moves(h) /\ Others(h)
  <1>1. ASSUME NEW h \in Handles, \/ \E kind \in Used[h] : \E valid \in Payloads(kind) :
                                         Call(h, kind, valid)
                                  \/ Client(h) \/ Thread(h) \/ ConnectionBreaks(h)
        PROVE  LinkType' /\ WorkType' /\ Moves(h) /\ Others(h)
    <2>1. CASE \E kind \in Used[h] : \E valid \in Payloads(kind) : Call(h, kind, valid)
      BY <2>1, CallEffect DEF Moves
    <2>2. CASE Return(h)
      <3>1. \A i \in OnWire(h) : resp[h][i].data \in Tickets
        BY DEF PlaceInv, Mine, Wired, WorkType
      <3> QED BY <2>2, <3>1, ReturnEffect DEF Moves
    <2>3. CASE Disconnected(h) \/ (TimedOut(h) /\ UNCHANGED resp)
      BY <2>3, GiveUpEffect DEF Moves
    <2>7. CASE /\ ReceiveFails(h) \/ AstrayRead(h) \/ TimedOut(h)
               /\ ~(TimedOut(h) /\ UNCHANGED resp)
      BY <2>7, StrayEffect DEF Moves
    <2>4. CASE ServesOne(h)
      BY <2>4, ServeEffect DEF Moves
    <2>5. CASE SendReply(h)
      BY <2>5, SendEffect DEF Moves
    <2>6. CASE ConnectionBreaks(h)
      BY <2>6, BreakEffect DEF Moves
    <2> QED BY <1>1, <2>1, <2>2, <2>3, <2>4, <2>5, <2>6, <2>7 DEF Client, Thread, ServesOne
  <1>2. CASE UNCHANGED vars
    BY <1>2 DEF vars, net, node, LinkType, WorkType
  <1>3. CASE WorkerDies
    BY <1>3, DeathEffect
  <1> QED BY <1>1, <1>2, <1>3 DEF Next

\* What is known of the tickets of handle g stays so.
Stable(g) ==
  \A k \in 1 .. work.issued :
    /\ k \in 1 .. work'.issued
    /\ work'.producer[k] = work.producer[k]
    /\ work.producer[k] = g =>
         work'.outcome[k] = work.outcome[k] /\ (k \in work'.admitted <=> k \in work.admitted)

\* The ticket at the head of a connection.
LEMMA HeadTicket ==
  ASSUME LinkType, NEW h \in Handles, FreshInv(h), req[h] # <<>>, Head(req[h]).kind = "enqueue"
  PROVE  LET k == Head(req[h]).ticket IN
           k \in 1 .. work.issued /\ work.producer[k] = h /\ k \notin work.admitted
  <1>1. req[h] \in Seq(Requests)
    BY DEF LinkType
  <1>2. 1 \in DOMAIN req[h] /\ Head(req[h]) = req[h][1]
    BY <1>1
  <1> QED BY <1>2 DEF FreshInv

LEMMA OthersStable ==
  ASSUME LinkType, WorkType, TicketInv, NEW h \in Handles, FreshInv(h), CallInv(h), Moves(h),
         NEW g \in Handles, g # h
  PROVE  Stable(g)
  <1>1. work.issued \in 0 .. MaxWork
    BY DEF WorkType
  <1>2. CASE Begins(h)
    <2>1. PICK m \in Requests :
            /\ work'.admitted = work.admitted /\ work'.outcome = work.outcome
            /\ IF m.kind = "enqueue"
                 THEN /\ m.ticket = work.issued + 1 /\ work'.issued = work.issued + 1
                      /\ work'.producer = [work.producer EXCEPT ![m.ticket] = h]
                 ELSE work'.issued = work.issued /\ work'.producer = work.producer
      BY <1>2 DEF Begins
    <2>2. \A k \in 1 .. work.issued : k \in 1 .. work'.issued
      BY <1>1, <2>1, BoundsAssumption
    <2>3. \A k \in 1 .. work.issued : work'.producer[k] = work.producer[k]
      <3>1. \A k \in 1 .. work.issued : k \in Tickets /\ k # work.issued + 1
        BY <1>1, BoundsAssumption DEF Tickets
      <3> QED BY <2>1, <3>1 DEF WorkType
    <2> QED BY <2>1, <2>2, <2>3 DEF Stable
  <1>3. CASE Reads(h) \/ GivesUp(h) \/ Strays(h)
    <2>1. PICK o, late, k : Finishes(h, late, o, k)
      BY <1>3 DEF Reads, GivesUp, Strays
    <2>2. /\ work'.issued = work.issued /\ work'.admitted = work.admitted
          /\ work'.producer = work.producer
          /\ work'.outcome = IF handle[h].call.kind = "enqueue"
                               THEN [work.outcome EXCEPT ![handle[h].call.ticket] = o]
                               ELSE work.outcome
          /\ handle[h].call # NoCall
      BY <2>1 DEF Finishes
    <2>3. handle[h].call.kind = "enqueue" => work.producer[handle[h].call.ticket] = h
      BY <2>2 DEF CallInv
    <2>4. ASSUME NEW j \in 1 .. work.issued, work.producer[j] = g
          PROVE  work'.outcome[j] = work.outcome[j]
      <3>1. j \in Tickets
        BY <1>1, BoundsAssumption DEF Tickets
      <3> QED BY <2>2, <2>3, <2>4, <3>1 DEF WorkType
    <2> QED BY <2>2, <2>4 DEF Stable
  <1>4. CASE Sends(h) \/ Breaks(h) \/ Stalls(h)
    BY <1>4 DEF Sends, Breaks, Stalls, Stable
  <1>5. ASSUME NEW r \in Replies, Serves(h, r), Admits(h, r)
        PROVE  Stable(g)
    <2> DEFINE m == Head(req[h])
    <2>1. work' = [work EXCEPT !.admitted = @ \cup {m.ticket}] /\ m.kind = "enqueue"
          /\ req[h] # <<>>
      BY <1>5 DEF Admits, Serves
    <2>2. work.producer[m.ticket] = h
      BY <2>1, HeadTicket
    <2> HIDE DEF m
    <2>3. /\ work'.issued = work.issued /\ work'.producer = work.producer
          /\ work'.outcome = work.outcome /\ work'.admitted = work.admitted \cup {m.ticket}
      BY <2>1 DEF WorkType
    <2> QED BY <2>2, <2>3 DEF Stable
  <1>6. ASSUME NEW r \in Replies, Pops(h, r) \/ Ignores(r) PROVE Stable(g)
    BY <1>6, PopEffect DEF Ignores, Stable
  <1> QED BY <1>2, <1>3, <1>4, <1>5, <1>6 DEF Moves

OwedInv(h) ==
  handle[h].call # NoCall /\ conn[h].alive /\ ~handle[h].astray
    => req[h] # <<>> \/ conn[h].out # NoReply \/ resp[h] # <<>>

HandleInv(h) ==
  FreshInv(h) /\ CallInv(h) /\ AstrayInv(h) /\ InStepInv(h) /\ ThreadInv(h) /\ OwedInv(h)

LEMMA OthersKept ==
  ASSUME NEW h, Others(h), NEW g \in Handles, g # h, Stable(g), HandleInv(g)
  PROVE  HandleInv(g)'
  <1>1. /\ handle'[g] = handle[g] /\ req'[g] = req[g] /\ resp'[g] = resp[g]
        /\ conn'[g] = conn[g]
    BY DEF Others
  <1>2. FreshInv(g)'
    BY <1>1 DEF HandleInv, FreshInv, Stable
  <1>3. CallInv(g)'
    BY <1>1 DEF HandleInv, CallInv, Stable
  <1>4. \A r : handle[g].call # NoCall /\ Answers(r, handle[g].call) =>
                Answers(r, handle[g].call)'
    BY <1>1 DEF HandleInv, CallInv, Answers, Stable
  <1>5. InStepInv(g)'
    <2>1. CASE handle[g].late
      BY <1>1, <2>1 DEF InStepInv
    <2>2. CASE ~handle[g].late
      BY <1>1, <1>4, <2>2 DEF HandleInv, InStepInv
    <2> QED BY <2>1, <2>2
  <1>6. ThreadInv(g)' /\ OwedInv(g)' /\ AstrayInv(g)'
    BY <1>1 DEF HandleInv, ThreadInv, OwedInv, AstrayInv
  <1> QED BY <1>2, <1>3, <1>5, <1>6 DEF HandleInv

-----------------------------------------------------------------------------
(* The connection that moves *)

LEMMA SeqEnds ==
  ASSUME NEW S, NEW s \in Seq(S)
  PROVE  /\ Len(s) \in Nat /\ DOMAIN s = 1 .. Len(s) /\ (s = <<>> <=> Len(s) = 0)
         /\ \A i \in DOMAIN s : s[i] \in S
         /\ \A x \in S : /\ Append(s, x) # <<>> /\ Len(Append(s, x)) = Len(s) + 1
                         /\ DOMAIN Append(s, x) = 1 .. Len(s) + 1
                         /\ Append(s, x)[Len(s) + 1] = x
                         /\ \A i \in 1 .. Len(s) : Append(s, x)[i] = s[i]
                         /\ Append(<<>>, x) = <<x>>
         /\ s # <<>> => /\ Head(s) = s[1] /\ 1 \in DOMAIN s /\ Tail(s) \in Seq(S)
                       /\ Len(Tail(s)) = Len(s) - 1 /\ DOMAIN Tail(s) = 1 .. Len(s) - 1
                       /\ \A i \in 1 .. Len(s) - 1 : Tail(s)[i] = s[i + 1]
  <1>1. /\ Len(s) \in Nat /\ DOMAIN s = 1 .. Len(s) /\ (s = <<>> <=> Len(s) = 0)
        /\ \A i \in DOMAIN s : s[i] \in S
    OBVIOUS
  <1>2. ASSUME NEW x \in S
        PROVE  /\ Append(s, x) # <<>> /\ Len(Append(s, x)) = Len(s) + 1
               /\ DOMAIN Append(s, x) = 1 .. Len(s) + 1
               /\ Append(s, x)[Len(s) + 1] = x
               /\ \A i \in 1 .. Len(s) : Append(s, x)[i] = s[i]
               /\ Append(<<>>, x) = <<x>>
    OBVIOUS
  <1>3. ASSUME s # <<>>
        PROVE  /\ Head(s) = s[1] /\ 1 \in DOMAIN s /\ Tail(s) \in Seq(S)
               /\ Len(Tail(s)) = Len(s) - 1 /\ DOMAIN Tail(s) = 1 .. Len(s) - 1
               /\ \A i \in 1 .. Len(s) - 1 : Tail(s)[i] = s[i + 1]
    BY <1>3
  <1> QED BY <1>1, <1>2, <1>3

LEMMA RequestIsCall ==
  ASSUME NEW m \in Requests PROVE m # NoCall
  BY NoCallKind DEF Requests

LEMMA ReplyIsReply ==
  ASSUME NEW r \in Replies PROVE r # NoReply
  BY NoCallKind DEF Replies

LEMMA BeginsOwn ==
  ASSUME LinkType, WorkType, TicketInv, NEW h \in Handles, HandleInv(h), Begins(h)
  PROVE  HandleInv(h)'
  <1> USE BoundsAssumption
  <1>1. PICK m \in Requests :
    /\ handle[h].open /\ handle[h].call = NoCall
    /\ handle'[h].open /\ handle'[h].call = m /\ handle'[h].late = handle[h].late
    /\ handle'[h].astray = handle[h].astray
    /\ req'[h] = IF conn[h].alive THEN Append(req[h], m) ELSE req[h]
    /\ UNCHANGED <<resp, conn, pending, died>>
    /\ work'.admitted = work.admitted /\ work'.outcome = work.outcome
    /\ work'.received = work.received /\ work'.taken = work.taken
    /\ IF m.kind = "enqueue"
         THEN /\ m.ticket = work.issued + 1 /\ work'.issued = work.issued + 1
              /\ work.issued < MaxWork
              /\ work'.producer = [work.producer EXCEPT ![m.ticket] = h]
         ELSE work'.issued = work.issued /\ work'.producer = work.producer
    BY DEF Begins
  <1>2. m # NoCall /\ req[h] \in Seq(Requests) /\ work.issued \in 0 .. MaxWork
    BY RequestIsCall DEF LinkType, WorkType
  <1>3. /\ DOMAIN req[h] = 1 .. Len(req[h]) /\ Len(req[h]) \in Nat
        /\ Append(req[h], m) # <<>>
        /\ DOMAIN Append(req[h], m) = 1 .. Len(req[h]) + 1
        /\ Append(req[h], m)[Len(req[h]) + 1] = m
        /\ \A i \in 1 .. Len(req[h]) : Append(req[h], m)[i] = req[h][i]
        /\ Append(<<>>, m) = <<m>>
    BY <1>2, SeqEnds
  <1>4. \A k \in 1 .. work.issued : k \in 1 .. work'.issued /\ work'.producer[k] = work.producer[k]
    <2>1. \A k \in 1 .. work.issued : k \in Tickets /\ k # work.issued + 1
      BY <1>2 DEF Tickets
    <2>2. \A k \in 1 .. work.issued : k \in 1 .. work'.issued
      BY <1>1, <1>2
    <2> QED BY <1>1, <2>1, <2>2 DEF WorkType
  <1>5. m.kind = "enqueue" =>
          /\ m.ticket \in 1 .. work'.issued /\ m.ticket \in Tickets
          /\ m.ticket \notin 1 .. work.issued /\ work'.producer[m.ticket] = h
          /\ m.ticket \notin work.admitted /\ work.outcome[m.ticket] = "none"
    <2>1. ASSUME m.kind = "enqueue"
          PROVE  m.ticket \in 1 .. work'.issued /\ m.ticket \in Tickets
                 /\ m.ticket \notin 1 .. work.issued /\ m.ticket > work.issued
      BY <1>1, <1>2, <2>1 DEF Tickets
    <2>2. ASSUME m.kind = "enqueue"
          PROVE  work'.producer[m.ticket] = h
      BY <1>1, <2>1, <2>2 DEF WorkType
    <2> QED BY <2>1, <2>2 DEF TicketInv
  <1>6. FreshInv(h)'
    <2>1. CASE ~conn[h].alive
      BY <1>1, <1>4, <2>1 DEF HandleInv, FreshInv
    <2>2. CASE conn[h].alive
      <3> DEFINE q == Append(req[h], m)
                 n == Len(req[h])
      <3>1. req'[h] = q /\ DOMAIN q = 1 .. n + 1 /\ q[n + 1] = m /\ n \in Nat
            /\ \A i \in 1 .. n : q[i] = req[h][i]
        BY <1>1, <1>3, <2>2
      <3>2. \A i \in 1 .. n : req[h][i].kind = "enqueue" =>
              /\ req[h][i].ticket \in 1 .. work.issued
              /\ req[h][i].ticket \in 1 .. work'.issued
              /\ work'.producer[req[h][i].ticket] = h
              /\ req[h][i].ticket \notin work'.admitted
              /\ \A j \in 1 .. n :
                   j # i /\ req[h][j].kind = "enqueue" => req[h][j].ticket # req[h][i].ticket
        BY <1>1, <1>3, <1>4 DEF HandleInv, FreshInv
      <3> HIDE DEF q
      <3>3. ASSUME NEW i \in 1 .. n + 1, q[i].kind = "enqueue"
            PROVE  /\ q[i].ticket \in 1 .. work'.issued
                   /\ work'.producer[q[i].ticket] = h
                   /\ q[i].ticket \notin work'.admitted
                   /\ \A j \in 1 .. n + 1 :
                        j # i /\ q[j].kind = "enqueue" => q[j].ticket # q[i].ticket
        <4>1. CASE i = n + 1
          <5>1. work'.admitted = work.admitted
            BY <1>1
          <5>2. q[i] = m /\ m.kind = "enqueue"
            BY <3>1, <3>3, <4>1
          <5>3. \A j \in 1 .. n + 1 : j # i => j \in 1 .. n /\ q[j] = req[h][j]
            BY <3>1, <4>1
          <5> QED BY <1>5, <3>2, <5>1, <5>2, <5>3
        <4>2. CASE i \in 1 .. n
          <5>1. q[i] = req[h][i]
            BY <3>1, <4>2
          <5>2. ASSUME NEW j \in 1 .. n + 1, j # i, q[j].kind = "enqueue"
                PROVE  q[j].ticket # q[i].ticket
            <6>1. CASE j = n + 1
              BY <1>5, <3>1, <3>2, <3>3, <4>2, <5>1, <5>2, <6>1
            <6>2. CASE j \in 1 .. n
              BY <3>1, <3>2, <3>3, <4>2, <5>1, <5>2, <6>2
            <6> QED BY <3>1, <6>1, <6>2
          <5> QED BY <3>2, <3>3, <4>2, <5>1, <5>2
        <4> QED BY <3>1, <4>1, <4>2
      <3> QED BY <3>1, <3>3 DEF FreshInv
    <2> QED BY <2>1, <2>2
  <1>7. CallInv(h)'
    BY <1>1, <1>5 DEF CallInv
  <1>8. InStepInv(h)'
    <2> SUFFICES ASSUME ~handle[h].late PROVE InStepInv(h)'
      BY <1>1 DEF InStepInv
    <2>1. req[h] = <<>> /\ conn[h].out = NoReply /\ resp[h] = <<>>
      BY <1>1 DEF HandleInv, InStepInv
    <2>2. CASE conn[h].alive
      BY <1>1, <1>2, <1>3, <2>1, <2>2 DEF InStepInv
    <2>3. CASE ~conn[h].alive
      BY <1>1, <1>2, <2>1, <2>3 DEF InStepInv
    <2> QED BY <2>2, <2>3
  <1>9. ThreadInv(h)' /\ OwedInv(h)' /\ AstrayInv(h)'
    BY <1>1, <1>3 DEF HandleInv, ThreadInv, OwedInv, AstrayInv
  <1> QED BY <1>6, <1>7, <1>8, <1>9 DEF HandleInv

LEMMA FinishOwn ==
  ASSUME LinkType, WorkType, NEW h \in Handles, HandleInv(h),
         Reads(h) \/ GivesUp(h) \/ Strays(h)
  PROVE  HandleInv(h)'
  <1>1. PICK o, late, k : Finishes(h, late, o, k)
    BY DEF Reads, GivesUp, Strays
  <1>2. /\ handle[h].call # NoCall /\ handle'[h].call = NoCall
        /\ handle'[h].astray => handle'[h].late
        /\ req'[h] = req[h] /\ conn'[h] = conn[h]
        /\ work'.issued = work.issued /\ work'.admitted = work.admitted
        /\ work'.producer = work.producer
    BY <1>1 DEF Finishes
  <1>3. FreshInv(h)' /\ CallInv(h)' /\ ThreadInv(h)' /\ OwedInv(h)' /\ AstrayInv(h)'
    BY <1>2 DEF HandleInv, FreshInv, CallInv, ThreadInv, OwedInv, AstrayInv
  <1>4. ASSUME ~handle'[h].late
        PROVE  ~handle[h].late /\ req[h] = <<>> /\ conn[h].out = NoReply /\ resp'[h] = <<>>
    <2>1. CASE Reads(h)
      <3>1. /\ resp[h] # <<>> /\ resp'[h] = Tail(resp[h])
            /\ ~handle[h].late
        BY <1>4, <2>1 DEF Reads, Finishes
      <3>2. resp[h] \in Seq(Replies)
        BY DEF LinkType
      <3>3. req[h] = <<>> /\ conn[h].out = NoReply /\ Len(resp[h]) = 1
        BY <3>1 DEF HandleInv, InStepInv
      <3>4. Tail(resp[h]) = <<>>
        <4>1. Tail(resp[h]) \in Seq(Replies) /\ Len(Tail(resp[h])) = 0
          BY <3>1, <3>2, <3>3, SeqEnds
        <4> DEFINE t == Tail(resp[h])
        <4>2. t \in Seq(Replies) /\ Len(t) = 0
          BY <4>1
        <4> HIDE DEF t
        <4>3. t = <<>>
          BY <4>2, SeqEnds
        <4> QED BY <4>3 DEF t
      <3> QED BY <3>1, <3>3, <3>4
    <2>2. CASE GivesUp(h)
      <3>1. /\ resp'[h] = <<>> /\ ~conn[h].alive /\ ~handle[h].late
        BY <1>4, <2>2 DEF GivesUp, Finishes
      <3> QED BY <3>1 DEF HandleInv, ThreadInv
    <2>3. CASE Strays(h)
      BY <1>4, <2>3 DEF Strays, Finishes
    <2> QED BY <2>1, <2>2, <2>3
  <1>5. InStepInv(h)'
    BY <1>2, <1>4 DEF InStepInv
  <1> QED BY <1>3, <1>5 DEF HandleInv

LEMMA ServeOwn ==
  ASSUME LinkType, WorkType, NEW h \in Handles, HandleInv(h), NEW r \in Replies, Serves(h, r),
         Admits(h, r) \/ Pops(h, r) \/ Ignores(r)
  PROVE  HandleInv(h)'
  <1> DEFINE m == Head(req[h])
             q == req[h]
             n == Len(q)
  <1>1. /\ conn[h].alive /\ conn[h].out = NoReply /\ q # <<>>
        /\ r.kind = m.kind /\ req'[h] = Tail(q)
        /\ conn'[h].alive /\ conn'[h].out = r
        /\ handle' = handle /\ resp' = resp
    BY DEF Serves
  <1>2. q \in Seq(Requests)
    BY DEF LinkType
  <1>3. /\ n \in Nat /\ n # 0 /\ DOMAIN q = 1 .. n /\ m = q[1] /\ Tail(q) \in Seq(Requests)
        /\ DOMAIN Tail(q) = 1 .. n - 1 /\ \A i \in 1 .. n - 1 : Tail(q)[i] = q[i + 1]
    BY <1>1, <1>2, SeqEnds
  <1>4. /\ work'.issued = work.issued /\ work'.producer = work.producer
        /\ work'.outcome = work.outcome
        /\ IF Admits(h, r) THEN work'.admitted = work.admitted \cup {m.ticket}
                           ELSE work'.admitted = work.admitted
    <2>1. CASE Admits(h, r)
      BY <2>1 DEF Admits, WorkType
    <2>2. CASE ~Admits(h, r) /\ (Pops(h, r) \/ Ignores(r))
      BY <2>2, PopEffect DEF Ignores
    <2> QED BY <2>1, <2>2
  <1>5. Admits(h, r) => m.kind = "enqueue" /\ r.data = 1
    BY DEF Admits
  <1> HIDE DEF m
  <1>6. FreshInv(h)'
    <2> SUFFICES ASSUME NEW i \in 1 .. n - 1, Tail(q)[i].kind = "enqueue"
                 PROVE  /\ Tail(q)[i].ticket \in 1 .. work'.issued
                        /\ work'.producer[Tail(q)[i].ticket] = h
                        /\ Tail(q)[i].ticket \notin work'.admitted
                        /\ \A j \in 1 .. n - 1 : j # i /\ Tail(q)[j].kind = "enqueue" =>
                             Tail(q)[j].ticket # Tail(q)[i].ticket
      <3> DEFINE t == Tail(q)
      <3>1. req'[h] = t /\ DOMAIN t = 1 .. n - 1
        BY <1>1, <1>3
      <3> HIDE DEF t
      <3> QED BY <3>1 DEF FreshInv, t
    <2>1. i + 1 \in 1 .. n /\ Tail(q)[i] = q[i + 1] /\ i + 1 # 1 /\ 1 \in 1 .. n
      BY <1>3
    <2>2. /\ q[i + 1].ticket \in 1 .. work.issued
          /\ work.producer[q[i + 1].ticket] = h
          /\ q[i + 1].ticket \notin work.admitted
          /\ \A j \in 1 .. n : j # i + 1 /\ q[j].kind = "enqueue" =>
               q[j].ticket # q[i + 1].ticket
      BY <1>3, <2>1 DEF HandleInv, FreshInv
    <2>3. m.kind = "enqueue" => q[i + 1].ticket # m.ticket
      BY <1>3, <2>1, <2>2
    <2>4. q[i + 1].ticket \notin work'.admitted
      BY <1>4, <1>5, <2>2, <2>3
    <2>5. \A j \in 1 .. n - 1 : j # i /\ Tail(q)[j].kind = "enqueue" =>
               Tail(q)[j].ticket # Tail(q)[i].ticket
      <3> SUFFICES ASSUME NEW j \in 1 .. n - 1, j # i, Tail(q)[j].kind = "enqueue"
                   PROVE  Tail(q)[j].ticket # Tail(q)[i].ticket
        OBVIOUS
      <3>1. j + 1 \in 1 .. n /\ j + 1 # i + 1 /\ Tail(q)[j] = q[j + 1]
        BY <1>3
      <3> QED BY <2>1, <2>2, <3>1
    <2> QED BY <1>4, <2>1, <2>2, <2>4, <2>5
  <1>7. CallInv(h)'
    BY <1>1, <1>4 DEF HandleInv, CallInv
  <1>8. ThreadInv(h)' /\ OwedInv(h)' /\ AstrayInv(h)'
    BY <1>1, ReplyIsReply DEF HandleInv, AstrayInv, ThreadInv, OwedInv
  <1>9. InStepInv(h)'
    <2> SUFFICES ASSUME ~handle[h].late PROVE InStepInv(h)'
      BY <1>1 DEF InStepInv
    <2>1. handle[h].call # NoCall /\ q = <<handle[h].call>> /\ resp[h] = <<>>
      BY <1>1, ReplyIsReply DEF HandleInv, InStepInv
    <2>2. m = handle[h].call /\ Tail(q) = <<>>
      BY <1>3, <2>1
    <2>3. m.kind = "enqueue" => m.ticket \notin work.admitted
      BY <1>1, HeadTicket DEF HandleInv, m
    <2>4. m.kind = "enqueue" => /\ r.data = 1 => m.ticket \in work'.admitted
                                /\ r.data = 0 => m.ticket \notin work'.admitted
      <3>1. m.kind = "enqueue" => Admits(h, r) \/ (Ignores(r) /\ r.data # 1)
        BY <1>1 DEF Pops, Ignores
      <3> QED BY <1>4, <1>5, <2>3, <3>1
    <2>5. Answers(conn[h].out, handle[h].call)'
      BY <1>1, <2>2, <2>4 DEF Answers
    <2> QED BY <1>1, <2>1, <2>2, <2>5 DEF InStepInv
  <1> QED BY <1>6, <1>7, <1>8, <1>9 DEF HandleInv

LEMMA SendOwn ==
  ASSUME LinkType, WorkType, NEW h \in Handles, HandleInv(h), Sends(h)
  PROVE  HandleInv(h)'
  <1> DEFINE r == conn[h].out
  <1>1. /\ conn[h].alive /\ r # NoReply
        /\ conn'[h].out = NoReply /\ conn'[h].alive = ~r.last
        /\ resp'[h] = IF handle[h].open THEN Append(resp[h], r) ELSE resp[h]
        /\ req'[h] = IF r.last THEN <<>> ELSE req[h]
        /\ handle' = handle /\ work' = work
    BY DEF Sends
  <1>2. r \in Replies /\ resp[h] \in Seq(Replies)
    BY <1>1 DEF LinkType
  <1>3. Append(resp[h], r) # <<>> /\ Append(<<>>, r) = <<r>>
    BY <1>2, SeqEnds
  <1> HIDE DEF r
  <1>4. FreshInv(h)'
    BY <1>1 DEF HandleInv, FreshInv
  <1>5. CallInv(h)'
    BY <1>1 DEF HandleInv, CallInv
  <1>6. handle[h].call # NoCall => handle[h].open
    BY DEF HandleInv, CallInv
  <1>7. ThreadInv(h)' /\ OwedInv(h)' /\ AstrayInv(h)'
    BY <1>1, <1>3, <1>6 DEF HandleInv, AstrayInv, ThreadInv, OwedInv
  <1>8. InStepInv(h)'
    <2> SUFFICES ASSUME ~handle[h].late PROVE InStepInv(h)'
      BY <1>1 DEF InStepInv
    <2>1. /\ handle[h].call # NoCall /\ req[h] = <<>> /\ Answers(r, handle[h].call)
          /\ resp[h] = <<>>
      BY <1>1 DEF HandleInv, InStepInv, r
    <2>2. resp'[h] = <<r>>
      BY <1>1, <1>3, <1>6, <2>1
    <2>3. Len(resp'[h]) = 1 /\ resp'[h][1] = r
      BY <2>2
    <2>4. Answers(resp[h][1], handle[h].call)'
      BY <1>1, <2>1, <2>3 DEF Answers
    <2> QED BY <1>1, <2>1, <2>3, <2>4 DEF InStepInv
  <1> QED BY <1>4, <1>5, <1>7, <1>8 DEF HandleInv

LEMMA BreakOwn ==
  ASSUME LinkType, NEW h \in Handles, HandleInv(h), handle' = handle, work' = work,
         ~conn'[h].alive, conn'[h].out = NoReply, req'[h] = <<>>, resp'[h] \in {resp[h], <<>>}
  PROVE  HandleInv(h)'
  <1>1. FreshInv(h)' /\ CallInv(h)' /\ ThreadInv(h)' /\ OwedInv(h)' /\ AstrayInv(h)'
    BY DEF HandleInv, FreshInv, CallInv, ThreadInv, OwedInv, AstrayInv
  <1>2. InStepInv(h)'
    <2> SUFFICES ASSUME ~handle[h].late PROVE InStepInv(h)'
      BY DEF InStepInv
    <2>1. CASE resp'[h] = <<>>
      BY <2>1 DEF InStepInv
    <2>2. CASE resp'[h] # <<>>
      <3>1. /\ resp'[h] = resp[h] /\ Len(resp[h]) = 1 /\ handle[h].call # NoCall
            /\ Answers(resp[h][1], handle[h].call)
        BY <2>2 DEF HandleInv, InStepInv
      <3>2. Answers(resp[h][1], handle[h].call)'
        BY <3>1 DEF Answers
      <3> QED BY <3>1, <3>2 DEF InStepInv
    <2> QED BY <2>1, <2>2
  <1> QED BY <1>1, <1>2 DEF HandleInv

LEMMA StallOwn ==
  ASSUME NEW h \in Handles, HandleInv(h), Stalls(h)
  PROVE  HandleInv(h)'
  <1>1. /\ handle[h].astray /\ handle[h].late
        /\ UNCHANGED <<handle, req, conn, pending, died, work>>
    BY DEF Stalls, HandleInv, AstrayInv
  <1> QED BY <1>1 DEF HandleInv, FreshInv, CallInv, AstrayInv, InStepInv, ThreadInv, OwedInv

\* Every handle, after every step.
LEMMA HandleStep ==
  ASSUME LinkType, WorkType, TicketInv, \A h \in Handles : HandleInv(h) /\ PlaceInv(h),
         [Next]_vars
  PROVE  \A h \in Handles : HandleInv(h)'
  <1>1. CASE UNCHANGED vars
    BY <1>1 DEF vars, net, HandleInv, FreshInv, CallInv, InStepInv, ThreadInv, OwedInv,
                AstrayInv, Answers
  <1>2. CASE WorkerDies
    BY <1>2, DeathEffect, BreakOwn
  <1>3. ASSUME NEW h \in Handles, Moves(h), Others(h), NEW g \in Handles
        PROVE  HandleInv(g)'
    <2>1. CASE g # h
      <3>1. Stable(g)
        BY <1>3, <2>1, OthersStable DEF HandleInv
      <3> QED BY <1>3, <2>1, <3>1, OthersKept
    <2>2. CASE g = h
      <3>1. CASE Breaks(h)
        BY <2>2, <3>1, BreakOwn DEF Breaks
      <3> QED BY <1>3, <2>2, <3>1, BeginsOwn, FinishOwn, StallOwn, ServeOwn,
                 SendOwn DEF Moves
    <2> QED BY <2>1, <2>2
  <1>4. \/ UNCHANGED vars \/ WorkerDies \/ \E h \in Handles : Moves(h) /\ Others(h)
    BY StepEffect DEF HandleInv
  <1> QED BY <1>1, <1>2, <1>3, <1>4

-----------------------------------------------------------------------------
(* Tickets, and what their callers are told *)

LEMMA TicketStep ==
  ASSUME LinkType, WorkType, TicketInv, AdmissionTruthful,
         \A h \in Handles : HandleInv(h) /\ PlaceInv(h), [Next]_vars
  PROVE  TicketInv' /\ AdmissionTruthful'
  <1> USE BoundsAssumption
  <1>0. work.issued \in 0 .. MaxWork
    BY DEF WorkType
  <1>1. CASE UNCHANGED vars
    BY <1>1 DEF vars, TicketInv, AdmissionTruthful, Truthful
  <1>2. CASE WorkerDies
    BY <1>2 DEF WorkerDies, TicketInv, AdmissionTruthful, Truthful
  <1>3. ASSUME NEW h \in Handles, Begins(h), Others(h)
        PROVE  TicketInv' /\ AdmissionTruthful'
    <2>1. PICK m \in Requests :
            /\ handle'[h].late = handle[h].late
            /\ work'.admitted = work.admitted /\ work'.outcome = work.outcome
            /\ IF m.kind = "enqueue"
                 THEN /\ m.ticket = work.issued + 1 /\ work'.issued = work.issued + 1
                      /\ work.issued < MaxWork
                      /\ work'.producer = [work.producer EXCEPT ![m.ticket] = h]
                 ELSE work'.issued = work.issued /\ work'.producer = work.producer
      BY <1>3 DEF Begins
    <2>2. \A g \in Handles : handle'[g].late = handle[g].late
      BY <1>3, <2>1 DEF Others
    <2>3. CASE m.kind = "enqueue"
      <3>1. work'.issued \in 0 .. MaxWork /\ m.ticket \in Tickets
        BY <1>0, <2>1, <2>3 DEF Tickets
      <3>2. /\ work'.producer[m.ticket] = h
            /\ \A k \in Tickets : k # m.ticket => work'.producer[k] = work.producer[k]
        BY <2>1, <2>3, <3>1 DEF WorkType
      <3>3. work'.admitted \subseteq 1 .. work'.issued
        BY <1>0, <2>1, <2>3 DEF TicketInv
      <3>4. \A k \in Tickets : /\ k > work'.issued => work'.outcome[k] = "none"
                               /\ k <= work'.issued => work'.producer[k] \in Handles
        BY <1>0, <2>1, <2>3, <3>2 DEF TicketInv, Tickets
      <3>5. ASSUME NEW k \in 1 .. work'.issued, ~handle'[work'.producer[k]].late
            PROVE  Truthful(k)'
        <4>1. CASE k = m.ticket
          <5>1. work.outcome[k] = "none"
            BY <1>0, <2>1, <2>3, <3>1, <4>1 DEF TicketInv
          <5> QED BY <2>1, <5>1 DEF Truthful
        <4>2. CASE k # m.ticket
          <5>1. k \in 1 .. work.issued /\ k \in Tickets
            BY <1>0, <2>1, <2>3, <4>2 DEF Tickets
          <5>2. work.producer[k] \in Handles /\ work'.producer[k] = work.producer[k]
            BY <1>0, <3>2, <4>2, <5>1 DEF TicketInv
          <5>3. Truthful(k)
            BY <2>2, <3>5, <5>1, <5>2 DEF AdmissionTruthful
          <5> QED BY <2>1, <5>3 DEF Truthful
        <4> QED BY <4>1, <4>2
      <3>6. TicketInv'
        <4>1. (\A k \in Tickets : /\ k > work.issued => work.outcome[k] = "none"
                                  /\ k <= work.issued => work.producer[k] \in Handles)'
          BY <3>4 DEF Tickets
        <4>2. (work.admitted \subseteq 1 .. work.issued)'
          BY <3>3
        <4> QED BY ONLY <4>1, <4>2 DEF TicketInv
      <3>7. AdmissionTruthful'
        BY <3>5 DEF AdmissionTruthful
      <3> QED BY <3>6, <3>7
    <2>4. CASE m.kind # "enqueue"
      <3>1. \A k \in 1 .. work.issued : work.producer[k] \in Handles
        BY <1>0 DEF TicketInv, Tickets
      <3> QED BY <2>1, <2>2, <2>4, <3>1 DEF TicketInv, AdmissionTruthful, Truthful
    <2> QED BY <2>3, <2>4
  <1>4. ASSUME NEW h \in Handles, Reads(h) \/ GivesUp(h) \/ Strays(h), Others(h)
        PROVE  TicketInv' /\ AdmissionTruthful'
    <2>1. PICK o, late, k : /\ Finishes(h, late, o, k)
                            /\ GivesUp(h) => o = "error"
                            /\ Strays(h) /\ ~GivesUp(h) => late
                            /\ Reads(h) /\ ~GivesUp(h) /\ ~Strays(h) =>
                                 LET r == Head(resp[h]) IN
                                 /\ resp[h] # <<>>
                                 /\ r.kind = handle[h].call.kind =>
                                      /\ o = "accepted" => r.data = 1
                                      /\ o = "full" => r.data = 0
                                 /\ r.kind # handle[h].call.kind => o = "error"
      <3>1. CASE GivesUp(h)
        BY <3>1 DEF GivesUp
      <3>2. CASE Strays(h) /\ ~GivesUp(h)
        BY <3>2 DEF Strays
      <3>3. CASE Reads(h) /\ ~GivesUp(h) /\ ~Strays(h)
        BY <3>3 DEF Reads
      <3> QED BY <1>4, <3>1, <3>2, <3>3
    <2> DEFINE m == handle[h].call
    <2>2. /\ handle'[h].late = (handle[h].late \/ late)
          /\ m # NoCall
          /\ work'.issued = work.issued /\ work'.admitted = work.admitted
          /\ work'.producer = work.producer
          /\ work'.outcome = IF m.kind = "enqueue"
                               THEN [work.outcome EXCEPT ![m.ticket] = o]
                               ELSE work.outcome
      BY <2>1 DEF Finishes
    <2>3. m.kind = "enqueue" => /\ m.ticket \in 1 .. work.issued /\ m.ticket \in Tickets
                                /\ work.producer[m.ticket] = h
      BY <1>0, <2>2 DEF HandleInv, CallInv, Tickets
    <2>4. \A j \in Tickets : m.kind # "enqueue" \/ j # m.ticket =>
            work'.outcome[j] = work.outcome[j]
      BY <2>2, <2>3 DEF WorkType
    <2>5. m.kind = "enqueue" => work'.outcome[m.ticket] = o
      BY <2>2, <2>3 DEF WorkType
    <2>6. TicketInv'
      <3>1. \A j \in Tickets : j > work.issued => m.kind # "enqueue" \/ j # m.ticket
        BY <1>0, <2>3 DEF Tickets
      <3> QED BY <2>2, <2>4, <3>1 DEF TicketInv
    <2>7. \A g \in Handles : ~handle'[g].late => ~handle[g].late
      BY <1>4, <2>2 DEF Others
    <2>8. ASSUME NEW j \in 1 .. work'.issued, ~handle'[work'.producer[j]].late
          PROVE  Truthful(j)'
      <3>1. j \in 1 .. work.issued /\ j \in Tickets /\ work.producer[j] \in Handles
        BY <1>0, <2>2 DEF TicketInv, Tickets
      <3>2. ~handle[work.producer[j]].late
        BY <2>2, <2>7, <2>8, <3>1
      <3>3. CASE m.kind # "enqueue" \/ j # m.ticket
        BY <2>2, <2>4, <3>1, <3>2, <3>3 DEF AdmissionTruthful, Truthful
      <3>4. CASE m.kind = "enqueue" /\ j = m.ticket
        <4>1. ~handle[h].late /\ work'.outcome[j] = o
          BY <2>3, <2>5, <3>2, <3>4
        <4>2. CASE GivesUp(h)
          BY <2>1, <4>1, <4>2 DEF Truthful
        <4>4. CASE Strays(h) /\ ~GivesUp(h)
          BY <2>1, <2>2, <2>3, <2>8, <3>4, <4>4
        <4>3. CASE ~GivesUp(h) /\ ~Strays(h)
          <5>1. /\ resp[h] # <<>> /\ resp[h] \in Seq(Replies)
                /\ o = "accepted" => Head(resp[h]).data = 1 \/ Head(resp[h]).kind # m.kind
                /\ o = "full" => Head(resp[h]).data = 0 \/ Head(resp[h]).kind # m.kind
                /\ Head(resp[h]).kind # m.kind => o = "error"
            BY <1>4, <2>1, <4>3 DEF LinkType
          <5>2. Answers(resp[h][1], m)
            BY <4>1, <5>1 DEF HandleInv, InStepInv
          <5>3. Head(resp[h]) = resp[h][1]
            BY <5>1
          <5> QED BY <2>2, <3>4, <4>1, <5>1, <5>2, <5>3 DEF Answers, Truthful
        <4> QED BY <4>2, <4>3, <4>4
      <3> QED BY <3>3, <3>4
    <2> QED BY <2>6, <2>8 DEF AdmissionTruthful
  <1>5. ASSUME NEW h \in Handles, Sends(h) \/ Breaks(h) \/ Stalls(h)
        PROVE  TicketInv' /\ AdmissionTruthful'
    BY <1>5 DEF Sends, Breaks, Stalls, TicketInv, AdmissionTruthful, Truthful
  <1>6. ASSUME NEW h \in Handles, NEW r \in Replies, Serves(h, r), Admits(h, r)
        PROVE  TicketInv' /\ AdmissionTruthful'
    <2> DEFINE k == Head(req[h]).ticket
    <2>1. k \in 1 .. work.issued /\ work.producer[k] = h
      BY <1>6, HeadTicket DEF Serves, Admits, HandleInv
    <2>2. work' = [work EXCEPT !.admitted = @ \cup {k}] /\ handle' = handle
      BY <1>6 DEF Serves, Admits
    <2> HIDE DEF k
    <2>3. /\ work'.admitted = work.admitted \cup {k} /\ work'.issued = work.issued
          /\ work'.producer = work.producer /\ work'.outcome = work.outcome
      BY <2>2 DEF WorkType
    <2>4. TicketInv'
      BY <2>1, <2>3 DEF TicketInv
    <2>5. ~handle[h].late => work.outcome[k] = "none"
      <3> SUFFICES ASSUME ~handle[h].late PROVE work.outcome[k] = "none"
        OBVIOUS
      <3>1. req[h] # <<>> /\ conn[h].out = NoReply /\ Head(req[h]).kind = "enqueue"
        BY <1>6 DEF Serves, Admits
      <3>2. handle[h].call # NoCall /\ req[h] = <<handle[h].call>>
        BY <3>1, ReplyIsReply DEF HandleInv, InStepInv
      <3>3. Head(req[h]) = handle[h].call
        BY <3>2
      <3> QED BY <3>1, <3>2, <3>3 DEF HandleInv, CallInv, k
    <2>6. ASSUME NEW j \in 1 .. work.issued, ~handle[work.producer[j]].late
          PROVE  Truthful(j)'
      <3>1. CASE j = k
        BY <2>1, <2>3, <2>5, <2>6, <3>1 DEF Truthful
      <3>2. CASE j # k
        BY <2>3, <2>6, <3>2 DEF AdmissionTruthful, Truthful
      <3> QED BY <3>1, <3>2
    <2> QED BY <2>2, <2>3, <2>4, <2>6 DEF AdmissionTruthful
  <1>7. ASSUME NEW h \in Handles, NEW r \in Replies, Serves(h, r), Pops(h, r) \/ Ignores(r)
        PROVE  TicketInv' /\ AdmissionTruthful'
    BY <1>7, PopEffect DEF Serves, Ignores, TicketInv, AdmissionTruthful, Truthful
  <1>8. \/ UNCHANGED vars \/ WorkerDies \/ \E h \in Handles : Moves(h) /\ Others(h)
    BY StepEffect DEF HandleInv
  <1> QED BY <1>1, <1>2, <1>3, <1>4, <1>5, <1>6, <1>7, <1>8 DEF Moves

-----------------------------------------------------------------------------
(* Where work is *)

\* The steals among the frames of a connection.
Steals(s) == {i \in DOMAIN s : s[i].kind = "steal" /\ s[i].data # NoWork}
StealData(s) == {s[i].data : i \in Steals(s)}
StealOnce(s) == \A i, j \in Steals(s) : i # j => s[i].data # s[j].data

LEMMA TailSteals ==
  ASSUME NEW s \in Seq(Replies), s # <<>>, StealOnce(s)
  PROVE  /\ StealData(Tail(s)) \subseteq StealData(s) /\ StealOnce(Tail(s))
         /\ Head(s).kind = "steal" /\ Head(s).data # NoWork =>
              Head(s).data \in StealData(s) /\ Head(s).data \notin StealData(Tail(s))
  <1> DEFINE t == Tail(s)
  <1>1. /\ Len(s) \in Nat /\ DOMAIN s = 1 .. Len(s) /\ Len(s) # 0 /\ Head(s) = s[1]
        /\ DOMAIN t = 1 .. Len(s) - 1
        /\ \A i \in 1 .. Len(s) - 1 : t[i] = s[i + 1]
    BY SeqEnds
  <1> HIDE DEF t
  <1>2. \A i \in Steals(t) : i \in Nat /\ i + 1 \in Steals(s) /\ i + 1 # 1 /\ t[i] = s[i + 1]
    BY <1>1 DEF Steals
  <1>3. StealData(t) \subseteq StealData(s)
    BY <1>2 DEF StealData
  <1>4. StealOnce(t)
    <2> SUFFICES ASSUME NEW i \in Steals(t), NEW j \in Steals(t), i # j
                 PROVE  t[i].data # t[j].data
      BY DEF StealOnce
    <2>1. i + 1 # j + 1 /\ i + 1 \in Steals(s) /\ j + 1 \in Steals(s)
      BY <1>2
    <2> QED BY <1>2, <2>1 DEF StealOnce
  <1>5. ASSUME Head(s).kind = "steal", Head(s).data # NoWork
        PROVE  Head(s).data \in StealData(s) /\ Head(s).data \notin StealData(t)
    <2>1. 1 \in Steals(s)
      BY <1>1, <1>5 DEF Steals
    <2>2. \A i \in Steals(t) : t[i].data # s[1].data
      BY <1>2, <2>1 DEF StealOnce
    <2> QED BY <1>1, <2>1, <2>2 DEF StealData
  <1> QED BY <1>3, <1>4, <1>5 DEF t

LEMMA SuffixSteals ==
  ASSUME NEW s \in Seq(Replies), NEW t, Suffix(t, s), StealOnce(s)
  PROVE  StealData(t) \subseteq StealData(s) /\ StealOnce(t)
  <1>1. PICK n \in 0 .. Len(s) : t = SubSeq(s, n + 1, Len(s))
    BY DEF Suffix
  <1>2. /\ DOMAIN t = 1 .. Len(s) - n /\ DOMAIN s = 1 .. Len(s) /\ Len(s) \in Nat
        /\ \A i \in 1 .. Len(s) - n : t[i] = s[i + n]
    BY <1>1, SuffixOf
  <1>3. \A i \in Steals(t) : i \in Nat /\ i + n \in Steals(s) /\ t[i] = s[i + n]
    BY <1>2 DEF Steals
  <1>4. StealData(t) \subseteq StealData(s)
    BY <1>3 DEF StealData
  <1>5. StealOnce(t)
    <2> SUFFICES ASSUME NEW i \in Steals(t), NEW j \in Steals(t), i # j
                 PROVE  t[i].data # t[j].data
      BY DEF StealOnce
    <2>1. i + n # j + n /\ i + n \in Steals(s) /\ j + n \in Steals(s)
      BY <1>3
    <2> QED BY <1>3, <2>1 DEF StealOnce
  <1> QED BY <1>4, <1>5

LEMMA AppendSteals ==
  ASSUME NEW s \in Seq(Replies), NEW r \in Replies, StealOnce(s),
         r.kind = "steal" /\ r.data # NoWork => r.data \notin StealData(s)
  PROVE  /\ StealOnce(Append(s, r))
         /\ \A x \in StealData(Append(s, r)) :
              x \in StealData(s) \/ (r.kind = "steal" /\ r.data # NoWork /\ x = r.data)
         /\ StealData(s) \subseteq StealData(Append(s, r))
         /\ r.kind = "steal" /\ r.data # NoWork => r.data \in StealData(Append(s, r))
  <1> DEFINE t == Append(s, r)
             n == Len(s)
  <1>1. /\ n \in Nat /\ DOMAIN s = 1 .. n /\ DOMAIN t = 1 .. n + 1 /\ t[n + 1] = r
        /\ \A i \in 1 .. n : t[i] = s[i]
    BY SeqEnds
  <1> HIDE DEF t, n
  <1>2. \A i \in Steals(t) : \/ i \in Steals(s) /\ t[i] = s[i] /\ i # n + 1
                             \/ i = n + 1 /\ t[i] = r /\ r.kind = "steal" /\ r.data # NoWork
    BY <1>1 DEF Steals
  <1>3. \A i \in Steals(s) : i \in Steals(t) /\ t[i] = s[i]
    BY <1>1 DEF Steals
  <1>4. StealOnce(t)
    BY <1>2 DEF StealOnce, StealData
  <1>5. r.kind = "steal" /\ r.data # NoWork => n + 1 \in Steals(t)
    BY <1>1 DEF Steals
  <1> QED BY <1>1, <1>2, <1>3, <1>4, <1>5 DEF StealData, t

LEMMA PlaceIs ==
  /\ \A h : OnWire(h) = Steals(resp[h]) /\ Wired(h) = StealData(resp[h])
  /\ \A h : (\A i, j \in OnWire(h) : i # j => resp[h][i].data # resp[h][j].data)
             <=> StealOnce(resp[h])
  BY DEF OnWire, Steals, Wired, StealData, StealOnce

PlaceOf(adm, pend, hand, s, rec) ==
  /\ hand \cup StealData(s) \cup ToSet(rec) \subseteq adm
  /\ (hand \cup StealData(s) \cup ToSet(rec)) \cap pend = {}
  /\ hand \cap (StealData(s) \cup ToSet(rec)) = {}
  /\ StealData(s) \cap ToSet(rec) = {}
  /\ StealOnce(s) /\ IsInjective(rec)

LEMMA PlaceInvIs ==
  ASSUME NEW h
  PROVE  /\ PlaceInv(h) <=> PlaceOf(work.admitted, ToSet(pending), InHand(h), resp[h],
                                    work.received[h])
         /\ Mine(h) = InHand(h) \cup StealData(resp[h]) \cup ToSet(work.received[h])
  BY DEF PlaceInv, PlaceOf, Mine, Stolen, OnWire, Steals, Wired, StealData, StealOnce

\* The same of the state after a step.
LEMMA PlaceInvNext ==
  ASSUME NEW h
  PROVE  /\ PlaceInv(h)' <=> PlaceOf(work'.admitted, ToSet(pending'), InHand(h)', resp'[h],
                                     work'.received[h])
         /\ Mine(h)' = InHand(h)' \cup StealData(resp'[h]) \cup ToSet(work'.received[h])
  BY DEF PlaceInv, PlaceOf, Mine, Stolen, OnWire, Steals, Wired, StealData, StealOnce

LEMMA SetsOfSeq ==
  ASSUME NEW S, NEW s \in Seq(S)
  PROVE  /\ ToSet(s) \subseteq S /\ ToSet(<<>>) = {} /\ IsInjective(<<>>)
         /\ \A x \in S : /\ ToSet(Append(s, x)) = ToSet(s) \cup {x}
                         /\ IsInjective(s) /\ x \notin ToSet(s) => IsInjective(Append(s, x))
         /\ s # <<>> /\ IsInjective(s) =>
              /\ Head(s) \in ToSet(s) /\ ToSet(Tail(s)) = ToSet(s) \ {Head(s)}
              /\ IsInjective(Tail(s))
  <1>1. ToSet(s) \subseteq S /\ ToSet(<<>>) = {} /\ IsInjective(<<>>)
    BY DEF ToSet, IsInjective
  <1>2. ASSUME NEW x \in S
        PROVE  /\ ToSet(Append(s, x)) = ToSet(s) \cup {x}
               /\ IsInjective(s) /\ x \notin ToSet(s) => IsInjective(Append(s, x))
    <2> DEFINE t == Append(s, x)
               n == Len(s)
    <2>1. /\ n \in Nat /\ DOMAIN s = 1 .. n /\ DOMAIN t = 1 .. n + 1 /\ t[n + 1] = x
          /\ \A i \in 1 .. n : t[i] = s[i]
      BY SeqEnds
    <2> HIDE DEF t, n
    <2>2. \A i \in 1 .. n + 1 : i = n + 1 \/ i \in 1 .. n
      BY <2>1
    <2>3. n + 1 \in 1 .. n + 1 /\ 1 .. n \subseteq 1 .. n + 1
      BY <2>1
    <2>4. ToSet(t) = ToSet(s) \cup {x}
      BY <2>1, <2>2, <2>3 DEF ToSet
    <2>5. ASSUME IsInjective(s), x \notin ToSet(s) PROVE IsInjective(t)
      BY <2>1, <2>2, <2>5 DEF IsInjective, ToSet
    <2> QED BY <2>4, <2>5 DEF t
  <1>3. ASSUME s # <<>>, IsInjective(s)
        PROVE  /\ Head(s) \in ToSet(s) /\ ToSet(Tail(s)) = ToSet(s) \ {Head(s)}
               /\ IsInjective(Tail(s))
    <2> DEFINE t == Tail(s)
               n == Len(s)
    <2>1. /\ n \in Nat /\ n # 0 /\ DOMAIN s = 1 .. n /\ Head(s) = s[1]
          /\ DOMAIN t = 1 .. n - 1
          /\ \A i \in 1 .. n - 1 : t[i] = s[i + 1]
      BY <1>3, SeqEnds
    <2> HIDE DEF t, n
    <2>2. \A i \in 1 .. n - 1 : i + 1 \in 1 .. n /\ i + 1 # 1
      BY <2>1
    <2>3. \A i \in 1 .. n : i # 1 => i - 1 \in 1 .. n - 1 /\ t[i - 1] = s[i]
      BY <2>1
    <2>4. 1 \in 1 .. n
      BY <2>1
    <2>5. Head(s) \in ToSet(s)
      BY <2>1, <2>4 DEF ToSet
    <2>6. ToSet(t) \subseteq ToSet(s) \ {Head(s)}
      BY <1>3, <2>1, <2>2, <2>4 DEF ToSet, IsInjective
    <2>7. ToSet(s) \ {Head(s)} \subseteq ToSet(t)
      <3> SUFFICES ASSUME NEW i \in 1 .. n, s[i] # s[1] PROVE s[i] \in ToSet(t)
        BY <2>1 DEF ToSet
      <3>1. i - 1 \in DOMAIN t /\ t[i - 1] = s[i]
        BY <2>1, <2>3
      <3> QED BY <3>1 DEF ToSet
    <2>8. IsInjective(t)
      <3> SUFFICES ASSUME NEW i \in 1 .. n - 1, NEW j \in 1 .. n - 1, t[i] = t[j] PROVE i = j
        BY <2>1 DEF IsInjective
      <3>1. i + 1 = j + 1
        BY <1>3, <2>1, <2>2 DEF IsInjective
      <3> QED BY <3>1
    <2> QED BY <2>5, <2>6, <2>7, <2>8 DEF t
  <1> QED BY <1>1, <1>2, <1>3

PlacesInv == PendingInv /\ Disjoint /\ \A h \in Handles : PlaceInv(h)

\* No step brings work to a place from anywhere but the queue, and none that
\* stays in the queue.
LEMMA PlacesKept ==
  ASSUME WorkType, PlacesInv, NEW h \in Handles, Others(h),
         work.admitted \subseteq work'.admitted, PendingInv',
         \A x \in ToSet(pending') : x \in ToSet(pending) \/ x \notin work.admitted,
         NEW new, new \subseteq ToSet(pending), new \cap ToSet(pending') = {},
         Mine(h)' \subseteq Mine(h) \cup new,
         InHand(h)' \cap (Wired(h)' \cup Stolen(h)') = {}, Wired(h)' \cap Stolen(h)' = {},
         StealOnce(resp'[h]), IsInjective(work'.received[h])
  PROVE  PlacesInv'
  <1>1. ASSUME NEW g \in Handles, g # h
        PROVE  /\ resp'[g] = resp[g] /\ work'.received[g] = work.received[g]
               /\ InHand(g)' = InHand(g) /\ Mine(g)' = Mine(g)
    <2>1. resp'[g] = resp[g] /\ conn'[g] = conn[g] /\ work'.received[g] = work.received[g]
      BY <1>1 DEF Others
    <2>2. InHand(g)' = InHand(g)
      BY ONLY <2>1 DEF InHand
    <2>3. Wired(g)' = Wired(g)
      BY ONLY <2>1 DEF Wired, OnWire
    <2>4. Stolen(g)' = Stolen(g)
      BY ONLY <2>1 DEF Stolen
    <2> QED BY ONLY <2>1, <2>2, <2>3, <2>4 DEF Mine
  <1>2. \A g \in Handles : Mine(g) \subseteq work.admitted /\ Mine(g) \cap ToSet(pending) = {}
    BY DEF PlacesInv, PlaceInv
  <1>3. ToSet(pending) \subseteq work.admitted
    BY DEF PlacesInv, PendingInv
  <1>4. \A g \in Handles : Mine(g) \cap ToSet(pending') = {}
    BY <1>2
  <1>5. ASSUME NEW g \in Handles, g # h PROVE PlaceInv(g)'
    <2>1. PlaceOf(work.admitted, ToSet(pending), InHand(g), resp[g], work.received[g])
      BY PlaceInvIs DEF PlacesInv
    <2>2. Mine(g) = InHand(g) \cup StealData(resp[g]) \cup ToSet(work.received[g])
      BY PlaceInvIs
    <2>3. PlaceOf(work'.admitted, ToSet(pending'), InHand(g), resp[g], work.received[g])
      BY <1>4, <2>1, <2>2 DEF PlaceOf
    <2> QED BY <1>1, <1>5, <2>3, PlaceInvNext
  <1>6. PlaceInv(h)'
    <2>1. Mine(h)' \subseteq work'.admitted /\ Mine(h)' \cap ToSet(pending') = {}
      BY <1>2, <1>3, <1>4
    <2>2. Wired(h)' = StealData(resp'[h]) /\ Stolen(h)' = ToSet(work'.received[h])
      BY DEF Wired, OnWire, StealData, Steals, Stolen
    <2>3. PlaceOf(work'.admitted, ToSet(pending'), InHand(h)', resp'[h], work'.received[h])
      BY <2>1, <2>2, PlaceInvNext DEF PlaceOf
    <2> QED BY <2>3, PlaceInvNext
  <1>7. Disjoint'
    <2>1. ASSUME NEW g \in Handles, g # h PROVE Mine(h)' \cap Mine(g)' = {}
      BY <1>1, <1>2, <2>1 DEF PlacesInv, Disjoint
    <2>2. ASSUME NEW f \in Handles, NEW g \in Handles, f # h, g # h, f # g
          PROVE  Mine(f)' \cap Mine(g)' = {}
      BY <1>1, <2>2 DEF PlacesInv, Disjoint
    <2> QED BY <2>1, <2>2 DEF Disjoint
  <1> QED BY <1>5, <1>6, <1>7 DEF PlacesInv

LEMMA PlacesStep ==
  ASSUME LinkType, WorkType, PlacesInv, \A h \in Handles : FreshInv(h) /\ AstrayInv(h),
         [Next]_vars
  PROVE  PlacesInv'
  <1>0. /\ pending \in Seq(Tickets)
        /\ \A h \in Handles : work.received[h] \in Seq(Tickets) /\ resp[h] \in Seq(Replies)
        /\ IsInjective(pending) /\ ToSet(pending) \subseteq work.admitted
        /\ \A h \in Handles : PlaceInv(h)
    BY DEF WorkType, LinkType, PlacesInv, PendingInv
  <1>1. CASE UNCHANGED vars
    <2>1. UNCHANGED <<resp, conn, pending, work>>
      BY <1>1 DEF vars, net, node
    <2>2. \A h \in Handles : InHand(h)' = InHand(h) /\ Wired(h)' = Wired(h)
                             /\ OnWire(h)' = OnWire(h) /\ Stolen(h)' = Stolen(h)
      BY ONLY <2>1 DEF InHand, Wired, OnWire, Stolen
    <2>3. \A h \in Handles : Mine(h)' = Mine(h)
      BY ONLY <2>2 DEF Mine
    <2>4. Disjoint' /\ PendingInv'
      BY <2>1, <2>3 DEF PlacesInv, Disjoint, PendingInv
    <2>5. ASSUME NEW h \in Handles PROVE PlaceInv(h)'
      <3>1. PlaceOf(work.admitted, ToSet(pending), InHand(h), resp[h], work.received[h])
        BY <1>0, PlaceInvIs
      <3> QED BY <2>1, <2>2, <3>1, PlaceInvNext
    <2> QED BY <2>4, <2>5 DEF PlacesInv
  <1>2. CASE WorkerDies
    <2>1. /\ pending' = <<>> /\ UNCHANGED <<handle, resp, work>>
          /\ \A h \in Handles : InHand(h)' = {}
      BY <1>2, DeathEffect, NoCallKind DEF InHand
    <2>2. ToSet(pending') = {} /\ IsInjective(pending')
      BY <1>0, <2>1, SetsOfSeq
    <2>3. \A h \in Handles : Mine(h)' \subseteq Mine(h) /\ Wired(h)' = Wired(h)
                             /\ Stolen(h)' = Stolen(h)
      BY <2>1 DEF Mine, Wired, OnWire, Stolen
    <2>4. ASSUME NEW h \in Handles PROVE PlaceInv(h)'
      <3>1. PlaceOf(work.admitted, ToSet(pending), InHand(h), resp[h], work.received[h])
        BY <1>0, PlaceInvIs
      <3>2. PlaceOf(work.admitted, {}, {}, resp[h], work.received[h])
        BY <3>1 DEF PlaceOf
      <3> QED BY <2>1, <2>2, <3>2, PlaceInvNext
    <2>5. Disjoint' /\ PendingInv'
      BY <2>2, <2>3 DEF PlacesInv, Disjoint, PendingInv
    <2> QED BY <2>4, <2>5 DEF PlacesInv
  <1>3. ASSUME NEW h \in Handles, Others(h), pending' = pending,
               work'.admitted = work.admitted,
               Mine(h)' \subseteq Mine(h),
               InHand(h)' \cap (Wired(h)' \cup Stolen(h)') = {}, Wired(h)' \cap Stolen(h)' = {},
               StealOnce(resp'[h]), IsInjective(work'.received[h])
        PROVE  PlacesInv'
    <2>1. PendingInv'
      BY <1>0, <1>3 DEF PendingInv
    <2> DEFINE new == {}
    <2>2. /\ new \subseteq ToSet(pending) /\ new \cap ToSet(pending') = {}
          /\ Mine(h)' \subseteq Mine(h) \cup new /\ work.admitted \subseteq work'.admitted
          /\ \A x \in ToSet(pending') : x \in ToSet(pending) \/ x \notin work.admitted
      BY <1>3
    <2> HIDE DEF new
    <2> QED BY <1>3, <2>1, <2>2, PlacesKept
  <1>4. ASSUME NEW h \in Handles
        PROVE  /\ Mine(h) = InHand(h) \cup Wired(h) \cup Stolen(h)
               /\ Wired(h) = StealData(resp[h]) /\ Stolen(h) = ToSet(work.received[h])
               /\ Wired(h)' = StealData(resp'[h]) /\ Stolen(h)' = ToSet(work'.received[h])
               /\ Mine(h)' = InHand(h)' \cup Wired(h)' \cup Stolen(h)'
               /\ InHand(h) \cap (Wired(h) \cup Stolen(h)) = {} /\ Wired(h) \cap Stolen(h) = {}
               /\ StealOnce(resp[h]) /\ IsInjective(work.received[h])
    <2>1. /\ Mine(h) = InHand(h) \cup Wired(h) \cup Stolen(h)
          /\ Wired(h) = StealData(resp[h]) /\ Stolen(h) = ToSet(work.received[h])
          /\ Wired(h)' = StealData(resp'[h]) /\ Stolen(h)' = ToSet(work'.received[h])
          /\ Mine(h)' = InHand(h)' \cup Wired(h)' \cup Stolen(h)'
      BY DEF Mine, Wired, OnWire, StealData, Steals, Stolen
    <2>2. PlaceOf(work.admitted, ToSet(pending), InHand(h), resp[h], work.received[h])
      BY <1>0, PlaceInvIs
    <2> QED BY <2>1, <2>2 DEF PlaceOf
  <1>5. ASSUME NEW h \in Handles, Others(h), Begins(h) \/ GivesUp(h) PROVE PlacesInv'
    <2>1. /\ resp' = resp /\ conn' = conn /\ pending' = pending
          /\ work'.admitted = work.admitted /\ work'.received[h] = work.received[h]
      BY <1>5 DEF Begins, GivesUp, Finishes
    <2>2. InHand(h)' = InHand(h) /\ Wired(h)' = Wired(h) /\ Stolen(h)' = Stolen(h)
      BY <2>1 DEF InHand, Wired, OnWire, Stolen
    <2>3. Mine(h)' \subseteq Mine(h)
      BY <1>4, <2>2
    <2> QED BY <1>3, <1>4, <1>5, <2>1, <2>2, <2>3
  <1>11. ASSUME NEW h \in Handles, Others(h), Strays(h) \/ Stalls(h) PROVE PlacesInv'
    <2>1. /\ conn' = conn /\ pending' = pending /\ Suffix(resp'[h], resp[h])
          /\ work'.admitted = work.admitted /\ work'.received[h] = work.received[h]
      BY <1>11 DEF Strays, Stalls, Finishes
    <2>2. InHand(h)' = InHand(h) /\ Stolen(h)' = Stolen(h)
      BY <2>1 DEF InHand, Stolen
    <2>3. Wired(h)' \subseteq Wired(h) /\ StealOnce(resp'[h])
      BY <1>0, <1>4, <2>1, SuffixSteals
    <2>4. Mine(h)' \subseteq Mine(h)
      BY <1>4, <2>2, <2>3
    <2>5. InHand(h)' \cap (Wired(h)' \cup Stolen(h)') = {} /\ Wired(h)' \cap Stolen(h)' = {}
      BY <1>4, <2>2, <2>3
    <2> QED BY <1>3, <1>4, <1>11, <2>1, <2>3, <2>4, <2>5
  <1>6. ASSUME NEW h \in Handles, Others(h), Reads(h) PROVE PlacesInv'
    <2>1. PICK k \in 0 .. MaxWork :
            /\ resp[h] # <<>> /\ resp'[h] = Tail(resp[h])
            /\ conn' = conn /\ pending' = pending /\ work'.admitted = work.admitted
            /\ work'.received[h] = IF k = NoWork THEN work.received[h]
                                   ELSE Append(work.received[h], k)
            /\ k # NoWork => Head(resp[h]).kind = "steal" /\ Head(resp[h]).data = k
      BY <1>6 DEF Reads, Finishes
    <2>2. InHand(h)' = InHand(h)
      BY <2>1 DEF InHand
    <2>3. /\ Wired(h)' \subseteq Wired(h) /\ StealOnce(resp'[h])
          /\ k # NoWork => k \in Wired(h) /\ k \notin Wired(h)'
      BY <1>0, <1>4, <2>1, TailSteals
    <2>4. k # NoWork => k \in Tickets
      BY BoundsAssumption DEF NoWork, Tickets
    <2>5. /\ Stolen(h)' = IF k = NoWork THEN Stolen(h) ELSE Stolen(h) \cup {k}
          /\ IsInjective(work'.received[h])
      <3>1. CASE k = NoWork
        BY <1>4, <2>1, <3>1
      <3>2. CASE k # NoWork
        <4>1. k \notin ToSet(work.received[h])
          BY <1>4, <2>3, <3>2
        <4>2. /\ k \in Tickets /\ work.received[h] \in Seq(Tickets)
              /\ work'.received[h] = Append(work.received[h], k)
          BY <1>0, <2>1, <2>4, <3>2
        <4>3. ToSet(Append(work.received[h], k)) = ToSet(work.received[h]) \cup {k}
          BY ONLY <4>2, SetsOfSeq
        <4>4. IsInjective(work.received[h])
          BY <1>4
        <4>5. IsInjective(Append(work.received[h], k))
          BY ONLY <4>1, <4>2, <4>4, SetsOfSeq
        <4>6. Stolen(h)' = Stolen(h) \cup {k}
          BY <1>4, <4>2, <4>3
        <4> QED BY <3>2, <4>2, <4>5, <4>6
      <3> QED BY <3>1, <3>2
    <2>6. Mine(h)' \subseteq Mine(h)
      BY <1>4, <2>2, <2>3, <2>5
    <2>7. InHand(h)' \cap (Wired(h)' \cup Stolen(h)') = {} /\ Wired(h)' \cap Stolen(h)' = {}
      BY <1>4, <2>2, <2>3, <2>5
    <2> QED BY <1>3, <1>6, <2>1, <2>3, <2>5, <2>6, <2>7
  <1>7. ASSUME NEW h \in Handles, Others(h), Sends(h) PROVE PlacesInv'
    <2> DEFINE r == conn[h].out
    <2>1. /\ r # NoReply /\ conn'[h].out = NoReply
          /\ resp'[h] = IF handle[h].open THEN Append(resp[h], r) ELSE resp[h]
          /\ pending' = pending /\ work' = work
      BY <1>7 DEF Sends
    <2>2. r \in Replies
      BY <2>1 DEF LinkType
    <2>3. /\ InHand(h)' = {}
          /\ InHand(h) = IF r.kind = "steal" /\ r.data # NoWork THEN {r.data} ELSE {}
      BY <2>1, NoCallKind DEF InHand
    <2> HIDE DEF r
    <2>4. r.kind = "steal" /\ r.data # NoWork => r.data \notin StealData(resp[h])
      BY <1>4, <2>3
    <2>5. Wired(h)' \subseteq Wired(h) \cup InHand(h) /\ StealOnce(resp'[h])
      <3>1. CASE handle[h].open
        <4>1. resp'[h] = Append(resp[h], r) /\ resp[h] \in Seq(Replies) /\ StealOnce(resp[h])
          BY <1>0, <1>4, <2>1, <3>1
        <4>2. /\ StealOnce(Append(resp[h], r))
              /\ \A x \in StealData(Append(resp[h], r)) : x \in StealData(resp[h])
                   \/ (r.kind = "steal" /\ r.data # NoWork /\ x = r.data)
          BY ONLY <2>2, <2>4, <4>1, AppendSteals
        <4>3. Wired(h)' = StealData(Append(resp[h], r)) /\ Wired(h) = StealData(resp[h])
          BY <1>4, <4>1
        <4> QED BY <2>3, <4>1, <4>2, <4>3
      <3>2. CASE ~handle[h].open
        BY <1>4, <2>1, <3>2
      <3> QED BY <3>1, <3>2
    <2>6. Stolen(h)' = Stolen(h)
      BY <1>4, <2>1
    <2>7. /\ InHand(h)' \cap (Wired(h)' \cup Stolen(h)') = {} /\ Wired(h)' \cap Stolen(h)' = {}
          /\ Mine(h)' \subseteq Mine(h)
      BY <1>4, <2>3, <2>5, <2>6
    <2> QED BY <1>3, <1>4, <1>7, <2>1, <2>5, <2>7
  <1>8. ASSUME NEW h \in Handles, Others(h), Breaks(h) PROVE PlacesInv'
    <2>1. /\ conn'[h].out = NoReply /\ resp'[h] \in {resp[h], <<>>}
          /\ pending' = pending /\ work' = work
      BY <1>8 DEF Breaks
    <2>2. InHand(h)' = {}
      BY <2>1, NoCallKind DEF InHand
    <2>3. StealData(<<>>) = {} /\ StealOnce(<<>>)
      BY DEF StealData, StealOnce, Steals
    <2>4. Wired(h)' \subseteq Wired(h) /\ StealOnce(resp'[h]) /\ Stolen(h)' = Stolen(h)
      BY <1>4, <2>1, <2>3
    <2>5. /\ InHand(h)' \cap (Wired(h)' \cup Stolen(h)') = {} /\ Wired(h)' \cap Stolen(h)' = {}
          /\ Mine(h)' \subseteq Mine(h)
      BY <1>4, <2>2, <2>4
    <2> QED BY <1>3, <1>4, <1>8, <2>1, <2>4, <2>5
  <1>9. ASSUME NEW h \in Handles, Others(h), NEW r \in Replies, Serves(h, r),
               Admits(h, r) \/ Pops(h, r) \/ Ignores(r)
        PROVE  PlacesInv'
    <2>1. /\ conn'[h].out = r /\ resp' = resp /\ conn[h].out = NoReply
          /\ req[h] # <<>> /\ r.kind = Head(req[h]).kind
      BY <1>9 DEF Serves
    <2>2. /\ InHand(h) = {}
          /\ InHand(h)' = IF r.kind = "steal" /\ r.data # NoWork THEN {r.data} ELSE {}
          /\ Wired(h)' = Wired(h)
      BY <1>4, <2>1, NoCallKind DEF InHand
    <2>3. CASE Admits(h, r)
      <3> DEFINE k == Head(req[h]).ticket
      <3>1. /\ r.kind = "enqueue" /\ pending' = Append(pending, k)
            /\ work' = [work EXCEPT !.admitted = @ \cup {k}]
        BY <2>1, <2>3 DEF Admits
      <3>2. k \in 1 .. work.issued /\ k \notin work.admitted
        BY <2>1, <3>1, HeadTicket
      <3> HIDE DEF k
      <3>3. work'.admitted = work.admitted \cup {k} /\ work'.received = work.received
        BY <3>1 DEF WorkType
      <3>4. k \in Tickets
        BY <3>2, BoundsAssumption DEF WorkType, Tickets
      <3>5. ToSet(pending') = ToSet(pending) \cup {k} /\ IsInjective(pending')
        BY <1>0, <3>1, <3>2, <3>4, SetsOfSeq
      <3>6. PendingInv'
        BY <1>0, <3>3, <3>5 DEF PendingInv
      <3>7. InHand(h)' = {} /\ Stolen(h)' = Stolen(h)
        BY <1>4, <2>2, <3>1, <3>3
      <3>8. /\ Mine(h)' \subseteq Mine(h)
            /\ InHand(h)' \cap (Wired(h)' \cup Stolen(h)') = {} /\ Wired(h)' \cap Stolen(h)' = {}
        BY <1>4, <2>2, <3>7
      <3> DEFINE new == {}
      <3>9. /\ new \subseteq ToSet(pending) /\ new \cap ToSet(pending') = {}
            /\ Mine(h)' \subseteq Mine(h) \cup new /\ work.admitted \subseteq work'.admitted
            /\ \A x \in ToSet(pending') : x \in ToSet(pending) \/ x \notin work.admitted
        BY <3>2, <3>3, <3>5, <3>8
      <3>10. StealOnce(resp'[h]) /\ IsInjective(work'.received[h])
        BY <1>4, <2>1, <3>3
      <3> HIDE DEF new
      <3> QED BY <1>9, <3>6, <3>8, <3>9, <3>10, PlacesKept
    <2>4. CASE Pops(h, r)
      <3>1. /\ r.kind = "steal" /\ pending # <<>> /\ r.data = Head(pending)
            /\ pending' = Tail(pending)
            /\ work'.admitted = work.admitted /\ work'.received = work.received
        BY <2>4, PopEffect DEF Pops
      <3> DEFINE new == {r.data}
      <3>2. /\ r.data \in ToSet(pending) /\ ToSet(pending') = ToSet(pending) \ {r.data}
            /\ IsInjective(pending')
        BY <1>0, <3>1, SetsOfSeq
      <3>3. PendingInv'
        BY <1>0, <3>1, <3>2 DEF PendingInv
      <3>4. InHand(h)' \subseteq new /\ Stolen(h)' = Stolen(h)
        BY <1>4, <2>2, <3>1
      <3>5. r.data \notin Mine(h)
        BY <1>0, <3>2 DEF PlaceInv
      <3>6. /\ Mine(h)' \subseteq Mine(h) \cup new
            /\ InHand(h)' \cap (Wired(h)' \cup Stolen(h)') = {} /\ Wired(h)' \cap Stolen(h)' = {}
        BY <1>4, <2>2, <3>4, <3>5
      <3>7. /\ new \subseteq ToSet(pending) /\ new \cap ToSet(pending') = {}
            /\ work.admitted \subseteq work'.admitted
            /\ \A x \in ToSet(pending') : x \in ToSet(pending) \/ x \notin work.admitted
        BY <3>1, <3>2
      <3>8. StealOnce(resp'[h]) /\ IsInjective(work'.received[h])
        BY <1>4, <2>1, <3>1
      <3> HIDE DEF new
      <3> QED BY <1>9, <3>3, <3>6, <3>7, <3>8, PlacesKept
    <2>5. CASE Ignores(r)
      <3>1. /\ pending' = pending /\ work' = work /\ (r.kind = "steal" => r.data = NoWork)
        BY <2>5 DEF Ignores
      <3>2. InHand(h)' = {} /\ Stolen(h)' = Stolen(h)
        BY <1>4, <2>2, <3>1
      <3>3. /\ Mine(h)' \subseteq Mine(h)
            /\ InHand(h)' \cap (Wired(h)' \cup Stolen(h)') = {} /\ Wired(h)' \cap Stolen(h)' = {}
        BY <1>4, <2>2, <3>2
      <3>4. StealOnce(resp'[h]) /\ IsInjective(work'.received[h])
        BY <1>4, <2>1, <3>1
      <3> QED BY <1>3, <1>9, <3>1, <3>3, <3>4
    <2> QED BY <1>9, <2>3, <2>4, <2>5
  <1>10. \/ UNCHANGED vars \/ WorkerDies \/ \E h \in Handles : Moves(h) /\ Others(h)
    BY <1>0, StepEffect
  <1> QED BY <1>1, <1>2, <1>5, <1>6, <1>7, <1>8, <1>9, <1>10, <1>11 DEF Moves

-----------------------------------------------------------------------------
(* What is lost *)

Held(h) == Carried(h) \cup Stolen(h)

\* A handle of which no call timed out carries one piece of work at most, and
\* none when its socket was shut down.
LEMMA CarriesOne ==
  ASSUME LinkType, NEW h \in Handles, HandleInv(h), ~handle[h].late
  PROVE  /\ \E x : Carried(h) \subseteq {x}
         /\ ~handle[h].open => Carried(h) = {} /\ conn[h].out = NoReply
         /\ resp[h] = <<>> => Wired(h) = {}
         /\ conn[h].out = NoReply => InHand(h) = {}
  <1>1. resp[h] = <<>> => Wired(h) = {}
    BY DEF Wired, OnWire
  <1>2. conn[h].out = NoReply => InHand(h) = {}
    BY NoCallKind DEF InHand
  <1>3. Len(resp[h]) = 1 => Wired(h) \subseteq {resp[h][1].data}
    <2>1. DOMAIN resp[h] = 1 .. Len(resp[h])
      BY DEF LinkType
    <2> QED BY <2>1 DEF Wired, OnWire
  <1>4. InHand(h) \subseteq {conn[h].out.data}
    BY DEF InHand
  <1>5. \/ conn[h].out = NoReply /\ resp[h] = <<>>
        \/ handle[h].call # NoCall /\ resp[h] = <<>>
        \/ handle[h].call # NoCall /\ conn[h].out = NoReply /\ Len(resp[h]) = 1
    BY DEF HandleInv, InStepInv
  <1>6. \E x : InHand(h) \cup Wired(h) \subseteq {x}
    BY <1>1, <1>2, <1>3, <1>4, <1>5
  <1>7. ~handle[h].open => handle[h].call = NoCall
    BY DEF HandleInv, CallInv
  <1>8. ~handle[h].open => Carried(h) = {} /\ conn[h].out = NoReply
    BY <1>1, <1>2, <1>5, <1>7 DEF Carried
  <1>9. Carried(h) \subseteq InHand(h) \cup Wired(h)
    BY DEF Carried
  <1> QED BY <1>1, <1>2, <1>6, <1>8, <1>9

\* While the worker lives, what was admitted is queued or was popped.
TakenInv ==
  ~died => \A k \in work.admitted : k \in ToSet(pending) \/ \E h \in Handles : k \in work.taken[h]

\* A connection that stands lost nothing; one that broke held one piece of work
\* at most, and no new one came.
LossInv(h) ==
  ~handle[h].late =>
    /\ conn[h].alive => Lost(h) = {}
    /\ ~conn[h].alive => \E x : Lost(h) \cup Carried(h) \subseteq {x}

\* Steps that pop nothing, and take nothing out of the queue.
Keeps ==
  /\ work'.taken = work.taken /\ died' = died
  /\ \A k \in work'.admitted : k \in work.admitted \/ k \in ToSet(pending')
  /\ ToSet(pending) \subseteq ToSet(pending')

LEMMA MoveKeeps ==
  ASSUME LinkType, WorkType, NEW h \in Handles, FreshInv(h), Moves(h)
  PROVE  \/ Keeps
         \/ \E r \in Replies : Serves(h, r) /\ Pops(h, r)
  <1>1. CASE \/ Begins(h) \/ Reads(h) \/ GivesUp(h) \/ Strays(h) \/ Stalls(h) \/ Sends(h)
             \/ Breaks(h)
    <2>1. /\ work'.taken = work.taken /\ died' = died /\ work'.admitted = work.admitted
          /\ pending' = pending
      BY <1>1 DEF Begins, Reads, GivesUp, Strays, Finishes, Stalls, Sends, Breaks
    <2> QED BY <2>1 DEF Keeps
  <1>2. ASSUME NEW r \in Replies, Serves(h, r), Ignores(r) PROVE Keeps
    BY <1>2 DEF Keeps, Serves, Ignores
  <1>3. ASSUME NEW r \in Replies, Serves(h, r), Admits(h, r) PROVE Keeps
    <2> DEFINE k == Head(req[h]).ticket
    <2>1. /\ pending' = Append(pending, k) /\ work' = [work EXCEPT !.admitted = @ \cup {k}]
          /\ Head(req[h]).kind = "enqueue" /\ req[h] # <<>> /\ died' = died
      BY <1>3 DEF Admits, Serves
    <2>2. k \in 1 .. work.issued /\ k \notin work.admitted
      BY <2>1, HeadTicket
    <2>3. k \in Tickets /\ pending \in Seq(Tickets)
      BY <2>2, BoundsAssumption DEF WorkType, Tickets
    <2> HIDE DEF k
    <2>4. work'.admitted = work.admitted \cup {k} /\ work'.taken = work.taken
      BY <2>1 DEF WorkType
    <2>5. ToSet(pending') = ToSet(pending) \cup {k}
      BY <2>1, <2>3, SetsOfSeq
    <2> QED BY <2>1, <2>4, <2>5 DEF Keeps
  <1> QED BY <1>1, <1>2, <1>3 DEF Moves

\* A pop moves the head of the queue to the connection it was made for.
LEMMA PopTakes ==
  ASSUME LinkType, WorkType, PlacesInv, TakenInv, NEW h \in Handles, NEW r \in Replies,
         Serves(h, r), Pops(h, r)
  PROVE  /\ work'.taken[h] = work.taken[h] \cup {r.data}
         /\ \A g \in Handles : g # h => work'.taken[g] = work.taken[g]
         /\ InHand(h)' = {r.data} /\ InHand(h) = {}
         /\ Wired(h)' = Wired(h) /\ Stolen(h)' = Stolen(h)
         /\ conn[h].alive /\ conn'[h].alive /\ handle' = handle
         /\ TakenInv'
  <1>1. /\ r.kind = "steal" /\ pending # <<>> /\ r.data = Head(pending)
        /\ pending' = Tail(pending)
    BY DEF Pops
  <1>2. /\ work'.admitted = work.admitted /\ work'.received = work.received
        /\ work'.taken = [work.taken EXCEPT ![h] = @ \cup {r.data}] /\ r.data \in Tickets
    BY PopEffect
  <1>3. pending \in Seq(Tickets) /\ IsInjective(pending)
    BY DEF WorkType, PlacesInv, PendingInv
  <1>4. ToSet(pending') = ToSet(pending) \ {r.data}
    BY <1>1, <1>3, SetsOfSeq
  <1>5. /\ work'.taken[h] = work.taken[h] \cup {r.data}
        /\ \A g \in Handles : g # h => work'.taken[g] = work.taken[g]
    BY <1>2 DEF WorkType
  <1>6. r.data # NoWork
    BY <1>2, BoundsAssumption DEF Tickets, NoWork
  <1>7. /\ conn'[h].out = r /\ resp' = resp /\ conn[h].out = NoReply /\ handle' = handle
        /\ conn[h].alive /\ conn'[h].alive /\ died' = died
    BY DEF Serves
  <1>8. InHand(h)' = {r.data} /\ InHand(h) = {}
    BY <1>1, <1>6, <1>7, NoCallKind DEF InHand
  <1>9. Wired(h)' = Wired(h) /\ Stolen(h)' = Stolen(h)
    BY <1>2, <1>7 DEF Wired, OnWire, Stolen
  <1>10. TakenInv'
    BY <1>2, <1>4, <1>5, <1>7 DEF TakenInv
  <1> QED BY <1>5, <1>7, <1>8, <1>9, <1>10

\* Another connection holds what it held.
LEMMA LossOfOthers ==
  ASSUME NEW h, Others(h), NEW g \in Handles, g # h, work'.taken[g] = work.taken[g], LossInv(g)
  PROVE  LossInv(g)'
  <1>1. /\ resp'[g] = resp[g] /\ conn'[g] = conn[g] /\ handle'[g] = handle[g]
        /\ work'.received[g] = work.received[g]
    BY DEF Others
  <1>2. InHand(g)' = InHand(g)
    BY ONLY <1>1 DEF InHand
  <1>3. Wired(g)' = Wired(g)
    BY ONLY <1>1 DEF Wired, OnWire
  <1>4. Stolen(g)' = Stolen(g)
    BY ONLY <1>1 DEF Stolen
  <1>5. Carried(g)' = Carried(g)
    BY ONLY <1>1, <1>2, <1>3 DEF Carried
  <1>6. Lost(g)' = Lost(g)
    BY <1>4, <1>5 DEF Lost
  <1> QED BY <1>1, <1>5, <1>6 DEF LossInv

\* What h holds after a step that pops nothing for it.
HoldsOn(h) ==
  /\ Carried(h)' \subseteq Carried(h) /\ Stolen(h) \subseteq Held(h)'
  /\ conn'[h].alive => conn[h].alive
  /\ conn'[h].alive \/ ~conn[h].alive => Held(h) \subseteq Held(h)'

LEMMA LossOfOwn ==
  ASSUME LinkType, NEW h \in Handles, HandleInv(h), LossInv(h), HoldsOn(h),
         work'.taken[h] = work.taken[h], handle'[h].late \/ ~handle[h].late
  PROVE  LossInv(h)'
  <1> SUFFICES ASSUME ~handle'[h].late PROVE LossInv(h)'
    BY DEF LossInv
  <1>1. ~handle[h].late
    OBVIOUS
  <1>2. /\ Lost(h) = work.taken[h] \ Held(h) /\ Lost(h)' = work.taken[h] \ Held(h)'
        /\ Held(h) = Carried(h) \cup Stolen(h)
    BY DEF Lost, Held
  <1>3. CASE conn'[h].alive
    <2>1. Lost(h) = {} /\ Held(h) \subseteq Held(h)'
      BY <1>1, <1>3 DEF LossInv, HoldsOn
    <2> QED BY <1>2, <1>3, <2>1 DEF LossInv
  <1>4. CASE ~conn'[h].alive /\ conn[h].alive
    <2>1. Lost(h) = {} /\ Stolen(h) \subseteq Held(h)' /\ Carried(h)' \subseteq Carried(h)
      BY <1>1, <1>4 DEF LossInv, HoldsOn
    <2>2. PICK x : Carried(h) \subseteq {x}
      BY <1>1, CarriesOne
    <2>3. Lost(h)' \cup Carried(h)' \subseteq {x}
      BY <1>2, <2>1, <2>2
    <2> QED BY <1>4, <2>3 DEF LossInv
  <1>5. CASE ~conn'[h].alive /\ ~conn[h].alive
    <2>1. Held(h) \subseteq Held(h)' /\ Carried(h)' \subseteq Carried(h)
      BY <1>5 DEF HoldsOn
    <2>2. PICK x : Lost(h) \cup Carried(h) \subseteq {x}
      BY <1>1, <1>5 DEF LossInv
    <2>3. Lost(h)' \cup Carried(h)' \subseteq {x}
      BY <1>2, <2>1, <2>2
    <2> QED BY <1>5, <2>3 DEF LossInv
  <1> QED BY <1>3, <1>4, <1>5

\* The connection that moves holds on to its work, unless it breaks.
LEMMA MoveHoldsOn ==
  ASSUME LinkType, WorkType, PlacesInv, NEW h \in Handles, HandleInv(h), Moves(h),
         ~handle[h].late, ~handle'[h].late,
         ~\E r \in Replies : Serves(h, r) /\ Pops(h, r)
  PROVE  HoldsOn(h)
  <1>0. work.received[h] \in Seq(Tickets) /\ resp[h] \in Seq(Replies)
    BY DEF WorkType, LinkType
  <1>1. /\ Wired(h) = StealData(resp[h]) /\ Stolen(h) = ToSet(work.received[h])
        /\ Wired(h)' = StealData(resp'[h]) /\ Stolen(h)' = ToSet(work'.received[h])
    BY DEF Wired, OnWire, StealData, Steals, Stolen
  <1>2. /\ Held(h) = Carried(h) \cup Stolen(h) /\ Held(h)' = Carried(h)' \cup Stolen(h)'
        /\ Carried(h) \subseteq InHand(h) \cup Wired(h)
        /\ Carried(h)' \subseteq InHand(h)' \cup Wired(h)'
    BY DEF Held, Carried
  <1>3. CASE Begins(h)
    <2>1. /\ handle[h].open /\ handle'[h].open /\ resp' = resp /\ conn' = conn
          /\ work'.received = work.received
      BY <1>3 DEF Begins
    <2>2. Carried(h)' = Carried(h) /\ Stolen(h)' = Stolen(h)
      BY <2>1 DEF Carried, InHand, Wired, OnWire, Stolen
    <2> QED BY <1>2, <2>1, <2>2 DEF HoldsOn
  <1>4. CASE GivesUp(h)
    <2>1. /\ ~conn[h].alive /\ resp[h] = <<>> /\ resp' = resp /\ conn' = conn
          /\ work'.received[h] = work.received[h]
      BY <1>4 DEF GivesUp, Finishes
    <2>2. InHand(h) = {} /\ Wired(h) = {}
      BY <2>1, CarriesOne DEF HandleInv, ThreadInv
    <2>3. InHand(h)' = {} /\ Wired(h)' = {}
      BY <1>1, <2>1, <2>2 DEF InHand
    <2> QED BY <1>1, <1>2, <2>1, <2>2, <2>3 DEF HoldsOn
  <1>5. CASE Reads(h)
    <2>1. PICK k \in 0 .. MaxWork :
            /\ resp[h] # <<>> /\ handle[h].call # NoCall /\ resp'[h] = Tail(resp[h])
            /\ conn' = conn
            /\ work'.received[h] = IF k = NoWork THEN work.received[h]
                                   ELSE Append(work.received[h], k)
            /\ Head(resp[h]).kind = handle[h].call.kind /\ Head(resp[h]).kind = "steal" =>
                 k = Head(resp[h]).data
      BY <1>5 DEF Reads, Finishes
    <2>2. /\ conn[h].out = NoReply /\ Len(resp[h]) = 1
          /\ resp[h][1].kind = handle[h].call.kind
      BY <2>1 DEF HandleInv, InStepInv, Answers
    <2>3. Head(resp[h]) = resp[h][1] /\ DOMAIN resp[h] = 1 .. 1 /\ DOMAIN Tail(resp[h]) = 1 .. 0
      <3>1. DOMAIN resp[h] = 1 .. Len(resp[h]) /\ Head(resp[h]) = resp[h][1]
            /\ DOMAIN Tail(resp[h]) = 1 .. Len(resp[h]) - 1
        BY <1>0, <2>1, SeqEnds
      <3> QED BY <2>2, <3>1
    <2>4. InHand(h) = {} /\ InHand(h)' = {}
      BY <2>1, <2>2, NoCallKind DEF InHand
    <2>5. Wired(h) \subseteq IF k = NoWork THEN {} ELSE {k}
      BY <2>1, <2>2, <2>3 DEF Wired, OnWire
    <2>6. Wired(h)' = {}
      BY <1>1, <2>1, <2>3 DEF StealData, Steals
    <2>7. Stolen(h)' = IF k = NoWork THEN Stolen(h) ELSE Stolen(h) \cup {k}
      <3>1. CASE k = NoWork
        BY <1>1, <2>1, <3>1
      <3>2. CASE k # NoWork
        <4>1. k \in Tickets /\ work'.received[h] = Append(work.received[h], k)
          BY <2>1, <3>2, BoundsAssumption DEF NoWork, Tickets
        <4>2. ToSet(Append(work.received[h], k)) = ToSet(work.received[h]) \cup {k}
          BY ONLY <1>0, <4>1, SetsOfSeq
        <4> QED BY <1>1, <3>2, <4>1, <4>2
      <3> QED BY <3>1, <3>2
    <2> QED BY <1>2, <2>1, <2>4, <2>5, <2>6, <2>7 DEF HoldsOn
  <1>6. CASE Strays(h) \/ Stalls(h)
    <2>1. handle[h].astray \/ handle'[h].late
      BY <1>6 DEF Strays, Stalls, Finishes
    <2> QED BY <2>1 DEF HandleInv, AstrayInv
  <1>7. CASE Sends(h)
    <2> DEFINE r == conn[h].out
    <2>1. /\ r # NoReply /\ handle' = handle /\ work' = work /\ conn[h].alive
          /\ conn'[h].out = NoReply
          /\ resp'[h] = IF handle[h].open THEN Append(resp[h], r) ELSE resp[h]
      BY <1>7 DEF Sends
    <2>2. r \in Replies
      BY <2>1 DEF LinkType
    <2>3. handle[h].open /\ resp'[h] = Append(resp[h], r)
      BY <2>1, CarriesOne
    <2>4. /\ InHand(h) = IF r.kind = "steal" /\ r.data # NoWork THEN {r.data} ELSE {}
          /\ InHand(h)' = {}
      BY <2>1, NoCallKind DEF InHand
    <2> HIDE DEF r
    <2>5. StealOnce(resp[h])
          /\ (r.kind = "steal" /\ r.data # NoWork => r.data \notin StealData(resp[h]))
      <3>1. PlaceOf(work.admitted, ToSet(pending), InHand(h), resp[h], work.received[h])
        BY PlaceInvIs DEF PlacesInv
      <3> QED BY <2>4, <3>1 DEF PlaceOf
    <2>6. /\ StealData(resp[h]) \subseteq StealData(Append(resp[h], r))
          /\ r.kind = "steal" /\ r.data # NoWork => r.data \in StealData(Append(resp[h], r))
          /\ \A x \in StealData(Append(resp[h], r)) :
              x \in StealData(resp[h]) \/ (r.kind = "steal" /\ r.data # NoWork /\ x = r.data)
      BY ONLY <1>0, <2>2, <2>5, AppendSteals
    <2>7. InHand(h) \cup Wired(h) = Wired(h)'
      BY <1>1, <2>3, <2>4, <2>6
    <2>8. Carried(h) = Carried(h)'
      BY <2>1, <2>3, <2>4, <2>7 DEF Carried
    <2>9. Stolen(h)' = Stolen(h)
      BY <1>1, <2>1
    <2> QED BY <1>2, <2>1, <2>8, <2>9 DEF HoldsOn
  <1>8. CASE Breaks(h)
    <2>1. /\ conn[h].alive /\ ~conn'[h].alive /\ handle' = handle /\ conn'[h].out = NoReply
          /\ work' = work /\ resp'[h] \in {resp[h], <<>>}
      BY <1>8 DEF Breaks
    <2>2. InHand(h)' = {} /\ Stolen(h)' = Stolen(h)
      BY <1>1, <2>1, NoCallKind DEF InHand
    <2>3. Wired(h)' \subseteq Wired(h)
      BY <1>1, <2>1 DEF StealData, Steals
    <2>4. Carried(h)' \subseteq Carried(h)
      BY <2>1, <2>2, <2>3 DEF Carried
    <2> QED BY <1>2, <2>1, <2>2, <2>4 DEF HoldsOn
  <1>9. ASSUME NEW r \in Replies, Serves(h, r), Admits(h, r) \/ Ignores(r)
        PROVE  HoldsOn(h)
    <2>1. /\ conn'[h].out = r /\ handle' = handle /\ resp' = resp /\ conn[h].out = NoReply
          /\ conn[h].alive /\ conn'[h].alive /\ r.kind = Head(req[h]).kind
      BY <1>9 DEF Serves
    <2>2. work'.received = work.received /\ ~(r.kind = "steal" /\ r.data # NoWork)
      <3>1. CASE Ignores(r)
        BY <3>1 DEF Ignores
      <3>2. CASE Admits(h, r)
        <4>1. work' = [work EXCEPT !.admitted = @ \cup {Head(req[h]).ticket}]
              /\ r.kind = "enqueue"
          BY <2>1, <3>2 DEF Admits
        <4> QED BY <4>1 DEF WorkType
      <3> QED BY <1>9, <3>1, <3>2
    <2>3. InHand(h) = {} /\ InHand(h)' = {} /\ Wired(h)' = Wired(h) /\ Stolen(h)' = Stolen(h)
      BY <1>1, <2>1, <2>2, NoCallKind DEF InHand
    <2>4. Carried(h)' = Carried(h)
      BY <2>1, <2>3 DEF Carried
    <2> QED BY <1>2, <2>1, <2>3, <2>4 DEF HoldsOn
  <1> QED BY <1>3, <1>4, <1>5, <1>6, <1>7, <1>8, <1>9 DEF Moves

LEMMA LossStep ==
  ASSUME LinkType, WorkType, PlacesInv, \A h \in Handles : HandleInv(h),
         TakenInv, \A h \in Handles : LossInv(h), [Next]_vars
  PROVE  TakenInv' /\ \A h \in Handles : LossInv(h)'
  <1>1. CASE UNCHANGED vars
    <2>1. UNCHANGED <<handle, resp, conn, pending, died, work>>
      BY <1>1 DEF vars, net, node
    <2>2. TakenInv'
      BY <2>1 DEF TakenInv
    <2>3. ASSUME NEW h \in Handles PROVE LossInv(h)'
      <3>1. Carried(h)' = Carried(h) /\ Stolen(h)' = Stolen(h)
        BY ONLY <2>1 DEF Carried, InHand, Wired, OnWire, Stolen
      <3>2. Lost(h)' = Lost(h)
        BY ONLY <2>1, <3>1 DEF Lost
      <3> QED BY <2>1, <3>1, <3>2 DEF LossInv
    <2> QED BY <2>2, <2>3
  <1>2. CASE WorkerDies
    <2>1. /\ died' /\ UNCHANGED <<handle, resp, work>>
          /\ \A h \in Handles : ~conn'[h].alive /\ conn'[h].out = NoReply
      BY <1>2, DeathEffect
    <2>2. TakenInv'
      BY <2>1 DEF TakenInv
    <2>3. ASSUME NEW h \in Handles PROVE LossInv(h)'
      <3>1. InHand(h)' = {} /\ Wired(h)' = Wired(h) /\ Stolen(h)' = Stolen(h)
        BY <2>1, NoCallKind DEF InHand, Wired, OnWire, Stolen
      <3>2. Carried(h)' \subseteq Carried(h) /\ Carried(h) \subseteq Carried(h)' \cup InHand(h)
        BY <2>1, <3>1 DEF Carried
      <3>3. ~conn[h].alive => InHand(h) = {}
        BY NoCallKind DEF HandleInv, ThreadInv, InHand
      <3>4. HoldsOn(h)
        BY <2>1, <3>1, <3>2, <3>3 DEF HoldsOn, Held
      <3>5. work'.taken[h] = work.taken[h] /\ handle'[h].late = handle[h].late
        BY <2>1
      <3>6. CASE handle[h].late
        BY <2>1, <3>6 DEF LossInv
      <3> QED BY <3>4, <3>5, <3>6, LossOfOwn
    <2> QED BY <2>2, <2>3
  <1>3. ASSUME NEW h \in Handles, Moves(h), Others(h)
        PROVE  TakenInv' /\ \A g \in Handles : LossInv(g)'
    <2>1. CASE \E r \in Replies : Serves(h, r) /\ Pops(h, r)
      <3>1. PICK r \in Replies : Serves(h, r) /\ Pops(h, r)
        BY <2>1
      <3>2. /\ work'.taken[h] = work.taken[h] \cup {r.data}
            /\ \A g \in Handles : g # h => work'.taken[g] = work.taken[g]
            /\ InHand(h)' = {r.data} /\ InHand(h) = {}
            /\ Wired(h)' = Wired(h) /\ Stolen(h)' = Stolen(h)
            /\ conn[h].alive /\ conn'[h].alive /\ handle' = handle
            /\ TakenInv'
        BY <3>1, PopTakes
      <3>3. LossInv(h)'
        <4>1. Carried(h)' = Carried(h) \cup {r.data}
          BY <3>2 DEF Carried
        <4>2. Lost(h)' \subseteq Lost(h)
          BY <3>2, <4>1 DEF Lost
        <4> QED BY <3>2, <4>2 DEF LossInv
      <3>4. ASSUME NEW g \in Handles, g # h PROVE LossInv(g)'
        BY <1>3, <3>2, <3>4, LossOfOthers
      <3> QED BY <3>2, <3>3, <3>4
    <2>2. CASE ~\E r \in Replies : Serves(h, r) /\ Pops(h, r)
      <3>1. Keeps
        BY <1>3, <2>2, MoveKeeps DEF HandleInv
      <3>2. TakenInv'
        BY <3>1 DEF Keeps, TakenInv
      <3>3. ASSUME NEW g \in Handles, g # h PROVE LossInv(g)'
        BY <1>3, <3>1, <3>3, LossOfOthers DEF Keeps
      <3>4. LossInv(h)'
        <4>1. handle[h].late => handle'[h].late
          BY <1>3 DEF Moves, Begins, Reads, GivesUp, Strays, Stalls, Finishes, Sends, Breaks,
                      Serves
        <4>2. CASE handle'[h].late
          BY <4>2 DEF LossInv
        <4>3. CASE ~handle'[h].late
          <5>1. HoldsOn(h)
            BY <1>3, <2>2, <4>1, <4>3, MoveHoldsOn
          <5>2. work'.taken[h] = work.taken[h]
            BY <3>1 DEF Keeps
          <5> QED BY <4>1, <4>3, <5>1, <5>2, LossOfOwn
        <4> QED BY <4>2, <4>3
      <3> QED BY <3>2, <3>3, <3>4
    <2> QED BY <2>1, <2>2
  <1>4. \/ UNCHANGED vars \/ WorkerDies \/ \E h \in Handles : Moves(h) /\ Others(h)
    <2>1. \A h \in Handles : FreshInv(h) /\ AstrayInv(h) /\ PlaceInv(h)
      BY DEF HandleInv, PlacesInv
    <2> QED BY <2>1, StepEffect
  <1> QED BY <1>1, <1>2, <1>3, <1>4

-----------------------------------------------------------------------------
(* The theorems *)

LEMMA WorkerInit == Init => WorkerInv
  <1> SUFFICES ASSUME Init PROVE WorkerInv
    OBVIOUS
  <1> USE BoundsAssumption
  <1>1. LinkType
    BY DEF Init, LinkType
  <1>2. WorkType
    BY DEF Init, WorkType, Outcomes, Tickets, NoWork
  <1>3. TicketInv
    <2>1. work.admitted = {} /\ work.issued = 0 /\ \A k \in Tickets : work.outcome[k] = "none"
      BY DEF Init
    <2> QED BY <2>1 DEF TicketInv, Tickets
  <1>4. /\ pending = <<>> /\ work.issued = 0
        /\ \A h \in Handles : /\ ~handle[h].astray /\ handle[h].call = NoCall /\ handle[h].open
                              /\ req[h] = <<>> /\ resp[h] = <<>> /\ conn[h].alive
                              /\ conn[h].out = NoReply /\ work.received[h] = <<>>
    BY DEF Init
  <1>5. ToSet(pending) = {} /\ IsInjective(pending)
    BY <1>4 DEF ToSet, IsInjective
  <1>6. PendingInv
    BY <1>5 DEF PendingInv
  <1>7. ASSUME NEW h \in Handles
        PROVE  /\ Mine(h) = {} /\ PlaceInv(h)
               /\ FreshInv(h) /\ CallInv(h) /\ AstrayInv(h) /\ InStepInv(h) /\ ThreadInv(h)
    <2>1. InHand(h) = {} /\ OnWire(h) = {} /\ Wired(h) = {}
      BY <1>4, NoCallKind DEF InHand, OnWire, Wired
    <2>2. Stolen(h) = {} /\ IsInjective(work.received[h])
      BY <1>4 DEF Stolen, ToSet, IsInjective
    <2>3. Mine(h) = {}
      BY <2>1, <2>2 DEF Mine
    <2>4. PlaceInv(h)
      BY <2>1, <2>2, <2>3 DEF PlaceInv
    <2>5. FreshInv(h) /\ CallInv(h) /\ AstrayInv(h) /\ InStepInv(h) /\ ThreadInv(h)
      BY <1>4 DEF FreshInv, CallInv, AstrayInv, InStepInv, ThreadInv
    <2> QED BY <2>3, <2>4, <2>5
  <1>8. Disjoint
    BY <1>7 DEF Disjoint
  <1>9. AdmissionTruthful /\ AnswerOwed
    BY <1>4 DEF AdmissionTruthful, AnswerOwed
  <1> QED BY <1>1, <1>2, <1>3, <1>6, <1>7, <1>8, <1>9 DEF WorkerInv

LEMMA WorkerStep == WorkerInv /\ [Next]_vars => WorkerInv'
  <1> SUFFICES ASSUME WorkerInv, [Next]_vars PROVE WorkerInv'
    OBVIOUS
  <1>1. /\ LinkType /\ WorkType /\ TicketInv /\ AdmissionTruthful /\ PlacesInv
        /\ \A h \in Handles : HandleInv(h) /\ PlaceInv(h)
    BY DEF WorkerInv, HandleInv, PlacesInv, AnswerOwed, OwedInv
  <1>2. \A h \in Handles : FreshInv(h) /\ AstrayInv(h)
    BY <1>1 DEF HandleInv
  <1>3. LinkType' /\ WorkType'
    BY <1>1, <1>2, StepEffect
  <1>4. \A h \in Handles : HandleInv(h)'
    BY <1>1, HandleStep
  <1>5. TicketInv' /\ AdmissionTruthful'
    BY <1>1, TicketStep
  <1>6. PlacesInv'
    BY <1>1, <1>2, PlacesStep
  <1>7. AnswerOwed'
    BY <1>4 DEF HandleInv, OwedInv, AnswerOwed
  <1> QED BY <1>3, <1>4, <1>5, <1>6, <1>7 DEF WorkerInv, HandleInv, PlacesInv

\* The invariant of the worker, its connections and the handles on their other
\* ends.
THEOREM WorkerInvariant == Spec => []WorkerInv
  BY WorkerInit, WorkerStep, PTL DEF Spec

\* AtMostOnce: StealWork's pop hands a piece of work to one connection, and no
\* timeout, broken connection or late reply makes a second copy of it.
THEOREM WorkerAtMostOnce == Spec => []AtMostOnce
  <1>1. WorkerInv => AtMostOnce
    <2> SUFFICES ASSUME WorkerInv PROVE AtMostOnce
      OBVIOUS
    <2>1. IsInjective(pending)
      BY DEF WorkerInv, PendingInv
    <2>2. ASSUME NEW h \in Handles
          PROVE  Carried(h) \cup Stolen(h) \subseteq Mine(h)
                 /\ Carried(h) \subseteq InHand(h) \cup Wired(h)
      BY DEF Carried, Mine
    <2>3. ASSUME NEW h \in Handles
          PROVE  /\ IsInjective(work.received[h])
                 /\ \A i, j \in OnWire(h) : i # j => resp[h][i].data # resp[h][j].data
                 /\ ToSet(pending) \cap (Carried(h) \cup Stolen(h)) = {}
                 /\ InHand(h) \cap Wired(h) = {}
                 /\ Carried(h) \cap Stolen(h) = {}
      <3>1. PlaceInv(h)
        BY DEF WorkerInv
      <3> QED BY <2>2, <3>1 DEF PlaceInv
    <2>4. ASSUME NEW h \in Handles, NEW g \in Handles \ {h}
          PROVE  (Carried(h) \cup Stolen(h)) \cap (Carried(g) \cup Stolen(g)) = {}
      <3>1. Mine(h) \cap Mine(g) = {}
        BY DEF WorkerInv, Disjoint
      <3> QED BY <2>2, <3>1
    <2> QED BY <2>1, <2>3, <2>4 DEF AtMostOnce
  <1> QED BY <1>1, WorkerInvariant, PTL

\* AdmissionTruthful: on a handle whose calls never timed out, true from
\* enqueue_fragment means that the worker's queue took this fragment, and false
\* that it did not.
THEOREM WorkerAdmissionTruthful == Spec => []AdmissionTruthful
  <1>1. WorkerInv => AdmissionTruthful
    BY DEF WorkerInv
  <1> QED BY <1>1, WorkerInvariant, PTL

\* AnswerOwed: handle_connection answers or drops the connection on every path,
\* so that a NodeHandle that set no read timeout never waits for nothing.
THEOREM WorkerAnswerOwed == Spec => []AnswerOwed
  <1>1. WorkerInv => AnswerOwed
    BY DEF WorkerInv
  <1> QED BY <1>1, WorkerInvariant, PTL

\* LossBounded: while the process lives, admitted work is queued or was popped
\* for one connection; a connection whose calls neither timed out nor gave up a
\* frame loses none of it while it stands and one piece at most when it breaks.
THEOREM WorkerLossBounded == Spec => []LossBounded
  <1> DEFINE AllLoss == TakenInv /\ \A h \in Handles : LossInv(h)
  <1>1. Init => AllLoss
    <2> SUFFICES ASSUME Init PROVE AllLoss
      OBVIOUS
    <2>1. TakenInv
      BY DEF Init, TakenInv
    <2>2. ASSUME NEW h \in Handles PROVE LossInv(h)
      <3>1. work.taken[h] = {} /\ conn[h].alive
        BY DEF Init
      <3> QED BY <3>1 DEF LossInv, Lost
    <2> QED BY <2>1, <2>2
  <1>2. WorkerInv /\ AllLoss /\ [Next]_vars => AllLoss'
    <2> SUFFICES ASSUME WorkerInv, AllLoss, [Next]_vars PROVE AllLoss'
      OBVIOUS
    <2>1. /\ LinkType /\ WorkType /\ PlacesInv
          /\ \A h \in Handles : HandleInv(h)
      BY DEF WorkerInv, HandleInv, PlacesInv, AnswerOwed, OwedInv
    <2> QED BY <2>1, LossStep
  <1>3. AllLoss => LossBounded
    <2> SUFFICES ASSUME AllLoss PROVE LossBounded
      OBVIOUS
    <2>1. ~died => work.admitted \subseteq
                     ToSet(pending) \cup UNION {work.taken[h] : h \in Handles}
      BY DEF TakenInv
    <2>2. ASSUME NEW h \in Handles, ~handle[h].late
          PROVE  Cardinality(Lost(h)) <= 1 /\ (conn[h].alive => Lost(h) = {})
      <3>1. \E x : Lost(h) \subseteq {x}
        BY <2>2 DEF LossInv
      <3>2. PICK x : Lost(h) \subseteq {x}
        BY <3>1
      <3>3. IsFiniteSet({x}) /\ Cardinality({x}) = 1
        BY FS_Singleton
      <3>4. Cardinality(Lost(h)) <= 1
        BY <3>2, <3>3, FS_Subset
      <3> QED BY <2>2, <3>4 DEF LossInv
    <2> QED BY <2>1, <2>2 DEF LossBounded
  <1> HIDE DEF AllLoss
  <1> QED BY <1>1, <1>2, <1>3, WorkerInvariant, PTL DEF Spec
================================================================================
