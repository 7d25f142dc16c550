----------------------- MODULE AppendOnlyResults_proofs -----------------------
(***************************************************************************)
(* For every capacity, every number of threads and every record length:    *)
(* reserved ranges never overlap, a returned record is complete, a reader  *)
(* sees only stored values, and no published slot is written again.        *)
(***************************************************************************)
EXTENDS AppendOnlyResults, TLAPS

-----------------------------------------------------------------------------
(* The inductive invariant *)

ThreadStates == [pc : {"idle", "reserve", "bits", "ready", "load", "got"},
                 start : Nat, rec : Records \cup {<<>>},
                 next : Nat \ {0}, seen : Values \cup {None}]

Apart(s, n, r, m) == s + n <= r \/ r + m <= s

\* A thread that publishes owns reserved slots; those from its next field on
\* are not ready.  A thread that is about to set the flag has stored the bits.
ThreadInv(t) ==
    /\ th[t].pc = "reserve" => th[t].rec \in Records /\ th[t].next = 1
    /\ Publishing(t) =>
         /\ th[t].rec \in Records
         /\ th[t].start + Len(th[t].rec) <= reserved
         /\ th[t].next <= Len(th[t].rec)
         /\ \A k \in 1..Len(th[t].rec) :
              IF k < th[t].next
                THEN /\ ready[th[t].start + k - 1]
                     /\ bits[th[t].start + k - 1] = th[t].rec[k]
                ELSE ~ready[th[t].start + k - 1]
    /\ th[t].pc = "ready" => bits[Slot(t)] = th[t].rec[th[t].next]
    /\ th[t].pc \in {"load", "got"} => th[t].start \in Indices /\ ready[th[t].start]
    /\ th[t].pc = "got" => th[t].seen = bits[th[t].start]

RangesApart ==
    /\ \A t, u \in Threads :
         t # u /\ Publishing(t) /\ Publishing(u)
           => Apart(th[t].start, Len(th[t].rec), th[u].start, Len(th[u].rec))
    /\ \A t \in Threads, r \in returned :
         Publishing(t) => Apart(th[t].start, Len(th[t].rec), r.start, Len(r.rec))

Inv ==
    /\ TypeOK
    /\ \A t \in Threads : ThreadInv(t)
    /\ RangesApart
    /\ \A r \in returned : r.start + Len(r.rec) <= reserved
    /\ ReturnedComplete
    /\ \A i \in Indices : ready[i] => i < reserved /\ bits[i] \in Values

-----------------------------------------------------------------------------
\* A record is a nonempty sequence of values.
LEMMA RecordShape ==
    ASSUME NEW r \in Records
    PROVE  /\ Len(r) \in Nat /\ Len(r) >= 1
           /\ \A k \in 1..Len(r) : r[k] \in Values
  <1>1. PICK n \in 1..MaxRecord : r \in [1..n -> Values]
    BY DEF Records
  <1>2. n \in Nat
    BY <1>1, MaxRecordAssumption
  <1>3. r \in Seq(Values) /\ Len(r) = n
    BY <1>1, <1>2
  <1> QED BY <1>1, <1>2, <1>3

\* An idle thread has the type of a thread.
LEMMA IdleType == Idle \in ThreadStates /\ Idle.pc = "idle"
  BY DEF Idle, ThreadStates

\* The storage starts empty.
LEMMA InvInit == Init => Inv
  <1> SUFFICES ASSUME Init PROVE Inv
    OBVIOUS
  <1>1. \A t \in Threads : th[t] = Idle /\ th[t].pc = "idle"
    BY DEF Init, Idle
  <1>2. TypeOK
    <2>1. Idle \in ThreadStates
      BY IdleType
    <2> QED BY <2>1, CapacityAssumption DEF Init, TypeOK, ThreadStates
  <1>3. \A t \in Threads : ThreadInv(t) /\ ~Publishing(t)
    BY <1>1 DEF ThreadInv, Publishing
  <1> QED BY <1>2, <1>3 DEF Init, Inv, RangesApart, ReturnedComplete

\* A step that moves one thread, outside publication, and no shared word.
LEMMA LocalStep ==
    ASSUME Inv, NEW t \in Threads, NEW x \in ThreadStates,
           th' = [th EXCEPT ![t] = x], UNCHANGED <<reserved, bits, ready, returned>>,
           x.pc \notin {"bits", "ready"},
           x.pc = "reserve" => x.rec \in Records /\ x.next = 1,
           x.pc \in {"load", "got"} => x.start \in Indices /\ ready[x.start],
           x.pc = "got" => x.seen = bits[x.start]
    PROVE  Inv'
  <1>1. TypeOK'
    BY DEF Inv, TypeOK, ThreadStates
  <1>2. th'[t] = x /\ ~Publishing(t)'
    BY DEF Inv, TypeOK, Publishing
  <1>3. \A u \in Threads : u # t => th'[u] = th[u]
    BY DEF Inv, TypeOK
  <1>4. \A u \in Threads : ThreadInv(u)'
    <2> TAKE u \in Threads
    <2>1. CASE u = t
      BY <1>2, <2>1 DEF ThreadInv, Publishing
    <2>2. CASE u # t
      BY <1>3, <2>2 DEF Inv, ThreadInv, Publishing, Slot
    <2> QED BY <2>1, <2>2
  <1>5. RangesApart'
    BY <1>2, <1>3 DEF Inv, RangesApart, Publishing
  <1> QED BY <1>1, <1>4, <1>5 DEF Inv, ReturnedComplete

\* Reserving takes the slots from reserved on, which nobody owns yet.
LEMMA ReserveStep ==
    ASSUME Inv, NEW t \in Threads, Reserve(t)
    PROVE  Inv'
  <1> DEFINE n == Len(th[t].rec)
  <1>1. /\ th[t].rec \in Records /\ n \in Nat /\ n >= 1
        /\ th[t].next = 1
    BY RecordShape DEF Reserve, Inv, ThreadInv, TypeOK, ThreadStates
  <1>2. CASE ~(reserved + n <= Capacity)
    <2>1. th' = [th EXCEPT ![t] = Idle] /\ UNCHANGED <<reserved, bits, ready, returned>>
      BY <1>2 DEF Reserve
    <2> QED BY <2>1, IdleType, LocalStep
  <1>3. CASE reserved + n <= Capacity
    <2>1. /\ reserved' = reserved + n /\ UNCHANGED <<bits, ready, returned>>
          /\ th' = [th EXCEPT ![t].pc = "bits", ![t].start = reserved]
      BY <1>3 DEF Reserve
    <2>2. reserved \in Nat /\ reserved' \in 0..Capacity
      BY <1>1, <1>3, <2>1, CapacityAssumption DEF Inv, TypeOK
    <2>3. TypeOK'
      BY <2>1, <2>2 DEF Inv, TypeOK
    <2>4. /\ th'[t].pc = "bits" /\ th'[t].start = reserved
          /\ th'[t].rec = th[t].rec /\ th'[t].next = th[t].next
          /\ \A u \in Threads : u # t => th'[u] = th[u]
      BY <2>1 DEF Inv, TypeOK
    <2>5. ThreadInv(t)'
      <3>1. \A k \in 1..n : ~ready[reserved + k - 1]
        <4> TAKE k \in 1..n
        <4>1. reserved + k - 1 \in Indices /\ ~(reserved + k - 1 < reserved)
          BY <1>1, <1>3, <2>2, CapacityAssumption DEF Indices
        <4> QED BY <4>1 DEF Inv
      <3>2. ready' = ready /\ reserved' = reserved + n
        BY <2>1
      <3>3. /\ th'[t].start + Len(th'[t].rec) <= reserved'
            /\ th'[t].next <= Len(th'[t].rec)
        BY <1>1, <2>2, <2>4, <3>2
      <3>4. \A k \in 1..Len(th'[t].rec) :
              ~(k < th'[t].next) /\ ~ready'[th'[t].start + k - 1]
        BY <1>1, <2>4, <3>1, <3>2
      <3> QED BY <1>1, <2>4, <3>3, <3>4 DEF ThreadInv, Publishing
    <2>6. ASSUME NEW u \in Threads, u # t
          PROVE  /\ ThreadInv(u)'
                 /\ Publishing(u)' => /\ Publishing(u)
                                      /\ th[u].start + Len(th[u].rec) <= reserved
      <3>1. ThreadInv(u) /\ th'[u] = th[u]
        BY <2>4, <2>6 DEF Inv
      <3>2. Publishing(u) => /\ th[u].start \in Nat /\ Len(th[u].rec) \in Nat
                             /\ th[u].start + Len(th[u].rec) <= reserved
        BY <3>1, RecordShape DEF ThreadInv, Inv, TypeOK
      <3>3. Publishing(u) => th[u].start + Len(th[u].rec) <= reserved'
        BY <1>1, <2>1, <2>2, <3>2
      <3> QED BY <2>1, <3>1, <3>2, <3>3 DEF ThreadInv, Publishing, Slot
    <2>7. ASSUME NEW r \in returned
          PROVE  /\ r.start + Len(r.rec) <= reserved
                 /\ r.start + Len(r.rec) <= reserved'
      <3>1. r.start \in Nat /\ Len(r.rec) \in Nat
        BY RecordShape DEF Inv, TypeOK
      <3> QED BY <1>1, <2>1, <2>2, <3>1 DEF Inv
    <2>8. RangesApart'
      <3>1. ASSUME NEW u \in Threads, u # t, Publishing(u)'
            PROVE  /\ Apart(th'[u].start, Len(th'[u].rec), th'[t].start, Len(th'[t].rec))
                   /\ Apart(th'[t].start, Len(th'[t].rec), th'[u].start, Len(th'[u].rec))
        BY <2>4, <2>6, <3>1 DEF Apart
      <3>2. ASSUME NEW u \in Threads, NEW v \in Threads, u # v, u # t, v # t,
                   Publishing(u)', Publishing(v)'
            PROVE  Apart(th'[u].start, Len(th'[u].rec), th'[v].start, Len(th'[v].rec))
        BY <2>4, <2>6, <3>2 DEF Inv, RangesApart
      <3>3. ASSUME NEW r \in returned
            PROVE  Apart(th'[t].start, Len(th'[t].rec), r.start, Len(r.rec))
        BY <2>4, <2>7 DEF Apart
      <3>4. ASSUME NEW u \in Threads, u # t, Publishing(u)', NEW r \in returned
            PROVE  Apart(th'[u].start, Len(th'[u].rec), r.start, Len(r.rec))
        BY <2>4, <2>6, <3>4 DEF Inv, RangesApart
      <3> QED BY <2>1, <3>1, <3>2, <3>3, <3>4 DEF RangesApart
    <2>9. \A i \in Indices : ready'[i] => i < reserved' /\ bits'[i] \in Values
      BY <1>1, <2>1, <2>2 DEF Inv, Indices
    <2>10. ReturnedComplete'
      BY <2>1 DEF Inv, ReturnedComplete
    <2> QED BY <2>1, <2>3, <2>5, <2>6, <2>7, <2>8, <2>9, <2>10 DEF Inv
  <1> QED BY <1>2, <1>3

\* A field of a range below the reservation mark is a slot.
LEMMA SlotInRange ==
    ASSUME NEW s \in Nat, NEW n \in Nat, NEW k \in 1..n, NEW r \in 0..Capacity,
           s + n <= r
    PROVE  s + k - 1 \in Indices /\ s + k - 1 < r
  BY CapacityAssumption DEF Indices

\* Ranges that lie apart share no slot.
LEMMA ApartSlots ==
    ASSUME NEW s \in Nat, NEW n \in Nat, NEW k \in 1..n,
           NEW r \in Nat, NEW m \in Nat, NEW j \in 1..m, Apart(s, n, r, m)
    PROVE  s + k - 1 # r + j - 1
  BY DEF Apart

\* An index of one range is not an index of a range that lies apart.
LEMMA ApartPoint ==
    ASSUME NEW s \in Nat, NEW n \in Nat, NEW r \in Nat, NEW m \in Nat, NEW a \in Int,
           Apart(s, n, r, m), s <= a, a < s + n
    PROVE  ~(r <= a /\ a <= r + m - 1)
  BY DEF Apart

\* What a publishing thread knows: its slot is its own and is not ready.
LEMMA OwnSlot ==
    ASSUME Inv, NEW t \in Threads, Publishing(t)
    PROVE  /\ ThreadInv(t) /\ th[t].rec \in Records
           /\ th[t].start \in Nat /\ Len(th[t].rec) \in Nat
           /\ th[t].next \in 1..Len(th[t].rec)
           /\ th[t].start + Len(th[t].rec) <= reserved
           /\ reserved \in 0..Capacity
           /\ th[t].rec[th[t].next] \in Values
           /\ Slot(t) \in Indices /\ Slot(t) < reserved /\ ~ready[Slot(t)]
           /\ \A j \in 1..Len(th[t].rec) :
                j # th[t].next => th[t].start + j - 1 # Slot(t)
           /\ \A u \in Threads : u # t /\ Publishing(u) =>
                \A j \in 1..Len(th[u].rec) : th[u].start + j - 1 # Slot(t)
           /\ \A r \in returned : \A j \in 1..Len(r.rec) :
                r.start + j - 1 # Slot(t)
  <1>1. /\ ThreadInv(t) /\ th[t].rec \in Records
        /\ th[t].start + Len(th[t].rec) <= reserved
        /\ th[t].next <= Len(th[t].rec)
    BY DEF ThreadInv, Inv
  <1>2. /\ \A u \in Threads : th[u].start \in Nat
        /\ th[t].next \in Nat \ {0} /\ reserved \in 0..Capacity
        /\ \A r \in returned : r.start \in Nat /\ r.rec \in Records
    BY DEF Inv, TypeOK
  <1>3. Len(th[t].rec) \in Nat /\ th[t].next \in 1..Len(th[t].rec)
    BY <1>1, <1>2, RecordShape
  <1>4. th[t].rec[th[t].next] \in Values
    BY <1>1, <1>3, RecordShape
  <1>5. Slot(t) \in Indices /\ Slot(t) < reserved
    BY <1>1, <1>2, <1>3, SlotInRange DEF Slot
  <1>6. ~ready[Slot(t)]
    <2>1. ~(th[t].next < th[t].next)
      BY <1>3
    <2> QED BY <1>1, <1>3, <2>1 DEF ThreadInv, Slot
  <1>7. \A j \in 1..Len(th[t].rec) : j # th[t].next => th[t].start + j - 1 # Slot(t)
    BY <1>2, <1>3 DEF Slot
  <1>8. ASSUME NEW u \in Threads, u # t, Publishing(u), NEW j \in 1..Len(th[u].rec)
        PROVE  th[u].start + j - 1 # Slot(t)
    <2>1. th[u].rec \in Records
      BY <1>8 DEF Inv, ThreadInv
    <2>2. Apart(th[u].start, Len(th[u].rec), th[t].start, Len(th[t].rec))
      BY <1>8 DEF Inv, RangesApart
    <2> QED BY <1>2, <1>3, <1>8, <2>1, <2>2, RecordShape, ApartSlots DEF Slot
  <1>9. ASSUME NEW r \in returned, NEW j \in 1..Len(r.rec)
        PROVE  r.start + j - 1 # Slot(t)
    <2>1. Apart(th[t].start, Len(th[t].rec), r.start, Len(r.rec))
      BY DEF Inv, RangesApart
    <2> QED BY <1>2, <1>3, <1>9, <2>1, RecordShape, ApartSlots DEF Slot
  <1> QED BY <1>1, <1>2, <1>3, <1>4, <1>5, <1>6, <1>7, <1>8, <1>9

\* Storing the bits touches a slot of the thread's own range that is not ready.
LEMMA StoreBitsStep ==
    ASSUME Inv, NEW t \in Threads, StoreBits(t)
    PROVE  Inv' /\ \A i \in Indices : ready[i] => ready'[i] /\ bits'[i] = bits[i]
  <1> DEFINE i == Slot(t)
             v == th[t].rec[th[t].next]
             x == [th[t] EXCEPT !.pc = "ready"]
  <1>1. Publishing(t) /\ th[t].pc = "bits"
    BY DEF StoreBits, Publishing
  <1>2. /\ bits' = [bits EXCEPT ![i] = v] /\ th' = [th EXCEPT ![t] = x]
        /\ reserved' = reserved /\ ready' = ready /\ returned' = returned
    BY DEF StoreBits
  <1>3. x \in ThreadStates
    BY DEF Inv, TypeOK, ThreadStates
  <1>4. /\ th'[t].pc = "ready" /\ th'[t].start = th[t].start
        /\ th'[t].rec = th[t].rec /\ th'[t].next = th[t].next
        /\ \A u \in Threads : u # t => th'[u] = th[u]
    BY <1>2 DEF Inv, TypeOK
  <1> HIDE DEF x
  <1>5. i \in Indices /\ ~ready[i] /\ v \in Values
    BY <1>1, OwnSlot
  <1> HIDE DEF v
  <1>6. TypeOK'
    BY <1>2, <1>3, <1>5 DEF Inv, TypeOK, ThreadStates
  <1>7. bits'[i] = v /\ \A j : j # i => bits'[j] = bits[j]
    BY <1>2, <1>5 DEF Inv, TypeOK
  <1>8. Slot(t)' = i /\ \A u \in Threads : Publishing(u)' <=> Publishing(u)
    BY <1>1, <1>4 DEF Slot, Publishing
  <1> HIDE DEF i
  <1>9. ThreadInv(t)'
    <2>1. ThreadInv(t) /\ \A j \in 1..Len(th[t].rec) :
                              j # th[t].next => th[t].start + j - 1 # i
      BY <1>1, OwnSlot DEF i
    <2>2. \A j \in 1..Len(th[t].rec) : j < th[t].next => j # th[t].next
      BY <1>1, OwnSlot
    <2>3. \A j \in 1..Len(th'[t].rec) :
             IF j < th'[t].next
               THEN /\ ready'[th'[t].start + j - 1]
                    /\ bits'[th'[t].start + j - 1] = th'[t].rec[j]
               ELSE ~ready'[th'[t].start + j - 1]
      BY <1>1, <1>2, <1>4, <1>7, <2>1, <2>2 DEF ThreadInv
    <2> QED BY <1>1, <1>2, <1>4, <1>7, <1>8, <2>1, <2>3 DEF ThreadInv, Publishing, v
  <1>10. ASSUME NEW u \in Threads, u # t PROVE ThreadInv(u)'
    <2>1. ThreadInv(u) /\ th'[u] = th[u]
      BY <1>4, <1>10 DEF Inv
    <2>2. Publishing(u) => \A j \in 1..Len(th[u].rec) : th[u].start + j - 1 # i
      BY <1>1, <1>10, OwnSlot DEF i
    <2>3. Publishing(u) => Slot(u) # i
      BY <1>10, <2>2, OwnSlot DEF Slot
    <2>4. Slot(u)' = Slot(u) /\ (th[u].pc = "ready" => Publishing(u))
      BY <2>1 DEF Slot, Publishing
    <2>5. ready[th[u].start] => th[u].start # i
      BY <1>5
    <2> QED
      BY <1>2, <1>7, <1>8, <2>1, <2>2, <2>3, <2>4, <2>5 DEF ThreadInv, Publishing
  <1>11. RangesApart'
    BY <1>2, <1>4, <1>8 DEF Inv, RangesApart
  <1>12. ReturnedComplete'
    <2>1. \A r \in returned : \A j \in 1..Len(r.rec) : r.start + j - 1 # i
      BY <1>1, OwnSlot DEF i
    <2> QED BY <1>2, <1>7, <2>1 DEF Inv, ReturnedComplete
  <1>13. \A j \in Indices : ready[j] => ready'[j] /\ bits'[j] = bits[j]
    BY <1>2, <1>5, <1>7
  <1>14. /\ \A j \in Indices : ready'[j] => j < reserved' /\ bits'[j] \in Values
         /\ \A r \in returned' : r.start + Len(r.rec) <= reserved'
    BY <1>2, <1>5, <1>7 DEF Inv
  <1> QED BY <1>6, <1>9, <1>10, <1>11, <1>12, <1>13, <1>14 DEF Inv

\* Setting the flag publishes the stored bits; the last field returns the record.
LEMMA StoreReadyStep ==
    ASSUME Inv, NEW t \in Threads, StoreReady(t)
    PROVE  Inv' /\ \A i \in Indices : ready[i] => ready'[i] /\ bits'[i] = bits[i]
  <1> DEFINE i == Slot(t)
             more == th[t].next < Len(th[t].rec)
             x == IF more THEN [th[t] EXCEPT !.pc = "bits", !.next = @ + 1] ELSE Idle
             done == [start |-> th[t].start, rec |-> th[t].rec]
  <1>1. Publishing(t) /\ th[t].pc = "ready"
    BY DEF StoreReady, Publishing
  <1>2. /\ ready' = [ready EXCEPT ![i] = TRUE] /\ th' = [th EXCEPT ![t] = x]
        /\ reserved' = reserved /\ bits' = bits
        /\ returned' = IF more THEN returned ELSE returned \cup {done}
    BY DEF StoreReady
  <1>3. x \in ThreadStates
    <2>1. th[t] \in ThreadStates
      BY DEF Inv, TypeOK, ThreadStates
    <2>2. th[t].next + 1 \in Nat \ {0}
      BY <2>1 DEF ThreadStates
    <2>3. [th[t] EXCEPT !.pc = "bits", !.next = @ + 1] \in ThreadStates
      BY <2>1, <2>2 DEF ThreadStates
    <2> QED BY <2>3, IdleType
  <1>4. /\ th'[t] = x
        /\ \A u \in Threads : u # t => th'[u] = th[u]
    BY <1>2 DEF Inv, TypeOK
  <1>5. /\ more => /\ x.pc = "bits" /\ x.start = th[t].start
                   /\ x.rec = th[t].rec /\ x.next = th[t].next + 1
        /\ ~more => x.pc = "idle"
    BY IdleType DEF Inv, TypeOK
  <1> HIDE DEF x
  <1>6. /\ i \in Indices /\ i < reserved /\ ThreadInv(t)
        /\ th[t].rec \in Records /\ th[t].start \in Nat
        /\ th[t].next \in 1..Len(th[t].rec) /\ Len(th[t].rec) \in Nat
        /\ th[t].start + Len(th[t].rec) <= reserved
        /\ th[t].rec[th[t].next] \in Values
        /\ \A j \in 1..Len(th[t].rec) : j # th[t].next => th[t].start + j - 1 # i
    BY <1>1, OwnSlot
  <1>7. bits[i] = th[t].rec[th[t].next]
    BY <1>1, <1>6 DEF ThreadInv
  <1>8. TypeOK'
    <2>1. done \in [start : Nat, rec : Records]
      BY <1>6
    <2> HIDE DEF done
    <2> QED BY <1>2, <1>3, <2>1 DEF Inv, TypeOK, ThreadStates
  <1>9. ready'[i] /\ \A j : j # i => ready'[j] = ready[j]
    BY <1>2, <1>6 DEF Inv, TypeOK
  <1>10. \A u \in Threads : Publishing(u)' => /\ Publishing(u)
                                             /\ th'[u].start = th[u].start
                                             /\ th'[u].rec = th[u].rec
    BY <1>1, <1>4, <1>5 DEF Publishing
  <1>11. \A j \in 1..Len(th[t].rec) :
            IF j < th[t].next + 1
              THEN ready'[th[t].start + j - 1] /\ bits[th[t].start + j - 1] = th[t].rec[j]
              ELSE ~ready'[th[t].start + j - 1]
    <2> TAKE j \in 1..Len(th[t].rec)
    <2>1. CASE j = th[t].next
      <3>1. th[t].start + j - 1 = i /\ j < th[t].next + 1
        BY <1>6, <2>1 DEF Slot
      <3> QED BY <1>7, <1>9, <2>1, <3>1
    <2>2. CASE j # th[t].next
      <3>1. th[t].start + j - 1 # i /\ (j < th[t].next + 1 <=> j < th[t].next)
        BY <1>6, <2>2
      <3> QED BY <1>1, <1>6, <1>9, <3>1 DEF ThreadInv
    <2> QED BY <2>1, <2>2
  <1> HIDE DEF i
  <1>12. ThreadInv(t)'
    <2>1. CASE more
      <3>1. th[t].next + 1 <= Len(th[t].rec)
        BY <1>6, <2>1
      <3>2. th'[t].pc = "bits" /\ th'[t].next = th[t].next + 1
            /\ th'[t].start = th[t].start /\ th'[t].rec = th[t].rec
        BY <1>4, <1>5, <2>1
      <3> QED BY <1>2, <1>6, <1>11, <3>1, <3>2 DEF ThreadInv, Publishing
    <2>2. CASE ~more
      BY <1>4, <1>5, <2>2 DEF ThreadInv, Publishing
    <2> QED BY <2>1, <2>2
  <1>13. ASSUME NEW u \in Threads, u # t PROVE ThreadInv(u)'
    <2>1. ThreadInv(u) /\ th'[u] = th[u] /\ Slot(u)' = Slot(u)
      BY <1>4, <1>13 DEF Inv, Slot
    <2>2. Publishing(u) => \A j \in 1..Len(th[u].rec) : th[u].start + j - 1 # i
      BY <1>1, <1>13, OwnSlot DEF i
    <2>3. \A j : ready[j] => ready'[j]
      BY <1>9
    <2> QED BY <1>2, <1>9, <2>1, <2>2, <2>3 DEF ThreadInv, Publishing
  <1>14. RangesApart'
    <2>1. ASSUME NEW u \in Threads, NEW r \in returned', Publishing(u)'
          PROVE  Apart(th'[u].start, Len(th'[u].rec), r.start, Len(r.rec))
      <3>1. CASE r \in returned
        BY <1>10, <2>1, <3>1 DEF Inv, RangesApart
      <3>2. CASE r \notin returned
        <4>1. ~more /\ r = done
          BY <1>2, <2>1, <3>2
        <4>2. u # t
          BY <1>4, <1>5, <2>1, <4>1 DEF Publishing
        <4> QED BY <1>1, <1>10, <2>1, <4>1, <4>2 DEF Inv, RangesApart
      <3> QED BY <3>1, <3>2
    <2> QED BY <1>10, <2>1 DEF Inv, RangesApart
  <1>15. ASSUME NEW r \in returned'
         PROVE  /\ r.start + Len(r.rec) <= reserved'
                /\ \A j \in 1..Len(r.rec) : ready'[r.start + j - 1]
                                            /\ bits'[r.start + j - 1] = r.rec[j]
    <2>1. CASE r \in returned
      BY <1>2, <1>9, <2>1 DEF Inv, ReturnedComplete
    <2>2. CASE r \notin returned
      <3>1. ~more /\ r = done
        BY <1>2, <1>15, <2>2
      <3>2. \A j \in 1..Len(th[t].rec) : j < th[t].next + 1
        BY <1>6, <3>1
      <3> QED BY <1>2, <1>6, <1>11, <3>1, <3>2
    <2> QED BY <2>1, <2>2
  <1>16. \A j \in Indices : ready[j] => ready'[j] /\ bits'[j] = bits[j]
    BY <1>2, <1>9
  <1>17. \A j \in Indices : ready'[j] => j < reserved' /\ bits'[j] \in Values
    BY <1>2, <1>6, <1>7, <1>9 DEF Inv
  <1> QED BY <1>8, <1>12, <1>13, <1>14, <1>15, <1>16, <1>17 DEF Inv, ReturnedComplete

\* Every step of every thread keeps the invariant and overwrites nothing.
LEMMA InvStep ==
    ASSUME Inv, [Next]_vars
    PROVE  Inv' /\ \A i \in Indices : ready[i] => ready'[i] /\ bits'[i] = bits[i]
  <1>1. CASE UNCHANGED vars
    BY <1>1 DEF vars, Inv, TypeOK, ThreadInv, RangesApart, ReturnedComplete,
                Publishing, Slot
  <1>2. ASSUME NEW t \in Threads, NEW r \in Records, Call(t, r)
        PROVE  Inv' /\ UNCHANGED <<ready, bits>>
    <2> DEFINE x == [pc |-> "reserve", start |-> 0, rec |-> r, next |-> 1, seen |-> None]
    <2>1. x \in ThreadStates /\ x.pc = "reserve" /\ x.rec = r /\ x.next = 1
      BY DEF ThreadStates
    <2>2. th' = [th EXCEPT ![t] = x] /\ UNCHANGED <<reserved, bits, ready, returned>>
      BY <1>2 DEF Call
    <2> HIDE DEF x
    <2> QED BY <2>1, <2>2, LocalStep
  <1>3. ASSUME NEW t \in Threads, Reserve(t)
        PROVE  Inv' /\ UNCHANGED <<ready, bits>>
    BY <1>3, ReserveStep DEF Reserve
  <1>4. ASSUME NEW t \in Threads, NEW i \in Indices, LoadReady(t, i)
        PROVE  Inv' /\ UNCHANGED <<ready, bits>>
    <2> DEFINE x == [th[t] EXCEPT !.pc = "load", !.start = i]
    <2>0. th[t] \in ThreadStates /\ i \in Nat
      BY CapacityAssumption DEF Inv, TypeOK, ThreadStates, Indices
    <2>1. x \in ThreadStates /\ x.pc = "load" /\ x.start = i
      BY <2>0 DEF ThreadStates
    <2>2. /\ th' = [th EXCEPT ![t] = x] /\ UNCHANGED <<reserved, bits, ready, returned>>
          /\ ready[i]
      BY <1>4 DEF LoadReady
    <2> HIDE DEF x
    <2> QED BY <2>1, <2>2, LocalStep
  <1>5. ASSUME NEW t \in Threads, LoadBits(t)
        PROVE  Inv' /\ UNCHANGED <<ready, bits>>
    <2> DEFINE x == [th[t] EXCEPT !.pc = "got", !.seen = bits[th[t].start]]
    <2>1. th[t].start \in Indices /\ ready[th[t].start]
      BY <1>5 DEF LoadBits, Inv, ThreadInv
    <2>2. /\ x \in ThreadStates /\ x.pc = "got" /\ x.start = th[t].start
          /\ x.seen = bits[th[t].start]
      BY <2>1 DEF Inv, TypeOK, ThreadStates
    <2>3. th' = [th EXCEPT ![t] = x] /\ UNCHANGED <<reserved, bits, ready, returned>>
      BY <1>5 DEF LoadBits
    <2> HIDE DEF x
    <2> QED BY <2>1, <2>2, <2>3, LocalStep
  <1>6. ASSUME NEW t \in Threads, GetReturns(t)
        PROVE  Inv' /\ UNCHANGED <<ready, bits>>
    <2>1. th' = [th EXCEPT ![t] = Idle] /\ UNCHANGED <<reserved, bits, ready, returned>>
      BY <1>6 DEF GetReturns
    <2> QED BY <2>1, IdleType, LocalStep
  <1> QED
    BY <1>1, <1>2, <1>3, <1>4, <1>5, <1>6, StoreBitsStep, StoreReadyStep DEF Next, vars

\* The invariant is inductive.
LEMMA InvInductive == Inv /\ [Next]_vars => Inv'
  BY InvStep

\* The invariant gives the checked properties.
LEMMA InvImplies ==
    Inv => TypeOK /\ DisjointRanges /\ ReturnedComplete /\ ReadsPublished
  <1> SUFFICES ASSUME Inv PROVE DisjointRanges /\ ReadsPublished
    BY DEF Inv
  <1>1. ASSUME NEW t \in Threads, Publishing(t),
               NEW a \in Range(th[t].start, th[t].rec)
        PROVE  /\ a \in Indices
               /\ \A u \in Threads \ {t} :
                    Publishing(u) => a \notin Range(th[u].start, th[u].rec)
               /\ \A r \in returned : a \notin Range(r.start, r.rec)
    <2>1. /\ th[t].start \in Nat /\ Len(th[t].rec) \in Nat
          /\ th[t].start + Len(th[t].rec) <= reserved /\ reserved \in 0..Capacity
      BY <1>1, OwnSlot
    <2>2. a \in Int /\ th[t].start <= a /\ a < th[t].start + Len(th[t].rec)
      BY <1>1, <2>1 DEF Range
    <2>3. a \in Indices
      BY <2>1, <2>2, CapacityAssumption DEF Indices
    <2>4. ASSUME NEW u \in Threads \ {t}, Publishing(u)
          PROVE  a \notin Range(th[u].start, th[u].rec)
      <3>1. th[u].start \in Nat /\ Len(th[u].rec) \in Nat
        BY <2>4, OwnSlot
      <3>2. Apart(th[t].start, Len(th[t].rec), th[u].start, Len(th[u].rec))
        BY <1>1, <2>4 DEF Inv, RangesApart
      <3>3. ~(th[u].start <= a /\ a <= th[u].start + Len(th[u].rec) - 1)
        BY <2>1, <2>2, <3>1, <3>2, ApartPoint
      <3> QED BY <2>2, <3>1, <3>3 DEF Range
    <2>5. ASSUME NEW r \in returned PROVE a \notin Range(r.start, r.rec)
      <3>1. r.start \in Nat /\ Len(r.rec) \in Nat
        BY RecordShape DEF Inv, TypeOK
      <3>2. Apart(th[t].start, Len(th[t].rec), r.start, Len(r.rec))
        BY <1>1 DEF Inv, RangesApart
      <3> QED BY <2>1, <2>2, <3>1, <3>2 DEF Apart, Range
    <2> QED BY <2>3, <2>4, <2>5
  <1>2. DisjointRanges
    BY <1>1 DEF DisjointRanges
  <1>3. ReadsPublished
    BY DEF ReadsPublished, Inv, ThreadInv
  <1> QED BY <1>2, <1>3

\* The storage keeps its types and never reserves more than its capacity.
THEOREM StorageTypeCorrect == Spec => []TypeOK
  BY InvInit, InvInductive, InvImplies, PTL DEF Spec

\* No two records, in flight or returned, ever share a slot.
THEOREM StorageDisjoint == Spec => []DisjointRanges
  BY InvInit, InvInductive, InvImplies, PTL DEF Spec

\* Every record whose append returned Ok stays complete.
THEOREM StorageComplete == Spec => []ReturnedComplete
  BY InvInit, InvInductive, InvImplies, PTL DEF Spec

\* get never returns a value that was not published.
THEOREM StorageReads == Spec => []ReadsPublished
  BY InvInit, InvInductive, InvImplies, PTL DEF Spec

\* A published slot is never written again.
THEOREM StorageNoOverwrite == Spec => NoOverwrite
  <1>1. Inv /\ [Next]_vars => [PublishedKept]_vars
    BY InvStep DEF PublishedKept
  <1> QED BY <1>1, InvInit, InvInductive, PTL DEF Spec, NoOverwrite
==============================================================================
