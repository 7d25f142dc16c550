------------------------------ MODULE ArrayQueue ------------------------------
(***************************************************************************)
(* The bounded MPMC queue of crates/queue/src/array_queue.rs, one step per *)
(* access to a shared word.  Each slot carries a stamp that says whose     *)
(* turn it is: stamp = tail means free for the push at tail, stamp = head  *)
(* + 1 means filled for the pop at head.  Positions are machine words      *)
(* {lap, index}; lap arithmetic wraps at Word.                             *)
(*                                                                         *)
(* Accesses interleave sequentially consistently; the orderings of the     *)
(* Rust atomics are the subject of the repository's loom tests.            *)
(***************************************************************************)
EXTENDS Naturals, Sequences, FiniteSets

CONSTANTS Threads, Values,
          Cap,       \* capacity
          Laps,      \* number of laps a word can count before it wraps
          Start,     \* lap at which the behaviour starts
          MaxOps,    \* operations started in a behaviour
          None

ASSUME CapAssumption == Cap \in Nat \ {0} /\ Laps \in Nat /\ Laps > 2
ASSUME StartAssumption == Start \in 0..(Laps - 1)
ASSUME BudgetAssumption == MaxOps \in Nat /\ MaxOps < (Laps - 1) * Cap
ASSUME NoneAssumption == None \notin Values

VARIABLES head, tail,     \* AtomicUsize words
          stamp, value,   \* the slots
          th,             \* each thread's operation and local variables
          started         \* operations started so far

vars == <<head, tail, stamp, value, th, started>>

Slots == 0..(Cap - 1)

PowerOfTwo(n) == \A d \in 1..n : n % d = 0 => d = 1 \/ d % 2 = 0

\* One lap is the smallest power of two greater than Cap: the only one up to twice Cap.
OneLap == CHOOSE n \in (Cap + 1)..(2 * Cap) : PowerOfTwo(n)
Word   == OneLap * Laps

Index(x) == x % OneLap
Lap(x)   == x - Index(x)

\* The position after x: next index, or index 0 of the next lap.
Advance(x) ==
    IF Index(x) + 1 < Cap THEN x + 1 ELSE (Lap(x) + OneLap) % Word

AddLap(x) == (x + OneLap) % Word
SubLap(x) == (x + Word - OneLap) % Word

\* pos is the thread's copy of tail or head, ret what the operation returns.
Idle   == [pc |-> "idle", op |-> "none", pos |-> 0, arg |-> None, ret |-> None]

Init ==
    /\ head = Start * OneLap
    /\ tail = Start * OneLap
    /\ stamp = [i \in Slots |-> Start * OneLap + i]
    /\ value = [i \in Slots |-> None]
    /\ th = [t \in Threads |-> Idle]
    /\ started = 0

Goto(t, pc)      == th' = [th EXCEPT ![t].pc = pc]
Reread(t, pc, x) == th' = [th EXCEPT ![t].pc = pc, ![t].pos = x]
slot(t)          == Index(th[t].pos)

-----------------------------------------------------------------------------
(* push_or_else: the loop shared by push and force_push *)

Call(t, op, v) ==
    /\ th[t].pc = "idle"
    /\ started < MaxOps
    /\ started' = started + 1
    /\ th' = [th EXCEPT ![t] = [Idle EXCEPT !.pc = "load", !.op = op, !.arg = v]]
    /\ UNCHANGED <<head, tail, stamp, value>>

PushLoad(t) ==
    /\ th[t].pc = "load" /\ th[t].op # "pop"
    /\ Reread(t, "stamp", tail)
    /\ UNCHANGED <<head, tail, stamp, value, started>>

\* A plausible bug: a slot still full from the last lap is taken for free.
PushInspectOverwrites(t) ==
    /\ th[t].pc = "stamp" /\ th[t].op # "pop"
    /\ LET s == stamp[slot(t)] IN
       Goto(t, IF s = th[t].pos \/ AddLap(s) = (th[t].pos + 1) % Word THEN "cas"
               ELSE "load")
    /\ UNCHANGED <<head, tail, stamp, value, started>>

\* Inspect the slot's stamp: ours, still full from the last lap, or in motion.
PushInspect(t) ==
    /\ th[t].pc = "stamp" /\ th[t].op # "pop"
    /\ LET s == stamp[slot(t)] IN
       Goto(t, IF s = th[t].pos THEN "cas"
               ELSE IF AddLap(s) = (th[t].pos + 1) % Word THEN "full"
               ELSE "load")
    /\ UNCHANGED <<head, tail, stamp, value, started>>

\* A plausible bug: the tail is stored without comparing.
PushStoreTail(t) ==
    /\ th[t].pc = "cas" /\ th[t].op # "pop"
    /\ tail' = Advance(th[t].pos)
    /\ Goto(t, "write")
    /\ UNCHANGED <<head, stamp, value, started>>

\* compare_exchange_weak on tail; a failed exchange yields the current tail.
PushCas(t) ==
    /\ th[t].pc = "cas" /\ th[t].op # "pop"
    /\ IF tail = th[t].pos
         THEN tail' = Advance(tail) /\ Goto(t, "write")
         ELSE UNCHANGED tail /\ Reread(t, "stamp", tail)
    /\ UNCHANGED <<head, stamp, value, started>>

PushWrite(t) ==
    /\ th[t].pc = "write"
    /\ value' = [value EXCEPT ![slot(t)] = th[t].arg]
    /\ Goto(t, "publish")
    /\ UNCHANGED <<head, tail, stamp, started>>

\* The stamp becomes tail + 1: the slot is filled.
PushPublish(t) ==
    /\ th[t].pc = "publish" /\ th[t].op # "pop"
    /\ stamp' = [stamp EXCEPT ![slot(t)] = (th[t].pos + 1) % Word]
    /\ Goto(t, "done")
    /\ UNCHANGED <<head, tail, value, started>>

\* A plausible bug: a slot still full from the last lap is taken for a full
\* queue, without looking at head.
PushFullUnchecked(t) ==
    /\ th[t].pc = "full" /\ th[t].op = "push"
    /\ th' = [th EXCEPT ![t].pc = "done", ![t].ret = th[t].arg]
    /\ UNCHANGED <<head, tail, stamp, value, started>>

\* push's closure: full only if head lags exactly one lap behind.
PushFull(t) ==
    /\ th[t].pc = "full" /\ th[t].op = "push"
    /\ IF AddLap(head) = th[t].pos
         THEN th' = [th EXCEPT ![t].pc = "done", ![t].ret = th[t].arg]
         ELSE Goto(t, "load")
    /\ UNCHANGED <<head, tail, stamp, value, started>>

-----------------------------------------------------------------------------
(* force_push's closure: evict the oldest element and take its slot *)

ForceHead(t) ==
    /\ th[t].pc = "full" /\ th[t].op = "force"
    /\ IF head = SubLap(th[t].pos)
         THEN head' = SubLap(Advance(th[t].pos)) /\ Goto(t, "forceTail")
         ELSE UNCHANGED head /\ Goto(t, "load")
    /\ UNCHANGED <<tail, stamp, value, started>>

ForceTail(t) ==
    /\ th[t].pc = "forceTail"
    /\ tail' = Advance(th[t].pos)
    /\ Goto(t, "forceSwap")
    /\ UNCHANGED <<head, stamp, value, started>>

ForceSwap(t) ==
    /\ th[t].pc = "forceSwap"
    /\ value' = [value EXCEPT ![slot(t)] = th[t].arg]
    /\ th' = [th EXCEPT ![t].pc = "publish", ![t].ret = value[slot(t)]]
    /\ UNCHANGED <<head, tail, stamp, started>>

-----------------------------------------------------------------------------
(* pop *)

PopLoad(t) ==
    /\ th[t].pc = "load" /\ th[t].op = "pop"
    /\ Reread(t, "stamp", head)
    /\ UNCHANGED <<head, tail, stamp, value, started>>

PopInspect(t) ==
    /\ th[t].pc = "stamp" /\ th[t].op = "pop"
    /\ LET s == stamp[slot(t)] IN
       Goto(t, IF s = (th[t].pos + 1) % Word THEN "cas"
               ELSE IF s = th[t].pos THEN "empty"
               ELSE "load")
    /\ UNCHANGED <<head, tail, stamp, value, started>>

PopCas(t) ==
    /\ th[t].pc = "cas" /\ th[t].op = "pop"
    /\ IF head = th[t].pos
         THEN head' = Advance(head) /\ Goto(t, "read")
         ELSE UNCHANGED head /\ Reread(t, "stamp", head)
    /\ UNCHANGED <<tail, stamp, value, started>>

\* The value is moved out of the slot.
PopRead(t) ==
    /\ th[t].pc = "read"
    /\ value' = [value EXCEPT ![slot(t)] = None]
    /\ th' = [th EXCEPT ![t].pc = "publish", ![t].ret = value[slot(t)]]
    /\ UNCHANGED <<head, tail, stamp, started>>

\* A plausible bug: the freed slot is stamped for the same lap.
PopPublishSameLap(t) ==
    /\ th[t].pc = "publish" /\ th[t].op = "pop"
    /\ stamp' = [stamp EXCEPT ![slot(t)] = th[t].pos]
    /\ Goto(t, "done")
    /\ UNCHANGED <<head, tail, value, started>>

\* The stamp becomes head plus one lap: the slot is free for that push.
PopPublish(t) ==
    /\ th[t].pc = "publish" /\ th[t].op = "pop"
    /\ stamp' = [stamp EXCEPT ![slot(t)] = AddLap(th[t].pos)]
    /\ Goto(t, "done")
    /\ UNCHANGED <<head, tail, value, started>>

\* Empty only if tail equals the head that was inspected.
PopEmpty(t) ==
    /\ th[t].pc = "empty"
    /\ Goto(t, IF tail = th[t].pos THEN "done" ELSE "load")
    /\ UNCHANGED <<head, tail, stamp, value, started>>

Return(t) ==
    /\ th[t].pc = "done"
    /\ th' = [th EXCEPT ![t] = Idle]
    /\ UNCHANGED <<head, tail, stamp, value, started>>

-----------------------------------------------------------------------------
(* push_mut and pop_mut: &mut self, so no other operation is running *)

PushMut(v) ==
    /\ \A t \in Threads : th[t].pc = "idle"
    /\ started < MaxOps
    /\ AddLap(head) # tail
    /\ tail' = Advance(tail)
    /\ value' = [value EXCEPT ![Index(tail)] = v]
    /\ stamp' = [stamp EXCEPT ![Index(tail)] = (tail + 1) % Word]
    /\ started' = started + 1
    /\ UNCHANGED <<head, th>>

PopMut ==
    /\ \A t \in Threads : th[t].pc = "idle"
    /\ started < MaxOps
    /\ tail # head
    /\ value' = [value EXCEPT ![Index(head)] = None]
    /\ stamp' = [stamp EXCEPT ![Index(head)] = AddLap(head)]
    /\ head' = Advance(head)
    /\ started' = started + 1
    /\ UNCHANGED <<tail, th>>

-----------------------------------------------------------------------------
Step(t) ==
    \/ PushLoad(t) \/ PushInspect(t) \/ PushCas(t) \/ PushWrite(t)
    \/ PushPublish(t) \/ PushFull(t)
    \/ ForceHead(t) \/ ForceTail(t) \/ ForceSwap(t)
    \/ PopLoad(t) \/ PopInspect(t) \/ PopCas(t) \/ PopRead(t)
    \/ PopPublish(t) \/ PopEmpty(t)
    \/ Return(t)

Next ==
    \/ \E t \in Threads :
         \/ \E v \in Values : Call(t, "push", v) \/ Call(t, "force", v)
         \/ Call(t, "pop", None)
         \/ Step(t)
    \/ \E v \in Values : PushMut(v)
    \/ PopMut

Spec == Init /\ [][Next]_vars

-----------------------------------------------------------------------------
(* Properties *)

\* A thread that won a position has its slot to itself until it publishes the
\* stamp.
SlotOwnership ==
    LET owns(t) == th[t].pc \in {"write", "publish", "read", "forceTail", "forceSwap"}
    IN  \A t, u \in Threads :
          t # u /\ owns(t) /\ owns(u) => slot(t) # slot(u)

\* The unsafe blocks are sound: a slot is written only when it holds no value
\* (nothing leaks), and read only when it holds one (nothing uninitialised or
\* already moved is read).
SlotInitialised ==
    \A t \in Threads :
       /\ th[t].pc = "write" => value[slot(t)] = None
       /\ th[t].pc \in {"read", "forceSwap"} => value[slot(t)] \in Values

\* Positions counted without the unused indices of a lap, and back.
Ordinal(x) == (x \div OneLap) * Cap + Index(x)
Position(n) == ((n \div Cap) % Laps) * OneLap + (n % Cap)

\* A force_push that moved head but not yet tail has already appended.
LogicalTail ==
    LET forcing == {t \in Threads : th[t].pc = "forceTail"}
    IN  IF forcing = {} THEN tail ELSE Advance(th[CHOOSE t \in forcing : TRUE].pos)

Length == (Ordinal(LogicalTail) + Laps * Cap - Ordinal(head)) % (Laps * Cap)

\* The element at position x is with the thread that won the position until it
\* is written to the slot.
ElementAt(x) ==
    LET bringing == {t \in Threads : /\ th[t].pc \in {"write", "forceTail", "forceSwap"}
                                     /\ th[t].pos = x}
    IN  IF bringing = {} THEN value[Index(x)]
        ELSE th[CHOOSE t \in bringing : TRUE].arg

Contents == [k \in 1..Length |-> ElementAt(Position(Ordinal(head) + k - 1))]

\* An operation has taken effect once its compare-and-exchange succeeded, or
\* once full or empty was established.
Observed(t) ==
    [op   |-> th[t].op,
     arg  |-> th[t].arg,
     done |-> th[t].pc \in {"write", "publish", "read", "forceTail", "forceSwap", "done"},
     ret  |-> IF th[t].pc \in {"read", "forceTail", "forceSwap"} THEN value[slot(t)]
              ELSE th[t].ret]

\* Every operation is linearizable: it takes effect at one instant, in first-in
\* first-out order, refuses exactly when the queue is full and reports empty
\* exactly when it is.
Abstract == INSTANCE BoundedQueue WITH
              queue <- Contents,
              call <- [t \in Threads |-> Observed(t)]

Linearizable == Abstract!Spec

\* Between operations every slot is stamped for whoever comes next: the filled
\* ones for their pop, the free ones for the push of the coming lap.  So an
\* operation that runs alone never has to retry, whatever ran before it.
NobodyStuck ==
    (\A t \in Threads : th[t].pc \in {"idle", "done"})
      => \A k \in Slots :
           LET x == Position(Ordinal(head) + k)
           IN  stamp[Index(x)] = IF k < Length THEN (x + 1) % Word ELSE x
==============================================================================
