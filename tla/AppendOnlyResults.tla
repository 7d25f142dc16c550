-------------------------- MODULE AppendOnlyResults --------------------------
(***************************************************************************)
(* The concurrent result storage of crates/runtime/src/append_only.rs, one *)
(* step per access to a shared word.  append_record reserves a contiguous  *)
(* range of slots by one atomic fetch_update, then publishes them one by   *)
(* one: the value's bits first, then the ready flag.  append is the record *)
(* of one value; GraphResult::publish (graph_rpc.rs) appends a complete    *)
(* RPC result.  get reads the flag, then the bits.                         *)
(*                                                                         *)
(* The release store of ready and its acquire load order the bits before   *)
(* the flag, so accesses interleave sequentially consistently.  A slot     *)
(* whose bits are not yet stored holds the bits of 0.0, written None.      *)
(***************************************************************************)
EXTENDS Integers, Sequences

CONSTANTS Threads, Values, None,
          Capacity,   \* number of slots
          MaxRecord   \* bound: values in a record

ASSUME CapacityAssumption == Capacity \in Nat
ASSUME MaxRecordAssumption == MaxRecord \in Nat \ {0}
ASSUME NoneAssumption == None \notin Values

VARIABLES reserved,   \* AtomicUsize
          bits,       \* the slots' bits
          ready,      \* the slots' flags
          th,         \* each thread's operation
          returned    \* history: records whose append returned Ok

vars == <<reserved, bits, ready, th, returned>>

Indices == 0..(Capacity - 1)
Records == UNION {[1..n -> Values] : n \in 1..MaxRecord}

\* A record of n values placed from start on; next is the field to publish.
Idle == [pc |-> "idle", start |-> 0, rec |-> <<>>, next |-> 1, seen |-> None]

Init ==
    /\ reserved = 0
    /\ bits = [i \in Indices |-> None]
    /\ ready = [i \in Indices |-> FALSE]
    /\ th = [t \in Threads |-> Idle]
    /\ returned = {}

Slot(t) == th[t].start + th[t].next - 1

-----------------------------------------------------------------------------
(* append, append_record *)

Call(t, r) ==
    /\ th[t].pc = "idle"
    /\ th' = [th EXCEPT ![t] = [pc |-> "reserve", start |-> 0, rec |-> r, next |-> 1,
                                seen |-> None]]
    /\ UNCHANGED <<reserved, bits, ready, returned>>

\* A plausible bug: one slot is reserved for the whole record.
ReserveOne(t) ==
    /\ th[t].pc = "reserve"
    /\ IF reserved + Len(th[t].rec) <= Capacity
         THEN /\ reserved' = reserved + 1
              /\ th' = [th EXCEPT ![t].pc = "bits", ![t].start = reserved]
         ELSE /\ th' = [th EXCEPT ![t] = Idle]
              /\ UNCHANGED reserved
    /\ UNCHANGED <<bits, ready, returned>>

\* reserve: all slots of the record or none.  When they do not fit the caller
\* gets its record back.
Reserve(t) ==
    /\ th[t].pc = "reserve"
    /\ IF reserved + Len(th[t].rec) <= Capacity
         THEN /\ reserved' = reserved + Len(th[t].rec)
              /\ th' = [th EXCEPT ![t].pc = "bits", ![t].start = reserved]
         ELSE /\ th' = [th EXCEPT ![t] = Idle]
              /\ UNCHANGED reserved
    /\ UNCHANGED <<bits, ready, returned>>

\* publish, first store.
StoreBits(t) ==
    /\ th[t].pc = "bits"
    /\ bits' = [bits EXCEPT ![Slot(t)] = th[t].rec[th[t].next]]
    /\ th' = [th EXCEPT ![t].pc = "ready"]
    /\ UNCHANGED <<reserved, ready, returned>>

\* publish, second store; then the next field, or return.
StoreReady(t) ==
    /\ th[t].pc = "ready"
    /\ ready' = [ready EXCEPT ![Slot(t)] = TRUE]
    /\ IF th[t].next < Len(th[t].rec)
         THEN /\ th' = [th EXCEPT ![t].pc = "bits", ![t].next = @ + 1]
              /\ UNCHANGED returned
         ELSE /\ th' = [th EXCEPT ![t] = Idle]
              /\ returned' = returned \cup {[start |-> th[t].start, rec |-> th[t].rec]}
    /\ UNCHANGED <<reserved, bits>>

-----------------------------------------------------------------------------
(* get *)

\* A plausible bug: the bits are loaded without looking at the flag.
LoadUnready(t, i) ==
    /\ th[t].pc = "idle"
    /\ th' = [th EXCEPT ![t].pc = "load", ![t].start = i]
    /\ UNCHANGED <<reserved, bits, ready, returned>>

\* The flag: a slot that is not ready is reported absent.
LoadReady(t, i) ==
    /\ th[t].pc = "idle"
    /\ ready[i]
    /\ th' = [th EXCEPT ![t].pc = "load", ![t].start = i]
    /\ UNCHANGED <<reserved, bits, ready, returned>>

LoadBits(t) ==
    /\ th[t].pc = "load"
    /\ th' = [th EXCEPT ![t].pc = "got", ![t].seen = bits[th[t].start]]
    /\ UNCHANGED <<reserved, bits, ready, returned>>

GetReturns(t) ==
    /\ th[t].pc = "got"
    /\ th' = [th EXCEPT ![t] = Idle]
    /\ UNCHANGED <<reserved, bits, ready, returned>>

-----------------------------------------------------------------------------
Next ==
    \E t \in Threads :
       \/ \E r \in Records : Call(t, r)
       \/ Reserve(t)
       \/ StoreBits(t)
       \/ StoreReady(t)
       \/ \E i \in Indices : LoadReady(t, i)
       \/ LoadBits(t)
       \/ GetReturns(t)

Spec == Init /\ [][Next]_vars

-----------------------------------------------------------------------------
(* Properties *)

Publishing(t) == th[t].pc \in {"bits", "ready"}
Range(start, rec) == start..(start + Len(rec) - 1)

\* Types; what is reserved never exceeds the capacity.
TypeOK ==
    /\ reserved \in 0..Capacity
    /\ bits \in [Indices -> Values \cup {None}]
    /\ ready \in [Indices -> BOOLEAN]
    /\ th \in [Threads -> [pc : {"idle", "reserve", "bits", "ready", "load", "got"},
                           start : Nat, rec : Records \cup {<<>>},
                           next : Nat \ {0}, seen : Values \cup {None}]]
    /\ returned \subseteq [start : Nat, rec : Records]

\* Ranges handed out are disjoint: a thread that is still publishing shares no
\* slot with another one or with a record already returned, and stays inside
\* the storage.
DisjointRanges ==
    \A t \in Threads : Publishing(t) =>
       LET mine == Range(th[t].start, th[t].rec) IN
       /\ mine \subseteq Indices
       /\ \A u \in Threads \ {t} :
            Publishing(u) => mine \cap Range(th[u].start, th[u].rec) = {}
       /\ \A r \in returned : mine \cap Range(r.start, r.rec) = {}

\* A returned record is complete and keeps its values for ever.
ReturnedComplete ==
    \A r \in returned : \A k \in 1..Len(r.rec) :
       /\ ready[r.start + k - 1]
       /\ bits[r.start + k - 1] = r.rec[k]

\* get never returns the bits of a slot whose value was not stored, however it
\* interleaves with publication.
ReadsPublished ==
    \A t \in Threads : th[t].pc = "got" =>
       /\ ready[th[t].start]
       /\ th[t].seen = bits[th[t].start]
       /\ th[t].seen \in Values

PublishedKept == \A i \in Indices : ready[i] => ready'[i] /\ bits'[i] = bits[i]

\* No overwrite: a published slot never changes and is never withdrawn.
NoOverwrite == [][PublishedKept]_vars
==============================================================================
