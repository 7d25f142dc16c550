--------------------------- MODULE AccessAnalysis ---------------------------
(***************************************************************************)
(* operation_schedule.rs: the conservative analysis that decides which     *)
(* operation fragments may run at the same time.  A fragment is abstractly *)
(* executed on index ranges; the slots it may read and the slots it may    *)
(* write are collected, and the list is cut into contiguous waves without  *)
(* a conflict inside.                                                      *)
(***************************************************************************)
EXTENDS RpnMachine

CONSTANTS FuelPerOp, FuelMin    \* 8 and 64 in the code: opcodes an analysis may visit

\* IndexRange
Unknown      == [lo |-> None, hi |-> None]
Known(l, h)  == [lo |-> l, hi |-> h]
constant(v)  == IF IsExact(v) /\ v[1] \in 0..U32Max THEN Known(v[1], v[1]) ELSE Unknown
arithmetic(x, y, lower, upper) ==
    IF x # Unknown /\ y # Unknown /\ lower <= U32Max /\ upper <= U32Max
    THEN Known(lower, upper) ELSE Unknown

\* The slots an indexed load may touch, from the real layout of the buffer.
ReadSlots(buf, base, range) ==
    LET low  == IF range = Unknown THEN 0 ELSE range.lo
        high == IF range = Unknown \/ base + range.hi > U32Max THEN U32Max ELSE base + range.hi
        end  == IF high < BufferLen(buf) THEN high ELSE BufferLen(buf) - 1
    IN  IF BufferLen(buf) = 0 \/ base + low > U32Max \/ base + low > end THEN {}
        ELSE ((base + low) \div buf.size)..(end \div buf.size)

\* An analysis in progress; ok becomes FALSE where the code returns None.
Analysis(ops) == [stack |-> <<>>, reads |-> {}, writes |-> {}, ok |-> TRUE,
                  fuel |-> IF FuelPerOp * Len(ops) > FuelMin
                           THEN FuelPerOp * Len(ops) ELSE FuelMin]

\* visit: the effect of one instruction that is not a loop; env holds the
\* inputs, the constants and the buffer.
Visit(o, env, st) ==
    LET s == st.stack
        b == Peek(s, 0, Unknown)
        a == Peek(s, 1, Unknown)
        push(v) == Append(IF o.op \in {"Dup", "Pick"} THEN s ELSE Popped(s, Take(o)), v)
    IN  IF Len(s) < Take(o) THEN [st EXCEPT !.ok = FALSE]
        ELSE CASE o.op = "Zero"  -> [st EXCEPT !.stack = push(Known(0, 0))]
               [] o.op = "One"   -> [st EXCEPT !.stack = push(Known(1, 1))]
               [] o.op = "Const" -> [st EXCEPT !.stack = push(constant(At(env.weights, o.n)))]
               [] o.op = "Var"   -> [st EXCEPT !.stack = push(constant(At(env.inputs, o.n)))]
               [] o.op = "VarIndexed" ->
                    [st EXCEPT !.stack = push(Unknown), !.reads = @ \cup ReadSlots(env.buf, o.n, b)]
               [] o.op = "StoreResult" ->
                    [st EXCEPT !.stack = Popped(s, 2), !.writes = @ \cup ({o.n} \cap SlotIds(env.buf))]
               [] o.op = "FAdd" ->
                    [st EXCEPT !.stack = push(arithmetic(a, b, a.lo + b.lo, a.hi + b.hi))]
               [] o.op = "FMul" ->
                    [st EXCEPT !.stack = push(arithmetic(a, b, a.lo * b.lo, a.hi * b.hi))]
               [] o.op = "Dup"  -> [st EXCEPT !.stack = push(b)]
               [] o.op = "Pick" -> [st EXCEPT !.stack = push(s[Len(s) - o.n])]
               [] o.op = "Drop" -> [st EXCEPT !.stack = Popped(s, 1)]
               [] o.op = "Swap" ->
                    [st EXCEPT !.stack = Popped(s, 2) \o <<b, a>>]
               [] OTHER -> [st EXCEPT !.stack = push(Unknown)]

\* Widening: a loop-carried value that changes becomes Unknown.
Widen(old, new) == [i \in DOMAIN old |-> IF old[i] = new[i] THEN old[i] ELSE Unknown]

\* What a visit has collected so far.
Analyses ==
    [stack : Seq([lo : Nat \cup {None}, hi : Nat \cup {None}]), reads : SUBSET Nat,
     writes : SUBSET Nat, ok : BOOLEAN, fuel : Nat]

\* visit: the positions pc to end of ops, at a depth of nested loops.  The body
\* of a loop that has iterations is visited on a copy of the stack, with the
\* counter on top, until the values it carries do not change any more.
VisitOps(ops, env) ==
    LET visit[pc \in Nat, end \in Nat, depth \in Nat, st \in Analyses] ==
          LET o    == ops[pc]
              paid == [st EXCEPT !.fuel = @ - 1]
              last == pc + o.len
              next == visit[pc + 1, last, depth + 1,
                            [paid EXCEPT !.stack = Append(@, Known(0, o.n - 1))]]
              wide == Widen(st.stack, next.stack)
          IN  IF ~st.ok \/ (depth <= 32 /\ pc > end) THEN st
              ELSE IF depth > 32 \/ st.fuel = 0 THEN [st EXCEPT !.ok = FALSE]
              ELSE IF o.op # "Loop" THEN visit[pc + 1, end, depth, Visit(o, env, paid)]
              ELSE IF last > end THEN [st EXCEPT !.ok = FALSE]
              ELSE IF o.n = 0 THEN visit[last + 1, end, depth, paid]
              ELSE IF ~next.ok \/ Len(next.stack) # Len(st.stack) THEN [next EXCEPT !.ok = FALSE]
              ELSE IF o.n = 1 THEN visit[last + 1, end, depth, next]
              ELSE IF wide = st.stack
              THEN visit[last + 1, end, depth, [next EXCEPT !.stack = wide]]
              ELSE visit[pc, end, depth, [next EXCEPT !.stack = wide, !.fuel = @ + 1]]
    IN  visit

\* OperationFragment::context: the fragment's own constants, if it has any.
Context(fragment, inputs, weights) ==
    [inputs |-> inputs, weights |-> IF fragment.pool = <<>> THEN weights ELSE fragment.pool]

\* analyze: the accesses of a fragment; ok only if it leaves its stack empty.
analyze(fragment, ctx, buf) ==
    LET env == [inputs |-> ctx.inputs, weights |-> ctx.weights, buf |-> buf]
        st  == VisitOps(fragment.ops, env)[1, Len(fragment.ops), 0, Analysis(fragment.ops)]
    IN  [reads |-> st.reads, writes |-> st.writes, ok |-> st.ok /\ st.stack = <<>>]

\* Mutant: a write behind a read is not seen as a conflict.
conflicts_raw(x, y) == x.writes \cap (y.reads \cup y.writes) # {}

conflicts(x, y) == \/ x.writes \cap (y.reads \cup y.writes) # {}
                   \/ x.reads \cap y.writes # {}

\* wave_ranges: a fragment joins the wave under construction unless it is full
\* or holds a conflicting one.
wave_ranges(accesses, cores) ==
    LET waves[k \in Nat] ==
          IF k = 0 THEN <<>>
          ELSE LET before == waves[k - 1]
                   wave   == before[Len(before)]
               IN  IF \/ before = <<>> \/ Len(wave) >= cores
                      \/ \E i \in DOMAIN wave : conflicts(accesses[wave[i]], accesses[k])
                   THEN Append(before, <<k>>)
                   ELSE [before EXCEPT ![Len(before)] = Append(@, k)]
    IN  waves[Len(accesses)]

=============================================================================
