----------------------------- MODULE RpnMachine -----------------------------
(***************************************************************************)
(* The stack machine behind every compiled graph: the opcodes of rpn.rs,   *)
(* the result buffer of buffer.rs and the four interpreters that execute   *)
(* them one instruction at a time:                                         *)
(*   "hot"       hot_loop.rs dispatch_ops: IEEE, permissive on underflow;  *)
(*   "checked"   graph.rs execute_checked_ops: every fault is an error;    *)
(*   "indexed"   rpn.rs evaluate_indexed_ops: strict, no result buffer;    *)
(*   "reference" the historical evaluators of rpn.rs and fragment.rs:      *)
(*               loops repeat their body without pushing the counter.      *)
(*                                                                         *)
(* Values: a small integer n is Num(n), a non-finite f64 is NaN, and every *)
(* other f64 is a token computed from the operation and the operands that  *)
(* produced it: two tokens are equal when the same instructions were       *)
(* applied to the same operands in the same order.  Tokens are hashed, so  *)
(* a collision can hide a difference and never invents one.  No program    *)
(* here uses a token as an index.  U32Max stands for u32::MAX.             *)
(***************************************************************************)
EXTENDS Integers, Sequences

CONSTANTS U32Max, ValueCap

ASSUME MachineAssumption ==
    U32Max \in Nat /\ ValueCap \in Nat /\ ValueCap >= U32Max /\ ValueCap < 10000

NaN        == <<>>
Num(n)     == <<n>>
Token(h)   == <<"f64", h>>
IsExact(v) == Len(v) = 1
Hash(v)    == IF IsExact(v) THEN v[1] + ValueCap ELSE v[2]
Mix(k, x, y) == Token((Hash(x) * 173 + Hash(y) * 6151 + k) % 30011)
Clip(k, x, y, n) == IF n \in (0 - ValueCap)..ValueCap THEN Num(n) ELSE Mix(k, x, y)

\* Opcodes: n is the id, base, slot, depth or count; len the body of a Loop.
Op(k)        == [op |-> k, n |-> 0, len |-> 0]
OpN(k, n)    == [op |-> k, n |-> n, len |-> 0]
LoopOp(c, l) == [op |-> "Loop", n |-> c, len |-> l]

-----------------------------------------------------------------------------
\* Arithmetic on the abstract numbers.

\* 2^x - log2(y), exact where the result is an integer.
bml_base_op(x, y) ==
    IF x = NaN \/ y = NaN \/ (IsExact(y) /\ y[1] <= 0) THEN NaN
    ELSE LET logs == IF IsExact(y) THEN {k \in 0..7 : 2^k = y[1]} ELSE {}
         IN  IF IsExact(x) /\ x[1] \in 0..7 /\ logs # {}
             THEN Clip(1, x, y, 2^x[1] - CHOOSE k \in logs : TRUE)
             ELSE Mix(1, x, y)

\* The native instructions on exact operands; f is their integer meaning.
Arith(k, x, y, f(_, _)) ==
    IF x = NaN \/ y = NaN THEN NaN
    ELSE IF IsExact(x) /\ IsExact(y) THEN Clip(k, x, y, f(x[1], y[1])) ELSE Mix(k, x, y)

f_add(x, y)      == Arith(2, x, y, LAMBDA a, b : a + b)
f_mul(x, y)      == Arith(3, x, y, LAMBDA a, b : a * b)
finite_max(x, y) == Arith(4, x, y, LAMBDA a, b : IF a > b THEN a ELSE b)

None == 0 - 1
context_index(base, offset) ==
    IF IsExact(offset) /\ offset[1] \in 0..U32Max /\ base + offset[1] <= U32Max
    THEN base + offset[1] ELSE None

\* The saturating f64 -> u32 cast of the hot loop.
AsU32(v) == IF IsExact(v) /\ v[1] >= 0 THEN IF v[1] > U32Max THEN U32Max ELSE v[1] ELSE 0

At(s, i) == IF i \in 0..(Len(s) - 1) THEN s[i + 1] ELSE NaN

-----------------------------------------------------------------------------
\* The result buffer: slots of size consecutive values.  A view says which
\* slots one execution owns and which are closed to it; the rest it reads.

Buffer(slots, size) == [size |-> size, data |-> [i \in 1..(slots * size) |-> Num(0)]]
BufferLen(buf) == Len(buf.data)
SlotIds(buf)   == 0..(BufferLen(buf) \div buf.size - 1)
WholeBuffer(buf) == [own |-> SlotIds(buf), closed |-> {}]

\* partition: a slot with an owner is writable by it and unavailable to others.
partition(buf, owners, worker) ==
    LET mine == {s \in SlotIds(buf) : owners[s] = worker}
    IN  [own |-> mine, closed |-> {s \in SlotIds(buf) \ mine : owners[s] # None}]

read_indexed(buf, view, base, offset) ==
    LET i == base + offset
    IN  IF i > U32Max \/ i >= BufferLen(buf) THEN NaN
        ELSE IF i \div buf.size \in view.closed THEN NaN
        ELSE buf.data[i + 1]

InRange(buf, slot, offset) == slot \in SlotIds(buf) /\ offset \in 0..(buf.size - 1)

write(buf, slot, offset, value) ==
    IF InRange(buf, slot, offset)
    THEN [buf EXCEPT !.data[slot * buf.size + offset + 1] = value] ELSE buf

-----------------------------------------------------------------------------
\* Stack effects.

Popped(s, k)        == SubSeq(s, 1, IF Len(s) > k THEN Len(s) - k ELSE 0)
Peek(s, d, default) == IF Len(s) > d THEN s[Len(s) - d] ELSE default

Binary  == {"Bml", "FAdd", "FMul", "FMax"}
Loads   == {"VarIndexed", "ContextVarIndexed", "ContextConstIndexed"}

Take(o) == CASE o.op \in Binary \cup {"Swap", "StoreResult"} -> 2
             [] o.op \in Loads \cup {"Dup", "Drop"} -> 1
             [] o.op = "Pick" -> o.n + 1
             [] OTHER -> 0

\* The value an instruction pushes; Hole is what a missing operand reads as.
Hole(o) == IF o.op \in {"ContextVarIndexed", "ContextConstIndexed", "FMax"}
           THEN NaN ELSE Num(0)

Pushed(mode, o, s, ctx, buf, view) ==
    LET a == Peek(s, 1, Hole(o))
        b == Peek(s, 0, Hole(o))
    IN  CASE o.op = "One"   -> Num(1)
          [] o.op = "Zero"  -> Num(0)
          [] o.op = "Var"   -> At(ctx.inputs, o.n)
          [] o.op = "Const" -> At(ctx.weights, o.n)
          [] o.op = "ContextVarIndexed"   -> At(ctx.inputs, context_index(o.n, b))
          [] o.op = "ContextConstIndexed" -> At(ctx.weights, context_index(o.n, b))
          [] o.op = "VarIndexed" ->
               IF mode \in {"hot", "checked"}
               THEN read_indexed(buf, view, o.n, AsU32(b)) ELSE NaN
          [] o.op = "Bml"  -> bml_base_op(a, b)
          [] o.op = "FAdd" -> f_add(a, b)
          [] o.op = "FMul" -> f_mul(a, b)
          [] o.op = "FMax" -> finite_max(a, b)
          [] o.op = "Dup"  -> b
          [] o.op = "Pick" -> IF s = <<>> THEN Num(0)
                              ELSE s[IF Len(s) > o.n THEN Len(s) - o.n ELSE 1]

\* Below two operands the hot loop's Bml, FAdd and FMul keep the stack.
Rest(mode, o, s) ==
    CASE o.op \in {"Dup", "Pick"} -> s
      [] o.op \in {"Bml", "FAdd", "FMul"} /\ mode = "hot" /\ Len(s) < 2 -> s
      [] OTHER -> Popped(s, Take(o))

NewStack(mode, o, s, ctx, buf, view) ==
    CASE o.op \in {"Drop", "StoreResult"} -> Popped(s, Take(o))
      [] o.op = "Swap" ->
           IF Len(s) < 2 THEN s
           ELSE [s EXCEPT ![Len(s)] = s[Len(s) - 1], ![Len(s) - 1] = s[Len(s)]]
      [] OTHER -> Append(Rest(mode, o, s), Pushed(mode, o, s, ctx, buf, view))

\* execute_checked_ops: which error an instruction with its operands returns.
CheckedFault(o, s, ctx, buf, view) ==
    LET a == Peek(s, 1, NaN)
        b == Peek(s, 0, NaN)
        v == Pushed("checked", o, s, ctx, buf, view)
        inside(i, n) == IF i \in 0..(n - 1) THEN "ok" ELSE "Reference"
        finite       == IF v = NaN THEN "Numerical" ELSE "ok"
    IN  CASE o.op = "VarIndexed" ->
               IF inside(context_index(o.n, b), BufferLen(buf)) = "ok" THEN finite ELSE "Reference"
          [] o.op = "ContextVarIndexed" -> inside(context_index(o.n, b), Len(ctx.inputs))
          [] o.op = "ContextConstIndexed" -> inside(context_index(o.n, b), Len(ctx.weights))
          [] o.op = "StoreResult" -> inside(context_index(0, b), buf.size)
          [] o.op \in Binary -> finite
          [] OTHER -> "ok"

\* dispatch_ops panics on Dup of nothing and on a store outside its partition.
HotFault(o, s, buf, view) ==
    IF \/ o.op = "Dup" /\ s = <<>>
       \/ /\ o.op = "StoreResult" /\ InRange(buf, o.n, AsU32(Peek(s, 0, Num(0))))
          /\ o.n \notin view.own
    THEN "panic" ELSE "ok"

\* The historical evaluators expect their operands only in Bml and Dup.
ReferenceFault(o, s) == IF o.op \in {"Bml", "Dup"} /\ Len(s) < Take(o) THEN "panic" ELSE "ok"

\* evaluate_indexed_ops reports every missing operand.
IndexedFault(o, s) == IF Len(s) < Take(o) THEN "Stack" ELSE "ok"

\* An instruction's fault; "panic" aborts the program, the rest are errors.
Fault(mode, o, s, ctx, buf, view) ==
    CASE mode = "hot"       -> HotFault(o, s, buf, view)
      [] mode = "reference" -> ReferenceFault(o, s)
      [] mode = "indexed"   -> IndexedFault(o, s)
      [] mode = "checked"   -> IF Len(s) < Take(o) THEN "Stack"
                               ELSE CheckedFault(o, s, ctx, buf, view)

-----------------------------------------------------------------------------
\* Control: a frame is the body [first, last] of a loop and its iteration.
\* steps and peak record what graph.rs StackBudget predicts.

Machine(stack) == [pc |-> 1, stack |-> stack, frames |-> <<>>, out |-> "ok",
                   steps |-> 0, peak |-> 0]

Limit(m, ops)    == IF m.frames = <<>> THEN Len(ops) ELSE m.frames[Len(m.frames)].last
AtEnd(m, ops)    == m.pc > Limit(m, ops)
Finished(m, ops) == m.out # "ok" \/ (m.frames = <<>> /\ AtEnd(m, ops))

WithStack(m, s) == [m EXCEPT !.stack = s, !.steps = @ + 1,
                             !.peak = IF Len(s) > @ THEN Len(s) ELSE @]

\* Start of an iteration: every interpreter but the historical one pushes it.
Counted(mode, m, i) == IF mode = "reference" THEN m ELSE WithStack(m, Append(m.stack, Num(i)))

\* A third nested loop, or a body that passes the end of its parent.
LoopFault(mode, m, ops) ==
    CASE mode = "reference" -> IF Len(m.frames) >= 2 THEN "panic" ELSE "ok"
      [] mode = "indexed" ->
           IF Len(m.frames) >= 2 \/ m.pc + ops[m.pc].len > Limit(m, ops) THEN "Loop" ELSE "ok"
      [] mode \in {"hot", "checked"} ->
           IF m.pc + ops[m.pc].len <= Limit(m, ops) THEN "ok"
           ELSE IF mode = "hot" THEN "leave" ELSE "panic"

EnterLoop(mode, m, ops) ==
    LET o     == ops[m.pc]
        last  == m.pc + o.len
        frame == [first |-> m.pc + 1, last |-> last, iter |-> 0, count |-> o.n]
        after == WithStack([m EXCEPT !.pc = last + 1], m.stack)
        fault == LoopFault(mode, m, ops)
    IN  CASE fault = "leave" -> [m EXCEPT !.pc = Limit(m, ops) + 1]
          [] fault # "ok" /\ fault # "leave" -> [m EXCEPT !.out = fault]
          [] fault = "ok" /\ o.n = 0 -> after
          [] OTHER -> Counted(mode, [after EXCEPT !.pc = m.pc + 1,
                                                  !.frames = Append(@, frame)], 0)

\* The end of a body: the next iteration, or on behind the loop.
Iterate(mode, m) ==
    LET f == m.frames[Len(m.frames)]
    IN  IF f.iter + 1 < f.count
        THEN Counted(mode, [m EXCEPT !.pc = f.first,
                                     !.frames[Len(m.frames)].iter = @ + 1], f.iter + 1)
        ELSE [m EXCEPT !.pc = f.last + 1, !.frames = Popped(@, 1)]

\* An instruction whose fault is known.
Executed(mode, o, m, ctx, buf, view, fault) ==
    IF fault # "ok" THEN [m |-> [m EXCEPT !.out = fault], buf |-> buf]
    ELSE [m |-> WithStack([m EXCEPT !.pc = @ + 1], NewStack(mode, o, m.stack, ctx, buf, view)),
          buf |-> IF o.op = "StoreResult" /\ mode \in {"hot", "checked"}
                  THEN write(buf, o.n, AsU32(Peek(m.stack, 0, Num(0))), Peek(m.stack, 1, NaN))
                  ELSE buf]

\* One step of an unfinished machine: its next state and the buffer's.
Step(mode, m, ops, ctx, buf, view) ==
    IF AtEnd(m, ops) THEN [m |-> Iterate(mode, m), buf |-> buf]
    ELSE IF m.pc > Len(ops) THEN [m |-> [m EXCEPT !.out = "panic"], buf |-> buf]
    ELSE IF ops[m.pc].op = "Loop" THEN [m |-> EnterLoop(mode, m, ops), buf |-> buf]
    ELSE Executed(mode, ops[m.pc], m, ctx, buf, view,
                  Fault(mode, ops[m.pc], m.stack, ctx, buf, view))

uses_counter_loops(ops) ==
    \E i \in DOMAIN ops : ops[i].op \in {"ContextVarIndexed", "ContextConstIndexed", "FMax"}

=============================================================================
