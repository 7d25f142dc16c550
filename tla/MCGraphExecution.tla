-------------------------- MODULE MCGraphExecution --------------------------
(* Instance of GraphStorage and GraphExecution: three slots of two values,  *)
(* u32::MAX = 199; four graphs to store.                                    *)
EXTENDS GraphStorage

Frag(ops) == [ops |-> ops, pool |-> <<>>, deps |-> {}]

\* Operation fragments: each starts and ends on an empty stack.
PutConst   == <<OpN("Const", 2), Op("Zero"), OpN("StoreResult", 0)>>
PutSum     == <<Op("Zero"), OpN("VarIndexed", 0), Op("One"), Op("FAdd"), Op("Zero"),
                OpN("StoreResult", 1)>>
CopySlot   == <<LoopOp(2, 4), Op("Dup"), OpN("VarIndexed", 0), Op("Swap"),
                OpN("StoreResult", 2)>>
Indirect   == <<Op("One"), OpN("VarIndexed", 0), OpN("VarIndexed", 2), Op("Zero"),
                OpN("StoreResult", 0)>>
Strided    == <<LoopOp(2, 7), Op("Dup"), OpN("Const", 1), Op("FMul"), OpN("VarIndexed", 2),
                OpN("Pick", 1), OpN("StoreResult", 0), Op("Drop")>>
Carried    == <<Op("Zero"), LoopOp(3, 1), Op("FAdd"), OpN("VarIndexed", 1), Op("One"),
                OpN("StoreResult", 1)>>
Nested     == <<LoopOp(2, 6), LoopOp(1, 4), OpN("Const", 2), OpN("Pick", 1),
                OpN("StoreResult", 2), Op("Drop"), Op("Drop")>>
Overflow   == <<OpN("Const", 2), OpN("VarIndexed", U32Max - 1), Op("One"), OpN("StoreResult", 2)>>
BmlStore   == <<Op("One"), OpN("Const", 1), Op("Bml"), Op("One"), OpN("StoreResult", 1)>>
OwnPool    == [ops |-> PutConst, pool |-> <<Num(0), Num(0), Num(1)>>, deps |-> {}]

Operations == <<PutConst, PutSum, CopySlot, Indirect, Carried, Overflow, BmlStore>>

\* Fragments that carry the stack, misuse it, or are rejected.
StackOps == <<<<Op("One")>>, <<OpN("Var", 0), OpN("Const", 1)>>, <<Op("Bml")>>, <<Op("Dup"), Op("FMul")>>,
             <<OpN("Pick", 1), Op("FMax")>>, <<Op("Zero"), OpN("StoreResult", 0)>>,
             <<Op("Zero"), OpN("ContextConstIndexed", 1)>>, <<OpN("Var", 0), OpN("ContextVarIndexed", 0)>>,
             <<LoopOp(2, 2), Op("FAdd")>>, <<LoopOp(2, 1), Op("Drop")>>, <<LoopOp(3, 1), Op("FAdd")>>,
             <<LoopOp(0, 1), Op("Bml")>>, <<LoopOp(1, 4), LoopOp(1, 3), LoopOp(1, 2), Op("Drop"), Op("Drop")>>,
             <<LoopOp(2, 4), LoopOp(2, 2), Op("FMax"), Op("Drop"), Op("Drop")>>,
             <<Op("Swap"), Op("Drop")>>, <<OpN("Const", 9)>>, <<OpN("StoreResult", 7)>>,
             <<OpN("VarIndexed", 2)>>>>

Deps == <<[i \in 1..3 |-> {}], [i \in 1..3 |-> 1..(i - 1)], <<{}, {}, {1}>>, <<{}, {3}, {1}>>,
          <<{}, {3}, {2}>>>>

\* The buffer, context and budgets of the small jobs.
Small(frags) == [frags |-> frags, inputs |-> <<Num(1)>>, weights |-> <<Num(0), Num(2), Num(3)>>,
                 buf |-> Buffer(3, 2), limits |-> [ops |-> 8, steps |-> 14, values |-> 14],
                 cores |-> {2, 3}]

Count   == Len(Operations)
Nth(i)  == Operations[1 + (i % Count)]
Triples == [k \in 1..(Count * Count * Count * Len(Deps)) |->
              LET d == Deps[1 + (k % Len(Deps))]
                  i == k \div Len(Deps)
                  t == <<Nth(i), Nth(i \div Count), Nth(i \div (Count * Count))>>
              IN  Small([j \in 1..3 |-> [ops |-> t[j], pool |-> <<>>, deps |-> d[j]]])]
Squares == Len(StackOps) * Len(StackOps)
First(k)  == StackOps[1 + (k % Len(StackOps))]
Second(k) == StackOps[1 + ((k \div Len(StackOps)) % Len(StackOps))]
Pairs   == [k \in 1..Squares |-> Small(<<Frag(First(k)), Frag(Second(k))>>)]
        \o [k \in 1..Squares |-> Small(<<Frag(<<Op("One")>>), Frag(First(k)), Frag(Second(k))>>)]
Poolable == <<PutSum, Indirect, Nested, Strided>>
Pooled  == [k \in 1..16 |-> Small(<<OwnPool, Frag(Poolable[1 + (k % 4)]),
                                     Frag(Poolable[1 + ((k \div 4) % 4)])>>)]
MCPrograms == Triples \o Pairs \o Pooled

\* Stored graphs: every opcode in two fragments; maximum selection, one opcode
\* per fragment; context loads; nothing, with more constants than allowed.
Tensor(name, offset, rows, cols) == [name |-> name, offset |-> offset, rows |-> rows, cols |-> cols]
Part(id, first, last, ops, weights, tensors) ==
    [id |-> id, first |-> first, last |-> last, ops |-> ops, weights |-> weights,
     tensors |-> tensors, kv |-> 1, head |-> 2]
Config(layers, embd) == [arch |-> <<108, 97>>, sizes |-> <<layers, 1, embd, 8, 5>>]
Matmul(x, n_in, n_out, offset, split) ==
    [x |-> x, n_in |-> n_in, n_out |-> n_out, offset |-> offset, split |-> split,
     weights |-> [i \in 1..6 |-> Num(i)]]
Numbers(n) == [i \in 1..n |-> Num(i - 2)]

PlainOps == <<Op("One"), Op("Zero"), OpN("Var", 0), OpN("Const", 1), LoopOp(2, 1), Op("FAdd"),
              Op("Dup"), Op("Swap"), OpN("Pick", 1), Op("FMul"), OpN("VarIndexed", 3), Op("Bml"),
              Op("Drop"), OpN("StoreResult", 2)>>
MCStored ==
    <<[ops |-> PlainOps, threshold |-> 100, pool |-> <<Num(2), NaN>>, config |-> Config(2, 2),
       parts |-> <<Part(0, 0, 1, SubSeq(PlainOps, 1, 5), Numbers(4), <<Tensor(<<0, 2>>, 0, 2, 2)>>),
                   Part(1, 1, 2, SubSeq(PlainOps, 6, 14), Numbers(3),
                        <<Tensor(<<1, 1>>, 0, 2, 1), Tensor(<<7>>, 2, 1, 1)>>)>>,
       matmul |-> Matmul(<<Num(2), Num(3)>>, 2, 3, 1, 2)],
      [ops |-> <<Op("One"), Op("Dup"), Op("FMax")>>, threshold |-> 12, pool |-> <<>>,
       config |-> Config(1, 2),
       parts |-> <<Part(0, 0, 1, <<Op("One"), Op("Dup"), Op("FMax")>>, Numbers(2),
                        <<Tensor(<<0, 2>>, 0, 2, 1)>>)>>,
       matmul |-> Matmul(<<Num(2)>>, 2, 2, 0, 1)],
      [ops |-> <<OpN("Var", 0), Op("Zero"), OpN("ContextConstIndexed", 0), OpN("ContextVarIndexed", 1)>>,
       threshold |-> 24, pool |-> <<Num(1)>>, config |-> Config(1, 1),
       parts |-> <<Part(0, 0, 0, <<OpN("ContextVarIndexed", 0)>>, <<>>, <<>>)>>,
       matmul |-> Matmul(<<Num(1), Num(2), Num(3)>>, 3, 2, 0, 4)],
      [ops |-> <<>>, threshold |-> 12, pool |-> Numbers(3), config |-> Config(0, 0), parts |-> <<>>,
       matmul |-> Matmul(<<Num(5)>>, 1, 5, 0, 3)]>>
MCLimits == [frags |-> 3, ops |-> 14, constants |-> 2, bytes |-> 200, tensors |-> 2]
=============================================================================
