--------------------------- MODULE GraphExecution ---------------------------
(***************************************************************************)
(* Every way the runtime executes a list of compiled fragments, against    *)
(* the sequential hot loop:                                                *)
(*   "cores"     Runtime::execute_with_cores: conflict-free waves, one     *)
(*               scoped thread per fragment on a partitioned buffer;       *)
(*   "scheduler" WaveScheduler::execute: dependency waves, striped over    *)
(*               threads that start at a barrier and lock the buffer;      *)
(*   "graph"     ValidatedGraph::new, then execute (hot loop);             *)
(*   "checked"   ValidatedGraph::new, then the checked interpreter;        *)
(*   "evaluate"  BmlGraph::evaluate / RpnProgram::evaluate_with_ctx on a   *)
(*               graph that passed the same admission.                     *)
(* A behaviour picks a program, runs it sequentially and keeps the result  *)
(* as base, then runs it again along one of the paths.                     *)
(***************************************************************************)
EXTENDS AccessAnalysis, FiniteSets

\* A program: the fragments [ops, pool, deps], the context inputs and weights, the
\* initial buffer, the GraphLimits [ops, steps, values] and the numbers of cores to
\* try.
CONSTANT Programs

ASSUME GraphAssumption ==
    \A j \in DOMAIN Programs :
      Len(Programs[j].frags) \in Nat /\ Programs[j].cores \subseteq Nat \ {0}

VARIABLES program,   \* what is executed
          path,      \* the entry point of the second run
          stage,     \* "base", "plan", "walk", "exec", "waves", "done"
          cores,     \* n_cores
          buf,       \* ResultBuffer
          threads,   \* the threads of the current wave: [queue, m, view, at]
          waves,     \* waves still to start
          lock,      \* the scheduler's buffer mutex: a thread, or None
          finished,  \* fragments executed by the waves, in completion order
          walk,      \* StackBudget: [height, peak, steps, m, frag, out]
          base,      \* the sequential run: [buf, stack, out]
          verdict    \* "ok" or the error of the second run

vars == <<program, path, stage, cores, buf, threads, waves, lock, finished, walk, base, verdict>>

prog      == program.frags
Limits    == program.limits
Fragments == 1..Len(prog)
Ctx(f)    == Context(prog[f], program.inputs, program.weights)

\* A thread executes the fragments of its queue; m is its interpreter.
Thread(queue, view, at) == [queue |-> queue, m |-> Machine(<<>>), view |-> view, at |-> at]

\* One interpreter over the whole list, the stack carried between fragments.
Sequential == <<Thread([i \in Fragments |-> i], WholeBuffer(program.buf), "run")>>

NoWalk == [height |-> 0, peak |-> 0, steps |-> 0, out |-> "ok", frag |-> 1,
           m |-> Machine(<<>>)]

Init == /\ \E j \in DOMAIN Programs : program = Programs[j]
        /\ path = "none" /\ stage = "base" /\ cores = 1 /\ buf = program.buf
        /\ threads = Sequential
        /\ waves = <<>> /\ lock = None /\ finished = <<>> /\ walk = NoWalk
        /\ base = [buf |-> buf, stack |-> <<>>, out |-> "ok"]
        /\ verdict = "ok"

-----------------------------------------------------------------------------
\* One instruction of thread t, and the change of fragment between two runs.

Mode == CASE stage = "base" -> "hot"
          [] path = "checked" -> "checked"
          [] path = "evaluate" ->
               IF \E i \in Fragments : uses_counter_loops(prog[i].ops)
               THEN "indexed" ELSE "reference"
          [] OTHER -> "hot"

Current(t) == prog[Head(threads[t].queue)]
CtxOf(t)   == Ctx(Head(threads[t].queue))
Running(t) == /\ t \in DOMAIN threads /\ threads[t].at = "run" /\ threads[t].queue # <<>>

Becomes(t, result) ==
    /\ threads' = [threads EXCEPT ![t].m = result.m]
    /\ buf' = result.buf

RunOp(t) ==
    /\ Running(t) /\ ~Finished(threads[t].m, Current(t).ops)
    /\ Becomes(t, Step(Mode, threads[t].m, Current(t).ops, CtxOf(t), buf, threads[t].view))

\* The interpreter's state at the start of the next fragment of a queue.
NextMachine(t) == IF stage \in {"base", "exec"}
                  THEN [threads[t].m EXCEPT !.pc = 1] ELSE Machine(<<>>)

SequentialStep ==
    /\ stage \in {"base", "exec"} /\ RunOp(1)
    /\ UNCHANGED <<program, path, stage, cores, waves, lock, finished, walk, base, verdict>>

SequentialNext ==
    /\ stage \in {"base", "exec"} /\ Running(1) /\ threads[1].m.out = "ok"
    /\ Finished(threads[1].m, Current(1).ops)
    /\ threads' = [threads EXCEPT ![1].queue = Tail(@), ![1].m = NextMachine(1)]
    /\ UNCHANGED <<program, path, stage, cores, buf, waves, lock, finished, walk, base, verdict>>

SequentialOver == threads[1].queue = <<>> \/ threads[1].m.out # "ok"

\* Only operation fragments own a constant pool.
Paths == IF \E i \in Fragments : prog[i].pool # <<>> THEN {"cores"}
         ELSE {"cores", "scheduler", "graph", "checked", "evaluate"}

CoresOf(p) == IF p \in {"cores", "scheduler"} THEN program.cores ELSE {1}

\* The first run is over: its result is the reference, the buffer starts anew.
BaseDone ==
    /\ stage = "base" /\ SequentialOver
    /\ base' = [buf |-> buf, stack |-> threads[1].m.stack, out |-> threads[1].m.out]
    /\ buf' = program.buf /\ threads' = <<>>
    /\ IF threads[1].m.out = "ok"
       THEN stage' = "plan" /\ path' \in Paths /\ cores' \in CoresOf(path')
       ELSE stage' = "done" /\ UNCHANGED <<path, cores>>
    /\ UNCHANGED <<program, waves, lock, finished, walk, verdict>>

ExecDone ==
    /\ stage = "exec" /\ SequentialOver
    /\ stage' = "done" /\ verdict' = threads[1].m.out
    /\ UNCHANGED <<program, path, cores, buf, threads, waves, lock, finished, walk, base>>

-----------------------------------------------------------------------------
\* execute_with_cores: sequential unless independence was proved.

Accesses == [i \in Fragments |-> analyze(prog[i], Ctx(i), program.buf)] \o <<>>

PlanCores ==
    /\ stage = "plan" /\ path = "cores"
    /\ IF cores <= 1 \/ Len(prog) <= 1 \/ \E i \in Fragments : ~Accesses[i].ok
       THEN stage' = "exec" /\ threads' = Sequential /\ UNCHANGED waves
       ELSE stage' = "waves" /\ waves' = wave_ranges(Accesses, cores) /\ UNCHANGED threads
    /\ UNCHANGED <<program, path, cores, buf, lock, finished, walk, base, verdict>>

\* run_wave: who owns each output slot; two owners trip the assertion.
Writers(wave, s) == {i \in DOMAIN wave : s \in Accesses[wave[i]].writes}
Owners(wave)     == [s \in SlotIds(buf) |-> IF Writers(wave, s) = {} THEN None
                                       ELSE CHOOSE i \in Writers(wave, s) : TRUE]

StartCores ==
    /\ stage = "waves" /\ path = "cores" /\ threads = <<>> /\ waves # <<>>
    /\ verdict = "ok"
    /\ LET wave == Head(waves)
       IN  IF \E s \in SlotIds(buf) : Cardinality(Writers(wave, s)) > 1 /\ Len(wave) > 1
           THEN verdict' = "panic" /\ UNCHANGED threads
           ELSE /\ threads' = [i \in DOMAIN wave |->
                      Thread(<<wave[i]>>,
                             IF Len(wave) = 1 THEN WholeBuffer(buf)
                             ELSE partition(buf, Owners(wave), i), "run")]
                /\ UNCHANGED verdict
    /\ waves' = Tail(waves)
    /\ UNCHANGED <<program, path, stage, cores, buf, lock, finished, walk, base>>

\* An instruction of a scoped worker, interleaved with the others.
WorkerStep(t) ==
    /\ stage = "waves" /\ path = "cores" /\ RunOp(t)
    /\ UNCHANGED <<program, path, stage, cores, waves, lock, finished, walk, base, verdict>>

\* A fragment is over.  A panic poisons the scheduler's mutex: no thread
\* locks the buffer again.
WorkerDone(t) ==
    /\ stage = "waves" /\ Running(t) /\ Finished(threads[t].m, Current(t).ops)
    /\ path = "scheduler" => lock = t
    /\ IF threads[t].m.out = "panic"
       THEN /\ verdict' = "panic"
            /\ threads' = [u \in DOMAIN threads |->
                 IF u = t \/ path = "scheduler" THEN [threads[u] EXCEPT !.queue = <<>>]
                 ELSE threads[u]]
            /\ UNCHANGED finished
       ELSE /\ finished' = Append(finished, Head(threads[t].queue))
            /\ threads' = [threads EXCEPT ![t].queue = Tail(@), ![t].m = NextMachine(t),
                              ![t].at = IF path = "scheduler" THEN "wait" ELSE "run"]
            /\ UNCHANGED verdict
    /\ lock' = None
    /\ UNCHANGED <<program, path, stage, cores, buf, waves, walk, base>>

\* Every handle is joined before the next wave; a worker's panic propagates.
Join ==
    /\ stage = "waves" /\ threads # <<>>
    /\ \A t \in DOMAIN threads : threads[t].queue = <<>>
    /\ threads' = <<>>
    /\ stage' = IF waves = <<>> \/ verdict # "ok" THEN "done" ELSE stage
    /\ UNCHANGED <<program, path, cores, buf, waves, lock, finished, walk, base, verdict>>

-----------------------------------------------------------------------------
\* WaveScheduler: waves of the fragments whose dependencies are complete.

\* The fragments not yet completed whose dependencies are.
Ready(done) == {i \in Fragments \ done : prog[i].deps \subseteq done}

\* What is completed after so many rounds, and the waves of the rounds that
\* find something ready.
Completed[k \in 0..Len(prog)] ==
    IF k = 0 THEN {} ELSE Completed[k - 1] \cup Ready(Completed[k - 1])

compute_waves ==
    LET wave(k) == Ready(Completed[k - 1])
    IN  [k \in 1..Cardinality({r \in Fragments : wave(r) # {}}) |-> wave(k)]

\* A wave in ascending id order (sort_unstable).
Sorted(set) == CHOOSE s \in [1..Cardinality(set) -> set] :
                 \A i, j \in DOMAIN s : i < j => s[i] < s[j]

\* Mutant: equal shares, the fragments left over are forgotten.
StripeShare(wave, tid, n) == [k \in 1..(Len(wave) \div n) |-> wave[tid + (k - 1) * n]]

\* Thread tid of n takes every n-th fragment of the wave: skip(tid).step_by(n).
Stripe(wave, tid, n) ==
    [k \in 1..((Len(wave) - tid + n) \div n) |-> wave[tid + (k - 1) * n]]

PlanScheduler ==
    /\ stage = "plan" /\ path = "scheduler"
    /\ LET ws == compute_waves
       IN  IF UNION {ws[i] : i \in DOMAIN ws} # Fragments
           THEN verdict' = "deadlock" /\ stage' = "done" /\ UNCHANGED waves
           ELSE /\ waves' = [i \in DOMAIN ws |-> Sorted(ws[i])]
                /\ stage' = IF ws = <<>> THEN "done" ELSE "waves"
                /\ UNCHANGED verdict
    /\ UNCHANGED <<program, path, cores, buf, threads, lock, finished, walk, base>>

StartScheduler ==
    /\ stage = "waves" /\ path = "scheduler" /\ threads = <<>> /\ waves # <<>>
    /\ verdict = "ok"
    /\ LET wave == Head(waves)
           n    == IF Len(wave) < cores THEN Len(wave) ELSE cores
       IN  threads' = [t \in 1..n |-> Thread(Stripe(wave, t, n), WholeBuffer(buf), "ready")]
    /\ waves' = Tail(waves)
    /\ UNCHANGED <<program, path, stage, cores, buf, lock, finished, walk, base, verdict>>

\* barrier.wait(): no thread runs before all have arrived.
Arrive(t) ==
    /\ stage = "waves" /\ path = "scheduler"
    /\ t \in DOMAIN threads /\ threads[t].at = "ready"
    /\ threads' = [threads EXCEPT ![t].at = "wait"]
    /\ UNCHANGED <<program, path, stage, cores, buf, waves, lock, finished, walk, base, verdict>>

LockBuffer(t) ==
    /\ stage = "waves" /\ path = "scheduler"
    /\ t \in DOMAIN threads /\ threads[t].at = "wait" /\ threads[t].queue # <<>>
    /\ lock = None
    /\ \A u \in DOMAIN threads : threads[u].at # "ready"
    /\ threads' = [threads EXCEPT ![t].at = "run"]
    /\ lock' = t
    /\ UNCHANGED <<program, path, stage, cores, buf, waves, finished, walk, base, verdict>>

LockedStep(t) ==
    /\ stage = "waves" /\ path = "scheduler" /\ lock = t /\ RunOp(t)
    /\ UNCHANGED <<program, path, stage, cores, waves, lock, finished, walk, base, verdict>>

-----------------------------------------------------------------------------
\* ValidatedGraph::validate: value and opcode budgets, structure, stack walk.

\* The loops around position i of ops, and those whose body leaves its parent.
Around(ops, i)  == {j \in 1..(i - 1) : ops[j].op = "Loop" /\ i <= j + ops[j].len}
BadLoop(ops, i) == /\ ops[i].op = "Loop"
                   /\ \/ Cardinality(Around(ops, i)) >= 2
                      \/ i + ops[i].len > Len(ops)
                      \/ \E j \in Around(ops, i) : i + ops[i].len > j + ops[j].len

BadReference(o, constants) ==
    \/ o.op \in {"Var", "ContextVarIndexed"} /\ o.n >= Len(program.inputs)
    \/ o.op \in {"Const", "ContextConstIndexed"} /\ o.n >= constants
    \/ o.op = "StoreResult" /\ o.n \notin SlotIds(buf)

\* structure: the first bad instruction of a fragment decides the error.
structure(ops) ==
    LET bad == {i \in DOMAIN ops : BadLoop(ops, i) \/ BadReference(ops[i], Len(program.weights))}
        i   == CHOOSE k \in bad : \A l \in bad : k <= l
    IN  IF bad = {} THEN "ok" ELSE IF BadLoop(ops, i) THEN "Loop" ELSE "Reference"

ContextValues == BufferLen(program.buf) + Len(program.inputs)
                   + Len(program.weights)

StoredOps[k \in Nat] == IF k = 0 THEN 0 ELSE Len(prog[k].ops) + StoredOps[k - 1]

Admission ==
    LET limit(k) == StoredOps[k] > Limits.ops
        bad      == {k \in Fragments : limit(k) \/ structure(prog[k].ops) # "ok"}
        k        == CHOOSE f \in bad : \A g \in bad : f <= g
    IN  IF ContextValues > Limits.values \/ Len(prog) > Limits.ops THEN "Limit"
        ELSE IF bad = {} THEN "ok" ELSE IF limit(k) THEN "Limit" ELSE structure(prog[k].ops)

Validate ==
    /\ stage = "plan" /\ path \in {"graph", "checked", "evaluate"}
    /\ verdict' = Admission
    /\ stage' = IF Admission = "ok" THEN "walk" ELSE "done"
    /\ UNCHANGED <<program, path, cores, buf, threads, waves, lock, finished, walk, base>>

\* StackBudget::step and ::effect.
Budgeted(w, take, give) ==
    LET h == w.height - take + give
        s == w.steps + 1
    IN  [w EXCEPT !.steps = s, !.height = h,
                  !.peak = IF h > @ THEN h ELSE @,
                  !.out = IF s > Limits.steps THEN "Limit"
                          ELSE IF w.height < take THEN "Stack"
                          ELSE IF h > Limits.values - ContextValues THEN "Limit" ELSE "ok"]

\* Mutant: the loads are taken for pushes.
EffectLoads(w, o) == IF o.op = "StoreResult" THEN Budgeted(w, 2, 0) ELSE Budgeted(w, 0, 1)

\* The values an instruction consumes and produces; Pick and Dup copy.
Effect(w, o) ==
    CASE o.op = "Pick" -> IF o.n >= w.height /\ w.steps < Limits.steps
                          THEN [w EXCEPT !.out = "Stack"] ELSE Budgeted(w, 0, 1)
      [] o.op \in {"Drop", "StoreResult"} -> Budgeted(w, Take(o), 0)
      [] o.op \in {"Dup", "Swap"} -> Budgeted(w, Take(o), 2)
      [] OTHER -> Budgeted(w, Take(o), 1)

\* walk: a loop is unrolled; each iteration pushes its counter.
WalkLoop(w, ops) ==
    LET o       == ops[w.m.pc]
        entered == [w EXCEPT !.m = EnterLoop("reference", w.m, ops), !.steps = @ + 1]
    IN  IF entered.steps > Limits.steps \/ o.n > Limits.steps - entered.steps
        THEN [entered EXCEPT !.out = "Limit"]
        ELSE IF o.n = 0 THEN entered ELSE Budgeted(entered, 0, 1)

WalkStep ==
    /\ stage = "walk" /\ walk.frag <= Len(prog) /\ walk.out = "ok"
    /\ LET ops == prog[walk.frag].ops
           m   == walk.m
           f   == m.frames[Len(m.frames)]
       IN  walk' = IF Finished(m, ops)
                   THEN [walk EXCEPT !.frag = @ + 1, !.m = Machine(<<>>)]
                   ELSE IF AtEnd(m, ops)
                   THEN LET w == [walk EXCEPT !.m = Iterate("reference", m)]
                        IN  IF f.iter + 1 < f.count THEN Budgeted(w, 0, 1) ELSE w
                   ELSE IF ops[m.pc].op = "Loop" THEN WalkLoop(walk, ops)
                   ELSE Effect([walk EXCEPT !.m.pc = @ + 1], ops[m.pc])
    /\ UNCHANGED <<program, path, stage, cores, buf, threads, waves, lock, finished, base, verdict>>

Admitted ==
    /\ stage = "walk" /\ (walk.frag > Len(prog) \/ walk.out # "ok")
    /\ verdict' = IF walk.out # "ok" THEN walk.out ELSE IF walk.height # 1 THEN "Stack" ELSE "ok"
    /\ stage' = IF verdict' = "ok" THEN "exec" ELSE "done"
    /\ threads' = IF verdict' = "ok" THEN Sequential ELSE threads
    /\ UNCHANGED <<program, path, cores, buf, waves, lock, finished, walk, base>>

Terminated == stage = "done" /\ UNCHANGED vars

Next == \/ SequentialStep \/ SequentialNext \/ BaseDone \/ ExecDone
        \/ PlanCores \/ StartCores \/ Join
        \/ PlanScheduler \/ StartScheduler
        \/ \E t \in 1..Len(prog) : \/ WorkerStep(t) \/ WorkerDone(t)
                                   \/ Arrive(t) \/ LockBuffer(t) \/ LockedStep(t)
        \/ Validate \/ WalkStep \/ Admitted \/ Terminated

Spec == Init /\ [][Next]_vars

-----------------------------------------------------------------------------
\* Properties.

Wanted(fragment) == {i \in Fragments : i < fragment /\ conflicts(Accesses[i], Accesses[fragment])}
DependsCover == \A j \in Fragments : Accesses[j].ok /\ Wanted(j) \subseteq prog[j].deps

\* execute_with_cores leaves the buffer exactly as the sequential execution
\* does, however the instructions of the workers of a wave interleave: no
\* fragment is ever run beside one whose slots it reads or writes, and no
\* worker writes a slot its partition does not own (operation_schedule.rs,
\* buffer.rs "operation wrote a slot absent from its execution plan").  And so
\* does WaveScheduler, when depends_on names every earlier fragment with a
\* conflicting access.
ParallelMatchesSequential ==
    /\ stage = "done" /\ path = "cores" => verdict = "ok" /\ buf = base.buf
    /\ stage = "done" /\ path = "scheduler" /\ verdict = "ok" /\ DependsCover => buf = base.buf

FinishedSet == {finished[i] : i \in DOMAIN finished}

\* WaveScheduler executes every sub-fragment exactly once and never before
\* one it depends on, whatever the number of threads.
SchedulerRespectsDependencies ==
    path = "scheduler" =>
      /\ \A t \in DOMAIN threads : Running(t) => Current(t).deps \subseteq FinishedSet
      /\ \A i, j \in DOMAIN finished : finished[i] = finished[j] => i = j
      /\ stage = "done" /\ verdict = "ok" => FinishedSet = Fragments

UsesBuffer == \E i \in Fragments : \E k \in DOMAIN prog[i].ops : prog[i].ops[k].op = "VarIndexed"
UsesLoops  == \E i \in Fragments : \E k \in DOMAIN prog[i].ops : prog[i].ops[k].op = "Loop"

\* The reference evaluators are comparable where no loop needs a counter they
\* do not push, and where nothing is read from a result buffer they ignore.
Comparable == path = "evaluate" => ~UsesBuffer /\ (UsesLoops => Mode = "indexed")

\* A graph that ValidatedGraph admits never meets a stack fault, a bad loop or
\* a panic in the hot loop, the checked interpreter or a comparable reference
\* evaluator; its execution takes exactly the steps and the peak stack that
\* the preflight promised (execution_steps, stack_capacity), and whichever of
\* them returns a value leaves the stack and the buffer of the sequential run.
AdmittedGraphsRunExactly ==
    stage \in {"exec", "done"} /\ Comparable /\ walk.frag > Len(prog) /\ walk.height = 1 =>
      LET m == threads[1].m
      IN  /\ m.out \notin {"Stack", "Loop", "panic"}
          /\ stage = "done" /\ m.out = "ok" =>
               /\ m.stack = base.stack
               /\ path # "evaluate" => buf = base.buf
               /\ Mode # "reference" => m.steps = walk.steps /\ m.peak = walk.peak

=============================================================================
