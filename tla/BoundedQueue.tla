----------------------------- MODULE BoundedQueue -----------------------------
(***************************************************************************)
(* What crates/queue promises its callers: a bounded first-in first-out    *)
(* queue whose operations take effect at one instant between call and      *)
(* return.                                                                 *)
(***************************************************************************)
EXTENDS Naturals, Sequences

CONSTANTS Threads, Values, Cap,
          None      \* the empty answer

VARIABLES queue,    \* elements, oldest first
          call      \* what each thread is doing

absVars == <<queue, call>>

Ops  == {"push", "force", "pop"}
Rest == [op |-> "none", arg |-> None, done |-> FALSE, ret |-> None]

Init ==
    /\ queue = <<>>
    /\ call = [t \in Threads |-> Rest]

Invoke(t, op, v) ==
    /\ call[t] = Rest
    /\ call' = [call EXCEPT ![t] = [op |-> op, arg |-> v, done |-> FALSE, ret |-> None]]
    /\ UNCHANGED queue

Ends(t, r) == call' = [call EXCEPT ![t].done = TRUE, ![t].ret = r]

\* An operation takes effect.  A refused push returns its own value.
TakeEffect(t) ==
    /\ call[t].op # "none"
    /\ ~call[t].done
    /\ \/ /\ call[t].op \in {"push", "force"}
          /\ Len(queue) < Cap
          /\ queue' = Append(queue, call[t].arg)
          /\ Ends(t, None)
       \/ /\ call[t].op = "push"
          /\ Len(queue) = Cap
          /\ UNCHANGED queue
          /\ Ends(t, call[t].arg)
       \/ /\ call[t].op = "force"
          /\ Len(queue) = Cap
          /\ queue' = Append(Tail(queue), call[t].arg)
          /\ Ends(t, Head(queue))
       \/ /\ call[t].op = "pop"
          /\ queue # <<>>
          /\ queue' = Tail(queue)
          /\ Ends(t, Head(queue))
       \/ /\ call[t].op = "pop"
          /\ queue = <<>>
          /\ UNCHANGED queue
          /\ Ends(t, None)

Return(t) ==
    /\ call[t].done
    /\ call' = [call EXCEPT ![t] = Rest]
    /\ UNCHANGED queue

\* push_mut and pop_mut: the caller holds the only reference.
Exclusive(v) ==
    /\ \A t \in Threads : call[t] = Rest
    /\ \/ Len(queue) < Cap /\ queue' = Append(queue, v)
       \/ queue # <<>> /\ queue' = Tail(queue)
    /\ UNCHANGED call

Next ==
    \/ \E t \in Threads :
         \/ \E v \in Values : Invoke(t, "push", v) \/ Invoke(t, "force", v)
         \/ Invoke(t, "pop", None)
         \/ TakeEffect(t)
         \/ Return(t)
    \/ \E v \in Values : Exclusive(v)

Spec == Init /\ [][Next]_absVars
==============================================================================
