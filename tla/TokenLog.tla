------------------------------- MODULE TokenLog -------------------------------
(***************************************************************************)
(* What a two-phase causal pipeline promises, without messages or phases.  *)
(* Every layer range keeps a log of the tokens whose KV rows it holds.  A  *)
(* token is decided once, on top of a prefix that every surviving range    *)
(* holds in full; each range then learns it; only when every surviving     *)
(* range has learnt it is it delivered to the caller.  Any failure ends    *)
(* the pipeline for good, although ranges may still learn what was already *)
(* decided.                                                                *)
(***************************************************************************)
EXTENDS Naturals, Sequences

CONSTANTS Ranges,   \* layer ranges
          Context,  \* longest prefix
          Tokens

VARIABLES live,     \* may the caller still use the pipeline?
          tokens,   \* prefix delivered to the caller
          decided,  \* tokens, or tokens and one more
          log,      \* tokens whose rows each range holds
          lost      \* ranges whose session is gone

logVars == <<live, tokens, decided, log, lost>>

Init ==
    /\ live = TRUE
    /\ tokens = <<>>
    /\ decided = <<>>
    /\ log = [r \in Ranges |-> <<>>]
    /\ lost = {}

Surviving == Ranges \ lost

Decide(t) ==
    /\ live
    /\ decided = tokens
    /\ Len(tokens) < Context
    /\ \A r \in Surviving : log[r] = tokens
    /\ decided' = Append(tokens, t)
    /\ UNCHANGED <<live, tokens, log, lost>>

Learn(r) ==
    /\ r \in Surviving
    /\ decided # tokens
    /\ log[r] = tokens
    /\ log' = [log EXCEPT ![r] = decided]
    /\ UNCHANGED <<live, tokens, decided, lost>>

Deliver ==
    /\ live
    /\ decided # tokens
    /\ \A r \in Surviving : log[r] = decided
    /\ tokens' = decided
    /\ UNCHANGED <<live, decided, log, lost>>

Forget(r) ==
    /\ r \in Surviving
    /\ decided = tokens
    /\ log' = [log EXCEPT ![r] = <<>>]
    /\ UNCHANGED <<live, tokens, decided, lost>>

Restart ==
    /\ live
    /\ decided = tokens
    /\ \A r \in Surviving : log[r] = <<>>
    /\ tokens' = <<>>
    /\ decided' = <<>>
    /\ UNCHANGED <<live, log, lost>>

Lose(r) ==
    /\ r \in Surviving
    /\ lost' = lost \cup {r}
    /\ UNCHANGED <<live, tokens, decided, log>>

Fail ==
    /\ live
    /\ live' = FALSE
    /\ UNCHANGED <<tokens, decided, log, lost>>

Next ==
    \/ \E t \in Tokens : Decide(t)
    \/ \E r \in Ranges : Learn(r) \/ Forget(r) \/ Lose(r)
    \/ Deliver
    \/ Restart
    \/ Fail

Spec == Init /\ [][Next]_logVars
==============================================================================
