------------------------------ MODULE Standing ------------------------------
(***************************************************************************)
(* What the warning system promises, with every command in one step: a     *)
(* warning counts, the one that reaches the limit bars the user, and the   *)
(* immune are counted but not barred.                                      *)
(***************************************************************************)
EXTENDS Naturals

CONSTANTS Names, MaxWarnings

VARIABLES
  strikes,  \* warnings each user has
  barred,   \* users who may not use the bot any more
  immune    \* users whose rank is protected

vars == <<strikes, barred, immune>>

Init ==
  /\ strikes = [u \in Names |-> 0]
  /\ barred = {}
  /\ immune = {}

Strike(u) ==
  /\ strikes[u] < MaxWarnings
  /\ strikes' = [strikes EXCEPT ![u] = @ + 1]
  /\ barred' = IF strikes[u] + 1 = MaxWarnings /\ u \notin immune
               THEN barred \cup {u} ELSE barred
  /\ UNCHANGED immune

Pardon(u) == strikes' = [strikes EXCEPT ![u] = 0] /\ UNCHANGED <<barred, immune>>
Shield(u) == immune' = immune \cup {u} /\ UNCHANGED <<strikes, barred>>
Expose(u) == immune' = immune \ {u} /\ UNCHANGED <<strikes, barred>>

Next == \E u \in Names : Strike(u) \/ Pardon(u) \/ Shield(u) \/ Expose(u)

Spec == Init /\ [][Next]_vars
=============================================================================
