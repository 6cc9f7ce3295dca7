-------------------------------- MODULE Pool --------------------------------
(***************************************************************************)
(* The dice with the words that the bot's generator gives them.  It is     *)
(* seeded when the process starts, and hands out a pool of results before  *)
(* it makes the next.                                                      *)
(***************************************************************************)
EXTENDS Dice, Isaac

CONSTANTS
  Seeds,    \* seeds of eight words: "MEEPBOT" and the time
  MaxDraws  \* bound: words drawn by a process

ASSUME SeedsAssumption == \A s \in Seeds : Len(s) = 8 /\ \A i \in 1..8 : s[i] \in Word

\* The words of the generator are those that the dice are thrown with.
ASSUME WordAssumption == Modulus = Pow2[W]

VARIABLES
  ctx,      \* m_pISAAC->m_ctx
  first,    \* history: the pool that was seeded
  drawn     \* history: words drawn since

vars == <<dice, ctx, first, drawn>>

PoolInit ==
  /\ Init
  /\ drawn = 0
  /\ \E s \in Seeds : ctx = ISAAC(s) /\ first = Seeded(Results(s))

\* m_pISAAC->GetValue() and what Rand does with it.
GetValue ==
  /\ drawn < MaxDraws
  /\ ctx' = ISAAC_Rand(ctx)
  /\ word' = Value(ctx')
  /\ drawn' = drawn + 1 /\ UNCHANGED first

Draw   == GetValue /\ Throw
Begin  == Ask /\ UNCHANGED <<ctx, first, drawn>>
Reseed == Restart /\ drawn' = 0 /\ \E s \in Seeds : ctx' = ISAAC(s) /\ first' = Seeded(Results(s))

PoolNext == Draw \/ Begin \/ Reseed

PoolSpec == PoolInit /\ [][PoolNext]_vars

-----------------------------------------------------------------------------
\* Each word drawn is the next of the stream: no result is given twice or left
\* out where a pool ends and its counter goes through 0, and the two loops over
\* halves of the pool compute a round.
DrawsFollowTheStream == drawn > 0 => word = Stream(first, drawn)

\* The pool with the dice implements the dice: what it gives them are words,
\* and no command or restart of the one is none of the other.
PoolDrawsWords == Spec
=============================================================================
