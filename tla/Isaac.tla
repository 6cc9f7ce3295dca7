-------------------------------- MODULE Isaac --------------------------------
(***************************************************************************)
(* The generator ISAAC (util/ISAAC/rand.c) for words of W bits and pools   *)
(* of 2^RANDSIZL of them, as functions of its context; 32 and 8 in the     *)
(* code, where W must stay below 31 for TLC.  The caller is Pool.          *)
(***************************************************************************)
EXTENDS Integers, Sequences

CONSTANTS
  W,         \* bits of a word (32)
  RANDSIZL,  \* binary logarithm of the size of a pool (8)
  Golden     \* the low W bits of the golden ratio

Pow2[n \in Nat] == IF n = 0 THEN 1 ELSE 2 * Pow2[n - 1]

RANDSIZ == Pow2[RANDSIZL]
Index   == 0..(RANDSIZ - 1)
Word    == 0..(Pow2[W] - 1)

ASSUME SizeAssumption == W \in 17..32 /\ RANDSIZL \in 3..8 /\ Golden \in Word

Plus(x, y)   == (x + y) % Pow2[W]
ShiftL(x, n) == (x % Pow2[W - n]) * Pow2[n]
ShiftR(x, n) == x \div Pow2[n]

\* x ^ y, from the lowest bit on.
Bits[p \in Nat \X Nat] ==
  IF p[1] = 0 \/ p[2] = 0 THEN p[1] + p[2]
  ELSE (2 * Bits[<<p[1] \div 2, p[2] \div 2>>]) + ((p[1] + p[2]) % 2)

Xor(x, y) == Bits[<<x, y>>]

\* A loop of n turns: s becomes Turn(s, i) for i from 0 on.
Loop(Turn(_, _), s, n) ==
  LET after[i \in 0..n] == IF i = 0 THEN s ELSE Turn(after[i - 1], i - 1)
  IN  after[n]

-----------------------------------------------------------------------------
\* mix: eight lines of the same form, one for each of a..h.
Amounts == <<11, 2, 8, 16, 10, 4, 8, 9>>

MixLine(v, i) ==
  LET next   == v[(i + 1) % 8]
      shift  == IF i % 2 = 0 THEN ShiftL(next, Amounts[i + 1])
                             ELSE ShiftR(next, Amounts[i + 1])
      mixed  == [v EXCEPT ![i] = Xor(v[i], shift)]
      spread == [mixed EXCEPT ![(i + 3) % 8] = Plus(@, mixed[i])]
  IN  [spread EXCEPT ![(i + 1) % 8] = Plus(@, spread[(i + 2) % 8])]

Mix(v) == Loop(MixLine, v, 8)

\* One pass over the pool: add eight words of source, mix, keep the result.
Pass(s, source) ==
  LET Block(t, i) ==
        LET v == Mix([j \in 0..7 |-> Plus(t.v[j], source[8 * i + j])])
        IN  [v |-> v, m |-> [k \in Index |-> IF k \div 8 = i THEN v[k % 8] ELSE t.m[k]]]
  IN  Loop(Block, s, RANDSIZ \div 8)

\* The pool that ISAAC_Init makes of the results array (flag is TRUE).
Seeded(rsl) ==
  LET golden == [j \in 0..7 |-> Golden]
      start  == [v |-> Mix(Mix(Mix(Mix(golden)))), m |-> [k \in Index |-> 0]]
      first  == Pass(start, rsl)
  IN  Pass(first, first.m).m

-----------------------------------------------------------------------------
\* The word of the pool that x points at.
Ind(mm, x) == mm[ShiftR(x, 2) % RANDSIZ]

Twist(a, k) == Xor(a, CASE k = 0 -> ShiftL(a, 13) [] k = 1 -> ShiftR(a, 6)
                        [] k = 2 -> ShiftL(a, 2)  [] k = 3 -> ShiftR(a, 16))

\* rngstep: m, m2 and r are the pointers it moves.
RngStep(s, i) ==
  LET x  == s.mm[s.m]
      a  == Plus(Twist(s.a, i % 4), s.mm[s.m2])
      y  == Plus(Plus(Ind(s.mm, x), a), s.b)
      mm == [s.mm EXCEPT ![s.m] = y]
      b  == Plus(Ind(mm, ShiftR(y, RANDSIZL)), x)
  IN  [a |-> a, b |-> b, mm |-> mm, rsl |-> [s.rsl EXCEPT ![s.r] = b],
       m |-> s.m + 1, m2 |-> s.m2 + 1, r |-> s.r + 1]

Half(s) == Loop(RngStep, s, RANDSIZ \div 2)

\* Two loops: m and r go on, m2 is first in the other half and then in this.
ISAAC_Gen(ctx) ==
  LET c == Plus(ctx.randc, 1)
      start == [a |-> ctx.randa, b |-> Plus(ctx.randb, c), mm |-> ctx.randmem,
                rsl |-> ctx.randrsl, m |-> 0, m2 |-> RANDSIZ \div 2, r |-> 0]
      done  == Half([Half(start) EXCEPT !.m2 = 0])
  IN  [ctx EXCEPT !.randa = done.a, !.randb = done.b, !.randc = c,
                  !.randmem = done.mm, !.randrsl = done.rsl]

\* The constructor: a seed of eight words, zeros after it, and the first pool.
Results(seed) == [k \in Index |-> IF k < 8 THEN seed[k + 1] ELSE 0]

ISAAC(seed) ==
  ISAAC_Gen([randcnt |-> RANDSIZ, randrsl |-> Results(seed), randmem |-> Seeded(Results(seed)),
             randa |-> 0, randb |-> 0, randc |-> 0])

-----------------------------------------------------------------------------
\* Bug: the counter is decremented before it is tested.
ISAAC_RandEarly(ctx) ==
  IF ctx.randcnt = 1 THEN [ISAAC_Gen(ctx) EXCEPT !.randcnt = RANDSIZ - 1]
                     ELSE [ctx EXCEPT !.randcnt = @ - 1]

\* Draw: the context afterwards; the value is the result its counter is at.
ISAAC_Rand(ctx) ==
  IF ctx.randcnt = 0 THEN [ISAAC_Gen(ctx) EXCEPT !.randcnt = RANDSIZ - 1]
                     ELSE [ctx EXCEPT !.randcnt = @ - 1]

\* Bug: the result is taken for a signed number.
ValueSigned(ctx) ==
  LET v == ctx.randrsl[ctx.randcnt] IN IF v >= Pow2[W - 1] THEN v - Pow2[W] ELSE v

Value(ctx) == ctx.randrsl[ctx.randcnt]

-----------------------------------------------------------------------------
(***************************************************************************)
(* The reference: one round as its author describes it, without pointers:  *)
(* word i is taken together with the one half a pool away.                 *)
(***************************************************************************)
RoundStep(p, k) ==
  LET a == (Twist(p.a, k % 4) + p.m[(k + (RANDSIZ \div 2)) % RANDSIZ]) % Pow2[W]
      y == (((p.m[(p.m[k] \div 4) % RANDSIZ] + a) % Pow2[W]) + p.b) % Pow2[W]
      m == [p.m EXCEPT ![k] = y]
      b == (m[(y \div (4 * RANDSIZ)) % RANDSIZ] + p.m[k]) % Pow2[W]
  IN  [a |-> a, b |-> b, c |-> p.c, m |-> m, out |-> [p.out EXCEPT ![k] = b]]

RoundOf(t) ==
  LET c == (t.c + 1) % Pow2[W]
  IN  Loop(RoundStep, [t EXCEPT !.b = (t.b + c) % Pow2[W], !.c = c], RANDSIZ)

\* The states between the rounds.
Rounds(pool) ==
  LET zero == [a |-> 0, b |-> 0, c |-> 0, m |-> pool, out |-> [k \in Index |-> 0]]
      rounds[j \in Nat] == IF j = 0 THEN zero ELSE RoundOf(rounds[j - 1])
  IN  rounds

\* The n-th result of a pool: those of a round, from the last to the first.
Stream(pool, n) ==
  Rounds(pool)[((n - 1) \div RANDSIZ) + 1].out[RANDSIZ - 1 - ((n - 1) % RANDSIZ)]
=============================================================================
