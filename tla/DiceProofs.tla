----------------------------- MODULE DiceProofs -----------------------------
(***************************************************************************)
(* The dice for every size of words, every limit and every drawn word; the *)
(* generator for every size of words and pools; and the two together.      *)
(***************************************************************************)
EXTENDS Pool, WellFoundedInduction, TLAPS

USE DEF asked

\* The argument of Rand fits the die: it is the number of sides, if any word
\* is, and it is 0 only where that number is none.
LEMMA Converted ==
  ASSUME NEW x \in [part : Int, whole : BOOLEAN], NEW m \in Unsigned(x)
  PROVE  /\ m \in Words
         /\ x.part \in Words => m = x.part
         /\ m = 0 => x.part \notin 1..(Modulus - 1)
  BY ModulusAssumption DEF Unsigned, Words

\* A remainder plus 1 does not wrap around.
LEMMA SideOfDie ==
  ASSUME NEW w \in Words, NEW m \in Words, m # 0
  PROVE  FromOne(w, m) \in Words /\ FromOne(w, m) \in 1..m
<1>1. w \in Nat /\ m \in Nat /\ m > 0 /\ m < Modulus
  BY ModulusAssumption DEF Words
<1>2. w % m \in 0..(m - 1)
  BY <1>1
<1>3. (w % m) + 1 \in 0..(Modulus - 1)
  BY <1>1, <1>2, ModulusAssumption
<1>4. ((w % m) + 1) % Modulus = (w % m) + 1
  BY <1>3, ModulusAssumption
<1> QED
  BY <1>1, <1>2, <1>3, <1>4 DEF FromOne, Words

\* While !roll throws, the die has sides; !rollx was not given 0.
DieIsFair ==
  /\ by = "roll" => sides.part \in 1..(Modulus - 1)
  /\ by = "rollx" => ~IsZero(sides)
  /\ by = "nobody" => left = 0

Inv == TypeOK /\ RollsInRange /\ OnlyRollxDividesByZero /\ DieIsFair

LEMMA InvInit == Init => Inv
<1> SUFFICES ASSUME Init PROVE Inv
  OBVIOUS
<1>1. word \in Words /\ sides \in [part : Int, whole : BOOLEAN]
  BY ModulusAssumption DEF Init, Words, Whole
<1>2. rolls \in Seq(Words) /\ Len(rolls) = 0 /\ left = 0
  BY DEF Init
<1>3. TypeOK
  <2>1. crashed \in BOOLEAN
    BY Zenon DEF Init
  <2> QED
    BY <1>1, <1>2, <2>1, RollAssumption DEF Init, TypeOK
<1>4. RollsInRange /\ OnlyRollxDividesByZero /\ DieIsFair
  BY <1>2 DEF Init, RollsInRange, OnlyRollxDividesByZero, DieIsFair
<1> QED
  BY <1>3, <1>4 DEF Inv

LEMMA InvUnderAsk ==
  ASSUME Inv, Ask
  PROVE  Inv'
<1> USE DEF Inv, TypeOK, RollsInRange, OnlyRollxDividesByZero, DieIsFair, Throws, Idle
<1>1. ASSUME NEW num \in Counts, NEW n \in Sides, Roll(num, n)
      PROVE  Inv'
  BY <1>1, RollAssumption, ModulusAssumption, InputAssumption DEF Roll, Whole
<1>2. ASSUME NEW x \in Numbers, Rollx(x)
      PROVE  Inv'
  BY <1>2, InputAssumption DEF Rollx
<1> QED
  BY <1>1, <1>2 DEF Ask

LEMMA InvUnderThrow ==
  ASSUME Inv, AnyWord, Throw
  PROVE  Inv'
<1> USE DEF Inv
<1>1. PICK m \in Unsigned(sides) :
        IF m = 0
        THEN crashed' = TRUE /\ left' = 0 /\ UNCHANGED rolls
        ELSE /\ rolls' = Append(rolls, FromOne(word', m))
             /\ left' = left - 1
             /\ UNCHANGED crashed
  BY DEF Throw
<1>2. left > 0 /\ word' \in Words /\ UNCHANGED asked
  BY DEF Throw, AnyWord
<1>3. /\ m \in Words
      /\ sides.part \in Words => m = sides.part
      /\ m = 0 => sides.part \notin 1..(Modulus - 1)
  BY Converted DEF TypeOK
<1>4. CASE m = 0
  <2>1. by = "rollx"
    BY <1>2, <1>3, <1>4 DEF DieIsFair, TypeOK
  <2> QED
    BY <1>1, <1>2, <1>3, <1>4, <2>1
    DEF TypeOK, RollsInRange, OnlyRollxDividesByZero, DieIsFair
<1>5. CASE m # 0
  <2> DEFINE r == FromOne(word', m)
  <2>1. r \in Words /\ r \in 1..m
    BY <1>2, <1>3, <1>5, SideOfDie
  <2> HIDE DEF r
  <2>2. rolls' = Append(rolls, r) /\ left' = left - 1 /\ UNCHANGED crashed
    BY <1>1, <1>5 DEF r
  <2>3. rolls \in Seq(Words) /\ rolls' \in Seq(Words) /\ Len(rolls') = Len(rolls) + 1
    BY <2>1, <2>2 DEF TypeOK
  <2>4. TypeOK'
    BY <1>2, <2>2, <2>3, RollAssumption DEF TypeOK
  <2>5. RollsInRange'
    <3>1. r >= 1 /\ (sides.part \in Words => r <= sides.part)
      BY <1>3, <2>1 DEF Words
    <3>2. \A i \in 1..Len(rolls') : rolls'[i] = IF i = Len(rolls) + 1 THEN r ELSE rolls[i]
      BY <2>2, <2>3
    <3> QED
      BY <1>2, <2>3, <3>1, <3>2 DEF RollsInRange
  <2>6. OnlyRollxDividesByZero' /\ DieIsFair'
    BY <1>2, <2>2 DEF OnlyRollxDividesByZero, DieIsFair, TypeOK
  <2> QED
    BY <2>4, <2>5, <2>6
<1> QED
  BY <1>4, <1>5

LEMMA InvStep == Inv /\ [Next]_dice => Inv'
<1> SUFFICES ASSUME Inv, [Next]_dice PROVE Inv'
  OBVIOUS
<1>1. CASE Ask
  BY <1>1, InvUnderAsk
<1>2. CASE AnyWord /\ Throw
  BY <1>2, InvUnderThrow
<1>3. CASE Restart
  <2>1. rolls' \in Seq(Words) /\ Len(rolls') = 0 /\ left' = 0 /\ UNCHANGED <<word, asked>>
    BY <1>3 DEF Restart
  <2>2. TypeOK'
    <3>1. crashed' \in BOOLEAN
      BY <1>3, Zenon DEF Restart
    <3> QED
      BY <2>1, <3>1, RollAssumption DEF Inv, TypeOK
  <2>3. (RollsInRange /\ OnlyRollxDividesByZero /\ DieIsFair)'
    BY <1>3, <2>1 DEF Restart, Inv, RollsInRange, OnlyRollxDividesByZero, DieIsFair
  <2> QED
    BY <2>2, <2>3 DEF Inv
<1>4. CASE UNCHANGED dice
  BY <1>4 DEF dice, Inv, TypeOK, RollsInRange, OnlyRollxDividesByZero, DieIsFair
<1> QED
  BY <1>1, <1>2, <1>3, <1>4 DEF Next

-----------------------------------------------------------------------------
THEOREM Invariance == Spec => []Inv
  BY InvInit, InvStep, PTL DEF Spec

\* Dice.lua: never more throws than a command may ask for.
THEOREM TypeCorrectness == Spec => []TypeOK
<1>1. Inv => TypeOK
  BY DEF Inv
<1> QED
  BY <1>1, Invariance, PTL

\* Utils.Rand: a throw is a side of the die, for any word and any die.
THEOREM ThrowsAreSides == Spec => []RollsInRange
<1>1. Inv => RollsInRange
  BY DEF Inv
<1> QED
  BY <1>1, Invariance, PTL

\* !roll never ends the process, and !rollx only in two ways.
THEOREM ZeroComesFromRollx == Spec => []OnlyRollxDividesByZero
<1>1. Inv => OnlyRollxDividesByZero
  BY DEF Inv
<1> QED
  BY <1>1, Invariance, PTL

-----------------------------------------------------------------------------
(***************************************************************************)
(* Induction and recursion over data, from the least element of a set of   *)
(* naturals: as in PacketsProofs, with a set of values for each place.     *)
(***************************************************************************)
LEMMA LeastNumber ==
  ASSUME NEW T, T \subseteq Nat, T # {}
  PROVE  \E x \in T : \A y \in T : x <= y
<1> DEFINE R == OpToRel(<, Nat)
<1>1. IsWellFoundedOn(R, Nat)
  BY NatLessThanWellFounded
<1>2. \A x, y \in Nat : x < y => <<x, y>> \in R
  BY DEF OpToRel
<1> HIDE DEF R
<1>3. PICK x \in T : \A y \in T : ~ (<<y, x>> \in R)
  BY <1>1, WFMin
<1>4. ASSUME NEW y \in T PROVE x <= y
  <2>1. x \in Nat /\ y \in Nat /\ ~ (y < x)
    BY <1>2, <1>3
  <2> QED BY <2>1
<1> QED BY <1>4

LEMMA Induction ==
  ASSUME NEW T, 0 \in T, \A n \in Nat : n \in T => n + 1 \in T
  PROVE  Nat \subseteq T
<1> SUFFICES ASSUME Nat \ T # {} PROVE FALSE
  OBVIOUS
<1>1. PICK x \in Nat \ T : \A y \in Nat \ T : x <= y
  BY LeastNumber
<1>2. x # 0 /\ x - 1 \in Nat /\ ~ (x <= x - 1)
  BY <1>1
<1>3. x - 1 \in T
  BY <1>1, <1>2
<1>4. (x - 1) + 1 = x
  BY <1>2
<1> QED BY <1>1, <1>2, <1>3, <1>4

\* From every place of D outside stop, pred leads to one of less rank.
Descends(D, rank, stop, pred) ==
  /\ rank \in [D -> Nat]
  /\ pred \in [D -> D]
  /\ \A d \in D \ stop : rank[pred[d]] < rank[d]

Inherited(D, stop, pred, T) == \A d \in D : (d \in stop \/ pred[d] \in T) => d \in T

LEMMA RankInduction ==
  ASSUME NEW D, NEW rank, NEW stop, NEW pred, Descends(D, rank, stop, pred),
         NEW T, Inherited(D, stop, pred, T)
  PROVE  D \subseteq T
<1> USE DEF Descends, Inherited
<1> SUFFICES ASSUME D \ T # {} PROVE FALSE
  OBVIOUS
<1> DEFINE R == {rank[d] : d \in D \ T}
<1>1. R \subseteq Nat /\ R # {}
  OBVIOUS
<1>2. PICK x \in R : \A y \in R : x <= y
  <2> HIDE DEF R
  <2> QED BY <1>1, LeastNumber
<1>3. PICK d \in D \ T : x = rank[d]
  BY <1>2
<1>4. d \notin stop /\ pred[d] \in D \ T
  BY <1>3
<1>5. rank[pred[d]] \in R
  BY <1>4
<1>6. rank[pred[d]] \in Nat /\ rank[d] \in Nat /\ rank[pred[d]] < rank[d] /\ rank[d] <= rank[pred[d]]
  BY <1>2, <1>3, <1>4, <1>5
<1> QED BY <1>6

\* f takes its value from base in stop, and elsewhere by step from its value at
\* pred; each value is in the set that X has for the place.
Solves(f, D, X, stop, pred, base, step) ==
  \A d \in D : /\ f[d] = IF d \in stop THEN base[d] ELSE step[d][f[pred[d]]]
               /\ f[d] \in X[d]

Typed(D, X, stop, pred, base, step) ==
  \A d \in D : IF d \in stop THEN base[d] \in X[d]
               ELSE \A v \in X[pred[d]] : step[d][v] \in X[d]

\* A function whose value at a place depends on its value at one of less rank exists.
LEMMA Recursion ==
  ASSUME NEW D, NEW rank, NEW stop, NEW pred, Descends(D, rank, stop, pred),
         NEW X, NEW base, NEW step, Typed(D, X, stop, pred, base, step)
  PROVE  \E f : f = [d \in D |-> f[d]] /\ Solves(f, D, X, stop, pred, base, step)
<1> USE DEF Descends, Solves, Typed
<1> DEFINE E(k) == {d \in D : rank[d] <= k}
           P(f, k) == \A d \in E(k) :
                        /\ f[d] = IF d \in stop THEN base[d] ELSE step[d][f[pred[d]]]
                        /\ f[d] \in X[d]
           T == {k \in Nat : \E f : P(f, k)}
<1>0. \A k \in Nat : \A d \in E(k) \ stop : pred[d] \in E(k) /\ rank[pred[d]] < rank[d]
  <2> SUFFICES ASSUME NEW k \in Nat, NEW d \in D, rank[d] <= k, d \notin stop
               PROVE  pred[d] \in D /\ rank[pred[d]] <= k /\ rank[pred[d]] < rank[d]
    OBVIOUS
  <2>1. pred[d] \in D /\ rank[pred[d]] < rank[d] /\ rank[pred[d]] \in Nat /\ rank[d] \in Nat
    OBVIOUS
  <2> QED BY <2>1
<1>1. 0 \in T
  <2> DEFINE g == [d \in E(0) |-> base[d]]
  <2>1. \A d \in E(0) : d \in stop
    <3> SUFFICES ASSUME NEW d \in D, rank[d] <= 0, d \notin stop PROVE FALSE
      OBVIOUS
    <3>1. rank[pred[d]] \in Nat /\ rank[pred[d]] < rank[d] /\ rank[d] \in Nat
      OBVIOUS
    <3> QED BY <3>1
  <2>2. P(g, 0)
    BY <2>1
  <2> QED BY <2>2
<1>2. ASSUME NEW k \in Nat, k \in T PROVE k + 1 \in T
  <2>1. PICK f : P(f, k)
    BY <1>2
  <2>2. \A d \in E(k) : d \in E(k + 1)
    <3> SUFFICES ASSUME NEW d \in D, rank[d] <= k PROVE rank[d] <= k + 1
      OBVIOUS
    <3>1. rank[d] \in Nat
      OBVIOUS
    <3> QED BY <3>1
  <2>3. \A d \in E(k + 1) : d \notin stop => pred[d] \in E(k)
    <3> SUFFICES ASSUME NEW d \in D, rank[d] <= k + 1, d \notin stop
                 PROVE  rank[pred[d]] <= k
      OBVIOUS
    <3>1. rank[d] \in Nat /\ rank[pred[d]] \in Nat /\ rank[pred[d]] < rank[d]
      OBVIOUS
    <3> QED BY <3>1
  <2> DEFINE g == [d \in E(k + 1) |-> IF d \in stop THEN base[d] ELSE step[d][f[pred[d]]]]
  <2>4. \A d \in E(k + 1) : g[d] \in X[d]
    <3> SUFFICES ASSUME NEW d \in E(k + 1), d \notin stop PROVE step[d][f[pred[d]]] \in X[d]
      OBVIOUS
    <3>1. f[pred[d]] \in X[pred[d]]
      BY <2>1, <2>3
    <3> QED BY <3>1
  <2>5. \A d \in E(k) : g[d] = f[d]
    <3> HIDE DEF E
    <3> QED BY <2>1, <2>2
  <2>6. P(g, k + 1)
    <3> HIDE DEF E
    <3> QED BY <2>3, <2>4, <2>5
  <2> HIDE DEF E, P, g
  <2> QED BY <2>6
<1>3. \A k \in Nat : \E f : P(f, k)
  <2> HIDE DEF T
  <2>1. Nat \subseteq T
    BY <1>1, <1>2, Induction
  <2> USE DEF T
  <2> QED BY <2>1
<1> DEFINE F == [k \in Nat |-> CHOOSE f : P(f, k)]
<1>4. \A k \in Nat : P(F[k], k)
  <2> HIDE DEF P, E
  <2> QED BY <1>3
<1>5. ASSUME NEW k \in Nat, NEW l \in Nat, k <= l
      PROVE  \A d \in E(k) : F[k][d] = F[l][d]
  <2> HIDE DEF F
  <2> DEFINE S == {d \in D : d \in E(k) => F[k][d] = F[l][d]}
  <2>1. ASSUME NEW d \in D, d \in stop \/ pred[d] \in S PROVE d \in S
    <3> SUFFICES ASSUME d \in E(k) PROVE F[k][d] = F[l][d]
      OBVIOUS
    <3>1. d \in E(l)
      <4>1. rank[d] \in Nat /\ rank[d] <= k
        OBVIOUS
      <4> QED BY <4>1, <1>5
    <3>2. CASE d \in stop
      BY <1>4, <3>1, <3>2
    <3>3. CASE d \notin stop
      <4>1. pred[d] \in E(k) /\ F[k][pred[d]] = F[l][pred[d]]
        BY <1>0, <2>1, <3>3
      <4> HIDE DEF E
      <4> QED BY <1>4, <3>1, <3>3, <4>1
    <3> QED BY <3>2, <3>3
  <2>2. D \subseteq S
    <3> HIDE DEF S
    <3>1. Inherited(D, stop, pred, S)
      BY <2>1 DEF Inherited
    <3> HIDE DEF Descends
    <3> QED BY <3>1, RankInduction
  <2> QED BY <2>2
<1> DEFINE h == [d \in D |-> F[rank[d]][d]]
<1>7. ASSUME NEW d \in D
      PROVE  /\ h[d] = IF d \in stop THEN base[d] ELSE step[d][h[pred[d]]]
             /\ h[d] \in X[d]
  <2>1. rank[d] \in Nat /\ d \in E(rank[d])
    OBVIOUS
  <2>2. CASE d \in stop
    <3> HIDE DEF E, F
    <3> QED BY <1>4, <2>1, <2>2
  <2>3. CASE d \notin stop
    <3>1. /\ rank[pred[d]] \in Nat /\ rank[pred[d]] <= rank[d]
          /\ pred[d] \in E(rank[pred[d]]) /\ pred[d] \in D
      <4>1. pred[d] \in D /\ rank[pred[d]] \in Nat /\ rank[d] \in Nat /\ rank[pred[d]] < rank[d]
        BY <2>3
      <4> QED BY <4>1
    <3> HIDE DEF E, F
    <3>2. F[rank[pred[d]]][pred[d]] = F[rank[d]][pred[d]]
      BY <1>5, <2>1, <3>1
    <3> QED BY <1>4, <2>1, <2>3, <3>1, <3>2
  <2> QED BY <2>2, <2>3
<1>8. h = [d \in D |-> h[d]]
  OBVIOUS
<1> HIDE DEF h
<1> QED BY <1>7, <1>8

-----------------------------------------------------------------------------
(***************************************************************************)
(* Powers of 2, quotients and remainders, exclusive or.                    *)
(***************************************************************************)
\* The equation of a recursive function, where such a function exists.
LEMMA Pow2Equation ==
  /\ Pow2[0] = 1
  /\ \A n \in Nat : Pow2[n] \in Nat \ {0} /\ Pow2[n + 1] = 2 * Pow2[n]
<1> DEFINE Body(f) == [n \in Nat |-> IF n = 0 THEN 1 ELSE 2 * f[n - 1]]
           rank == [n \in Nat |-> n]
           pred == [n \in Nat |-> IF n = 0 THEN 0 ELSE n - 1]
           X    == [n \in Nat |-> Nat \ {0}]
           base == [n \in Nat |-> 1]
           step == [n \in Nat |-> [v \in Nat |-> 2 * v]]
<1>1. Descends(Nat, rank, {0}, pred)
  BY DEF Descends
<1>2. Typed(Nat, X, {0}, pred, base, step)
  BY DEF Typed
<1>3. PICK f : f = [n \in Nat |-> f[n]] /\ Solves(f, Nat, X, {0}, pred, base, step)
  <2> HIDE DEF rank, pred, X, base, step
  <2> QED BY <1>1, <1>2, Recursion
<1>4. ASSUME NEW n \in Nat
      PROVE  /\ f[n] \in Nat \ {0}
             /\ f[n] = IF n = 0 THEN 1 ELSE 2 * f[n - 1]
  <2>0. pred[n] \in Nat
    OBVIOUS
  <2>1. /\ f[n] = IF n \in {0} THEN base[n] ELSE step[n][f[pred[n]]]
        /\ f[n] \in X[n] /\ f[pred[n]] \in X[pred[n]]
    <3> HIDE DEF rank, pred, X, base, step
    <3> QED BY <1>3, <2>0 DEF Solves
  <2> QED BY <2>1
<1>5. f = Body(f)
  BY <1>3, <1>4
<1>6. Pow2 = CHOOSE g : g = Body(g)
  BY DEF Pow2
<1>7. Pow2 = Body(Pow2)
  <2> HIDE DEF Body
  <2> QED BY <1>5, <1>6
<1>8. \A n \in Nat : Pow2[n] = IF n = 0 THEN 1 ELSE 2 * Pow2[n - 1]
  BY <1>7
<1>9. \A n \in Nat : Pow2[n] \in Nat \ {0}
  <2> DEFINE T == {n \in Nat : Pow2[n] \in Nat \ {0}}
  <2>1. 0 \in T
    BY <1>8
  <2>2. \A n \in Nat : n \in T => n + 1 \in T
    <3> SUFFICES ASSUME NEW n \in Nat, n \in T PROVE n + 1 \in T
      OBVIOUS
    <3>1. n + 1 \in Nat /\ n + 1 # 0 /\ (n + 1) - 1 = n
      OBVIOUS
    <3>2. Pow2[n + 1] = 2 * Pow2[n]
      BY <1>8, <3>1
    <3> QED BY <3>1, <3>2
  <2>3. Nat \subseteq T
    <3> HIDE DEF T
    <3> QED BY <2>1, <2>2, Induction
  <2> QED BY <2>3
<1>10. \A n \in Nat : n + 1 \in Nat /\ n + 1 # 0 /\ (n + 1) - 1 = n
  OBVIOUS
<1> QED BY <1>8, <1>9, <1>10

\* Products and quotients by a positive number.
LEMMA TimesNat == ASSUME NEW x \in Nat, NEW d \in Nat PROVE x * d \in Nat
  OBVIOUS

LEMMA QuotientNat ==
  ASSUME NEW x \in Nat, NEW d \in Nat \ {0}
  PROVE  x \div d \in Nat /\ x % d \in 0 .. d - 1
  OBVIOUS

\* The lengths a pool can have.
Lengths == {8, 16, 32, 64, 128, 256}

LEMMA PoolLengths == RANDSIZ \in Lengths /\ Pow2[RANDSIZL] = RANDSIZ /\ Pow2[2] = 4
<1>1. Pow2[1] = 2 /\ Pow2[2] = 4 /\ Pow2[3] = 8
  <2>1. Pow2[0 + 1] = 2 * Pow2[0] /\ Pow2[1 + 1] = 2 * Pow2[1] /\ Pow2[2 + 1] = 2 * Pow2[2]
    BY Pow2Equation
  <2> QED BY <2>1, Pow2Equation
<1>2. Pow2[4] = 16 /\ Pow2[5] = 32 /\ Pow2[6] = 64
  <2>1. Pow2[3 + 1] = 2 * Pow2[3] /\ Pow2[4 + 1] = 2 * Pow2[4] /\ Pow2[5 + 1] = 2 * Pow2[5]
    BY Pow2Equation
  <2> QED BY <1>1, <2>1
<1>3. Pow2[7] = 128 /\ Pow2[8] = 256
  <2>1. Pow2[6 + 1] = 2 * Pow2[6] /\ Pow2[7 + 1] = 2 * Pow2[7]
    BY Pow2Equation
  <2> QED BY <1>2, <2>1
<1>4. RANDSIZL \in {3, 4, 5, 6, 7, 8}
  BY SizeAssumption
<1> QED BY <1>1, <1>2, <1>3, <1>4 DEF RANDSIZ, Lengths

LEMMA Halves ==
  ASSUME NEW n \in Lengths
  PROVE  /\ n \in Nat \ {0} /\ n \div 2 \in Nat /\ n \div 8 \in Nat /\ (n \div 2) + (n \div 2) = n
         /\ \A k \in 0 .. (n \div 2) - 1 :
              /\ k \in 0 .. n - 1 /\ (n \div 2) + k \in 0 .. n - 1
              /\ (k + (n \div 2)) % n = (n \div 2) + k
              /\ (((n \div 2) + k) + (n \div 2)) % n = k
              /\ ((n \div 2) + k) % 4 = k % 4
  BY DEF Lengths

LEMMA Shifts ==
  ASSUME NEW n \in Lengths, NEW x \in Nat
  PROVE  (x \div n) \div 4 = x \div (4 * n)
  BY DEF Lengths

LEMMA Rows ==
  ASSUME NEW n \in Lengths, NEW j \in Nat, NEW r \in 0 .. n - 1
  PROVE  ((j * n) + r) \div n = j /\ ((j * n) + r) % n = r
  BY DEF Lengths

\* Exclusive or of naturals is a natural.
LEMMA XorNat == \A x, y \in Nat : Xor(x, y) \in Nat
<1> DEFINE P == Nat \X Nat
           Body(f) == [p \in P |->
                         IF p[1] = 0 \/ p[2] = 0 THEN p[1] + p[2]
                         ELSE (2 * f[<<p[1] \div 2, p[2] \div 2>>]) + ((p[1] + p[2]) % 2)]
           rank == [p \in P |-> p[1]]
           stop == {p \in P : p[1] = 0 \/ p[2] = 0}
           pred == [p \in P |-> <<p[1] \div 2, p[2] \div 2>>]
           X    == [p \in P |-> Nat]
           base == [p \in P |-> p[1] + p[2]]
           step == [p \in P |-> [n \in Nat |-> (2 * n) + ((p[1] + p[2]) % 2)]]
<1>1. \A p \in P : /\ p[1] \in Nat /\ p[2] \in Nat /\ p = <<p[1], p[2]>>
                   /\ p[1] \div 2 \in Nat /\ p[2] \div 2 \in Nat
                   /\ (p[1] # 0 => p[1] \div 2 < p[1]) /\ (p[1] + p[2]) % 2 \in Nat
  OBVIOUS
<1>2. Descends(P, rank, stop, pred)
  <2> HIDE DEF P
  <2>1. rank \in [P -> Nat]
    BY <1>1
  <2>2. pred \in [P -> P]
    BY <1>1 DEF P
  <2>3. \A p \in P \ stop : rank[pred[p]] < rank[p]
    <3> SUFFICES ASSUME NEW p \in P, p[1] # 0 PROVE rank[pred[p]] < rank[p]
      OBVIOUS
    <3>1. pred[p] \in P /\ pred[p] = <<p[1] \div 2, p[2] \div 2>>
      BY <2>2
    <3> QED BY <1>1, <3>1
  <2> QED BY <2>1, <2>2, <2>3 DEF Descends
<1>3. Typed(P, X, stop, pred, base, step)
  <2> HIDE DEF P
  <2> SUFFICES ASSUME NEW p \in P
               PROVE  IF p \in stop THEN base[p] \in X[p]
                      ELSE \A v \in X[pred[p]] : step[p][v] \in X[p]
    BY DEF Typed
  <2>1. pred[p] \in P
    BY <1>1 DEF P
  <2>2. base[p] \in Nat /\ \A v \in Nat : step[p][v] \in Nat
    BY <1>1
  <2> QED BY <2>1, <2>2
<1>4. PICK f : f = [p \in P |-> f[p]] /\ Solves(f, P, X, stop, pred, base, step)
  <2> HIDE DEF P, rank, stop, pred, X, base, step
  <2> QED BY <1>2, <1>3, Recursion
<1>5. ASSUME NEW p \in P
      PROVE  f[p] = IF p[1] = 0 \/ p[2] = 0 THEN p[1] + p[2]
                    ELSE (2 * f[<<p[1] \div 2, p[2] \div 2>>]) + ((p[1] + p[2]) % 2)
  <2> DEFINE q == <<p[1] \div 2, p[2] \div 2>>
  <2>1. q \in P
    BY <1>1
  <2>2. pred[p] = q
    <3> HIDE DEF P
    <3> QED OBVIOUS
  <2>3. /\ f[p] = IF p \in stop THEN base[p] ELSE step[p][f[pred[p]]]
        /\ f[q] \in X[q]
    <3> HIDE DEF P, q, rank, stop, pred, X, base, step
    <3> QED BY <1>4, <2>1 DEF Solves
  <2>4. f[q] \in Nat
    <3> HIDE DEF P, q
    <3> QED BY <2>1, <2>3
  <2>5. /\ p \in stop <=> p[1] = 0 \/ p[2] = 0
        /\ base[p] = p[1] + p[2]
        /\ \A n \in Nat : step[p][n] = (2 * n) + ((p[1] + p[2]) % 2)
    <3> HIDE DEF P
    <3> QED OBVIOUS
  <2>6. f[p] = IF p[1] = 0 \/ p[2] = 0 THEN p[1] + p[2]
               ELSE (2 * f[q]) + ((p[1] + p[2]) % 2)
    <3> HIDE DEF P, q, rank, stop, pred, X, base, step
    <3> QED BY <2>2, <2>3, <2>4, <2>5
  <2> QED BY <2>6
<1>6. f = Body(f)
  <2> HIDE DEF P
  <2> QED BY <1>4, <1>5
<1>7. Bits = CHOOSE g : g = Body(g)
  BY DEF Bits
<1>8. Bits = Body(Bits)
  <2> HIDE DEF Body
  <2> QED BY <1>6, <1>7
<1> DEFINE b == Bits
<1>9. b = Body(b)
  BY <1>8
<1> HIDE DEF b
<1>10. \A p \in P : b[p] = IF p[1] = 0 \/ p[2] = 0 THEN p[1] + p[2]
                           ELSE (2 * b[<<p[1] \div 2, p[2] \div 2>>]) + ((p[1] + p[2]) % 2)
  <2> HIDE DEF P
  <2> QED BY <1>9
<1> DEFINE T == {p \in P : b[p] \in Nat}
<1>11. Inherited(P, stop, pred, T)
  <2> HIDE DEF P
  <2> SUFFICES ASSUME NEW p \in P, p \in stop \/ pred[p] \in T PROVE b[p] \in Nat
    BY DEF Inherited
  <2>1. pred[p] = <<p[1] \div 2, p[2] \div 2>>
    OBVIOUS
  <2>2. b[p] = IF p[1] = 0 \/ p[2] = 0 THEN p[1] + p[2]
               ELSE (2 * b[pred[p]]) + ((p[1] + p[2]) % 2)
    BY <1>10, <2>1
  <2>3. p[1] = 0 \/ p[2] = 0 \/ b[pred[p]] \in Nat
    OBVIOUS
  <2> HIDE DEF pred, stop
  <2> QED BY <1>1, <2>2, <2>3
<1>12. P \subseteq T
  <2> HIDE DEF P, T, rank, stop, pred
  <2> QED BY <1>2, <1>11, RankInduction
<1>13. ASSUME NEW x \in Nat, NEW y \in Nat PROVE Xor(x, y) \in Nat
  <2>1. <<x, y>> \in P
    OBVIOUS
  <2>2. b[<<x, y>>] \in Nat
    BY <1>12, <2>1
  <2> QED BY <2>2 DEF Xor, b
<1> QED BY <1>13

-----------------------------------------------------------------------------
(***************************************************************************)
(* Loops.  X says what holds of the state before each turn.                *)
(***************************************************************************)
Over(f, n) == f = [i \in 0..n |-> f[i]]

Runs(f, n, X, s, turn) ==
  /\ Over(f, n)
  /\ f[0] = s
  /\ \A i \in 0..n : f[i] \in X[i]
  /\ \A i \in 0..n : i # 0 => f[i] = turn[i - 1][f[i - 1]]

LEMMA LoopRuns ==
  ASSUME NEW n \in Nat, NEW X, NEW s \in X[0], NEW turn,
         \A i \in 0 .. n - 1 : \A x \in X[i] : turn[i][x] \in X[i + 1]
  PROVE  \E f : Runs(f, n, X, s, turn)
<1> DEFINE D    == 0..n
           rank == [i \in D |-> i]
           pred == [i \in D |-> IF i = 0 THEN 0 ELSE i - 1]
           base == [i \in D |-> s]
           step == [i \in D |-> turn[i - 1]]
<1>0. /\ 0 \in D /\ D \subseteq Nat
      /\ \A i \in D : i # 0 => i - 1 \in D /\ i - 1 \in 0 .. n - 1 /\ (i - 1) + 1 = i /\ i - 1 < i
  OBVIOUS
<1>1. Descends(D, rank, {0}, pred)
  <2> HIDE DEF D
  <2> QED BY <1>0 DEF Descends
<1>2. Typed(D, X, {0}, pred, base, step)
  <2> HIDE DEF D
  <2> SUFFICES ASSUME NEW i \in D
               PROVE  IF i \in {0} THEN base[i] \in X[i]
                      ELSE \A x \in X[pred[i]] : step[i][x] \in X[i]
    BY DEF Typed
  <2>1. CASE i = 0
    BY <2>1
  <2>2. CASE i # 0
    <3>1. pred[i] = i - 1 /\ i - 1 \in 0 .. n - 1 /\ (i - 1) + 1 = i /\ step[i] = turn[i - 1]
      BY <1>0, <2>2
    <3>2. \A x \in X[i - 1] : turn[i - 1][x] \in X[(i - 1) + 1]
      BY <3>1
    <3> QED BY <2>2, <3>1, <3>2
  <2> QED BY <2>1, <2>2
<1>3. PICK f : f = [i \in D |-> f[i]] /\ Solves(f, D, X, {0}, pred, base, step)
  <2> HIDE DEF D, rank, pred, base, step
  <2> QED BY <1>1, <1>2, Recursion
<1>4. f[0] = s
  <2> HIDE DEF D
  <2> QED BY <1>0, <1>3 DEF Solves
<1>5. \A i \in D : f[i] \in X[i]
  <2> HIDE DEF D
  <2> QED BY <1>3 DEF Solves
<1>6. ASSUME NEW i \in D, i # 0 PROVE f[i] = turn[i - 1][f[i - 1]]
  <2> HIDE DEF D
  <2>1. f[i] = IF i \in {0} THEN base[i] ELSE step[i][f[pred[i]]]
    <3> HIDE DEF pred, base, step
    <3> QED BY <1>3 DEF Solves
  <2> QED BY <1>6, <2>1
<1> QED BY <1>3, <1>4, <1>5, <1>6 DEF Runs, Over

\* Two functions that agree at 0, and wherever they agree at the number before.
LEMMA SameRuns ==
  ASSUME NEW n \in Nat, NEW f, NEW g, Over(f, n), Over(g, n),
         f[0] = g[0],
         \A i \in 0..n : i # 0 /\ f[i - 1] = g[i - 1] => f[i] = g[i]
  PROVE  f = g
<1> DEFINE T == {i \in Nat : i \in 0..n => f[i] = g[i]}
<1>1. 0 \in T
  OBVIOUS
<1>2. ASSUME NEW i \in Nat, i \in T PROVE i + 1 \in T
  <2> SUFFICES ASSUME i + 1 \in 0..n PROVE f[i + 1] = g[i + 1]
    OBVIOUS
  <2>1. i \in 0..n /\ i + 1 # 0 /\ (i + 1) - 1 = i
    OBVIOUS
  <2>2. f[i] = g[i]
    BY <1>2, <2>1
  <2>3. f[(i + 1) - 1] = g[(i + 1) - 1]
    BY <2>1, <2>2
  <2> QED BY <2>1, <2>3
<1>3. Nat \subseteq T
  <2> HIDE DEF T
  <2> QED BY <1>1, <1>2, Induction
<1>4. ASSUME NEW i \in 0..n PROVE f[i] = g[i]
  <2>1. i \in T
    <3> HIDE DEF T
    <3> QED BY <1>3
  <2> QED BY <2>1
<1> QED BY <1>4 DEF Over

-----------------------------------------------------------------------------
(***************************************************************************)
(* Seeding.                                                                *)
(***************************************************************************)
\* A word is any number below the modulus; sums are words.
LEMMA WordFacts ==
  /\ Pow2[W] \in Nat \ {0} /\ Word \subseteq Nat /\ 0 \in Word
  /\ \A x, y \in Nat : Plus(x, y) \in Word /\ Plus(x, y) \in Nat
<1>1. Pow2[W] \in Nat \ {0}
  BY Pow2Equation, SizeAssumption
<1> DEFINE m == Pow2[W]
<1>2. m \in Nat \ {0} /\ Word = 0 .. m - 1
  BY <1>1 DEF Word
<1>3. \A x, y \in Nat : Plus(x, y) = (x + y) % m
  BY DEF Plus
<1> HIDE DEF m
<1>4. \A x, y \in Nat : (x + y) % m \in 0 .. m - 1
  BY <1>2
<1>5. Word \subseteq Nat /\ 0 \in Word
  BY <1>2
<1> QED BY <1>1, <1>2, <1>3, <1>4, <1>5

LEMMA ShiftsNat ==
  \A x \in Nat : \A k \in 0..16 : ShiftL(x, k) \in Nat /\ ShiftR(x, k) \in Nat
<1> SUFFICES ASSUME NEW x \in Nat, NEW k \in 0..16 PROVE ShiftL(x, k) \in Nat /\ ShiftR(x, k) \in Nat
  OBVIOUS
<1>1. W - k \in Nat /\ k \in Nat
  BY SizeAssumption
<1> DEFINE c == Pow2[W - k]
           d == Pow2[k]
<1>2. c \in Nat \ {0} /\ d \in Nat \ {0}
  BY <1>1, Pow2Equation
<1>3. ShiftL(x, k) = (x % c) * d /\ ShiftR(x, k) = x \div d
  BY DEF ShiftL, ShiftR
<1> HIDE DEF c, d
<1>4. x % c \in Nat /\ x \div d \in Nat
  <2>1. x % c \in 0 .. c - 1
    BY <1>2, QuotientNat
  <2>2. x % c \in Nat
    BY <1>2, <2>1
  <2>3. x \div d \in Nat
    BY <1>2, QuotientNat
  <2> QED BY <2>2, <2>3
<1>5. (x % c) * d \in Nat
  BY <1>2, <1>4, TimesNat
<1> QED BY <1>3, <1>4, <1>5

Eight == [0..7 -> Nat]

LEMMA MixLineTyped ==
  ASSUME NEW v \in Eight, NEW i \in 0..7
  PROVE  MixLine(v, i) \in Eight
<1> DEFINE next   == v[(i + 1) % 8]
           shift  == IF i % 2 = 0 THEN ShiftL(next, Amounts[i + 1])
                                  ELSE ShiftR(next, Amounts[i + 1])
           mixed  == [v EXCEPT ![i] = Xor(v[i], shift)]
           spread == [mixed EXCEPT ![(i + 3) % 8] = Plus(@, mixed[i])]
<1>1. (i + 1) % 8 \in 0..7 /\ (i + 2) % 8 \in 0..7 /\ (i + 3) % 8 \in 0..7
  OBVIOUS
<1>2. Amounts[i + 1] \in 0..16
  BY DEF Amounts
<1>3. next \in Nat /\ v[i] \in Nat
  BY <1>1 DEF Eight
<1>4. shift \in Nat
  <2> HIDE DEF next
  <2> QED BY <1>2, <1>3, ShiftsNat
<1>5. Xor(v[i], shift) \in Nat
  <2> HIDE DEF shift
  <2> QED BY <1>3, <1>4, XorNat
<1>6. mixed \in Eight
  <2> HIDE DEF shift
  <2> QED BY <1>5 DEF Eight
<1>7. spread \in Eight
  <2> HIDE DEF mixed
  <2>1. mixed[(i + 3) % 8] \in Nat /\ mixed[i] \in Nat
    BY <1>1, <1>6 DEF Eight
  <2>2. Plus(mixed[(i + 3) % 8], mixed[i]) \in Nat
    BY <2>1, WordFacts
  <2> QED BY <1>6, <2>2 DEF Eight
<1>8. [spread EXCEPT ![(i + 1) % 8] = Plus(@, spread[(i + 2) % 8])] \in Eight
  <2> HIDE DEF spread
  <2>1. spread[(i + 1) % 8] \in Nat /\ spread[(i + 2) % 8] \in Nat
    BY <1>1, <1>7 DEF Eight
  <2>2. Plus(spread[(i + 1) % 8], spread[(i + 2) % 8]) \in Nat
    BY <2>1, WordFacts
  <2> QED BY <1>7, <2>2 DEF Eight
<1> QED BY <1>8 DEF MixLine

LEMMA MixTyped == ASSUME NEW v \in Eight PROVE Mix(v) \in Eight
<1> DEFINE X == [i \in 0..8 |-> Eight]
           turn == [i \in 0..7 |-> [x \in Eight |-> MixLine(x, i)]]
           Body(g) == [i \in 0..8 |-> IF i = 0 THEN v ELSE MixLine(g[i - 1], i - 1)]
           g == CHOOSE h : h = Body(h)
           n == 8
<1>1. \A i \in 0 .. n - 1 : \A x \in X[i] : turn[i][x] \in X[i + 1]
  BY MixLineTyped
<1>2. v \in X[0] /\ n \in Nat
  OBVIOUS
<1>3. PICK f : Runs(f, n, X, v, turn)
  <2> HIDE DEF X, turn, n
  <2> QED BY <1>1, <1>2, LoopRuns
<1>4. ASSUME NEW i \in 0..n, i # 0 PROVE f[i] = MixLine(f[i - 1], i - 1)
  <2>1. i - 1 \in 0..7 /\ i - 1 \in 0..n
    BY <1>4
  <2>2. f[i - 1] \in Eight
    BY <1>3, <2>1 DEF Runs
  <2> QED BY <1>3, <1>4, <2>1, <2>2 DEF Runs
<1>5. f = Body(f)
  BY <1>3, <1>4 DEF Runs, Over
<1>6. g = Body(g)
  <2> HIDE DEF Body
  <2> QED BY <1>5
<1>7. Mix(v) = g[8]
  BY DEF Mix, Loop
<1> HIDE DEF g
<1>8. f = g
  <2>1. Over(g, n) /\ g[0] = v /\ \A i \in 0..n : i # 0 => g[i] = MixLine(g[i - 1], i - 1)
    BY <1>6 DEF Over
  <2>2. \A i \in 0..n : i # 0 /\ f[i - 1] = g[i - 1] => f[i] = g[i]
    BY <1>4, <2>1
  <2>3. Over(f, n) /\ f[0] = v
    BY <1>3 DEF Runs
  <2> HIDE DEF Body, n
  <2> QED BY <1>2, <2>1, <2>2, <2>3, SameRuns
<1>9. f[8] \in Eight
  BY <1>3 DEF Runs
<1> QED BY <1>7, <1>8, <1>9

Cells   == [Index -> Nat]
Seeding == [v : Eight, m : Cells]

LEMMA IndexFacts ==
  /\ Index = 0 .. RANDSIZ - 1 /\ RANDSIZ \in Nat \ {0} /\ 0 \in Index /\ Index \subseteq Nat
  /\ RANDSIZ \div 8 \in Nat
  /\ \A i \in 0 .. (RANDSIZ \div 8) - 1 : \A j \in 0..7 : (8 * i) + j \in Index
  /\ \A k \in Index : k % 8 \in 0..7
<1> DEFINE n == RANDSIZ
<1>1. n \in Lengths /\ Index = 0 .. n - 1
  BY PoolLengths DEF Index
<1> HIDE DEF n
<1>2. /\ n \in Nat \ {0} /\ 0 \in 0 .. n - 1 /\ 0 .. n - 1 \subseteq Nat /\ n \div 8 \in Nat
      /\ \A i \in 0 .. (n \div 8) - 1 : \A j \in 0..7 : (8 * i) + j \in 0 .. n - 1
      /\ \A k \in 0 .. n - 1 : k % 8 \in 0..7
  BY <1>1 DEF Lengths
<1> QED BY <1>1, <1>2 DEF n

LEMMA PassTyped ==
  ASSUME NEW s \in Seeding, NEW source \in Cells
  PROVE  Pass(s, source) \in Seeding
<1> DEFINE Block(t, i) ==
             LET v == Mix([j \in 0..7 |-> Plus(t.v[j], source[(8 * i) + j])])
             IN  [v |-> v, m |-> [k \in Index |-> IF k \div 8 = i THEN v[k % 8] ELSE t.m[k]]]
           n == RANDSIZ \div 8
           X == [i \in 0..n |-> Seeding]
           turn == [i \in 0 .. n - 1 |-> [x \in Seeding |-> Block(x, i)]]
           Body(g) == [i \in 0..n |-> IF i = 0 THEN s ELSE Block(g[i - 1], i - 1)]
           g == CHOOSE h : h = Body(h)
<1>0. n \in Nat /\ \A i \in 0 .. n - 1 : i \in 0..n /\ i + 1 \in 0..n /\ \A j \in 0..7 : (8 * i) + j \in Index
  <2>1. n \in Nat /\ \A i \in 0 .. n - 1 : \A j \in 0..7 : (8 * i) + j \in Index
    BY IndexFacts
  <2> HIDE DEF n
  <2> QED BY <2>1
<1>1. ASSUME NEW x \in Seeding, NEW i \in 0 .. n - 1 PROVE Block(x, i) \in Seeding
  <2> DEFINE u == [j \in 0..7 |-> Plus(x.v[j], source[(8 * i) + j])]
             w == Mix(u)
  <2>1. x.v \in Eight /\ x.m \in Cells
    BY DEF Seeding
  <2>2. ASSUME NEW j \in 0..7 PROVE Plus(x.v[j], source[(8 * i) + j]) \in Nat
    <3>1. x.v[j] \in Nat
      BY <2>1 DEF Eight
    <3>2. source[(8 * i) + j] \in Nat
      <4>1. (8 * i) + j \in Index
        BY <1>0
      <4> HIDE DEF n
      <4> QED BY <4>1 DEF Cells
    <3> QED BY <3>1, <3>2, WordFacts
  <2>3. u \in Eight
    BY <2>2 DEF Eight
  <2>4. w \in Eight
    <3> HIDE DEF u
    <3> QED BY <2>3, MixTyped
  <2>5. [k \in Index |-> IF k \div 8 = i THEN w[k % 8] ELSE x.m[k]] \in Cells
    <3> HIDE DEF w, n
    <3>1. \A k \in Index : w[k % 8] \in Nat /\ x.m[k] \in Nat
      BY <2>1, <2>4, IndexFacts DEF Eight, Cells
    <3> QED BY <3>1 DEF Cells
  <2>6. Block(x, i) = [v |-> w, m |-> [k \in Index |-> IF k \div 8 = i THEN w[k % 8] ELSE x.m[k]]]
    OBVIOUS
  <2> HIDE DEF w, Block, n
  <2> QED BY <2>4, <2>5, <2>6 DEF Seeding
<1>2. \A i \in 0 .. n - 1 : \A x \in X[i] : turn[i][x] \in X[i + 1]
  <2> HIDE DEF Block, n
  <2> QED BY <1>0, <1>1
<1>3. s \in X[0] /\ 0 \in 0..n
  <2> HIDE DEF n
  <2> QED BY <1>0
<1>4. PICK f : Runs(f, n, X, s, turn)
  <2> HIDE DEF X, turn, n
  <2> QED BY <1>0, <1>2, <1>3, LoopRuns
<1>5. ASSUME NEW i \in 0..n, i # 0 PROVE f[i] = Block(f[i - 1], i - 1)
  <2> HIDE DEF Block, n
  <2>1. i - 1 \in 0 .. n - 1 /\ i - 1 \in 0..n
    BY <1>0, <1>5
  <2>2. f[i - 1] \in Seeding
    BY <1>4, <2>1 DEF Runs
  <2> QED BY <1>4, <1>5, <2>1, <2>2 DEF Runs
<1>6. f = Body(f)
  <2> HIDE DEF Block, n
  <2> QED BY <1>4, <1>5 DEF Runs, Over
<1>7. g = Body(g)
  <2> HIDE DEF Body
  <2> QED BY <1>6
<1>8. Pass(s, source) = g[n]
  BY DEF Pass, Loop
<1> HIDE DEF g
<1>9. f = g
  <2> HIDE DEF Block, n
  <2>1. Over(g, n) /\ g[0] = s /\ \A i \in 0..n : i # 0 => g[i] = Block(g[i - 1], i - 1)
    BY <1>3, <1>7 DEF Over
  <2>2. \A i \in 0..n : i # 0 /\ f[i - 1] = g[i - 1] => f[i] = g[i]
    BY <1>5, <2>1
  <2>3. Over(f, n) /\ f[0] = s
    BY <1>4 DEF Runs
  <2> HIDE DEF Body
  <2> QED BY <1>0, <2>1, <2>2, <2>3, SameRuns
<1>10. f[n] \in Seeding
  <2> HIDE DEF n
  <2> QED BY <1>0, <1>4 DEF Runs
<1> QED BY <1>8, <1>9, <1>10

LEMMA SeededTyped == ASSUME NEW rsl \in Cells PROVE Seeded(rsl) \in Cells
<1> DEFINE golden == [j \in 0..7 |-> Golden]
           v == Mix(Mix(Mix(Mix(golden))))
           zeros == [k \in Index |-> 0]
           start == [v |-> v, m |-> zeros]
           once == Pass(start, rsl)
<1>1. golden \in Eight
  BY SizeAssumption, WordFacts DEF Eight
<1>2. v \in Eight
  <2> HIDE DEF golden
  <2>1. Mix(golden) \in Eight
    BY <1>1, MixTyped
  <2>2. Mix(Mix(golden)) \in Eight
    BY <2>1, MixTyped
  <2>3. Mix(Mix(Mix(golden))) \in Eight
    BY <2>2, MixTyped
  <2> QED BY <2>3, MixTyped
<1>3. start \in Seeding
  <2>1. zeros \in Cells
    BY DEF Cells
  <2> HIDE DEF v, zeros
  <2> QED BY <1>2, <2>1 DEF Seeding
<1>4. once \in Seeding
  <2> HIDE DEF start
  <2> QED BY <1>3, PassTyped
<1>5. once.m \in Cells
  <2> HIDE DEF once
  <2> QED BY <1>4 DEF Seeding
<1>6. Pass(once, once.m) \in Seeding
  <2> HIDE DEF once
  <2> QED BY <1>4, <1>5, PassTyped
<1>7. Seeded(rsl) = Pass(once, once.m).m
  BY DEF Seeded
<1> HIDE DEF once
<1> QED BY <1>6, <1>7 DEF Seeding

-----------------------------------------------------------------------------
(***************************************************************************)
(* One word: rngstep with its pointers, and a step of the reference.       *)
(***************************************************************************)
LEMMA IndFacts ==
  ASSUME NEW x \in Nat
  PROVE  /\ (x \div 4) % RANDSIZ \in Index
         /\ \A mm : Ind(mm, x) = mm[(x \div 4) % RANDSIZ]
         /\ (x \div (4 * RANDSIZ)) % RANDSIZ \in Index
         /\ \A mm : Ind(mm, ShiftR(x, RANDSIZL)) = mm[(x \div (4 * RANDSIZ)) % RANDSIZ]
<1> DEFINE n == RANDSIZ
<1>1. n \in Lengths /\ Index = 0 .. n - 1 /\ Pow2[RANDSIZL] = n /\ Pow2[2] = 4
  BY PoolLengths DEF Index
<1>2. /\ \A mm : Ind(mm, x) = mm[(x \div 4) % n]
      /\ \A mm : Ind(mm, ShiftR(x, RANDSIZL)) = mm[((x \div n) \div 4) % n]
  <2>1. \A y, mm : Ind(mm, y) = mm[(y \div 4) % n]
    BY <1>1 DEF Ind, ShiftR
  <2>2. ShiftR(x, RANDSIZL) = x \div n
    BY <1>1 DEF ShiftR
  <2> HIDE DEF n
  <2> QED BY <2>1, <2>2
<1> HIDE DEF n
<1>3. (x \div n) \div 4 = x \div (4 * n)
  BY <1>1, Shifts
<1>4. (x \div 4) % n \in 0 .. n - 1 /\ (x \div (4 * n)) % n \in 0 .. n - 1
  BY <1>1 DEF Lengths
<1> QED BY <1>1, <1>2, <1>3, <1>4 DEF n

LEMMA TwistNat == \A a \in Nat : \A k \in 0..3 : Twist(a, k) \in Nat
<1> SUFFICES ASSUME NEW a \in Nat, NEW k \in 0..3 PROVE Twist(a, k) \in Nat
  OBVIOUS
<1> DEFINE z == CASE k = 0 -> ShiftL(a, 13) [] k = 1 -> ShiftR(a, 6)
                  [] k = 2 -> ShiftL(a, 2)  [] k = 3 -> ShiftR(a, 16)
<1>1. /\ ShiftL(a, 13) \in Nat /\ ShiftR(a, 6) \in Nat
      /\ ShiftL(a, 2) \in Nat /\ ShiftR(a, 16) \in Nat
  BY ShiftsNat
<1>2. z \in Nat
  BY <1>1
<1>3. Twist(a, k) = Xor(a, z)
  BY DEF Twist
<1> HIDE DEF z
<1> QED BY <1>2, <1>3, XorNat

Lap    == [a : Nat, b : Nat, c : Nat, m : Cells, out : [Index -> Word]]
Walker == [a : Nat, b : Nat, mm : Cells, rsl : Cells, m : Nat, m2 : Nat, r : Nat]

\* The pointers of s are at word k, and the words before it are those of p.
Abreast(s, p, k) ==
  /\ s.a = p.a /\ s.b = p.b /\ s.mm = p.m
  /\ s.m = k /\ s.r = k
  /\ \A j \in Index : j < k => s.rsl[j] = p.out[j]

LEMMA StepsAgree ==
  ASSUME NEW p \in Lap, NEW k \in Index
  PROVE  /\ RoundStep(p, k) \in Lap
         /\ \A s \in Walker, i \in Nat :
              Abreast(s, p, k) /\ s.m2 = (k + (RANDSIZ \div 2)) % RANDSIZ /\ i % 4 = k % 4 =>
                /\ RngStep(s, i) \in Walker
                /\ Abreast(RngStep(s, i), RoundStep(p, k), k + 1)
                /\ RngStep(s, i).m2 = s.m2 + 1
<1> DEFINE opp == (k + (RANDSIZ \div 2)) % RANDSIZ
           x == p.m[k]
           a == Plus(Twist(p.a, k % 4), p.m[opp])
           y == Plus(Plus(p.m[(x \div 4) % RANDSIZ], a), p.b)
           m == [p.m EXCEPT ![k] = y]
           b == Plus(m[(y \div (4 * RANDSIZ)) % RANDSIZ], x)
           q == [a |-> a, b |-> b, c |-> p.c, m |-> m, out |-> [p.out EXCEPT ![k] = b]]
<1>1. RoundStep(p, k) = q
  BY DEF RoundStep, Plus
<1>2. /\ p.a \in Nat /\ p.b \in Nat /\ p.c \in Nat /\ p.m \in [Index -> Nat]
      /\ p.out \in [Index -> Word]
  BY DEF Lap, Cells
<1>3. k \in Nat /\ k % 4 \in 0..3 /\ opp \in Index
  <2> DEFINE n == RANDSIZ
  <2>1. n \in Lengths /\ Index = 0 .. n - 1
    BY PoolLengths DEF Index
  <2>2. opp = (k + (n \div 2)) % n
    OBVIOUS
  <2> HIDE DEF n, opp
  <2> QED BY <2>1, <2>2 DEF Lengths
<1>4. x \in Nat /\ a \in Nat /\ a \in Word
  <2>1. x \in Nat /\ p.m[opp] \in Nat /\ Twist(p.a, k % 4) \in Nat
    <3> HIDE DEF opp
    <3> QED BY <1>2, <1>3, TwistNat
  <2> HIDE DEF opp, x
  <2> QED BY <2>1, WordFacts
<1>5. y \in Nat
  <2>1. (x \div 4) % RANDSIZ \in Index
    BY <1>4, IndFacts
  <2> HIDE DEF x, a
  <2>2. Plus(p.m[(x \div 4) % RANDSIZ], a) \in Nat
    BY <1>2, <1>4, <2>1, WordFacts
  <2> QED BY <1>2, <2>2, WordFacts
<1>6. m \in [Index -> Nat]
  <2> HIDE DEF y
  <2> QED BY <1>2, <1>5
<1>7. b \in Word /\ b \in Nat
  <2> HIDE DEF y, x, m
  <2>1. (y \div (4 * RANDSIZ)) % RANDSIZ \in Index
    BY <1>5, IndFacts
  <2> QED BY <1>4, <1>6, <2>1, WordFacts
<1>8. q \in Lap
  <2> HIDE DEF a, b, m
  <2>1. [p.out EXCEPT ![k] = b] \in [Index -> Word]
    BY <1>2, <1>7
  <2> QED BY <1>2, <1>4, <1>6, <1>7, <2>1 DEF Lap, Cells
<1>9. ASSUME NEW s \in Walker, NEW i \in Nat, Abreast(s, p, k), s.m2 = opp, i % 4 = k % 4
      PROVE  LET t == RngStep(s, i)
             IN  t \in Walker /\ Abreast(t, q, k + 1) /\ t.m2 = s.m2 + 1
  <2> DEFINE w == [a |-> a, b |-> b, mm |-> m, rsl |-> [s.rsl EXCEPT ![k] = b],
                   m |-> k + 1, m2 |-> s.m2 + 1, r |-> k + 1]
  <2>1. /\ s.a = p.a /\ s.b = p.b /\ s.mm = p.m /\ s.m = k /\ s.r = k
        /\ \A j \in Index : j < k => s.rsl[j] = p.out[j]
    BY <1>9 DEF Abreast
  <2>2. s.rsl \in [Index -> Nat] /\ s.m2 \in Nat
    BY DEF Walker, Cells
  <2>3. RngStep(s, i) = w
    <3> DEFINE ra  == Plus(Twist(s.a, i % 4), s.mm[s.m2])
               ry  == Plus(Plus(Ind(s.mm, s.mm[s.m]), ra), s.b)
               rmm == [s.mm EXCEPT ![s.m] = ry]
               rb  == Plus(Ind(rmm, ShiftR(ry, RANDSIZL)), s.mm[s.m])
    <3>1. ra = a
      <4> HIDE DEF opp
      <4> QED BY <1>9, <2>1
    <3>2. ry = y
      <4>1. Ind(s.mm, s.mm[s.m]) = p.m[(x \div 4) % RANDSIZ]
        BY <1>4, <2>1, IndFacts
      <4> HIDE DEF a, ra, x
      <4> QED BY <2>1, <3>1, <4>1
    <3>3. rmm = m
      <4> HIDE DEF ry, y
      <4> QED BY <2>1, <3>2
    <3>4. rb = b
      <4> HIDE DEF ry, y, rmm, m
      <4>1. Ind(m, ShiftR(y, RANDSIZL)) = m[(y \div (4 * RANDSIZ)) % RANDSIZ]
        BY <1>5, IndFacts
      <4> QED BY <2>1, <3>2, <3>3, <4>1
    <3>5. RngStep(s, i) = [a |-> ra, b |-> rb, mm |-> rmm, rsl |-> [s.rsl EXCEPT ![s.r] = rb],
                           m |-> s.m + 1, m2 |-> s.m2 + 1, r |-> s.r + 1]
      BY DEF RngStep
    <3> HIDE DEF ra, rb, rmm, a, b, m
    <3> QED BY <2>1, <3>1, <3>3, <3>4, <3>5
  <2> HIDE DEF a, b, m
  <2>4. [s.rsl EXCEPT ![k] = b] \in [Index -> Nat]
    BY <1>7, <2>2
  <2>5. w \in Walker
    BY <1>3, <1>4, <1>6, <1>7, <2>2, <2>4 DEF Walker, Cells
  <2>6. ASSUME NEW j \in Index, j < k + 1
        PROVE  [s.rsl EXCEPT ![k] = b][j] = [p.out EXCEPT ![k] = b][j]
    <3>1. CASE j = k
      BY <1>2, <2>2, <3>1
    <3>2. CASE j # k
      <4>1. j < k
        BY <1>3, <2>6, <3>2, IndexFacts
      <4> QED BY <1>2, <2>1, <2>2, <3>2, <4>1
    <3> QED BY <3>1, <3>2
  <2>7. Abreast(w, q, k + 1)
    BY <2>6 DEF Abreast
  <2>8. w.m2 = s.m2 + 1
    OBVIOUS
  <2> HIDE DEF w, q
  <2> QED BY <2>3, <2>5, <2>7, <2>8
<1> HIDE DEF q, opp
<1>10. RoundStep(p, k) \in Lap
  BY <1>1, <1>8
<1>11. \A s \in Walker, i \in Nat :
         Abreast(s, p, k) /\ s.m2 = opp /\ i % 4 = k % 4 =>
           /\ RngStep(s, i) \in Walker
           /\ Abreast(RngStep(s, i), RoundStep(p, k), k + 1)
           /\ RngStep(s, i).m2 = s.m2 + 1
  BY <1>1, <1>9
<1> QED BY <1>10, <1>11 DEF opp

-----------------------------------------------------------------------------
(***************************************************************************)
(* One pool: the two loops over halves compute a round.                    *)
(***************************************************************************)
RoundStart(t) ==
  LET c == (t.c + 1) % Pow2[W]
  IN  [t EXCEPT !.b = (t.b + c) % Pow2[W], !.c = c]

IsRound(f, t) ==
  /\ f[0] = RoundStart(t)
  /\ \A i \in 0..RANDSIZ : f[i] \in Lap /\ f[i].c = RoundStart(t).c
  /\ \A k \in Index : f[k + 1] = RoundStep(f[k], k)
  /\ RoundOf(t) = f[RANDSIZ]

LEMMA RoundStartTyped ==
  ASSUME NEW t \in Lap
  PROVE  /\ RoundStart(t) \in Lap
         /\ RoundStart(t).a = t.a /\ RoundStart(t).m = t.m
         /\ RoundStart(t).c = Plus(t.c, 1) /\ RoundStart(t).b = Plus(t.b, Plus(t.c, 1))
<1> DEFINE c == Plus(t.c, 1)
           b == Plus(t.b, c)
<1>1. t.b \in Nat /\ t.c \in Nat
  BY DEF Lap
<1>2. c \in Nat
  BY <1>1, WordFacts
<1>3. b \in Nat
  <2> HIDE DEF c
  <2> QED BY <1>1, <1>2, WordFacts
<1>4. RoundStart(t) = [t EXCEPT !.b = b, !.c = c]
  BY DEF RoundStart, Plus
<1> HIDE DEF b, c
<1>5. [t EXCEPT !.b = b, !.c = c] = [a |-> t.a, b |-> b, c |-> c, m |-> t.m, out |-> t.out]
  <2> DEFINE u == [t EXCEPT !.b = b]
  <2>1. t = [a |-> t.a, b |-> t.b, c |-> t.c, m |-> t.m, out |-> t.out]
    BY DEF Lap
  <2>2. u = [a |-> t.a, b |-> b, c |-> t.c, m |-> t.m, out |-> t.out]
    BY <2>1
  <2> HIDE DEF u
  <2>3. [u EXCEPT !.c = c] = [a |-> t.a, b |-> b, c |-> c, m |-> t.m, out |-> t.out]
    BY <2>2
  <2> QED BY <2>3 DEF u
<1>6. [a |-> t.a, b |-> b, c |-> c, m |-> t.m, out |-> t.out] \in Lap
  BY <1>2, <1>3 DEF Lap
<1> QED BY <1>4, <1>5, <1>6 DEF b, c

LEMMA RoundRuns == ASSUME NEW t \in Lap PROVE \E f : IsRound(f, t)
<1> DEFINE n == RANDSIZ
           s == RoundStart(t)
           Y == {p \in Lap : p.c = s.c}
           X == [i \in 0..n |-> Y]
           turn == [i \in 0 .. n - 1 |-> [x \in Y |-> RoundStep(x, i)]]
           Body(g) == [i \in 0..n |-> IF i = 0 THEN s ELSE RoundStep(g[i - 1], i - 1)]
           g == CHOOSE h : h = Body(h)
<1>0. /\ n \in Nat /\ Index = 0 .. n - 1 /\ 0 \in 0..n /\ n \in 0..n
      /\ \A i \in Index : i \in 0..n /\ i + 1 \in 0..n /\ i + 1 # 0 /\ (i + 1) - 1 = i
      /\ \A i \in 0..n : i # 0 => i - 1 \in Index /\ i - 1 \in 0..n
  <2>1. n \in Nat /\ Index = 0 .. n - 1
    BY IndexFacts
  <2> HIDE DEF n
  <2> QED BY <2>1
<1>1. ASSUME NEW x \in Y, NEW i \in Index PROVE RoundStep(x, i) \in Y
  <2>1. RoundStep(x, i) \in Lap
    BY StepsAgree
  <2>2. RoundStep(x, i).c = x.c
    BY DEF RoundStep
  <2> HIDE DEF s
  <2> QED BY <2>1, <2>2
<1>2. \A i \in 0 .. n - 1 : \A x \in X[i] : turn[i][x] \in X[i + 1]
  <2> HIDE DEF Y, n
  <2> QED BY <1>0, <1>1
<1>3. s \in X[0]
  <2>1. s \in Y
    BY RoundStartTyped
  <2> HIDE DEF n, Y, s
  <2> QED BY <1>0, <2>1
<1>4. PICK f : Runs(f, n, X, s, turn)
  <2> HIDE DEF X, turn, n, s
  <2> QED BY <1>0, <1>2, <1>3, LoopRuns
<1>5. ASSUME NEW i \in 0..n, i # 0 PROVE f[i] = RoundStep(f[i - 1], i - 1)
  <2> HIDE DEF n, Y
  <2>1. f[i - 1] \in Y
    BY <1>0, <1>4, <1>5 DEF Runs
  <2> QED BY <1>0, <1>4, <1>5, <2>1 DEF Runs
<1>6. f = Body(f)
  <2> HIDE DEF n, s
  <2> QED BY <1>4, <1>5 DEF Runs, Over
<1>7. g = Body(g)
  <2> HIDE DEF Body
  <2> QED BY <1>6
<1>8. RoundOf(t) = g[n]
  BY DEF RoundOf, Loop, RoundStart
<1> HIDE DEF g
<1>9. f = g
  <2> HIDE DEF n, s
  <2>1. Over(g, n) /\ g[0] = s /\ \A i \in 0..n : i # 0 => g[i] = RoundStep(g[i - 1], i - 1)
    BY <1>0, <1>7 DEF Over
  <2>2. \A i \in 0..n : i # 0 /\ f[i - 1] = g[i - 1] => f[i] = g[i]
    BY <1>5, <2>1
  <2>3. Over(f, n) /\ f[0] = s
    BY <1>4 DEF Runs
  <2> HIDE DEF Body
  <2> QED BY <1>0, <2>1, <2>2, <2>3, SameRuns
<1>10. \A i \in 0..n : f[i] \in Lap /\ f[i].c = s.c
  <2> HIDE DEF n, s
  <2> QED BY <1>4 DEF Runs
<1>11. \A k \in Index : f[k + 1] = RoundStep(f[k], k)
  <2> SUFFICES ASSUME NEW k \in Index PROVE f[k + 1] = RoundStep(f[k], k)
    OBVIOUS
  <2> HIDE DEF n
  <2>1. k + 1 \in 0..n /\ k + 1 # 0 /\ (k + 1) - 1 = k
    BY <1>0
  <2>2. f[k + 1] = RoundStep(f[(k + 1) - 1], (k + 1) - 1)
    BY <1>5, <2>1
  <2> QED BY <2>1, <2>2
<1>12. f[0] = s
  BY <1>4 DEF Runs
<1> QED BY <1>8, <1>9, <1>10, <1>11, <1>12 DEF IsRound

\* The second pointer is half a pool away.
Opposite(o) == IF o = 0 THEN RANDSIZ \div 2 ELSE 0

HalfWay(f, o, i) ==
  {s \in Walker : Abreast(s, f[o + i], o + i) /\ s.m2 = Opposite(o) + i}

LEMMA HalfRuns ==
  ASSUME NEW t \in Lap, NEW f, IsRound(f, t), NEW o \in {0, RANDSIZ \div 2},
         NEW s \in HalfWay(f, o, 0)
  PROVE  Half(s) \in HalfWay(f, o, RANDSIZ \div 2)
<1> DEFINE n == RANDSIZ \div 2
           X == [i \in 0..n |-> HalfWay(f, o, i)]
           turn == [i \in 0 .. n - 1 |-> [x \in HalfWay(f, o, i) |-> RngStep(x, i)]]
           Body(g) == [i \in 0..n |-> IF i = 0 THEN s ELSE RngStep(g[i - 1], i - 1)]
           g == CHOOSE h : h = Body(h)
<1>0. /\ n \in Nat /\ 0 \in 0..n /\ n \in 0..n
      /\ \A i \in 0 .. n - 1 :
           /\ o + i \in Index /\ i \in Nat /\ (o + i) + 1 = o + (i + 1)
           /\ (o + i) % 4 = i % 4 /\ o + i \in 0..RANDSIZ
           /\ ((o + i) + n) % RANDSIZ = Opposite(o) + i
           /\ (Opposite(o) + i) + 1 = Opposite(o) + (i + 1)
  <2> DEFINE l == RANDSIZ
  <2>1. l \in Lengths /\ Index = 0 .. l - 1
    BY PoolLengths DEF Index
  <2>2. o \in {0, l \div 2} /\ n = l \div 2 /\ Opposite(o) = IF o = 0 THEN l \div 2 ELSE 0
    BY DEF Opposite
  <2> HIDE DEF l, n
  <2> QED BY <2>1, <2>2 DEF Lengths, l
<1>1. ASSUME NEW i \in 0 .. n - 1, NEW x \in HalfWay(f, o, i)
      PROVE  RngStep(x, i) \in HalfWay(f, o, i + 1)
  <2> DEFINE k == o + i
             y == RngStep(x, i)
  <2>1. k \in Index /\ i \in Nat /\ k + 1 = o + (i + 1) /\ i % 4 = k % 4 /\ k \in 0..RANDSIZ
    BY <1>0
  <2>2. x \in Walker /\ Abreast(x, f[k], k) /\ x.m2 = Opposite(o) + i
    BY DEF HalfWay
  <2>3. x.m2 = (k + (RANDSIZ \div 2)) % RANDSIZ
    BY <1>0, <2>2
  <2>4. f[k] \in Lap /\ f[k + 1] = RoundStep(f[k], k)
    BY <2>1 DEF IsRound
  <2>5. y \in Walker /\ Abreast(y, RoundStep(f[k], k), k + 1) /\ y.m2 = x.m2 + 1
    <3> HIDE DEF k
    <3> QED BY <2>1, <2>2, <2>3, <2>4, StepsAgree
  <2>6. y.m2 = Opposite(o) + (i + 1)
    BY <1>0, <2>2, <2>5
  <2>7. Abreast(y, f[o + (i + 1)], o + (i + 1))
    <3> HIDE DEF k, y
    <3> QED BY <2>1, <2>4, <2>5
  <2> HIDE DEF k, y
  <2> QED BY <2>5, <2>6, <2>7 DEF HalfWay, y
<1>2. \A i \in 0 .. n - 1 : \A x \in X[i] : turn[i][x] \in X[i + 1]
  <2>1. \A i \in 0 .. n - 1 : i \in 0..n /\ i + 1 \in 0..n
    <3>1. n \in Nat
      BY <1>0
    <3> HIDE DEF n
    <3> QED BY <3>1
  <2> HIDE DEF n
  <2> QED BY <1>1, <2>1
<1>3. s \in X[0]
  <2> HIDE DEF n
  <2> QED BY <1>0
<1>4. PICK h : Runs(h, n, X, s, turn)
  <2> HIDE DEF X, turn, n
  <2> QED BY <1>0, <1>2, <1>3, LoopRuns
<1>5. ASSUME NEW i \in 0..n, i # 0 PROVE h[i] = RngStep(h[i - 1], i - 1)
  <2>1. i - 1 \in 0 .. n - 1 /\ i - 1 \in 0..n
    <3>1. n \in Nat
      BY <1>0
    <3> HIDE DEF n
    <3> QED BY <1>5, <3>1
  <2> HIDE DEF n
  <2>2. h[i - 1] \in HalfWay(f, o, i - 1)
    BY <1>4, <2>1 DEF Runs
  <2> QED BY <1>4, <1>5, <2>1, <2>2 DEF Runs
<1>6. h = Body(h)
  <2> HIDE DEF n
  <2> QED BY <1>4, <1>5 DEF Runs, Over
<1>7. g = Body(g)
  <2> HIDE DEF Body
  <2> QED BY <1>6
<1>8. Half(s) = g[n]
  BY DEF Half, Loop
<1> HIDE DEF g
<1>9. h = g
  <2> HIDE DEF n
  <2>1. Over(g, n) /\ g[0] = s /\ \A i \in 0..n : i # 0 => g[i] = RngStep(g[i - 1], i - 1)
    BY <1>0, <1>7 DEF Over
  <2>2. \A i \in 0..n : i # 0 /\ h[i - 1] = g[i - 1] => h[i] = g[i]
    BY <1>5, <2>1
  <2>3. Over(h, n) /\ h[0] = s
    BY <1>4 DEF Runs
  <2> HIDE DEF Body
  <2> QED BY <1>0, <2>1, <2>2, <2>3, SameRuns
<1>10. h[n] \in HalfWay(f, o, n)
  <2> HIDE DEF n
  <2> QED BY <1>0, <1>4 DEF Runs
<1> QED BY <1>8, <1>9, <1>10

Ctx == [randcnt : Nat, randrsl : Cells, randmem : Cells, randa : Nat, randb : Nat, randc : Nat]

InStep(c, t) ==
  c.randa = t.a /\ c.randb = t.b /\ c.randc = t.c /\ c.randmem = t.m

\* ISAAC_Gen makes the round that follows the one its context is in step with.
LEMMA GenAgrees ==
  ASSUME NEW c \in Ctx, NEW t \in Lap, InStep(c, t)
  PROVE  /\ RoundOf(t) \in Lap
         /\ ISAAC_Gen(c) \in Ctx
         /\ InStep(ISAAC_Gen(c), RoundOf(t))
         /\ ISAAC_Gen(c).randrsl = RoundOf(t).out
         /\ ISAAC_Gen(c).randcnt = c.randcnt
<1> DEFINE n == RANDSIZ \div 2
           cc == Plus(c.randc, 1)
           start == [a |-> c.randa, b |-> Plus(c.randb, cc), mm |-> c.randmem,
                     rsl |-> c.randrsl, m |-> 0, m2 |-> n, r |-> 0]
           mid == Half(start)
           turned == [mid EXCEPT !.m2 = 0]
           done == Half(turned)
           e == RoundOf(t)
<1>1. PICK f : IsRound(f, t)
  BY RoundRuns
<1>2. /\ n \in Nat /\ n + n = RANDSIZ /\ 0 \in 0..RANDSIZ /\ n \in 0..RANDSIZ /\ RANDSIZ \in 0..RANDSIZ
      /\ 0 + n = n /\ n + 0 = n /\ 0 + 0 = 0 /\ \A j \in Index : ~ (j < 0) /\ j < RANDSIZ
  <2> DEFINE l == RANDSIZ
  <2>1. l \in Lengths /\ Index = 0 .. l - 1 /\ n = l \div 2
    BY PoolLengths DEF Index
  <2> HIDE DEF l, n
  <2> QED BY <2>1 DEF Lengths, l
<1>3. /\ c.randa \in Nat /\ c.randb \in Nat /\ c.randc \in Nat /\ c.randmem \in Cells
      /\ c.randrsl \in Cells /\ c.randcnt \in Nat
  BY DEF Ctx
<1>4. cc \in Nat /\ Plus(c.randb, cc) \in Nat
  <2>1. cc \in Nat
    BY <1>3, WordFacts
  <2> HIDE DEF cc
  <2> QED BY <1>3, <2>1, WordFacts
<1>5. start \in HalfWay(f, 0, 0)
  <2>1. start \in Walker
    <3> HIDE DEF cc, n
    <3> QED BY <1>2, <1>3, <1>4 DEF Walker
  <2>2. f[0].a = t.a /\ f[0].m = t.m /\ f[0].b = Plus(t.b, Plus(t.c, 1))
    BY <1>1, RoundStartTyped DEF IsRound
  <2>3. Abreast(start, f[0], 0)
    <3> HIDE DEF n
    <3> QED BY <1>2, <2>2 DEF Abreast, InStep
  <2>4. start.m2 = Opposite(0) + 0
    <3>1. start.m2 = n /\ Opposite(0) = n
      BY DEF Opposite
    <3> HIDE DEF n, start
    <3> QED BY <1>2, <3>1
  <2> HIDE DEF start, n
  <2> QED BY <1>2, <2>1, <2>3, <2>4 DEF HalfWay
<1>6. mid \in HalfWay(f, 0, n)
  <2> HIDE DEF start
  <2> QED BY <1>1, <1>5, HalfRuns
<1>7. turned \in HalfWay(f, n, 0)
  <2> HIDE DEF mid, n
  <2>1. mid \in Walker /\ Abreast(mid, f[n], n)
    BY <1>2, <1>6 DEF HalfWay
  <2>2. turned = [a |-> mid.a, b |-> mid.b, mm |-> mid.mm, rsl |-> mid.rsl,
                  m |-> mid.m, m2 |-> 0, r |-> mid.r]
    BY <2>1 DEF Walker
  <2>3. turned \in Walker
    BY <2>1, <2>2 DEF Walker
  <2>4. Abreast(turned, f[n], n)
    BY <2>1, <2>2 DEF Abreast
  <2>5. turned.m2 = Opposite(n) + 0
    <3>1. Opposite(n) = 0
      BY <1>2 DEF Opposite, n
    <3> QED BY <2>2, <3>1
  <2> HIDE DEF turned
  <2> QED BY <1>2, <2>3, <2>4, <2>5 DEF HalfWay
<1>8. done \in HalfWay(f, n, n)
  <2> HIDE DEF turned
  <2> QED BY <1>1, <1>7, HalfRuns
<1>9. done \in Walker /\ Abreast(done, e, RANDSIZ) /\ e \in Lap /\ e.c = cc
  <2>1. e = f[n + n] /\ f[n + n] \in Lap /\ f[n + n].c = Plus(t.c, 1)
    <3>1. e = f[RANDSIZ] /\ f[RANDSIZ] \in Lap /\ f[RANDSIZ].c = RoundStart(t).c
      BY <1>1, <1>2 DEF IsRound
    <3> HIDE DEF n, e
    <3> QED BY <1>2, <3>1, RoundStartTyped
  <2>2. done \in Walker /\ Abreast(done, f[n + n], n + n)
    <3> HIDE DEF done, n
    <3> QED BY <1>8 DEF HalfWay
  <2> HIDE DEF done, n, e
  <2> QED BY <1>2, <2>1, <2>2 DEF InStep
<1>10. done.a = e.a /\ done.b = e.b /\ done.mm = e.m /\ done.rsl = e.out
  <2> HIDE DEF done, e
  <2>1. /\ done.a = e.a /\ done.b = e.b /\ done.mm = e.m
        /\ \A j \in Index : done.rsl[j] = e.out[j]
    BY <1>2, <1>9 DEF Abreast
  <2>2. done.rsl \in [Index -> Nat] /\ e.out \in [Index -> Word]
    BY <1>9 DEF Walker, Lap, Cells
  <2>3. done.rsl = e.out
    BY <2>1, <2>2
  <2> QED BY <2>1, <2>3
<1>11. ISAAC_Gen(c) = [randcnt |-> c.randcnt, randrsl |-> done.rsl, randmem |-> done.mm,
                       randa |-> done.a, randb |-> done.b, randc |-> cc]
  <2>1. ISAAC_Gen(c) = [c EXCEPT !.randa = done.a, !.randb = done.b, !.randc = cc,
                                 !.randmem = done.mm, !.randrsl = done.rsl]
    BY DEF ISAAC_Gen
  <2> HIDE DEF done, cc
  <2> QED BY <2>1 DEF Ctx
<1>12. /\ done.a \in Nat /\ done.b \in Nat /\ done.mm \in Cells /\ done.rsl \in Cells
  <2> HIDE DEF done
  <2> QED BY <1>9 DEF Walker
<1> HIDE DEF done, e, cc
<1>13. ISAAC_Gen(c) \in Ctx
  BY <1>3, <1>4, <1>11, <1>12 DEF Ctx
<1>14. /\ InStep(ISAAC_Gen(c), e)
       /\ ISAAC_Gen(c).randrsl = e.out
       /\ ISAAC_Gen(c).randcnt = c.randcnt
  BY <1>9, <1>10, <1>11 DEF InStep
<1> QED BY <1>9, <1>13, <1>14 DEF e

RoundZero(pool) == [a |-> 0, b |-> 0, c |-> 0, m |-> pool, out |-> [k \in Index |-> 0]]

LEMMA RoundsFacts ==
  ASSUME NEW pool \in Cells
  PROVE  /\ Rounds(pool)[0] = RoundZero(pool)
         /\ \A j \in Nat : /\ Rounds(pool)[j] \in Lap
                           /\ Rounds(pool)[j + 1] = RoundOf(Rounds(pool)[j])
<1> DEFINE z == RoundZero(pool)
           Body(g) == [j \in Nat |-> IF j = 0 THEN z ELSE RoundOf(g[j - 1])]
           g == CHOOSE h : h = Body(h)
           rank == [j \in Nat |-> j]
           pred == [j \in Nat |-> IF j = 0 THEN 0 ELSE j - 1]
           X    == [j \in Nat |-> Lap]
           base == [j \in Nat |-> z]
           step == [j \in Nat |-> [t \in Lap |-> RoundOf(t)]]
<1>0. \A t \in Lap : RoundOf(t) \in Lap
  <2> SUFFICES ASSUME NEW t \in Lap PROVE RoundOf(t) \in Lap
    OBVIOUS
  <2>1. PICK f : IsRound(f, t)
    BY RoundRuns
  <2>2. RANDSIZ \in 0..RANDSIZ
    BY IndexFacts
  <2> QED BY <2>1, <2>2 DEF IsRound
<1>1. z \in Lap
  <2>1. [k \in Index |-> 0] \in [Index -> Word]
    BY WordFacts
  <2> QED BY <2>1 DEF RoundZero, Lap
<1>2. Descends(Nat, rank, {0}, pred)
  BY DEF Descends
<1>3. Typed(Nat, X, {0}, pred, base, step)
  <2> HIDE DEF z
  <2> QED BY <1>0, <1>1 DEF Typed
<1>4. PICK f : f = [j \in Nat |-> f[j]] /\ Solves(f, Nat, X, {0}, pred, base, step)
  <2> HIDE DEF rank, pred, X, base, step
  <2> QED BY <1>2, <1>3, Recursion
<1>5. ASSUME NEW j \in Nat
      PROVE  /\ f[j] \in Lap
             /\ f[j] = IF j = 0 THEN z ELSE RoundOf(f[j - 1])
  <2>0. pred[j] \in Nat
    OBVIOUS
  <2>1. /\ f[j] = IF j \in {0} THEN base[j] ELSE step[j][f[pred[j]]]
        /\ f[j] \in X[j] /\ f[pred[j]] \in X[pred[j]]
    <3> HIDE DEF rank, pred, X, base, step
    <3> QED BY <1>4, <2>0 DEF Solves
  <2> HIDE DEF z
  <2> QED BY <2>0, <2>1
<1>6. f = Body(f)
  <2> HIDE DEF z
  <2> QED BY <1>4, <1>5
<1>7. g = Body(g)
  <2> HIDE DEF Body
  <2> QED BY <1>6
<1>8. Rounds(pool) = g
  BY DEF Rounds, RoundZero
<1> HIDE DEF g, z
<1>9. g[0] = z /\ \A j \in Nat : g[j + 1] = RoundOf(g[j])
  <2>1. \A j \in Nat : g[j] = IF j = 0 THEN z ELSE RoundOf(g[j - 1])
    BY <1>7
  <2>2. \A j \in Nat : j + 1 \in Nat /\ j + 1 # 0 /\ (j + 1) - 1 = j
    OBVIOUS
  <2> QED BY <2>1, <2>2
<1>10. ASSUME NEW j \in Nat PROVE g[j] \in Lap
  <2> DEFINE T == {i \in Nat : g[i] \in Lap}
  <2>1. 0 \in T
    BY <1>1, <1>9
  <2>2. \A i \in Nat : i \in T => i + 1 \in T
    BY <1>0, <1>9
  <2>3. j \in T
    <3> HIDE DEF T
    <3> QED BY <2>1, <2>2, Induction
  <2> QED BY <2>3
<1> QED BY <1>8, <1>9, <1>10 DEF z

-----------------------------------------------------------------------------
(***************************************************************************)
(* The pool and its counter.                                               *)
(***************************************************************************)
\* ctx holds the pool that round j + 1 made, and the words drawn are those of the
\* rounds before it and the ones its counter has passed.
Follows(j) ==
  /\ InStep(ctx, Rounds(first)[j + 1])
  /\ ctx.randrsl = Rounds(first)[j + 1].out
  /\ drawn = (j * RANDSIZ) + (RANDSIZ - ctx.randcnt)

PoolInv ==
  /\ first \in Cells /\ ctx \in Ctx /\ ctx.randcnt \in 0..RANDSIZ /\ drawn \in Nat
  /\ \E j \in Nat : Follows(j)
  /\ drawn > 0 => ctx.randcnt < RANDSIZ /\ word = Value(ctx)

LEMMA FreshPool ==
  ASSUME NEW s \in Seeds
  PROVE  LET c == ISAAC(s)
             p == Seeded(Results(s))
         IN  /\ p \in Cells /\ c \in Ctx /\ c.randcnt = RANDSIZ
             /\ InStep(c, Rounds(p)[0 + 1]) /\ c.randrsl = Rounds(p)[0 + 1].out
<1> DEFINE z == Results(s)
           p == Seeded(z)
           c0 == [randcnt |-> RANDSIZ, randrsl |-> z, randmem |-> p,
                  randa |-> 0, randb |-> 0, randc |-> 0]
           t0 == Rounds(p)[0]
<1>1. z \in Cells
  <2>1. ASSUME NEW k \in Index PROVE (IF k < 8 THEN s[k + 1] ELSE 0) \in Nat
    <3>1. k < 8 => k + 1 \in 1..8
      BY IndexFacts
    <3>2. \A i \in 1..8 : s[i] \in Nat
      BY SeedsAssumption, WordFacts
    <3> QED BY <3>1, <3>2
  <2>2. z = [k \in Index |-> IF k < 8 THEN s[k + 1] ELSE 0]
    BY DEF Results
  <2> QED BY <2>1, <2>2 DEF Cells
<1>2. p \in Cells
  <2> HIDE DEF z
  <2> QED BY <1>1, SeededTyped
<1> HIDE DEF p
<1>3. c0 \in Ctx
  <2> HIDE DEF z
  <2> QED BY <1>1, <1>2, IndexFacts DEF Ctx
<1>4. t0 \in Lap /\ Rounds(p)[0 + 1] = RoundOf(t0) /\ t0 = RoundZero(p)
  BY <1>2, RoundsFacts
<1>5. InStep(c0, t0)
  <2> HIDE DEF z, t0
  <2> QED BY <1>4 DEF InStep, RoundZero
<1>6. /\ ISAAC_Gen(c0) \in Ctx
      /\ InStep(ISAAC_Gen(c0), RoundOf(t0))
      /\ ISAAC_Gen(c0).randrsl = RoundOf(t0).out
      /\ ISAAC_Gen(c0).randcnt = RANDSIZ
  <2>1. c0.randcnt = RANDSIZ
    OBVIOUS
  <2> HIDE DEF c0, t0
  <2> QED BY <1>3, <1>4, <1>5, <2>1, GenAgrees
<1>7. ISAAC(s) = ISAAC_Gen(c0)
  BY DEF ISAAC, p
<1> HIDE DEF c0, t0
<1>8. Seeded(Results(s)) = p
  BY DEF p
<1> QED BY <1>2, <1>4, <1>6, <1>7, <1>8

\* The next word of the stream is in the pool that is there, or first in the next.
LEMMA RandFollows ==
  ASSUME PoolInv, GetValue
  PROVE  PoolInv' /\ word' \in Word
<1> DEFINE n == RANDSIZ
<1>1. n \in Nat \ {0} /\ Index = 0 .. n - 1
  BY IndexFacts
<1>2. PICK j \in Nat : Follows(j)
  BY DEF PoolInv
<1>3. /\ first \in Cells /\ ctx \in Ctx /\ ctx.randcnt \in 0..n /\ drawn \in Nat
      /\ ctx' = ISAAC_Rand(ctx) /\ word' = Value(ctx') /\ drawn' = drawn + 1 /\ first' = first
  BY DEF PoolInv, GetValue
<1> DEFINE t == Rounds(first)[j + 1]
           u == Rounds(first)[(j + 1) + 1]
<1>4. /\ t \in Lap /\ u \in Lap /\ u = RoundOf(t) /\ j + 1 \in Nat
  <2>1. j + 1 \in Nat /\ (j + 1) + 1 \in Nat
    OBVIOUS
  <2> QED BY <1>3, <2>1, RoundsFacts
<1>5. InStep(ctx, t) /\ ctx.randrsl = t.out /\ drawn = (j * n) + (n - ctx.randcnt)
  BY <1>2 DEF Follows
<1> HIDE DEF n, t, u
<1>6. CASE ctx.randcnt = 0
  <2> DEFINE g == ISAAC_Gen(ctx)
  <2>1. g \in Ctx /\ InStep(g, u) /\ g.randrsl = u.out
    BY <1>3, <1>4, <1>5, GenAgrees
  <2>2. ctx' = [g EXCEPT !.randcnt = n - 1]
    BY <1>3, <1>6 DEF ISAAC_Rand, n
  <2> HIDE DEF g
  <2>3. /\ ctx' \in Ctx /\ ctx'.randcnt = n - 1 /\ InStep(ctx', u) /\ ctx'.randrsl = u.out
    BY <1>1, <2>1, <2>2 DEF Ctx, InStep
  <2>4. drawn' = ((j + 1) * n) + (n - ctx'.randcnt)
    <3>1. (j + 1) * n = (j * n) + n
      BY <1>1
    <3>2. j * n \in Nat
      BY <1>1
    <3> QED BY <1>1, <1>3, <1>5, <1>6, <2>3, <3>1, <3>2
  <2>5. Follows(j + 1)'
    BY <1>3, <2>3, <2>4 DEF Follows, u, n
  <2>6. ctx'.randcnt \in 0..n /\ ctx'.randcnt < n
    BY <1>1, <2>3
  <2>7. word' \in Word
    <3>1. n - 1 \in Index
      BY <1>1
    <3>2. u.out[n - 1] \in Word
      BY <1>4, <3>1 DEF Lap
    <3> QED BY <1>3, <2>3, <3>2 DEF Value
  <2> QED BY <1>3, <1>4, <2>3, <2>5, <2>6, <2>7 DEF PoolInv, n
<1>7. CASE ctx.randcnt # 0
  <2>1. ctx' = [ctx EXCEPT !.randcnt = ctx.randcnt - 1]
    BY <1>3, <1>7 DEF ISAAC_Rand
  <2>2. /\ ctx.randcnt - 1 \in Index /\ ctx.randcnt - 1 \in Nat
    BY <1>1, <1>3, <1>7
  <2>3. /\ ctx' \in Ctx /\ ctx'.randcnt = ctx.randcnt - 1 /\ InStep(ctx', t)
        /\ ctx'.randrsl = t.out
    BY <1>3, <1>5, <2>1, <2>2 DEF Ctx, InStep
  <2>4. drawn' = (j * n) + (n - ctx'.randcnt)
    <3>1. j * n \in Nat
      BY <1>1
    <3> QED BY <1>1, <1>3, <1>5, <2>3, <3>1
  <2>5. Follows(j)'
    BY <1>3, <2>3, <2>4 DEF Follows, t, n
  <2>6. ctx'.randcnt \in 0..n /\ ctx'.randcnt < n
    BY <1>1, <1>3, <2>2, <2>3
  <2>7. word' \in Word
    <3>1. t.out[ctx.randcnt - 1] \in Word
      BY <1>4, <2>2 DEF Lap
    <3> QED BY <1>3, <2>3, <3>1 DEF Value
  <2> QED BY <1>3, <2>3, <2>5, <2>6, <2>7 DEF PoolInv, n
<1> QED BY <1>3, <1>6, <1>7

LEMMA PoolInvInit == ASSUME NEW s \in Seeds, ctx = ISAAC(s), first = Seeded(Results(s)), drawn = 0
                     PROVE  PoolInv
<1>1. /\ first \in Cells /\ ctx \in Ctx /\ ctx.randcnt = RANDSIZ
      /\ InStep(ctx, Rounds(first)[0 + 1]) /\ ctx.randrsl = Rounds(first)[0 + 1].out
  BY FreshPool
<1>2. RANDSIZ \in Nat /\ RANDSIZ \in 0..RANDSIZ /\ 0 = (0 * RANDSIZ) + (RANDSIZ - RANDSIZ)
  BY IndexFacts
<1>3. Follows(0)
  BY <1>1, <1>2 DEF Follows
<1>4. ~ (drawn > 0) /\ drawn \in Nat
  OBVIOUS
<1> QED BY <1>1, <1>2, <1>3, <1>4 DEF PoolInv

LEMMA PoolInvStep == PoolInv /\ [PoolNext]_vars => PoolInv'
<1> SUFFICES ASSUME PoolInv, [PoolNext]_vars PROVE PoolInv'
  OBVIOUS
<1>1. CASE Draw
  BY <1>1, RandFollows DEF Draw
<1>2. CASE UNCHANGED <<word, ctx, first, drawn>>
  BY <1>2 DEF PoolInv, Follows, InStep, Value
<1>3. CASE Begin
  <2>1. word' = word
    BY <1>3 DEF Begin, Ask, Roll, Rollx, Throws
  <2> QED BY <1>2, <1>3, <2>1 DEF Begin
<1>4. CASE Reseed
  <2>1. PICK s \in Seeds : ctx' = ISAAC(s) /\ first' = Seeded(Results(s)) /\ drawn' = 0
    BY <1>4 DEF Reseed
  <2>2. /\ first' \in Cells /\ ctx' \in Ctx /\ ctx'.randcnt = RANDSIZ
        /\ InStep(ctx', Rounds(first')[0 + 1]) /\ ctx'.randrsl = Rounds(first')[0 + 1].out
    BY <2>1, FreshPool
  <2>3. RANDSIZ \in Nat /\ RANDSIZ \in 0..RANDSIZ /\ 0 = (0 * RANDSIZ) + (RANDSIZ - RANDSIZ)
    BY IndexFacts
  <2>4. Follows(0)'
    BY <2>1, <2>2, <2>3 DEF Follows
  <2>5. ~ (drawn' > 0) /\ drawn' \in Nat
    BY <2>1
  <2> QED BY <2>2, <2>3, <2>4, <2>5 DEF PoolInv
<1>5. CASE UNCHANGED vars
  BY <1>2, <1>5 DEF vars, dice
<1> QED BY <1>1, <1>3, <1>4, <1>5 DEF PoolNext

LEMMA PoolInvariance == PoolSpec => []PoolInv
<1>1. PoolInit => PoolInv
  BY PoolInvInit DEF PoolInit
<1> QED BY <1>1, PoolInvStep, PTL DEF PoolSpec

\* The words are numbered from 1, and counters fall.
LEMMA Numbered ==
  ASSUME PoolInv, drawn > 0
  PROVE  word = Stream(first, drawn)
<1> DEFINE n == RANDSIZ
           r == n - 1 - ctx.randcnt
<1>1. PICK j \in Nat : Follows(j)
  BY DEF PoolInv
<1>2. n \in Lengths /\ n \in Nat
  BY PoolLengths, IndexFacts
<1>3. ctx.randcnt \in 0..n /\ ctx.randcnt < n /\ word = Value(ctx)
  BY DEF PoolInv
<1>4. ctx.randrsl = Rounds(first)[j + 1].out /\ drawn = (j * n) + (n - ctx.randcnt)
  BY <1>1 DEF Follows
<1> HIDE DEF n
<1>5. r \in 0 .. n - 1 /\ n - 1 - r = ctx.randcnt
  BY <1>2, <1>3
<1>6. drawn - 1 = (j * n) + r
  <2>1. j * n \in Nat
    BY <1>2
  <2> QED BY <1>2, <1>3, <1>4, <2>1
<1> HIDE DEF r
<1>7. (drawn - 1) \div n = j /\ (drawn - 1) % n = r
  BY <1>2, <1>5, <1>6, Rows
<1>8. Stream(first, drawn) = Rounds(first)[((drawn - 1) \div n) + 1].out[n - 1 - ((drawn - 1) % n)]
  BY DEF Stream, n
<1> QED BY <1>3, <1>4, <1>5, <1>7, <1>8 DEF Value

\* util/ISAAC: for every seed, every size of words and pools and any number of
\* draws, what GetValue returns is the next result of the generator as its author
\* describes it, across all refills and restarts.
THEOREM WordsFollowTheStream == PoolSpec => []DrawsFollowTheStream
<1>1. PoolInv => DrawsFollowTheStream
  BY Numbered DEF DrawsFollowTheStream
<1> QED BY <1>1, PoolInvariance, PTL

\* MeepBot.Utils.Rand with the bot's own generator is Rand with any words: the
\* pool implements the dice, so that all that holds of these holds of the bot.
THEOREM PoolImplementsDice == PoolSpec => PoolDrawsWords
<1>1. PoolInit => Init
  BY DEF PoolInit
<1>2. PoolInv /\ [PoolNext]_vars => [Next]_dice
  <2> SUFFICES ASSUME PoolInv, [PoolNext]_vars PROVE [Next]_dice
    OBVIOUS
  <2>1. CASE Draw
    <3>1. Throw /\ word' \in Word
      BY <2>1, RandFollows DEF Draw
    <3>2. Word = Words
      BY WordAssumption DEF Word, Words
    <3> QED BY <3>1, <3>2 DEF Next, AnyWord
  <2>2. CASE Begin
    BY <2>2 DEF Begin, Next
  <2>3. CASE Reseed
    BY <2>3 DEF Reseed, Next
  <2>4. CASE UNCHANGED vars
    BY <2>4 DEF vars
  <2> QED BY <2>1, <2>2, <2>3, <2>4 DEF PoolNext
<1> QED BY <1>1, <1>2, PoolInvariance, PTL DEF PoolSpec, PoolDrawsWords, Spec

\* Dice.lua: so the bot's own throws are sides of the die, and only rollx can end it.
THEOREM ThrowsOfTheBot == PoolSpec => [](RollsInRange /\ OnlyRollxDividesByZero)
  BY PoolImplementsDice, ThrowsAreSides, ZeroComesFromRollx, PTL DEF PoolDrawsWords
=============================================================================
