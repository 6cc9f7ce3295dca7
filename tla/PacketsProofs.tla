--------------------------- MODULE PacketsProofs ---------------------------
(***************************************************************************)
(* For every buffer size, every sequence of packets and wherever recv cuts *)
(* the stream: where MeepBot::Read puts its terminator and what string it  *)
(* leaves, what StringUtil::Split finds in it, what FromString and         *)
(* PacketUtil make of it, and what Login and MainLoop do with that.        *)
(*                                                                         *)
(* The operators are recursive functions, so that most lemmas are          *)
(* inductions; these are proved here from NatLessThanWellFounded.          *)
(***************************************************************************)
EXTENDS Packets, WellFoundedInduction, SequenceTheorems, FiniteSetTheorems, TLAPS

-----------------------------------------------------------------------------
(***************************************************************************)
(* Induction and recursion over data, from the least element of a set of   *)
(* naturals: a property that each place inherits from one of less rank holds *)
(* everywhere, and a function given along a rank exists.                   *)
(***************************************************************************)

LEMMA LeastNumber ==
  ASSUME NEW T, T \subseteq Nat, T # {}
  PROVE  \E x \in T : \A y \in T : x <= y
<1> DEFINE R == OpToRel(<, Nat)
<1>1. IsWellFoundedOn(R, Nat)
  BY NatLessThanWellFounded
<1>2. \A x, y \in Nat : x < y => <<x, y>> \in R
  BY DEF OpToRel
<1> HIDE DEF R
<1>3. PICK x \in T : \A y \in T : ~ (<<y, x>> \in R)
  BY <1>1, WFMin
<1>4. ASSUME NEW y \in T PROVE x <= y
  <2>1. x \in Nat /\ y \in Nat /\ ~ (y < x)
    BY <1>2, <1>3
  <2> QED BY <2>1
<1> QED BY <1>4

LEMMA Induction ==
  ASSUME NEW T, 0 \in T, \A n \in Nat : n \in T => n + 1 \in T
  PROVE  Nat \subseteq T
<1> SUFFICES ASSUME Nat \ T # {} PROVE FALSE
  OBVIOUS
<1>1. PICK x \in Nat \ T : \A y \in Nat \ T : x <= y
  BY LeastNumber
<1>2. x # 0 /\ x - 1 \in Nat /\ ~ (x <= x - 1)
  BY <1>1
<1>3. x - 1 \in T
  BY <1>1, <1>2
<1>4. (x - 1) + 1 = x
  BY <1>2
<1> QED BY <1>1, <1>2, <1>3, <1>4

\* From every place of D outside stop, pred leads to one of less rank.
Descends(D, rank, stop, pred) ==
  /\ rank \in [D -> Nat]
  /\ pred \in [D -> D]
  /\ \A d \in D \ stop : rank[pred[d]] < rank[d]

Inherited(D, stop, pred, T) == \A d \in D : (d \in stop \/ pred[d] \in T) => d \in T

LEMMA RankInduction ==
  ASSUME NEW D, NEW rank, NEW stop, NEW pred, Descends(D, rank, stop, pred),
         NEW T, Inherited(D, stop, pred, T)
  PROVE  D \subseteq T
<1> USE DEF Descends, Inherited
<1> SUFFICES ASSUME D \ T # {} PROVE FALSE
  OBVIOUS
<1> DEFINE R == {rank[d] : d \in D \ T}
<1>1. R \subseteq Nat /\ R # {}
  OBVIOUS
<1>2. PICK x \in R : \A y \in R : x <= y
  <2> HIDE DEF R
  <2> QED BY <1>1, LeastNumber
<1>3. PICK d \in D \ T : x = rank[d]
  BY <1>2
<1>4. d \notin stop /\ pred[d] \in D \ T
  BY <1>3
<1>5. rank[pred[d]] \in R
  BY <1>4
<1>6. rank[pred[d]] \in Nat /\ rank[d] \in Nat /\ rank[pred[d]] < rank[d] /\ rank[d] <= rank[pred[d]]
  BY <1>2, <1>3, <1>4, <1>5
<1> QED BY <1>6

\* f takes its value from base in stop, and elsewhere by step from its value at pred.
Solves(f, D, stop, pred, base, step) ==
  \A d \in D : f[d] = IF d \in stop THEN base[d] ELSE step[d][f[pred[d]]]

\* A function whose value at a place depends on its value at one of less rank exists.
LEMMA Recursion ==
  ASSUME NEW D, NEW rank, NEW stop, NEW pred, Descends(D, rank, stop, pred),
         NEW X, NEW base \in [D -> X], NEW step \in [D -> [X -> X]]
  PROVE  \E f \in [D -> X] : Solves(f, D, stop, pred, base, step)
<1> USE DEF Descends, Solves
<1> DEFINE E(k) == {d \in D : rank[d] <= k}
           P(f, k) == \A d \in E(k) :
                        f[d] = IF d \in stop THEN base[d] ELSE step[d][f[pred[d]]]
           T == {k \in Nat : \E f \in [E(k) -> X] : P(f, k)}
<1>0. \A k \in Nat : \A d \in E(k) \ stop : pred[d] \in E(k) /\ rank[pred[d]] < rank[d]
  <2> SUFFICES ASSUME NEW k \in Nat, NEW d \in D, rank[d] <= k, d \notin stop
               PROVE  pred[d] \in D /\ rank[pred[d]] <= k /\ rank[pred[d]] < rank[d]
    OBVIOUS
  <2>1. pred[d] \in D /\ rank[pred[d]] < rank[d] /\ rank[pred[d]] \in Nat /\ rank[d] \in Nat
    OBVIOUS
  <2> QED BY <2>1
<1>1. 0 \in T
  <2> DEFINE g == [d \in E(0) |-> base[d]]
  <2>1. \A d \in E(0) : d \in stop
    <3> SUFFICES ASSUME NEW d \in D, rank[d] <= 0, d \notin stop PROVE FALSE
      OBVIOUS
    <3>1. rank[pred[d]] \in Nat /\ rank[pred[d]] < rank[d] /\ rank[d] \in Nat
      OBVIOUS
    <3> QED BY <3>1
  <2>2. g \in [E(0) -> X] /\ P(g, 0)
    BY <2>1
  <2> QED BY <2>2
<1>2. ASSUME NEW k \in Nat, k \in T PROVE k + 1 \in T
  <2>1. PICK f \in [E(k) -> X] : P(f, k)
    BY <1>2
  <2>2. \A d \in E(k) : d \in E(k + 1)
    <3> SUFFICES ASSUME NEW d \in D, rank[d] <= k PROVE rank[d] <= k + 1
      OBVIOUS
    <3>1. rank[d] \in Nat
      OBVIOUS
    <3> QED BY <3>1
  <2>3. \A d \in E(k + 1) : d \notin stop => pred[d] \in E(k)
    <3> SUFFICES ASSUME NEW d \in D, rank[d] <= k + 1, d \notin stop
                 PROVE  rank[pred[d]] <= k
      OBVIOUS
    <3>1. rank[d] \in Nat /\ rank[pred[d]] \in Nat /\ rank[pred[d]] < rank[d]
      OBVIOUS
    <3> QED BY <3>1
  <2> DEFINE g == [d \in E(k + 1) |-> IF d \in stop THEN base[d] ELSE step[d][f[pred[d]]]]
  <2>4. g \in [E(k + 1) -> X]
    <3> SUFFICES ASSUME NEW d \in E(k + 1), d \notin stop PROVE step[d][f[pred[d]]] \in X
      OBVIOUS
    <3>1. f[pred[d]] \in X
      BY <2>3
    <3> QED BY <3>1
  <2>5. \A d \in E(k) : g[d] = f[d]
    <3> HIDE DEF E
    <3> QED BY <2>1, <2>2
  <2>6. P(g, k + 1)
    <3> HIDE DEF E
    <3> QED BY <2>3, <2>5
  <2> HIDE DEF E, P, g
  <2> QED BY <2>4, <2>6
<1>3. \A k \in Nat : \E f \in [E(k) -> X] : P(f, k)
  <2> HIDE DEF T
  <2>1. Nat \subseteq T
    BY <1>1, <1>2, Induction
  <2> USE DEF T
  <2> QED BY <2>1
<1> DEFINE F == [k \in Nat |-> CHOOSE f \in [E(k) -> X] : P(f, k)]
<1>4. \A k \in Nat : F[k] \in [E(k) -> X] /\ P(F[k], k)
  <2> HIDE DEF P, E
  <2> QED BY <1>3
<1>5. ASSUME NEW k \in Nat, NEW l \in Nat, k <= l
      PROVE  \A d \in E(k) : F[k][d] = F[l][d]
  <2> HIDE DEF F
  <2> DEFINE S == {d \in D : d \in E(k) => F[k][d] = F[l][d]}
  <2>1. ASSUME NEW d \in D, d \in stop \/ pred[d] \in S PROVE d \in S
    <3> SUFFICES ASSUME d \in E(k) PROVE F[k][d] = F[l][d]
      OBVIOUS
    <3>1. d \in E(l)
      <4>1. rank[d] \in Nat /\ rank[d] <= k
        OBVIOUS
      <4> QED BY <4>1, <1>5
    <3>2. CASE d \in stop
      BY <1>4, <3>1, <3>2
    <3>3. CASE d \notin stop
      <4>1. pred[d] \in E(k) /\ F[k][pred[d]] = F[l][pred[d]]
        BY <1>0, <2>1, <3>3
      <4> HIDE DEF E
      <4> QED BY <1>4, <3>1, <3>3, <4>1
    <3> QED BY <3>2, <3>3
  <2>2. D \subseteq S
    <3> HIDE DEF S
    <3>1. Inherited(D, stop, pred, S)
      BY <2>1 DEF Inherited
    <3> HIDE DEF Descends
    <3> QED BY <3>1, RankInduction
  <2> QED BY <2>2
<1> DEFINE h == [d \in D |-> F[rank[d]][d]]
<1>6. h \in [D -> X]
  <2> SUFFICES ASSUME NEW d \in D PROVE F[rank[d]][d] \in X
    OBVIOUS
  <2>1. rank[d] \in Nat /\ d \in E(rank[d])
    OBVIOUS
  <2> HIDE DEF E, F
  <2> QED BY <1>4, <2>1
<1>7. ASSUME NEW d \in D PROVE h[d] = IF d \in stop THEN base[d] ELSE step[d][h[pred[d]]]
  <2>1. rank[d] \in Nat /\ d \in E(rank[d])
    OBVIOUS
  <2>2. CASE d \in stop
    <3> HIDE DEF E, F
    <3> QED BY <1>4, <2>1, <2>2
  <2>3. CASE d \notin stop
    <3>1. rank[pred[d]] \in Nat /\ rank[pred[d]] <= rank[d] /\ pred[d] \in E(rank[pred[d]])
      <4>1. pred[d] \in D /\ rank[pred[d]] \in Nat /\ rank[d] \in Nat /\ rank[pred[d]] < rank[d]
        BY <2>3
      <4> QED BY <4>1
    <3> HIDE DEF E, F
    <3>2. F[rank[pred[d]]][pred[d]] = F[rank[d]][pred[d]]
      BY <1>5, <2>1, <3>1
    <3> QED BY <1>4, <2>1, <2>3, <3>2
  <2> QED BY <2>2, <2>3
<1> HIDE DEF h
<1> QED BY <1>6, <1>7

-----------------------------------------------------------------------------
(***************************************************************************)
(* The longest runs without a delimiter, in order, and where one turn of the *)
(* loop of StringUtil::Split finds the next of them.                       *)
(***************************************************************************)

\* Min of a set of naturals.
LEMMA MinOf ==
  ASSUME NEW T, T \subseteq Nat, T # {}
  PROVE  Min(T) \in T /\ \A y \in T : Min(T) <= y
<1>1. \E x \in T : \A y \in T : x <= y
  BY LeastNumber
<1> QED BY <1>1 DEF Min

\* What FindFirst finds.
LEMMA FirstFound ==
  ASSUME NEW s, Len(s) \in Nat, NEW P, P \subseteq 1 .. Len(s), NEW i \in Nat
  PROVE  LET j == FindFirst(s, P, i) IN
         /\ j \in P \cup {Len(s) + 1}
         /\ j >= i \/ j = Len(s) + 1
         /\ \A k \in P : k >= i => j <= k
         /\ j <= Len(s) + 1
<1> DEFINE T == {k \in P : k >= i} \cup {Len(s) + 1}
<1>0. FindFirst(s, P, i) = Min(T)
  BY DEF FindFirst
<1>1. T \subseteq Nat /\ T # {}
  <2>1. \A k \in P : k \in Nat
    OBVIOUS
  <2>2. Len(s) + 1 \in Nat
    OBVIOUS
  <2> QED BY <2>1, <2>2
<1>2. Min(T) \in T /\ \A y \in T : Min(T) <= y
  <2> HIDE DEF T
  <2> QED BY <1>1, MinOf
<1> QED BY <1>0, <1>1, <1>2

\* Runs of places outside D in 1..len, in order: the k-th is a[k] .. z[k].
InOrder(D, len, m, a, z) ==
  /\ m \in Nat /\ a \in [1..m -> 1..len] /\ z \in [1..m -> 1..len]
  /\ \A k \in 1..m : a[k] <= z[k] /\ \A j \in a[k] .. z[k] : j \notin D
  /\ \A k, l \in 1..m : k < l => z[k] + 1 < a[l]
  /\ \A j \in 1..len : j \notin D => \E k \in 1..m : a[k] <= j /\ j <= z[k]

LEMMA RunsExist ==
  ASSUME NEW D, NEW len \in Nat
  PROVE  \E m, a, z : InOrder(D, len, m, a, z)
<1> DEFINE T == {n \in Nat : \E m, a, z : InOrder(D, n, m, a, z)}
<1>1. 0 \in T
  <2>1. InOrder(D, 0, 0, <<>>, <<>>)
    BY DEF InOrder
  <2> QED BY <2>1
<1>2. ASSUME NEW n \in Nat, n \in T PROVE n + 1 \in T
  <2>1. PICK m, a, z : InOrder(D, n, m, a, z)
    BY <1>2
  <2>2. CASE n + 1 \in D
    <3>0. m \in Nat /\ a \in [1..m -> 1..n] /\ z \in [1..m -> 1..n]
      BY <2>1 DEF InOrder
    <3>a. a \in [1..m -> 1 .. n + 1] /\ z \in [1..m -> 1 .. n + 1]
      BY <3>0
    <3>b. \A j \in 1 .. n + 1 : j \notin D => j \in 1..n
      BY <2>2
    <3>1. InOrder(D, n + 1, m, a, z)
      BY <2>1, <3>a, <3>b DEF InOrder
    <3> QED BY <3>1
  <2>3. CASE n + 1 \notin D /\ m # 0 /\ z[m] = n
    <3> DEFINE y == [z EXCEPT ![m] = n + 1]
    <3>1. InOrder(D, n + 1, m, a, y)
      <4> USE DEF InOrder
      <4>1. m \in 1..m
        BY <2>1, <2>3
      <4>2. m \in Nat /\ a \in [1..m -> 1 .. n + 1] /\ y \in [1..m -> 1 .. n + 1]
        <5>1. m \in Nat /\ a \in [1..m -> 1..n] /\ z \in [1..m -> 1..n]
          BY <2>1
        <5>2. a \in [1..m -> 1 .. n + 1] /\ DOMAIN y = 1..m
          BY <5>1
        <5>3. \A k \in 1..m : y[k] \in 1 .. n + 1
          BY <5>1
        <5>4. y \in [1..m -> 1 .. n + 1]
          <6> HIDE DEF y
          <6>1. y = [k \in 1..m |-> y[k]]
            BY <5>1 DEF y
          <6> QED BY <5>3, <6>1
        <5> QED BY <5>1, <5>2, <5>4
      <4>3. \A k \in 1..m : a[k] <= y[k] /\ \A j \in a[k] .. y[k] : j \notin D
        BY <2>1, <2>3
      <4>4. \A k, l \in 1..m : k < l => y[k] + 1 < a[l]
        BY <2>1
      <4>5. ASSUME NEW j \in 1 .. n + 1, j \notin D
            PROVE  \E k \in 1..m : a[k] <= j /\ j <= y[k]
        <5>1. CASE j = n + 1
          <6>1. a[m] <= n
            BY <2>1, <2>3, <4>1
          <6>2. y[m] = n + 1 /\ a[m] <= n + 1
            BY <2>1, <4>1, <6>1
          <6> QED BY <4>1, <5>1, <6>2
        <5>2. CASE j # n + 1
          <6>1. j \in 1..n
            BY <5>2
          <6>2. PICK k \in 1..m : a[k] <= j /\ j <= z[k]
            BY <2>1, <4>5, <6>1
          <6>3. j <= y[k]
            BY <2>1, <2>3, <6>1, <6>2
          <6> QED BY <6>2, <6>3
        <5> QED BY <5>1, <5>2
      <4> QED BY <4>2, <4>3, <4>4, <4>5
    <3> QED BY <3>1
  <2>4. CASE n + 1 \notin D /\ ~ (m # 0 /\ z[m] = n)
    <3> DEFINE b == [k \in 1 .. m + 1 |-> IF k = m + 1 THEN n + 1 ELSE a[k]]
               y == [k \in 1 .. m + 1 |-> IF k = m + 1 THEN n + 1 ELSE z[k]]
    <3>1. InOrder(D, n + 1, m + 1, b, y)
      <4> USE DEF InOrder
      <4>0. m \in Nat /\ a \in [1..m -> 1..n] /\ z \in [1..m -> 1..n]
        BY <2>1
      <4>1. \A k \in 1..m : z[k] + 1 < n + 1
        <5> SUFFICES ASSUME NEW k \in 1..m PROVE z[k] # n
          BY <4>0
        <5>1. m \in 1..m /\ z[k] \in 1..n /\ z[m] \in 1..n /\ a[m] <= z[m]
          BY <2>1
        <5>2. k # m => z[k] + 1 < a[m] /\ a[m] \in 1..n
          BY <2>1, <5>1
        <5> QED BY <2>4, <5>1, <5>2
      <4>2. m + 1 \in Nat /\ b \in [1 .. m + 1 -> 1 .. n + 1] /\ y \in [1 .. m + 1 -> 1 .. n + 1]
        BY <2>1
      <4>3. \A k \in 1 .. m + 1 : b[k] <= y[k] /\ \A j \in b[k] .. y[k] : j \notin D
        <5> SUFFICES ASSUME NEW k \in 1 .. m + 1
                     PROVE  b[k] <= y[k] /\ \A j \in b[k] .. y[k] : j \notin D
          OBVIOUS
        <5>1. CASE k = m + 1
          BY <2>4, <5>1
        <5>2. CASE k \in 1..m
          BY <2>1, <5>2
        <5> QED BY <2>1, <5>1, <5>2
      <4>4. \A k, l \in 1 .. m + 1 : k < l => y[k] + 1 < b[l]
        <5> SUFFICES ASSUME NEW k \in 1 .. m + 1, NEW l \in 1 .. m + 1, k < l
                     PROVE  y[k] + 1 < b[l]
          OBVIOUS
        <5>1. k \in 1..m /\ y[k] = z[k]
          BY <4>0
        <5>2. CASE l = m + 1
          BY <4>1, <5>1, <5>2
        <5>3. CASE l \in 1..m
          BY <2>1, <5>1, <5>3
        <5> QED BY <4>0, <5>2, <5>3
      <4>5. ASSUME NEW j \in 1 .. n + 1, j \notin D
            PROVE  \E k \in 1 .. m + 1 : b[k] <= j /\ j <= y[k]
        <5>1. CASE j = n + 1
          BY <4>0, <5>1
        <5>2. CASE j \in 1..n
          <6>1. PICK k \in 1..m : a[k] <= j /\ j <= z[k]
            BY <2>1, <4>5, <5>2
          <6>2. k \in 1 .. m + 1 /\ b[k] = a[k] /\ y[k] = z[k]
            BY <4>0
          <6> QED BY <6>1, <6>2
        <5> QED BY <5>1, <5>2
      <4> QED BY <4>2, <4>3, <4>4, <4>5
    <3> QED BY <3>1
  <2> QED BY <2>2, <2>3, <2>4
<1>3. Nat \subseteq T
  <2> HIDE DEF T
  <2> QED BY <1>1, <1>2, Induction
<1> QED BY <1>3

\* One turn of the loop of StringUtil::Split.
Start(s, delim, i) == FindFirst(s, DOMAIN s \ Delimiters(s, delim), i)
Stop(s, delim, i)  == FindFirst(s, Delimiters(s, delim), Start(s, delim, i))
Token(s, delim, i) == SubSeq(s, Start(s, delim, i), Stop(s, delim, i) - 1)

LEMMA TurnMoves ==
  ASSUME NEW S, NEW s \in Seq(S), NEW delim, NEW i \in Positions(s)
  PROVE  /\ Start(s, delim, i) \in i .. Len(s) + 1
         /\ Stop(s, delim, i) \in Start(s, delim, i) .. Len(s) + 1
         /\ Start(s, delim, i) <= Len(s) => Stop(s, delim, i) > Start(s, delim, i)
         /\ \A k \in i .. Start(s, delim, i) - 1 : s[k] = delim
         /\ \A k \in Start(s, delim, i) .. Stop(s, delim, i) - 1 : s[k] # delim
         /\ Stop(s, delim, i) <= Len(s) => s[Stop(s, delim, i)] = delim
<1> DEFINE D == Delimiters(s, delim)
           P == DOMAIN s \ D
           a == Start(s, delim, i)
           z == Stop(s, delim, i)
<1>0. Len(s) \in Nat /\ DOMAIN s = 1 .. Len(s) /\ i \in Nat /\ i <= Len(s) + 1
  BY DEF Positions
<1>1. D \subseteq 1 .. Len(s) /\ P \subseteq 1 .. Len(s)
  BY <1>0 DEF Delimiters
<1>2. \A k \in 1 .. Len(s) : k \in D <=> s[k] = delim
  BY <1>0 DEF Delimiters
<1>3. \A k \in 1 .. Len(s) : k \in P <=> s[k] # delim
  BY <1>0, <1>2
<1>4. a = FindFirst(s, P, i) /\ z = FindFirst(s, D, a)
  BY DEF Start, Stop
<1> HIDE DEF D, P, a, z
<1>5. /\ a \in P \cup {Len(s) + 1}
      /\ a >= i \/ a = Len(s) + 1
      /\ \A k \in P : k >= i => a <= k
      /\ a <= Len(s) + 1
  BY <1>0, <1>1, <1>4, FirstFound
<1>6. a \in Nat
  BY <1>0, <1>1, <1>5
<1>7. /\ z \in D \cup {Len(s) + 1}
      /\ z >= a \/ z = Len(s) + 1
      /\ \A k \in D : k >= a => z <= k
      /\ z <= Len(s) + 1
  BY <1>0, <1>1, <1>4, <1>6, FirstFound
<1>8. z \in Nat
  BY <1>0, <1>1, <1>7
<1>9. a \in i .. Len(s) + 1 /\ z \in a .. Len(s) + 1
  BY <1>0, <1>5, <1>6, <1>7, <1>8
<1>10. a <= Len(s) => a \in P /\ a \notin D /\ z # a
  BY <1>0, <1>5, <1>7, <1>8, <1>9 DEF P
<1>11. a <= Len(s) => z > a
  BY <1>6, <1>8, <1>9, <1>10
<1>12. ASSUME NEW k \in i .. a - 1 PROVE s[k] = delim
  <2>1. k \in 1 .. Len(s) /\ k >= i /\ ~ (a <= k)
    BY <1>0, <1>6, <1>9, <1>12 DEF Positions
  <2> QED BY <1>3, <1>5, <2>1
<1>13. ASSUME NEW k \in a .. z - 1 PROVE s[k] # delim
  <2>1. k \in 1 .. Len(s) /\ k >= a /\ ~ (z <= k)
    BY <1>0, <1>6, <1>8, <1>9, <1>13 DEF Positions
  <2> QED BY <1>2, <1>7, <2>1
<1>14. z <= Len(s) => s[z] = delim
  BY <1>0, <1>1, <1>2, <1>7
<1> QED BY <1>9, <1>11, <1>12, <1>13, <1>14 DEF a, z

LEMMA TokensEquation ==
  ASSUME NEW S, NEW s \in Seq(S), NEW delim
  PROVE  \A i \in Positions(s) :
           Tokens(s, delim)[i] =
             IF Start(s, delim, i) > Len(s) THEN <<>>
             ELSE <<Token(s, delim, i)>> \o Tokens(s, delim)[Stop(s, delim, i)]
<1> DEFINE N == Len(s) + 1
           E == Positions(s)
           X == Seq(Seq(S))
           rank == [i \in E |-> N - i]
           stop == {i \in E : Start(s, delim, i) > Len(s)}
           pred == [i \in E |-> Stop(s, delim, i)]
           base == [i \in E |-> <<>>]
           step == [i \in E |-> [x \in X |-> <<Token(s, delim, i)>> \o x]]
           Body(g) == [i \in E |-> IF Start(s, delim, i) > Len(s) THEN <<>>
                                   ELSE <<Token(s, delim, i)>> \o g[Stop(s, delim, i)]]
<1>1. Tokens(s, delim) = CHOOSE g : g = Body(g)
  BY DEF Tokens, Start, Stop, Token
<1>0. Len(s) \in Nat /\ E = 1 .. N /\ DOMAIN s = 1 .. Len(s)
  BY DEF Positions
<1>2. \A i \in E : /\ Start(s, delim, i) \in i .. N
                   /\ Stop(s, delim, i) \in Start(s, delim, i) .. N
                   /\ Start(s, delim, i) <= Len(s) => Stop(s, delim, i) > Start(s, delim, i)
  BY TurnMoves
<1>3. Descends(E, rank, stop, pred)
  <2>1. rank \in [E -> Nat]
    BY <1>0
  <2>2. pred \in [E -> E]
    BY <1>0, <1>2
  <2>3. ASSUME NEW i \in E \ stop PROVE rank[pred[i]] < rank[i]
    <3>1. Start(s, delim, i) <= Len(s)
      BY <1>0, <1>2
    <3> QED BY <1>0, <1>2, <2>2, <3>1
  <2> HIDE DEF rank, stop, pred, E
  <2> QED BY <2>1, <2>2, <2>3 DEF Descends
<1>4. base \in [E -> X]
  OBVIOUS
<1>5. step \in [E -> [X -> X]]
  <2> SUFFICES ASSUME NEW i \in E, NEW x \in X PROVE <<Token(s, delim, i)>> \o x \in X
    OBVIOUS
  <2>1. \A j \in Start(s, delim, i) .. Stop(s, delim, i) - 1 : s[j] \in S
    <3> SUFFICES ASSUME NEW j \in Start(s, delim, i) .. Stop(s, delim, i) - 1 PROVE j \in 1 .. Len(s)
      BY <1>0
    <3> QED BY <1>0, <1>2
  <2>2. Token(s, delim, i) \in Seq(S)
    <3>1. Start(s, delim, i) \in Int /\ Stop(s, delim, i) - 1 \in Int
      BY <1>0, <1>2
    <3> QED BY <2>1, <3>1, SubSeqProperties DEF Token
  <2> QED BY <2>2
<1>6. PICK f \in [E -> X] : \A i \in E : f[i] = IF i \in stop THEN base[i] ELSE step[i][f[pred[i]]]
  <2> HIDE DEF E, X, rank, stop, pred, base, step
  <2>1. \E f \in [E -> X] : Solves(f, E, stop, pred, base, step)
    BY <1>3, <1>4, <1>5, Recursion
  <2> QED BY <2>1 DEF Solves
<1>7. ASSUME NEW i \in E
      PROVE  f[i] = IF Start(s, delim, i) > Len(s) THEN <<>>
                    ELSE <<Token(s, delim, i)>> \o f[Stop(s, delim, i)]
  <2>1. CASE i \in stop
    BY <1>6, <2>1
  <2>2. CASE i \notin stop
    <3>1. f[Stop(s, delim, i)] \in X
      BY <1>0, <1>2
    <3> HIDE DEF X
    <3> QED BY <1>6, <2>2, <3>1
  <2> QED BY <2>1, <2>2
<1>8. f = Body(f)
  <2> HIDE DEF E, X
  <2> QED BY <1>6, <1>7
<1>9. Tokens(s, delim) = Body(Tokens(s, delim))
  <2> HIDE DEF Body
  <2> QED BY <1>1, <1>8
<1> QED
  <2> DEFINE t == Tokens(s, delim)
  <2>1. t = Body(t)
    BY <1>9
  <2> HIDE DEF t, E
  <2> SUFFICES \A i \in E : t[i] = IF Start(s, delim, i) > Len(s) THEN <<>>
                                   ELSE <<Token(s, delim, i)>> \o t[Stop(s, delim, i)]
    BY DEF t, E
  <2> QED BY <2>1

\* Place i comes after the k-th of the runs and not after the start of the next.
Between(m, a, z, k, i) == (k > 0 => z[k] < i) /\ (k < m => i <= a[k + 1])

Finds(s, delim, m, a, z, k, i) ==
  /\ k = m => Start(s, delim, i) = Len(s) + 1
  /\ k < m => Start(s, delim, i) = a[k + 1] /\ Stop(s, delim, i) = z[k + 1] + 1

\* Between two runs the search finds the next one, and after the last nothing.
LEMMA TurnFindsRun ==
  ASSUME NEW S, NEW s \in Seq(S), NEW delim, NEW m, NEW a, NEW z,
         InOrder(Delimiters(s, delim), Len(s), m, a, z),
         NEW k \in 0..m, NEW i \in Positions(s),
         Between(m, a, z, k, i)
  PROVE  Finds(s, delim, m, a, z, k, i)
<1> USE DEF Between, Finds
<1> DEFINE D == Delimiters(s, delim)
           u == Start(s, delim, i)
           v == Stop(s, delim, i)
<1>0. /\ Len(s) \in Nat /\ DOMAIN s = 1 .. Len(s) /\ i \in 1 .. Len(s) + 1
      /\ m \in Nat /\ a \in [1..m -> 1 .. Len(s)] /\ z \in [1..m -> 1 .. Len(s)]
  BY DEF Positions, InOrder
<1>1. \A j \in 1 .. Len(s) : j \in D <=> s[j] = delim
  BY <1>0 DEF Delimiters
<1>2. /\ \A l \in 1..m : a[l] <= z[l] /\ \A j \in a[l] .. z[l] : j \notin D
      /\ \A l, n \in 1..m : l < n => z[l] + 1 < a[n]
      /\ \A j \in 1 .. Len(s) : j \notin D => \E l \in 1..m : a[l] <= j /\ j <= z[l]
  BY DEF InOrder
<1>3. /\ u \in i .. Len(s) + 1
      /\ v \in u .. Len(s) + 1
      /\ u <= Len(s) => v > u
      /\ \A j \in i .. u - 1 : s[j] = delim
      /\ \A j \in u .. v - 1 : s[j] # delim
      /\ v <= Len(s) => s[v] = delim
  BY TurnMoves
<1> HIDE DEF D, u, v
\* No run up to the k-th reaches i.
<1>4. \A l \in 1..m : l <= k => z[l] < i
  <2> SUFFICES ASSUME NEW l \in 1..m, l <= k PROVE z[l] < i
    OBVIOUS
  <2>1. k \in 1..m /\ z[k] < i /\ a[k] <= z[k] /\ z[k] \in Int /\ z[l] \in Int /\ a[k] \in Int
    BY <1>0, <1>2
  <2>2. l = k \/ z[l] + 1 < a[k]
    BY <1>0, <1>2, <2>1
  <2> QED BY <1>0, <2>1, <2>2
<1>5. u <= Len(s) => \E l \in 1..m : l > k /\ a[l] <= u /\ u <= z[l]
  <2> SUFFICES ASSUME u <= Len(s) PROVE \E l \in 1..m : l > k /\ a[l] <= u /\ u <= z[l]
    OBVIOUS
  <2>1. u \in 1 .. Len(s) /\ u \in u .. v - 1
    BY <1>0, <1>3
  <2>2. u \notin D
    BY <1>1, <1>3, <2>1
  <2>3. PICK l \in 1..m : a[l] <= u /\ u <= z[l]
    BY <1>2, <2>1, <2>2
  <2>4. ~ (z[l] < i)
    BY <1>0, <1>3, <2>1, <2>3
  <2>5. l > k
    BY <1>0, <1>4, <2>3, <2>4
  <2> QED BY <2>3, <2>5
<1>6. ASSUME k = m PROVE u = Len(s) + 1
  BY <1>0, <1>3, <1>5, <1>6
<1>7. ASSUME k < m PROVE u = a[k + 1] /\ v = z[k + 1] + 1
  <2>0. k + 1 \in 1..m /\ a[k + 1] \in 1 .. Len(s) /\ z[k + 1] \in 1 .. Len(s) /\ i <= a[k + 1]
    BY <1>0, <1>7
  <2>1. a[k + 1] <= z[k + 1] /\ a[k + 1] \notin D
    BY <1>0, <1>2, <2>0
  <2>2. u <= a[k + 1]
    <3> SUFFICES ASSUME a[k + 1] < u PROVE FALSE
      BY <1>0, <1>3, <2>0
    <3>1. a[k + 1] \in i .. u - 1
      BY <1>0, <1>3, <2>0
    <3> QED BY <1>1, <1>3, <2>0, <2>1, <3>1
  <2>3. PICK l \in 1..m : l > k /\ a[l] <= u /\ u <= z[l]
    BY <1>0, <1>3, <1>5, <2>0, <2>2
  <2>4. l = k + 1
    <3> SUFFICES ASSUME k + 1 < l PROVE FALSE
      BY <1>0, <2>3
    <3>1. z[k + 1] + 1 < a[l] /\ a[l] \in Int
      BY <1>0, <1>2, <2>0
    <3> QED BY <1>0, <1>3, <2>0, <2>1, <2>2, <2>3, <3>1
  <2>5. u = a[k + 1]
    BY <1>0, <1>3, <2>0, <2>2, <2>3, <2>4
  <2>6. ~ (v <= z[k + 1])
    <3> SUFFICES ASSUME v <= z[k + 1] PROVE FALSE
      OBVIOUS
    <3>1. v \in a[k + 1] .. z[k + 1] /\ v \in 1 .. Len(s)
      BY <1>0, <1>3, <2>0, <2>5
    <3>2. v \notin D
      BY <1>2, <2>0, <3>1
    <3> QED BY <1>0, <1>1, <1>3, <3>1, <3>2
  <2>7. ~ (v > z[k + 1] + 1)
    <3> SUFFICES ASSUME v > z[k + 1] + 1 PROVE FALSE
      OBVIOUS
    <3> DEFINE j == z[k + 1] + 1
    <3>1. j \in u .. v - 1 /\ j \in 1 .. Len(s)
      BY <1>0, <1>3, <2>0, <2>1, <2>5
    <3>2. j \notin D
      BY <1>1, <1>3, <3>1
    <3>3. PICK n \in 1..m : a[n] <= j /\ j <= z[n]
      BY <1>2, <3>1, <3>2
    <3>4. a[n] \in Int /\ z[n] \in Int /\ a[n] <= z[n]
      BY <1>0, <1>2
    <3>5. n < k + 1 => z[n] + 1 < a[k + 1]
      BY <1>2, <2>0
    <3>6. k + 1 < n => z[k + 1] + 1 < a[n]
      BY <1>2, <2>0
    <3> QED BY <1>0, <2>0, <2>1, <3>3, <3>4, <3>5, <3>6
  <2> QED BY <1>0, <1>3, <2>0, <2>5, <2>6, <2>7
<1> QED BY <1>6, <1>7 DEF u, v

\* StringUtil::Split gives the runs in order.
LEMMA SplitGivesRuns ==
  ASSUME NEW S, NEW s \in Seq(S), NEW delim, NEW m, NEW a, NEW z,
         InOrder(Delimiters(s, delim), Len(s), m, a, z)
  PROVE  Split(s, delim) = [k \in 1..m |-> SubSeq(s, a[k], z[k])]
<1> DEFINE t == Tokens(s, delim)
           Rest(k) == [l \in 1 .. m - k |-> SubSeq(s, a[k + l], z[k + l])]
           Left(n) == \A k \in 0..m : k + n = m =>
                        \A i \in Positions(s) : Between(m, a, z, k, i) => t[i] = Rest(k)
           T == {n \in Nat : Left(n)}
<1>0. /\ Len(s) \in Nat /\ Positions(s) = 1 .. Len(s) + 1
      /\ m \in Nat /\ a \in [1..m -> 1 .. Len(s)] /\ z \in [1..m -> 1 .. Len(s)]
      /\ \A k \in 1..m : a[k] <= z[k]
      /\ \A k, l \in 1..m : k < l => z[k] + 1 < a[l]
  BY DEF Positions, InOrder
<1>1. \A i \in Positions(s) :
        t[i] = IF Start(s, delim, i) > Len(s) THEN <<>>
               ELSE <<Token(s, delim, i)>> \o t[Stop(s, delim, i)]
  BY TokensEquation
<1> HIDE DEF t
<1>2. Left(0)
  <2> SUFFICES ASSUME NEW k \in 0..m, k + 0 = m,
                      NEW i \in Positions(s), Between(m, a, z, k, i)
               PROVE  t[i] = Rest(k)
    <3> HIDE DEF Rest
    <3> QED OBVIOUS
  <2>0. k = m
    BY <1>0
  <2>1. Start(s, delim, i) = Len(s) + 1
    BY <2>0, TurnFindsRun DEF Finds
  <2>2. t[i] = <<>>
    <3>1. Start(s, delim, i) > Len(s)
      BY <1>0, <2>1
    <3> HIDE DEF Rest
    <3> QED BY <1>1, <3>1
  <2>3. Rest(k) = <<>>
    BY <1>0, <2>0
  <2> QED BY <2>2, <2>3
<1>3. ASSUME NEW n \in Nat, Left(n) PROVE Left(n + 1)
  <2> SUFFICES ASSUME NEW k \in 0..m, k + (n + 1) = m,
                      NEW i \in Positions(s), Between(m, a, z, k, i)
               PROVE  t[i] = Rest(k)
    <3> HIDE DEF Rest
    <3> QED OBVIOUS
  <2>1. k < m /\ k + 1 \in 0..m /\ k + 1 \in 1..m /\ (k + 1) + n = m
    BY <1>0
  <2>2. Start(s, delim, i) = a[k + 1] /\ Stop(s, delim, i) = z[k + 1] + 1
    BY <2>1, TurnFindsRun DEF Finds
  <2>3. z[k + 1] + 1 \in Positions(s) /\ Between(m, a, z, k + 1, z[k + 1] + 1)
    <3>1. z[k + 1] \in 1 .. Len(s)
      BY <1>0, <2>1
    <3>2. k + 1 < m => z[k + 1] + 1 <= a[(k + 1) + 1]
      <4> SUFFICES ASSUME k + 1 < m PROVE z[k + 1] + 1 <= a[(k + 1) + 1]
        OBVIOUS
      <4>1. (k + 1) + 1 \in 1..m /\ k + 1 < (k + 1) + 1
        BY <1>0, <2>1
      <4>2. z[k + 1] + 1 < a[(k + 1) + 1] /\ a[(k + 1) + 1] \in Int
        BY <1>0, <2>1, <4>1
      <4> QED BY <3>1, <4>2
    <3>3. Between(m, a, z, k + 1, z[k + 1] + 1)
      BY <3>1, <3>2 DEF Between
    <3> QED BY <1>0, <3>1, <3>3
  <2>4. t[z[k + 1] + 1] = Rest(k + 1)
    BY <1>3, <2>1, <2>3
  <2>5. Token(s, delim, i) = SubSeq(s, a[k + 1], z[k + 1])
    <3>1. (z[k + 1] + 1) - 1 = z[k + 1]
      BY <1>0, <2>1
    <3> QED BY <2>2, <3>1 DEF Token
  <2>6. t[i] = <<SubSeq(s, a[k + 1], z[k + 1])>> \o Rest(k + 1)
    <3>1. ~ (a[k + 1] > Len(s))
      BY <1>0, <2>1
    <3> QED BY <1>1, <2>2, <2>4, <2>5, <3>1
  <2>7. <<SubSeq(s, a[k + 1], z[k + 1])>> \o Rest(k + 1) = Rest(k)
    <3> DEFINE tok(l) == SubSeq(s, a[l], z[l])
               X == {tok(l) : l \in 1..m}
               one == <<tok(k + 1)>>
               rest == [l \in 1 .. m - (k + 1) |-> tok((k + 1) + l)]
               all == [l \in 1 .. m - k |-> tok(k + l)]
    <3>0. \A l \in 1..m : tok(l) \in X
      OBVIOUS
    <3> HIDE DEF tok, X
    <3>1. one \in Seq(X) /\ Len(one) = 1 /\ one[1] = tok(k + 1)
      BY <2>1, <3>0
    <3>2. m - (k + 1) \in Nat /\ m - k \in Nat
      BY <1>0, <2>1
    <3>3. rest \in Seq(X) /\ Len(rest) = m - (k + 1)
      <4>1. \A l \in 1 .. m - (k + 1) : tok((k + 1) + l) \in X
        BY <1>0, <2>1, <3>0
      <4> QED BY <3>2, <4>1
    <3>4. all \in Seq(X) /\ Len(all) = m - k
      <4>1. \A l \in 1 .. m - k : tok(k + l) \in X
        BY <1>0, <2>1, <3>0
      <4> QED BY <3>2, <4>1
    <3>5. \A l \in 1 .. m - (k + 1) : rest[l] = tok((k + 1) + l)
      OBVIOUS
    <3>6. \A l \in 1 .. m - k : all[l] = tok(k + l)
      OBVIOUS
    <3> HIDE DEF one, rest, all
    <3>a. /\ one \o rest \in Seq(X)
          /\ Len(one \o rest) = Len(one) + Len(rest)
          /\ \A l \in 1 .. Len(one) + Len(rest) :
               (one \o rest)[l] = IF l <= Len(one) THEN one[l] ELSE rest[l - Len(one)]
      BY <3>1, <3>3, ConcatProperties
    <3>b. Len(one) + Len(rest) = m - k
      BY <1>0, <2>1, <3>1, <3>3
    <3>7. one \o rest \in Seq(X) /\ Len(one \o rest) = m - k
      BY <3>a, <3>b
    <3>8. ASSUME NEW l \in 1 .. m - k PROVE (one \o rest)[l] = all[l]
      <4>1. (one \o rest)[l] = IF l <= 1 THEN one[l] ELSE rest[l - 1]
        BY <3>1, <3>a, <3>b
      <4>2. CASE l = 1
        BY <3>1, <3>6, <4>1, <4>2
      <4>3. CASE l # 1
        <5>1. l - 1 \in 1 .. m - (k + 1) /\ (k + 1) + (l - 1) = k + l
          BY <1>0, <2>1, <4>3
        <5> QED BY <3>5, <3>6, <4>1, <4>3, <5>1
      <4> QED BY <4>2, <4>3
    <3>9. one \o rest = all
      BY <3>4, <3>7, <3>8, SeqEqual
    <3> QED BY <3>9 DEF one, rest, all, tok
  <2> QED BY <2>6, <2>7
<1>4. Nat \subseteq T
  <2> HIDE DEF Left
  <2>1. 0 \in T /\ \A n \in Nat : n \in T => n + 1 \in T
    BY <1>2, <1>3
  <2> HIDE DEF T
  <2> QED BY <2>1, Induction
<1>5. t[1] = Rest(0)
  <2> HIDE DEF Rest
  <2>1. Left(m) /\ 0 + m = m /\ 0 \in 0..m
    <3> HIDE DEF Left
    <3> QED BY <1>0, <1>4
  <2>2. 1 \in Positions(s) /\ Between(m, a, z, 0, 1)
    <3>1. 0 < m => a[1] \in 1 .. Len(s)
      BY <1>0
    <3> QED BY <1>0, <3>1 DEF Between
  <2> QED BY <2>1, <2>2
<1>6. Rest(0) = [k \in 1..m |-> SubSeq(s, a[k], z[k])]
  BY <1>0
<1> QED BY <1>5, <1>6 DEF Split, t

-----------------------------------------------------------------------------
(***************************************************************************)
(* Runs, counted: Split gives what SplitFindsTheRuns says.                 *)
(***************************************************************************)

\* n different elements are n.
LEMMA CountDistinct ==
  ASSUME NEW n \in Nat, NEW T, NEW f \in [1..n -> T],
         \A t \in T : \E j \in 1..n : f[j] = t,
         \A i, j \in 1..n : f[i] = f[j] => i = j
  PROVE  Cardinality(T) = n
<1>1. f \in Bijection(1..n, T)
  BY DEF Bijection, Injection, Surjection, IsInjective
<1>2. ExistsBijection(1..n, T)
  BY <1>1 DEF ExistsBijection
<1> QED BY <1>2, FS_CountingElements

\* The definition of nth in SplitFindsTheRuns.
Nth(runs, k) == CHOOSE r \in runs : Cardinality({q \in runs : q[1] < r[1]}) = k - 1

LEMMA RunsAreRuns ==
  ASSUME NEW S, NEW s \in Seq(S), NEW delim, NEW m, NEW a, NEW z,
         InOrder(Delimiters(s, delim), Len(s), m, a, z)
  PROVE  /\ Runs(s, delim) = {<<a[k], z[k]>> : k \in 1..m}
<1> DEFINE D      == Delimiters(s, delim)
           starts == {i \in DOMAIN s \ D : i = 1 \/ i - 1 \in D}
           lasts  == {j \in DOMAIN s \ D : j = Len(s) \/ j + 1 \in D}
           A      == {<<a[k], z[k]>> : k \in 1..m}
<1>0. /\ Len(s) \in Nat /\ DOMAIN s = 1 .. Len(s)
      /\ m \in Nat /\ a \in [1..m -> 1 .. Len(s)] /\ z \in [1..m -> 1 .. Len(s)]
      /\ \A k \in 1..m : a[k] <= z[k] /\ \A j \in a[k] .. z[k] : j \notin D
      /\ \A k, l \in 1..m : k < l => z[k] + 1 < a[l]
      /\ \A j \in 1 .. Len(s) : j \notin D => \E k \in 1..m : a[k] <= j /\ j <= z[k]
  BY DEF InOrder
<1>1. D \subseteq 1 .. Len(s)
  BY <1>0 DEF Delimiters
<1> HIDE DEF D
<1>2. Runs(s, delim) = {r \in starts \X lasts : r[1] <= r[2] /\ (r[1] .. r[2]) \cap D = {}}
  BY DEF Runs, D
\* Next to a run there is a delimiter or an end.
<1>3. ASSUME NEW k \in 1..m PROVE a[k] \in starts /\ z[k] \in lasts
  <2>1. a[k] \in 1 .. Len(s) \ D /\ z[k] \in 1 .. Len(s) \ D
    BY <1>0
  <2>2. a[k] # 1 => a[k] - 1 \in D
    <3> SUFFICES ASSUME a[k] # 1, a[k] - 1 \notin D PROVE FALSE
      OBVIOUS
    <3>1. a[k] - 1 \in 1 .. Len(s)
      BY <2>1
    <3>2. PICK l \in 1..m : a[l] <= a[k] - 1 /\ a[k] - 1 <= z[l]
      BY <1>0, <3>1
    <3>3. l < k => z[l] + 1 < a[k]
      BY <1>0
    <3>4. k < l => z[k] + 1 < a[l]
      BY <1>0
    <3>5. a[l] \in Int /\ z[l] \in Int /\ a[k] <= z[k] /\ z[k] \in Int /\ l \in Int /\ k \in Int
      BY <1>0
    <3> QED BY <2>1, <3>2, <3>3, <3>4, <3>5
  <2>3. z[k] # Len(s) => z[k] + 1 \in D
    <3> SUFFICES ASSUME z[k] # Len(s), z[k] + 1 \notin D PROVE FALSE
      OBVIOUS
    <3> DEFINE y == z[k]  len == Len(s)
    <3>0. y \in 1 .. len /\ len \in Nat /\ y # len
      BY <1>0, <2>1
    <3> HIDE DEF y, len
    <3>1a. y + 1 \in 1 .. len
      BY <3>0
    <3>1. z[k] + 1 \in 1 .. Len(s)
      BY <3>1a DEF y, len
    <3> USE DEF y, len
    <3>2. PICK l \in 1..m : a[l] <= z[k] + 1 /\ z[k] + 1 <= z[l]
      BY <1>0, <3>1
    <3>3. l < k => z[l] + 1 < a[k]
      BY <1>0
    <3>4. k < l => z[k] + 1 < a[l]
      BY <1>0
    <3>5. a[l] \in Int /\ z[l] \in Int /\ a[k] <= z[k] /\ a[k] \in Int /\ l \in Int /\ k \in Int
      BY <1>0
    <3> QED BY <2>1, <3>2, <3>3, <3>4, <3>5
  <2> QED BY <1>0, <2>1, <2>2, <2>3
<1>4. ASSUME NEW r \in A PROVE r \in Runs(s, delim)
  <2>1. PICK k \in 1..m : r = <<a[k], z[k]>>
    OBVIOUS
  <2>2. r \in starts \X lasts /\ r[1] = a[k] /\ r[2] = z[k]
    BY <1>3, <2>1
  <2>3. r[1] <= r[2] /\ (r[1] .. r[2]) \cap D = {}
    BY <1>0, <2>2
  <2> QED BY <1>2, <2>2, <2>3
<1>5. ASSUME NEW r \in Runs(s, delim) PROVE r \in A
  <2>1. /\ r = <<r[1], r[2]>> /\ r[1] \in starts /\ r[2] \in lasts
        /\ r[1] <= r[2] /\ (r[1] .. r[2]) \cap D = {}
    BY <1>2
  <2>2. r[1] \in 1 .. Len(s) /\ r[1] \notin D /\ (r[1] = 1 \/ r[1] - 1 \in D)
    BY <1>0, <2>1
  <2>3. r[2] \in 1 .. Len(s) /\ r[2] \notin D /\ (r[2] = Len(s) \/ r[2] + 1 \in D)
    BY <1>0, <2>1
  <2>4. PICK k \in 1..m : a[k] <= r[1] /\ r[1] <= z[k]
    BY <1>0, <2>2
  <2>5. a[k] \in 1 .. Len(s) /\ z[k] \in 1 .. Len(s)
    BY <1>0
  <2>6. r[1] = a[k]
    <3> SUFFICES ASSUME a[k] < r[1] PROVE FALSE
      BY <2>2, <2>4, <2>5
    <3>1. r[1] - 1 \in a[k] .. z[k] /\ r[1] # 1
      BY <2>2, <2>4, <2>5
    <3> QED BY <1>0, <2>2, <3>1
  <2>7. ~ (r[2] < z[k])
    <3> SUFFICES ASSUME r[2] < z[k] PROVE FALSE
      OBVIOUS
    <3>1. r[2] + 1 \in a[k] .. z[k] /\ r[2] # Len(s)
      BY <1>0, <2>1, <2>2, <2>3, <2>5, <2>6
    <3> QED BY <1>0, <2>3, <3>1
  <2>8. ~ (z[k] < r[2])
    <3> SUFFICES ASSUME z[k] < r[2] PROVE FALSE
      OBVIOUS
    <3>0. z[k] < r[2]
      OBVIOUS
    <3>1. z[k] + 1 \in r[1] .. r[2] /\ z[k] # Len(s)
      <4>1. r[1] \in Int /\ r[2] \in Int /\ z[k] \in Int /\ Len(s) \in Int /\ r[2] <= Len(s)
        BY <1>0, <2>2, <2>3, <2>5
      <4>2. r[1] <= z[k]
        BY <2>4
      <4> QED BY <3>0, <4>1, <4>2
    <3>2. z[k] + 1 \in D
      BY <1>3, <3>1
    <3> QED BY <2>1, <3>1, <3>2
  <2> QED BY <2>1, <2>3, <2>5, <2>6, <2>7, <2>8
<1> QED BY <1>4, <1>5

LEMMA SplitFinds ==
  ASSUME NEW S, NEW s \in Seq(S), NEW delim
  PROVE  Split(s, delim) =
           [k \in 1 .. Cardinality(Runs(s, delim)) |->
              SubSeq(s, Nth(Runs(s, delim), k)[1], Nth(Runs(s, delim), k)[2])]
<1> DEFINE R == Runs(s, delim)
<1>1. PICK m, a, z : InOrder(Delimiters(s, delim), Len(s), m, a, z)
  <2>1. Len(s) \in Nat
    OBVIOUS
  <2> QED BY <2>1, RunsExist, Zenon
<1>2. R = {<<a[k], z[k]>> : k \in 1..m}
  BY <1>1, RunsAreRuns
<1>3. Split(s, delim) = [k \in 1..m |-> SubSeq(s, a[k], z[k])]
  BY <1>1, SplitGivesRuns
<1>4. /\ Len(s) \in Nat /\ m \in Nat /\ a \in [1..m -> 1 .. Len(s)] /\ z \in [1..m -> 1 .. Len(s)]
      /\ \A k \in 1..m : a[k] <= z[k]
      /\ \A k, l \in 1..m : k < l => z[k] + 1 < a[l]
  BY <1>1 DEF InOrder
<1>5. \A k, l \in 1..m : k < l => a[k] < a[l]
  <2> SUFFICES ASSUME NEW k \in 1..m, NEW l \in 1..m, k < l PROVE a[k] < a[l]
    OBVIOUS
  <2>1. a[k] <= z[k] /\ z[k] + 1 < a[l] /\ a[k] \in Int /\ z[k] \in Int /\ a[l] \in Int
    BY <1>4
  <2> QED BY <2>1
<1>6. \A k, l \in 1..m : a[k] = a[l] => k = l
  <2> SUFFICES ASSUME NEW k \in 1..m, NEW l \in 1..m, a[k] = a[l], k < l PROVE FALSE
    BY <1>4
  <2>1. a[k] \in Int /\ a[k] < a[l]
    BY <1>4, <1>5
  <2> QED BY <2>1
<1> HIDE DEF R
<1>7. ASSUME NEW n \in 0..m
      PROVE  Cardinality({<<a[k], z[k]>> : k \in 1..n}) = n
  <2> DEFINE f == [k \in 1..n |-> <<a[k], z[k]>>]
             T == {<<a[k], z[k]>> : k \in 1..n}
  <2>0. n \in Nat /\ \A k \in 1..n : k \in 1..m
    BY <1>4
  <2>1. f \in [1..n -> T] /\ \A t \in T : \E j \in 1..n : f[j] = t
    OBVIOUS
  <2>2. \A i, j \in 1..n : f[i] = f[j] => i = j
    BY <1>6, <2>0
  <2> HIDE DEF f, T
  <2>3. Cardinality(T) = n
    BY <2>0, <2>1, <2>2, CountDistinct
  <2> QED BY <2>3 DEF T
<1>8. Cardinality(R) = m
  <2>1. m \in 0..m
    BY <1>4
  <2> QED BY <1>2, <1>7, <2>1
<1>9. ASSUME NEW k \in 1..m PROVE Cardinality({q \in R : q[1] < a[k]}) = k - 1
  <2>1. {q \in R : q[1] < a[k]} = {<<a[l], z[l]>> : l \in 1 .. k - 1}
    <3>1. ASSUME NEW q \in R, q[1] < a[k] PROVE \E l \in 1 .. k - 1 : q = <<a[l], z[l]>>
      <4>1. PICK l \in 1..m : q = <<a[l], z[l]>>
        BY <1>2
      <4>2. a[l] < a[k] /\ a[l] \in Int /\ a[k] \in Int
        BY <1>4, <3>1, <4>1
      <4>3. ~ (k < l) /\ k # l
        BY <1>5, <4>2
      <4>4. l \in 1 .. k - 1
        BY <1>4, <4>3
      <4> QED BY <4>1, <4>4
    <3>2. ASSUME NEW l \in 1 .. k - 1 PROVE <<a[l], z[l]>> \in R /\ <<a[l], z[l]>>[1] < a[k]
      <4>1. l \in 1..m /\ l < k
        BY <1>4
      <4> QED BY <1>2, <1>5, <4>1
    <3> QED BY <3>1, <3>2
  <2>2. k - 1 \in 0..m
    BY <1>4
  <2> QED BY <1>7, <2>1, <2>2
<1>10. ASSUME NEW k \in 1..m PROVE Nth(R, k) = <<a[k], z[k]>>
  <2>1. <<a[k], z[k]>> \in R /\ Cardinality({q \in R : q[1] < <<a[k], z[k]>>[1]}) = k - 1
    BY <1>2, <1>9
  <2>2. ASSUME NEW r \in R, Cardinality({q \in R : q[1] < r[1]}) = k - 1
        PROVE  r = <<a[k], z[k]>>
    <3>1. PICK l \in 1..m : r = <<a[l], z[l]>>
      BY <1>2
    <3>2. Cardinality({q \in R : q[1] < r[1]}) = l - 1
      BY <1>9, <3>1
    <3>3. l = k
      BY <1>4, <2>2, <3>2
    <3> QED BY <3>1, <3>3
  <2> QED BY <2>1, <2>2 DEF Nth
<1>11. ASSUME NEW k \in 1..m PROVE SubSeq(s, Nth(R, k)[1], Nth(R, k)[2]) = SubSeq(s, a[k], z[k])
  <2>1. Nth(R, k)[1] = a[k] /\ Nth(R, k)[2] = z[k]
    BY <1>10
  <2> QED BY <2>1
<1>12. Split(s, delim) = [k \in 1 .. Cardinality(R) |-> SubSeq(s, Nth(R, k)[1], Nth(R, k)[2])]
  BY <1>3, <1>8, <1>11
<1> QED BY <1>12 DEF R

-----------------------------------------------------------------------------
(***************************************************************************)
(* printf("%u") and atoi: each undoes the other.                           *)
(***************************************************************************)

Digit == {Numerals[d + 1] : d \in 0..9}

LEMMA NumeralsDiffer == \A c, d \in 0..9 : Numerals[c + 1] = Numerals[d + 1] => c = d
BY DEF Numerals

LEMMA NumeralOf == \A d \in 0..9 : Numeral[Numerals[d + 1]] = d
<1> SUFFICES ASSUME NEW d \in 0..9 PROVE Numeral[Numerals[d + 1]] = d
  OBVIOUS
<1>1. DOMAIN Numerals = 1..10
  BY DEF Numerals
<1>2. Numerals[d + 1] \in Range(Numerals)
  <2>1. d + 1 \in DOMAIN Numerals
    BY <1>1
  <2> QED BY <2>1 DEF Range
<1>3. Numeral[Numerals[d + 1]] = CHOOSE n \in 0..9 : Numerals[n + 1] = Numerals[d + 1]
  BY <1>2 DEF Numeral
<1> HIDE DEF Numerals
<1> QED BY <1>3, NumeralsDiffer

LEMMA DigitIsNumeral == Digit = Range(Numerals)
<1>1. DOMAIN Numerals = 1..10
  BY DEF Numerals
<1>2. ASSUME NEW c \in Range(Numerals) PROVE c \in Digit
  <2>1. PICK i \in 1..10 : c = Numerals[i]
    BY <1>1 DEF Range
  <2>2. i - 1 \in 0..9 /\ (i - 1) + 1 = i
    OBVIOUS
  <2> QED BY <2>1, <2>2 DEF Digit
<1>3. ASSUME NEW c \in Digit PROVE c \in Range(Numerals)
  <2>1. PICK d \in 0..9 : c = Numerals[d + 1]
    BY DEF Digit
  <2>2. d + 1 \in DOMAIN Numerals
    BY <1>1
  <2> QED BY <2>1, <2>2 DEF Range
<1> QED BY <1>2, <1>3

LEMMA DigitsAreChars == Digit \subseteq Char
BY DigitIsNumeral, CharAssumption

\* A number, its last digit and the rest of it.
LEMMA TenTimes ==
  ASSUME NEW n \in Nat
  PROVE  /\ n \div 10 \in Nat /\ n % 10 \in 0..9 /\ n = (10 * (n \div 10)) + (n % 10)
         /\ n \div 10 <= n
         /\ n >= 10 => n \div 10 < n
         /\ n < 10 => n % 10 = n
         /\ n < 100 => n \div 10 < 10
         /\ n < 1000 => n \div 10 < 100
         /\ n < 10000 => n \div 10 < 1000
OBVIOUS

LEMMA Tenth ==
  ASSUME NEW n \in 0..INVALID_CODE
  PROVE  /\ n \in Nat /\ n \div 10 \in 0..INVALID_CODE
         /\ n % 10 \in 0..9 /\ n = (10 * (n \div 10)) + (n % 10)
         /\ n >= 10 => n \div 10 < n
         /\ n < 10 => n % 10 = n
         /\ n < 100 => n \div 10 < 10
         /\ n < 1000 => n \div 10 < 100
         /\ n < 10000 => n \div 10 < 1000
<1>1. n \in Nat /\ n <= INVALID_CODE /\ INVALID_CODE \in Nat
  BY DEF INVALID_CODE
<1> DEFINE h == n \div 10
<1>2. h \in Nat /\ h <= n
  BY <1>1, TenTimes
<1> HIDE DEF h
<1>3. h \in 0..INVALID_CODE
  BY <1>1, <1>2
<1> QED BY <1>1, <1>3, TenTimes DEF h

Tens == [n \in 0..INVALID_CODE |-> n \div 10]
Units == {n \in 0..INVALID_CODE : n < 10}
Values == [n \in 0..INVALID_CODE |-> n]

LEMMA TensDescend == Descends(0..INVALID_CODE, Values, Units, Tens)
<1> DEFINE E == 0..INVALID_CODE
<1>1. Values \in [E -> Nat] /\ Tens \in [E -> E]
  BY Tenth DEF Values, Tens
<1>2. ASSUME NEW n \in E \ Units PROVE Values[Tens[n]] < Values[n]
  <2>1. n \in Nat /\ ~(n < 10) /\ n \div 10 \in E
    BY Tenth DEF Units
  <2>2. n \div 10 < n
    BY <2>1, Tenth
  <2> QED BY <2>1, <2>2 DEF Values, Tens
<1> QED BY <1>1, <1>2 DEF Descends
LEMMA DigitsEquation ==
  /\ Digits \in [0..INVALID_CODE -> Seq(Digit)]
  /\ \A n \in 0..INVALID_CODE :
       Digits[n] = IF n < 10 THEN <<Numerals[n + 1]>>
                   ELSE Append(Digits[n \div 10], Numerals[(n % 10) + 1])
<1> DEFINE E == 0..INVALID_CODE
           X == Seq(Digit)
           rank == [n \in E |-> n]
           stop == {n \in E : n < 10}
           pred == [n \in E |-> n \div 10]
           base == [n \in E |-> <<Numerals[(n % 10) + 1]>>]
           step == [n \in E |-> [x \in X |-> Append(x, Numerals[(n % 10) + 1])]]
           Body(g) == [n \in E |-> IF n < 10 THEN <<Numerals[n + 1]>>
                                   ELSE Append(g[n \div 10], Numerals[(n % 10) + 1])]
<1>0. \A n \in E : n \in Nat
  BY Tenth
<1>1. ASSUME NEW n \in E
      PROVE  n \div 10 \in E /\ n % 10 \in 0..9 /\ (n < 10 => n % 10 = n)
  BY Tenth
<1>2. Descends(E, rank, stop, pred)
  BY TensDescend DEF Values, Units, Tens
<1>3. \A n \in E : Numerals[(n % 10) + 1] \in Digit
  BY <1>1 DEF Digit
<1>4. base \in [E -> X] /\ step \in [E -> [X -> X]]
  <2> HIDE DEF E
  <2> QED BY <1>3
<1>5. PICK f \in [E -> X] : \A n \in E : f[n] = IF n \in stop THEN base[n] ELSE step[n][f[pred[n]]]
  <2> HIDE DEF E, X, rank, stop, pred, base, step
  <2>1. \E f \in [E -> X] : Solves(f, E, stop, pred, base, step)
    BY <1>2, <1>4, Recursion
  <2> QED BY <2>1 DEF Solves
<1>6. ASSUME NEW n \in E
      PROVE  f[n] = IF n < 10 THEN <<Numerals[n + 1]>>
                    ELSE Append(f[n \div 10], Numerals[(n % 10) + 1])
  <2>1. CASE n < 10
    BY <1>1, <1>5, <2>1
  <2>2. CASE ~ (n < 10)
    <3>1. f[n \div 10] \in X
      BY <1>1
    <3> HIDE DEF X, E
    <3> QED BY <1>5, <2>2, <3>1
  <2> QED BY <2>1, <2>2
<1>7. f = Body(f)
  <2> HIDE DEF E, X
  <2> QED BY <1>5, <1>6
<1>8. Digits = CHOOSE g : g = Body(g)
  BY DEF Digits
<1>9. Digits = Body(Digits)
  <2> HIDE DEF Body
  <2> QED BY <1>7, <1>8
<1> DEFINE d == Digits
<1>10. d = Body(d)
  BY <1>9
<1> HIDE DEF d
<1>11. \A n \in E : d[n] = IF n < 10 THEN <<Numerals[n + 1]>>
                           ELSE Append(d[n \div 10], Numerals[(n % 10) + 1])
  <2> HIDE DEF E
  <2> QED BY <1>10
<1>12. E \subseteq {n \in E : d[n] \in X}
  <2> DEFINE T == {n \in E : d[n] \in X}
  <2>1. Inherited(E, stop, pred, T)
    <3> SUFFICES ASSUME NEW n \in E, n \in stop \/ pred[n] \in T PROVE d[n] \in X
      BY DEF Inherited
    <3>1. CASE n \in stop
      <4>1. n \in 0..9
        BY <1>0, <3>1
      <4>2. d[n] = <<Numerals[n + 1]>> /\ Numerals[n + 1] \in Digit
        BY <1>11, <3>1, <4>1 DEF Digit
      <4> QED BY <4>2
    <3>2. CASE n \notin stop /\ pred[n] \in T
      <4>1. d[n \div 10] \in X
        BY <3>2
      <4>2. d[n] = Append(d[n \div 10], Numerals[(n % 10) + 1]) /\ Numerals[(n % 10) + 1] \in Digit
        BY <1>3, <1>11, <3>2
      <4> QED BY <4>1, <4>2
    <3> QED BY <3>1, <3>2
  <2> HIDE DEF T, E, rank, stop, pred
  <2>2. E \subseteq T
    BY <1>2, <2>1, RankInduction
  <2> QED BY <2>2 DEF T
<1>13. d \in [E -> X]
  <2> HIDE DEF E, X
  <2> QED BY <1>10, <1>12
<1> QED BY <1>11, <1>13 DEF d

\* printf("%u") writes at most as many digits as the number has.
LEMMA DigitsLength ==
  ASSUME NEW n \in 0..INVALID_CODE
  PROVE  /\ Digits[n] \in Seq(Digit) /\ Len(Digits[n]) \in Nat \ {0}
         /\ n < 1000 => Len(Digits[n]) <= 3
         /\ n < 10000 => Len(Digits[n]) <= 4
<1> DEFINE E == 0..INVALID_CODE
<1>1. \A k \in E : Digits[k] \in Seq(Digit)
  BY DigitsEquation
<1>2. ASSUME NEW k \in E, k < 10 PROVE Len(Digits[k]) = 1
  BY <1>2, DigitsEquation
<1>3. ASSUME NEW k \in E, ~ (k < 10)
      PROVE  k \div 10 \in E /\ Len(Digits[k]) = Len(Digits[k \div 10]) + 1
  <2>1. k \div 10 \in E
    BY Tenth
  <2>2. Digits[k] = Append(Digits[k \div 10], Numerals[(k % 10) + 1])
    BY <1>3, DigitsEquation
  <2> QED BY <1>1, <2>1, <2>2
<1>0. \A k \in E : k \div 10 \in E /\ (k < 100 => k \div 10 < 10)
               /\ (k < 1000 => k \div 10 < 100) /\ (k < 10000 => k \div 10 < 1000)
  BY Tenth
<1> HIDE DEF E
<1>4. ASSUME NEW k \in E, k < 100 PROVE Len(Digits[k]) <= 2
  <2>1. k \div 10 < 10 /\ k \div 10 \in E
    BY <1>0, <1>4
  <2>2. CASE k < 10
    <3>1. Len(Digits[k]) = 1
      BY <1>2, <2>2
    <3> QED BY <3>1
  <2>3. CASE ~ (k < 10)
    <3>1. Len(Digits[k \div 10]) = 1
      BY <1>2, <2>1
    <3>2. Len(Digits[k]) = Len(Digits[k \div 10]) + 1
      BY <1>3, <2>3
    <3> QED BY <3>1, <3>2
  <2> QED BY <2>2, <2>3
<1>5. ASSUME NEW k \in E, k < 1000 PROVE Len(Digits[k]) <= 3
  <2>1. k \div 10 < 100
    BY <1>0, <1>5
  <2>2. CASE k < 10
    <3>1. Len(Digits[k]) = 1
      BY <1>2, <2>2
    <3> QED BY <3>1
  <2>3. CASE ~ (k < 10)
    <3>1. Len(Digits[k \div 10]) <= 2 /\ Len(Digits[k \div 10]) \in Nat
      BY <1>1, <1>3, <1>4, <2>1, <2>3
    <3> QED BY <1>3, <2>3, <3>1
  <2> QED BY <2>2, <2>3
<1>6. ASSUME NEW k \in E, k < 10000 PROVE Len(Digits[k]) <= 4
  <2>1. k \div 10 < 1000
    BY <1>0, <1>6
  <2>2. CASE k < 10
    <3>1. Len(Digits[k]) = 1
      BY <1>2, <2>2
    <3> QED BY <3>1
  <2>3. CASE ~ (k < 10)
    <3>1. Len(Digits[k \div 10]) <= 3 /\ Len(Digits[k \div 10]) \in Nat
      BY <1>1, <1>3, <1>5, <2>1, <2>3
    <3> QED BY <1>3, <2>3, <3>1
  <2> QED BY <2>2, <2>3
<1>7. Len(Digits[n]) # 0
  <2>1. CASE n < 10
    BY <1>2, <2>1 DEF E
  <2>2. CASE ~ (n < 10)
    <3>1. n \in E /\ Len(Digits[n \div 10]) \in Nat
      BY <1>1, <1>3, <2>2 DEF E
    <3> QED BY <1>3, <2>2, <3>1
  <2> QED BY <2>1, <2>2
<1>8. Len(Digits[n]) \in Nat
  BY <1>1 DEF E
<1> QED BY <1>1, <1>5, <1>6, <1>7, <1>8 DEF E

\* The number that the first i characters of s make.
Numbers(s, e) ==
  CHOOSE g : g = [i \in 0..e |-> IF i = 0 THEN 0 ELSE (10 * g[i - 1]) + Numeral[s[i]]]

LEMMA NumbersEquation ==
  ASSUME NEW s, NEW e \in Nat, \A i \in 1..e : s[i] \in Digit
  PROVE  /\ Numbers(s, e)[0] = 0
         /\ \A i \in 1..e : Numbers(s, e)[i] = (10 * Numbers(s, e)[i - 1]) + Numeral[s[i]]
<1> DEFINE E == 0..e
           rank == [i \in E |-> i]
           stop == {0}
           pred == [i \in E |-> IF i = 0 THEN 0 ELSE i - 1]
           base == [i \in E |-> 0]
           step == [i \in E |-> [x \in Nat |-> IF i = 0 THEN 0 ELSE (10 * x) + Numeral[s[i]]]]
           Body(g) == [i \in E |-> IF i = 0 THEN 0 ELSE (10 * g[i - 1]) + Numeral[s[i]]]
<1>1. \A i \in 1..e : Numeral[s[i]] \in Nat
  <2> SUFFICES ASSUME NEW i \in 1..e PROVE Numeral[s[i]] \in Nat
    OBVIOUS
  <2>1. PICK d \in 0..9 : s[i] = Numerals[d + 1]
    BY DEF Digit
  <2>2. Numeral[s[i]] = d
    BY <2>1, NumeralOf
  <2> QED BY <2>2
<1>2. Descends(E, rank, stop, pred)
  <2>1. rank \in [E -> Nat] /\ pred \in [E -> E]
    OBVIOUS
  <2>2. \A i \in E \ stop : rank[pred[i]] < rank[i]
    OBVIOUS
  <2> HIDE DEF E, rank, stop, pred
  <2> QED BY <2>1, <2>2 DEF Descends
<1>3. base \in [E -> Nat] /\ step \in [E -> [Nat -> Nat]]
  <2>1. base \in [E -> Nat]
    OBVIOUS
  <2>2. ASSUME NEW i \in E, NEW x \in Nat, i # 0 PROVE (10 * x) + Numeral[s[i]] \in Nat
    <3>1. Numeral[s[i]] \in Nat
      BY <1>1, <2>2
    <3> QED BY <3>1
  <2>3. step \in [E -> [Nat -> Nat]]
    <3> HIDE DEF E
    <3> QED BY <2>2
  <2> QED BY <2>1, <2>3
<1>4. PICK f \in [E -> Nat] : \A i \in E : f[i] = IF i \in stop THEN base[i] ELSE step[i][f[pred[i]]]
  <2> HIDE DEF E, rank, stop, pred, base, step
  <2>1. \E f \in [E -> Nat] : Solves(f, E, stop, pred, base, step)
    BY <1>2, <1>3, Recursion
  <2> QED BY <2>1 DEF Solves
<1>5. ASSUME NEW i \in E PROVE f[i] = IF i = 0 THEN 0 ELSE (10 * f[i - 1]) + Numeral[s[i]]
  <2>1. CASE i = 0
    BY <1>4, <2>1
  <2>2. CASE i # 0
    <3>0. i - 1 \in E /\ pred[i] = i - 1 /\ i \notin stop
      BY <2>2
    <3>1. f[i] = step[i][f[pred[i]]] /\ f[i - 1] \in Nat
      <4> HIDE DEF E, pred, stop, step, base
      <4> QED BY <1>4, <3>0
    <3>2. step[i][f[i - 1]] = (10 * f[i - 1]) + Numeral[s[i]]
      BY <2>2, <3>1
    <3> HIDE DEF E, pred, stop, step, base
    <3> QED BY <2>2, <3>0, <3>1, <3>2
  <2> QED BY <2>1, <2>2
<1>6. f = Body(f)
  <2> HIDE DEF E
  <2> QED BY <1>4, <1>5
<1> DEFINE d == Numbers(s, e)
<1>7. d = CHOOSE g : g = Body(g)
  BY DEF Numbers
<1>8. d = Body(d)
  <2> HIDE DEF Body, d
  <2> QED BY <1>6, <1>7
<1> HIDE DEF d
<1>9. \A i \in E : d[i] = IF i = 0 THEN 0 ELSE (10 * d[i - 1]) + Numeral[s[i]]
  <2> HIDE DEF E
  <2> QED BY <1>8
<1>10. d[0] = 0
  BY <1>9
<1>11. \A i \in 1..e : d[i] = (10 * d[i - 1]) + Numeral[s[i]]
  BY <1>9
<1> QED BY <1>10, <1>11 DEF d

\* atoi reads what printf has written, up to something that is no digit.
LEMMA AtoiReads ==
  ASSUME NEW s, Len(s) \in Nat, DOMAIN s = 1 .. Len(s), NEW n \in 0..INVALID_CODE,
         Len(Digits[n]) <= Len(s),
         \A i \in 1 .. Len(Digits[n]) : s[i] = Digits[n][i],
         Len(Digits[n]) < Len(s) => s[Len(Digits[n]) + 1] \notin Digit
  PROVE  Atoi(s) = n
<1> DEFINE e == Len(Digits[n])
           P == {k \in DOMAIN s : s[k] \notin Range(Numerals)}
           E == 0..INVALID_CODE
<1>0. e \in Nat /\ Digits[n] \in Seq(Digit)
  BY DigitsLength
<1>1. \A i \in 1..e : s[i] \in Digit
  BY <1>0
<1>2. FindFirst(s, P, 1) = e + 1
  <2>1. P \subseteq 1 .. Len(s)
    OBVIOUS
  <2> DEFINE j == FindFirst(s, P, 1)
  <2>2. /\ j \in P \cup {Len(s) + 1}
        /\ \A k \in P : k >= 1 => j <= k
        /\ j <= Len(s) + 1
    <3> HIDE DEF P
    <3> QED BY <2>1, FirstFound
  <2>3. \A k \in P : k \notin 1..e
    BY <1>1, DigitIsNumeral
  <2>4. e < Len(s) => e + 1 \in P
    BY <1>0, DigitIsNumeral
  <2> HIDE DEF j, P, e
  <2>5. j \in 1 .. Len(s) + 1 /\ j \notin 1..e
    <3>1. CASE j \in P
      BY <2>1, <2>3, <3>1
    <3>2. CASE j = Len(s) + 1
      BY <1>0, <3>2 DEF e
    <3> QED BY <2>2, <3>1, <3>2
  <2>6. j <= e + 1
    <3>1. CASE e < Len(s)
      BY <1>0, <2>2, <2>4, <3>1
    <3>2. CASE e = Len(s)
      BY <2>2, <3>2
    <3> QED BY <1>0, <3>1, <3>2 DEF e
  <2> QED BY <1>0, <2>5, <2>6 DEF j
<1>3. Atoi(s) = Numbers(s, e)[e]
  <2>1. (e + 1) - 1 = e
    BY <1>0
  <2> HIDE DEF e
  <2> QED BY <1>2, <2>1 DEF Atoi, Numbers
<1> DEFINE g == Numbers(s, e)
<1>4. g[0] = 0 /\ \A i \in 1..e : g[i] = (10 * g[i - 1]) + Numeral[s[i]]
  <2> HIDE DEF e
  <2> QED BY <1>0, <1>1, NumbersEquation
<1> HIDE DEF g
\* The digits of a number begin with those of its tenth.
<1> DEFINE Made(k) == (/\ Len(Digits[k]) <= e
                       /\ \A i \in 1 .. Len(Digits[k]) : s[i] = Digits[k][i])
                        => g[Len(Digits[k])] = k
           T == {k \in E : Made(k)}
           rank == [k \in E |-> k]
           stop == {k \in E : k < 10}
           pred == [k \in E |-> k \div 10]
<1>5. Descends(E, rank, stop, pred)
  BY TensDescend DEF Values, Units, Tens
<1>6. ASSUME NEW k \in E, k < 10 PROVE Made(k)
  <2> SUFFICES ASSUME Len(Digits[k]) <= e, \A i \in 1 .. Len(Digits[k]) : s[i] = Digits[k][i]
               PROVE  g[Len(Digits[k])] = k
    OBVIOUS
  <2>1. k \in 0..9 /\ Digits[k] = <<Numerals[k + 1]>>
    BY <1>6, DigitsEquation
  <2>2. Len(Digits[k]) = 1 /\ s[1] = Numerals[k + 1] /\ 1 \in 1..e
    BY <1>0, <2>1
  <2>3. g[1] = (10 * g[1 - 1]) + Numeral[s[1]]
    BY <1>4, <2>2
  <2>4. Numeral[s[1]] = k
    BY <2>1, <2>2, NumeralOf
  <2> QED BY <1>4, <2>2, <2>3, <2>4
<1>7. ASSUME NEW k \in E, ~ (k < 10), Made(k \div 10) PROVE Made(k)
  <2> SUFFICES ASSUME Len(Digits[k]) <= e, \A i \in 1 .. Len(Digits[k]) : s[i] = Digits[k][i]
               PROVE  g[Len(Digits[k])] = k
    OBVIOUS
  <2> DEFINE h == k \div 10
             u == k % 10
             l == Len(Digits[h])
  <2>1. k \in Nat /\ h \in E /\ u \in 0..9
    BY Tenth
  <2>2. k = (10 * h) + u
    BY Tenth
  <2>3. Digits[k] = Append(Digits[h], Numerals[u + 1])
    BY <1>7, DigitsEquation
  <2>4. Digits[h] \in Seq(Digit) /\ l \in Nat /\ l # 0
    BY <2>1, DigitsLength
  <2> HIDE DEF h, u
  <2>5. Len(Digits[k]) = l + 1 /\ Digits[k][l + 1] = Numerals[u + 1]
        /\ \A i \in 1..l : Digits[k][i] = Digits[h][i]
    BY <2>3, <2>4
  <2>6. l <= e /\ \A i \in 1..l : s[i] = Digits[h][i]
    BY <1>0, <2>4, <2>5
  <2>7. g[l] = h
    BY <1>7, <2>6 DEF h
  <2>8. l + 1 \in 1..e /\ (l + 1) - 1 = l /\ l + 1 \in 1 .. Len(Digits[k])
    BY <1>0, <2>4, <2>5
  <2>9. s[l + 1] = Numerals[u + 1]
    BY <2>5, <2>8
  <2>10. g[l + 1] = (10 * g[l]) + Numeral[s[l + 1]]
    BY <1>4, <2>8
  <2>11. Numeral[s[l + 1]] = u
    BY <2>1, <2>9, NumeralOf
  <2> QED BY <2>2, <2>5, <2>7, <2>10, <2>11
<1>8. Inherited(E, stop, pred, T)
  <2> SUFFICES ASSUME NEW k \in E, k \in stop \/ pred[k] \in T PROVE Made(k)
    <3> HIDE DEF Made, stop, pred, E
    <3> QED BY DEF Inherited
  <2>1. CASE k < 10
    BY <1>6, <2>1
  <2>2. CASE ~ (k < 10)
    <3> HIDE DEF Made, E
    <3>1. Made(k \div 10)
      BY <2>2
    <3> QED BY <1>7, <2>2, <3>1
  <2> QED BY <2>1, <2>2
<1>9. E \subseteq T
  <2> HIDE DEF E, T, rank, stop, pred
  <2> QED BY <1>5, <1>8, RankInduction
<1>10. Made(n)
  <2> HIDE DEF Made
  <2> QED BY <1>9
<1> QED BY <1>0, <1>3, <1>10 DEF g

-----------------------------------------------------------------------------
(***************************************************************************)
(* Concatenation: FlattenSeq puts each of the sequences behind those before. *)
(***************************************************************************)

Chained(S, n, q, w) ==
  /\ n \in Nat /\ q \in [1..n -> Seq(S)] /\ w \in [0..n -> Seq(S)]
  /\ w[0] = <<>>
  /\ \A i \in 1..n : w[i] = w[i - 1] \o q[i]

LEMMA ChainExists ==
  ASSUME NEW S, NEW n \in Nat, NEW q \in [1..n -> Seq(S)]
  PROVE  \E w : Chained(S, n, q, w)
<1> DEFINE E == 0..n
           X == Seq(S)
           rank == [i \in E |-> i]
           stop == {0}
           pred == [i \in E |-> IF i = 0 THEN 0 ELSE i - 1]
           base == [i \in E |-> <<>>]
           step == [i \in E |-> [x \in X |-> IF i = 0 THEN <<>> ELSE x \o q[i]]]
<1>1. Descends(E, rank, stop, pred)
  <2>1. rank \in [E -> Nat] /\ pred \in [E -> E]
    OBVIOUS
  <2>2. \A i \in E \ stop : rank[pred[i]] < rank[i]
    OBVIOUS
  <2> HIDE DEF E, rank, stop, pred
  <2> QED BY <2>1, <2>2 DEF Descends
<1>2. base \in [E -> X]
  OBVIOUS
<1>3. step \in [E -> [X -> X]]
  <2>1. ASSUME NEW i \in E, NEW x \in X, i # 0 PROVE x \o q[i] \in X
    <3>1. q[i] \in Seq(S)
      BY <2>1
    <3> QED BY <3>1
  <2>2. <<>> \in X
    OBVIOUS
  <2> HIDE DEF E, X
  <2> QED BY <2>1, <2>2
<1>4. PICK w \in [E -> X] : \A i \in E : w[i] = IF i \in stop THEN base[i] ELSE step[i][w[pred[i]]]
  <2> HIDE DEF E, X, rank, stop, pred, base, step
  <2>1. \E w \in [E -> X] : Solves(w, E, stop, pred, base, step)
    BY <1>1, <1>2, <1>3, Recursion
  <2> QED BY <2>1 DEF Solves
<1>5. w[0] = <<>>
  <2>1. 0 \in E /\ 0 \in stop /\ base[0] = <<>>
    OBVIOUS
  <2> HIDE DEF E, X, stop, pred, base, step
  <2> QED BY <1>4, <2>1
<1>6. ASSUME NEW i \in 1..n PROVE w[i] = w[i - 1] \o q[i]
  <2>1. i \in E /\ i - 1 \in E /\ pred[i] = i - 1 /\ i \notin stop /\ i # 0
    OBVIOUS
  <2>2. w[i - 1] \in X
    <3> HIDE DEF E, X
    <3> QED BY <1>4, <2>1
  <2>3. w[i] = step[i][w[i - 1]]
    <3> HIDE DEF E, X, step, pred, stop, base
    <3> QED BY <1>4, <2>1
  <2> HIDE DEF E, X
  <2> QED BY <2>1, <2>2, <2>3
<1> QED BY <1>4, <1>5, <1>6 DEF Chained

Upto(q, l) == [k \in 1..l |-> q[k]]

LEMMA FlattenChain ==
  ASSUME NEW S, NEW n, NEW q, NEW w, Chained(S, n, q, w),
         NEW l \in 0..n
  PROVE  FlattenSeq(Upto(q, l)) = w[l]
<1> DEFINE p == [k \in 1..l |-> q[k]]
           Body(g) == [i \in 1..l |-> IF i = 1 THEN p[i] ELSE g[i - 1] \o p[i]]
           d == CHOOSE g : g = Body(g)
<1>s. n \in Nat /\ q \in [1..n -> Seq(S)] /\ w \in [0..n -> Seq(S)]
  BY DEF Chained
<1>0. p \in Seq(Seq(S)) /\ Len(p) = l /\ l \in Nat
  BY <1>s
<1>1. FlattenSeq(p) = IF l = 0 THEN p ELSE d[l]
  <2> HIDE DEF p
  <2> QED BY <1>0 DEF FlattenSeq
<1>2. w[0] = <<>> /\ \A i \in 1..l : w[i] = w[i - 1] \o q[i]
  <2>1. \A i \in 1..l : i \in 1..n
    BY <1>0, <1>s
  <2> QED BY <2>1 DEF Chained
<1> DEFINE v == [i \in 1..l |-> w[i]]
<1>3. ASSUME NEW i \in 1..l PROVE w[i] = IF i = 1 THEN p[i] ELSE v[i - 1] \o p[i]
  <2>0. i \in 1..n
    BY <1>0, <1>s
  <2>1. w[i] = w[i - 1] \o q[i] /\ q[i] \in Seq(S) /\ p[i] = q[i]
    BY <1>s, <1>2, <2>0
  <2>2. CASE i = 1
    <3>1. i - 1 = 0
      BY <2>2
    <3>2. w[i] = <<>> \o q[i]
      BY <1>2, <2>1, <3>1
    <3>3. \A x \in Seq(S) : <<>> \o x = x
      OBVIOUS
    <3> QED BY <2>1, <2>2, <3>2, <3>3
  <2>3. CASE i # 1
    <3>1. i - 1 \in 1..l
      BY <1>0, <2>3
    <3> QED BY <2>1, <2>3, <3>1
  <2> QED BY <2>2, <2>3
<1>4. v = Body(v)
  <2> HIDE DEF p
  <2> QED BY <1>3
<1>5. d = Body(d)
  <2> HIDE DEF Body, v
  <2> QED BY <1>4
<1> HIDE DEF d
<1>6. \A i \in 1..l : d[i] = IF i = 1 THEN p[i] ELSE d[i - 1] \o p[i]
  BY <1>5
<1> DEFINE T == {k \in Nat : k \in 1..l => d[k] = w[k]}
<1>7. 0 \in T
  OBVIOUS
<1>8. ASSUME NEW k \in Nat, k \in T PROVE k + 1 \in T
  <2> SUFFICES ASSUME k + 1 \in 1..l PROVE d[k + 1] = w[k + 1]
    OBVIOUS
  <2>1. (k + 1) - 1 = k
    OBVIOUS
  <2>2. w[k + 1] = IF k + 1 = 1 THEN p[k + 1] ELSE v[k] \o p[k + 1]
    BY <1>3, <2>1
  <2>3. d[k + 1] = IF k + 1 = 1 THEN p[k + 1] ELSE d[k] \o p[k + 1]
    BY <1>6, <2>1
  <2>4. k + 1 # 1 => k \in 1..l /\ d[k] = w[k] /\ v[k] = w[k]
    BY <1>8
  <2> HIDE DEF p, v, T
  <2> QED BY <2>2, <2>3, <2>4
<1>9. Nat \subseteq T
  <2> HIDE DEF T
  <2> QED BY <1>7, <1>8, Induction
<1>10. l # 0 => d[l] = w[l]
  <2>1. l \in T
    BY <1>0, <1>9
  <2> QED BY <1>0, <2>1
<1>11. l = 0 => p = <<>>
  OBVIOUS
<1> QED BY <1>1, <1>2, <1>10, <1>11 DEF Upto

LEMMA Joined ==
  ASSUME NEW S, NEW x \in Seq(S), NEW y \in Seq(S)
  PROVE  /\ x \o y \in Seq(S) /\ Len(x) \in Nat /\ Len(y) \in Nat
         /\ Len(x \o y) = Len(x) + Len(y)
OBVIOUS

LEMMA JoinedFirst ==
  ASSUME NEW S, NEW x \in Seq(S), NEW y \in Seq(S), NEW k \in 1 .. Len(x)
  PROVE  (x \o y)[k] = x[k]
OBVIOUS

\* Each packet's bytes lie behind those of the packets before.
LEMMA ChainPrefixes ==
  ASSUME NEW S, NEW n, NEW q, NEW w, Chained(S, n, q, w),
         NEW i \in 0..n, NEW l \in i..n
  PROVE  /\ Len(w[i]) <= Len(w[l])
         /\ \A k \in 1 .. Len(w[i]) : w[l][k] = w[i][k]
<1> DEFINE Prefix(j) == /\ Len(w[i]) <= Len(w[j])
                        /\ \A k \in 1 .. Len(w[i]) : w[j][k] = w[i][k]
           T == {t \in Nat : i + t <= n => Prefix(i + t)}
<1>s. n \in Nat /\ q \in [1..n -> Seq(S)] /\ w \in [0..n -> Seq(S)]
  BY DEF Chained
<1>1. \A j \in 0..n : w[j] \in Seq(S) /\ Len(w[j]) \in Nat
  BY <1>s
<1>2. 0 \in T
  <2>1. i + 0 = i /\ Len(w[i]) <= Len(w[i])
    BY <1>1
  <2> QED BY <2>1
<1>3. ASSUME NEW t \in Nat, t \in T PROVE t + 1 \in T
  <2> SUFFICES ASSUME i + (t + 1) <= n PROVE Prefix(i + (t + 1))
    OBVIOUS
  <2> DEFINE j == i + t
  <2>1. j \in 0..n /\ j + 1 \in 1..n /\ (j + 1) - 1 = j /\ i + (t + 1) = j + 1
    BY <1>s
  <2>2. Prefix(j)
    BY <1>3, <2>1
  <2>3. w[j + 1] = w[j] \o q[j + 1] /\ q[j + 1] \in Seq(S)
    BY <1>s, <2>1 DEF Chained
  <2> HIDE DEF j
  <2>t. w[j] \in Seq(S) /\ Len(w[j]) \in Nat /\ Len(w[i]) \in Nat
    BY <1>1, <2>1
  <2>4. Len(w[j + 1]) = Len(w[j]) + Len(q[j + 1]) /\ Len(q[j + 1]) \in Nat
    BY <2>t, <2>3, Joined
  <2>5. Len(w[i]) <= Len(w[j])
    BY <2>2
  <2>6. Len(w[i]) <= Len(w[j + 1])
    <3> DEFINE A == Len(w[i])  B == Len(w[j])  C == Len(w[j + 1])  F == Len(q[j + 1])
    <3>1. A \in Nat /\ B \in Nat /\ F \in Nat /\ C = B + F /\ A <= B
      BY <2>t, <2>4, <2>5
    <3> HIDE DEF A, B, C, F
    <3>2. A <= C
      BY <3>1
    <3> QED BY <3>2 DEF A, C
  <2>7. ASSUME NEW k \in 1 .. Len(w[i]) PROVE w[j + 1][k] = w[i][k]
    <3>1. k \in 1 .. Len(w[j])
      BY <1>1, <2>1, <2>2
    <3> DEFINE x == w[j]  y == q[j + 1]
    <3>a. x \in Seq(S) /\ y \in Seq(S) /\ k \in 1 .. Len(x) /\ w[j + 1] = x \o y
      BY <2>t, <2>3, <3>1
    <3> HIDE DEF x, y
    <3>b. (x \o y)[k] = x[k]
      BY <3>a, JoinedFirst
    <3>2. w[j + 1][k] = w[j][k]
      BY <3>a, <3>b DEF x
    <3> QED BY <2>2, <3>2
  <2> QED BY <2>1, <2>6, <2>7
<1>4. Nat \subseteq T
  <2> HIDE DEF T
  <2> QED BY <1>2, <1>3, Induction
<1>5. ASSUME NEW j \in i..n PROVE Prefix(j)
  <2>0. j - i \in Nat /\ i + (j - i) = j /\ j <= n
    BY <1>s
  <2>1. j - i \in T
    <3> HIDE DEF T
    <3> QED BY <1>4, <2>0
  <2> HIDE DEF Prefix
  <2> QED BY <2>0, <2>1
<1>6. Prefix(l)
  <2> HIDE DEF Prefix
  <2> QED BY <1>5
<1> QED BY <1>6

-----------------------------------------------------------------------------
(***************************************************************************)
(* class ChatPacket: where ToString puts the fields and their delimiters.  *)
(***************************************************************************)

Byte      == Char \cup {TICK, NEWLINE}
Fields(p) == <<Digits[p.code], p.user, p.msg,
               Digits[p.rgb[1]], Digits[p.rgb[2]], Digits[p.rgb[3]]>>
Mark(j)   == IF j = 6 THEN NEWLINE ELSE TICK

\* e[j] is the place of the delimiter after the j-th field.
Ends(q, e) ==
  /\ e \in [0..6 -> Nat]
  /\ e[0] = 0
  /\ \A j \in 1..6 : q[j] \in Field /\ e[j] = e[j - 1] + Len(q[j]) + 1

\* x is the first n of the fields of q, each with its delimiter.
Holds(x, q, e, n) ==
  /\ x \in Seq(Byte)
  /\ Len(x) = e[n]
  /\ \A j \in 1..n : /\ \A k \in 1 .. Len(q[j]) : x[e[j - 1] + k] = q[j][k]
                     /\ x[e[j]] = Mark(j)

LEMMA FieldIsText ==
  \A s \in Field : s \in Seq(Char) /\ s \in Seq(Byte) /\ Len(s) \in Nat /\ Len(s) # 0
BY DEF Field, Byte

LEMMA CodeFits == ASSUME NEW n \in Code PROVE n \in 0..INVALID_CODE /\ n < 10000
<1>1. INVALID_CODE \in Nat /\ 9999 <= INVALID_CODE
  BY DEF INVALID_CODE
<1> QED BY <1>1 DEF Code

LEMMA ColourFits == ASSUME NEW n \in Colour PROVE n \in 0..INVALID_CODE /\ n < 1000
<1>1. INVALID_CODE \in Nat /\ 9999 <= INVALID_CODE
  BY DEF INVALID_CODE
<1> QED BY <1>1 DEF Colour

LEMMA FieldsAreFields == \A p \in Packet : \A j \in 1..6 : Fields(p)[j] \in Field
<1> SUFFICES ASSUME NEW p \in Packet, NEW j \in 1..6 PROVE Fields(p)[j] \in Field
  OBVIOUS
<1>1. ASSUME NEW n \in 0..INVALID_CODE PROVE Digits[n] \in Field
  <2>1. Digits[n] \in Seq(Digit) /\ Len(Digits[n]) # 0
    BY DigitsLength
  <2>2. Digits[n] \in Seq(Char)
    BY <2>1, DigitsAreChars
  <2> QED BY <2>1, <2>2 DEF Field
<1>2. p.code \in Code /\ p.user \in Field /\ p.msg \in Field
      /\ p.rgb[1] \in Colour /\ p.rgb[2] \in Colour /\ p.rgb[3] \in Colour
  BY DEF Packet
<1>4. /\ Digits[p.code] \in Field /\ Digits[p.rgb[1]] \in Field
      /\ Digits[p.rgb[2]] \in Field /\ Digits[p.rgb[3]] \in Field
  <2>1. /\ p.code \in 0..INVALID_CODE /\ p.rgb[1] \in 0..INVALID_CODE
        /\ p.rgb[2] \in 0..INVALID_CODE /\ p.rgb[3] \in 0..INVALID_CODE
    BY <1>2, CodeFits, ColourFits
  <2> QED BY <1>1, <2>1
<1> HIDE DEF Field
<1> QED BY <1>2, <1>4 DEF Fields

LEMMA EndsExist ==
  ASSUME NEW q, \A j \in 1..6 : q[j] \in Field
  PROVE  \E e : Ends(q, e)
<1>1. PICK l \in [1..6 -> Nat] : \A j \in 1..6 : l[j] = Len(q[j])
  <2>1. [j \in 1..6 |-> Len(q[j])] \in [1..6 -> Nat]
    BY FieldIsText
  <2> QED BY <2>1
<1> DEFINE e == [j \in 0..6 |-> IF j = 0 THEN 0
                                ELSE IF j = 1 THEN l[1] + 1
                                ELSE IF j = 2 THEN l[1] + l[2] + 2
                                ELSE IF j = 3 THEN l[1] + l[2] + l[3] + 3
                                ELSE IF j = 4 THEN l[1] + l[2] + l[3] + l[4] + 4
                                ELSE IF j = 5 THEN l[1] + l[2] + l[3] + l[4] + l[5] + 5
                                ELSE l[1] + l[2] + l[3] + l[4] + l[5] + l[6] + 6]
<1>2. e \in [0..6 -> Nat] /\ e[0] = 0
  <2>1. /\ l[1] \in Nat /\ l[2] \in Nat /\ l[3] \in Nat
        /\ l[4] \in Nat /\ l[5] \in Nat /\ l[6] \in Nat
    OBVIOUS
  <2>2. /\ l[1] + 1 \in Nat /\ l[1] + l[2] + 2 \in Nat /\ l[1] + l[2] + l[3] + 3 \in Nat
        /\ l[1] + l[2] + l[3] + l[4] + 4 \in Nat /\ l[1] + l[2] + l[3] + l[4] + l[5] + 5 \in Nat
        /\ l[1] + l[2] + l[3] + l[4] + l[5] + l[6] + 6 \in Nat
    BY <2>1
  <2> QED BY <2>2
<1>3. ASSUME NEW j \in 1..6 PROVE e[j] = e[j - 1] + l[j] + 1
  <2>1. CASE j = 1 BY <1>1, <2>1
  <2>2. CASE j = 2 BY <1>1, <2>2
  <2>3. CASE j = 3 BY <1>1, <2>3
  <2>4. CASE j = 4 BY <1>1, <2>4
  <2>5. CASE j = 5 BY <1>1, <2>5
  <2>6. CASE j = 6 BY <1>1, <2>6
  <2> QED BY <2>1, <2>2, <2>3, <2>4, <2>5, <2>6
<1> HIDE DEF e
<1>4. Ends(q, e)
  BY <1>1, <1>2, <1>3 DEF Ends
<1> QED BY <1>4

LEMMA EndsInOrder ==
  ASSUME NEW q, NEW e, Ends(q, e)
  PROVE  /\ e \in [0..6 -> Nat] /\ e[0] = 0
         /\ \A j \in 1..6 : /\ q[j] \in Field /\ Len(q[j]) \in Nat \ {0}
                             /\ e[j] \in Nat /\ e[j - 1] \in Nat
                             /\ e[j] = e[j - 1] + Len(q[j]) + 1
         /\ \A i, j \in 0..6 : i < j => e[i] + 1 < e[j]
<1>1. e \in [0..6 -> Nat] /\ e[0] = 0
  BY DEF Ends
<1>2. ASSUME NEW j \in 1..6
      PROVE  /\ q[j] \in Field /\ Len(q[j]) \in Nat \ {0}
             /\ e[j] \in Nat /\ e[j - 1] \in Nat
             /\ e[j] = e[j - 1] + Len(q[j]) + 1
  <2>1. q[j] \in Field /\ e[j] = e[j - 1] + Len(q[j]) + 1
    BY DEF Ends
  <2>2. Len(q[j]) \in Nat \ {0}
    BY <2>1, FieldIsText
  <2>3. j \in 0..6 /\ j - 1 \in 0..6
    OBVIOUS
  <2> QED BY <1>1, <2>1, <2>2, <2>3
<1>3. \A j \in 1..6 : e[j - 1] + 1 < e[j]
  <2> SUFFICES ASSUME NEW j \in 1..6 PROVE e[j - 1] + 1 < e[j]
    OBVIOUS
  <2>1. /\ Len(q[j]) \in Nat \ {0} /\ e[j] \in Nat /\ e[j - 1] \in Nat
        /\ e[j] = e[j - 1] + Len(q[j]) + 1
    BY <1>2
  <2> QED BY <2>1
<1>4. /\ e[0] + 1 < e[1] /\ e[1] + 1 < e[2] /\ e[2] + 1 < e[3]
      /\ e[3] + 1 < e[4] /\ e[4] + 1 < e[5] /\ e[5] + 1 < e[6]
  BY <1>3
<1>5. \A i, j \in 0..6 : i < j => e[i] + 1 < e[j]
  BY <1>1, <1>4
<1> QED BY <1>1, <1>2, <1>5

\* The next field and its delimiter leave the ones before where they are.
LEMMA AddField ==
  ASSUME NEW q, NEW e, Ends(q, e), NEW n \in 0..5, NEW x, Holds(x, q, e, n)
  PROVE  Holds((x \o q[n + 1]) \o <<Mark(n + 1)>>, q, e, n + 1)
<1> DEFINE y == q[n + 1]
           z == (x \o y) \o <<Mark(n + 1)>>
<1>1. /\ e \in [0..6 -> Nat]
      /\ \A j \in 1..6 : q[j] \in Field /\ e[j] = e[j - 1] + Len(q[j]) + 1
  BY EndsInOrder
<1>2. /\ x \in Seq(Byte) /\ Len(x) = e[n]
      /\ \A j \in 1..n : /\ \A k \in 1 .. Len(q[j]) : x[e[j - 1] + k] = q[j][k]
                         /\ x[e[j]] = Mark(j)
  BY DEF Holds
<1>3. y \in Seq(Byte) /\ Len(y) \in Nat
  <2>1. n + 1 \in 1..6
    OBVIOUS
  <2> QED BY <1>1, <2>1, FieldIsText
<1>4. Mark(n + 1) \in Byte
  BY DEF Mark, Byte
<1>5. e[n + 1] = Len(x) + Len(y) + 1
  <2>1. n + 1 \in 1..6 /\ (n + 1) - 1 = n
    OBVIOUS
  <2> QED BY <1>1, <1>2, <2>1
<1> HIDE DEF y
<1>6. /\ z \in Seq(Byte) /\ Len(z) = Len(x) + Len(y) + 1
      /\ \A k \in 1 .. Len(x) : z[k] = x[k]
      /\ \A k \in 1 .. Len(y) : z[Len(x) + k] = y[k]
      /\ z[Len(x) + Len(y) + 1] = Mark(n + 1)
  <2> DEFINE c == Mark(n + 1)
             t == x \o y
  <2> HIDE DEF c
  <2>1. t \in Seq(Byte) /\ Len(t) = Len(x) + Len(y)
    BY <1>2, <1>3
  <2>2. \A k \in 1 .. Len(x) : t[k] = x[k]
    BY <1>2, <1>3
  <2>3. \A k \in 1 .. Len(y) : t[Len(x) + k] = y[k]
    BY <1>2, <1>3
  <2> HIDE DEF t
  <2>4. t \o <<c>> \in Seq(Byte) /\ Len(t \o <<c>>) = Len(t) + 1 /\ (t \o <<c>>)[Len(t) + 1] = c
    BY <1>4, <2>1 DEF c
  <2>5. \A k \in 1 .. Len(t) : (t \o <<c>>)[k] = t[k]
    BY <1>4, <2>1 DEF c
  <2>6. Len(x) \in Nat /\ Len(y) \in Nat
    BY <1>2, <1>3
  <2>7. \A k \in 1 .. Len(x) : k \in 1 .. Len(t)
    BY <2>1, <2>6
  <2>8. \A k \in 1 .. Len(y) : Len(x) + k \in 1 .. Len(t)
    BY <2>1, <2>6
  <2> QED BY <2>1, <2>2, <2>3, <2>4, <2>5, <2>7, <2>8 DEF t, c
<1> HIDE DEF z
<1>7. ASSUME NEW j \in 1 .. n + 1
      PROVE  /\ \A k \in 1 .. Len(q[j]) : z[e[j - 1] + k] = q[j][k]
             /\ z[e[j]] = Mark(j)
  <2>0. e[n] \in Nat
    <3>1. n \in 0..6
      OBVIOUS
    <3> QED BY <1>1, <3>1
  <2>1. CASE j = n + 1
    <3>1. j - 1 = n
      BY <2>1
    <3> QED BY <1>2, <1>5, <1>6, <2>1, <3>1 DEF y
  <2>2. CASE j # n + 1
    <3>1. j \in 1..n /\ j \in 1..6
      BY <2>2
    <3>2. e[j] <= e[n]
      <4>1. j \in 0..6 /\ n \in 0..6 /\ (j = n \/ j < n)
        BY <3>1
      <4>2. \A i, l \in 0..6 : i < l => e[i] + 1 < e[l]
        BY EndsInOrder
      <4>3. e[j] \in Nat
        BY <1>1, <4>1
      <4> QED BY <2>0, <4>1, <4>2, <4>3
    <3>3. e[j] \in 1 .. e[n] /\ \A k \in 1 .. Len(q[j]) : e[j - 1] + k \in 1 .. e[n]
      <4>1. e[j] = e[j - 1] + Len(q[j]) + 1 /\ e[j] \in Nat /\ e[j - 1] \in Nat /\ Len(q[j]) \in Nat
        BY <3>1, EndsInOrder
      <4> QED BY <2>0, <3>2, <4>1
    <3> QED BY <1>2, <1>6, <3>1, <3>3
  <2> QED BY <2>1, <2>2
<1>8. Len(z) = e[n + 1]
  BY <1>5, <1>6
<1>9. Holds(z, q, e, n + 1)
  BY <1>6, <1>7, <1>8 DEF Holds
<1> QED BY <1>9 DEF z, y

LEMMA PrintedHolds ==
  ASSUME NEW p \in Packet, NEW e, Ends(Fields(p), e)
  PROVE  Holds(Printed(p), Fields(p), e, 6)
<1> DEFINE q == Fields(p)
           x1 == (<<>> \o q[1]) \o <<Mark(1)>>
           x2 == (x1 \o q[2]) \o <<Mark(2)>>
           x3 == (x2 \o q[3]) \o <<Mark(3)>>
           x4 == (x3 \o q[4]) \o <<Mark(4)>>
           x5 == (x4 \o q[5]) \o <<Mark(5)>>
           x6 == (x5 \o q[6]) \o <<Mark(6)>>
<1>0. Holds(<<>>, q, e, 0)
  BY DEF Holds, Ends
<1>1. Printed(p) = x6
  <2>1. q[1] = Digits[p.code] /\ q[2] = p.user /\ q[3] = p.msg
        /\ q[4] = Digits[p.rgb[1]] /\ q[5] = Digits[p.rgb[2]] /\ q[6] = Digits[p.rgb[3]]
    BY DEF Fields
  <2>2. <<>> \o q[1] = q[1]
    <3>1. q[1] \in Seq(Char)
      BY FieldsAreFields DEF Field
    <3> HIDE DEF q
    <3> QED BY <3>1
  <2>3. /\ Mark(1) = TICK /\ Mark(2) = TICK /\ Mark(3) = TICK /\ Mark(4) = TICK
        /\ Mark(5) = TICK /\ Mark(6) = NEWLINE
    BY DEF Mark
  <2> HIDE DEF q
  <2> QED BY <2>1, <2>2, <2>3, Zenon DEF Printed
<1> HIDE DEF q
<1>2. Ends(q, e)
  BY DEF q
<1>3. Holds(x1, q, e, 1)
  <2>1. 0 \in 0..5 /\ 0 + 1 = 1
    OBVIOUS
  <2>2. Holds((<<>> \o q[0 + 1]) \o <<Mark(0 + 1)>>, q, e, 0 + 1)
    BY <1>0, <1>2, <2>1, AddField
  <2> QED BY <2>1, <2>2
<1> HIDE DEF x1
<1>4. Holds(x2, q, e, 2)
  <2>1. 1 \in 0..5 /\ 1 + 1 = 2
    OBVIOUS
  <2>2. Holds((x1 \o q[1 + 1]) \o <<Mark(1 + 1)>>, q, e, 1 + 1)
    BY <1>2, <1>3, <2>1, AddField
  <2> QED BY <2>1, <2>2
<1> HIDE DEF x2
<1>5. Holds(x3, q, e, 3)
  <2>1. 2 \in 0..5 /\ 2 + 1 = 3
    OBVIOUS
  <2>2. Holds((x2 \o q[2 + 1]) \o <<Mark(2 + 1)>>, q, e, 2 + 1)
    BY <1>2, <1>4, <2>1, AddField
  <2> QED BY <2>1, <2>2
<1> HIDE DEF x3
<1>6. Holds(x4, q, e, 4)
  <2>1. 3 \in 0..5 /\ 3 + 1 = 4
    OBVIOUS
  <2>2. Holds((x3 \o q[3 + 1]) \o <<Mark(3 + 1)>>, q, e, 3 + 1)
    BY <1>2, <1>5, <2>1, AddField
  <2> QED BY <2>1, <2>2
<1> HIDE DEF x4
<1>7. Holds(x5, q, e, 5)
  <2>1. 4 \in 0..5 /\ 4 + 1 = 5
    OBVIOUS
  <2>2. Holds((x4 \o q[4 + 1]) \o <<Mark(4 + 1)>>, q, e, 4 + 1)
    BY <1>2, <1>6, <2>1, AddField
  <2> QED BY <2>1, <2>2
<1> HIDE DEF x5
<1>8. Holds(x6, q, e, 6)
  <2>1. 5 \in 0..5 /\ 5 + 1 = 6
    OBVIOUS
  <2>2. Holds((x5 \o q[5 + 1]) \o <<Mark(5 + 1)>>, q, e, 5 + 1)
    BY <1>2, <1>7, <2>1, AddField
  <2> QED BY <2>1, <2>2
<1> HIDE DEF x6
<1> QED BY <1>1, <1>8 DEF q

\* ToString's buffer is long enough.
LEMMA NothingTruncated == \A p \in Packet : Format(p) = Printed(p)
<1> SUFFICES ASSUME NEW p \in Packet PROVE Format(p) = Printed(p)
  OBVIOUS
<1> DEFINE q == Fields(p)
<1>1. PICK e : Ends(q, e)
  <2>1. \A j \in 1..6 : q[j] \in Field
    BY FieldsAreFields
  <2> HIDE DEF q
  <2> QED BY <2>1, EndsExist
<1>2. Len(Printed(p)) = e[6]
  BY <1>1, PrintedHolds DEF Holds
<1>3. /\ p.code \in Code /\ p.rgb[1] \in Colour /\ p.rgb[2] \in Colour /\ p.rgb[3] \in Colour
  BY DEF Packet
<1>4. /\ Len(Digits[p.code]) <= 4 /\ Len(Digits[p.rgb[1]]) <= 3
      /\ Len(Digits[p.rgb[2]]) <= 3 /\ Len(Digits[p.rgb[3]]) <= 3
  <2>1. ASSUME NEW n \in Code PROVE Len(Digits[n]) <= 4
    <3>1. n \in 0..INVALID_CODE /\ n < 10000
      BY CodeFits
    <3> QED BY <3>1, DigitsLength
  <2>2. ASSUME NEW n \in Colour PROVE Len(Digits[n]) <= 3
    <3>1. n \in 0..INVALID_CODE /\ n < 1000
      BY ColourFits
    <3> QED BY <3>1, DigitsLength
  <2> QED BY <1>3, <2>1, <2>2
<1>5. /\ Len(q[1]) <= 4 /\ Len(q[2]) = Len(p.user) /\ Len(q[3]) = Len(p.msg)
      /\ Len(q[4]) <= 3 /\ Len(q[5]) <= 3 /\ Len(q[6]) <= 3
  <2>1. q[1] = Digits[p.code] /\ q[2] = p.user /\ q[3] = p.msg
        /\ q[4] = Digits[p.rgb[1]] /\ q[5] = Digits[p.rgb[2]] /\ q[6] = Digits[p.rgb[3]]
    BY DEF Fields
  <2> HIDE DEF q
  <2> QED BY <1>4, <2>1
<1> HIDE DEF q
<1>6. PICK l \in [1..6 -> Nat] : \A j \in 1..6 : l[j] = Len(q[j])
  <2>1. [j \in 1..6 |-> Len(q[j])] \in [1..6 -> Nat]
    BY <1>1, EndsInOrder
  <2> QED BY <2>1
<1>7. e[0] = 0 /\ \A j \in 1..6 : e[j] = e[j - 1] + l[j] + 1
  BY <1>1, <1>6 DEF Ends
<1>8. /\ e[1] = 0 + l[1] + 1 /\ e[2] = e[1] + l[2] + 1 /\ e[3] = e[2] + l[3] + 1
      /\ e[4] = e[3] + l[4] + 1 /\ e[5] = e[4] + l[5] + 1 /\ e[6] = e[5] + l[6] + 1
  BY <1>7
<1>9. l[1] <= 4 /\ l[2] = Len(p.user) /\ l[3] = Len(p.msg) /\ l[4] <= 3 /\ l[5] <= 3 /\ l[6] <= 3
  <2>1. /\ l[1] = Len(q[1]) /\ l[2] = Len(q[2]) /\ l[3] = Len(q[3])
        /\ l[4] = Len(q[4]) /\ l[5] = Len(q[5]) /\ l[6] = Len(q[6])
    BY <1>6
  <2> QED BY <1>5, <2>1
<1>10. /\ l[1] \in Nat /\ l[2] \in Nat /\ l[3] \in Nat
       /\ l[4] \in Nat /\ l[5] \in Nat /\ l[6] \in Nat
  OBVIOUS
<1>11. e[6] = l[1] + l[2] + l[3] + l[4] + l[5] + l[6] + 6
  BY <1>8, <1>10
<1>12. e[6] < l[2] + l[3] + 20
  <2>1. l[1] <= 4 /\ l[4] <= 3 /\ l[5] <= 3 /\ l[6] <= 3
    BY <1>9
  <2> QED BY <1>10, <1>11, <2>1
<1>13. e[6] < Len(p.user) + Len(p.msg) + 20
  BY <1>9, <1>12
<1> QED BY <1>2, <1>13 DEF Format

-----------------------------------------------------------------------------
(***************************************************************************)
(* What a part of a packet, cut anywhere, still has.                       *)
(***************************************************************************)

\* e are the ends of the fields in what the server sends for p.
Laid(p, e) == Ends(Fields(p), e) /\ Holds(Format(p), Fields(p), e, 6)

LEMMA PacketLaid == ASSUME NEW p \in Packet PROVE \E e : Laid(p, e)
<1>1. PICK e : Ends(Fields(p), e)
  BY FieldsAreFields, EndsExist
<1>2. Holds(Format(p), Fields(p), e, 6)
  BY <1>1, PrintedHolds, NothingTruncated
<1> QED BY <1>1, <1>2 DEF Laid

LEMMA LaidBytes ==
  ASSUME NEW p, NEW e, Laid(p, e)
  PROVE  /\ Format(p) \in Seq(Byte) /\ Len(Format(p)) = e[6]
         /\ e[0] = 0 /\ \A j \in 0..6 : e[j] \in Nat
BY DEF Laid, Ends, Holds

LEMMA LaidInOrder ==
  ASSUME NEW p, NEW e, Laid(p, e), NEW i \in 0..6, NEW j \in 0..6, i < j
  PROVE  e[i] + 1 < e[j]
<1>1. Ends(Fields(p), e)
  BY DEF Laid
<1> QED BY <1>1, EndsInOrder

LEMMA LaidField ==
  ASSUME NEW p, NEW e, Laid(p, e), NEW j \in 1..6
  PROVE  /\ Fields(p)[j] \in Field
         /\ e[j - 1] \in Nat /\ Len(Fields(p)[j]) \in Nat \ {0}
         /\ e[j] = e[j - 1] + Len(Fields(p)[j]) + 1
         /\ Format(p)[e[j]] = Mark(j)
<1>1. Ends(Fields(p), e) /\ Holds(Format(p), Fields(p), e, 6)
  BY DEF Laid
<1>2. Format(p)[e[j]] = Mark(j)
  BY <1>1 DEF Holds
<1> QED BY <1>1, <1>2, EndsInOrder

LEMMA LaidByte ==
  ASSUME NEW p, NEW e, Laid(p, e), NEW j \in 1..6, NEW l \in 1 .. Len(Fields(p)[j])
  PROVE  Format(p)[e[j - 1] + l] = Fields(p)[j][l]
<1>1. Holds(Format(p), Fields(p), e, 6)
  BY DEF Laid
<1> QED BY <1>1 DEF Holds

LEMMA SpecialBytes ==
  /\ NUL # TICK /\ NUL # NEWLINE /\ TICK # NEWLINE
  /\ NUL \notin Char /\ TICK \notin Char /\ NEWLINE \notin Char
BY CharAssumption DEF NUL, TICK, NEWLINE

\* The delimiters are where the fields end and nowhere else.
LEMMA MarksAreEnds ==
  ASSUME NEW p, NEW e, Laid(p, e), NEW k \in 1 .. e[6]
  PROVE  /\ Format(p)[k] = TICK <=> \E j \in 1..5 : k = e[j]
         /\ Format(p)[k] = NEWLINE <=> k = e[6]
<1> DEFINE x == Format(p)
<1>1. e[0] = 0 /\ \A j \in 0..6 : e[j] \in Nat
  BY LaidBytes
<1>2. PICK j \in 1..6 : e[j - 1] < k /\ k <= e[j]
  <2>1. k \in Nat /\ k > e[0] /\ k <= e[6]
    BY <1>1
  <2>2. \/ e[0] < k /\ k <= e[1]
        \/ e[1] < k /\ k <= e[2]
        \/ e[2] < k /\ k <= e[3]
        \/ e[3] < k /\ k <= e[4]
        \/ e[4] < k /\ k <= e[5]
        \/ e[5] < k /\ k <= e[6]
    BY <1>1, <2>1
  <2> QED BY <2>2
<1> DEFINE f == Fields(p)[j]
<1>5. /\ f \in Field /\ Len(f) \in Nat \ {0} /\ e[j] = e[j - 1] + Len(f) + 1
      /\ x[e[j]] = Mark(j)
      /\ \A l \in 1 .. Len(f) : x[e[j - 1] + l] = f[l]
  <2>1. j \in 1..6 /\ Laid(p, e)
    OBVIOUS
  <2>2. f \in Field /\ Len(f) \in Nat \ {0} /\ e[j] = e[j - 1] + Len(f) + 1
    BY <2>1, LaidField
  <2>3. x[e[j]] = Mark(j)
    BY <2>1, LaidField
  <2>4. ASSUME NEW l \in 1 .. Len(f) PROVE x[e[j - 1] + l] = f[l]
    BY <2>1, LaidByte
  <2> QED BY <2>2, <2>3, <2>4
<1>6. e[j] \in Nat /\ e[j - 1] \in Nat
  BY <1>1
<1> HIDE DEF x, f
<1>3. CASE k = e[j]
  <2>1. x[k] = Mark(j)
    BY <1>3, <1>5
  <2>2. CASE j = 6
    <3>1. x[k] = NEWLINE /\ k = e[6]
      BY <1>3, <2>1, <2>2 DEF Mark
    <3>2. \A i \in 1..5 : e[i] + 1 < e[6]
      BY LaidInOrder
    <3>3. \A i \in 1..5 : k # e[i]
      BY <1>1, <3>1, <3>2
    <3> QED BY <3>1, <3>3, SpecialBytes DEF x
  <2>3. CASE j # 6
    <3>1. x[k] = TICK /\ j \in 1..5
      BY <2>1, <2>3 DEF Mark
    <3>2. e[j] + 1 < e[6]
      BY <3>1, LaidInOrder
    <3>3. k # e[6]
      BY <1>1, <1>3, <3>2
    <3> QED BY <1>3, <3>1, <3>3, SpecialBytes DEF x
  <2> QED BY <2>2, <2>3
<1>4. CASE k # e[j]
  <2> DEFINE l == k - e[j - 1]
  <2>1. l \in 1 .. Len(f) /\ e[j - 1] + l = k
    BY <1>2, <1>4, <1>5, <1>6
  <2>2. x[k] = f[l]
    BY <1>5, <2>1
  <2>3. f \in Seq(Char)
    BY <1>5, FieldIsText
  <2>4. x[k] \in Char
    BY <2>1, <2>2, <2>3
  <2>5. \A i \in 0..6 : i # j => k # e[i]
    <3> SUFFICES ASSUME NEW i \in 0..6, i # j PROVE k # e[i]
      OBVIOUS
    <3>1. CASE i < j
      <4>1. i = j - 1 \/ i < j - 1
        BY <3>1
      <4>2. j - 1 \in 0..6 /\ e[i] \in Nat
        BY <1>1
      <4>3. i < j - 1 => e[i] + 1 < e[j - 1]
        BY <4>2, LaidInOrder
      <4>4. e[i] <= e[j - 1]
        BY <1>6, <4>1, <4>2, <4>3
      <4> QED BY <1>2, <1>6, <4>2, <4>4
    <3>2. CASE j < i
      <4>1. e[j] + 1 < e[i] /\ e[i] \in Nat
        BY <1>1, <3>2, LaidInOrder
      <4> QED BY <1>2, <1>6, <4>1
    <3> QED BY <3>1, <3>2
  <2>6. k # e[6] /\ \A i \in 1..5 : k # e[i]
    BY <1>4, <2>5
  <2> QED BY <2>4, <2>6, SpecialBytes DEF x
<1> QED BY <1>3, <1>4

\* A part of a part of a sequence.
LEMMA PartOfPart ==
  ASSUME NEW S, NEW x \in Seq(S), NEW u \in 1 .. Len(x), NEW v \in u .. Len(x)
  PROVE  /\ SubSeq(x, u, v) \in Seq(S) /\ Len(SubSeq(x, u, v)) = v - u + 1
         /\ \A k \in 1 .. v - u + 1 : SubSeq(x, u, v)[k] = x[u - 1 + k]
         /\ \A a \in 1 .. v - u + 1 : \A z \in a .. v - u + 1 :
              SubSeq(SubSeq(x, u, v), a, z) = SubSeq(x, u - 1 + a, u - 1 + z)
<1> DEFINE w == SubSeq(x, u, v)
<1>0. Len(x) \in Nat /\ u \in Nat /\ v \in Nat /\ u <= v /\ v <= Len(x)
  OBVIOUS
<1>1. w \in Seq(S)
  <2>1. \A i \in u..v : x[i] \in S
    BY <1>0
  <2> QED BY <1>0, <2>1, SubSeqProperties
<1>2. Len(w) = v - u + 1 /\ \A k \in 1 .. v - u + 1 : w[k] = x[u + k - 1]
  BY <1>0, SubSeqProperties
<1>3. \A k \in 1 .. v - u + 1 : w[k] = x[u - 1 + k]
  <2> SUFFICES ASSUME NEW k \in 1 .. v - u + 1 PROVE w[k] = x[u - 1 + k]
    OBVIOUS
  <2>1. u + k - 1 = u - 1 + k
    BY <1>0
  <2> QED BY <1>2, <2>1
<1> HIDE DEF w
<1>4. ASSUME NEW a \in 1 .. v - u + 1, NEW z \in a .. v - u + 1
      PROVE  SubSeq(w, a, z) = SubSeq(x, u - 1 + a, u - 1 + z)
  <2> DEFINE b == u - 1 + a
             y == u - 1 + z
             f == SubSeq(w, a, z)
             g == SubSeq(x, b, y)
  <2>0. a \in Nat /\ z \in Nat /\ a <= z /\ z <= v - u + 1 /\ a >= 1
    BY <1>0
  <2>1. b \in 1 .. Len(x) /\ y \in b .. Len(x) /\ y - b + 1 = z - a + 1
    BY <1>0, <2>0
  <2>2. \A i \in a..z : w[i] \in S
    <3> SUFFICES ASSUME NEW i \in a..z PROVE w[i] \in S
      OBVIOUS
    <3>1. i \in 1 .. Len(w)
      BY <1>0, <1>2, <2>0
    <3> QED BY <1>1, <3>1
  <2>3. f \in Seq(S) /\ Len(f) = z - a + 1 /\ \A k \in 1 .. z - a + 1 : f[k] = w[a + k - 1]
    BY <1>1, <2>0, <2>2, SubSeqProperties
  <2> HIDE DEF f
  <2>4. \A i \in b..y : x[i] \in S
    <3> SUFFICES ASSUME NEW i \in b..y PROVE x[i] \in S
      OBVIOUS
    <3>1. i \in 1 .. Len(x)
      BY <1>0, <2>1
    <3> QED BY <3>1
  <2>5. g \in Seq(S) /\ Len(g) = y - b + 1 /\ \A k \in 1 .. y - b + 1 : g[k] = x[b + k - 1]
    <3>1. b \in Int /\ y \in Int /\ b <= y
      BY <1>0, <2>0
    <3> HIDE DEF b, y
    <3> QED BY <2>4, <3>1, SubSeqProperties
  <2> HIDE DEF g
  <2>6. ASSUME NEW k \in 1 .. z - a + 1 PROVE f[k] = g[k]
    <3>1. a + k - 1 \in 1 .. v - u + 1 /\ u - 1 + (a + k - 1) = b + k - 1
      BY <1>0, <2>0
    <3>2. w[a + k - 1] = x[u - 1 + (a + k - 1)]
      BY <1>3, <3>1
    <3>3. k \in 1 .. y - b + 1
      BY <2>1
    <3> HIDE DEF b, y
    <3> QED BY <2>3, <2>5, <3>1, <3>2, <3>3
  <2>7. f = g
    <3>1. Len(f) = Len(g)
      BY <2>1, <2>3, <2>5
    <3>2. \A k \in 1 .. Len(f) : f[k] = g[k]
      BY <2>3, <2>6
    <3> HIDE DEF b, y
    <3> QED BY <2>3, <2>5, <3>1, <3>2, SeqEqual
  <2> QED BY <2>7 DEF f, g
<1> QED BY <1>1, <1>2, <1>3, <1>4 DEF w

LEMMA SubPart ==
  ASSUME NEW S, NEW x \in Seq(S), NEW u \in 1 .. Len(x), NEW v \in u .. Len(x),
         NEW a \in 1 .. v - u + 1, NEW z \in a .. v - u + 1
  PROVE  SubSeq(SubSeq(x, u, v), a, z) = SubSeq(x, u - 1 + a, u - 1 + z)
BY PartOfPart

-----------------------------------------------------------------------------
(***************************************************************************)
(* What FromString's Split makes of such a part.                           *)
(***************************************************************************)

\* The numbers behind Laid.
Places(e) == /\ e[0] = 0 /\ \A j \in 0..6 : e[j] \in Nat
             /\ e[0] + 1 < e[1] /\ e[1] + 1 < e[2] /\ e[2] + 1 < e[3]
             /\ e[3] + 1 < e[4] /\ e[4] + 1 < e[5] /\ e[5] + 1 < e[6]

LEMMA LaidPlaces == ASSUME NEW p, NEW e, Laid(p, e) PROVE Places(e)
BY LaidBytes, LaidInOrder DEF Places

\* A part that holds all five ticks between two fields has six runs.
SixFirst(e, u, v) == [k \in 1..6 |-> IF k = 1 THEN 1 ELSE e[k - 1] + 2 - u]
SixLast(e, u, v)  == [k \in 1..6 |-> IF k = 6 THEN v - u + 1 ELSE e[k] - u]

LEMMA SixRuns ==
  ASSUME NEW e, Places(e), NEW u \in 1 .. e[1] - 1, NEW v \in e[5] + 1 .. e[6],
         NEW D, \A j \in 1 .. v - u + 1 : j \in D <=> \E i \in 1..5 : u - 1 + j = e[i]
  PROVE  InOrder(D, v - u + 1, 6, SixFirst(e, u, v), SixLast(e, u, v))
<1> DEFINE n == v - u + 1
           a == SixFirst(e, u, v)
           z == SixLast(e, u, v)
<1>1. /\ e[0] = 0 /\ e[0] \in Nat /\ e[1] \in Nat /\ e[2] \in Nat /\ e[3] \in Nat
      /\ e[4] \in Nat /\ e[5] \in Nat /\ e[6] \in Nat
      /\ e[0] + 1 < e[1] /\ e[1] + 1 < e[2] /\ e[2] + 1 < e[3]
      /\ e[3] + 1 < e[4] /\ e[4] + 1 < e[5] /\ e[5] + 1 < e[6]
  BY DEF Places
<1>2. u \in Nat /\ v \in Nat /\ 1 <= u /\ u < e[1] /\ e[5] < v /\ v <= e[6]
  BY <1>1
<1>3. /\ a[1] = 1 /\ a[2] = e[1] + 2 - u /\ a[3] = e[2] + 2 - u
      /\ a[4] = e[3] + 2 - u /\ a[5] = e[4] + 2 - u /\ a[6] = e[5] + 2 - u
  BY DEF SixFirst
<1>4. /\ z[1] = e[1] - u /\ z[2] = e[2] - u /\ z[3] = e[3] - u
      /\ z[4] = e[4] - u /\ z[5] = e[5] - u /\ z[6] = v - u + 1
  BY DEF SixLast
<1>5. DOMAIN a = 1..6 /\ DOMAIN z = 1..6 /\ a = [k \in 1..6 |-> a[k]] /\ z = [k \in 1..6 |-> z[k]]
  BY DEF SixFirst, SixLast
<1>d. \A j \in 1..n : j \in D <=> \/ u - 1 + j = e[1] \/ u - 1 + j = e[2] \/ u - 1 + j = e[3]
                                  \/ u - 1 + j = e[4] \/ u - 1 + j = e[5]
  OBVIOUS
<1> HIDE DEF a, z
<1>6. \A k \in 1..6 : a[k] \in 1..n /\ z[k] \in 1..n /\ a[k] <= z[k]
  <2> SUFFICES ASSUME NEW k \in 1..6 PROVE a[k] \in 1..n /\ z[k] \in 1..n /\ a[k] <= z[k]
    OBVIOUS
  <2>1. CASE k = 1 BY <1>1, <1>2, <1>3, <1>4, <2>1
  <2>2. CASE k = 2 BY <1>1, <1>2, <1>3, <1>4, <2>2
  <2>3. CASE k = 3 BY <1>1, <1>2, <1>3, <1>4, <2>3
  <2>4. CASE k = 4 BY <1>1, <1>2, <1>3, <1>4, <2>4
  <2>5. CASE k = 5 BY <1>1, <1>2, <1>3, <1>4, <2>5
  <2>6. CASE k = 6 BY <1>1, <1>2, <1>3, <1>4, <2>6
  <2> QED BY <2>1, <2>2, <2>3, <2>4, <2>5, <2>6
<1>7. ASSUME NEW k \in 1..6, NEW j \in a[k] .. z[k] PROVE j \notin D
  <2>1. j \in 1..n
    BY <1>2, <1>6
  <2>2. ~ (\/ u - 1 + j = e[1] \/ u - 1 + j = e[2] \/ u - 1 + j = e[3]
           \/ u - 1 + j = e[4] \/ u - 1 + j = e[5])
    <3>1. CASE k = 1 BY <1>1, <1>2, <1>3, <1>4, <2>1, <3>1
    <3>2. CASE k = 2 BY <1>1, <1>2, <1>3, <1>4, <2>1, <3>2
    <3>3. CASE k = 3 BY <1>1, <1>2, <1>3, <1>4, <2>1, <3>3
    <3>4. CASE k = 4 BY <1>1, <1>2, <1>3, <1>4, <2>1, <3>4
    <3>5. CASE k = 5 BY <1>1, <1>2, <1>3, <1>4, <2>1, <3>5
    <3>6. CASE k = 6 BY <1>1, <1>2, <1>3, <1>4, <2>1, <3>6
    <3> QED BY <3>1, <3>2, <3>3, <3>4, <3>5, <3>6
  <2> QED BY <1>d, <2>1, <2>2
<1>8. /\ z[1] + 1 < a[2] /\ z[2] + 1 < a[3] /\ z[3] + 1 < a[4]
      /\ z[4] + 1 < a[5] /\ z[5] + 1 < a[6]
  BY <1>1, <1>2, <1>3, <1>4
<1>9. /\ a[1] <= z[1] /\ a[2] <= z[2] /\ a[3] <= z[3]
      /\ a[4] <= z[4] /\ a[5] <= z[5] /\ a[6] <= z[6]
      /\ a[1] \in Nat /\ a[2] \in Nat /\ a[3] \in Nat
      /\ a[4] \in Nat /\ a[5] \in Nat /\ a[6] \in Nat
      /\ z[1] \in Nat /\ z[2] \in Nat /\ z[3] \in Nat
      /\ z[4] \in Nat /\ z[5] \in Nat /\ z[6] \in Nat
  BY <1>6
<1>10. \A k, l \in 1..6 : k < l => z[k] + 1 < a[l]
  BY <1>8, <1>9
<1>11. ASSUME NEW j \in 1..n, j \notin D PROVE \E k \in 1..6 : a[k] <= j /\ j <= z[k]
  <2>1. /\ u - 1 + j # e[1] /\ u - 1 + j # e[2] /\ u - 1 + j # e[3]
        /\ u - 1 + j # e[4] /\ u - 1 + j # e[5]
    BY <1>d, <1>11
  <2>2. j \in Nat /\ 1 <= j /\ j <= v - u + 1
    BY <1>2
  <2>3. \/ a[1] <= j /\ j <= z[1]
        \/ a[2] <= j /\ j <= z[2]
        \/ a[3] <= j /\ j <= z[3]
        \/ a[4] <= j /\ j <= z[4]
        \/ a[5] <= j /\ j <= z[5]
        \/ a[6] <= j /\ j <= z[6]
    BY <1>1, <1>2, <1>3, <1>4, <2>1, <2>2
  <2> QED BY <2>3
<1>12. a \in [1..6 -> 1..n] /\ z \in [1..6 -> 1..n]
  <2> HIDE DEF n
  <2> QED BY <1>5, <1>6
<1> QED BY <1>6, <1>7, <1>10, <1>11, <1>12 DEF InOrder, a, z

\* Between two runs there is a delimiter.
LEMMA GapIsDelimiter ==
  ASSUME NEW D, NEW len \in Nat, NEW m, NEW a, NEW z, InOrder(D, len, m, a, z),
         NEW k \in 1 .. m - 1
  PROVE  z[k] + 1 \in 1..len /\ z[k] + 1 \in D
<1>0. /\ m \in Nat /\ a \in [1..m -> 1..len] /\ z \in [1..m -> 1..len]
      /\ \A i \in 1..m : a[i] <= z[i]
      /\ \A i, l \in 1..m : i < l => z[i] + 1 < a[l]
      /\ \A j \in 1..len : j \notin D => \E l \in 1..m : a[l] <= j /\ j <= z[l]
  BY DEF InOrder
<1>1. k \in 1..m /\ k + 1 \in 1..m /\ k < k + 1
  BY <1>0
<1>2. z[k] + 1 < a[k + 1] /\ a[k + 1] \in 1..len /\ z[k] \in 1..len
  BY <1>0, <1>1
<1>3. z[k] + 1 \in 1..len
  BY <1>2
<1>4. ASSUME z[k] + 1 \notin D PROVE FALSE
  <2>1. PICK l \in 1..m : a[l] <= z[k] + 1 /\ z[k] + 1 <= z[l]
    BY <1>0, <1>3, <1>4
  <2>2. l < k => z[l] + 1 < a[k]
    BY <1>0, <1>1
  <2>3. k < l => z[k] + 1 < a[l]
    BY <1>0, <1>1
  <2>4. a[k] <= z[k] /\ a[k] \in Nat /\ z[l] \in Nat /\ a[l] \in Nat
    BY <1>0, <1>1
  <2> QED BY <1>0, <1>1, <1>2, <2>1, <2>2, <2>3, <2>4
<1> QED BY <1>3, <1>4

\* A part with six runs holds all five ticks between two fields.
LEMMA SixRunsCover ==
  ASSUME NEW e, Places(e), NEW u \in 1 .. e[6], NEW v \in u .. e[6],
         NEW D, \A j \in 1 .. v - u + 1 : j \in D <=> \E i \in 1..5 : u - 1 + j = e[i],
         NEW a, NEW z, InOrder(D, v - u + 1, 6, a, z)
  PROVE  u < e[1] /\ e[5] < v
<1>1. /\ e[0] = 0 /\ e[0] \in Nat /\ e[1] \in Nat /\ e[2] \in Nat /\ e[3] \in Nat
      /\ e[4] \in Nat /\ e[5] \in Nat /\ e[6] \in Nat
      /\ e[0] + 1 < e[1] /\ e[1] + 1 < e[2] /\ e[2] + 1 < e[3]
      /\ e[3] + 1 < e[4] /\ e[4] + 1 < e[5] /\ e[5] + 1 < e[6]
  BY DEF Places
<1>2. u \in Nat /\ v \in Nat /\ 1 <= u /\ u <= v /\ v - u + 1 \in Nat
  BY <1>1
<1> DEFINE n == v - u + 1
<1>3. /\ \A k \in 1..6 : a[k] \in 1..n /\ z[k] \in 1..n /\ a[k] <= z[k]
      /\ \A k, l \in 1..6 : k < l => z[k] + 1 < a[l]
  BY DEF InOrder
<1>4. ASSUME NEW k \in 1..5 PROVE \E i \in 1..5 : u + z[k] = e[i]
  <2>1. z[k] + 1 \in 1..n /\ z[k] + 1 \in D
    <3>1. k \in 1 .. 6 - 1 /\ n \in Nat
      BY <1>2
    <3> HIDE DEF n
    <3>2. InOrder(D, n, 6, a, z)
      BY DEF n
    <3> QED BY <3>1, <3>2, GapIsDelimiter
  <2>2. PICK i \in 1..5 : u - 1 + (z[k] + 1) = e[i]
    BY <2>1
  <2>3. z[k] \in Nat
    BY <1>2, <1>3
  <2> QED BY <1>2, <2>2, <2>3
<1> HIDE DEF n
<1>5. /\ a[1] \in Nat /\ a[6] \in Nat /\ 1 <= a[1] /\ a[1] <= z[1] /\ a[6] <= n
      /\ z[1] \in Nat /\ z[2] \in Nat /\ z[3] \in Nat /\ z[4] \in Nat /\ z[5] \in Nat
      /\ n \in Nat
  BY <1>2, <1>3 DEF n
<1>6. z[1] < z[2] /\ z[2] < z[3] /\ z[3] < z[4] /\ z[4] < z[5] /\ z[5] + 1 < a[6]
  <2>1. ASSUME NEW k \in 1..4 PROVE z[k] < z[k + 1]
    <3>1. z[k] + 1 < a[k + 1] /\ a[k + 1] <= z[k + 1]
      BY <1>3
    <3>2. z[k] \in Nat /\ a[k + 1] \in Nat /\ z[k + 1] \in Nat
      BY <1>3, <1>5
    <3> QED BY <3>1, <3>2
  <2>2. z[1] < z[1 + 1] /\ z[2] < z[2 + 1] /\ z[3] < z[3 + 1] /\ z[4] < z[4 + 1]
    BY <2>1
  <2> QED BY <1>3, <2>2
<1>7. PICK c \in [1..5 -> 1..5] : \A k \in 1..5 : u + z[k] = e[c[k]]
  <2> DEFINE c == [k \in 1..5 |-> CHOOSE i \in 1..5 : u + z[k] = e[i]]
  <2>1. ASSUME NEW k \in 1..5 PROVE c[k] \in 1..5 /\ u + z[k] = e[c[k]]
    BY <1>4
  <2>2. c \in [1..5 -> 1..5]
    BY <2>1
  <2> QED BY <2>1, <2>2
<1>8. \A i, j \in 1..5 : e[i] < e[j] => i < j
  BY <1>1
<1>9. ASSUME NEW k \in 1..4 PROVE c[k] < c[k + 1]
  <2>1. u + z[k] = e[c[k]] /\ u + z[k + 1] = e[c[k + 1]] /\ z[k] < z[k + 1]
    <3>1. z[1] < z[1 + 1] /\ z[2] < z[2 + 1] /\ z[3] < z[3 + 1] /\ z[4] < z[4 + 1]
      BY <1>6
    <3>2. z[k] < z[k + 1]
      BY <3>1
    <3> QED BY <1>7, <3>2
  <2>2. z[k] \in Nat /\ z[k + 1] \in Nat
    BY <1>3, <1>5
  <2>3. e[c[k]] < e[c[k + 1]]
    BY <1>2, <2>1, <2>2
  <2>4. c[k] \in 1..5 /\ c[k + 1] \in 1..5
    OBVIOUS
  <2> QED BY <1>8, <2>3, <2>4
<1>10. c[1] = 1 /\ c[5] = 5
  <2>1. c[1] < c[1 + 1] /\ c[2] < c[2 + 1] /\ c[3] < c[3 + 1] /\ c[4] < c[4 + 1]
    BY <1>9
  <2>2. c[1] \in 1..5 /\ c[2] \in 1..5 /\ c[3] \in 1..5 /\ c[4] \in 1..5 /\ c[5] \in 1..5
    OBVIOUS
  <2> QED BY <2>1, <2>2
<1>11. u + z[1] = e[1] /\ u + z[5] = e[5]
  BY <1>7, <1>10
<1>12. u < e[1]
  BY <1>1, <1>2, <1>5, <1>11
<1>13. e[5] < v
  BY <1>1, <1>2, <1>5, <1>6, <1>11 DEF n
<1> QED BY <1>12, <1>13

\* The ticks of a part of a packet.
LEMMA PartTicks ==
  ASSUME NEW p, NEW e, Laid(p, e), NEW u \in 1 .. e[6], NEW v \in u .. e[6]
  PROVE  /\ SubSeq(Format(p), u, v) \in Seq(Byte)
         /\ Len(SubSeq(Format(p), u, v)) = v - u + 1
         /\ \A j \in 1 .. v - u + 1 :
              j \in Delimiters(SubSeq(Format(p), u, v), TICK) <=> \E i \in 1..5 : u - 1 + j = e[i]
<1> DEFINE x == Format(p)
           w == SubSeq(x, u, v)
<1>1. x \in Seq(Byte) /\ Len(x) = e[6] /\ e[6] \in Nat
  BY LaidBytes
<1>2. u \in 1 .. Len(x) /\ v \in u .. Len(x)
  BY <1>1
<1> HIDE DEF x
<1>3. /\ w \in Seq(Byte) /\ Len(w) = v - u + 1
      /\ \A k \in 1 .. v - u + 1 : w[k] = x[u - 1 + k]
  BY <1>1, <1>2, PartOfPart
<1> HIDE DEF w
<1>4. ASSUME NEW j \in 1 .. v - u + 1
      PROVE  j \in Delimiters(w, TICK) <=> \E i \in 1..5 : u - 1 + j = e[i]
  <2>1. j \in DOMAIN w
    BY <1>3
  <2>2. j \in Delimiters(w, TICK) <=> x[u - 1 + j] = TICK
    BY <1>3, <2>1 DEF Delimiters
  <2>3. u - 1 + j \in 1 .. e[6]
    BY <1>1
  <2>4. x[u - 1 + j] = TICK <=> \E i \in 1..5 : u - 1 + j = e[i]
    BY <2>3, MarksAreEnds DEF x
  <2> QED BY <2>2, <2>4
<1> QED BY <1>3, <1>4 DEF w, x

\* A field is what lies between two delimiters.
LEMMA FieldIsPart ==
  ASSUME NEW p, NEW e, Laid(p, e), NEW j \in 1..6
  PROVE  SubSeq(Format(p), e[j - 1] + 1, e[j] - 1) = Fields(p)[j]
<1> DEFINE x == Format(p)
           f == Fields(p)[j]
           u == e[j - 1] + 1
           v == e[j] - 1
           w == SubSeq(x, u, v)
<1>1. x \in Seq(Byte) /\ Len(x) = e[6] /\ e[6] \in Nat
  BY LaidBytes
<1>2. f \in Field /\ e[j - 1] \in Nat /\ Len(f) \in Nat \ {0} /\ e[j] = e[j - 1] + Len(f) + 1
  BY LaidField
<1>3. e[j] <= e[6]
  <2>1. j < 6 => e[j] + 1 < e[6]
    BY LaidInOrder
  <2> QED BY <1>1, <1>2, <2>1
<1>4. f \in Seq(Byte)
  BY <1>2, FieldIsText
<1>5. \A l \in 1 .. Len(f) : x[e[j - 1] + l] = f[l]
  BY LaidByte
<1> HIDE DEF x, f
<1>6. u \in 1 .. Len(x) /\ v \in u .. Len(x) /\ v - u + 1 = Len(f) /\ u - 1 = e[j - 1]
  <2> DEFINE b == e[j - 1]
             c == e[j]
             m == e[6]
  <2>1. b \in Nat /\ m \in Nat /\ Len(f) \in Nat /\ Len(f) # 0 /\ c = b + Len(f) + 1 /\ c <= m
    BY <1>1, <1>2, <1>3
  <2>2. Len(x) = m
    BY <1>1
  <2> HIDE DEF b, c, m
  <2>3. b + 1 \in 1..m /\ c - 1 \in b + 1 .. m /\ c - 1 - (b + 1) + 1 = Len(f) /\ b + 1 - 1 = b
    BY <2>1
  <2>4. u = b + 1 /\ v = c - 1 /\ b = e[j - 1]
    BY DEF b, c
  <2> HIDE DEF u, v
  <2> QED BY <2>1, <2>2, <2>3, <2>4
<1> HIDE DEF u, v
<1>7. /\ w \in Seq(Byte) /\ Len(w) = v - u + 1
      /\ \A k \in 1 .. v - u + 1 : w[k] = x[u - 1 + k]
  BY <1>1, <1>6, PartOfPart
<1> HIDE DEF w
<1>8. Len(w) = Len(f) /\ \A k \in 1 .. Len(w) : w[k] = f[k]
  BY <1>5, <1>6, <1>7
<1>9. w = f
  BY <1>4, <1>7, <1>8, SeqEqual
<1> QED BY <1>9 DEF w, x, f, u, v

\* What FromString's Split makes of a part with all five ticks.
LEMMA PartTokens ==
  ASSUME NEW p, NEW e, Laid(p, e), NEW u \in 1 .. e[1] - 1, NEW v \in e[5] + 1 .. e[6]
  PROVE  LET t == Split(SubSeq(Format(p), u, v), TICK) IN
         /\ Len(t) = 6
         /\ t[1] = SubSeq(Format(p), u, e[1] - 1)
         /\ t[2] = Fields(p)[2] /\ t[3] = Fields(p)[3]
         /\ t[4] = Fields(p)[4] /\ t[5] = Fields(p)[5]
         /\ t[6] = SubSeq(Format(p), e[5] + 1, v)
<1> DEFINE x == Format(p)
           w == SubSeq(x, u, v)
           D == Delimiters(w, TICK)
           a == SixFirst(e, u, v)
           z == SixLast(e, u, v)
           t == Split(w, TICK)
<1>0. Places(e)
  BY LaidPlaces
<1>1. /\ e[0] = 0 /\ e[0] \in Nat /\ e[1] \in Nat /\ e[2] \in Nat /\ e[3] \in Nat
      /\ e[4] \in Nat /\ e[5] \in Nat /\ e[6] \in Nat
      /\ e[0] + 1 < e[1] /\ e[1] + 1 < e[2] /\ e[2] + 1 < e[3]
      /\ e[3] + 1 < e[4] /\ e[4] + 1 < e[5] /\ e[5] + 1 < e[6]
  BY <1>0 DEF Places
<1>2. /\ u \in 1 .. e[6] /\ v \in u .. e[6] /\ u \in Nat /\ v \in Nat
      /\ 1 <= u /\ u < e[1] /\ e[5] < v /\ v <= e[6]
  BY <1>1
<1>3. /\ w \in Seq(Byte) /\ Len(w) = v - u + 1
      /\ \A j \in 1 .. v - u + 1 : j \in D <=> \E i \in 1..5 : u - 1 + j = e[i]
  BY <1>2, PartTicks
<1>x. x \in Seq(Byte) /\ Len(x) = e[6]
  BY LaidBytes
<1> HIDE DEF D
<1>4. InOrder(D, v - u + 1, 6, a, z)
  BY <1>0, <1>3, SixRuns
<1>5. t = [k \in 1..6 |-> SubSeq(w, a[k], z[k])]
  <2>1. InOrder(Delimiters(w, TICK), Len(w), 6, a, z)
    BY <1>3, <1>4 DEF D
  <2>2. w \in Seq(Byte)
    BY <1>3
  <2>3. PICK m : m = 6
    OBVIOUS
  <2> HIDE DEF w, a, z, t
  <2>4. InOrder(Delimiters(w, TICK), Len(w), m, a, z)
    BY <2>1, <2>3
  <2>5. Split(w, TICK) = [k \in 1..m |-> SubSeq(w, a[k], z[k])]
    BY <2>2, <2>4, SplitGivesRuns
  <2> QED BY <2>3, <2>5 DEF t
<1>6. /\ a[1] = 1 /\ a[2] = e[1] + 2 - u /\ a[3] = e[2] + 2 - u
      /\ a[4] = e[3] + 2 - u /\ a[5] = e[4] + 2 - u /\ a[6] = e[5] + 2 - u
  BY DEF SixFirst
<1>7. /\ z[1] = e[1] - u /\ z[2] = e[2] - u /\ z[3] = e[3] - u
      /\ z[4] = e[4] - u /\ z[5] = e[5] - u /\ z[6] = v - u + 1
  BY DEF SixLast
<1>8. \A k \in 1..6 : a[k] \in 1 .. v - u + 1 /\ z[k] \in 1 .. v - u + 1 /\ a[k] <= z[k]
  BY <1>4 DEF InOrder
<1> HIDE DEF a, z, t
<1>9. ASSUME NEW k \in 1..6 PROVE t[k] = SubSeq(x, u - 1 + a[k], u - 1 + z[k])
  <2>1. t[k] = SubSeq(w, a[k], z[k])
    BY <1>5
  <2>2. a[k] \in 1 .. v - u + 1 /\ z[k] \in a[k] .. v - u + 1
    BY <1>2, <1>8
  <2>3. u \in 1 .. Len(x) /\ v \in u .. Len(x)
    BY <1>2, <1>x
  <2> DEFINE b == a[k]
             c == z[k]
  <2>4. b \in 1 .. v - u + 1 /\ c \in b .. v - u + 1
    BY <2>2
  <2> HIDE DEF x, b, c
  <2>5. SubSeq(SubSeq(x, u, v), b, c) = SubSeq(x, u - 1 + b, u - 1 + c)
    BY <1>x, <2>3, <2>4, SubPart
  <2> QED BY <2>1, <2>5 DEF b, c
<1>10. Len(t) = 6
  BY <1>5
<1>11. /\ u - 1 + a[1] = u /\ u - 1 + a[2] = e[1] + 1 /\ u - 1 + a[3] = e[2] + 1
       /\ u - 1 + a[4] = e[3] + 1 /\ u - 1 + a[5] = e[4] + 1 /\ u - 1 + a[6] = e[5] + 1
  BY <1>1, <1>2, <1>6
<1>12. /\ u - 1 + z[1] = e[1] - 1 /\ u - 1 + z[2] = e[2] - 1 /\ u - 1 + z[3] = e[3] - 1
       /\ u - 1 + z[4] = e[4] - 1 /\ u - 1 + z[5] = e[5] - 1 /\ u - 1 + z[6] = v
  BY <1>1, <1>2, <1>7
<1>13. /\ t[1] = SubSeq(x, u, e[1] - 1) /\ t[2] = SubSeq(x, e[1] + 1, e[2] - 1)
       /\ t[3] = SubSeq(x, e[2] + 1, e[3] - 1) /\ t[4] = SubSeq(x, e[3] + 1, e[4] - 1)
       /\ t[5] = SubSeq(x, e[4] + 1, e[5] - 1) /\ t[6] = SubSeq(x, e[5] + 1, v)
  <2>1. /\ t[1] = SubSeq(x, u - 1 + a[1], u - 1 + z[1]) /\ t[2] = SubSeq(x, u - 1 + a[2], u - 1 + z[2])
        /\ t[3] = SubSeq(x, u - 1 + a[3], u - 1 + z[3]) /\ t[4] = SubSeq(x, u - 1 + a[4], u - 1 + z[4])
        /\ t[5] = SubSeq(x, u - 1 + a[5], u - 1 + z[5]) /\ t[6] = SubSeq(x, u - 1 + a[6], u - 1 + z[6])
    <3> HIDE DEF x
    <3>1. 1 \in 1..6 /\ 2 \in 1..6 /\ 3 \in 1..6 /\ 4 \in 1..6 /\ 5 \in 1..6 /\ 6 \in 1..6
      OBVIOUS
    <3> QED BY <1>9, <3>1, Zenon
  <2> HIDE DEF x
  <2>2. t[1] = SubSeq(x, u, e[1] - 1) /\ t[2] = SubSeq(x, e[1] + 1, e[2] - 1)
    BY <1>11, <1>12, <2>1, Zenon
  <2>3. t[3] = SubSeq(x, e[2] + 1, e[3] - 1) /\ t[4] = SubSeq(x, e[3] + 1, e[4] - 1)
    BY <1>11, <1>12, <2>1, Zenon
  <2>4. t[5] = SubSeq(x, e[4] + 1, e[5] - 1) /\ t[6] = SubSeq(x, e[5] + 1, v)
    BY <1>11, <1>12, <2>1, Zenon
  <2> QED BY <2>2, <2>3, <2>4
<1>14. \A j \in 1..6 : SubSeq(x, e[j - 1] + 1, e[j] - 1) = Fields(p)[j]
  BY FieldIsPart
<1>15. /\ SubSeq(x, e[1] + 1, e[2] - 1) = Fields(p)[2] /\ SubSeq(x, e[2] + 1, e[3] - 1) = Fields(p)[3]
       /\ SubSeq(x, e[3] + 1, e[4] - 1) = Fields(p)[4] /\ SubSeq(x, e[4] + 1, e[5] - 1) = Fields(p)[5]
  <2>1. 2 - 1 = 1 /\ 3 - 1 = 2 /\ 4 - 1 = 3 /\ 5 - 1 = 4
    OBVIOUS
  <2> HIDE DEF x
  <2> QED BY <1>14, <2>1
<1> QED BY <1>10, <1>13, <1>15 DEF t

\* And it takes all five ticks to have six tokens.
LEMMA SixTokens ==
  ASSUME NEW p, NEW e, Laid(p, e), NEW u \in 1 .. e[6], NEW v \in u .. e[6],
         Len(Split(SubSeq(Format(p), u, v), TICK)) = 6
  PROVE  u < e[1] /\ e[5] < v
<1> DEFINE w == SubSeq(Format(p), u, v)
           D == Delimiters(w, TICK)
           n == v - u + 1
<1>0. Places(e) /\ e[6] \in Nat
  BY LaidPlaces DEF Places
<1>1. /\ w \in Seq(Byte) /\ Len(w) = n /\ Len(w) \in Nat
      /\ \A j \in 1..n : j \in D <=> \E i \in 1..5 : u - 1 + j = e[i]
  BY <1>0, PartTicks
<1> HIDE DEF w, D
<1>2. PICK m, a, z : InOrder(D, Len(w), m, a, z)
  BY <1>1, RunsExist, Zenon
<1>3. Split(w, TICK) = [k \in 1..m |-> SubSeq(w, a[k], z[k])]
  BY <1>1, <1>2, SplitGivesRuns DEF D
<1>4. m \in Nat
  BY <1>2 DEF InOrder
<1>5. m = 6
  <2>1. Len([k \in 1..m |-> SubSeq(w, a[k], z[k])]) = m
    BY <1>4
  <2> QED BY <1>3, <2>1 DEF w
<1>6. InOrder(D, v - u + 1, 6, a, z)
  BY <1>1, <1>2, <1>5
<1> QED BY <1>0, <1>1, <1>6, SixRunsCover

\* atoi of a whole number field, with or without the delimiter after it.
LEMMA AtoiField ==
  ASSUME NEW p, NEW e, Laid(p, e), NEW j \in 1..6, NEW y \in {e[j] - 1, e[j]},
         NEW n \in 0..INVALID_CODE, Fields(p)[j] = Digits[n]
  PROVE  Atoi(SubSeq(Format(p), e[j - 1] + 1, y)) = n
<1> DEFINE x == Format(p)
           d == Digits[n]
           u == e[j - 1] + 1
           w == SubSeq(x, u, y)
<1>1. x \in Seq(Byte) /\ Len(x) = e[6] /\ e[6] \in Nat
  BY LaidBytes
<1>2. /\ e[j - 1] \in Nat /\ Len(d) \in Nat \ {0} /\ e[j] = e[j - 1] + Len(d) + 1
      /\ x[e[j]] = Mark(j)
  <2>1. d = Fields(p)[j]
    OBVIOUS
  <2> HIDE DEF d
  <2>2. /\ e[j - 1] \in Nat /\ Len(Fields(p)[j]) \in Nat \ {0}
        /\ e[j] = e[j - 1] + Len(Fields(p)[j]) + 1
    BY LaidField
  <2>3. x[e[j]] = Mark(j)
    BY LaidField
  <2> QED BY <2>1, <2>2, <2>3
<1>3. e[j] <= e[6]
  <2>1. j < 6 => e[j] + 1 < e[6]
    BY LaidInOrder
  <2> QED BY <1>1, <1>2, <2>1
<1>4. \A l \in 1 .. Len(d) : x[e[j - 1] + l] = d[l]
  BY LaidByte
<1> HIDE DEF x, d
<1>5. u \in 1 .. Len(x) /\ y \in u .. Len(x) /\ u - 1 = e[j - 1] /\ u \in Nat /\ y \in Nat
      /\ (y - u + 1 = Len(d) \/ y - u + 1 = Len(d) + 1)
  <2> DEFINE b == e[j - 1]
             c == e[j]
             m == e[6]
  <2>1. b \in Nat /\ m \in Nat /\ Len(d) \in Nat /\ Len(d) # 0 /\ c = b + Len(d) + 1 /\ c <= m
    BY <1>1, <1>2, <1>3
  <2>2. Len(x) = m /\ (y = c - 1 \/ y = c)
    BY <1>1
  <2> HIDE DEF b, c, m
  <2>3. /\ b + 1 \in 1..m /\ y \in b + 1 .. m /\ b + 1 - 1 = b /\ b + 1 \in Nat /\ y \in Nat
        /\ (y - (b + 1) + 1 = Len(d) \/ y - (b + 1) + 1 = Len(d) + 1)
    BY <2>1, <2>2
  <2>4. u = b + 1 /\ b = e[j - 1]
    BY DEF b
  <2> HIDE DEF u
  <2> QED BY <2>1, <2>2, <2>3, <2>4
<1> HIDE DEF u
<1>6. /\ w \in Seq(Byte) /\ Len(w) = y - u + 1
      /\ \A k \in 1 .. y - u + 1 : w[k] = x[u - 1 + k]
  BY <1>1, <1>5, PartOfPart
<1> HIDE DEF w
<1>7. Len(d) <= Len(w) /\ Len(w) \in Nat /\ DOMAIN w = 1 .. Len(w)
  BY <1>2, <1>5, <1>6
<1>n. Len(d) \in Nat /\ Len(d) # 0
  BY <1>2
<1>8. ASSUME NEW i \in 1 .. Len(d) PROVE w[i] = d[i]
  <2>1. i \in 1 .. y - u + 1
    BY <1>5, <1>n
  <2>2. w[i] = x[e[j - 1] + i]
    BY <1>5, <1>6, <2>1
  <2> QED BY <1>4, <2>2
<1>9. Len(d) < Len(w) => w[Len(d) + 1] \notin Digit
  <2> SUFFICES ASSUME Len(d) < Len(w) PROVE w[Len(d) + 1] \notin Digit
    OBVIOUS
  <2>1. y - u + 1 = Len(d) + 1
    BY <1>5, <1>6, <1>n
  <2>3. Len(d) + 1 \in 1 .. y - u + 1
    BY <1>n, <2>1
  <2>2. u - 1 + (Len(d) + 1) = e[j]
    BY <1>2, <1>5
  <2>5. w[Len(d) + 1] = Mark(j)
    BY <1>2, <1>6, <2>2, <2>3
  <2>4. Mark(j) \notin Char
    BY SpecialBytes DEF Mark
  <2> QED BY <2>4, <2>5, DigitsAreChars
<1>10. Atoi(w) = n
  BY <1>7, <1>8, <1>9, AtoiReads DEF d
<1> QED BY <1>10 DEF w, x, u

-----------------------------------------------------------------------------
(***************************************************************************)
(* What FromString makes of packets and of their parts; what MainLoop keeps. *)
(***************************************************************************)

LEMMA PartFields ==
  ASSUME NEW p, NEW e, Laid(p, e), NEW u \in 1 .. e[6], NEW v \in u .. e[6],
         IsValid(FromString(SubSeq(Format(p), u, v)))
  PROVE  /\ u < e[1] /\ e[5] < v
         /\ FromString(SubSeq(Format(p), u, v)).user = p.user
         /\ FromString(SubSeq(Format(p), u, v)).msg = p.msg
<1> DEFINE w == SubSeq(Format(p), u, v)
           t == Split(w, TICK)
<1>1. Len(t) = 6
  <2>1. Len(t) # 6 => FromString(w).code = INVALID_CODE
    BY DEF FromString, Plain, Coloured
  <2> QED BY <2>1 DEF IsValid
<1>2. u < e[1] /\ e[5] < v
  BY <1>1, SixTokens
<1>3. u \in 1 .. e[1] - 1 /\ v \in e[5] + 1 .. e[6]
  <2>1. e[1] \in Nat /\ e[5] \in Nat /\ e[6] \in Nat
    BY LaidBytes
  <2> QED BY <1>2, <2>1
<1>4. t[2] = Fields(p)[2] /\ t[3] = Fields(p)[3]
  BY <1>3, PartTokens
<1>5. FromString(w).user = t[2] /\ FromString(w).msg = t[3]
  <2> HIDE DEF w
  <2> QED BY <1>1 DEF FromString, Coloured
<1>6. Fields(p)[2] = p.user /\ Fields(p)[3] = p.msg
  BY DEF Fields
<1> QED BY <1>2, <1>4, <1>5, <1>6

LEMMA AtoiDigits == ASSUME NEW n \in 0..INVALID_CODE PROVE Atoi(Digits[n]) = n
<1> DEFINE d == Digits[n]
<1>1. d \in Seq(Digit) /\ Len(d) \in Nat /\ DOMAIN d = 1 .. Len(d) /\ Len(d) <= Len(d)
  BY DigitsLength
<1> QED BY <1>1, AtoiReads

LEMMA SmallNumbers ==
  /\ \A n \in Code : n % 65536 = n
  /\ \A n \in Colour : n % 256 = n
<1>1. ASSUME NEW n \in Code PROVE n % 65536 = n
  BY DEF Code
<1>2. ASSUME NEW n \in Colour PROVE n % 256 = n
  BY DEF Colour
<1> QED BY <1>1, <1>2

LEMMA PacketSurvives ==
  ASSUME NEW p \in Packet, NEW e, Laid(p, e), NEW v \in {e[6] - 1, e[6]}
  PROVE  FromString(SubSeq(Format(p), 1, v)) = p
<1> DEFINE x == Format(p)
           w == SubSeq(x, 1, v)
           t == Split(w, TICK)
<1>0. /\ p.code \in Code /\ p.rgb[1] \in Colour /\ p.rgb[2] \in Colour /\ p.rgb[3] \in Colour
      /\ p = [code |-> p.code, user |-> p.user, msg |-> p.msg, rgb |-> <<p.rgb[1], p.rgb[2], p.rgb[3]>>]
  <2>1. p.rgb \in Colour \X Colour \X Colour
    BY DEF Packet
  <2>2. p.rgb = <<p.rgb[1], p.rgb[2], p.rgb[3]>>
    BY <2>1
  <2>3. p = [code |-> p.code, user |-> p.user, msg |-> p.msg, rgb |-> p.rgb]
    BY DEF Packet
  <2> QED BY <2>1, <2>2, <2>3 DEF Packet
<1>1. e[0] = 0 /\ e[1] \in Nat /\ e[5] \in Nat /\ e[6] \in Nat /\ 0 + 1 < e[1] /\ e[5] + 1 < e[6]
  <2>1. e[0] + 1 < e[1] /\ e[5] + 1 < e[6]
    BY LaidInOrder
  <2> QED BY <2>1, LaidBytes
<1>2. 1 \in 1 .. e[1] - 1 /\ v \in e[5] + 1 .. e[6]
  BY <1>1
<1>3. /\ Len(t) = 6
      /\ t[1] = SubSeq(x, 1, e[1] - 1)
      /\ t[2] = Fields(p)[2] /\ t[3] = Fields(p)[3]
      /\ t[4] = Fields(p)[4] /\ t[5] = Fields(p)[5]
      /\ t[6] = SubSeq(x, e[5] + 1, v)
  BY <1>2, PartTokens
<1> HIDE DEF t
<1>4. /\ Fields(p)[1] = Digits[p.code] /\ Fields(p)[2] = p.user /\ Fields(p)[3] = p.msg
      /\ Fields(p)[4] = Digits[p.rgb[1]] /\ Fields(p)[5] = Digits[p.rgb[2]]
      /\ Fields(p)[6] = Digits[p.rgb[3]]
  BY DEF Fields
<1>5. /\ p.code \in 0..INVALID_CODE /\ p.rgb[1] \in 0..INVALID_CODE
      /\ p.rgb[2] \in 0..INVALID_CODE /\ p.rgb[3] \in 0..INVALID_CODE
  BY <1>0, CodeFits, ColourFits
<1>6. Atoi(t[1]) = p.code
  <2>1. 1 \in 1..6 /\ e[1] - 1 \in {e[1] - 1, e[1]} /\ 1 - 1 = 0 /\ e[1 - 1] + 1 = 1
    BY <1>1
  <2>2. Atoi(SubSeq(x, e[1 - 1] + 1, e[1] - 1)) = p.code
    BY <1>4, <1>5, <2>1, AtoiField
  <2> QED BY <1>3, <2>1, <2>2
<1>7. Atoi(t[4]) = p.rgb[1] /\ Atoi(t[5]) = p.rgb[2]
  BY <1>3, <1>4, <1>5, AtoiDigits
<1>8. Atoi(t[6]) = p.rgb[3]
  <2>1. 6 \in 1..6 /\ 6 - 1 = 5
    OBVIOUS
  <2>2. Atoi(SubSeq(x, e[6 - 1] + 1, v)) = p.rgb[3]
    BY <1>4, <1>5, <2>1, AtoiField
  <2> QED BY <1>3, <2>1, <2>2
<1>9. FromString(w) = Coloured(Atoi(t[1]) % 65536, t[2], t[3],
                               Atoi(t[4]) % 256, Atoi(t[5]) % 256, Atoi(t[6]) % 256)
  <2> HIDE DEF w
  <2> QED BY <1>3 DEF FromString, t
<1>10. FromString(w) = Coloured(p.code, p.user, p.msg, p.rgb[1], p.rgb[2], p.rgb[3])
  <2>1. Atoi(t[1]) % 65536 = p.code
    BY <1>0, <1>6, SmallNumbers
  <2>2. Atoi(t[4]) % 256 = p.rgb[1] /\ Atoi(t[5]) % 256 = p.rgb[2] /\ Atoi(t[6]) % 256 = p.rgb[3]
    BY <1>0, <1>7, <1>8, SmallNumbers
  <2> HIDE DEF w
  <2> QED BY <1>3, <1>4, <1>9, <2>1, <2>2
<1> QED BY <1>0, <1>10 DEF Coloured

\* A packet printed by ToString and read back by FromString is the same packet,
\* whether the newline has been split off or not (class ChatPacket): no field
\* is cut by the buffer, mixed up with another or changed by printf and atoi.
THEOREM FromStringInvertsToString ==
  \A p \in Packet :
    /\ FromString(Format(p)) = p
    /\ FromString(SubSeq(Format(p), 1, Len(Format(p)) - 1)) = p
<1> SUFFICES ASSUME NEW p \in Packet
             PROVE  /\ FromString(Format(p)) = p
                    /\ FromString(SubSeq(Format(p), 1, Len(Format(p)) - 1)) = p
  OBVIOUS
<1>1. PICK e : Laid(p, e)
  BY PacketLaid
<1>2. Len(Format(p)) = e[6] /\ Format(p) \in Seq(Byte)
  BY <1>1, LaidBytes
<1>3. SubSeq(Format(p), 1, e[6]) = Format(p)
  <2> DEFINE x == Format(p)
  <2> HIDE DEF x
  <2>1. x \in Seq(Byte) /\ Len(x) = e[6]
    BY <1>2 DEF x
  <2>2. SubSeq(x, 1, Len(x)) = x
    BY <2>1
  <2> QED BY <2>1, <2>2 DEF x
<1> QED BY <1>1, <1>2, <1>3, PacketSurvives

\* Which of the strings MainLoop's packets come from.
Chosen(strings, k, n, h) ==
  /\ n \in Nat /\ h \in [1..n -> 1..k]
  /\ \A i, j \in 1..n : i < j => h[i] < h[j]
  /\ \A i \in 1..n : IsValid(FromString(strings[h[i]]))

Kept(strings, k, o) ==
  \E n, h : Chosen(strings, k, n, h) /\ o = [i \in 1..n |-> FromString(strings[h[i]])]

ParseStep(strings, g, i) ==
  IF IsValid(FromString(strings[i])) THEN Append(g, FromString(strings[i])) ELSE g

LEMMA ParsedChain ==
  ASSUME NEW strings, NEW n \in Nat, Len(strings) = n
  PROVE  \E g : /\ g[0] = <<>> /\ \A i \in 1..n : g[i] = ParseStep(strings, g[i - 1], i)
                /\ Parsed(strings) = g[n]
<1> DEFINE E == 0..n
           X == Seq({FromString(strings[i]) : i \in 1..n})
           rank == [i \in E |-> i]
           stop == {0}
           pred == [i \in E |-> IF i = 0 THEN 0 ELSE i - 1]
           base == [i \in E |-> <<>>]
           step == [i \in E |-> [x \in X |-> IF i = 0 THEN <<>> ELSE ParseStep(strings, x, i)]]
           Body(g) == [i \in E |-> IF i = 0 THEN <<>>
                                   ELSE IF IsValid(FromString(strings[i]))
                                        THEN Append(g[i - 1], FromString(strings[i]))
                                        ELSE g[i - 1]]
           d == CHOOSE g : g = Body(g)
<1>1. Parsed(strings) = d[n]
  BY DEF Parsed
<1>2. Descends(E, rank, stop, pred)
  <2>1. rank \in [E -> Nat] /\ pred \in [E -> E]
    OBVIOUS
  <2>2. \A i \in E \ stop : rank[pred[i]] < rank[i]
    OBVIOUS
  <2> HIDE DEF E, rank, stop, pred
  <2> QED BY <2>1, <2>2 DEF Descends
<1>3. base \in [E -> X]
  OBVIOUS
<1>4. step \in [E -> [X -> X]]
  <2>1. ASSUME NEW i \in E, NEW x \in X, i # 0 PROVE ParseStep(strings, x, i) \in X
    <3>1. FromString(strings[i]) \in {FromString(strings[j]) : j \in 1..n}
      BY <2>1
    <3> QED BY <3>1 DEF ParseStep
  <2>2. <<>> \in X
    OBVIOUS
  <2> HIDE DEF E, X
  <2> QED BY <2>1, <2>2
<1>5. PICK w \in [E -> X] : \A i \in E : w[i] = IF i \in stop THEN base[i] ELSE step[i][w[pred[i]]]
  <2> HIDE DEF E, X, rank, stop, pred, base, step
  <2>1. \E w \in [E -> X] : Solves(w, E, stop, pred, base, step)
    BY <1>2, <1>3, <1>4, Recursion
  <2> QED BY <2>1 DEF Solves
<1>6. w[0] = <<>>
  <2>1. 0 \in E /\ 0 \in stop /\ base[0] = <<>>
    OBVIOUS
  <2> HIDE DEF E, X, stop, pred, base, step
  <2> QED BY <1>5, <2>1
<1>7. ASSUME NEW i \in 1..n PROVE w[i] = ParseStep(strings, w[i - 1], i)
  <2>1. i \in E /\ i - 1 \in E /\ pred[i] = i - 1 /\ i \notin stop /\ i # 0
    OBVIOUS
  <2>2. w[i - 1] \in X
    <3> HIDE DEF E, X
    <3> QED BY <1>5, <2>1
  <2>3. w[i] = step[i][w[i - 1]]
    <3> HIDE DEF E, X, step, pred, stop, base
    <3> QED BY <1>5, <2>1
  <2> HIDE DEF E, X
  <2> QED BY <2>1, <2>2, <2>3
<1>8. w = Body(w)
  <2>1. \A i \in E : w[i] = Body(w)[i]
    <3> SUFFICES ASSUME NEW i \in E PROVE w[i] = Body(w)[i]
      OBVIOUS
    <3>1. CASE i = 0
      BY <1>6, <3>1
    <3>2. CASE i # 0
      <4>1. i \in 1..n
        BY <3>2
      <4> HIDE DEF E
      <4> QED BY <1>7, <3>2, <4>1 DEF ParseStep
    <3> QED BY <3>1, <3>2
  <2> HIDE DEF E, X
  <2> QED BY <1>5, <2>1
<1>9. d = Body(d)
  <2> HIDE DEF Body
  <2> QED BY <1>8
<1> HIDE DEF d
<1>10. \A i \in E : d[i] = IF i = 0 THEN <<>>
                           ELSE IF IsValid(FromString(strings[i]))
                                THEN Append(d[i - 1], FromString(strings[i]))
                                ELSE d[i - 1]
  <2> HIDE DEF E
  <2> QED BY <1>9
<1>11. d[0] = <<>>
  BY <1>10
<1>12. ASSUME NEW i \in 1..n PROVE d[i] = ParseStep(strings, d[i - 1], i)
  <2>1. i \in E /\ i # 0
    OBVIOUS
  <2> HIDE DEF E
  <2> QED BY <1>10, <2>1 DEF ParseStep
<1> QED BY <1>1, <1>11, <1>12

\* HandlePacket gets the valid ones, in order.
LEMMA ParsedKeeps ==
  ASSUME NEW strings, Len(strings) \in Nat
  PROVE  Kept(strings, Len(strings), Parsed(strings))
<1> DEFINE n == Len(strings)
<1>1. PICK g : /\ g[0] = <<>> /\ \A i \in 1..n : g[i] = ParseStep(strings, g[i - 1], i)
               /\ Parsed(strings) = g[n]
  BY ParsedChain
<1> DEFINE T == {k \in Nat : k <= n => Kept(strings, k, g[k])}
<1>2. 0 \in T
  <2>1. Chosen(strings, 0, 0, <<>>)
    BY DEF Chosen
  <2>2. g[0] = [i \in 1..0 |-> FromString(strings[<<>>[i]])]
    BY <1>1
  <2>3. Kept(strings, 0, g[0])
    BY <2>1, <2>2 DEF Kept
  <2> QED BY <2>3
<1>3. ASSUME NEW k \in Nat, k \in T PROVE k + 1 \in T
  <2> SUFFICES ASSUME k + 1 <= n PROVE Kept(strings, k + 1, g[k + 1])
    OBVIOUS
  <2>1. Kept(strings, k, g[k])
    BY <1>3
  <2>2. PICK m, h : Chosen(strings, k, m, h) /\ g[k] = [i \in 1..m |-> FromString(strings[h[i]])]
    BY <2>1 DEF Kept
  <2>3. /\ m \in Nat /\ h \in [1..m -> 1..k]
        /\ \A i, j \in 1..m : i < j => h[i] < h[j]
        /\ \A i \in 1..m : IsValid(FromString(strings[h[i]]))
    BY <2>2 DEF Chosen
  <2>4. g[k + 1] = ParseStep(strings, g[k], k + 1)
    <3>1. k + 1 \in 1..n /\ (k + 1) - 1 = k
      OBVIOUS
    <3> QED BY <1>1, <3>1
  <2>5. CASE ~ IsValid(FromString(strings[k + 1]))
    <3>1. g[k + 1] = g[k]
      BY <2>4, <2>5 DEF ParseStep
    <3>2. Chosen(strings, k + 1, m, h)
      BY <2>3 DEF Chosen
    <3> QED BY <2>2, <3>1, <3>2 DEF Kept
  <2>6. CASE IsValid(FromString(strings[k + 1]))
    <3> DEFINE h2 == [i \in 1 .. m + 1 |-> IF i = m + 1 THEN k + 1 ELSE h[i]]
               F(i) == FromString(strings[i])
    <3>1. \A i \in 1..m : h2[i] = h[i] /\ i \in 1 .. m + 1 /\ h[i] \in 1..k
      BY <2>3
    <3>2. h2[m + 1] = k + 1
      BY <2>3
    <3>3. \A i \in 1 .. m + 1 : i = m + 1 \/ i \in 1..m
      BY <2>3
    <3>4. h2 \in [1 .. m + 1 -> 1 .. k + 1]
      BY <2>3
    <3> HIDE DEF h2
    <3>5. ASSUME NEW i \in 1 .. m + 1, NEW j \in 1 .. m + 1, i < j PROVE h2[i] < h2[j]
      <4>1. i \in 1..m /\ h2[i] = h[i] /\ h[i] \in 1..k
        BY <2>3, <3>1, <3>5
      <4>2. CASE j = m + 1
        BY <3>2, <4>1, <4>2
      <4>3. CASE j # m + 1
        BY <2>3, <3>1, <3>3, <3>5, <4>1, <4>3
      <4> QED BY <4>2, <4>3
    <3>6. ASSUME NEW i \in 1 .. m + 1 PROVE IsValid(FromString(strings[h2[i]]))
      BY <2>3, <2>6, <3>1, <3>2, <3>3
    <3>7. Chosen(strings, k + 1, m + 1, h2)
      BY <2>3, <3>4, <3>5, <3>6 DEF Chosen
    <3> DEFINE a == [i \in 1..m |-> F(h[i])]
               b == [i \in 1 .. m + 1 |-> F(h2[i])]
    <3>8. g[k + 1] = Append(a, F(k + 1))
      BY <2>2, <2>4, <2>6 DEF ParseStep
    <3>9. Append(a, F(k + 1)) = b
      <4> HIDE DEF F
      <4>1. Len(a) = m /\ Append(a, F(k + 1)) = [i \in 1 .. m + 1 |-> IF i = m + 1 THEN F(k + 1) ELSE a[i]]
        BY <2>3
      <4>2. ASSUME NEW i \in 1 .. m + 1 PROVE (IF i = m + 1 THEN F(k + 1) ELSE a[i]) = F(h2[i])
        BY <3>1, <3>2, <3>3
      <4> QED BY <4>1, <4>2
    <3>10. g[k + 1] = [i \in 1 .. m + 1 |-> FromString(strings[h2[i]])]
      BY <3>8, <3>9
    <3> QED BY <3>7, <3>10 DEF Kept
  <2> QED BY <2>5, <2>6
<1>4. Nat \subseteq T
  <2> HIDE DEF T
  <2> QED BY <1>2, <1>3, Induction
<1>5. n \in T
  <2> HIDE DEF T
  <2> QED BY <1>4
<1>6. Kept(strings, n, g[n])
  BY <1>5
<1> QED BY <1>1, <1>6

-----------------------------------------------------------------------------
(***************************************************************************)
(* The stream: the packets one after the other.                            *)
(***************************************************************************)

\* The bytes sent: packet i takes the places after Before(st, i) up to st[i].
Before(st, i) == IF i = 1 THEN 0 ELSE st[i - 1]

Layout(f, s, st) ==
  /\ f \in Seq(Packet) /\ s \in Seq(Byte) /\ st \in [1 .. Len(f) -> Nat]
  /\ Len(s) = Before(st, Len(f) + 1)
  /\ \A i \in 1 .. Len(f) :
       /\ st[i] = Before(st, i) + Len(Format(f[i]))
       /\ \A k \in 1 .. Len(Format(f[i])) : s[Before(st, i) + k] = Format(f[i])[k]

LEMMA FormatIsText ==
  ASSUME NEW p \in Packet
  PROVE  Format(p) \in Seq(Byte) /\ Len(Format(p)) \in Nat \ {0}
<1>1. PICK e : Laid(p, e)
  BY PacketLaid
<1>2. Format(p) \in Seq(Byte) /\ Len(Format(p)) = e[6] /\ e[0] = 0
  BY <1>1, LaidBytes
<1>3. e[0] + 1 < e[6] /\ e[6] \in Nat
  BY <1>1, LaidInOrder, LaidBytes
<1> QED BY <1>2, <1>3

LEMMA WireIsLaid == ASSUME NEW f \in Seq(Packet) PROVE Layout(f, Wire(f), Stops(f))
<1> DEFINE n == Len(f)
           q == [k \in 1..n |-> Format(f[k])]
           s == Wire(f)
           st == Stops(f)
<1>0. n \in Nat /\ DOMAIN f = 1..n /\ \A i \in 1..n : f[i] \in Packet
  OBVIOUS
<1>1. q \in [1..n -> Seq(Byte)]
  BY <1>0, FormatIsText
<1>2. PICK w : Chained(Byte, n, q, w)
  <2> HIDE DEF q
  <2> QED BY <1>0, <1>1, ChainExists
<1>3. ASSUME NEW i \in 0..n PROVE Wire(SubSeq(f, 1, i)) = w[i]
  <2> DEFINE g == SubSeq(f, 1, i)
  <2>1. DOMAIN g = 1..i /\ \A k \in 1..i : g[k] = f[k]
    BY <1>0
  <2>2. \A k \in 1..i : k \in 1..n
    BY <1>0
  <2> HIDE DEF g
  <2>3. [k \in DOMAIN g |-> Format(g[k])] = [k \in 1..i |-> q[k]]
    BY <2>1, <2>2
  <2>4. Wire(g) = FlattenSeq(Upto(q, i))
    BY <2>3 DEF Wire, Upto
  <2>5. FlattenSeq(Upto(q, i)) = w[i]
    <3> HIDE DEF q, n
    <3> QED BY <1>2, FlattenChain
  <2> QED BY <2>4, <2>5 DEF g
<1>4. s = w[n]
  <2>1. SubSeq(f, 1, n) = f
    OBVIOUS
  <2>2. n \in 0..n
    BY <1>0
  <2> QED BY <1>3, <2>1, <2>2
<1>5. \A i \in 1..n : st[i] = Len(w[i])
  <2>1. \A i \in 1..n : i \in 0..n
    BY <1>0
  <2> QED BY <1>0, <1>3, <2>1 DEF Stops
<1>w. \A i \in 0..n : w[i] \in Seq(Byte) /\ Len(w[i]) \in Nat
  <2>1. w \in [0..n -> Seq(Byte)]
    BY <1>2 DEF Chained
  <2> QED BY <2>1
<1>6. st \in [1..n -> Nat]
  <2>1. \A i \in 1..n : i \in 0..n
    BY <1>0
  <2>2. \A i \in 1..n : st[i] \in Nat
    BY <1>5, <1>w, <2>1
  <2>3. st = [i \in 1..n |-> Len(Wire(SubSeq(f, 1, i)))]
    BY <1>0 DEF Stops
  <2> HIDE DEF st, n
  <2> QED BY <2>2, <2>3
<1> HIDE DEF s, st
<1>7. w[0] = <<>> /\ \A i \in 1..n : w[i] = w[i - 1] \o q[i]
  BY <1>2 DEF Chained
<1>8. ASSUME NEW i \in 1 .. n + 1 PROVE Before(st, i) = Len(w[i - 1])
  <2>1. CASE i = 1
    BY <1>7, <2>1 DEF Before
  <2>2. CASE i # 1
    <3>1. i - 1 \in 1..n
      BY <1>0, <2>2
    <3> QED BY <1>5, <2>2, <3>1 DEF Before
  <2> QED BY <2>1, <2>2
<1>9. Len(s) = Before(st, n + 1)
  <2>1. n + 1 \in 1 .. n + 1 /\ (n + 1) - 1 = n
    BY <1>0
  <2> QED BY <1>4, <1>8, <2>1
<1>10. ASSUME NEW i \in 1..n
       PROVE  /\ st[i] = Before(st, i) + Len(Format(f[i]))
              /\ \A k \in 1 .. Len(Format(f[i])) : s[Before(st, i) + k] = Format(f[i])[k]
  <2> DEFINE x == Format(f[i])
             v == w[i - 1]
  <2>1. q[i] = x /\ x \in Seq(Byte) /\ Len(x) \in Nat
    BY <1>0, FormatIsText
  <2>2. i - 1 \in 0..n /\ i \in 0..n /\ i \in 1 .. n + 1
    BY <1>0
  <2>3. w[i] = v \o x /\ v \in Seq(Byte) /\ Len(v) \in Nat
    BY <1>7, <1>w, <2>1, <2>2
  <2>4. Before(st, i) = Len(v) /\ st[i] = Len(w[i])
    BY <1>5, <1>8, <2>2
  <2> HIDE DEF x, v
  <2>5. Len(w[i]) = Len(v) + Len(x) /\ \A k \in 1 .. Len(x) : w[i][Len(v) + k] = x[k]
    BY <2>1, <2>3
  <2>6. \A k \in 1 .. Len(w[i]) : w[n][k] = w[i][k]
    <3>1. n \in i..n /\ i \in 0..n
      BY <1>0
    <3> HIDE DEF q, n
    <3> QED BY <1>2, <3>1, ChainPrefixes
  <2>7. ASSUME NEW k \in 1 .. Len(x) PROVE s[Before(st, i) + k] = x[k]
    <3>1. Len(v) + k \in 1 .. Len(w[i])
      BY <2>1, <2>3, <2>5
    <3> QED BY <1>4, <2>4, <2>5, <2>6, <3>1
  <2> QED BY <2>4, <2>5, <2>7 DEF x
<1>11. s \in Seq(Byte)
  <2>1. n \in 0..n
    BY <1>0
  <2> QED BY <1>4, <1>w, <2>1
<1>12. Layout(f, s, st)
  BY <1>6, <1>9, <1>10, <1>11 DEF Layout
<1> QED BY <1>12 DEF s, st

\* The packets take up the stream from its first byte to its last.
LEMMA StopsInOrder ==
  ASSUME NEW f, NEW s, NEW st, Layout(f, s, st), NEW i \in 1 .. Len(f)
  PROVE  /\ Len(f) \in Nat /\ Len(s) \in Nat
         /\ f[i] \in Packet /\ Before(st, i) \in Nat /\ st[i] \in Nat
         /\ Before(st, i) < st[i] /\ st[i] <= Len(s)
         /\ st[i] = Before(st, i) + Len(Format(f[i])) /\ Before(st, i + 1) = st[i]
         /\ \A j \in i + 1 .. Len(f) : st[i] <= Before(st, j)
<1> DEFINE n == Len(f)
<1>0. /\ n \in Nat /\ Len(s) \in Nat /\ st \in [1..n -> Nat] /\ Len(s) = Before(st, n + 1)
      /\ \A k \in 1..n : f[k] \in Packet
      /\ \A k \in 1..n : st[k] = Before(st, k) + Len(Format(f[k]))
  BY DEF Layout
<1>1. ASSUME NEW k \in 1..n
      PROVE  /\ Before(st, k) \in Nat /\ st[k] \in Nat /\ Before(st, k) < st[k]
             /\ Before(st, k + 1) = st[k]
  <2>1. Before(st, k) \in Nat
    <3>1. CASE k = 1
      BY <3>1 DEF Before
    <3>2. CASE k # 1
      <4>1. k - 1 \in 1..n
        BY <1>0, <3>2
      <4> QED BY <1>0, <3>2, <4>1 DEF Before
    <3> QED BY <3>1, <3>2
  <2>2. Len(Format(f[k])) \in Nat \ {0}
    BY <1>0, FormatIsText
  <2>3. st[k] = Before(st, k) + Len(Format(f[k]))
    BY <1>0
  <2>4. Before(st, k + 1) = st[k]
    <3>1. k + 1 # 1 /\ (k + 1) - 1 = k
      BY <1>0
    <3> QED BY <3>1 DEF Before
  <2> QED BY <2>1, <2>2, <2>3, <2>4
<1> DEFINE T == {k \in Nat : i + k <= n => st[i] <= Before(st, i + (k + 1))}
<1>2. 0 \in T
  BY <1>1
<1>3. ASSUME NEW k \in Nat, k \in T PROVE k + 1 \in T
  <2> SUFFICES ASSUME i + (k + 1) <= n PROVE st[i] <= Before(st, i + ((k + 1) + 1))
    OBVIOUS
  <2> DEFINE j == i + (k + 1)
  <2>1. j \in 1..n /\ i + ((k + 1) + 1) = j + 1
    BY <1>0
  <2>2. st[i] <= Before(st, j)
    BY <1>0, <1>3
  <2>3. Before(st, j) < st[j] /\ Before(st, j + 1) = st[j] /\ Before(st, j) \in Nat /\ st[j] \in Nat
    BY <1>1, <2>1
  <2>4. st[i] \in Nat
    BY <1>1
  <2> HIDE DEF j
  <2> QED BY <2>1, <2>2, <2>3, <2>4
<1>4. Nat \subseteq T
  <2> HIDE DEF T
  <2> QED BY <1>2, <1>3, Induction
<1>5. ASSUME NEW j \in i + 1 .. n + 1 PROVE st[i] <= Before(st, j)
  <2>1. j - i - 1 \in Nat /\ i + (j - i - 1) <= n /\ i + ((j - i - 1) + 1) = j
    BY <1>0
  <2>2. j - i - 1 \in T
    <3> HIDE DEF T
    <3> QED BY <1>4, <2>1
  <2> QED BY <2>1, <2>2
<1>6. st[i] <= Len(s)
  <2>1. n + 1 \in i + 1 .. n + 1
    BY <1>0
  <2> QED BY <1>0, <1>5, <2>1
<1>7. \A j \in i + 1 .. n : st[i] <= Before(st, j)
  <2> SUFFICES ASSUME NEW j \in i + 1 .. n PROVE j \in i + 1 .. n + 1
    BY <1>5
  <2> QED BY <1>0
<1> QED BY <1>0, <1>1, <1>6, <1>7

LEMMA PlaceInPacket ==
  ASSUME NEW f, NEW s, NEW st, Layout(f, s, st), NEW x \in 1 .. Len(s)
  PROVE  \E i \in 1 .. Len(f) : Before(st, i) < x /\ x <= st[i]
<1> DEFINE n == Len(f)
<1>0. /\ n \in Nat /\ Len(s) \in Nat /\ st \in [1..n -> Nat] /\ Len(s) = Before(st, n + 1)
  BY DEF Layout
<1> DEFINE T == {i \in 1..n : x <= st[i]}
<1>1. n # 0
  BY <1>0 DEF Before
<1>2. n \in T
  <2>1. n + 1 # 1 /\ (n + 1) - 1 = n
    BY <1>0, <1>1
  <2> QED BY <1>0, <1>1, <2>1 DEF Before
<1>3. T \subseteq Nat /\ T # {}
  BY <1>2
<1>4. PICK i \in T : \A j \in T : i <= j
  <2> HIDE DEF T
  <2> QED BY <1>3, LeastNumber
<1>5. Before(st, i) < x
  <2>1. CASE i = 1
    BY <2>1 DEF Before
  <2>2. CASE i # 1
    <3>1. i - 1 \in 1..n /\ ~ (i <= i - 1)
      BY <1>0, <2>2
    <3>2. i - 1 \notin T
      BY <1>4, <3>1
    <3>3. ~ (x <= st[i - 1]) /\ st[i - 1] \in Nat
      BY <1>0, <3>1, <3>2
    <3> QED BY <1>0, <2>2, <3>3 DEF Before
  <2> QED BY <2>1, <2>2
<1> QED BY <1>4, <1>5

\* From lo to hi, s is what x is b places before.
PartAt(s, lo, hi, x, b) == SubSeq(s, lo, hi) = SubSeq(x, lo - b, hi - b)

\* What lies inside one packet is a part of it.
LEMMA PartOfPacket ==
  ASSUME NEW f, NEW s, NEW st, Layout(f, s, st), NEW i \in 1 .. Len(f),
         NEW lo \in Before(st, i) + 1 .. st[i], NEW hi \in lo .. st[i]
  PROVE  PartAt(s, lo, hi, Format(f[i]), Before(st, i))
<1> DEFINE x == Format(f[i])
           b == Before(st, i)
           y == SubSeq(s, lo, hi)
           z == SubSeq(x, lo - b, hi - b)
<1>1. /\ Len(s) \in Nat /\ f[i] \in Packet /\ b \in Nat /\ st[i] \in Nat
      /\ b < st[i] /\ st[i] <= Len(s) /\ st[i] = b + Len(x)
  BY StopsInOrder
<1>2. x \in Seq(Byte) /\ Len(x) \in Nat
  BY <1>1, FormatIsText
<1>3. s \in Seq(Byte) /\ \A k \in 1 .. Len(x) : s[b + k] = x[k]
  BY DEF Layout
<1>4. lo \in b + 1 .. st[i]
  OBVIOUS
<1> HIDE DEF x, b
<1>5. lo \in Nat /\ hi \in Nat /\ lo >= b + 1 /\ lo <= hi /\ hi <= st[i]
  BY <1>1, <1>4
<1>6. lo \in 1 .. Len(s) /\ hi \in lo .. Len(s)
  BY <1>1, <1>5
<1>7. lo - b \in 1 .. Len(x) /\ hi - b \in lo - b .. Len(x) /\ hi - b - (lo - b) + 1 = hi - lo + 1
  BY <1>1, <1>2, <1>5
<1>8. /\ y \in Seq(Byte) /\ Len(y) = hi - lo + 1
      /\ \A k \in 1 .. hi - lo + 1 : y[k] = s[lo - 1 + k]
  BY <1>3, <1>6, PartOfPart
<1>9. /\ z \in Seq(Byte) /\ Len(z) = hi - lo + 1
      /\ \A k \in 1 .. hi - lo + 1 : z[k] = x[lo - b - 1 + k]
  <2> DEFINE c == lo - b
             d == hi - b
  <2>1. c \in 1 .. Len(x) /\ d \in c .. Len(x) /\ d - c + 1 = hi - lo + 1
    BY <1>7
  <2>2. z = SubSeq(x, c, d)
    OBVIOUS
  <2> HIDE DEF c, d, z
  <2>3. /\ SubSeq(x, c, d) \in Seq(Byte) /\ Len(SubSeq(x, c, d)) = d - c + 1
        /\ \A k \in 1 .. d - c + 1 : SubSeq(x, c, d)[k] = x[c - 1 + k]
    BY <1>2, <2>1, PartOfPart
  <2>4. /\ z \in Seq(Byte) /\ Len(z) = hi - lo + 1
        /\ \A k \in 1 .. hi - lo + 1 : z[k] = x[c - 1 + k]
    BY <2>1, <2>2, <2>3
  <2> QED BY <2>4 DEF c
<1> HIDE DEF y, z
<1>10. ASSUME NEW k \in 1 .. Len(y) PROVE y[k] = z[k]
  <2>1. k \in 1 .. hi - lo + 1
    BY <1>8
  <2>2. lo - b - 1 + k \in 1 .. Len(x) /\ b + (lo - b - 1 + k) = lo - 1 + k
    BY <1>1, <1>2, <1>5, <2>1
  <2> QED BY <1>3, <1>8, <1>9, <2>1, <2>2
<1>11. y = z
  BY <1>8, <1>9, <1>10, SeqEqual
<1> QED BY <1>11 DEF x, b, y, z, PartAt

LEMMA NewlinesAreStops ==
  ASSUME NEW f, NEW s, NEW st, Layout(f, s, st), NEW i \in 1 .. Len(f),
         NEW x \in Before(st, i) + 1 .. st[i]
  PROVE  s[x] = NEWLINE <=> x = st[i]
<1> DEFINE b == Before(st, i)
           l == Len(Format(f[i]))
           k == x - b
<1>1. f[i] \in Packet /\ b \in Nat /\ st[i] = b + l /\ st[i] \in Nat
  BY StopsInOrder
<1>2. l \in Nat
  BY <1>1, FormatIsText
<1>3. \A j \in 1..l : s[b + j] = Format(f[i])[j]
  BY DEF Layout
<1>x. x \in b + 1 .. st[i]
  OBVIOUS
<1> HIDE DEF b, l
<1>4. k \in 1..l /\ b + k = x
  BY <1>1, <1>2, <1>x
<1>5. PICK e : Laid(f[i], e)
  BY <1>1, PacketLaid
<1>6. l = e[6]
  BY <1>5, LaidBytes DEF l
<1> HIDE DEF k
<1>7. Format(f[i])[k] = NEWLINE <=> k = e[6]
  BY <1>4, <1>5, <1>6, MarksAreEnds
<1>8. s[x] = Format(f[i])[k]
  BY <1>3, <1>4
<1> QED BY <1>1, <1>2, <1>4, <1>6, <1>7, <1>8

-----------------------------------------------------------------------------
(***************************************************************************)
(* A read: PacketUtil cuts the bytes of one recv into parts of packets.    *)
(***************************************************************************)

\* Bytes with no newline among them but the last are bytes of one packet.
LEMMA InsidePacket ==
  ASSUME NEW f, NEW s, NEW st, Layout(f, s, st),
         NEW lo \in 1 .. Len(s), NEW hi \in lo .. Len(s),
         \A x \in lo .. hi - 1 : s[x] # NEWLINE
  PROVE  \E i \in 1 .. Len(f) : Before(st, i) < lo /\ hi <= st[i]
<1>1. PICK i \in 1 .. Len(f) : Before(st, i) < lo /\ lo <= st[i]
  BY PlaceInPacket
<1>2. /\ Len(s) \in Nat /\ Before(st, i) \in Nat /\ st[i] \in Nat /\ Before(st, i) < st[i]
  BY StopsInOrder
<1>3. st[i] \in Before(st, i) + 1 .. st[i]
  BY <1>2
<1>4. s[st[i]] = NEWLINE
  BY <1>3, NewlinesAreStops
<1> DEFINE y == st[i]
<1>5. s[y] = NEWLINE /\ y \in Nat /\ lo <= y
  BY <1>1, <1>2, <1>4
<1> HIDE DEF y
<1>6. hi <= y
  <2>1. y \notin lo .. hi - 1
    BY <1>5
  <2> QED BY <1>2, <1>5, <2>1
<1> QED BY <1>1, <1>6 DEF y

\* The strings are parts of the n bytes after the first b, in order, and each
\* lies in one packet.
Cut(f, s, st, b, n, strings, lo, hi) ==
  /\ Len(strings) \in Nat
  /\ \A k \in 1 .. Len(strings) :
       /\ lo[k] \in b + 1 .. b + n /\ hi[k] \in lo[k] .. b + n
       /\ strings[k] = SubSeq(s, lo[k], hi[k])
       /\ \E i \in 1 .. Len(f) : Before(st, i) < lo[k] /\ hi[k] <= st[i]
  /\ \A k, l \in 1 .. Len(strings) : k < l => hi[k] < lo[l]

\* t has the n bytes of s after the first b.
After(s, b, n, t) ==
  /\ t \in Seq(Byte) /\ Len(t) = n /\ Len(s) \in Nat
  /\ \A k \in 1..n : t[k] = s[b + k]

LEMMA ReadPlaces ==
  ASSUME NEW f, NEW s, NEW st, Layout(f, s, st),
         NEW b \in Nat, NEW n \in Nat \ {0}, b + n <= Len(s)
  PROVE  After(s, b, n, SubSeq(s, b + 1, b + n))
<1>1. s \in Seq(Byte) /\ Len(s) \in Nat
  BY DEF Layout
<1> DEFINE u == b + 1  v == b + n
<1>2. u \in 1 .. Len(s) /\ v \in u .. Len(s) /\ v - u + 1 = n /\ u - 1 = b
  BY <1>1
<1> HIDE DEF u, v
<1>3. /\ SubSeq(s, u, v) \in Seq(Byte) /\ Len(SubSeq(s, u, v)) = v - u + 1
      /\ \A k \in 1 .. v - u + 1 : SubSeq(s, u, v)[k] = s[u - 1 + k]
  BY <1>1, <1>2, PartOfPart
<1> QED BY <1>1, <1>2, <1>3 DEF u, v, After

LEMMA WholeReadIsCut ==
  ASSUME NEW f, NEW s, NEW st, Layout(f, s, st),
         NEW b \in Nat, NEW n \in Nat \ {0}, b + n <= Len(s),
         ~ NeedsSplit(SubSeq(s, b + 1, b + n))
  PROVE  \E lo, hi : Cut(f, s, st, b, n, PacketsOf(SubSeq(s, b + 1, b + n)), lo, hi)
<1> DEFINE t == SubSeq(s, b + 1, b + n)
           D == Delimiters(t, NEWLINE)
           lo == [k \in 1..1 |-> b + 1]
           hi == [k \in 1..1 |-> b + n]
           c == b + 1  d == b + n
<1>1. t \in Seq(Byte) /\ Len(t) = n /\ Len(s) \in Nat /\ \A k \in 1..n : t[k] = s[b + k]
  <2>1. After(s, b, n, t)
    BY ReadPlaces
  <2> QED BY <2>1 DEF After
<1>2. PacketsOf(t) = <<t>>
  BY DEF PacketsOf
<1>3. FindFirst(t, D, 1) = n
  BY <1>1 DEF NeedsSplit
<1> HIDE DEF t
<1>4. D \subseteq 1 .. Len(t)
  BY <1>1 DEF Delimiters
<1>5. \A k \in D : n <= k
  <2> HIDE DEF D
  <2>1. \A k \in D : k >= 1 => FindFirst(t, D, 1) <= k
    BY <1>1, <1>4, FirstFound
  <2> QED BY <1>1, <1>3, <1>4, <2>1
<1>6. c \in 1 .. Len(s) /\ d \in c .. Len(s)
  BY <1>1
<1>7. ASSUME NEW x \in c .. d - 1 PROVE s[x] # NEWLINE
  <2>1. x - b \in 1..n /\ x - b < n /\ b + (x - b) = x
    OBVIOUS
  <2>2. x - b \notin D
    <3> HIDE DEF D
    <3> QED BY <1>5, <2>1
  <2>3. t[x - b] # NEWLINE
    BY <1>1, <2>1, <2>2 DEF Delimiters
  <2> QED BY <1>1, <2>1, <2>3
<1>8. \E i \in 1 .. Len(f) : Before(st, i) < c /\ d <= st[i]
  <2> HIDE DEF c, d
  <2> QED BY <1>6, <1>7, InsidePacket
<1>9. Len(<<t>>) = 1 /\ <<t>>[1] = t /\ 1..1 = {1} /\ lo[1] = c /\ hi[1] = d
  OBVIOUS
<1>10. c \in b + 1 .. b + n /\ d \in c .. b + n /\ t = SubSeq(s, c, d)
  BY DEF t
<1> HIDE DEF lo, hi, c, d
<1>11. Cut(f, s, st, b, n, <<t>>, lo, hi)
  BY <1>8, <1>9, <1>10 DEF Cut
<1> QED BY <1>2, <1>11 DEF t

LEMMA SplitReadIsCut ==
  ASSUME NEW f, NEW s, NEW st, Layout(f, s, st),
         NEW b \in Nat, NEW n \in Nat \ {0}, b + n <= Len(s),
         NeedsSplit(SubSeq(s, b + 1, b + n))
  PROVE  \E lo, hi : Cut(f, s, st, b, n, PacketsOf(SubSeq(s, b + 1, b + n)), lo, hi)
<1> DEFINE t == SubSeq(s, b + 1, b + n)
           D == Delimiters(t, NEWLINE)
<1>1. t \in Seq(Byte) /\ Len(t) = n /\ Len(s) \in Nat /\ \A k \in 1..n : t[k] = s[b + k]
  <2>1. After(s, b, n, t)
    BY ReadPlaces
  <2> QED BY <2>1 DEF After
<1>s. s \in Seq(Byte)
  BY DEF Layout
<1>2. PacketsOf(t) = Split(t, NEWLINE)
  BY DEF PacketsOf
<1>3. PICK m, a, z : InOrder(D, n, m, a, z)
  <2> HIDE DEF D
  <2> QED BY RunsExist, Zenon
<1>4. Split(t, NEWLINE) = [k \in 1..m |-> SubSeq(t, a[k], z[k])]
  <2> HIDE DEF t
  <2> QED BY <1>1, <1>3, SplitGivesRuns
<1> DEFINE lo == [k \in 1..m |-> b + a[k]]
           hi == [k \in 1..m |-> b + z[k]]
           strings == [k \in 1..m |-> SubSeq(t, a[k], z[k])]
<1>5. /\ m \in Nat /\ a \in [1..m -> 1..n] /\ z \in [1..m -> 1..n]
      /\ \A k \in 1..m : a[k] <= z[k] /\ \A j \in a[k] .. z[k] : j \notin D
      /\ \A k, l \in 1..m : k < l => z[k] + 1 < a[l]
  <2> HIDE DEF D
  <2> QED BY <1>3 DEF InOrder
<1>6. Len(strings) = m
  BY <1>5
<1>7. ASSUME NEW k \in 1..m
      PROVE  /\ lo[k] \in b + 1 .. b + n /\ hi[k] \in lo[k] .. b + n
             /\ strings[k] = SubSeq(s, lo[k], hi[k])
             /\ \E i \in 1 .. Len(f) : Before(st, i) < lo[k] /\ hi[k] <= st[i]
  <2> DEFINE c == a[k]  d == z[k]
  <2>1. /\ c \in 1..n /\ d \in 1..n /\ c <= d /\ \A j \in c .. d : j \notin D
        /\ lo[k] = b + c /\ hi[k] = b + d /\ strings[k] = SubSeq(t, c, d)
    <3> HIDE DEF D, t
    <3> QED BY <1>5
  <2> HIDE DEF c, d, lo, hi, strings, D
  <2>2. b + c \in b + 1 .. b + n /\ b + d \in b + c .. b + n
    BY <2>1
  <2>3. b + c \in 1 .. Len(s) /\ b + d \in b + c .. Len(s)
    <3> HIDE DEF t
    <3>1. c \in Nat /\ d \in Nat /\ 1 <= c /\ c <= d /\ d <= n
      BY <2>1
    <3> QED BY <1>1, <3>1
  <2>4. SubSeq(t, c, d) = SubSeq(s, b + c, b + d)
    <3> DEFINE u == b + 1  v == b + n
    <3>1. /\ u \in 1 .. Len(s) /\ v \in u .. Len(s) /\ u - 1 = b
          /\ c \in 1 .. v - u + 1 /\ d \in c .. v - u + 1
      BY <1>1, <2>1
    <3>2. t = SubSeq(s, u, v)
      OBVIOUS
    <3> HIDE DEF u, v, t
    <3>3. SubSeq(SubSeq(s, u, v), c, d) = SubSeq(s, u - 1 + c, u - 1 + d)
      BY <1>s, <3>1, SubPart
    <3> QED BY <3>1, <3>2, <3>3
  <2>5. ASSUME NEW x \in b + c .. (b + d) - 1 PROVE s[x] # NEWLINE
    <3>1. x - b \in 1..n /\ x - b \in c .. d /\ b + (x - b) = x
      BY <2>1
    <3>2. x - b \notin D
      BY <2>1, <3>1
    <3>3. x - b \in 1 .. Len(t)
      BY <1>1, <3>1
    <3>4. t[x - b] # NEWLINE
      <4> HIDE DEF t
      <4> QED BY <1>1, <3>2, <3>3 DEF D, Delimiters
    <3> QED BY <1>1, <3>1, <3>4
  <2>6. \E i \in 1 .. Len(f) : Before(st, i) < b + c /\ b + d <= st[i]
    <3> DEFINE x == b + c  y == b + d
    <3>1. x \in 1 .. Len(s) /\ y \in x .. Len(s) /\ \A j \in x .. y - 1 : s[j] # NEWLINE
      BY <2>3, <2>5
    <3> HIDE DEF x, y
    <3>2. \E i \in 1 .. Len(f) : Before(st, i) < x /\ y <= st[i]
      BY <3>1, InsidePacket
    <3> QED BY <3>2 DEF x, y
  <2> QED BY <2>1, <2>2, <2>4, <2>6
<1>8. ASSUME NEW k \in 1..m, NEW l \in 1..m, k < l PROVE hi[k] < lo[l]
  <2>1. hi[k] = b + z[k] /\ lo[l] = b + a[l] /\ z[k] + 1 < a[l] /\ z[k] \in Nat /\ a[l] \in Nat
    <3>1. \A j \in 1..n : j \in Nat
      OBVIOUS
    <3> HIDE DEF D, t
    <3> QED BY <1>5, <1>8, <3>1
  <2> QED BY <2>1
<1> HIDE DEF lo, hi, strings
<1>9. Cut(f, s, st, b, n, strings, lo, hi)
  BY <1>5, <1>6, <1>7, <1>8 DEF Cut
<1> QED BY <1>2, <1>4, <1>9 DEF strings, t

LEMMA ReadIsCut ==
  ASSUME NEW f, NEW s, NEW st, Layout(f, s, st),
         NEW b \in Nat, NEW n \in Nat \ {0}, b + n <= Len(s)
  PROVE  \E lo, hi : Cut(f, s, st, b, n, PacketsOf(SubSeq(s, b + 1, b + n)), lo, hi)
BY WholeReadIsCut, SplitReadIsCut

-----------------------------------------------------------------------------
(***************************************************************************)
(* Reads that end anywhere (FieldsBelongTogether).                         *)
(***************************************************************************)

\* Where the delimiter after the code of packet i is: a part of the packet that
\* is handled contains it, and each byte is read once.
Tick(f, st, i) == Before(st, i) + (CHOOSE e : Laid(f[i], e))[1]

LEMMA PlacesApart ==
  ASSUME NEW e, Places(e)
  PROVE  /\ e[1] \in Nat /\ e[5] \in Nat /\ e[6] \in Nat
         /\ 0 < e[1] /\ e[1] < e[5] /\ e[1] < e[6]
<1> DEFINE a == e[1]  b == e[2]  c == e[3]  d == e[4]  x == e[5]  y == e[6]
<1>1. /\ a \in Nat /\ b \in Nat /\ c \in Nat /\ d \in Nat /\ x \in Nat /\ y \in Nat
      /\ 1 < a /\ a + 1 < b /\ b + 1 < c /\ c + 1 < d /\ d + 1 < x /\ x + 1 < y
  <2>1. 1 \in 0..6 /\ 2 \in 0..6 /\ 3 \in 0..6 /\ 4 \in 0..6 /\ 5 \in 0..6 /\ 6 \in 0..6
    OBVIOUS
  <2> QED BY <2>1 DEF Places
<1> HIDE DEF a, b, c, d, x, y
<1>2. a \in Nat /\ x \in Nat /\ y \in Nat /\ 0 < a /\ a < x /\ a < y
  BY <1>1
<1> QED BY <1>2 DEF a, x, y

LEMMA TickPlace ==
  ASSUME NEW f, NEW s, NEW st, Layout(f, s, st), NEW i \in 1 .. Len(f)
  PROVE  Tick(f, st, i) \in Nat /\ Before(st, i) < Tick(f, st, i) /\ Tick(f, st, i) <= st[i]
<1> DEFINE e == CHOOSE e : Laid(f[i], e)
<1>1. /\ f[i] \in Packet /\ Before(st, i) \in Nat
      /\ st[i] = Before(st, i) + Len(Format(f[i]))
  BY StopsInOrder
<1>2. Laid(f[i], e)
  BY <1>1, PacketLaid
<1> HIDE DEF e
<1>3. Len(Format(f[i])) = e[6]
  BY <1>2, LaidBytes
<1>4. Places(e)
  BY <1>2, LaidPlaces
<1>5. e[1] \in Nat /\ e[6] \in Nat /\ 0 < e[1] /\ e[1] < e[6]
  BY <1>4, PlacesApart
<1>6. Tick(f, st, i) = Before(st, i) + e[1]
  BY DEF Tick, e
<1> QED BY <1>1, <1>3, <1>5, <1>6

LEMMA TicksInOrder ==
  ASSUME NEW f, NEW s, NEW st, Layout(f, s, st),
         NEW i \in 1 .. Len(f), NEW j \in 1 .. Len(f), Tick(f, st, i) < Tick(f, st, j)
  PROVE  i < j
<1>1. /\ Tick(f, st, i) \in Nat /\ Before(st, i) < Tick(f, st, i) /\ Tick(f, st, i) <= st[i]
      /\ Tick(f, st, j) \in Nat /\ Before(st, j) < Tick(f, st, j) /\ Tick(f, st, j) <= st[j]
  BY TickPlace
<1>2. /\ Len(f) \in Nat /\ st[i] \in Nat /\ st[j] \in Nat /\ Before(st, i) \in Nat
      /\ \A l \in j + 1 .. Len(f) : st[j] <= Before(st, l)
  BY StopsInOrder
<1>3. i \in Nat /\ j \in Nat
  OBVIOUS
<1>4. CASE i = j
  BY <1>1, <1>4
<1>5. CASE j < i
  <2>1. i \in j + 1 .. Len(f)
    BY <1>2, <1>3, <1>5
  <2>2. st[j] <= Before(st, i)
    BY <1>2, <2>1
  <2> QED BY <1>1, <1>2, <2>2
<1> QED BY <1>3, <1>4, <1>5

\* What is handled of a packet has its user and its message, and its first tick.
LEMMA PartHandled ==
  ASSUME NEW f, NEW s, NEW st, Layout(f, s, st), NEW i \in 1 .. Len(f),
         NEW lo \in Nat, NEW hi \in Nat, lo <= hi, Before(st, i) < lo, hi <= st[i],
         IsValid(FromString(SubSeq(s, lo, hi)))
  PROVE  /\ FromString(SubSeq(s, lo, hi)).user = f[i].user
         /\ FromString(SubSeq(s, lo, hi)).msg = f[i].msg
         /\ lo < Tick(f, st, i) /\ Tick(f, st, i) <= hi
<1> DEFINE e == CHOOSE e : Laid(f[i], e)
           b == Before(st, i)
           u == lo - b
           v == hi - b
<1>1. /\ f[i] \in Packet /\ b \in Nat /\ st[i] \in Nat
      /\ st[i] = b + Len(Format(f[i]))
  BY StopsInOrder
<1>2. Laid(f[i], e)
  BY <1>1, PacketLaid
<1>3. Tick(f, st, i) = b + e[1]
  BY DEF Tick
<1> HIDE DEF e
<1>4. Len(Format(f[i])) = e[6]
  BY <1>2, LaidBytes
<1>5. Places(e)
  BY <1>2, LaidPlaces
<1>6. e[1] \in Nat /\ e[5] \in Nat /\ e[6] \in Nat /\ e[1] < e[5]
  BY <1>5, PlacesApart
<1>7. SubSeq(s, lo, hi) = SubSeq(Format(f[i]), u, v)
  <2>1. lo \in Before(st, i) + 1 .. st[i] /\ hi \in lo .. st[i]
    BY <1>1
  <2>2. SubSeq(s, lo, hi) = SubSeq(Format(f[i]), lo - Before(st, i), hi - Before(st, i))
    <3> HIDE DEF b, u, v
    <3>1. PartAt(s, lo, hi, Format(f[i]), Before(st, i))
      BY <2>1, PartOfPacket
    <3> QED BY <3>1 DEF PartAt
  <2> QED BY <2>2
<1>8. u \in 1 .. e[6] /\ v \in u .. e[6]
  <2> HIDE DEF b
  <2>1. b < lo /\ hi <= st[i]
    BY DEF b
  <2> QED BY <1>1, <1>4, <1>6, <2>1
<1> HIDE DEF u, v
<1>9. /\ u < e[1] /\ e[5] < v
      /\ FromString(SubSeq(Format(f[i]), u, v)).user = f[i].user
      /\ FromString(SubSeq(Format(f[i]), u, v)).msg = f[i].msg
  BY <1>2, <1>7, <1>8, PartFields
<1>10. lo < b + e[1] /\ b + e[1] <= hi
  <2> HIDE DEF b, e
  <2>1. u = lo - b /\ v = hi - b
    BY DEF u, v
  <2> QED BY <1>1, <1>6, <1>9, <2>1
<1> QED BY <1>3, <1>7, <1>9, <1>10

\* The handled packets are from different packets sent, in the order in which
\* they were sent, and nothing of those after the first b bytes.
HandledFrom(hd, f, st, b) ==
  \E n \in Nat : \E g \in [1..n -> 1 .. Len(f)] :
    /\ hd = [i \in 1..n |-> hd[i]]
    /\ \A i \in 1..n : /\ hd[i].user = f[g[i]].user /\ hd[i].msg = f[g[i]].msg
                       /\ Tick(f, st, g[i]) <= b
    /\ \A i, j \in 1..n : i < j => g[i] < g[j]

Listed(x, n) == n \in Nat /\ x = [i \in 1..n |-> x[i]]

Behind(w, m, x, n, y) ==
  /\ w = [i \in 1 .. m + n |-> w[i]]
  /\ \A i \in 1..m : w[i] = x[i]
  /\ \A i \in 1..n : w[m + i] = y[i]

LEMMA TwoParts ==
  ASSUME NEW m, NEW n, NEW x, NEW y, Listed(x, m), Listed(y, n)
  PROVE  Behind(x \o y, m, x, n, y)
<1> USE DEF Listed
<1>1. m \in Nat /\ n \in Nat /\ Len(x) = m /\ Len(y) = n
  OBVIOUS
<1>2. x \o y = [i \in 1 .. m + n |-> IF i <= m THEN x[i] ELSE y[i - m]]
  <2>1. x \o y = [i \in 1 .. Len(x) + Len(y) |-> IF i <= Len(x) THEN x[i] ELSE y[i - Len(x)]]
    OBVIOUS
  <2> QED BY <1>1, <2>1
<1> QED BY <1>1, <1>2 DEF Behind

\* One more read.
LEMMA ReadHandled ==
  ASSUME NEW f, NEW s, NEW st, Layout(f, s, st),
         NEW b \in Nat, NEW n \in Nat \ {0}, b + n <= Len(s),
         NEW hd, HandledFrom(hd, f, st, b)
  PROVE  HandledFrom(hd \o Parsed(PacketsOf(SubSeq(s, b + 1, b + n))), f, st, b + n)
<1> DEFINE strings == PacketsOf(SubSeq(s, b + 1, b + n))
           o == Parsed(strings)
           x == hd \o o
<1>1. PICK lo, hi : Cut(f, s, st, b, n, strings, lo, hi)
  <2> HIDE DEF strings
  <2>1. \E lo, hi : Cut(f, s, st, b, n, PacketsOf(SubSeq(s, b + 1, b + n)), lo, hi)
    BY ReadIsCut
  <2> QED BY <2>1 DEF strings
<1> HIDE DEF strings
<1> DEFINE m == Len(strings)
           H(k, i) == Before(st, i) < lo[k] /\ hi[k] <= st[i]
           G == [k \in 1..m |-> CHOOSE i \in 1 .. Len(f) : H(k, i)]
<1>2. /\ m \in Nat
      /\ \A k \in 1..m :
           /\ lo[k] \in b + 1 .. b + n /\ hi[k] \in lo[k] .. b + n
           /\ strings[k] = SubSeq(s, lo[k], hi[k])
           /\ \E i \in 1 .. Len(f) : H(k, i)
      /\ \A k, l \in 1..m : k < l => hi[k] < lo[l]
  BY <1>1 DEF Cut
<1>3. \A k \in 1..m : G[k] \in 1 .. Len(f) /\ H(k, G[k])
  <2> HIDE DEF H, m
  <2> QED BY <1>2
<1> HIDE DEF G
<1>4. Kept(strings, m, o)
  BY <1>2, ParsedKeeps
<1>5. PICK c, h : Chosen(strings, m, c, h) /\ o = [i \in 1..c |-> FromString(strings[h[i]])]
  BY <1>4 DEF Kept
<1>6. /\ c \in Nat /\ h \in [1..c -> 1..m]
      /\ \A i, j \in 1..c : i < j => h[i] < h[j]
      /\ \A i \in 1..c : IsValid(FromString(strings[h[i]]))
  BY <1>5 DEF Chosen
<1> HIDE DEF o, m
<1>7. ASSUME NEW i \in 1..c
      PROVE  /\ G[h[i]] \in 1 .. Len(f)
             /\ o[i].user = f[G[h[i]]].user /\ o[i].msg = f[G[h[i]]].msg
             /\ b < Tick(f, st, G[h[i]]) /\ Tick(f, st, G[h[i]]) <= b + n
             /\ lo[h[i]] < Tick(f, st, G[h[i]]) /\ Tick(f, st, G[h[i]]) <= hi[h[i]]
  <2> DEFINE k == h[i]  l == lo[k]  r == hi[k]  p == G[k]
  <2>1. k \in 1..m /\ o[i] = FromString(strings[k]) /\ IsValid(FromString(strings[k]))
    BY <1>5, <1>6
  <2>2. /\ p \in 1 .. Len(f) /\ Before(st, p) < l /\ r <= st[p]
        /\ l \in b + 1 .. b + n /\ r \in l .. b + n /\ strings[k] = SubSeq(s, l, r)
    BY <1>2, <1>3, <2>1
  <2> HIDE DEF k, l, r, p
  <2>3. l \in Nat /\ r \in Nat /\ l <= r
    BY <2>2
  <2>4. /\ FromString(SubSeq(s, l, r)).user = f[p].user
        /\ FromString(SubSeq(s, l, r)).msg = f[p].msg
        /\ l < Tick(f, st, p) /\ Tick(f, st, p) <= r
    BY <2>1, <2>2, <2>3, PartHandled
  <2>5. Tick(f, st, p) \in Nat
    BY <2>2, TickPlace
  <2>6. b < Tick(f, st, p) /\ Tick(f, st, p) <= b + n
    BY <2>2, <2>3, <2>4, <2>5
  <2> QED BY <2>1, <2>2, <2>4, <2>6 DEF k, l, r, p
<1>8. PICK d \in Nat : \E g \in [1..d -> 1 .. Len(f)] :
        /\ hd = [i \in 1..d |-> hd[i]]
        /\ \A i \in 1..d : /\ hd[i].user = f[g[i]].user /\ hd[i].msg = f[g[i]].msg
                           /\ Tick(f, st, g[i]) <= b
        /\ \A i, j \in 1..d : i < j => g[i] < g[j]
  BY DEF HandledFrom
<1>9. PICK g \in [1..d -> 1 .. Len(f)] :
        /\ hd = [i \in 1..d |-> hd[i]]
        /\ \A i \in 1..d : /\ hd[i].user = f[g[i]].user /\ hd[i].msg = f[g[i]].msg
                           /\ Tick(f, st, g[i]) <= b
        /\ \A i, j \in 1..d : i < j => g[i] < g[j]
  BY <1>8
<1>10. /\ x = [i \in 1 .. d + c |-> x[i]]
       /\ \A i \in 1..d : x[i] = hd[i]
       /\ \A i \in 1..c : x[d + i] = o[i]
  <2>1. hd = [i \in 1..d |-> hd[i]] /\ o = [i \in 1..c |-> o[i]]
    BY <1>5, <1>9
  <2>2. Listed(hd, d) /\ Listed(o, c)
    BY <1>6, <1>8, <2>1 DEF Listed
  <2>3. Behind(hd \o o, d, hd, c, o)
    BY <2>2, TwoParts
  <2> QED BY <2>3 DEF Behind
<1> HIDE DEF x
<1> DEFINE e == [i \in 1 .. d + c |-> IF i <= d THEN g[i] ELSE G[h[i - d]]]
<1>11. \A i \in 1 .. d + c : (i \in 1..d /\ i <= d) \/ (i - d \in 1..c /\ ~ (i <= d) /\ d + (i - d) = i)
  BY <1>6
<1>12. \A i \in 1 .. d + c : /\ i <= d => e[i] = g[i] /\ i \in 1..d
                             /\ ~ (i <= d) => e[i] = G[h[i - d]] /\ i - d \in 1..c
  BY <1>11
<1>13. e \in [1 .. d + c -> 1 .. Len(f)]
  <2>1. \A i \in 1..d : g[i] \in 1 .. Len(f)
    BY <1>9
  <2>2. \A i \in 1..c : G[h[i]] \in 1 .. Len(f)
    BY <1>7
  <2> QED BY <1>11, <2>1, <2>2
<1> HIDE DEF e
<1>14. ASSUME NEW i \in 1 .. d + c
       PROVE  /\ x[i].user = f[e[i]].user /\ x[i].msg = f[e[i]].msg
              /\ Tick(f, st, e[i]) <= b + n
  <2>1. CASE i <= d
    <3>1. x[i] = hd[i] /\ e[i] = g[i] /\ i \in 1..d
      BY <1>10, <1>12, <2>1
    <3>2. g[i] \in 1 .. Len(f)
      BY <3>1
    <3>3. Tick(f, st, g[i]) \in Nat
      BY <3>2, TickPlace
    <3>4. Tick(f, st, g[i]) <= b
      BY <1>9, <3>1
    <3>5. Tick(f, st, g[i]) <= b + n
      BY <3>3, <3>4
    <3> QED BY <1>9, <3>1, <3>5
  <2>2. CASE ~ (i <= d)
    <3>1. i - d \in 1..c /\ e[i] = G[h[i - d]] /\ d + (i - d) = i
      BY <1>11, <1>12, <2>2
    <3>2. x[i] = o[i - d]
      BY <1>10, <3>1
    <3> QED BY <1>7, <3>1, <3>2
  <2> QED BY <2>1, <2>2
<1>15. ASSUME NEW i \in 1 .. d + c, NEW j \in 1 .. d + c, i < j PROVE e[i] < e[j]
  <2>1. CASE j <= d
    <3>1. i <= d
      BY <1>15, <2>1
    <3> QED BY <1>9, <1>12, <1>15, <2>1, <3>1
  <2>2. CASE ~ (j <= d)
    <3> DEFINE k == h[j - d]  q == G[k]
    <3>1. j - d \in 1..c /\ e[j] = q
      BY <1>12, <2>2
    <3>2. q \in 1 .. Len(f) /\ b < Tick(f, st, q) /\ lo[k] < Tick(f, st, q)
      BY <1>7, <3>1
    <3>3. Tick(f, st, q) \in Nat
      <4> HIDE DEF q
      <4> QED BY <3>2, TickPlace
    <3>4. CASE i <= d
      <4> DEFINE p == g[i]
      <4>1. i \in 1..d /\ e[i] = p
        BY <1>12, <3>4
      <4>2. p \in 1 .. Len(f) /\ Tick(f, st, p) <= b
        BY <1>9, <4>1
      <4> HIDE DEF p, q, k
      <4>3. Tick(f, st, p) \in Nat
        BY <4>2, TickPlace
      <4>4. Tick(f, st, p) < Tick(f, st, q)
        BY <3>2, <3>3, <4>2, <4>3
      <4>5. p < q
        BY <3>2, <4>2, <4>4, TicksInOrder
      <4> QED BY <3>1, <4>1, <4>5
    <3>5. CASE ~ (i <= d)
      <4> DEFINE l == h[i - d]  p == G[l]
      <4>1. i - d \in 1..c /\ e[i] = p /\ i - d < j - d
        BY <1>11, <1>12, <1>15, <2>2, <3>5
      <4>2. p \in 1 .. Len(f) /\ Tick(f, st, p) <= hi[l]
        BY <1>7, <4>1
      <4>3. l < k /\ l \in 1..m /\ k \in 1..m
        BY <1>6, <3>1, <4>1
      <4> HIDE DEF p, q, k, l
      <4>4. hi[l] < lo[k] /\ lo[l] \in b + 1 .. b + n /\ hi[l] \in lo[l] .. b + n /\ lo[k] \in b + 1 .. b + n
        BY <1>2, <4>3
      <4>5. Tick(f, st, p) \in Nat
        BY <4>2, TickPlace
      <4>6. Tick(f, st, p) < Tick(f, st, q)
        BY <3>2, <3>3, <4>2, <4>4, <4>5
      <4>7. p < q
        BY <3>2, <4>2, <4>6, TicksInOrder
      <4> QED BY <3>1, <4>1, <4>7
    <3> QED BY <3>4, <3>5
  <2> QED BY <2>1, <2>2
<1>16. d + c \in Nat
  BY <1>6
<1>17. HandledFrom(x, f, st, b + n)
  BY <1>10, <1>13, <1>14, <1>15, <1>16 DEF HandledFrom
<1> QED BY <1>17 DEF x, o, strings

-----------------------------------------------------------------------------
(***************************************************************************)
(* Reads that end where packets end (WholeReadsLoseNothing).               *)
(***************************************************************************)

LEMMA StopsMonotone ==
  ASSUME NEW f, NEW s, NEW st, Layout(f, s, st),
         NEW i \in 1 .. Len(f), NEW j \in 1 .. Len(f), i <= j
  PROVE  st[i] <= st[j]
<1>1. /\ Len(f) \in Nat /\ st[i] \in Nat /\ st[j] \in Nat /\ Before(st, j) < st[j]
      /\ Before(st, j) \in Nat /\ \A l \in i + 1 .. Len(f) : st[i] <= Before(st, l)
  BY StopsInOrder
<1>2. i \in Nat /\ j \in Nat /\ j <= Len(f)
  BY <1>1
<1>3. CASE i = j
  BY <1>1, <1>3
<1>4. CASE i # j
  <2>1. j \in i + 1 .. Len(f)
    BY <1>1, <1>2, <1>4
  <2>2. st[i] <= Before(st, j)
    BY <1>1, <2>1
  <2> QED BY <1>1, <2>2
<1> QED BY <1>3, <1>4

LEMMA PacketLong ==
  ASSUME NEW f, NEW s, NEW st, Layout(f, s, st), NEW i \in 1 .. Len(f)
  PROVE  Before(st, i) \in Nat /\ st[i] \in Nat /\ Before(st, i) + 1 < st[i]
<1>1. f[i] \in Packet /\ Before(st, i) \in Nat /\ st[i] = Before(st, i) + Len(Format(f[i]))
  BY StopsInOrder
<1>2. PICK e : Laid(f[i], e)
  BY <1>1, PacketLaid
<1>3. Len(Format(f[i])) = e[6] /\ Places(e)
  BY <1>2, LaidBytes, LaidPlaces
<1>4. e[1] \in Nat /\ e[6] \in Nat /\ 0 < e[1] /\ e[1] < e[6]
  BY <1>3, PlacesApart
<1> QED BY <1>1, <1>3, <1>4

\* The bytes from y[1] to y[2] are what FromString reads packet i from.
Reads(f, s, st, i, lo, hi) == lo = Before(st, i) + 1 /\ hi \in {st[i] - 1, st[i]}

LEMMA WholePacketRead ==
  ASSUME NEW f, NEW s, NEW st, Layout(f, s, st), NEW i \in 1 .. Len(f),
         NEW lo, NEW hi, Reads(f, s, st, i, lo, hi)
  PROVE  FromString(SubSeq(s, lo, hi)) = f[i]
<1> DEFINE b == Before(st, i)
<1>1. f[i] \in Packet /\ st[i] = b + Len(Format(f[i]))
  BY StopsInOrder
<1>2. b \in Nat /\ st[i] \in Nat /\ b + 1 < st[i]
  BY PacketLong
<1>3. PICK e : Laid(f[i], e)
  BY <1>1, PacketLaid
<1>4. Len(Format(f[i])) = e[6] /\ \A j \in 0..6 : e[j] \in Nat
  BY <1>3, LaidBytes
<1>5. lo = b + 1 /\ hi \in {st[i] - 1, st[i]}
  BY DEF Reads
<1>6. lo \in Before(st, i) + 1 .. st[i] /\ hi \in lo .. st[i]
  BY <1>2, <1>5
<1>7. PartAt(s, lo, hi, Format(f[i]), b)
  BY <1>6, PartOfPacket
<1> HIDE DEF b
<1>8. e[6] \in Nat
  BY <1>4
<1>9. lo - b = 1 /\ hi - b \in {e[6] - 1, e[6]}
  <2> DEFINE c == e[6]  d == st[i]
  <2>1. c \in Nat /\ d = b + c /\ (hi = d - 1 \/ hi = d) /\ lo = b + 1
    BY <1>1, <1>4, <1>5, <1>8
  <2> HIDE DEF c, d
  <2>2. lo - b = 1 /\ (hi - b = c - 1 \/ hi - b = c)
    BY <1>2, <2>1
  <2> QED BY <2>2 DEF c
<1> DEFINE v == hi - b
<1>10. SubSeq(s, lo, hi) = SubSeq(Format(f[i]), 1, v) /\ v \in {e[6] - 1, e[6]}
  BY <1>7, <1>9 DEF PartAt
<1> HIDE DEF v
<1>11. FromString(SubSeq(Format(f[i]), 1, v)) = f[i]
  BY <1>1, <1>3, <1>10, PacketSurvives
<1> QED BY <1>10, <1>11

\* No string is dropped when all of them are packets.
LEMMA ParsedAll ==
  ASSUME NEW n \in Nat, NEW strings, Len(strings) = n,
         \A i \in 1..n : IsValid(FromString(strings[i]))
  PROVE  Parsed(strings) = [i \in 1..n |-> FromString(strings[i])]
<1> DEFINE F(i) == FromString(strings[i])
<1>1. PICK g : /\ g[0] = <<>> /\ \A i \in 1..n : g[i] = ParseStep(strings, g[i - 1], i)
               /\ Parsed(strings) = g[n]
  BY ParsedChain
<1>2. \A i \in 1..n : g[i] = Append(g[i - 1], F(i))
  BY <1>1 DEF ParseStep
<1> HIDE DEF F
<1> DEFINE T == {k \in Nat : k <= n => g[k] = [i \in 1..k |-> F(i)]}
<1>3. 0 \in T
  <2>1. g[0] = [i \in 1..0 |-> F(i)]
    BY <1>1
  <2> QED BY <2>1
<1>4. ASSUME NEW k \in Nat, k \in T PROVE k + 1 \in T
  <2> SUFFICES ASSUME k + 1 <= n PROVE g[k + 1] = [i \in 1 .. k + 1 |-> F(i)]
    OBVIOUS
  <2>1. k + 1 \in 1..n /\ (k + 1) - 1 = k
    OBVIOUS
  <2>2. g[k] = [i \in 1..k |-> F(i)]
    BY <1>4
  <2>3. g[k + 1] = Append([i \in 1..k |-> F(i)], F(k + 1))
    BY <1>2, <2>1, <2>2
  <2> QED BY <2>3
<1>5. Nat \subseteq T
  <2> HIDE DEF T
  <2> QED BY <1>3, <1>4, Induction
<1>6. n \in T
  <2> HIDE DEF T
  <2> QED BY <1>5
<1>7. g[n] = [i \in 1..n |-> F(i)]
  BY <1>6
<1> QED BY <1>1, <1>7 DEF F

\* The strings are packets j + 1 to i, one each.
Whole(f, s, st, j, i, strings, lo, hi) ==
  /\ Len(strings) = i - j
  /\ \A k \in 1 .. i - j : /\ strings[k] = SubSeq(s, lo[k], hi[k])
                           /\ Reads(f, s, st, j + k, lo[k], hi[k])

LEMMA WholeParsed ==
  ASSUME NEW f, NEW s, NEW st, Layout(f, s, st),
         NEW j \in 0 .. Len(f), NEW i \in j + 1 .. Len(f),
         NEW strings, NEW lo, NEW hi, Whole(f, s, st, j, i, strings, lo, hi)
  PROVE  Parsed(strings) = [k \in 1 .. i - j |-> f[j + k]]
<1> DEFINE n == i - j
<1>1. Len(f) \in Nat
  BY DEF Layout
<1>2. n \in Nat /\ \A k \in 1..n : j + k \in 1 .. Len(f)
  BY <1>1
<1> HIDE DEF n
<1>3. Len(strings) = n /\ \A k \in 1..n : strings[k] = SubSeq(s, lo[k], hi[k]) /\ Reads(f, s, st, j + k, lo[k], hi[k])
  BY DEF Whole, n
<1>4. ASSUME NEW k \in 1..n PROVE FromString(strings[k]) = f[j + k] /\ f[j + k] \in Packet
  <2> DEFINE p == j + k  l == lo[k]  h == hi[k]
  <2>1. p \in 1 .. Len(f) /\ strings[k] = SubSeq(s, l, h) /\ Reads(f, s, st, p, l, h)
    BY <1>2, <1>3
  <2> HIDE DEF p, l, h
  <2>2. FromString(SubSeq(s, l, h)) = f[p] /\ f[p] \in Packet
    BY <2>1, WholePacketRead, StopsInOrder
  <2> QED BY <2>1, <2>2 DEF p
<1>5. ASSUME NEW k \in 1..n PROVE IsValid(FromString(strings[k]))
  <2> DEFINE p == f[j + k]
  <2>1. FromString(strings[k]) = p /\ p \in Packet
    BY <1>4
  <2> HIDE DEF p
  <2>2. p.code \in Code
    BY <2>1 DEF Packet
  <2>3. p.code < 10000
    BY <2>2, CodeFits
  <2>4. p.code # INVALID_CODE
    BY <2>3 DEF INVALID_CODE
  <2> QED BY <2>1, <2>4 DEF IsValid
<1>6. Parsed(strings) = [k \in 1..n |-> FromString(strings[k])]
  BY <1>2, <1>3, <1>5, ParsedAll
<1> QED BY <1>4, <1>6 DEF n

\* The packets after the first j begin where those end.
LEMMA RestInOrder ==
  ASSUME NEW f, NEW s, NEW st, Layout(f, s, st), NEW j \in 0 .. Len(f)
  PROVE  /\ Before(st, j + 1) \in Nat
         /\ \A p \in j + 1 .. Len(f) : Before(st, j + 1) <= Before(st, p)
         /\ \A p \in 1 .. j : st[p] <= Before(st, j + 1)
<1>0. Len(f) \in Nat
  BY DEF Layout
<1>1. CASE j = 0
  <2>1. Before(st, j + 1) = 0
    BY <1>1 DEF Before
  <2>2. \A p \in j + 1 .. Len(f) : Before(st, p) \in Nat
    BY <1>0, <1>1, StopsInOrder
  <2>3. 1 .. j = {}
    BY <1>1
  <2> QED BY <2>1, <2>2, <2>3
<1>2. CASE j # 0
  <2>1. j \in 1 .. Len(f)
    BY <1>0, <1>2
  <2>2. /\ Before(st, j + 1) = st[j] /\ st[j] \in Nat
        /\ \A p \in j + 1 .. Len(f) : st[j] <= Before(st, p)
    BY <2>1, StopsInOrder
  <2>3. ASSUME NEW p \in 1 .. j PROVE st[p] <= st[j]
    <3>1. p \in 1 .. Len(f) /\ p <= j
      BY <1>0, <2>1
    <3> QED BY <2>1, <3>1, StopsMonotone
  <2> QED BY <2>2, <2>3
<1> QED BY <1>1, <1>2

\* What comes in one read.
LEMMA OnePacket ==
  ASSUME NEW f, NEW s, NEW st, Layout(f, s, st),
         NEW j \in 0 .. Len(f), NEW i \in j + 1 .. Len(f), i = j + 1
  PROVE  \E lo, hi : Whole(f, s, st, j, i, PacketsOf(SubSeq(s, Before(st, j + 1) + 1, st[i])), lo, hi)
<1> DEFINE b == Before(st, j + 1)
           n == st[i] - b
           t == SubSeq(s, b + 1, b + n)
           D == Delimiters(t, NEWLINE)
<1>0. Len(f) \in Nat
  BY DEF Layout
<1>1. i \in 1 .. Len(f) /\ i - j = 1 /\ j + 1 = i
  BY <1>0
<1>2. b = Before(st, i)
  BY <1>1
<1>3. b \in Nat /\ st[i] \in Nat /\ b + 1 < st[i] /\ st[i] <= Len(s) /\ Len(s) \in Nat
  BY <1>1, <1>2, PacketLong, StopsInOrder
<1>4. n \in Nat \ {0} /\ b + n = st[i] /\ b + n <= Len(s)
  BY <1>3
<1> HIDE DEF n, b
<1>5. t \in Seq(Byte) /\ Len(t) = n /\ \A k \in 1..n : t[k] = s[b + k]
  <2>1. After(s, b, n, t)
    BY <1>3, <1>4, ReadPlaces
  <2> QED BY <2>1 DEF After
<1> HIDE DEF t
<1>6. \A k \in 1..n : t[k] = NEWLINE <=> k = n
  <2> SUFFICES ASSUME NEW k \in 1..n PROVE t[k] = NEWLINE <=> k = n
    OBVIOUS
  <2> DEFINE x == b + k
  <2>1. x \in Before(st, i) + 1 .. st[i] /\ (x = st[i] <=> k = n)
    BY <1>2, <1>3, <1>4
  <2> HIDE DEF x
  <2>2. s[x] = NEWLINE <=> x = st[i]
    BY <1>1, <2>1, NewlinesAreStops
  <2> QED BY <1>5, <2>1, <2>2 DEF x
<1>7. D = {n}
  BY <1>4, <1>5, <1>6 DEF Delimiters
<1>8. FindFirst(t, D, 1) = n
  <2> DEFINE x == FindFirst(t, {n}, 1)
  <2>1. {n} \subseteq 1 .. Len(t) /\ Len(t) \in Nat /\ 1 \in Nat
    BY <1>4, <1>5
  <2>2. x \in {n} \cup {Len(t) + 1} /\ \A k \in {n} : k >= 1 => x <= k
    BY <2>1, FirstFound
  <2> HIDE DEF x
  <2>3. x = n
    BY <1>4, <1>5, <2>2
  <2> QED BY <1>7, <2>3 DEF x
<1>9. PacketsOf(t) = <<t>>
  BY <1>5, <1>8 DEF PacketsOf, NeedsSplit
<1> DEFINE lo == [k \in 1..1 |-> b + 1]
           hi == [k \in 1..1 |-> b + n]
<1>10. Len(<<t>>) = 1 /\ <<t>>[1] = t /\ 1..1 = {1} /\ lo[1] = b + 1 /\ hi[1] = b + n
  OBVIOUS
<1> HIDE DEF lo, hi
<1>11. Reads(f, s, st, i, lo[1], hi[1])
  BY <1>2, <1>4, <1>10 DEF Reads
<1>12. Whole(f, s, st, j, i, <<t>>, lo, hi)
  BY <1>1, <1>10, <1>11 DEF Whole, t
<1> QED BY <1>4, <1>9, <1>12 DEF t, b

\* Places of the stream from b on.
LEMMA Shifted ==
  ASSUME NEW b \in Nat, NEW n \in Nat, NEW c \in Nat, NEW d \in Nat,
         b <= c, c + 1 < d, d <= b + n
  PROVE  /\ (c + 1) - b \in 1..n /\ (d - 1) - b \in 1..n
         /\ (c + 1) - b <= (d - 1) - b /\ (d - 1) - b < n
OBVIOUS

LEMMA ShiftedInside ==
  ASSUME NEW b \in Nat, NEW n \in Nat, NEW c \in Nat, NEW d \in Nat, b <= c, d <= b + n,
         NEW u, NEW v, u = (c + 1) - b, v = (d - 1) - b, NEW x \in u .. v
  PROVE  x \in 1..n /\ c < b + x /\ b + x <= d /\ b + x # d
<1>1. x \in Int /\ u <= x /\ x <= v
  OBVIOUS
<1>2. (c + 1) - b <= x /\ x <= (d - 1) - b
  BY <1>1
<1>3. c < b + x /\ b + x < d /\ 1 <= x
  BY <1>1, <1>2
<1> QED BY <1>1, <1>3

LEMMA ShiftedOutside ==
  ASSUME NEW b \in Nat, NEW n \in Nat, NEW c \in Nat, NEW d \in Nat,
         NEW u, NEW v, u = (c + 1) - b, v = (d - 1) - b,
         NEW x \in 1..n, c < b + x, b + x <= d, b + x # d
  PROVE  u <= x /\ x <= v
<1>1. x \in Nat
  OBVIOUS
<1>2. (c + 1) - b <= x
  BY <1>1
<1>3. x <= (d - 1) - b
  BY <1>1
<1> QED BY <1>2, <1>3

LEMMA SeveralPackets ==
  ASSUME NEW f, NEW s, NEW st, Layout(f, s, st),
         NEW j \in 0 .. Len(f), NEW i \in j + 1 .. Len(f), i # j + 1
  PROVE  \E lo, hi : Whole(f, s, st, j, i, PacketsOf(SubSeq(s, Before(st, j + 1) + 1, st[i])), lo, hi)
<1> DEFINE b == Before(st, j + 1)
           n == st[i] - b
           m == i - j
           t == SubSeq(s, b + 1, b + n)
           D == Delimiters(t, NEWLINE)
           B(k) == Before(st, j + k)
           E(k) == st[j + k]
           a == [k \in 1..m |-> (B(k) + 1) - b]
           z == [k \in 1..m |-> (E(k) - 1) - b]
<1>0. Len(f) \in Nat /\ Len(s) \in Nat /\ s \in Seq(Byte)
  BY DEF Layout
<1>1. /\ i \in 1 .. Len(f) /\ m \in Nat /\ 1 \in 1..m /\ m \in 1..m /\ j + m = i /\ m > 1
      /\ \A k \in 1..m : j + k \in j + 1 .. Len(f) /\ j + k \in 1 .. Len(f) /\ j + k <= i
                         /\ (k < m => j + k < i)
  BY <1>0
<1>2. b \in Nat /\ st[i] \in Nat /\ b < st[i] /\ st[i] <= Len(s)
  <2>1. b \in Nat /\ b <= Before(st, i)
    BY RestInOrder
  <2>2. Before(st, i) \in Nat /\ st[i] \in Nat /\ Before(st, i) < st[i] /\ st[i] <= Len(s)
    BY <1>1, StopsInOrder
  <2> QED BY <2>1, <2>2
<1>3. n \in Nat \ {0} /\ b + n = st[i] /\ b + n <= Len(s)
  BY <1>0, <1>2
<1> HIDE DEF n
<1>4. t \in Seq(Byte) /\ Len(t) = n /\ \A k \in 1..n : t[k] = s[b + k]
  <2>1. After(s, b, n, t)
    <3> HIDE DEF b
    <3> QED BY <1>2, <1>3, ReadPlaces
  <2> QED BY <2>1 DEF After
<1>5. ASSUME NEW k \in 1..m
      PROVE  /\ B(k) \in Nat /\ E(k) \in Nat /\ B(k) + 1 < E(k)
             /\ b <= B(k) /\ E(k) <= b + n
  <2> DEFINE p == j + k
  <2>1. p \in j + 1 .. Len(f) /\ p \in 1 .. Len(f) /\ p <= i
    BY <1>1
  <2> HIDE DEF p
  <2>2. Before(st, p) \in Nat /\ st[p] \in Nat /\ Before(st, p) + 1 < st[p]
    BY <2>1, PacketLong
  <2>3. b <= Before(st, p)
    BY <2>1, RestInOrder
  <2>4. st[p] <= st[i]
    BY <1>1, <2>1, StopsMonotone
  <2> QED BY <1>3, <2>2, <2>3, <2>4 DEF p
<1>6. ASSUME NEW k \in 1..m, NEW l \in 1..m, k < l PROVE E(k) <= B(l)
  <2> DEFINE p == j + k  q == j + l
  <2>1. p \in 1 .. Len(f) /\ q \in p + 1 .. Len(f)
    BY <1>0, <1>6
  <2> HIDE DEF p, q
  <2>2. st[p] <= Before(st, q)
    BY <2>1, StopsInOrder
  <2> QED BY <2>2 DEF p, q
\* Every byte of the read belongs to one of the packets.
<1>7. ASSUME NEW x \in 1..n PROVE \E k \in 1..m : B(k) < b + x /\ b + x <= E(k)
  <2> DEFINE y == b + x
  <2>1. y \in 1 .. Len(s) /\ b < y /\ y <= st[i] /\ y \in Nat
    BY <1>0, <1>2, <1>3
  <2> HIDE DEF y
  <2>2. PICK p \in 1 .. Len(f) : Before(st, p) < y /\ y <= st[p]
    BY <2>1, PlaceInPacket
  <2>3. p \in Nat /\ st[p] \in Nat /\ Before(st, p) \in Nat
    BY <1>0, StopsInOrder
  <2>4. ~ (p <= j)
    <3> SUFFICES ASSUME p <= j PROVE FALSE
      OBVIOUS
    <3>1. st[p] <= b
      <4>1. p \in 1 .. j
        BY <1>0
      <4> QED BY <4>1, RestInOrder
    <3> QED BY <1>2, <2>1, <2>2, <2>3, <3>1
  <2>5. ~ (p > i)
    <3> SUFFICES ASSUME p > i PROVE FALSE
      OBVIOUS
    <3>1. p \in i + 1 .. Len(f)
      BY <1>0, <1>1
    <3>2. st[i] <= Before(st, p)
      BY <1>1, <3>1, StopsInOrder
    <3> QED BY <1>2, <2>1, <2>2, <2>3, <3>2
  <2>6. p - j \in 1..m /\ j + (p - j) = p
    BY <1>0, <1>1, <2>3, <2>4, <2>5
  <2> QED BY <2>2, <2>6 DEF y
<1>8. ASSUME NEW x \in 1..n, NEW k \in 1..m, B(k) < b + x, b + x <= E(k)
      PROVE  x \in D <=> b + x = E(k)
  <2> DEFINE p == j + k  y == b + x
  <2>1. p \in 1 .. Len(f) /\ y \in Before(st, p) + 1 .. st[p]
    <3>1. p \in 1 .. Len(f) /\ Before(st, p) \in Nat /\ st[p] \in Nat
      BY <1>1, <1>5
    <3>2. Before(st, p) < y /\ y <= st[p]
      BY <1>8
    <3>3. y \in Nat
      BY <1>2
    <3> HIDE DEF p, y
    <3> QED BY <3>1, <3>2, <3>3
  <2>2. t[x] = s[y]
    <3> HIDE DEF t
    <3> QED BY <1>4
  <2> HIDE DEF p, y
  <2>3. s[y] = NEWLINE <=> y = st[p]
    BY <2>1, NewlinesAreStops
  <2>4. x \in D <=> t[x] = NEWLINE
    <3> HIDE DEF t
    <3> QED BY <1>4 DEF Delimiters
  <2> QED BY <2>2, <2>3, <2>4 DEF p, y
<1> HIDE DEF B, E, t, D, m
<1>9. \A k \in 1..m : /\ a[k] = (B(k) + 1) - b /\ z[k] = (E(k) - 1) - b
                      /\ a[k] \in 1..n /\ z[k] \in 1..n /\ a[k] <= z[k] /\ z[k] < n
  <2> SUFFICES ASSUME NEW k \in 1..m
               PROVE  /\ a[k] = (B(k) + 1) - b /\ z[k] = (E(k) - 1) - b
                      /\ a[k] \in 1..n /\ z[k] \in 1..n /\ a[k] <= z[k] /\ z[k] < n
    OBVIOUS
  <2> DEFINE c == B(k)  d == E(k)
  <2>1. c \in Nat /\ d \in Nat /\ c + 1 < d /\ b <= c /\ d <= b + n
    BY <1>5
  <2>2. a[k] = (c + 1) - b /\ z[k] = (d - 1) - b
    OBVIOUS
  <2> HIDE DEF c, d, a, z
  <2> QED BY <1>2, <1>3, <2>1, <2>2 DEF c, d
<1>10. a \in [1..m -> 1..n] /\ z \in [1..m -> 1..n]
  BY <1>9
<1> HIDE DEF a, z
<1>11. ASSUME NEW k \in 1..m, NEW x \in a[k] .. z[k] PROVE x \notin D
  <2> DEFINE c == B(k)  d == E(k)
  <2>1. c \in Nat /\ d \in Nat /\ b <= c
    BY <1>5
  <2>2. a[k] = (c + 1) - b /\ z[k] = (d - 1) - b /\ z[k] < n
    BY <1>9
  <2>b. d <= b + n
    BY <1>5
  <2>u. b \in Nat /\ n \in Nat
    BY <1>2, <1>3
  <2> DEFINE u == a[k]  v == z[k]
  <2>v. u = (c + 1) - b /\ v = (d - 1) - b /\ x \in u .. v
    BY <2>2
  <2> HIDE DEF c, d, b, u, v
  <2>3. x \in 1..n /\ c < b + x /\ b + x <= d /\ b + x # d
    BY <2>1, <2>b, <2>u, <2>v, ShiftedInside
  <2> QED BY <1>8, <2>3 DEF c, d
<1>12. ASSUME NEW k \in 1..m, NEW l \in 1..m, k < l PROVE z[k] + 1 < a[l]
  <2> DEFINE d == E(k)  c == B(l)
  <2>1. c \in Nat /\ d \in Nat /\ d <= c
    BY <1>5, <1>6, <1>12
  <2>2. a[l] = (c + 1) - b /\ z[k] = (d - 1) - b
    BY <1>9
  <2> HIDE DEF c, d
  <2> QED BY <1>2, <2>1, <2>2
<1>13. ASSUME NEW x \in 1..n, x \notin D PROVE \E k \in 1..m : a[k] <= x /\ x <= z[k]
  <2>1. PICK k \in 1..m : B(k) < b + x /\ b + x <= E(k)
    BY <1>7
  <2>2. b + x # E(k)
    BY <1>8, <1>13, <2>1
  <2> DEFINE c == B(k)  d == E(k)
  <2>3. c \in Nat /\ d \in Nat /\ c < b + x /\ b + x <= d /\ b + x # d
    BY <1>5, <2>1, <2>2
  <2>4. a[k] = (c + 1) - b /\ z[k] = (d - 1) - b
    BY <1>9
  <2>u. b \in Nat /\ n \in Nat
    BY <1>2, <1>3
  <2> DEFINE u == a[k]  v == z[k]
  <2>v. u = (c + 1) - b /\ v = (d - 1) - b
    BY <2>4
  <2> HIDE DEF c, d, b, u, v
  <2>w. u <= x /\ x <= v
    BY <2>3, <2>u, <2>v, ShiftedOutside
  <2>5. a[k] <= x /\ x <= z[k]
    BY <2>w DEF u, v
  <2> QED BY <2>5
<1>14. InOrder(D, Len(t), m, a, z)
  BY <1>1, <1>4, <1>9, <1>10, <1>11, <1>12, <1>13 DEF InOrder
<1>15. Split(t, NEWLINE) = [k \in 1..m |-> SubSeq(t, a[k], z[k])]
  BY <1>4, <1>14, SplitGivesRuns DEF D
<1>16. FindFirst(t, D, 1) # n
  <2> DEFINE x == FindFirst(t, D, 1)
             d == E(1) - b
  <2>1. D \subseteq 1 .. Len(t) /\ Len(t) \in Nat /\ 1 \in Nat
    BY <1>3, <1>4 DEF D, Delimiters
  <2>2. \A k \in D : k >= 1 => x <= k
    BY <2>1, FirstFound
  <2>3. E(1) \in Nat /\ E(1) <= B(m) /\ B(m) + 1 < E(m) /\ E(m) <= b + n /\ b <= B(1) /\ B(1) + 1 < E(1)
        /\ B(1) \in Nat /\ B(m) \in Nat /\ E(m) \in Nat
    BY <1>1, <1>5, <1>6
  <2>4. d \in 1..n /\ d < n /\ b + d = E(1) /\ B(1) < b + d
    <3> DEFINE e1 == E(1)  bm == B(m)  em == E(m)  b1 == B(1)
    <3>1. /\ e1 \in Nat /\ e1 <= bm /\ bm + 1 < em /\ em <= b + n /\ b <= b1 /\ b1 + 1 < e1
          /\ b1 \in Nat /\ bm \in Nat /\ em \in Nat
      BY <2>3
    <3> HIDE DEF e1, bm, em, b1
    <3>2. e1 - b \in 1..n /\ e1 - b < n /\ b + (e1 - b) = e1 /\ b1 < b + (e1 - b)
      BY <1>2, <1>3, <3>1
    <3> QED BY <3>2 DEF e1, b1
  <2> HIDE DEF d
  <2>5. d \in D
    <3>1. b + d <= E(1)
      BY <2>3, <2>4
    <3> QED BY <1>1, <1>8, <2>4, <3>1
  <2>6. d >= 1
    BY <2>4
  <2>7. x <= d
    <3> HIDE DEF x
    <3> QED BY <2>2, <2>5, <2>6
  <2> HIDE DEF x
  <2>8. x # n
    BY <1>3, <2>4, <2>7
  <2> QED BY <2>8 DEF x
<1>17. PacketsOf(t) = [k \in 1..m |-> SubSeq(t, a[k], z[k])]
  BY <1>4, <1>15, <1>16 DEF PacketsOf, NeedsSplit, D
<1> DEFINE lo == [k \in 1..m |-> B(k) + 1]
           hi == [k \in 1..m |-> E(k) - 1]
           strings == [k \in 1..m |-> SubSeq(t, a[k], z[k])]
<1>18. ASSUME NEW k \in 1..m
       PROVE  strings[k] = SubSeq(s, lo[k], hi[k]) /\ Reads(f, s, st, j + k, lo[k], hi[k])
  <2>1. strings[k] = SubSeq(t, a[k], z[k]) /\ lo[k] = B(k) + 1 /\ hi[k] = E(k) - 1
    OBVIOUS
  <2> HIDE DEF strings, lo, hi
  <2>2. Reads(f, s, st, j + k, lo[k], hi[k])
    BY <2>1 DEF Reads, B, E
  <2> DEFINE u == b + 1  v == b + n  c == a[k]  d == z[k]
  <2>3. c \in 1..n /\ d \in 1..n /\ c <= d /\ c = (B(k) + 1) - b /\ d = (E(k) - 1) - b
        /\ B(k) \in Nat /\ E(k) \in Nat
    BY <1>5, <1>9
  <2>4. t = SubSeq(s, u, v)
    BY DEF t
  <2> HIDE DEF c, d
  <2>5. /\ u \in 1 .. Len(s) /\ v \in u .. Len(s) /\ u - 1 = b
        /\ c \in 1 .. v - u + 1 /\ d \in c .. v - u + 1
    <3>1. b \in Nat /\ n \in Nat /\ n # 0 /\ b + n <= Len(s)
      BY <1>2, <1>3
    <3>2. c \in 1..n /\ d \in 1..n /\ c <= d
      BY <2>3
    <3> HIDE DEF b
    <3>3. u \in 1 .. Len(s) /\ v \in u .. Len(s) /\ u - 1 = b /\ v - u + 1 = n
      BY <1>0, <3>1
    <3> HIDE DEF u, v
    <3> QED BY <3>2, <3>3
  <2> HIDE DEF u, v
  <2>6. SubSeq(SubSeq(s, u, v), c, d) = SubSeq(s, u - 1 + c, u - 1 + d)
    BY <1>0, <2>5, SubPart
  <2> DEFINE bk == B(k)  ek == E(k)
  <2>7. bk \in Nat /\ ek \in Nat /\ c = (bk + 1) - b /\ d = (ek - 1) - b
    BY <2>3
  <2> HIDE DEF bk, ek
  <2>8. u - 1 + c = bk + 1 /\ u - 1 + d = ek - 1
    <3>1. u - 1 = b /\ b \in Nat
      BY <1>2, <2>5
    <3> HIDE DEF b
    <3>2. b + c = bk + 1 /\ b + d = ek - 1
      BY <2>7, <3>1
    <3> QED BY <3>1, <3>2
  <2> QED BY <2>1, <2>2, <2>4, <2>6, <2>8 DEF c, d, bk, ek
<1>19. Len(strings) = m
  BY <1>1
<1> HIDE DEF strings, lo, hi
<1>20. Whole(f, s, st, j, i, strings, lo, hi)
  BY <1>18, <1>19 DEF Whole, m
<1> QED BY <1>3, <1>17, <1>20 DEF strings, t

\* Such a read gives every packet in it, complete and in order.
LEMMA WholeReadParsed ==
  ASSUME NEW f, NEW s, NEW st, Layout(f, s, st),
         NEW j \in 0 .. Len(f), NEW i \in j + 1 .. Len(f)
  PROVE  Parsed(PacketsOf(SubSeq(s, Before(st, j + 1) + 1, st[i]))) = [k \in 1 .. i - j |-> f[j + k]]
<1> DEFINE strings == PacketsOf(SubSeq(s, Before(st, j + 1) + 1, st[i]))
<1>1. \E lo, hi : Whole(f, s, st, j, i, strings, lo, hi)
  BY OnePacket, SeveralPackets
<1> HIDE DEF strings
<1>2. PICK lo, hi : Whole(f, s, st, j, i, strings, lo, hi)
  BY <1>1
<1>3. Parsed(strings) = [k \in 1 .. i - j |-> f[j + k]]
  BY <1>2, WholeParsed
<1> QED BY <1>3 DEF strings

-----------------------------------------------------------------------------
(***************************************************************************)
(* Login's one read (GrantComesAlone).                                     *)
(***************************************************************************)

Covers(a, z, k, x) == a[k] <= x /\ x <= z[k]

\* Two places with a delimiter between them are in different runs.
LEMMA NextRun ==
  ASSUME NEW D, NEW len \in Nat, NEW m, NEW a, NEW z, InOrder(D, len, m, a, z),
         NEW x \in 1..len, NEW y \in 1..len, NEW d \in D, x < d, d < y, d \in Nat,
         NEW k \in 1..m, NEW l \in 1..m, Covers(a, z, k, x), Covers(a, z, l, y)
  PROVE  k < l
<1>1. /\ m \in Nat /\ a[k] \in 1..len /\ z[k] \in 1..len /\ a[l] \in 1..len /\ z[l] \in 1..len
      /\ \A j \in a[k] .. z[k] : j \notin D
      /\ l < k => z[l] + 1 < a[k]
  BY DEF InOrder
<1> DEFINE ak == a[k]  zk == z[k]  al == a[l]  zl == z[l]
<1>2. /\ ak \in Nat /\ zk \in Nat /\ al \in Nat /\ zl \in Nat
      /\ ak <= x /\ x <= zk /\ al <= y /\ y <= zl /\ (l < k => zl + 1 < ak)
      /\ \A j \in ak .. zk : j \notin D
  BY <1>1 DEF Covers
<1>3. x \in Nat /\ y \in Nat /\ k \in Nat /\ l \in Nat
  BY <1>1
<1>4. k = l => zk = zl
  OBVIOUS
<1> HIDE DEF ak, zk, al, zl
<1>5. d \notin ak .. zk
  BY <1>2
<1>6. zk < d
  BY <1>2, <1>3, <1>5
<1>7. k # l
  BY <1>2, <1>3, <1>4, <1>6
<1>8. ~ (l < k)
  BY <1>2, <1>3
<1> QED BY <1>3, <1>7, <1>8

\* Seven places with delimiters between them: more than six runs.
LEMMA SevenRuns ==
  ASSUME NEW D, NEW len \in Nat, NEW m, NEW a, NEW z, InOrder(D, len, m, a, z),
         NEW x, NEW d,
         \A j \in 1..7 : x[j] \in 1..len /\ x[j] \notin D,
         \A j \in 1..6 : d[j] \in D /\ d[j] \in Nat /\ x[j] < d[j] /\ d[j] < x[j + 1]
  PROVE  m # 6
<1>1. ASSUME NEW j \in 1..7 PROVE \E k \in 1..m : Covers(a, z, k, x[j])
  <2>1. \A y \in 1..len : y \notin D => \E k \in 1..m : a[k] <= y /\ y <= z[k]
    BY DEF InOrder
  <2>2. \E k \in 1..m : a[k] <= x[j] /\ x[j] <= z[k]
    BY <2>1
  <2> QED BY <2>2 DEF Covers
<1> DEFINE r == [j \in 1..7 |-> CHOOSE k \in 1..m : Covers(a, z, k, x[j])]
<1>2. \A j \in 1..7 : r[j] \in 1..m /\ Covers(a, z, r[j], x[j])
  BY <1>1
<1> HIDE DEF r
<1>3. m \in Nat
  BY DEF InOrder
<1>4. ASSUME NEW j \in 1..6 PROVE r[j] < r[j + 1]
  <2> DEFINE k == r[j]  l == r[j + 1]  u == x[j]  v == x[j + 1]  c == d[j]
  <2>1. j \in 1..7 /\ j + 1 \in 1..7
    OBVIOUS
  <2>2. /\ k \in 1..m /\ l \in 1..m /\ u \in 1..len /\ v \in 1..len
        /\ c \in D /\ c \in Nat /\ u < c /\ c < v
        /\ Covers(a, z, k, u) /\ Covers(a, z, l, v)
    BY <1>2, <2>1
  <2> HIDE DEF k, l, u, v, c
  <2>3. k < l
    BY <2>2, NextRun
  <2> QED BY <2>3 DEF k, l
<1>5. /\ r[1] < r[2] /\ r[2] < r[3] /\ r[3] < r[4] /\ r[4] < r[5] /\ r[5] < r[6] /\ r[6] < r[7]
  <2>1. 1 + 1 = 2 /\ 2 + 1 = 3 /\ 3 + 1 = 4 /\ 4 + 1 = 5 /\ 5 + 1 = 6 /\ 6 + 1 = 7
        /\ 1 \in 1..6 /\ 2 \in 1..6 /\ 3 \in 1..6 /\ 4 \in 1..6 /\ 5 \in 1..6 /\ 6 \in 1..6
    OBVIOUS
  <2> QED BY <1>4, <2>1
<1>6. /\ r[1] \in 1..m /\ r[2] \in 1..m /\ r[3] \in 1..m /\ r[4] \in 1..m /\ r[5] \in 1..m
      /\ r[6] \in 1..m /\ r[7] \in 1..m
  BY <1>2
<1> DEFINE r1 == r[1]  r2 == r[2]  r3 == r[3]  r4 == r[4]  r5 == r[5]  r6 == r[6]  r7 == r[7]
<1>7. /\ r1 \in Nat /\ r2 \in Nat /\ r3 \in Nat /\ r4 \in Nat /\ r5 \in Nat /\ r6 \in Nat /\ r7 \in Nat
      /\ r1 >= 1 /\ r7 <= m
      /\ r1 < r2 /\ r2 < r3 /\ r3 < r4 /\ r4 < r5 /\ r5 < r6 /\ r6 < r7
  BY <1>3, <1>5, <1>6
<1> HIDE DEF r1, r2, r3, r4, r5, r6, r7
<1>8. r2 >= 2 /\ r3 >= 3 /\ r4 >= 4
  BY <1>7
<1>9. r5 >= 5 /\ r6 >= 6 /\ r7 >= 7
  BY <1>7, <1>8
<1> QED BY <1>3, <1>7, <1>9

\* The first run of a text that begins with none of the delimiters.
LEMMA FirstRun ==
  ASSUME NEW D, NEW len \in Nat, NEW m, NEW a, NEW z, InOrder(D, len, m, a, z),
         m > 1, 1 \notin D
  PROVE  a[1] = 1 /\ z[1] + 1 \in 1..len /\ z[1] + 1 \in D /\ z[1] \in Nat
<1>1. /\ m \in Nat /\ a \in [1..m -> 1..len] /\ z \in [1..m -> 1..len]
      /\ \A k, l \in 1..m : k < l => z[k] + 1 < a[l]
      /\ \A j \in 1..len : j \notin D => \E k \in 1..m : a[k] <= j /\ j <= z[k]
  BY DEF InOrder
<1>2. 1 \in 1..m /\ 1 \in 1 .. m - 1
  BY <1>1
<1>3. 1 \in 1..len /\ a[1] \in 1..len /\ z[1] \in 1..len
  BY <1>1, <1>2
<1>4. PICK k \in 1..m : a[k] <= 1 /\ 1 <= z[k]
  BY <1>1, <1>3
<1>5. a[k] \in 1..len /\ a[k] = 1
  BY <1>1, <1>4
<1>6. k = 1
  <2>1. k # 1 => z[1] + 1 < a[k]
    BY <1>1, <1>2
  <2> QED BY <1>3, <1>5, <2>1
<1>7. z[1] + 1 \in 1..len /\ z[1] + 1 \in D
  BY <1>2, GapIsDelimiter
<1> QED BY <1>3, <1>5, <1>6, <1>7

\* A field does not begin with a tick.
LEMMA FieldBegins ==
  ASSUME NEW p, NEW e, Laid(p, e), NEW j \in 1..6
  PROVE  Format(p)[e[j - 1] + 1] # TICK
<1> DEFINE q == Fields(p)[j]
<1>1. q \in Field /\ Len(q) \in Nat \ {0}
  BY LaidField
<1>2. q \in Seq(Char)
  BY <1>1, FieldIsText
<1>3. 1 \in 1 .. Len(q)
  BY <1>1
<1>4. Format(p)[e[j - 1] + 1] = q[1]
  BY <1>3, LaidByte
<1> HIDE DEF q
<1>5. q[1] \in Char
  BY <1>2, <1>3
<1> QED BY <1>4, <1>5, SpecialBytes

LEMMA StreamByte ==
  ASSUME NEW f, NEW s, NEW st, Layout(f, s, st), NEW i \in 1 .. Len(f),
         NEW e, Laid(f[i], e), NEW k \in 1 .. e[6]
  PROVE  s[Before(st, i) + k] = Format(f[i])[k]
<1>1. Len(Format(f[i])) = e[6]
  BY LaidBytes
<1> QED BY <1>1 DEF Layout

\* The code of a first read with six fields is that of the first packet.
LEMMA FirstCode ==
  ASSUME NEW f, NEW s, NEW st, Layout(f, s, st), 1 \in 1 .. Len(f),
         NEW n \in Nat \ {0}, n <= Len(s),
         Len(Split(SubSeq(s, 1, n), TICK)) = 6
  PROVE  FromString(SubSeq(s, 1, n)).code = f[1].code
<1> DEFINE t == SubSeq(s, 1, n)
           D == Delimiters(t, TICK)
           p == f[1]
<1>1. t \in Seq(Byte) /\ Len(t) = n /\ Len(s) \in Nat /\ s \in Seq(Byte) /\ \A k \in 1..n : t[k] = s[k]
  <2>1. s \in Seq(Byte) /\ Len(s) \in Nat
    BY DEF Layout
  <2>2. 1 \in 1 .. Len(s) /\ n \in 1 .. Len(s) /\ n - 1 + 1 = n
    BY <2>1
  <2>3. /\ SubSeq(s, 1, n) \in Seq(Byte) /\ Len(SubSeq(s, 1, n)) = n - 1 + 1
        /\ \A k \in 1 .. n - 1 + 1 : SubSeq(s, 1, n)[k] = s[1 - 1 + k]
    BY <2>1, <2>2, PartOfPart
  <2> QED BY <2>1, <2>2, <2>3
<1>2. PICK m, a, z : InOrder(D, n, m, a, z)
  <2> HIDE DEF D
  <2> QED BY RunsExist, Zenon
<1>3. Split(t, TICK) = [k \in 1..m |-> SubSeq(t, a[k], z[k])]
  <2> HIDE DEF t
  <2> QED BY <1>1, <1>2, SplitGivesRuns
<1>4. m = 6 /\ Split(t, TICK)[1] = SubSeq(t, a[1], z[1])
  <2>1. m \in Nat
    BY <1>2 DEF InOrder
  <2>2. Len(Split(t, TICK)) = m
    <3> HIDE DEF t
    <3> QED BY <1>3, <2>1
  <2>3. m = 6
    BY <2>2
  <2>4. 1 \in 1..m
    BY <2>3
  <2> HIDE DEF t
  <2>5. Split(t, TICK)[1] = SubSeq(t, a[1], z[1])
    BY <1>3, <2>4
  <2> QED BY <2>3, <2>5
<1>5. p \in Packet /\ Before(st, 1) = 0 /\ st[1] \in Nat /\ st[1] <= Len(s)
  BY StopsInOrder DEF Before
<1>6. PICK e : Laid(p, e)
  BY <1>5, PacketLaid
<1>7. Places(e) /\ e[0] = 0 /\ e[1] \in Nat /\ e[6] \in Nat /\ 1 < e[1] /\ e[1] < e[6]
  <2>1. Places(e)
    BY <1>6, LaidPlaces
  <2>2. e[0] = 0 /\ e[0] + 1 < e[1]
    BY <2>1 DEF Places
  <2> QED BY <2>1, <2>2, PlacesApart
<1> HIDE DEF t, D
<1>8. ASSUME NEW k \in 1..n, k \in 1 .. e[6] PROVE k \in D <=> \E j \in 1..5 : k = e[j]
  <2>1. s[0 + k] = Format(p)[k]
    BY <1>5, <1>6, <1>8, StreamByte
  <2>2. t[k] = Format(p)[k]
    BY <1>1, <2>1
  <2>3. Format(p)[k] = TICK <=> \E j \in 1..5 : k = e[j]
    BY <1>6, <1>8, MarksAreEnds
  <2>4. k \in D <=> t[k] = TICK
    BY <1>1, <1>8 DEF D, Delimiters
  <2> QED BY <2>2, <2>3, <2>4
<1>9. \A j \in 1..5 : e[1] <= e[j]
  <2>1. ASSUME NEW j \in 1..5, j # 1 PROVE e[1] <= e[j]
    <3>1. 1 \in 0..6 /\ j \in 0..6 /\ 1 < j
      BY <2>1
    <3>2. e[1] + 1 < e[j]
      BY <1>6, <3>1, LaidInOrder
    <3>3. e[j] \in Nat
      BY <1>6, <3>1, LaidBytes
    <3> QED BY <1>7, <3>2, <3>3
  <2>2. e[1] <= e[1]
    BY <1>7
  <2> QED BY <2>1, <2>2
<1>10. 1 \notin D
  <2>1. 1 \in 1..n /\ 1 \in 1 .. e[6]
    BY <1>7
  <2>2. \A j \in 1..5 : 1 # e[j]
    <3> SUFFICES ASSUME NEW j \in 1..5, e[j] = 1 PROVE FALSE
      OBVIOUS
    <3>1. e[1] <= 1
      BY <1>9
    <3> QED BY <1>7, <3>1
  <2> QED BY <1>8, <2>1, <2>2
<1> DEFINE y == z[1] + 1
<1>11. a[1] = 1 /\ y \in 1..n /\ y \in D /\ z[1] \in Nat
  <2>1. m > 1
    BY <1>4
  <2> QED BY <1>2, <1>10, <2>1, FirstRun
<1>12. \A j \in 1 .. z[1] : j \notin D
  BY <1>2, <1>4, <1>11 DEF InOrder
<1>13. y = e[1]
  <2> DEFINE c == e[1]
  <2>1. c \in Nat /\ c < e[6] /\ \A j \in 1..5 : c <= e[j]
    BY <1>7, <1>9
  <2>2. ~ (y < c)
    <3> SUFFICES ASSUME y < c PROVE FALSE
      OBVIOUS
    <3>1. y \in 1 .. e[6]
      BY <1>7, <1>11, <2>1
    <3>2. PICK j \in 1..5 : y = e[j]
      BY <1>8, <1>11, <3>1
    <3> QED BY <1>11, <2>1, <3>2
  <2>3. ~ (y > c)
    <3> SUFFICES ASSUME y > c PROVE FALSE
      OBVIOUS
    <3>1. c \in 1 .. e[6] /\ c \in 1 .. z[1] /\ c \in 1..n
      <4>1. c \in Nat /\ 1 < c /\ e[6] \in Nat /\ c < e[6] /\ y \in Nat /\ y <= n
        BY <1>7, <1>11
      <4> HIDE DEF c
      <4> QED BY <1>11, <4>1
    <3>2. c \notin D
      BY <1>12, <3>1
    <3>3. c \in D
      BY <1>8, <3>1
    <3> QED BY <3>2, <3>3
  <2> HIDE DEF c
  <2>4. y = c
    BY <1>11, <2>1, <2>2, <2>3
  <2> QED BY <2>4 DEF c
<1> DEFINE c == e[1] - 1
<1>14. z[1] = c /\ c \in Nat /\ 1 <= c /\ c < st[1] /\ c < n
  <2>1. st[1] = e[6]
    BY <1>5, <1>6, StopsInOrder, LaidBytes
  <2>2. z[1] + 1 = e[1] /\ z[1] \in Nat /\ e[1] <= n
    BY <1>11, <1>13
  <2> QED BY <1>7, <2>1, <2>2
<1> HIDE DEF c
<1>15. SubSeq(t, a[1], z[1]) = SubSeq(Format(p), 1, c)
  <2>1. SubSeq(SubSeq(s, 1, n), 1, c) = SubSeq(s, 1 - 1 + 1, 1 - 1 + c)
    <3>1. 1 \in 1 .. Len(s) /\ n \in 1 .. Len(s) /\ 1 \in 1 .. n - 1 + 1 /\ c \in 1 .. n - 1 + 1
      BY <1>1, <1>14
    <3> QED BY <1>1, <3>1, SubPart
  <2>2. 1 - 1 + 1 = 1 /\ 1 - 1 + c = c /\ c - 0 = c /\ 1 - 0 = 1
    BY <1>14
  <2>3. PartAt(s, 1, c, Format(f[1]), Before(st, 1))
    <3>1. 1 \in Before(st, 1) + 1 .. st[1] /\ c \in 1 .. st[1]
      BY <1>5, <1>14
    <3> QED BY <3>1, PartOfPacket
  <2>4. SubSeq(s, 1, c) = SubSeq(Format(p), 1, c)
    BY <1>5, <2>2, <2>3 DEF PartAt
  <2> QED BY <1>11, <1>14, <2>1, <2>2, <2>4 DEF t
<1>16. p.code \in Code /\ p.code \in 0..INVALID_CODE
  BY <1>5, CodeFits DEF Packet
<1>17. Atoi(SubSeq(Format(p), 1, c)) = p.code
  <2> DEFINE j == 1
  <2>1. Fields(p)[1] = Digits[p.code]
    BY DEF Fields
  <2>2. c \in {e[1] - 1, e[1]}
    BY DEF c
  <2>3. e[1 - 1] + 1 = 1
    BY <1>7
  <2>4. Atoi(SubSeq(Format(p), e[1 - 1] + 1, c)) = p.code
    <3>1. 1 \in 1..6
      OBVIOUS
    <3> QED BY <1>6, <1>16, <2>1, <2>2, <3>1, AtoiField
  <2> QED BY <2>3, <2>4
<1>18. FromString(t).code = Atoi(Split(t, TICK)[1]) % 65536
  BY DEF FromString, Coloured, t
<1>19. Atoi(Split(t, TICK)[1]) = p.code
  BY <1>4, <1>15, <1>17
<1>20. p.code % 65536 = p.code
  BY <1>16, SmallNumbers
<1>21. FromString(t).code = p.code
  BY <1>18, <1>19, <1>20
<1> QED BY <1>21 DEF t

LEMMA LaidGaps ==
  ASSUME NEW p, NEW e, Laid(p, e), NEW j \in 1..6
  PROVE  /\ e[j - 1] \in Nat /\ e[j] \in Nat /\ e[6] \in Nat
         /\ e[j - 1] + 1 \in 1 .. e[6] /\ e[j] \in 1 .. e[6]
         /\ e[j - 1] + 1 < e[j] /\ e[j] <= e[6] /\ (j # 6 => e[j] < e[6])
<1> DEFINE u == e[j - 1]  v == e[j]  w == e[6]
<1>1. j - 1 \in 0..6 /\ j \in 0..6 /\ 6 \in 0..6 /\ j - 1 < j /\ (j # 6 => j < 6)
  OBVIOUS
<1>2. u \in Nat /\ v \in Nat /\ w \in Nat
  BY <1>1, LaidBytes
<1>3. u + 1 < v
  BY <1>1, LaidInOrder
<1>4. j # 6 => v + 1 < w
  BY <1>1, LaidInOrder
<1>5. j = 6 => v = w
  OBVIOUS
<1> HIDE DEF u, v, w
<1>6. /\ u + 1 \in 1 .. w /\ v \in 1 .. w
      /\ u + 1 < v /\ v <= w /\ (j # 6 => v < w)
  BY <1>2, <1>3, <1>4, <1>5
<1> QED BY <1>2, <1>6 DEF u, v, w

\* A first read that goes on beyond the code of the second packet has more fields.
LEMMA ManyFields ==
  ASSUME NEW f, NEW s, NEW st, Layout(f, s, st), 2 \in 1 .. Len(f),
         NEW n \in Nat \ {0}, n <= Len(s), n > st[1] + 1 + Len(Digits[f[2].code])
  PROVE  Len(Split(SubSeq(s, 1, n), TICK)) # 6
<1> DEFINE t == SubSeq(s, 1, n)
           D == Delimiters(t, TICK)
<1>1. t \in Seq(Byte) /\ Len(t) = n /\ \A k \in 1..n : t[k] = s[k]
  <2>1. s \in Seq(Byte) /\ Len(s) \in Nat
    BY DEF Layout
  <2>2. 1 \in 1 .. Len(s) /\ n \in 1 .. Len(s) /\ n - 1 + 1 = n
    BY <2>1
  <2>3. /\ SubSeq(s, 1, n) \in Seq(Byte) /\ Len(SubSeq(s, 1, n)) = n - 1 + 1
        /\ \A k \in 1 .. n - 1 + 1 : SubSeq(s, 1, n)[k] = s[1 - 1 + k]
    BY <2>1, <2>2, PartOfPart
  <2> QED BY <2>1, <2>2, <2>3
<1>2. PICK m, a, z : InOrder(D, n, m, a, z)
  <2> HIDE DEF D
  <2> QED BY RunsExist, Zenon
<1>3. Split(t, TICK) = [k \in 1..m |-> SubSeq(t, a[k], z[k])]
  <2> HIDE DEF t
  <2> QED BY <1>1, <1>2, SplitGivesRuns
<1>4. Len(Split(t, TICK)) = m
  <2>1. m \in Nat
    BY <1>2 DEF InOrder
  <2> HIDE DEF t
  <2> QED BY <1>3, <2>1
<1>5. \A k \in 1..n : k \in D <=> s[k] = TICK
  <2> HIDE DEF t
  <2> QED BY <1>1 DEF Delimiters
<1> HIDE DEF D
<1>6. 1 \in 1 .. Len(f)
  OBVIOUS
<1>7. /\ f[1] \in Packet /\ f[2] \in Packet /\ Before(st, 1) = 0 /\ Before(st, 2) = st[1]
      /\ st[1] = 0 + Len(Format(f[1]))
  BY <1>6, StopsInOrder DEF Before
<1>8. PICK e : Laid(f[1], e)
  BY <1>7, PacketLaid
<1>9. PICK g : Laid(f[2], g)
  BY <1>7, PacketLaid
<1>10. /\ e[0] = 0 /\ e[1] \in Nat /\ e[2] \in Nat /\ e[3] \in Nat /\ e[4] \in Nat /\ e[5] \in Nat
       /\ e[6] \in Nat /\ st[1] = e[6]
       /\ 1 < e[1] /\ e[1] + 1 < e[2] /\ e[2] + 1 < e[3] /\ e[3] + 1 < e[4] /\ e[4] + 1 < e[5]
       /\ e[5] + 1 < e[6]
  <2>1. Places(e)
    BY <1>8, LaidPlaces
  <2>2. Len(Format(f[1])) = e[6]
    BY <1>8, LaidBytes
  <2>3. 1 \in 0..6 /\ 2 \in 0..6 /\ 3 \in 0..6 /\ 4 \in 0..6 /\ 5 \in 0..6 /\ 6 \in 0..6
    OBVIOUS
  <2>4. e[0] = 0 /\ (\A j \in 0..6 : e[j] \in Nat) /\ e[0] + 1 < e[1] /\ e[1] + 1 < e[2]
        /\ e[2] + 1 < e[3] /\ e[3] + 1 < e[4] /\ e[4] + 1 < e[5] /\ e[5] + 1 < e[6]
    BY <2>1 DEF Places
  <2> QED BY <1>7, <2>2, <2>3, <2>4
<1> DEFINE w == e[6] + g[1]
<1>11. g[1] \in Nat /\ g[6] \in Nat /\ g[1] > 0 /\ g[1] + 1 <= g[6] /\ n > w /\ w > e[6] /\ w \in Nat
  <2>1. Places(g)
    BY <1>9, LaidPlaces
  <2>2. g[1] \in Nat /\ g[6] \in Nat /\ 0 < g[1] /\ g[1] < g[6]
    BY <2>1, PlacesApart
  <2>3. g[1] = g[0] + Len(Digits[f[2].code]) + 1 /\ g[0] = 0 /\ Len(Digits[f[2].code]) \in Nat
    <3>1. Fields(f[2])[1] = Digits[f[2].code]
      BY DEF Fields
    <3>2. 1 \in 1..6 /\ 1 - 1 = 0
      OBVIOUS
    <3>3. /\ Len(Fields(f[2])[1]) \in Nat \ {0} /\ g[1] = g[1 - 1] + Len(Fields(f[2])[1]) + 1
      BY <1>9, <3>2, LaidField
    <3>4. g[0] = 0
      BY <1>9, LaidBytes
    <3> QED BY <3>1, <3>2, <3>3, <3>4
  <2> DEFINE x == g[1]  y == e[6]  l == Len(Digits[f[2].code])
  <2>4. x = 0 + l + 1 /\ l \in Nat /\ y \in Nat /\ n > y + 1 + l /\ x \in Nat
    BY <1>10, <2>2, <2>3
  <2> HIDE DEF x, y, l
  <2>5. n > y + x /\ y + x > y /\ y + x \in Nat
    BY <2>4
  <2>6. g[1] + 1 <= g[6]
    BY <2>2
  <2> QED BY <2>2, <2>5, <2>6 DEF x, y
\* The ticks, and the places where fields begin.
<1>12. \A j \in 1..6 : /\ e[j - 1] \in Nat /\ e[j] \in Nat /\ e[6] \in Nat
                       /\ e[j - 1] + 1 \in 1 .. e[6] /\ e[j] \in 1 .. e[6]
                       /\ e[j - 1] + 1 < e[j] /\ e[j] <= e[6] /\ (j # 6 => e[j] < e[6])
  BY <1>8, LaidGaps
<1>13. ASSUME NEW j \in 1..6 PROVE s[e[j - 1] + 1] # TICK
  <2> DEFINE k == e[j - 1] + 1
  <2>1. k \in 1 .. e[6] /\ k \in Nat
    <3>1. k \in 1 .. e[6] /\ e[6] \in Nat
      BY <1>12
    <3> HIDE DEF k
    <3> QED BY <3>1
  <2>2. Format(f[1])[k] # TICK
    BY <1>8, FieldBegins
  <2> HIDE DEF k
  <2>3. s[0 + k] = Format(f[1])[k]
    BY <1>6, <1>7, <1>8, <2>1, StreamByte
  <2>4. s[k] # TICK
    BY <2>1, <2>2, <2>3
  <2> QED BY <2>4 DEF k
<1>14. ASSUME NEW j \in 1..5 PROVE s[e[j]] = TICK
  <2> DEFINE k == e[j]
  <2>1. k \in 1 .. e[6] /\ k \in Nat
    <3>1. j \in 1..6
      OBVIOUS
    <3> QED BY <1>12, <3>1
  <2>2. \E i \in 1..5 : k = e[i]
    OBVIOUS
  <2> HIDE DEF k
  <2>3. Format(f[1])[k] = TICK
    BY <1>8, <2>1, <2>2, MarksAreEnds
  <2>4. s[0 + k] = Format(f[1])[k]
    BY <1>6, <1>7, <1>8, <2>1, StreamByte
  <2>5. s[k] = TICK
    BY <2>1, <2>3, <2>4
  <2> QED BY <2>5 DEF k
<1>15. s[w] = TICK
  <2> DEFINE k == g[1]
  <2>1. k \in 1 .. g[6]
    BY <1>11
  <2>2. Format(f[2])[k] = TICK
    <3>1. \E i \in 1..5 : k = g[i]
      OBVIOUS
    <3> HIDE DEF k
    <3> QED BY <1>9, <2>1, <3>1, MarksAreEnds
  <2> HIDE DEF k
  <2>3. s[Before(st, 2) + k] = Format(f[2])[k]
    BY <1>9, <2>1, StreamByte
  <2> QED BY <1>7, <1>10, <2>2, <2>3 DEF k
<1>16. s[w + 1] # TICK
  <2> DEFINE k == g[1] + 1
  <2>1. k \in 1 .. g[6] /\ k \in Nat
    BY <1>11
  <2>2. Format(f[2])[k] # TICK
    <3>1. 2 \in 1..6 /\ 2 - 1 = 1
      OBVIOUS
    <3>2. Format(f[2])[g[2 - 1] + 1] # TICK
      BY <1>9, <3>1, FieldBegins
    <3> QED BY <3>1, <3>2
  <2> HIDE DEF k
  <2>3. s[Before(st, 2) + k] = Format(f[2])[k]
    BY <1>9, <2>1, StreamByte
  <2>4. e[6] + k = w + 1
    <3> DEFINE y == e[6]  v == g[1]
    <3>1. k = v + 1 /\ w = y + v /\ y \in Nat /\ v \in Nat
      BY <1>10, <1>11 DEF k
    <3> HIDE DEF y, v, w
    <3>2. y + k = w + 1
      BY <3>1
    <3> QED BY <3>2 DEF y
  <2> QED BY <1>7, <1>10, <2>2, <2>3, <2>4
<1> HIDE DEF w, t
<1> DEFINE d == [j \in 1..6 |-> IF j = 6 THEN w ELSE e[j]]
           x == [j \in 1..7 |-> IF j = 7 THEN w + 1 ELSE e[j - 1] + 1]
<1>17. ASSUME NEW j \in 1..6 PROVE d[j] \in D /\ d[j] \in Nat /\ x[j] < d[j] /\ d[j] < x[j + 1]
  <2>1. CASE j = 6
    <3>1. d[j] = w /\ x[j] = e[5] + 1 /\ x[j + 1] = w + 1
      BY <2>1
    <3>2. w \in 1..n
      <4> DEFINE y == e[6]
      <4>1. w \in Nat /\ n > w /\ w > y /\ y \in Nat
        BY <1>10, <1>11
      <4> HIDE DEF y
      <4> QED BY <4>1
    <3>3. w \in D
      BY <1>5, <1>15, <3>2
    <3>4. e[5] + 1 < w /\ w < w + 1
      BY <1>10, <1>11
    <3> QED BY <1>11, <3>1, <3>3, <3>4
  <2>2. CASE j \in 1..5
    <3>1. d[j] = e[j] /\ x[j] = e[j - 1] + 1 /\ x[j + 1] = e[j] + 1
      BY <2>2
    <3>2. e[j] \in 1..n /\ e[j] \in Nat /\ e[j - 1] + 1 < e[j] /\ e[j] < e[j] + 1
      <4> DEFINE u == e[j - 1]  v == e[j]  y == e[6]
      <4>1. u \in Nat /\ v \in Nat /\ y \in Nat /\ u + 1 < v /\ v <= y /\ w \in Nat /\ n > w /\ w > y
        BY <1>11, <1>12, <2>2
      <4> HIDE DEF u, v, y
      <4>2. v \in 1..n /\ v \in Nat /\ u + 1 < v /\ v < v + 1
        BY <4>1
      <4> QED BY <4>2 DEF u, v
    <3>3. e[j] \in D
      BY <1>5, <1>14, <2>2, <3>2
    <3> QED BY <3>1, <3>2, <3>3
  <2> QED BY <2>1, <2>2
<1>18. ASSUME NEW j \in 1..7 PROVE x[j] \in 1..n /\ x[j] \notin D
  <2>1. CASE j = 7
    <3>1. x[j] = w + 1
      BY <2>1
    <3>2. w + 1 \in 1..n
      BY <1>11
    <3> QED BY <1>5, <1>16, <3>1, <3>2
  <2>2. CASE j \in 1..6
    <3>1. x[j] = e[j - 1] + 1
      BY <2>2
    <3> DEFINE u == e[j - 1] + 1  y == e[6]
    <3>2. u \in 1 .. y /\ y \in Nat /\ w \in Nat /\ n > w /\ w > y
      BY <1>11, <1>12, <2>2
    <3> HIDE DEF u, y
    <3>4. u \in 1..n
      BY <3>2
    <3>3. e[j - 1] + 1 \in 1..n
      BY <3>4 DEF u
    <3> QED BY <1>5, <1>13, <2>2, <3>1, <3>3
  <2> QED BY <2>1, <2>2
<1> HIDE DEF d, x
<1>19. m # 6
  BY <1>2, <1>17, <1>18, SevenRuns
<1> QED BY <1>4, <1>19 DEF t

\* What a first read must be for Login to take it for the answer.
LEMMA GrantRead ==
  ASSUME NEW f, NEW s, NEW st, Layout(f, s, st),
         NEW n \in Nat \ {0}, n <= Len(s),
         FromString(SubSeq(s, 1, n)).code = ACCESS_GRANTED
  PROVE  /\ 1 \in 1 .. Len(f) /\ f[1].code = ACCESS_GRANTED
         /\ n <= st[1] \/ (Len(f) > 1 /\ n <= st[1] + 1 + Len(Digits[f[2].code]))
<1>1. Len(f) \in Nat /\ Len(s) \in Nat
  BY DEF Layout
<1>2. n \in 1 .. Len(s)
  BY <1>1
<1>3. PICK i \in 1 .. Len(f) : Before(st, i) < n /\ n <= st[i]
  BY <1>2, PlaceInPacket
<1>4. 1 \in 1 .. Len(f) /\ (i # 1 => Len(f) > 1 /\ 2 \in 1 .. Len(f))
  BY <1>1
<1>5. Len(Split(SubSeq(s, 1, n), TICK)) = 6
  <2> DEFINE t == SubSeq(s, 1, n)
  <2> HIDE DEF t
  <2>1. FromString(t).code = ACCESS_GRANTED
    BY DEF t
  <2>2. Len(Split(t, TICK)) # 6 => FromString(t).code = INVALID_CODE
    BY DEF FromString, Plain, Coloured
  <2> QED BY <2>1, <2>2 DEF t, ACCESS_GRANTED, INVALID_CODE
<1>6. f[1].code = ACCESS_GRANTED
  BY <1>4, <1>5, FirstCode
<1>7. CASE i = 1
  BY <1>3, <1>4, <1>6, <1>7
<1>8. CASE i # 1
  <2>1. f[2] \in Packet /\ st[1] \in Nat
    BY <1>4, <1>8, StopsInOrder
  <2>2. Len(Digits[f[2].code]) \in Nat
    <3>1. f[2].code \in 0..INVALID_CODE
      BY <2>1, CodeFits DEF Packet
    <3> QED BY <3>1, DigitsLength
  <2>3. ~ (n > st[1] + 1 + Len(Digits[f[2].code]))
    BY <1>4, <1>5, <1>8, ManyFields
  <2>4. n <= st[1] + 1 + Len(Digits[f[2].code])
    BY <2>1, <2>2, <2>3
  <2> QED BY <1>4, <1>6, <1>8, <2>4
<1> QED BY <1>7, <1>8

-----------------------------------------------------------------------------
(***************************************************************************)
(* The inductive invariant and the theorems.                               *)
(***************************************************************************)

\* The bytes sent are those of the packets.
Shape ==
  /\ Layout(feed, sent, stops)
  /\ pos \in 0 .. Len(sent)
  /\ DOMAIN mem = Cells

ShortestString(m, n) ==
  n \in 0..BUFFER_SIZE /\ m[n] = NUL /\ \A k \in 0 .. n - 1 : m[k] # NUL

\* The bytes l and the terminator are at the front of m.
BufferHolds(m, l) ==
  /\ l \in Seq(Byte) /\ Len(l) \in 0..BUFFER_SIZE
  /\ m[Len(l)] = NUL
  /\ \A k \in 0 .. Len(l) - 1 : m[k] = l[k + 1]

Buffer ==
  /\ Shape
  /\ mem[BUFFER_SIZE + 1] = "socket"
  /\ phase = "loop" => mem[-1] = "set"
  /\ BufferHolds(mem, last)

\* Nothing is read before Login, and nothing is handled before MainLoop.
Started ==
  /\ phase = "login" => pos = 0 /\ ends = {} /\ ~answered
  /\ phase \in {"login", "granted"} => handled = <<>>

\* After whole reads: the packet the last one ended with, and what was handled.
First == IF answered THEN 2 ELSE 1

WholeSoFar ==
  phase \in {"granted", "loop"} /\ ends \subseteq Range(stops) =>
    \E i \in First - 1 .. Len(feed) :
      Before(stops, i + 1) = pos /\ handled = SubSeq(feed, First, i)

\* What the buffer holds grants access only if a server has.
StaleGrants ==
  FromString(last).code = ACCESS_GRANTED => welcomed \/ (phase # "login" /\ Grants(feed))

IInv ==
  /\ Buffer
  /\ TypeOK
  /\ Started
  /\ GrantComesAlone
  /\ StaleGrants
  /\ WholeSoFar
  /\ HandledFrom(handled, feed, stops, pos)

LEMMA TextHasNoNul == NUL \notin Byte
BY SpecialBytes DEF Byte

LEMMA ShapeTypes ==
  ASSUME Shape
  PROVE  /\ sent \in Seq(Byte) /\ Len(sent) \in Nat /\ pos \in Nat /\ pos <= Len(sent)
         /\ feed \in Seq(Packet) /\ Len(feed) \in Nat /\ DOMAIN feed = 1 .. Len(feed)
         /\ DOMAIN stops = 1 .. Len(feed)
         /\ \A k \in 1 .. Len(sent) : sent[k] # NUL
<1>1. sent \in Seq(Byte) /\ feed \in Seq(Packet) /\ pos \in 0 .. Len(sent) /\ stops \in [1 .. Len(feed) -> Nat]
  BY DEF Shape, Layout
<1> QED BY <1>1, TextHasNoNul

\* strlen of the buffer is where its first NUL is.
LEMMA StringLength ==
  ASSUME NEW m, NEW n, ShortestString(m, n)
  PROVE  Length(m) = n
<1> USE BufferAssumption
<1>1. \A j \in 0..BUFFER_SIZE :
        (m[j] = NUL /\ \A k \in 0 .. j - 1 : m[k] # NUL) => j = n
  BY SMT DEF ShortestString
<1> QED BY <1>1 DEF ShortestString, Length

\* A new connection's stream is laid out, and nothing of it is read.
LEMMA OpenedShape ==
  ASSUME NEW f \in Feeds
  PROVE  Layout(f, Wire(f), Stops(f)) /\ Len(Wire(f)) \in Nat
<1>1. f \in Seq(Packet)
  BY FeedAssumption
<1>2. Layout(f, Wire(f), Stops(f))
  BY <1>1, WireIsLaid
<1> QED BY <1>2 DEF Layout

LEMMA InitHolds == Init => Buffer
<1> SUFFICES ASSUME Init PROVE Buffer
  OBVIOUS
<1> USE BufferAssumption
<1>1. Shape
  BY OpenedShape DEF Init, Shape, Cells
<1>2. mem[BUFFER_SIZE + 1] = "socket"
  BY DEF Init, Cells
<1>3. BufferHolds(mem, last)
  BY DEF Init, Cells, BufferHolds
<1> QED BY <1>1, <1>2, <1>3 DEF Buffer, Init

\* What a read leaves in the buffer: recv fills its front, and the terminator
\* follows at once.
LEMMA ReadFills ==
  ASSUME Buffer, NEW n \in 1..BUFFER_SIZE, Read(n), UNCHANGED <<feed, sent, stops>>
  PROVE  /\ Shape'
         /\ mem'[BUFFER_SIZE + 1] = "socket" /\ mem'[-1] = mem[-1]
         /\ BufferHolds(mem', last')
         /\ pos' = pos + n /\ pos + n <= Len(sent) /\ ends' = ends \cup {pos + n}
         /\ n \in Nat \ {0} /\ pos \in Nat
         /\ last' = SubSeq(sent, pos + 1, pos + n)
<1> USE BufferAssumption
<1>t. sent \in Seq(Byte) /\ Len(sent) \in Nat /\ pos \in Nat /\ pos <= Len(sent)
  BY ShapeTypes DEF Buffer
<1>1. /\ pos' = pos + n /\ pos + n <= Len(sent) /\ ends' = ends \cup {pos + n} /\ n \in Nat \ {0}
      /\ last' = SubSeq(sent, pos + 1, pos + n)
  BY <1>t DEF Read
<1>2. Shape'
  BY DEF Buffer, Shape, Read, Cells
<1>3. mem'[BUFFER_SIZE + 1] = "socket" /\ mem'[-1] = mem[-1]
  BY DEF Buffer, Read, Cells
<1>4. After(sent, pos, n, last')
  <2>1. Layout(feed, sent, stops)
    BY DEF Buffer, Shape
  <2>2. After(sent, pos, n, SubSeq(sent, pos + 1, pos + n))
    <3> HIDE DEF Layout, After
    <3> QED BY <1>1, <1>t, <2>1, ReadPlaces
  <2> QED BY <1>1, <2>2
<1>5. last' \in Seq(Byte) /\ Len(last') = n /\ \A k \in 1..n : last'[k] = sent[pos + k]
  BY <1>4 DEF After
<1>6. ASSUME NEW k \in 0 .. n - 1 PROVE mem'[k] = last'[k + 1]
  <2>1. mem'[k] = sent[pos + k + 1]
    BY DEF Read, Cells
  <2>2. k + 1 \in 1..n /\ pos + (k + 1) = pos + k + 1
    BY <1>t
  <2> QED BY <1>5, <2>1, <2>2
<1>7. mem'[n] = NUL
  BY DEF Read, Cells
<1>8. BufferHolds(mem', last')
  BY <1>5, <1>6, <1>7 DEF BufferHolds
<1> QED BY <1>1, <1>2, <1>3, <1>8, <1>t

\* Only m_bLoggedIn has changed: the string is the one it was.
LEMMA FlagOnly ==
  ASSUME Buffer, NEW v, mem' = [mem EXCEPT ![-1] = v], UNCHANGED <<feed, sent, stops, pos, last>>
  PROVE  /\ Shape'
         /\ mem'[BUFFER_SIZE + 1] = "socket" /\ mem'[-1] = v
         /\ BufferHolds(mem', last')
<1> USE BufferAssumption
<1>1. \A k \in 0 .. BUFFER_SIZE + 1 : mem'[k] = mem[k]
  BY DEF Buffer, Shape, Cells
<1>2. Shape' /\ mem'[-1] = v
  BY DEF Buffer, Shape, Cells
<1>3. /\ last \in Seq(Byte) /\ Len(last) \in 0..BUFFER_SIZE /\ mem[Len(last)] = NUL
      /\ \A k \in 0 .. Len(last) - 1 : mem[k] = last[k + 1] /\ k \in 0 .. BUFFER_SIZE + 1
  BY DEF Buffer, BufferHolds
<1>4. BufferHolds(mem', last')
  BY <1>1, <1>3 DEF BufferHolds
<1> QED BY <1>1, <1>2, <1>4 DEF Buffer

\* The C string is those bytes.
LEMMA TextIsWhatItHolds ==
  ASSUME NEW m, NEW l, BufferHolds(m, l)
  PROVE  Text(m) = l /\ Terminated(m)
<1> DEFINE n == Len(l)
<1>1. /\ l \in Seq(Byte) /\ n \in 0..BUFFER_SIZE /\ m[n] = NUL
      /\ \A k \in 0 .. n - 1 : m[k] = l[k + 1]
  BY DEF BufferHolds
<1>2. \A k \in 0 .. n - 1 : m[k] # NUL
  <2> SUFFICES ASSUME NEW k \in 0 .. n - 1 PROVE m[k] # NUL
    OBVIOUS
  <2>1. k + 1 \in 1..n /\ l[k + 1] \in Byte
    BY <1>1
  <2> QED BY <1>1, <2>1, TextHasNoNul
<1>3. Length(m) = n
  BY <1>1, <1>2, StringLength DEF ShortestString
<1>4. Text(m) = [i \in 1..n |-> m[i - 1]]
  BY <1>3 DEF Text
<1>5. \A i \in 1..n : m[i - 1] = l[i]
  <2> SUFFICES ASSUME NEW i \in 1..n PROVE m[i - 1] = l[i]
    OBVIOUS
  <2>1. i - 1 \in 0 .. n - 1 /\ (i - 1) + 1 = i
    BY <1>1
  <2> QED BY <1>1, <2>1
<1>6. l = [i \in 1..n |-> l[i]]
  BY <1>1
<1>7. Terminated(m)
  BY <1>1 DEF Terminated
<1> HIDE DEF n
<1> QED BY <1>4, <1>5, <1>6, <1>7

LEMMA BufferText == Buffer => Text(mem) = last /\ last \in Seq(Byte) /\ ReadsLandInTheBuffer
<1> SUFFICES ASSUME Buffer
             PROVE  Text(mem) = last /\ last \in Seq(Byte) /\ ReadsLandInTheBuffer
  OBVIOUS
<1>1. Text(mem) = last /\ Terminated(mem) /\ last \in Seq(Byte)
  BY TextIsWhatItHolds DEF Buffer, BufferHolds
<1>2. phase = "loop" => LoggedIn
  BY DEF Buffer, LoggedIn, NUL
<1> QED BY <1>1, <1>2 DEF Buffer, ReadsLandInTheBuffer

\* An empty buffer grants nothing.
LEMMA NothingGrants == FromString(<<>>).code # ACCESS_GRANTED
<1> DEFINE s == <<>>
<1>1. s \in Seq(Byte) /\ Len(s) = 0 /\ Positions(s) = 1..1 /\ 1 \in Positions(s)
  BY DEF Positions
<1> HIDE DEF s
<1>2. Start(s, TICK, 1) \in 1 .. Len(s) + 1
  BY <1>1, TurnMoves
<1>3. Start(s, TICK, 1) > Len(s)
  BY <1>1, <1>2
<1>4. Tokens(s, TICK)[1] = <<>>
  BY <1>1, <1>3, TokensEquation
<1>5. Len(Split(s, TICK)) # 6
  BY <1>4 DEF Split
<1>6. FromString(s).code = INVALID_CODE
  BY <1>5 DEF FromString, Plain, Coloured
<1> QED BY <1>6 DEF s, ACCESS_GRANTED, INVALID_CODE

LEMMA NothingHandled ==
  ASSUME NEW f, NEW st, NEW b PROVE HandledFrom(<<>>, f, st, b)
<1>1. <<>> = [i \in 1..0 |-> <<>>[i]] /\ 0 \in Nat
  OBVIOUS
<1> DEFINE hd == <<>>  g == <<>>
<1>2. g \in [1..0 -> 1 .. Len(f)]
  OBVIOUS
<1>3. \A i \in 1..0 : FALSE
  OBVIOUS
<1>4. /\ hd = [i \in 1..0 |-> hd[i]]
      /\ \A i \in 1..0 : /\ hd[i].user = f[g[i]].user /\ hd[i].msg = f[g[i]].msg
                         /\ Tick(f, st, g[i]) <= b
      /\ \A i, j \in 1..0 : i < j => g[i] < g[j]
  BY <1>1, <1>3
<1> HIDE DEF hd, g
<1>5. HandledFrom(hd, f, st, b)
  BY <1>1, <1>2, <1>4 DEF HandledFrom
<1> QED BY <1>5 DEF hd

\* A stop that Login's read can have reached is the first one.
LEMMA GrantStop ==
  ASSUME NEW f, NEW s, NEW st, Layout(f, s, st), NEW i \in 1 .. Len(f),
         st[i] <= st[1] \/ (Len(f) > 1 /\ st[i] <= st[1] + 1 + Len(Digits[f[2].code]))
  PROVE  st[i] = st[1]
<1>0. Len(f) \in Nat
  BY DEF Layout
<1>1. 1 \in 1 .. Len(f) /\ 1 <= i /\ i \in Nat
  BY <1>0
<1>2. st[1] <= st[i]
  BY <1>1, StopsMonotone
<1>3. st[1] \in Nat /\ st[i] \in Nat
  BY <1>1, StopsInOrder
<1>4. CASE i = 1
  BY <1>4
<1>5. CASE i # 1 /\ st[i] <= st[1]
  BY <1>2, <1>3, <1>5
<1>6. CASE i # 1 /\ Len(f) > 1 /\ st[i] <= st[1] + 1 + Len(Digits[f[2].code])
  <2>1. 2 \in 1 .. Len(f) /\ 2 <= i
    BY <1>0, <1>1, <1>6
  <2>2. st[2] <= st[i]
    BY <2>1, StopsMonotone
  <2>3. f[2] \in Packet /\ st[2] = Before(st, 2) + Len(Format(f[2])) /\ Before(st, 2) = st[1]
    BY <2>1, StopsInOrder DEF Before
  <2>4. PICK g : Laid(f[2], g)
    BY <2>3, PacketLaid
  <2>5. Len(Format(f[2])) = g[6] /\ g[0] = 0
    BY <2>4, LaidBytes
  <2>6. 1 \in 1..6 /\ 1 - 1 = 0
    OBVIOUS
  <2>7. /\ Len(Fields(f[2])[1]) \in Nat \ {0} /\ g[1] = g[1 - 1] + Len(Fields(f[2])[1]) + 1
    BY <2>4, <2>6, LaidField
  <2>8. Fields(f[2])[1] = Digits[f[2].code]
    BY DEF Fields
  <2>9. g[1] \in Nat /\ g[6] \in Nat /\ g[1] < g[6]
    BY <2>4, <2>6, LaidGaps
  <2> DEFINE l == Len(Digits[f[2].code])  a == st[1]  b == st[2]  c == st[i]  x == g[1]  y == g[6]
  <2>10. /\ l \in Nat /\ a \in Nat /\ c \in Nat /\ x \in Nat /\ y \in Nat
         /\ b = a + y /\ x = 0 + l + 1 /\ x < y /\ b <= c /\ c <= a + 1 + l
    BY <1>3, <1>6, <2>2, <2>3, <2>5, <2>6, <2>7, <2>8, <2>9
  <2> HIDE DEF l, a, b, c, x, y
  <2>11. FALSE
    BY <2>10
  <2> QED BY <2>11
<1> QED BY <1>4, <1>5, <1>6

\* Packets c to j and those after j up to i.
LEMMA ExtendPart ==
  ASSUME NEW f \in Seq(Packet), NEW c \in {1, 2}, NEW j \in c - 1 .. Len(f),
         NEW i \in j + 1 .. Len(f)
  PROVE  SubSeq(f, c, j) \o [k \in 1 .. i - j |-> f[j + k]] = SubSeq(f, c, i)
<1> DEFINE m == j - c + 1
           n == i - j
           x == SubSeq(f, c, j)
           y == [k \in 1..n |-> f[j + k]]
           w == SubSeq(f, c, i)
<1>1. /\ Len(f) \in Nat /\ c \in Nat /\ m \in Nat /\ n \in Nat /\ j \in Nat /\ i \in Nat
      /\ m + n = i - c + 1 /\ m + c = j + 1
  OBVIOUS
<1>2. x = [k \in 1..m |-> f[c + k - 1]]
  OBVIOUS
<1>3. w = [k \in 1 .. m + n |-> f[c + k - 1]]
  <2>1. w = [k \in 1 .. (i - c + 1) |-> f[c + k - 1]]
    OBVIOUS
  <2> QED BY <1>1, <2>1
<1>4. Behind(x \o y, m, x, n, y)
  <2>1. Listed(x, m) /\ Listed(y, n)
    BY <1>1, <1>2 DEF Listed
  <2> HIDE DEF x, y, m, n
  <2> QED BY <2>1, TwoParts
<1>5. ASSUME NEW k \in 1 .. m + n PROVE (x \o y)[k] = f[c + k - 1]
  <2>1. CASE k <= m
    <3>1. k \in 1..m
      BY <1>1, <2>1
    <3>2. (x \o y)[k] = x[k]
      <4> HIDE DEF x, y, m, n
      <4> QED BY <1>4, <3>1 DEF Behind
    <3>3. x[k] = f[c + k - 1]
      <4> HIDE DEF x, m
      <4> QED BY <1>2, <3>1
    <3> QED BY <3>2, <3>3
  <2>2. CASE ~ (k <= m)
    <3> DEFINE l == k - m
    <3>1. l \in 1..n /\ m + l = k /\ j + l = c + k - 1
      BY <1>1, <2>2
    <3>2. y[l] = f[j + l]
      BY <3>1
    <3>3. (x \o y)[m + l] = y[l]
      <4> HIDE DEF x, y, m, n, l
      <4> QED BY <1>4, <3>1 DEF Behind
    <3> HIDE DEF x, y, l
    <3> QED BY <3>1, <3>2, <3>3
  <2> QED BY <2>1, <2>2
<1>6. x \o y = [k \in 1 .. m + n |-> (x \o y)[k]]
  <2> HIDE DEF x, y, m, n
  <2> QED BY <1>4 DEF Behind
<1>7. x \o y = w
  <2> HIDE DEF x, y, m, n, w
  <2> QED BY <1>3, <1>5, <1>6
<1> QED BY <1>7

LEMMA InitKeeps == Init => IInv
<1> SUFFICES ASSUME Init PROVE IInv
  OBVIOUS
<1>1. Buffer
  BY InitHolds
<1>2. /\ phase = "login" /\ pos = 0 /\ ends = {} /\ handled = <<>> /\ last = <<>>
      /\ answered = FALSE /\ welcomed = FALSE /\ calls = 0
  BY DEF Init
<1>3. HandledFrom(handled, feed, stops, pos)
  BY <1>2, NothingHandled
<1>4. TypeOK
  <2>1. pos \in 0 .. Len(sent) /\ DOMAIN mem = Cells
    BY <1>1 DEF Buffer, Shape
  <2>2. mem[-1] = NUL
    BY BufferAssumption DEF Init, Cells
  <2>3. calls \in 0..MaxCalls
    BY <1>2, BufferAssumption
  <2>4. answered \in BOOLEAN /\ welcomed \in BOOLEAN
    BY <1>2, Zenon
  <2> QED BY <1>2, <2>1, <2>2, <2>3, <2>4 DEF TypeOK
<1>5. StaleGrants
  BY <1>2, NothingGrants DEF StaleGrants
<1> QED BY <1>1, <1>2, <1>3, <1>4, <1>5 DEF IInv, Started, GrantComesAlone, WholeSoFar

\* Login, when its read gives something.
LEMMA AnswerKeeps ==
  ASSUME IInv, Login(TRUE), NEW n \in 1..BUFFER_SIZE, Read(n)
  PROVE  IInv'
<1>0. /\ Buffer /\ UNCHANGED <<feed, sent, stops, handled, welcomed>> /\ phase = "login"
      /\ answered' = TRUE
  BY DEF IInv, Login
<1>1. phase' \in {"granted", "ended"}
  BY DEF Login
<1>3. pos = 0 /\ ends = {} /\ handled = <<>>
  BY <1>0 DEF IInv, Started
<1>4. /\ Shape' /\ mem'[BUFFER_SIZE + 1] = "socket" /\ mem'[-1] = mem[-1]
      /\ BufferHolds(mem', last')
      /\ pos' = 0 + n /\ 0 + n <= Len(sent) /\ ends' = {} \cup {0 + n} /\ n \in Nat \ {0}
      /\ last' = SubSeq(sent, 0 + 1, 0 + n)
  BY <1>0, <1>3, ReadFills
<1>2. Buffer'
  BY <1>1, <1>4 DEF Buffer
<1>5. pos' = n /\ n <= Len(sent) /\ ends' = {n} /\ last' = SubSeq(sent, 1, n)
  <2>1. 0 + n = n /\ 0 + 1 = 1
    BY <1>4
  <2> QED BY <1>4, <2>1
<1>t. Text(mem') = last'
  BY <1>4, TextIsWhatItHolds
<1>6. Layout(feed, sent, stops)
  BY <1>0 DEF Buffer, Shape
<1>7. handled' = <<>>
  BY <1>0, <1>3
<1>8. Started'
  BY <1>1, <1>7 DEF Started
<1>9. HandledFrom(handled', feed', stops', pos')
  BY <1>7, NothingHandled
<1>12. TypeOK'
  <2>1. calls' \in 0..MaxCalls
    BY BufferAssumption DEF Read, IInv, TypeOK
  <2> QED BY <1>0, <1>1, <1>4, <2>1 DEF IInv, TypeOK, Shape
<1>10. CASE phase' = "ended"
  <2>1. GrantComesAlone' /\ WholeSoFar'
    BY <1>10 DEF GrantComesAlone, WholeSoFar
  <2>2. StaleGrants'
    BY <1>10, <1>t DEF Login, StaleGrants
  <2> QED BY <1>2, <1>8, <1>9, <1>12, <2>1, <2>2 DEF IInv
<1>11. CASE phase' = "granted"
  <2>1. FromString(SubSeq(sent, 1, n)).code = ACCESS_GRANTED
    BY <1>5, <1>11, <1>t DEF Login
  <2>2. /\ 1 \in 1 .. Len(feed) /\ feed[1].code = ACCESS_GRANTED
        /\ n <= stops[1] \/ (Len(feed) > 1 /\ n <= stops[1] + 1 + Len(Digits[feed[2].code]))
    BY <1>4, <1>5, <1>6, <2>1, GrantRead
  <2>g. Grants(feed)
    BY <2>2 DEF Grants
  <2>3. GrantComesAlone'
    BY <1>0, <1>5, <2>2, <2>g DEF GrantComesAlone, Grants
  <2>5. StaleGrants'
    BY <1>0, <1>11, <2>g DEF StaleGrants, Grants
  <2>4. WholeSoFar'
    <3> SUFFICES ASSUME ends' \subseteq Range(stops)
                 PROVE  \E i \in 1 .. Len(feed) :
                          Before(stops, i + 1) = n /\ <<>> = SubSeq(feed, 2, i)
      <4>1. First' = 2 /\ First' - 1 = 1
        BY <1>0 DEF First
      <4>2. 1 .. Len(feed) = First' - 1 .. Len(feed)
        BY <4>1
      <4> QED BY <1>0, <1>5, <1>7, <4>1, <4>2 DEF WholeSoFar
    <3>1. n \in Range(stops) /\ DOMAIN stops = 1 .. Len(feed) /\ feed \in Seq(Packet)
      BY <1>0, <1>5, ShapeTypes DEF Buffer
    <3>2. PICK i \in 1 .. Len(feed) : stops[i] = n
      BY <3>1 DEF Range
    <3>3. stops[i] <= stops[1] \/ (Len(feed) > 1 /\ stops[i] <= stops[1] + 1 + Len(Digits[feed[2].code]))
      BY <2>2, <3>2
    <3>4. stops[i] = stops[1]
      BY <1>6, <3>3, GrantStop
    <3>5. SubSeq(feed, 2, 1) = <<>>
      BY <3>1
    <3>6. Before(stops, 1 + 1) = stops[1]
      BY <1>6, <2>2, StopsInOrder
    <3> QED BY <2>2, <3>2, <3>4, <3>5, <3>6
  <2> QED BY <1>2, <1>8, <1>9, <1>12, <2>3, <2>4, <2>5 DEF IInv
<1> QED BY <1>1, <1>10, <1>11

\* Login, when its read fails: the answer is what was in the buffer.
LEMMA StaleAnswerKeeps ==
  ASSUME IInv, Login(FALSE)
  PROVE  IInv'
<1>0. /\ Buffer /\ UNCHANGED <<feed, sent, stops, handled, welcomed, pos, calls, ends, last>>
      /\ phase = "login" /\ answered' = FALSE /\ mem' = [mem EXCEPT ![-1] = NUL]
  BY DEF IInv, Login, ReadFails
<1>1. phase' \in {"granted", "ended"}
  BY DEF Login
<1>2. /\ Shape' /\ mem'[BUFFER_SIZE + 1] = "socket" /\ mem'[-1] = NUL
      /\ BufferHolds(mem', last')
  BY <1>0, FlagOnly
<1>3. Buffer'
  BY <1>1, <1>2 DEF Buffer
<1>4. pos = 0 /\ ends = {} /\ handled = <<>>
  BY <1>0 DEF IInv, Started
<1>5. Started' /\ HandledFrom(handled', feed', stops', pos')
  BY <1>0, <1>1, <1>4, NothingHandled DEF Started
<1>6. TypeOK'
  BY <1>0, <1>1, <1>2 DEF IInv, TypeOK, Shape
<1>7. FromString(last).code = ACCESS_GRANTED => welcomed
  BY <1>0 DEF IInv, StaleGrants
<1>8. StaleGrants'
  BY <1>0, <1>7 DEF StaleGrants
<1>9. Text(mem') = last
  BY <1>0, <1>2, TextIsWhatItHolds
<1>10. GrantComesAlone'
  BY <1>0, <1>7, <1>9 DEF Login, GrantComesAlone
<1>11. WholeSoFar'
  <2>1. feed \in Seq(Packet) /\ Len(feed) \in Nat
    BY <1>0, ShapeTypes DEF Buffer
  <2>2. SubSeq(feed, 1, 0) = <<>> /\ 0 \in 1 - 1 .. Len(feed) /\ 0 + 1 = 1
    BY <2>1
  <2>3. Before(stops, 0 + 1) = 0
    BY <2>2 DEF Before
  <2> QED BY <1>0, <1>4, <2>2, <2>3 DEF WholeSoFar, First
<1> QED BY <1>3, <1>5, <1>6, <1>8, <1>10, <1>11 DEF IInv

LEMMA ReceiveKeeps ==
  ASSUME IInv, NEW n \in 1..BUFFER_SIZE, Receive(n)
  PROVE  IInv'
<1>0. /\ Buffer /\ Read(n) /\ UNCHANGED <<feed, sent, stops, answered, welcomed>>
      /\ phase = "loop" /\ phase' = "loop"
      /\ handled' = handled \o Parsed(PacketsOf(Text(mem')))
  BY DEF IInv, Receive
<1>2. /\ Shape' /\ mem'[BUFFER_SIZE + 1] = "socket" /\ mem'[-1] = mem[-1]
      /\ BufferHolds(mem', last')
      /\ pos' = pos + n /\ pos + n <= Len(sent) /\ ends' = ends \cup {pos + n}
      /\ n \in Nat \ {0} /\ pos \in Nat
      /\ last' = SubSeq(sent, pos + 1, pos + n)
  BY <1>0, ReadFills
<1>1. Buffer'
  BY <1>0, <1>2 DEF Buffer
<1>t. Text(mem') = SubSeq(sent, pos + 1, pos + n)
  BY <1>2, TextIsWhatItHolds
<1>3. Layout(feed, sent, stops)
  BY <1>0 DEF Buffer, Shape
<1>4. Started'
  BY <1>0 DEF Started
<1>5. GrantComesAlone'
  BY <1>0, <1>2 DEF IInv, GrantComesAlone, Grants
<1>8. StaleGrants'
  BY <1>0 DEF IInv, GrantComesAlone, StaleGrants, Grants
<1>9. TypeOK'
  <2>1. calls' \in 0..MaxCalls
    BY <1>0, BufferAssumption DEF Read, IInv, TypeOK
  <2> QED BY <1>0, <1>2, <2>1 DEF IInv, TypeOK, Shape
<1>6. HandledFrom(handled', feed', stops', pos')
  <2>1. HandledFrom(handled, feed, stops, pos)
    BY DEF IInv
  <2>2. HandledFrom(handled \o Parsed(PacketsOf(SubSeq(sent, pos + 1, pos + n))), feed, stops, pos + n)
    BY <1>2, <1>3, <2>1, ReadHandled
  <2> QED BY <1>0, <1>2, <1>t, <2>2
<1>7. WholeSoFar'
  <2> SUFFICES ASSUME ends' \subseteq Range(stops)
               PROVE  \E i \in First - 1 .. Len(feed) :
                        Before(stops, i + 1) = pos' /\ handled' = SubSeq(feed, First, i)
    BY <1>0 DEF WholeSoFar, First
  <2>1. ends \subseteq Range(stops) /\ pos + n \in Range(stops)
    BY <1>2
  <2>c. First \in {1, 2}
    BY DEF First
  <2>2. PICK j \in First - 1 .. Len(feed) :
          Before(stops, j + 1) = pos /\ handled = SubSeq(feed, First, j)
    BY <1>0, <2>1 DEF IInv, WholeSoFar
  <2>3. DOMAIN stops = 1 .. Len(feed) /\ feed \in Seq(Packet) /\ Len(feed) \in Nat
    BY <1>0, ShapeTypes DEF Buffer
  <2> HIDE DEF First
  <2>j. j \in 0 .. Len(feed) /\ j \in Nat
    BY <2>3, <2>c
  <2>4. PICK i \in 1 .. Len(feed) : stops[i] = pos + n
    BY <2>1, <2>3 DEF Range
  <2>5. i \in j + 1 .. Len(feed)
    <3>1. ~ (i <= j)
      <4> SUFFICES ASSUME i <= j PROVE FALSE
        OBVIOUS
      <4>1. stops[i] <= Before(stops, j + 1)
        <5>1. i \in 1..j
          BY <2>j
        <5> QED BY <1>3, <2>j, <5>1, RestInOrder
      <4>2. pos + n <= pos
        BY <2>2, <2>4, <4>1
      <4> QED BY <1>2, <4>2
    <3> QED BY <2>3, <2>j, <3>1
  <2>6. Parsed(PacketsOf(SubSeq(sent, Before(stops, j + 1) + 1, stops[i]))) =
          [k \in 1 .. i - j |-> feed[j + k]]
    BY <1>3, <2>5, <2>j, WholeReadParsed
  <2>7. Parsed(PacketsOf(Text(mem'))) = [k \in 1 .. i - j |-> feed[j + k]]
    BY <1>t, <2>2, <2>4, <2>6
  <2>8. SubSeq(feed, First, j) \o [k \in 1 .. i - j |-> feed[j + k]] = SubSeq(feed, First, i)
    BY <2>2, <2>3, <2>5, <2>c, ExtendPart
  <2>9. Before(stops, i + 1) = stops[i] /\ i \in First - 1 .. Len(feed)
    <3>1. Before(stops, i + 1) = stops[i]
      BY <1>3, StopsInOrder
    <3> QED BY <2>c, <3>1
  <2> QED BY <1>0, <1>2, <2>2, <2>4, <2>7, <2>8, <2>9
<1> QED BY <1>1, <1>4, <1>5, <1>6, <1>7, <1>8, <1>9 DEF IInv

\* A step that leaves what was sent and handled as it is.
LEMMA FlagKeeps ==
  ASSUME IInv, NEW v \in {NUL, "set"}, mem' = [mem EXCEPT ![-1] = v],
         UNCHANGED <<feed, sent, stops, pos, handled, calls, ends, last, answered, welcomed>>,
         phase \in {"granted", "loop"},
         (phase' = "loop" /\ v = "set") \/ phase' = "ended"
  PROVE  IInv'
<1>1. Buffer
  BY DEF IInv
<1>2. /\ Shape' /\ mem'[BUFFER_SIZE + 1] = "socket" /\ mem'[-1] = v
      /\ BufferHolds(mem', last')
  BY <1>1, FlagOnly
<1>3. Buffer'
  BY <1>2 DEF Buffer
<1>4. TypeOK'
  BY <1>2 DEF IInv, TypeOK, Shape
<1>5. Started' /\ HandledFrom(handled', feed', stops', pos')
  BY DEF IInv, Started
<1>6. GrantComesAlone' /\ StaleGrants'
  BY DEF IInv, GrantComesAlone, StaleGrants, Grants
<1>7. WholeSoFar'
  BY DEF IInv, WholeSoFar, First
<1> QED BY <1>3, <1>4, <1>5, <1>6, <1>7 DEF IInv

LEMMA ReconnectKeeps ==
  ASSUME IInv, Reconnect
  PROVE  IInv'
<1>1. /\ Buffer /\ phase' = "login" /\ pos' = 0 /\ ends' = {} /\ handled' = <<>>
      /\ answered' = FALSE /\ welcomed' = (welcomed \/ Grants(feed)) /\ UNCHANGED <<mem, last>>
      /\ feed' \in Feeds /\ sent' = Wire(feed') /\ stops' = Stops(feed')
  BY DEF IInv, Reconnect
<1>2. Shape'
  <2>1. Layout(feed', sent', stops') /\ Len(sent') \in Nat
    BY <1>1, OpenedShape
  <2> QED BY <1>1, <2>1 DEF Buffer, Shape, Cells
<1>3. Buffer'
  BY <1>1, <1>2 DEF Buffer
<1>4. TypeOK'
  <2>1. calls' \in 0..MaxCalls
    BY BufferAssumption DEF Reconnect, IInv, TypeOK
  <2>2. welcomed' \in BOOLEAN
    BY <1>1
  <2>3. pos' \in 0 .. Len(sent') /\ DOMAIN mem' = Cells
    BY <1>2 DEF Shape, Cells
  <2>4. mem'[-1] \in {NUL, "set"}
    BY <1>1 DEF IInv, TypeOK
  <2> QED BY <1>1, <2>1, <2>2, <2>3, <2>4 DEF TypeOK, Cells
<1>5. Started' /\ HandledFrom(handled', feed', stops', pos')
  BY <1>1, NothingHandled DEF Started
<1>6. GrantComesAlone' /\ WholeSoFar'
  BY <1>1 DEF GrantComesAlone, WholeSoFar
<1>7. StaleGrants'
  BY <1>1 DEF IInv, StaleGrants
<1> QED BY <1>3, <1>4, <1>5, <1>6, <1>7 DEF IInv

LEMMA NextKeeps == IInv /\ [Next]_vars => IInv'
<1> SUFFICES ASSUME IInv, [Next]_vars PROVE IInv'
  OBVIOUS
<1>1. ASSUME NEW ok \in BOOLEAN, Login(ok) PROVE IInv'
  <2>1. CASE ok
    <3>1. Login(TRUE) /\ \E n \in 1..BUFFER_SIZE : Read(n)
      BY <1>1, <2>1 DEF Login
    <3> QED BY <3>1, AnswerKeeps
  <2>2. CASE ~ok
    <3>1. Login(FALSE)
      <4>1. ok = FALSE
        BY <2>2
      <4> QED BY <1>1, <4>1
    <3> QED BY <3>1, StaleAnswerKeeps
  <2> QED BY <2>1, <2>2
<1>2. ASSUME NEW n \in 1..BUFFER_SIZE, Receive(n) PROVE IInv'
  BY <1>2, ReceiveKeeps
<1>3. CASE Granted
  BY <1>3, FlagKeeps DEF Granted
<1>4. CASE Lost
  BY <1>4, FlagKeeps DEF Lost, ReadFails
<1>5. CASE Reconnect
  BY <1>5, ReconnectKeeps
<1>6. CASE UNCHANGED vars
  <2>1. UNCHANGED <<feed, sent, stops, pos, mem, phase, handled, calls, ends, last, answered, welcomed>>
    BY <1>6 DEF vars
  <2>2. Buffer'
    BY <2>1 DEF IInv, Buffer, Shape, BufferHolds, Cells
  <2>3. Started' /\ GrantComesAlone' /\ WholeSoFar' /\ StaleGrants' /\ TypeOK'
    BY <2>1 DEF IInv, Started, GrantComesAlone, WholeSoFar, First, StaleGrants, Grants, TypeOK, Cells
  <2> QED BY <2>1, <2>2, <2>3 DEF IInv
<1> QED BY <1>1, <1>2, <1>3, <1>4, <1>5, <1>6 DEF Next

LEMMA Invariance == Spec => []IInv
<1>1. Init => IInv
  BY InitKeeps
<1>2. IInv /\ [Next]_vars => IInv'
  BY NextKeeps
<1> QED BY <1>1, <1>2, PTL DEF Spec

\* The flag, the buffer and the position keep their types on any connections.
THEOREM TypeCorrectness == Spec => []TypeOK
<1>1. IInv => TypeOK
  BY DEF IInv
<1> QED BY <1>1, Invariance, PTL

\* A read never reaches m_Socket, a successful one leaves m_bLoggedIn alone,
\* and the string in the buffer is always the bytes recv returned last, for
\* every BUFFER_SIZE and every stream (MeepBot::Read).
THEOREM BufferIsTheLastRead == Spec => []ReadsLandInTheBuffer
<1>1. IInv => ReadsLandInTheBuffer
  BY BufferText DEF IInv
<1> QED BY <1>1, Invariance, PTL

\* Whatever the buffer holds, both uses of StringUtil::Split give its longest
\* runs between delimiters, each once and in order: no empty token, none lost at
\* either end (StringUtil::Split).
THEOREM EverySplitFindsTheRuns == Spec => []SplitFindsTheRuns
<1>1. ASSUME IInv PROVE SplitFindsTheRuns
  <2> DEFINE s == Text(mem)
  <2>1. s \in Seq(Byte)
    BY <1>1, BufferText DEF IInv
  <2> HIDE DEF s
  <2>2. ASSUME NEW delim
        PROVE  Split(s, delim) =
                 [k \in 1 .. Cardinality(Runs(s, delim)) |->
                    SubSeq(s, Nth(Runs(s, delim), k)[1], Nth(Runs(s, delim), k)[2])]
    BY <2>1, SplitFinds
  <2> QED BY <2>2 DEF SplitFindsTheRuns, Nth, s
<1> QED BY <1>1, Invariance, PTL

\* For every stream, every buffer size and every number of reads that end where
\* packets end, the packets handled are exactly those sent after the answer to the
\* login, or with it if Login took an older one (MainLoop, PacketUtil, ChatPacket).
THEOREM FramingLosesNothing == Spec => []WholeReadsLoseNothing
<1>1. IInv => WholeReadsLoseNothing
  <2> SUFFICES ASSUME IInv, phase = "loop", ends \subseteq Range(stops)
               PROVE  \E i \in 0..Len(feed) :
                        /\ pos = IF i = 0 THEN 0 ELSE stops[i]
                        /\ handled = SubSeq(feed, First, i)
    BY DEF WholeReadsLoseNothing, First
  <2>1. Len(feed) \in Nat
    BY ShapeTypes DEF IInv, Buffer
  <2>2. First \in {1, 2}
    BY DEF First
  <2>3. PICK i \in First - 1 .. Len(feed) :
          Before(stops, i + 1) = pos /\ handled = SubSeq(feed, First, i)
    BY DEF IInv, WholeSoFar
  <2> HIDE DEF First
  <2>4. i \in 0..Len(feed) /\ i \in Nat
    BY <2>1, <2>2
  <2>5. Before(stops, i + 1) = IF i = 0 THEN 0 ELSE stops[i]
    BY <2>4 DEF Before
  <2> QED BY <2>3, <2>4, <2>5
<1> QED BY <1>1, Invariance, PTL

\* For every stream and wherever recv cuts it, what is handled has the user and
\* the message of one packet sent, in the order sent and none twice (MainLoop,
\* PacketUtil, ChatPacket::FromString).
THEOREM CutsNeverMixPackets == Spec => []FieldsBelongTogether
<1>1. ASSUME IInv PROVE FieldsBelongTogether
  <2>1. PICK n \in Nat : \E g \in [1..n -> 1 .. Len(feed)] :
          /\ handled = [i \in 1..n |-> handled[i]]
          /\ \A i \in 1..n : /\ handled[i].user = feed[g[i]].user
                             /\ handled[i].msg = feed[g[i]].msg
                             /\ Tick(feed, stops, g[i]) <= pos
          /\ \A i, j \in 1..n : i < j => g[i] < g[j]
    BY <1>1 DEF IInv, HandledFrom
  <2>2. DOMAIN feed = 1 .. Len(feed)
    BY <1>1, ShapeTypes DEF IInv, Buffer
  <2>3. DOMAIN handled = 1..n
    BY <2>1
  <2> QED BY <2>1, <2>2, <2>3 DEF FieldsBelongTogether
<1> QED BY <1>1, Invariance, PTL

\* For every stream and wherever recv cuts it, on any number of connections, Login
\* lets one pass whose first packet grants access and whose first read ends before
\* the user name of the second, or one whose read fails when a server before has
\* granted access (MeepBot::Login).
THEOREM OnlyAGrantPasses == Spec => []GrantComesAlone
<1>1. IInv => GrantComesAlone
  BY DEF IInv
<1> QED BY <1>1, Invariance, PTL
=============================================================================
