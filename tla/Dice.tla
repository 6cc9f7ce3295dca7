-------------------------------- MODULE Dice --------------------------------
(***************************************************************************)
(* The commands that throw dice (roll, rollx) and Utils.Rand, which brings *)
(* a random word into the range it is asked for.  Any word can be drawn;   *)
(* Pool says which one is.  The other callers of Rand are out of reach:    *)
(* !fling returns before it, and no line can name 8ball.                   *)
(*                                                                         *)
(* A number of Lua is its integer part and whether that is all of it; nan  *)
(* and -inf, which tonumber reads too and which pass the same tests as a   *)
(* negative number, are [part |-> -Modulus, whole |-> TRUE].               *)
(***************************************************************************)
EXTENDS Integers, Sequences

CONSTANTS
  Modulus,       \* 2^32: words and unsigned arguments are below it
  MAX_ROLLS,     \* of Dice.lua (20)
  MAX_SIDES,     \* of Dice.lua (1000)
  Counts, Sides, \* what roll is asked for: digits, so naturals
  Numbers        \* what rollx is asked for

ASSUME ModulusAssumption == Modulus \in Nat /\ Modulus > 1
ASSUME RollAssumption == MAX_ROLLS \in Nat /\ MAX_SIDES \in 1..(Modulus - 1)
ASSUME InputAssumption ==
  /\ Counts \subseteq Nat /\ Sides \subseteq Nat
  /\ Numbers \subseteq [part : Int, whole : BOOLEAN]

VARIABLES
  word,     \* the last word drawn
  by,       \* the command that throws, or threw last
  sides,    \* the number it gives to Rand
  left,     \* dice still to be thrown: 0 between commands
  rolls,    \* what was thrown
  crashed   \* has a division by zero ended the process?

asked == <<by, sides>>
dice  == <<word, asked, left, rolls, crashed>>

Words    == 0..(Modulus - 1)
Whole(n) == [part |-> n, whole |-> TRUE]

Init ==
  /\ word = 0
  /\ by = "nobody" /\ sides = Whole(1) /\ left = 0 /\ rolls = << >>
  /\ crashed = FALSE

-----------------------------------------------------------------------------
\* A command asks for num throws, or answers what is wrong.
Idle == left = 0 /\ ~crashed

Throws(command, num, n) ==
  /\ by' = command /\ sides' = n /\ left' = num /\ rolls' = << >>
  /\ UNCHANGED <<word, crashed>>

\* Bug: !roll does not refuse a die without sides.
RollNoSides(num, n) ==
  /\ Idle
  /\ num \in 1..MAX_ROLLS /\ n \in 0..MAX_SIDES
  /\ Throws("roll", num, Whole(n))

Roll(num, n) ==
  /\ Idle
  /\ num \in 1..MAX_ROLLS /\ n \in 1..MAX_SIDES
  /\ Throws("roll", num, Whole(n))

\* sides == 0 and sides > MAX_ROLLX_SIDES, for a number that need not be whole.
IsZero(x)  == x = Whole(0)
TooMany(x) == x.part > Modulus - 1 \/ (x.part = Modulus - 1 /\ ~x.whole)

Rollx(x) ==
  /\ Idle
  /\ ~IsZero(x) /\ ~TooMany(x)
  /\ Throws("rollx", 1, x)

-----------------------------------------------------------------------------
(***************************************************************************)
(* Utils.Rand.  The conversion of a number below 0 is undefined: a build   *)
(* takes the low bits of its integer part, or 0.                           *)
(***************************************************************************)
Unsigned(x) == IF x.part \in Words THEN {x.part} ELSE {x.part % Modulus, 0}

\* Bug: the result is not moved from 0..n-1 to 1..n.
FromZero(w, m) == w % m

FromOne(w, m) == ((w % m) + 1) % Modulus

\* GetValue, which returns any word here.
AnyWord == word' \in Words

\* The remainder by 0 raises SIGFPE, whose handler ends the process.
Throw ==
  /\ left > 0
  /\ \E m \in Unsigned(sides) :
       IF m = 0
       THEN crashed' = TRUE /\ left' = 0 /\ UNCHANGED rolls
       ELSE /\ rolls' = Append(rolls, FromOne(word', m))
            /\ left' = left - 1
            /\ UNCHANGED crashed
  /\ UNCHANGED asked

Ask ==
  \/ \E num \in Counts, n \in Sides : Roll(num, n)
  \/ \E x \in Numbers : Rollx(x)

\* The process is started again.
Restart ==
  /\ crashed' = FALSE /\ left' = 0 /\ rolls' = << >>
  /\ UNCHANGED <<word, asked>>

Next == Ask \/ (AnyWord /\ Throw) \/ Restart

Spec == Init /\ [][Next]_dice

-----------------------------------------------------------------------------
\* A command throws as many dice as it asked for, and never more than it may.
TypeOK ==
  /\ word \in Words
  /\ by \in {"nobody", "roll", "rollx"}
  /\ sides \in [part : Int, whole : BOOLEAN]
  /\ left \in Nat /\ rolls \in Seq(Words)
  /\ by = "roll" => left + Len(rolls) <= MAX_ROLLS
  /\ by # "roll" => left + Len(rolls) <= 1
  /\ crashed \in BOOLEAN

\* A throw is a side of the die that was asked for, however many sides it has:
\* adding 1 does not wrap around.  A number that is negative gives a throw too,
\* of no particular range.
RollsInRange ==
  \A i \in 1..Len(rolls) :
    /\ rolls[i] >= 1
    /\ sides.part \in Words => rolls[i] <= sides.part

\* Only rollx can divide by zero: with a number that its tests let pass and
\* that is none when its fraction is cut off, or not in the range of unsigned.
OnlyRollxDividesByZero ==
  crashed => by = "rollx" /\ ~IsZero(sides) /\ sides.part \notin 1..(Modulus - 1)
=============================================================================
