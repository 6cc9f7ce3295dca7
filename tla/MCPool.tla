------------------------------- MODULE MCPool -------------------------------
(***************************************************************************)
(* An instance of Pool for TLC: pools of 8 words of 30 bits.               *)
(***************************************************************************)
EXTENDS Pool

MCModulus == 2^30
MCSeeds == {<<77, 69, 69, 80, 66, 79, 84, time>> : time \in {1, 2}}

\* 0, 1/2, 6, MAX_ROLLX_SIDES, a little more, -1/2 (as 1/2), -1 and nan.
MCNumbers ==
  { Whole(n) : n \in {0, 6, MCModulus - 1, MCModulus, -1, -MCModulus} }
    \cup { [part |-> n, whole |-> FALSE] : n \in {0, MCModulus - 1} }
=============================================================================
