SPECIFICATION PoolSpec
CONSTANTS
  Modulus <- MCModulus
  MAX_ROLLS = 3
  MAX_SIDES = 10
  Counts = {0, 1, 3, 4}
  Sides = {0, 1, 6, 11}
  Numbers <- MCNumbers
  W = 30
  RANDSIZL = 3
  Golden = 506952121
  Seeds <- MCSeeds
  MaxDraws = 20
INVARIANTS
  RollsInRange
  OnlyRollxDividesByZero
  DrawsFollowTheStream
PROPERTIES
  PoolDrawsWords
