SPECIFICATION Spec
CONSTANTS
  Names = {"ann", "bob"}
  Owner = "bob"
  MaxWarnings = 3
  MaxCrashes = 1
  MaxErrors = 1
INVARIANTS
  TypeOK
  BarredAreBlank
PROPERTIES
  RankOnlyFalls
  WarnNeverForgives
  KeepsPromise
  BarredMeansBarred
