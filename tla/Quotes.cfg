SPECIFICATION Spec
CONSTANTS
  Texts = {"boo", "moo"}
  People = {"ann", "bob"}
  MaxId = 3
INVARIANTS
  FoundIsWanted
  ErrorsComeFromOutside
PROPERTIES
  NamesTheAdder
  IdsAreNotReused
  NotRemovedMeansFailed
