SPECIFICATION Spec
CONSTANTS
  Strings <- MCStrings
  Prefix <- MCPrefix
  PrefixNoCase <- MCPrefixNoCase
  IsMe <- MCIsMe
  Bot <- MCBot
  Blank <- MCBlank
  Users <- MCUsers
  MaxFeed = 3
  MaxUnknown = 1
INVARIANTS
  RosterInStep
  ListedHaveOneRow
  AloneMeansAlone
  FullNameHits
