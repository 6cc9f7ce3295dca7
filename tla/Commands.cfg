SPECIFICATION FairSpec
CONSTANTS
  Users = {"ann", "Fire_Adept"}
  Bot = "MeepBot"
  Owner = "Fire_Adept"
  Ranks <- MCRanks
  Words <- MCWords
  Lines <- MCLines
  MaxInbox = 1
PROPERTIES
  QuietWhenDisabled
  PrivateStaysPrivate
  SwitchedByStaff
  FeedbackEnds
