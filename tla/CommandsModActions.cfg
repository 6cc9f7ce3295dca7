SPECIFICATION Spec
CONSTANTS
  Users = {"ann", "Fire_Adept"}
  Bot = "MeepBot"
  Owner = "Fire_Adept"
  Ranks <- MCRanks
  Words <- MCWords
  Lines <- MCFewLines
  MaxInbox = 1
PROPERTIES
  ModActionsAct
