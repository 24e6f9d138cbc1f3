SPECIFICATION RequestSpec
CONSTANTS
  Environments <- MCEnvironments
  Bodies <- MCBodies
  Models <- MCModels
  Fetched <- MCFetched
  Dirs = {d1, d2}
  Tokens = {"test-key"}
  Ids = {"", "s"}
  None = None
INVARIANTS TypeOK SessionIsAsAsked PermissionWithinSettings AskersCanBeAnswered AgentsAreKnown NothingIsLost ImagesFitModel FilesFollowTheTurn ToolChoiceIsHonoured
PROPERTIES ContinuedAsBegun
