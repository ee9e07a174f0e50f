SPECIFICATION Spec
CONSTANTS
  NoOne = NoOne
  Ann = Ann
  Limits <- MCRaces
INVARIANTS
  NoStaleAudio
  ConversationKept
  ToolsAfterTurn
CHECK_DEADLOCK FALSE
