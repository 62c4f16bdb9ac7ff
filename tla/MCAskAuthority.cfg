SPECIFICATION Spec
CONSTANTS
  Files <- Contents
  Starts <- AllStarts
  CoreWords = {"cat"}
  WrapperWords = {"env"}
  MaxEdits = 1
  Contexts <- AllContexts
  Asks <- AllAsks
  JudgeFiles <- AllJudgeFiles
  Known <- Models
  Keyboard <- Pressed
  MaxAsks = 1
  MaxSessions = 1
  MaxRelays = 1
INVARIANTS
  UntrustedProjectIsUnread
  KeysDecideOneThing
  NoStrayKeyApproves
  JudgeIsHeard
CHECK_DEADLOCK FALSE
