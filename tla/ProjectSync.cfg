SPECIFICATION Spec
CONSTANTS
  None = None
  MaxEdits = 2
  MaxOthers = 1
  MaxItems = 1
  MaxFaults = 1
  MaxCommands = 2
CHECK_DEADLOCK FALSE
INVARIANTS
  TypeOK
  ConfirmedIsTaken
  RevisionNamesPage
  TypedKept
PROPERTIES
  NoBlindOverwrite
  StoredInTheEnd
