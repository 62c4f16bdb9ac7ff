CONSTANTS
  c1 = c1
  c2 = c2
  place = place
  reader = reader
  editor = editor
  Calls = {c1, c2}
  Tools <- MCTools
  Uses <- MCUses
  Skills <- MCSkills
  Policies <- MCPolicies
  MaxEdits = 1
  MaxSessions = 2
SPECIFICATION Spec
SYMMETRY MCSymmetry
CHECK_DEADLOCK FALSE
INVARIANTS
  DeniedNeverAsked
  RanWithAuthority
  LateAsksComeFromLinks
PROPERTIES
  GrantsCoverWhatWasShown
