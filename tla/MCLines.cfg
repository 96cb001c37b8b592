CONSTANTS
  Texts <- MCTexts
  Callers <- MCCallers
SPECIFICATION Spec
INVARIANTS
  LayoutAgrees
  BlocksBalance
  NothingLost
PROPERTIES
  Progress
  Advances
