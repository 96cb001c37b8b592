CONSTANTS
  Texts <- MCTexts
  Callers <- MCCallers
SPECIFICATION Spec
INVARIANTS
  TypeOK
  RoundTrip
  ErrorsStayLocal
PROPERTY
  Terminates
