CONSTANTS
  Natives <- MCNatives
  Arguments <- MCArguments
  ArgumentRegister = "RDI"
  HalfWord = 1024
  CodeAddress = 64
  ReturnTo = 8
  StackTop = 1000
  StackBytes = 400
SPECIFICATION Spec
INVARIANT
  ResultCorrect
