CONSTANTS
  Natives <- MCNatives
  Arguments <- MCArguments
  ArgumentRegister = "RCX"
  HalfWord = 1024
  CodeAddress = 64
  ReturnTo = 8
  StackTop = 1000
  StackBytes = 400
SPECIFICATION Spec
INVARIANTS
  RunsEmitted
  ResultCorrect
  CallerPreserved
  NInv
PROPERTY
  ReturnsToVm
