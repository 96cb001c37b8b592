CONSTANTS
  Programs <- CompiledSources
  Modules <- CompiledModules
  ModuleNames <- NamesOfModules
  Depth <- MCDepth
  Room <- MCRoom
  ModuleDepth <- MCModuleDepth
  ModuleRoom <- MCModuleRoom
  Clean <- MCClean
  MaxRuns = 2
SPECIFICATION CertifiedSpec
INVARIANTS
  TInv
  CertifiedHere
  FrameSafe
  OperandsSafe
  BInv
PROPERTIES
  CallersUntouched
