CONSTANTS
  Sources <- MCSources
  ModuleSources <- MCModuleSources
  Programs <- CompiledPrograms
  Modules <- CompiledModules
  ModuleNames <- NamesOfModules
  Meanings <- SourceMeanings
  MaxRuns = 1
SPECIFICATION Spec
INVARIANTS
  FrameSafe
  OperandsSafe
  HaltsClean
  OutputAgrees
  PatchSafe
PROPERTIES
  FramesSeparate
  Terminates
