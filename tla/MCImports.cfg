CONSTANTS
  Sources <- MCSources
  ModuleSources <- MCModuleSources
  Programs <- CompiledPrograms
  Modules <- CompiledModules
  ModuleNames <- NamesOfModules
  Meanings <- SourceMeanings
  MaxRuns = 1
SPECIFICATION Spec
INVARIANTS
  TypeOK
  FrameSafe
  OperandsSafe
  FunctionsDelimited
  JitCacheCurrent
  OutputAgrees
