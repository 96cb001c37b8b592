CONSTANTS
  Sources <- ShiftedFactorial
  ModuleSources <- NoModules
  Programs <- CompiledPrograms
  Modules <- CompiledModules
  ModuleNames <- NamesOfModules
  Meanings <- SourceMeanings
  MaxRuns = 1
SPECIFICATION Spec
INVARIANTS
  OutputAgrees
