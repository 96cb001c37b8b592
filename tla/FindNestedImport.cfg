CONSTANTS
  Sources <- NestedImport
  ModuleSources <- SomeModules
  Programs <- CompiledPrograms
  Modules <- CompiledModules
  ModuleNames <- NamesOfModules
  Meanings <- SourceMeanings
  MaxRuns = 1
SPECIFICATION Spec
INVARIANTS
  OperandsSafe
