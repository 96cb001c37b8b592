CONSTANTS
  Sources <- MCSources
  ModuleSources <- MCModuleSources
  Programs <- CompiledPrograms
  Modules <- CompiledModules
  ModuleNames <- NamesOfModules
  Meanings <- SourceMeanings
  MaxRuns = 2
SPECIFICATION Spec
INVARIANTS
  HaltsClean
  OutputAgrees
PROPERTIES
  FramesSeparate
