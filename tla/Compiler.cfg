SPECIFICATION Spec
CONSTANTS
  Programs <- MCPrograms
  Builds = {FALSE}
  Safe = {FALSE, TRUE}
  Ssa = {FALSE, TRUE}
INVARIANTS
  WellTyped
  ContextRestored
  Validates
  CompiledMeans
  SsaGraph
  SsaDominates
  SsaMeans
CHECK_DEADLOCK FALSE
