SPECIFICATION Spec
CONSTANTS
  Programs <- Copies
  Builds = {FALSE}
  Safe = {FALSE}
  Ssa = {FALSE}
INVARIANT CompiledMeans
CHECK_DEADLOCK FALSE
