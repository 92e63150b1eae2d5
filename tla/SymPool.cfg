SPECIFICATION Spec
CONSTANTS
  Thread = {t1, t2}
  x = x
  y = y
  ux = ux
  uy = uy
  build = build
  universe = universe
  Name = {x, y, z}
  NULL = NULL
  Ptr = {ux, uy, a, b, c, d}
  Pool = {build, universe}
  Base <- MCBase
  Growing = {build}
  Added = {x, z}
  Preset <- MCPreset
  PresetName <- MCPresetName
SYMMETRY Symmetry
INVARIANTS
  TypeOK
  Unique
  NeverDangling
  Interned
PROPERTY NeverMissed
