CONSTANTS
  PathBits = 3
  BaseBits = 2
  CounterCap = 2
  RegBits = 3
SPECIFICATION Spec
INVARIANTS TypeOK OneBitSet
PROPERTIES MapGrows HalvesKept HitsSpec
