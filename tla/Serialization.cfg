SPECIFICATION Spec
CONSTANTS
  Ids = {first, second, third}
  Names <- TwoNames
  Types = {1, 4}
  Values <- SmallValues
  MaxLength = 2
  Strings <- OneString
  Newline <- CarriageLine
  MaxSize = 1000
SYMMETRY Interchangeable
INVARIANTS
  TypeOK
  BufferFilled
  LoadedAsSaved
