SPECIFICATION Spec
CONSTANTS
  Base = 4
  Width = 2
  Char = {0, 3}
  MaxText = 6
  Names <- SomeNames
INVARIANTS
  TypeOK
  ShownAsTyped
  SizeIsLength
  NeverTooShort
