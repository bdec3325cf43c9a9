SPECIFICATION FilesSpec
CONSTANTS
  Handle = {h1, h2, h3}
  NoTransaction = NoTransaction
  MaxWrites = 2
  MaxLength = 2
SYMMETRY Symmetry
INVARIANTS StoredUntilOverwritten SizeTellsLength
CHECK_DEADLOCK FALSE
