\* Two imports of up to three rows, in batches of two; one row has no session.
CONSTANTS
  Ids = {a, b, c}
  Importers = {i1, i2}
  NoSession = {c}
  BatchSize = 2
  None = None
  Empty = Empty
  AppStore = AppStore
  MaxChanges = 2
  MaxDamages = 1
SPECIFICATION Spec
INVARIANTS
  MigrationInv
  PublishedIsWhole
  PublishedIsSource
  NoDebris
PROPERTIES
  TargetNeverReplaced
\* A migration is over when its processes are.
CHECK_DEADLOCK FALSE
