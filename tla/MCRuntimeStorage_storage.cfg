SPECIFICATION StorageSpec
CONSTANTS
  p1 = p1
  Paths = {p1}
  Kind <- OnePut
  Facts <- OnePutFacts
  Shadows = {"full"}
  MinPasses = 2
  Faults = {}
  Roles = {}
  Overlap = TRUE
  MaxSnap = 3
INVARIANTS BindingsAnswer BoundPathsExist
PROPERTIES SwitchIsEarned FeedIsChangeFeed SnapshotIsMirrored
CHECK_DEADLOCK FALSE
