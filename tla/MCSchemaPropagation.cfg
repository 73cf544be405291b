CONSTANTS
  t1 = t1
  t2 = t2
  f1 = f1
  f2 = f2
  f3 = f3
  Tenants = {t1, t2}
  Frames = {f1, f2, f3}
  Owner <- MCOwner
  Layouts = {"short", "long", "huge"}
  Length <- MCLength
  MaxFields = 2
  Versions = {0, 1}
  SimLayout <- MCSimLayout
  MapEntries = 1
  MaxPushes = 1
  MaxSims = 1
SPECIFICATION FairSpec
INVARIANTS
  DecodedAsStamped
  TrapsOnlyOnOversizedSchema
PROPERTIES
  DecodedVersionsAscend
  CatchesUp
CHECK_DEADLOCK FALSE
