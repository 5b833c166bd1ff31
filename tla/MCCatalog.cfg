CONSTANTS
  Shapes = {"denied", "fp"}
  Keys <- MCKeys
  Builtins = {"permission_403"}
  Unmatched = "unmatched"
  ClassOf <- MCClass
  ShapeOfKey <- MCShapeOfKey
  Laddered = "permission_403"
  Splits <- PageSplits
  Merges <- PageMerges
  Saves <- PageSaves
  MaxErrorHits = 1
  MaxReports = 2
  None = "none"
SPECIFICATION Spec
INVARIANTS
  TypeOK
  HitsConserved
  RoutesKept
PROPERTIES
  SplitRoutesThere
  WithdrawnGetsNone
CHECK_DEADLOCK FALSE
