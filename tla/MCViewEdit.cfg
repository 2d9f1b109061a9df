CONSTANTS
  Dirs = {"north", "south"}
  Names = {"a", "b"}
  Keys = {"k1", "k2"}
  r1 = r1
  Resources = {r1}
  NoResource = NoResource
  Owners = {"o1", "o2"}
  ConfiguredOwner = "o1"
  InitialDisks <- TwoDirs
  OutsideFiles <- Outside
  MaxRows = 3
  MaxEdits = 3
  MaxSearches = 1
  MaxOutside = 1
SPECIFICATION Spec
CHECK_DEADLOCK FALSE
INVARIANTS TypeOK SuccessRowsStored
PROPERTY WriteStoresTable
