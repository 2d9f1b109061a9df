CONSTANTS
  Dirs = {"north", "south"}
  Names = {"a"}
  Keys = {"k1"}
  Resources <- Importable
  NoResource = NoResource
  Owners = {"o1"}
  ConfiguredOwner = "o1"
  InitialDisks <- TwoDirs
  OutsideFiles <- NoChange
  MaxRows = 4
  MaxEdits = 0
  MaxSearches = 2
  MaxOutside = 0
  Region = "us-east-1"
  Functions <- OneFunction
  Tables <- NoTable
  Buckets <- TwoBuckets
  StackSummaries <- TwoStacks
  MaxImportSearches = 2
  MaxVisits = 2
SPECIFICATION FairToolSpec
CHECK_DEADLOCK FALSE
INVARIANTS ImportTypeOK IdleListingCurrent TreeFaithful
PROPERTIES ImportedOnce ListingCatchesUp LoadingEnds
