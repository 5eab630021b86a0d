SPECIFICATION SpecListing
CONSTANTS
  Keys = {2, 4, 6, 8}
  Group <- MCGroup
  Encoded <- MCEncoded
  Under <- MCUnder
  Sizes = {0, 2, 4}
  Starts = {0, 4}
  MaxWrites = 1
  MaxFailures = 1
INVARIANTS ListComplete ListOnce
PROPERTY ListEnds
CHECK_DEADLOCK FALSE
