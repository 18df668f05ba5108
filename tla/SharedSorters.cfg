CONSTANTS
  Multiple = TRUE
  Names = {v1}
  Rest = {p, q}
  Sorters = {x, y}
  MaxObjects = 5
  All = All
  Blank = Blank
  MaxRequests = 1
SPECIFICATION Spec
PROPERTIES ResetsToInitialState
