CONSTANTS
  c1 = c1
  c2 = c2
  a = a
  b = b
  bad = bad
  Cells <- TwoCells
  Values <- TwoValues
  Bad = bad
  MaxEditors = 2
  MaxSaves = 2
CONSTRAINT OneInOrder
SPECIFICATION Spec
SYMMETRY Symmetry
INVARIANTS UnsavedIsKnown
PROPERTIES AskedBeforeLoss EntriesAreSent
