CONSTANTS
  r1 = r1
  r2 = r2
  r3 = r3
  c1 = c1
  c2 = c2
  v1 = v1
  v2 = v2
  CellPages = {{r1}, {r2}}
  Columns = {c1, c2}
  Values = {v1, v2}
  MaxRequests = 2
  Pages <- TwoPages
  Restorable <- First
  FirstPage <- First
SPECIFICATION MCSpec
SYMMETRY Symmetry
INVARIANTS SubmittedIsShown AsksWhenSomethingIsLost EditsAreSubmitted
PROPERTIES ChangesSurvive
