CONSTANTS
  Records = {r1, r2, r3, r4}
  TemplateRows = FALSE
  Plain = {p1, p2}
  Links = {anchor}
  Own = {checkbox, menuCell}
  MenuCell = menuCell
  Confirmation = TRUE
  MaxRequests = 2
SPECIFICATION MCSpec
SYMMETRY Symmetry
INVARIANTS CheckboxesAgree HeaderAgrees
PROPERTIES ImplementsSelection OnlyAClickRuns OneOkOneRequest
