CONSTANTS
  s1 = s1
  s2 = s2
  MaxId = 3
  Names <- TwoNames
  Foreign <- Shared
  ForeignNames <- Renamed
  Slots <- TwoSlots
  Disturbances = TRUE
SYMMETRY Symmetry
VIEW WithoutChosen
CONSTRAINT SmallDisorder
SPECIFICATION Spec
INVARIANTS ShownIsStored
PROPERTIES DefaultLostOnlyWithView
