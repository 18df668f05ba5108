CONSTANTS
  r1 = r1
  r2 = r2
  r3 = r3
  r4 = r4
  r5 = r5
  r6 = r6
  s1 = s1
  s2 = s2
  Records <- Two
  Deletable <- One
  MaxLimit = 1
  BatchSize = 1
  AclApplied = FALSE
  MaxFetches = 0
  Slots <- TwoSlots
SPECIFICATION Spec
INVARIANTS DeletesOnlyDeletable
SYMMETRY SlotSymmetry
