CONSTANTS
  r1 = r1
  r2 = r2
  r3 = r3
  r4 = r4
  r5 = r5
  r6 = r6
  s1 = s1
  s2 = s2
  Records <- Six
  Deletable <- Five
  MaxLimit = 4
  BatchSize = 2
  AclApplied = TRUE
  MaxFetches = 0
  Slots <- TwoSlots
SPECIFICATION Spec
INVARIANTS AnswersMatchRequestType DeletesWhatWasConfirmed
SYMMETRY AllSymmetry
CONSTRAINT Undisturbed
