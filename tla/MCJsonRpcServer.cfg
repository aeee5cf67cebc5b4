SPECIFICATION Spec
CONSTANTS
  i1 = i1
  i2 = i2
  Id = {i1, i2}
  MaxMessages = 3
INVARIANTS
  RegistryMatchesWork
  CancelledMeansAsked
PROPERTIES
  EveryRequestAnswered
