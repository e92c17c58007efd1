CONSTANTS
  u1 = u1
  u2 = u2
  s1 = s1
  s2 = s2
  NoUser = NoUser
  NoPage <- NullContext
  Slots <- TwoSlots
  Users <- OneUser
  Ids <- FiveScreens
  MaxRoutes = 5
  SystemBack = FALSE
  Faults = FALSE
SPECIFICATION FairSpec
INVARIANTS SpinnerIsAwaited
PROPERTIES SpinnerGoesAway
