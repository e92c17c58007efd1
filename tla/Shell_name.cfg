CONSTANTS
  u1 = u1
  u2 = u2
  s1 = s1
  s2 = s2
  NoUser = NoUser
  NoPage <- NullContext
  Slots <- TwoSlots
  Users <- OneUser
  Ids <- ThreeScreens
  MaxRoutes = 3
  SystemBack = FALSE
  Faults = FALSE
SPECIFICATION Spec
INVARIANTS RegisteredNameIsPublished
