CONSTANTS
  u1 = u1
  u2 = u2
  s1 = s1
  s2 = s2
  NoUser = NoUser
  NoPage <- NullContext
  Slots <- TwoSlots
  Users <- TwoUsers
  Ids <- TwoScreens
  MaxRoutes = 3
  SystemBack = TRUE
  Faults = TRUE
SPECIFICATION Spec
SYMMETRY Symmetry
INVARIANTS OnlyRegistered NamesAreStored
