CONSTANTS
  u1 = u1
  u2 = u2
  s1 = s1
  s2 = s2
  NoUser = NoUser
  NoPage <- NullContext
  Slots <- TwoSlots
  Users <- TwoUsers
  Ids <- FiveScreens
  MaxRoutes = 5
  SystemBack = FALSE
  Faults = TRUE
SPECIFICATION Spec
SYMMETRY Symmetry
INVARIANTS TypeOK SpinnerIsModal SpinnerHasItsScreen ThanksCloseTheirForm SessionCoherent ConsentRespected FormNeedsSession
PROPERTIES CredentialsOnlyWhenSignedOut ImplementsSession
