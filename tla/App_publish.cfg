CONSTANTS
  u1 = u1
  s1 = s1
  s2 = s2
  here = here
  blank = blank
  a = a
  NoUser = NoUser
  NoPage <- NullContext
  Slots <- TwoSlots
  Users <- OneUser
  Ids <- ThreeScreens
  MaxRoutes = 4
  SystemBack = FALSE
  Faults = TRUE
  NoPlace = NoPlace
  NoPhoto = NoPhoto
  Here = here
  Blank = blank
  Other <- OtherEvent
  Categories <- SomeCategories
  Places <- Found
  BadPlaces <- NotFound
  Answers <- OneText
  Photos <- OnePhoto
  Late = TRUE
  OtherPhones = FALSE
  MaxPhotos = 1
  MaxTime = 4
  MaxEvents = 1
SPECIFICATION AppSpec
SYMMETRY Symmetry
INVARIANTS SignedByItsSender RecordsInOrder
PROPERTIES ImplementsForm
