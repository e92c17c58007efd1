CONSTANTS
  here = here
  town = town
  nowhere = nowhere
  blank = blank
  filled = filled
  a = a
  b = b
  h1 = h1
  h2 = h2
  NoPlace = NoPlace
  NoPhoto = NoPhoto
  Here = here
  Blank = blank
  Other <- OtherEvent
  Categories <- SomeCategories
  Places <- Found
  BadPlaces <- NotFound
  Answers <- OneText
  Photos <- OnePhoto
  Handlers <- TwoRuns
  SystemBack = FALSE
  Late = TRUE
  OtherPhones = TRUE
  Faults = TRUE
  MaxPhotos = 2
  MaxTime = 8
  MaxEvents = 1
SPECIFICATION Spec
SYMMETRY RunSymmetry
INVARIANTS TypeOK PublishedIsComplete PhotosWellFiled
