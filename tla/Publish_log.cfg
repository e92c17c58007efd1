CONSTANTS
  here = here
  town = town
  nowhere = nowhere
  blank = blank
  filled = filled
  a = a
  b = b
  h1 = h1
  h2 = h2
  NoPlace = NoPlace
  NoPhoto = NoPhoto
  Here = here
  Blank = blank
  Other <- OtherEvent
  Categories <- SomeCategories
  Places <- Found
  BadPlaces <- NotFound
  Answers <- Texts
  Photos <- TwoPhotos
  Handlers <- OneRun
  SystemBack = FALSE
  Late = FALSE
  OtherPhones = FALSE
  Faults = FALSE
  MaxPhotos = 1
  MaxTime = 4
  MaxEvents = 1
SPECIFICATION FairSpec
PROPERTIES ImplementsLog PublicationEnds
