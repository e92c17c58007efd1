CONSTANTS
  e1 = e1
  e2 = e2
  e3 = e3
  c1 = c1
  c2 = c2
  Ids <- ThreeEvents
  Categories <- TwoKinds
  Slots <- TwoLoads
  SystemBack = FALSE
  NoPhotos = TRUE
  Faults = TRUE
  None = None
SPECIFICATION Spec
SYMMETRY Symmetry
INVARIANTS TypeOK MapFitsItsFilter OneMarkerEach HiddenStaysHidden
PROPERTIES LoadShowsWhatWasFound ImplementsView
