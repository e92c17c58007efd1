CONSTANTS
  m1 = m1
  m2 = m2
  m3 = m3
  barcelona = barcelona
  home = home
  null = null
  NoPlace = NoPlace
  Default = barcelona
  Nowhere = null
  Maps <- ThreeMaps
  Places <- ThreePlaces
SPECIFICATION FairSpec
INVARIANTS TypeOK CentredOnce FlagMeansCentred UntouchedMapsAlike
PROPERTIES FirstCentringComes
