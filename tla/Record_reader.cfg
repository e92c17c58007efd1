CONSTANTS
  climate = climate
  upload = upload
  bother = bother
  attention = attention
  empty = empty
  typed = typed
  Scales <- AllScales
  MaxRating = 4
  Fields <- SomeFields
  Texts <- SomeTexts
  Empty = empty
  Dash = Dash
  NoDoc = NoDoc
SPECIFICATION Spec
INVARIANTS TypeOK CategoryKeepsItsName ReaderIsToldTheRatings
