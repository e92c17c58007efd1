CONSTANTS
  climate = climate
  upload = upload
  bother = bother
  attention = attention
  empty = empty
  typed = typed
  Scales <- OneScale
  MaxRating = 4
  Fields <- SomeFields
  Texts <- SomeTexts
  Empty = empty
  Dash = Dash
  NoDoc = NoDoc
SPECIFICATION Spec
INVARIANTS ReaderIsToldTheAnswer
