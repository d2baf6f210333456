SPECIFICATION Spec
CONSTANTS
  Texts <- MCTexts
  Ascii = {1, 2}
  Lone = 4
  Replacement = 5
  Misread <- MCMisread
  OffsetLimit = 6
  LengthOverflow = 3
  Opened <- MCOpened
  MaxStrings = 3
VIEW FileView
INVARIANTS HashesFollow WideAligned
PROPERTIES EditsAsAsked NextPatchIsInPlace
