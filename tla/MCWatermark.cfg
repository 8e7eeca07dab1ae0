SPECIFICATION Spec
CONSTANTS
  Fonts <- MCFonts
  Texts <- MCTexts
  Sizes <- MCSizes
  UintRange = 65536
INVARIANTS
  TypeOK
  DrawsLayout
  CacheIsTheFont
