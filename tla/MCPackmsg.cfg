CONSTANTS
  Skcds <- DisplayAndGeneric
  HalfZeroLabels <- OneHalfZero
  WordBits = 2
  DigitChoices <- SomeDigits
  LsbChoices <- SomeLsbs
  Texts = {"blank", "message"}
  Watermark <- MCWatermark
  InputChoices <- SomeInputs
  MaxGarblings = 2
  MaxPublished = 2
  MaxReads = 2
SPECIFICATION Spec
INVARIANTS
  TypeOK
  PairMatches
  WholeCircuitEvaluates
  NoOtherMessage
PROPERTIES
  ThrowsLeaveObjects
  ShowsBurnedCircuit
