CONSTANTS
  Skcds <- OnlyNoOtp
  HalfZeroLabels = {}
  WordBits = 2
  DigitChoices <- NoDigits
  LsbChoices <- SomeLsbs
  Texts = {"blank", "message"}
  Watermark <- MCWatermark
  InputChoices <- SomeInputs
  MaxGarblings = 2
  MaxPublished = 2
  MaxReads = 2
SPECIFICATION Spec
INVARIANT
  NoOtpMessageShown
