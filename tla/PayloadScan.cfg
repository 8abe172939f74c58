CONSTANTS
  Word = 32
  Unit = 8
  IntegerTypes <- MCIntegerTypes
  Single <- MCSingle
  Double <- MCDouble
  Nothing = Nothing
  Inputs <- MCInputs
  Spelling <- MCSpelling
  MaxPayloadDepth = 2
  Deepest = 4
SPECIFICATION Spec
INVARIANTS
  ReadsWhatIsWritten
  RefusesNoValue
  IntegersAreExact
  FloatsAreNearest
CHECK_DEADLOCK FALSE
