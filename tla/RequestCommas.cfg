CONSTANTS
  Objects <- MCObjects
  Enums <- MCEnums
  Null = Null
  Lost = Lost
  Deepest = 4
  ElementBytes <- MCElementBytes
  PayloadBytes <- MCPayloadBytes
  Root = "Doc"
  Structs <- MCStructs
  Texts <- MCTexts
  Payloads <- MCPayloads
  Largest = 4
  IndexWord = 128
  FlexFits <- MCFlexFits
  TableReads <- MCTableReads
  Requests <- MCRequests
  Sources <- MCSources
  TrailingCommas = TRUE
SPECIFICATION Spec
INVARIANTS
  TrailingCommaIsTaken
CHECK_DEADLOCK FALSE
