CONSTANTS
  Objects <- MCObjects
  Enums <- MCEnums
  Null = Null
  Lost = Lost
  ElementBytes <- MCElementBytes
  PayloadBytes <- MCPayloadBytes
  Root = "Doc"
  Sources <- MCSources
  Puts <- MCPuts
  Deletes <- MCDeletes
  Largest = 4
  MostRequests = 1
  NoRequest = NoRequest
  UnpairedTypes = TRUE
SPECIFICATION Spec
INVARIANTS
  BufferVerifies
CHECK_DEADLOCK FALSE
