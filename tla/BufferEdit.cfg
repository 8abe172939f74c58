CONSTANTS
  Objects <- MCObjects
  Enums <- MCEnums
  Null = Null
  Lost = Lost
  ElementBytes <- MCElementBytes
  PayloadBytes <- MCPayloadBytes
  Root = "Doc"
  Sources <- MCSources
  Puts <- MCPuts
  Deletes <- MCDeletes
  Largest = 4
  MostRequests = 2
  NoRequest = NoRequest
  UnpairedTypes = FALSE
SPECIFICATION Spec
INVARIANTS
  BufferVerifies
  AppliedCopiesExactly
  PutIsIdempotent
PROPERTIES
  ImplementsDocumentSpec
CHECK_DEADLOCK FALSE
