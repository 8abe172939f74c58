CONSTANTS
  Tables <- MCTables
  NoBuffer = NoBuffer
  Path <- MCPath
  ConcatPath <- MCConcatPath
  Operations <- MCOperations
  Nesting <- MCNesting
  Requests <- MCRequests
  HeldSizes = {3}
  Largest = 5
  WellFormed <- MCWellFormed
  ClassifyPut <- MCClassifyPut
  Put <- MCPut
  ClassifyDelete <- MCClassifyDelete
  Delete <- MCDelete
  Faithful <- MCFaithful
  Copy <- MCCopy
  Size <- MCSize
  MostLength = 2
  MostUpdates = 2
SPECIFICATION Spec
INVARIANT GrownVectorsFitTogether
CHECK_DEADLOCK FALSE
