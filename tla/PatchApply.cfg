CONSTANTS
  Tables <- MCTables
  NoBuffer = NoBuffer
  Path <- MCPath
  ConcatPath <- MCConcatPath
  Operations <- MCOperations
  Nesting <- MCNesting
  Requests <- MCRequests
  HeldSizes = {0, 1}
  Largest = 3
  WellFormed <- MCWellFormed
  ClassifyPut <- MCClassifyPut
  Put <- MCPut
  ClassifyDelete <- MCClassifyDelete
  Delete <- MCDelete
  Faithful <- MCFaithful
  Copy <- MCCopy
  Size <- MCSize
  MostLength = 1
  MostUpdates = 2
SPECIFICATION Spec
INVARIANTS
  BuiltOnlyIfApplied
  ListsShareTheRunningTable
  FoldsAFaithfulBuffer
PROPERTIES
  BudgetCountsLiveBuffers
  Returns
  ImplementsAgenda
  ImplementsPatchSpec
CHECK_DEADLOCK FALSE
