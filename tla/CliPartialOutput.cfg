CONSTANTS
  Files = {"a", "b"}
  Stdin = "stdin"
  Stdout = "stdout"
  None = "none"
  Blocks <- MCBlocks
  Requests <- MCRequests
  Arguments <- MCArguments
  Contents <- MCContents
  Schemas <- MCSchemas
  Buffers <- MCBuffers
  Parses <- MCParses
  Apply <- MCApply
  MostRuns = 1
SPECIFICATION Spec
INVARIANTS
  NoPartialOutput
CHECK_DEADLOCK FALSE
