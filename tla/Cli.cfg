CONSTANTS
  Files = {"a", "b"}
  Stdin = "stdin"
  Stdout = "stdout"
  None = "none"
  Blocks <- MCBlocks
  Requests <- MCRequests
  Arguments <- MCArguments
  Contents <- MCContents
  Schemas <- MCSchemas
  Buffers <- MCBuffers
  Parses <- MCParses
  Apply <- MCApply
  MostRuns = 2
SPECIFICATION Spec
INVARIANTS
  SuccessIsWhole
  TouchesOnlyWhatItEdits
  WholeUnlessTorn
CHECK_DEADLOCK FALSE
