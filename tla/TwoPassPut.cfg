CONSTANTS
  NumFields <- MCNumFields
  Kind <- MCKind
  TypeField <- MCTypeField
  TableMembers = {"Leaf", "Node"}
  OtherMembers = {"Name"}
  MaxPathSize = 3
SPECIFICATION Spec
INVARIANTS
  TypeOK
  EachFieldHoldsItsOwn
  EveryOffsetIsRead
  RestIsCopied
  NamedIsWritten
  DiscriminantMatchesValue
CHECK_DEADLOCK FALSE
