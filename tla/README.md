# flatbuffers-request in TLA+

flatbuffers-request edits a FlatBuffer it knows only by its reflection schema.
A request is a *put* (write this payload at this path), a *delete* (remove what
this path names) or a *patch* (a list of requests relative to a path). The
library never edits in place: it rebuilds the root table, copying every field
the request does not name. This directory models that, the parser in front of it
and the command-line tool around it, checks them with TLC, and proves with TLAPS
what rests on positions, on recursion, on widths and on the order of steps.

Source paths below are relative to the repository (`src/…` in `PROJECT.json` is
the repository's root, so its own `src/` directory is `src/src/`). *Apply* is
`src/FlatbufferRequestApply.cpp`.

## The system: parts, state, hard behaviour

| Part | Source | State it keeps | Operations | Interacts with | What makes it correct |
|---|---|---|---|---|---|
| Request schema | `schemas/fbrequest/FlatbufferRequest.fbs` | none; the serialized request | generated readers and verifier | written by the parser, read by the apply | a request that verifies is one of three operations |
| Request parser | `src/FlatbufferRequestParse.cpp` | what is left of the text, the path read so far, the patches open | `parseFlatbufferRequest` | uses the growth bounds and payload values; output goes to the apply | takes the requests that name an edit, ignores nothing, and what it takes the apply serves |
| Payload values | `src/PayloadValue.cpp`, `src/StringScan.cpp` | what is left of the text, the values it is within; a struct's image while it is overlaid | scan a value; fits / write for scalars, structs, lists | called by both parser and apply | a value is read as it is written; a payload that fits is written whole and exactly, one that does not writes nothing |
| Growth bounds | `src/ElementIndex.hpp` | none | `vectorGrowthBudget`, `vectorCanGrowTo`, … | called by both parser and apply | no vector a put grows overruns a flatbuffer |
| Verify, faithfulness, copy | `src/TableCopy.cpp` | none | `verifyObject`, `copiesFaithfully`, `copyTableDeep` | called by classify pass and builders | a faithful table is copied as it is |
| Classify pass | *Apply* 1047-1557 | none | `classifyPut`, `classifyDelete` | reads the source; decides whether a builder runs | answers Applied exactly where the builders make the edit |
| Put builder | *Apply* 340-1045 | the offsets pushed, the position read, the table in progress | generate pass, build pass | the builder `fbb`; recursion into children | each field gets its own child; the edit is made, the rest copied |
| Delete builder | *Apply* 1842-2247 | the same | the same, by rules of its own | the same | the same |
| Patch application | *Apply* 1689-1840, 2249-2305 | running table and buffer per list, outcome so far, bytes held | put, delete or nested list per step; fold | classify pass and builders, caller's builder | all or nothing; each operation sees the ones before it |
| Public functions | `include/fbrequest/FlatbufferRequest.hpp` | none | `tryApplyRequest`, `applyRequest`, `verifyBuffer` | the caller | the outcomes the header documents |
| Request shape | *Apply* 1559-1680 | none | `wellFormed`, `patchTarget` | before any operation is classified | passes what the parser writes |
| Command-line tool | `tools/fbrequest.cpp` | files | read, verify, parse, apply, write | all of the above | writes only a complete result |
| Tests, fuzzers, build | `tests/`, `fuzz/`, … | | | | read for what they assert of the program |

The library is sequential and keeps nothing between calls, so nothing in it is
about threads or messages. Only the tool has state that outlives it, its files;
there a failure or a kill between two steps matters. What is hard is this:

* **two passes that must agree by position**: children are built first and
  their offsets pushed to a list; the table is built second and reads the list
  in order. Both passes decide for each field whether it has an offset, put by
  one shared predicate, delete by two different rules;
* **a judgement made ahead**: the classify pass answers before anything is
  built, in code that shares no line with the builders that rely on it;
* **values in two pieces**: a union is a discriminant field and a value field,
  a vector of unions two vectors of equal length, each written by other code;
* **partial failure**: a patch's operations build real buffers on the way, and
  a failing one must leave no trace; a struct's payload can fail part way;
* **budgets threaded through recursion**: nested vectors and nested patches
  share one bound on what may be grown;
* **one rule written twice**: the parser and the apply each decide whether a path
  resolves, a payload fits, a patch stops at a table; where they differ, an edit
  is reported and never made;
* **widths**: a numeral goes through 64-bit words and a double before it reaches
  its field, and an index is 32 bits;
* **a truncating write**: the tool's output may be its input, and a write that
  fails, or a kill half way, leaves neither the old content nor the new.

`PROJECT.json` lists each of these at its line under `hazards`, with the
properties that cover it.

## Modules

```
TableFields ── TwoPassPut    ── MCTwoPassPut     (TLC)
     │              └────────── TwoPassPutProofs (TLAPS)
     └──────── TwoPassDelete ── MCTwoPassDelete, TwoPassDeleteProofs

Schemas ─┬─ TableValues ─┬─ Documents ── DocumentSpec (INSTANCE in MCBufferEdit)
         │               └─ RequestEdit (with StructValues) ── BufferEdit
         ├─ StructValues
         └─ RequestShape ── RequestText ── RequestParse ── RequestParseProofs
MCBufferEdit:   BufferEdit, Documents and SampleSchema
ParsedRequests: RequestParse and RequestEdit
MCRequestParse: ParsedRequests and SampleSchema

ScalarRanges ── PayloadScan ── ScalarStores ─┬─ PayloadGrammar ── MCPayloadScan
                                             └─ ScalarStoresProofs

PatchEdits ─┬─ PatchApply ── MCPatchApply, PatchApplyProofs
            ├─ PatchAgenda (INSTANCE in PatchApply) ── PatchAgendaProofs
            └─ PatchSpec   (INSTANCE in PatchAgenda)

PutGrowth ── MCPutGrowth, PutGrowthProofs

Cli ── MCCli, CliProofs
```

The groups look at one request at different distances: a table's fields by
position, a buffer by value, a patch by its operations, and before those the
request's text and the values in it; then the arithmetic of growth, and the
process around it all.

**TableFields, TwoPassPut, TwoPassDelete: one table, field by field.** A table
has `NumFields` fields in the schema's order, each of a `Kind`; `TypeField`
names a union's discriminant. An offset is a record of the field it was
generated for, its slot (0 for discriminants, 1 for the value) and whether what
it refers to was copied, overlaid or built fresh. `GenerateField` is one turn of
the loop of `…_GenerateOffsets`, `BuildField` (through `AddOneOffset`,
`AddUnionVector`, `AddUnion`, `AddInline`, `SkipField`) one call of
`…_BuildTableField`; `offsetIndex` is the code's own. Reading past the end of
the vector is modelled as reading garbage. Requests and sources are those the
classify pass accepts (`Classified`); the builders document that they assume it.
A source may store unions without discriminants and members that hold no
table; what children contain is left to the next group.

**Schemas, TableValues, StructValues, RequestEdit, BufferEdit: whole buffers, by
value.** A schema is data (`Objects`, `Enums`). A stored table is a function
from the vtable offsets it stores to values, with discriminants as fields of
their own; a struct's image is one from the offsets of its members, fixed
arrays are sequences, and a vector may be held through 64 bits, as `offset64`
or as `vector64`. `TableValues` is `TableCopy.cpp`: `Verifies`,
`CopiesFaithfully`, `CopyTable`. `StructValues` is how `PayloadValue.cpp`
overlays a payload on a struct's image, member by member, and where it gives up.
`RequestEdit` is the classify pass (`PutApplies`, `ClassifyDelete`) and what the
builders make (`PutTable`, `DeleteTable`), one operator per C++ function, so
that the two can disagree as the code's could. `BufferEdit` applies requests
one after another, each to the last result. `Documents` defines what a buffer
*means*, a tree in which a union is one value and no discriminant stands alone,
and what an edit of it should be; `DocumentSpec` is that as a specification,
and `BufferEdit` is shown to implement it under `document <- Document(Root,
buffer)`.

**PatchEdits, PatchApply: a whole request, edit by edit.** Single puts and
deletes are constants here (`ClassifyPut`, `Put`, …, with
`EditAssumption` stating what the other groups establish of them), and so is how
deep an operation nests (`Nesting`): a request is finite.
`applyOperationList` becomes a stack of frames, one per nested list: its
position, its running table, the buffer that holds it, its outcome so far and
the bytes held beside it. Each loop turn, call and return is an action. Two
abstract specifications say what that comes to:

* `PatchAgenda` carries the request out as by hand: *one* running table and an
  agenda of operations, each with its whole path. `PatchApply` implements it
  under `agenda <- AgendaLeft` (what each frame has left to do, prefixed),
  `table <- RunningTable` (that of the front of the stack) and
  `outcome <- OutcomeSoFar` (NotStored once any frame is).
* `PatchSpec` flattens the request and answers it in one step, from every table
  its edits can leave (`After`). `PatchAgenda` implements it, and `PatchApply`
  through it.

**RequestShape, RequestText, RequestParse, ParsedRequests: the text of a
request.** `RequestText` is how a request is written by the grammar: an
operation's own tokens first (`OperationTokens`), its updates left in their
places as items, then those, level by level (`WrittenOut`), so that no operator
of it is RECURSIVE. The parser reads a sequence of tokens: `pc` is where in
`FlatbufferRequestParse.cpp` it stands, `path` the offsets read, `object`,
`field`, `inVector` and `inStruct` what the schema has there, and `patches` the
stack of patches whose lists are not closed. `RequestShape` is
the apply's `patchTarget`, a turn of whose loop takes one or more steps of a path
(`PatchStep` is one), and `wellFormed`, whose recursion goes down an operation
level by level (`Inside`), and must come to an end within `depth` of them: the
parser passes that for the length of the text. `ParsedRequests` says which
requests name an edit, independently of the parser, and asks the apply's own tests (`RequestEdit`, `RequestShape`) about what the
parser made of the same text.

**ScalarRanges, PayloadScan, ScalarStores, PayloadGrammar: the text of a
value.** `PayloadScan` is `parseFlexValue` with the recursion of `takeValue` as
a stack of the maps and lists begun, `takeString` with its escapes, surrogates
and UTF-8, and `takeNumber`. `ScalarRanges` is the arithmetic: words with and
without a sign, a double and a float with their significant bits,
`integerFits`, `scalarFits`, `scalarBytes`. `ScalarStores` is the exact number a
text spells, and `PayloadGrammar` what a whole text denotes, both defined over
the whole text and never by scanning, for the properties to compare with.

**PutGrowth: what one put grows, in the code's integers.** The vectors a path
reaches through, one inside another, are charged to the budget by `GrowVector`
(`classifyPutInVector`, one call per vector), a whole vector by
`AcceptPayload`; `BuildVector` gives each the length its builder computes. Words
are constants: bytes are counted modulo `Word64`, and the length of a vector of
offsets, `index + 1U`, modulo `Word32`. `WordAssumption` says what the code's
own numbers satisfy: the bound is below 2^32, and 2^32 elements of any size are
below 2^64. `grown` counts what is built without a word's end, for the
properties to compare with.

**Cli: the process around it.** A file is a sequence of blocks; a read takes it
whole or fails, an open truncates, a write appends block by block and may fail
after any. Each stage of `main` is an action (`CheckArguments`, `ReadSchema`,
…), `Kill` may end a run before any of them, and another run with other
arguments may follow over the files as they are. The history variables
`before`, `ioError` and `torn` remember what the run found and whether a write
of it was interrupted. What a request makes is the constant `Apply`.

### Abstractions

* Bytes, alignment, bounds of the bytes, string pooling and the vtable layout are
  left out: an offset is what it refers to.
* A table payload is one written as some table; bytes written as one table that
  would also verify as another are not. flatbuffers' own JSON parser, which
  reads a table payload, and the generated verifier are taken as given.
* At the value level and in the parser a payload is what it parses to. The
  parser reads a list of tables bracket by bracket, since it splits that list
  itself; any other payload is one token there, and many in `PayloadScan`.
* A numeral is its sign, its form (whole, fraction, inf, nan, none), whether it
  is hexadecimal and its value in fractions of a unit; its digits, and the
  flexbuffer's encoding, are left out. So is the text of messages.
* Integers have a width where it decides something: in `PutGrowth`, in
  `ScalarRanges`, in the parser's indices (`IndexWord`), and a discriminant is
  its low eight bits. Elsewhere they have none.

## What the runs check

| Run | Model | Properties |
|---|---|---|
| `two_pass_put` | one field of each of nine kinds with their discriminants, all accepted sources and paths up to 3; 544,320 states | each field holds its own offset; every offset is read (the assertion at the end of `…_BuildTable`); the rest is copied; the named field is built over the stored value exactly where the put goes inside it; discriminant and value agree |
| `two_pass_delete` | the same, for deletes; 1,033,536 states | the same, and what is named is gone |
| `patch_apply` | two vectors, one in a subtable; patches nested three deep; 28,804 states | the root is built exactly when Applied; no stale running table; a put is made exactly where it fits beside every live buffer; the fold reads a faithful buffer; the call returns; `PatchAgenda` and `PatchSpec` are implemented |
| `buffer_edit` | a schema with every kind of field, structs in structs, arrays and both 64-bit vectors; odd and plain sources, over 200 requests, two in a row; 47,217 states | the result verifies; what was Applied copies exactly; a put is idempotent; `DocumentSpec` is implemented |
| `put_growth` | words of four and seven bits, paths through up to two vectors into an inline one or to a whole one, first and last indices; 26,280 states | the budget never wraps; what is grown fits beside what is held; no length loses an element; nothing that fits is refused |
| `request_parse` | the texts of over a hundred puts, deletes and patches of that schema, and of each with a token dropped, repeated or put in; 29,110 states | nothing in a text is ignored; it is parsed exactly if it names an edit, but for two kinds of request; what is parsed is served, with the same exceptions, and well formed for the apply; every text is answered |
| `payload_scan` | thousands of texts of strings, maps, lists and numerals around every edge; 72,693 states | what is read is what is written; no value is refused; integers are stored exactly or refused for their range; floats are the nearest |
| `cli` | two runs in a row over two files and the streams, failing or killed at any point; 172,707 states | success leaves the whole edit of the whole input, or of what a failed read left of standard input; only the destination is touched; a file is whole unless a write to it was interrupted |
| `patch_growth` | *violation* | the header's bound on all that a request grows together |
| `unpaired_types` | *violation* | an Applied request builds a buffer that verifies |
| `cli_partial_output` | *violation* | a failing run never writes partial output |
| `request_commas` | *violation* | a list may end in a comma |

Bounds, and why they are enough:

* The two-pass runs hold each kind of field once, with kinds that take an offset
  before and after those that take two, so any miscount shifts a field of
  another kind. The proofs lift this to every schema.
* `MostUpdates = 2` and three levels of nesting give every pair of an operation
  and one before or after it on the same or an enclosing list; `Largest = 3`
  with `HeldSizes = {0, 1}` puts puts on both sides of the bound, with and
  without the running buffers counted.
* `MostRequests = 2` follows each edit by every other on its result: a put after
  the put that grew, a delete after the switch. `Largest = 4` lets a vector
  grow to four, or one element's nested vector take what the outer one leaves.
  Sources hold a union value under no discriminant, a NONE element, a
  discriminant without its union and a field not declared, each alone. Requests
  that edit structs are made of the sources that hold one, and of the empty one;
  the others of the rest.
* `put_growth`'s narrow word wraps at the last index it holds, 15, as 2^32 - 1
  does in the code; `Largest = 15` is met exactly and passed by one, with and
  without bytes held, and asked-for bounds lie on both sides of it.
* `request_parse` writes each request as the grammar has it, then once more
  without each token, with each token twice, with a space, a `}` or a `[` at each
  place, and with an index after it: one slip away from a request in every
  direction. `IndexWord = 128` is met by the index 127 and passed by 128, and
  paths grow one vector or two on both sides of `Largest = 4`.
* `payload_scan` has words of 5 bits, a double of 3 significant bits and a float
  of 2, in eighths: as in the code, a double holds fewer of the integers than a
  word, a float fewer yet, and both go past the word. Types of 1, 2, 4 and 5
  bits, signed and not, are met one below, at and one above each end.
  `MaxPayloadDepth = 2` stands for the code's 64, with texts four deep; that 64 is
  also the FlatBuffers parser's limit is the code's comment, and not modelled. Strings
  meet every edge of UTF-8's lengths (overlong forms, surrogates, past the
  last) and each pair of escapes.
* `cli`: a buffer is two blocks, of which the first alone still verifies, so a
  torn write can be mistaken for a buffer by the next run; two runs are what
  that takes. Input, output and schema may be the same file.

### Fairness

Two models are fair, `PatchApply` and `RequestParse` by `WF_vars(Next)`, since a
C++ call, once made, runs on until it returns. `Returns` and `Answers` then say
that the recursion is well founded and that the parser's loops always read. The
other models have no liveness property: the tool runs straight through, and may
wait on standard input for ever. All of them may stop where a request or a run
is finished, so deadlock is not checked.

### What the violations show

* `patch_growth`: the header says what the builder holds and *every* vector a
  request grows fit the bound together. A patch that grows a vector, deletes it
  and grows another is budgeted beside the running table only, so it is
  Applied. Memory stays bounded; the sentence is stronger than the code.
* `unpaired_types`: a source may store the discriminants of a vector of unions
  without the vector, and it verifies. A put into an element then builds a
  vector as long as the index needs, but lays its discriminant over the stored
  ones: lengths differ and the result no longer verifies. Both halves of the
  check miss it: `copiesFaithfully` skips the discriminants with the field the
  request writes, and `otherElementsCopyFaithfully` is given no table where
  the vector is not stored. `buffer_edit` leaves that one source out
  (`UnpairedTypes = FALSE`), and `PatchEdits` such tables.
* `cli_partial_output`: `docs/cli.md:64` says the tool "never writes partial
  output on failure". `writeFile` truncates the output when it opens it
  (`tools/fbrequest.cpp:62`) and then writes into it: where the write fails, the
  tool exits 1 and leaves part of the result, with `--in-place` where the input
  was. `WholeUnlessTorn` is what does hold.
* `request_commas`: `docs/grammar.md:47` gives a list "an optional trailing
  comma". The parser splits a list of tables itself and, after a comma, requires
  another table (`FlatbufferRequestParse.cpp:287`). Other lists are scanned by
  `parseFlexValue`, which takes the comma.

Smaller differences between what is documented and what the modelled code does,
which the models follow and no run is made for:

* `docs/grammar.md:4` says whitespace between tokens is insignificant; in some
  places of a request the parser takes one space and no other whitespace, or none.
* `docs/grammar.md:181` and `FlatbufferRequest.hpp:77` have the parser refuse
  every request that names no edit, "vectors grown past the bound" among them.
  Two kinds it takes, and the apply alone refuses: an edit of an element of a
  64-bit vector (`OfWideElement`), and a put of which no vector grown, nor list
  of structs, passes the bound by itself, but all that it grows and writes whole
  does (`TooLargeInAll`). `ParsedIffItNamesAnEdit` and `ParsedIsServed` except
  these two by name and nothing else; the requests of `request_parse` hold both.
* `docs/cli.md:60` gives exit 1 for a file that cannot be read. An error half way
  through a read is either an uncaught exception or, on standard input, a short
  read (`Aborted`, `ReadThrows`, `ReadShort`). What was read short is edited, if
  it verifies, and the tool exits 0: `SuccessIsWhole` allows that beginning of
  standard input, and otherwise no input but a whole one.
* `docs/grammar.md:44` refuses for a float what would round to infinity. The
  code asks whether the double nearest the numeral does, so
  `340282356779733661637539395458142568447`, just below the middle between the
  largest float and infinity, is refused: the double nearest it is that middle.

## What is proved

All proofs are checked by tlapm down to their leaves, for every value of the
constants under the named assumptions.

* **TwoPassPutProofs, TwoPassDeleteProofs**: `TypeCorrect`,
  `EachFieldReadsItsOwn`, `AssertionHolds`, `UnionAndDiscriminantAgree`,
  `TheRestIsCopied`, and `HeadIsWritten` or `HeadIsDeleted`: every property the
  two runs check, for every schema, source and accepted request. From the
  schema's well-formedness (`SchemaAssumption`: a union's discriminant is another
  field that no other union has). The properties are not inductive: that the
  next offset read is this field's needs the whole list. The invariant `IInv`
  says the list is *genuine* (each entry was pushed for a slot its field has),
  *ordered* by field and slot, *complete* up to the field generated, and *split*
  by `offsetIndex` exactly where the build pass stands, and what the table
  holds for each field built. Ordered and complete leave one candidate for the
  next read.
* **PatchApplyProofs**: `TypeCorrect`, `AllOrNothing`, `NoStaleRunningTable`,
  `BudgetIsTakenBesideAllBuffers`, `FoldReadsABuffer`, for any request at any
  depth, from `OperationAssumption` and `EditAssumption`. `IInv` adds that every
  buffer a list holds copies faithfully, and that a list still Applied past its
  first operation holds one; without these the fold could read no buffer. Calls
  and returns move several facts between frames, so one lemma says what a step
  that changes only the front of the stack must keep, and every action is an
  instance of it. Its type invariant is proved and not run.
  `OneTableOneOrder` is that it implements `PatchAgenda`: each step that only
  moves the front on maps to a stutter or an edit, entering a list to `Enter`,
  leaving one to `Return`, an answer to its like. It needs `ListsNest`: every
  frame counts at least the caller's bytes, so that the budget inside a list is
  at most the request's own (which is why `PatchAgenda` answers a put with any
  budget up to that), and only the front list can be about to copy.
  `BudgetIsTakenBesideAllBuffers` is that a put of a list is made exactly where
  it fits beside all buffers alive. The invariant counts those of the lists
  around it (`BytesHeldAddUp`), frame by frame; that this comes to the sum over
  the whole stack (`LiveBytes`, a recursive function) is an induction over the
  stack by way of `PatchAgendaProofs`' least elements.
  `AnswersAtOnce` is that it implements `PatchSpec`, by `OneTableOneOrder` and
  the next theorem.
* **PatchAgendaProofs**: `OneAfterAnotherIsAtOnce`, that `PatchAgenda` implements
  `PatchSpec`, for any nesting, from the same assumptions. The invariant is that
  the edits done and the agenda, flattened from its innermost list outward
  (`Rest`), are together the flattened request, and the running table is one
  that `After` says those done can leave (`Reached`); an item is then the next
  edit, and a patch entered or left changes nothing. That `Flatten` and `After`
  satisfy their own recursive equations is proved first: `Flatten` by induction
  on how deep an item nests (`SolutionsAgree`, `SolutionExists`), both by way of
  a set of numbers and its least element, since a theorem that takes an operator
  cannot be instantiated.
* **PutGrowthProofs**: `TypeCorrect`, `AllGrowthFits`, `NoLengthWraps` and
  `NothingThatFitsIsRefused`, for every word, bound, path and list, from
  `WordAssumption` and `PutAssumption`. `IInv` adds that while vectors are
  classified what is held, grown and left make exactly the bound (or nothing was
  left to begin with), that a step that is through has an index below the bound,
  which is why the 32-bit length cannot wrap, and that lengths follow the path.
* **RequestParseProofs**: `TypeCorrect`, and `NoTurnReadsNothing`: every step
  of the parser reads a token, or leaves fewer steps that may read none; so of
  any three in a row one reads, for every schema and text, from
  `ParseAssumption`. That is the safety half of `Answers`, and why no loop of
  the parser can turn for ever. And `ParsedHasShape`: a request that is parsed
  passes `wellFormed`. The parser and the apply find what a patch patches in
  code of their own, one while it reads names, brackets and union members, the
  other from the offsets the first wrote, so the invariant (`ShapeInv`) ties
  them: the path read so far comes, by `patchTarget`, to the object the parser
  is at (`PathLeads`); each patch open leads from what the one around it patches
  to its own target, and the operations read of it have the shape there
  (`PatchesShaped`); the operation just read has it too (`OperationShaped`). How
  deep one may nest is what the text is long, less the patches open around it
  (`PatchesAreRead` says they have taken a token each, and one more). The lemma
  it turns on is `FieldLeads`, that a field's reading and `patchTarget` take the
  same steps to the same object for every kind of field, but for a whole vector,
  which names the type of its elements and which `Patchable` refuses. It needs
  that an array holds no tables or unions (`ParseAssumption`), which FlatBuffers'
  schema language does not allow: the parser would read a path into one, and
  `patchTarget` stops at every array.
  `AllOfTheTextIsParsed` is that a request that is parsed, written out, is all of
  its text but for the spaces, for every schema and text and however deep its
  patches nest. The invariant (`TextInv`) is an equation kept up at every step:
  the text is what the parser holds, written out, and then what is left to read.
  What it holds is the patches open, each up to its last update (`OpenText`), and
  what it has of the operation being read, which depends on where it stands
  (`Current`: a verb, a path and perhaps the dot after it, the tables of a list,
  an operation that is complete). Writing out goes level by level, so an
  operation may change places with its tokens (`Completes`), and that is what
  reading its last token does; for that the invariant also bounds how deep each
  operation read is (`Within`). Whether an offset of a path is written as a name
  or between brackets depends on the whole path before it, and the parser only
  knows the object it is at; that what a field's reading reads is what its
  offsets are written with is `FieldWrites`, for every kind of field. Of the
  constants it needs that no object of the schema has an empty name, and that
  what a value token spells is no list of tables, which the parser takes bracket
  by bracket (`ParseAssumption`).
* **ScalarStoresProofs**: `IntegersExact`, that an integer field is given the
  very number the payload spells and is refused none that its type holds, and
  `FloatsNearest`, that a double field is given the double nearest that number
  and a float field one of the two floats it is between, an infinity only of an
  infinity; for words, integers and formats of every width, from
  `WordAssumption`, `UnitAssumption`, `IntegerTypesAssumption`,
  `TypeNamesAssumption`, `NothingAssumption`, `FormatAssumption` and
  `InputsAssumption`. `FormatAssumption` says what binary formats are and that a
  double holds every float and 2^64. A number is rounded once into a double and
  once more into a float, and the second rounding must not carry it past a float
  it had not reached, nor to infinity what `scalarFits` let through: rounding is
  proved to answer one of the nearest numbers of the format (`RoundedIsNearest`)
  and to pass none of them, once or twice over (`RoundedTwice`). The
  invariant (`ReadsThenStores`) is that a text of one name or number is read in
  one step, as what `takeNumber` makes of it.
* **CliProofs**: `TypeCorrect`, `SuccessWritesTheWholeEdit`,
  `NothingElseIsTouched` and `OnlyInterruptedWritesTear`, for any files,
  arguments, requests and number of runs, from `CliAssumption` and
  `ApplyAssumption`. `IInv` says what a run that has come as far as `pc` has
  established: the arguments are `Checked`, the files `Untouched` before the
  open, the schema and input are whole (`SchemaIsWhole`, `InputIsVerified`), the
  result is theirs (`ResultIsMade`), and is `WrittenInOrder` from there on.

`EditAssumption`'s claim that an Applied edit makes a faithful table is what
`buffer_edit` checks as `AppliedCopiesExactly` (and, with it,
that copying is then the identity).

Only model-checked: `Returns` and `Answers`, which are liveness; the
refinement of `DocumentSpec`, `ParsedIffItNamesAnEdit` and `ParsedIsServed`,
`ReadsWhatIsWritten`, `RefusesNoValue` and all of the value level. Their
operators are RECURSIVE, over requests, texts and tables of any depth, and no
prover is given those.

## What is left

The control of the program is modelled: what remains is to carry more of it to
every size. `PatchAgendaProofs` and `RequestParseProofs` show how a recursive
function can be reasoned about; with the value level's operators written as such
functions, its `AppliedCopiesExactly` would be the next theorem, and would
discharge `EditAssumption`.

### Not modelled

* String pooling, alignment, the layout of vtables and the verifier's bounds of
  the bytes: they concern the encoding, and a buffer is a value here.
* The serialized form of a request and the code generated for it, flatbuffers'
  JSON parser, flexbuffers' encoding, `reflection::Verify`: libraries, taken as
  given.
* The wording of messages.
* Tests, fuzzers, build and packaging files, which are not part of the program;
  they were read for what they assert of it.
