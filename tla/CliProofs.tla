------------------------------- MODULE CliProofs -------------------------------
(***************************************************************************)
(* Proofs about Cli, for any files, schemas, requests and number of runs.  *)
(***************************************************************************)
EXTENDS Cli, SequenceTheorems, TLAPS

\* What the destination holds before the first block of the result.
Kept == IF Destination = Stdout THEN before[Stdout] ELSE << >>

\* What a run that got as far as `pc` has established.
Checked ==
  pc \in {"schema", "input", "parse", "apply", "open", "write"} =>
    /\ args.schema \in Files /\ args.request \in Requests
    /\ Destination \in Files \cup {Stdout} /\ ~args.help
Untouched ==
  pc \in {"arguments", "schema", "input", "parse", "apply", "open"} =>
    files = before /\ written = 0
SchemaIsWhole ==
  pc \in {"input", "parse", "apply", "open", "write"} =>
    schema = before[args.schema] /\ schema \in Schemas
InputIsVerified ==
  pc \in {"parse", "apply", "open", "write"} =>
    /\ input \in Buffers[schema]
    /\ \/ input = before[args.input]
       \/ /\ ioError /\ args.input = Stdin
          /\ \E n \in 0..Len(before[Stdin]) : input = SubSeq(before[Stdin], 1, n)
ResultIsMade ==
  pc \in {"open", "write"} =>
    /\ applied = Apply(schema, input, args.request)
    /\ applied.outcome = "Applied"
WrittenInOrder ==
  pc = "write" =>
    files = [before EXCEPT ![Destination] =
               Kept \o SubSeq(applied.root, 1, written)]

IInv ==
  /\ TypeOK
  /\ Checked
  /\ Untouched
  /\ SchemaIsWhole
  /\ InputIsVerified
  /\ ResultIsMade
  /\ WrittenInOrder
  /\ SuccessIsWhole
  /\ TouchesOnlyWhatItEdits
  /\ WholeUnlessTorn

\* A block added to the blocks written makes the blocks written next.
LEMMA NextBlock ==
  ASSUME NEW S, NEW kept \in Seq(S), NEW root \in Seq(S), NEW n \in 0..Len(root),
         n < Len(root)
  PROVE  /\ Append(kept \o SubSeq(root, 1, n), root[n + 1])
              = kept \o SubSeq(root, 1, n + 1)
         /\ root[n + 1] \in S
<1> DEFINE short == SubSeq(root, 1, n)
           long == SubSeq(root, 1, n + 1)
<1>1. /\ short \in Seq(S) /\ Len(short) = n
      /\ \A i \in 1..n : short[i] = root[i]
  OBVIOUS
<1>2. /\ long \in Seq(S) /\ Len(long) = n + 1
      /\ \A i \in 1..n + 1 : long[i] = root[i]
  OBVIOUS
<1>3. root[n + 1] \in S
  OBVIOUS
<1> HIDE DEF short, long
<1>4. /\ kept \o short \in Seq(S) /\ Len(kept \o short) = Len(kept) + n
      /\ \A i \in 1..Len(kept) + n : (kept \o short)[i] =
           IF i <= Len(kept) THEN kept[i] ELSE short[i - Len(kept)]
  BY <1>1, ConcatProperties
<1>5. /\ kept \o long \in Seq(S) /\ Len(kept \o long) = Len(kept) + n + 1
      /\ \A i \in 1..Len(kept) + n + 1 : (kept \o long)[i] =
           IF i <= Len(kept) THEN kept[i] ELSE long[i - Len(kept)]
  <2>1. /\ kept \o long \in Seq(S) /\ Len(kept \o long) = Len(kept) + Len(long)
        /\ \A i \in 1..Len(kept) + Len(long) : (kept \o long)[i] =
             IF i <= Len(kept) THEN kept[i] ELSE long[i - Len(kept)]
    BY <1>2, ConcatProperties
  <2>2. Len(kept) + Len(long) = Len(kept) + n + 1
    BY <1>2, LenProperties
  <2> QED
    BY <2>1, <2>2
<1> DEFINE both == kept \o short
           next == kept \o long
           added == Append(both, root[n + 1])
<1> HIDE DEF both, next
<1>a. both \in Seq(S)
  BY <1>4 DEF both
<1>6. /\ added \in Seq(S) /\ Len(added) = Len(both) + 1
      /\ \A i \in 1..Len(both) : added[i] = both[i]
      /\ added[Len(both) + 1] = root[n + 1]
  BY <1>3, <1>a, AppendProperties
<1>7. Len(added) = Len(next)
  BY <1>4, <1>5, <1>6 DEF both, next
<1>8. \A i \in 1..Len(added) : added[i] = next[i]
  <2> SUFFICES ASSUME NEW i \in 1..Len(added) PROVE added[i] = next[i]
    OBVIOUS
  <2>1. Len(kept) \in Nat /\ Len(added) = Len(kept) + n + 1 /\ i \in Nat
    BY <1>4, <1>6 DEF both
  <2>2. CASE i <= Len(kept)
    BY <2>1, <2>2, <1>4, <1>5, <1>6 DEF both, next
  <2>3. CASE i > Len(kept) /\ i <= Len(kept) + n
    <3>1. i - Len(kept) \in 1..n
      BY <2>1, <2>3
    <3> QED
      BY <2>1, <2>3, <3>1, <1>1, <1>2, <1>4, <1>5, <1>6, SMTT(30) DEF both, next
  <2>4. CASE i = Len(kept) + n + 1
    <3>1. next[i] = long[n + 1]
      BY <2>1, <2>4, <1>5 DEF next
    <3>2. added[i] = root[n + 1]
      BY <2>1, <2>4, <1>4, <1>6 DEF both
    <3> QED
      BY <3>1, <3>2, <1>2
  <2> QED
    BY <2>1, <2>2, <2>3, <2>4
<1>9. added = next
  BY <1>5, <1>6, <1>7, <1>8, SeqEqual DEF next
<1> QED
  BY <1>3, <1>9 DEF both, next, short, long

LEMMA NoBlocks ==
  ASSUME NEW S, NEW kept \in Seq(S), NEW root \in Seq(S)
  PROVE  kept \o SubSeq(root, 1, 0) = kept /\ SubSeq(root, 1, Len(root)) = root
<1>1. SubSeq(root, 1, 0) = << >>
  OBVIOUS
<1>2. SubSeq(root, 1, Len(root)) \in Seq(S)
      /\ Len(SubSeq(root, 1, Len(root))) = Len(root)
      /\ \A i \in 1..Len(root) : SubSeq(root, 1, Len(root))[i] = root[i]
  OBVIOUS
<1> QED
  BY <1>1, <1>2

LEMMA Beginning ==
  ASSUME NEW S, NEW seq \in Seq(S), NEW n \in 0..Len(seq)
  PROVE  SubSeq(seq, 1, n) \in Seq(S)
<1>1. Len(seq) \in Nat /\ \A i \in 1..n : seq[i] \in S
  OBVIOUS
<1>2. n \in Int /\ 1 \in Int
  OBVIOUS
<1> QED
  BY <1>1, <1>2, SubSeqProperties

LEMMA Empty == << >> \in Seq(Blocks)
OBVIOUS

LEMMA NothingWritten ==
  ASSUME NEW S, NEW seq \in Seq(S)
  PROVE  0 \in 0..Len(seq)
OBVIOUS

\* What the types say of the parts that are sequences.
LEMMA Sequential ==
  TypeOK => /\ files \in [Streams -> Seq(Blocks)]
            /\ before \in [Streams -> Seq(Blocks)]
            /\ applied.root \in Seq(Blocks)
            /\ runs \in Nat /\ torn \subseteq Streams
BY DEF TypeOK

LEMMA InitInv == Init => IInv
<1> SUFFICES ASSUME Init PROVE IInv
  OBVIOUS
<1>1. files \in [Streams -> Seq(Blocks)] /\ before \in [Streams -> Seq(Blocks)]
  BY CliAssumption DEF Init
<1>2. NotApplied \in [outcome : Outcomes, root : Seq(Blocks)]
      /\ Len(NotApplied.root) = 0 /\ << >> \in Seq(Blocks)
  BY DEF NotApplied, Outcomes
<1>3. applied \in [outcome : Outcomes, root : Seq(Blocks)]
      /\ written \in 0..Len(applied.root) /\ schema \in Seq(Blocks)
      /\ input \in Seq(Blocks)
  BY <1>2 DEF Init
<1>4. TypeOK
  BY <1>1, <1>3 DEF Init, TypeOK, Running, Killed, Aborted, Success,
     RuntimeError, UsageError
<1> QED
  BY <1>4 DEF Init, IInv, Checked, Untouched, SchemaIsWhole, InputIsVerified,
     ResultIsMade, WrittenInOrder, SuccessIsWhole, TouchesOnlyWhatItEdits,
     WholeUnlessTorn, Running, Success, RuntimeError, UsageError, Aborted

\* The input is a stream, and so is a destination that is checked.
LEMMA StreamsNamed ==
  ASSUME IInv, pc \in {"schema", "input", "parse", "apply", "open", "write"}
  PROVE  /\ args.schema \in Streams /\ args.input \in Streams
         /\ Destination \in Streams /\ args \in ArgumentType
BY CliAssumption DEF IInv, TypeOK, Checked, Streams, ArgumentType

USE DEF Running, Killed, Aborted, Success, RuntimeError, UsageError

LEMMA CheckArgumentsInv == IInv /\ CheckArguments => IInv'
<1> SUFFICES ASSUME IInv, CheckArguments PROVE IInv'
  OBVIOUS
<1> USE DEF IInv, CheckArguments, History, End
<1>1. TypeOK'
  BY DEF TypeOK
<1>2. args \in ArgumentType
  BY CliAssumption DEF TypeOK
<1>3. Checked'
  BY <1>2, CliAssumption DEF Checked, WrongArguments, Destination, ArgumentType
<1>4. (Untouched /\ SchemaIsWhole /\ InputIsVerified /\ ResultIsMade
        /\ WrittenInOrder)'
  BY DEF Untouched, SchemaIsWhole, InputIsVerified, ResultIsMade, WrittenInOrder
<1>5. (SuccessIsWhole /\ TouchesOnlyWhatItEdits /\ WholeUnlessTorn)'
  BY DEF Untouched, SuccessIsWhole, TouchesOnlyWhatItEdits, WholeUnlessTorn, TypeOK
<1> QED
  BY <1>1, <1>3, <1>4, <1>5

LEMMA ReadSchemaInv == IInv /\ ReadSchema => IInv'
<1> SUFFICES ASSUME IInv, ReadSchema PROVE IInv'
  OBVIOUS
<1> USE DEF IInv, ReadSchema, History, End, Fail, Require, OpenFails, ReadThrows
<1>1. args.schema \in Streams /\ files = before
  BY StreamsNamed DEF Untouched
<1>2. TypeOK'
  BY <1>1 DEF TypeOK
<1>3. (Checked /\ Untouched /\ SchemaIsWhole)'
  BY <1>1 DEF Checked, Untouched, SchemaIsWhole, Destination
<1>4. (InputIsVerified /\ ResultIsMade /\ WrittenInOrder)'
  BY DEF InputIsVerified, ResultIsMade, WrittenInOrder
<1>5. (SuccessIsWhole /\ TouchesOnlyWhatItEdits /\ WholeUnlessTorn)'
  BY <1>1 DEF SuccessIsWhole, TouchesOnlyWhatItEdits, WholeUnlessTorn, TypeOK
<1> QED
  BY <1>2, <1>3, <1>4, <1>5

LEMMA ReadInputInv == IInv /\ ReadInput => IInv'
<1> SUFFICES ASSUME IInv, ReadInput PROVE IInv'
  OBVIOUS
<1> USE DEF IInv, ReadInput, History, End, Fail, Require, OpenFails, ReadThrows,
        ReadShort
<1>1. args.input \in Streams /\ args.schema \in Streams /\ files = before
  BY StreamsNamed DEF Untouched
<1>2. input' \in Seq(Blocks)
  <2>1. /\ files[args.input] \in Seq(Blocks) /\ files[Stdin] \in Seq(Blocks)
        /\ input \in Seq(Blocks)
    BY <1>1 DEF TypeOK, Streams
  <2>2. ASSUME NEW n \in 0..Len(files[Stdin])
        PROVE  SubSeq(files[Stdin], 1, n) \in Seq(Blocks)
    <3> DEFINE all == files[Stdin]
    <3>1. all \in Seq(Blocks) /\ n \in 0..Len(all)
      BY <2>1
    <3> HIDE DEF all
    <3>2. SubSeq(all, 1, n) \in Seq(Blocks)
      BY <3>1, Beginning
    <3> QED
      BY <3>2 DEF all
  <2> QED
    BY <2>1, <2>2
<1>3. TypeOK'
  BY <1>2 DEF TypeOK
<1>4. (Checked /\ Untouched /\ SchemaIsWhole)'
  BY <1>1 DEF Checked, Untouched, SchemaIsWhole, Destination
<1>5. InputIsVerified'
  BY <1>1 DEF InputIsVerified, TypeOK
<1>6. (ResultIsMade /\ WrittenInOrder)'
  BY DEF ResultIsMade, WrittenInOrder
<1>7. (SuccessIsWhole /\ TouchesOnlyWhatItEdits /\ WholeUnlessTorn)'
  BY <1>1 DEF SuccessIsWhole, TouchesOnlyWhatItEdits, WholeUnlessTorn, TypeOK
<1> QED
  BY <1>3, <1>4, <1>5, <1>6, <1>7

LEMMA ParseRequestInv == IInv /\ ParseRequest => IInv'
<1> SUFFICES ASSUME IInv, ParseRequest PROVE IInv'
  OBVIOUS
<1> USE DEF IInv, ParseRequest, History, End, Fail, Require
<1>1. TypeOK'
  BY DEF TypeOK
<1>2. (Checked /\ Untouched /\ SchemaIsWhole /\ InputIsVerified)'
  BY DEF Checked, Untouched, SchemaIsWhole, InputIsVerified, Destination
<1>3. (ResultIsMade /\ WrittenInOrder)'
  BY DEF ResultIsMade, WrittenInOrder
<1>4. (SuccessIsWhole /\ TouchesOnlyWhatItEdits /\ WholeUnlessTorn)'
  BY DEF Untouched, SuccessIsWhole, TouchesOnlyWhatItEdits, WholeUnlessTorn, TypeOK
<1> QED
  BY <1>1, <1>2, <1>3, <1>4

LEMMA ApplyRequestInv == IInv /\ ApplyRequest => IInv'
<1> SUFFICES ASSUME IInv, ApplyRequest PROVE IInv'
  OBVIOUS
<1> USE DEF IInv, ApplyRequest, History, End, Fail, Require, MakesResult
<1>1. applied' \in [outcome : Outcomes, root : Seq(Blocks)]
  BY ApplyAssumption DEF Checked, SchemaIsWhole, InputIsVerified
<1>2. TypeOK'
  <2>1. written' = 0 /\ applied'.root \in Seq(Blocks)
    BY <1>1 DEF Untouched
  <2>2. written' \in 0..Len(applied'.root)
    BY <2>1, NothingWritten
  <2> QED
    BY <1>1, <2>2 DEF TypeOK
<1>3. (Checked /\ Untouched /\ SchemaIsWhole /\ InputIsVerified)'
  BY DEF Checked, Untouched, SchemaIsWhole, InputIsVerified, Destination
<1>4. (ResultIsMade /\ WrittenInOrder)'
  BY DEF ResultIsMade, WrittenInOrder
<1>5. (SuccessIsWhole /\ TouchesOnlyWhatItEdits /\ WholeUnlessTorn)'
  BY DEF Untouched, SuccessIsWhole, TouchesOnlyWhatItEdits, WholeUnlessTorn, TypeOK
<1> QED
  BY <1>2, <1>3, <1>4, <1>5

LEMMA OpenOutputInv == IInv /\ OpenOutput => IInv'
<1> SUFFICES ASSUME IInv, OpenOutput PROVE IInv'
  OBVIOUS
<1> USE DEF IInv, OpenOutput, History, End, Fail, OpenFails
<1>1. Destination \in Streams /\ Stdout \in Streams /\ Destination' = Destination
  BY StreamsNamed DEF Destination, Streams
<1>2. files = before /\ written = 0 /\ Truncated(Destination) = Kept
      /\ Kept \in Seq(Blocks) /\ applied.root \in Seq(Blocks)
  <2>1. before \in [Streams -> Seq(Blocks)]
    BY Sequential DEF IInv
  <2>a. before[Stdout] \in Seq(Blocks)
    BY <1>1, <2>1
  <2>2. applied.root \in Seq(Blocks)
    BY DEF TypeOK
  <2>3. files = before /\ written = 0
    BY DEF Untouched
  <2> QED
    BY <2>1, <2>a, Empty, <2>2, <2>3 DEF Truncated, Kept
<1>3. TypeOK'
  BY <1>1, <1>2 DEF TypeOK
<1>4. (Checked /\ Untouched /\ SchemaIsWhole /\ InputIsVerified /\ ResultIsMade)'
  BY <1>1 DEF Checked, Untouched, SchemaIsWhole, InputIsVerified, ResultIsMade
<1>5. WrittenInOrder'
  <2>1. Kept \o SubSeq(applied.root, 1, 0) = Kept
    BY <1>2, NoBlocks
  <2>2. Kept' = Kept
    BY <1>1 DEF Kept
  <2>3. pc' = "write" => files' = [before EXCEPT ![Destination] = Kept]
    BY <1>2
  <2> QED
    BY <1>1, <1>2, <2>1, <2>2, <2>3 DEF WrittenInOrder
<1>6. TouchesOnlyWhatItEdits'
  BY <1>1, <1>2 DEF TouchesOnlyWhatItEdits, SchemaIsWhole, InputIsVerified,
     ResultIsMade, TypeOK
<1>7. (SuccessIsWhole /\ WholeUnlessTorn)'
  BY <1>1, <1>2 DEF SuccessIsWhole, WholeUnlessTorn, TypeOK
<1> QED
  BY <1>3, <1>4, <1>5, <1>6, <1>7

LEMMA WriteBlockInv == IInv /\ WriteBlock => IInv'
<1> SUFFICES ASSUME IInv, WriteBlock PROVE IInv'
  OBVIOUS
<1> USE DEF IInv, WriteBlock, History
<1>1. /\ Destination \in Streams /\ Stdout \in Streams
      /\ Destination' = Destination /\ Kept' = Kept
  BY StreamsNamed DEF Destination, Streams, Kept
<1>2. /\ Kept \in Seq(Blocks) /\ applied.root \in Seq(Blocks)
      /\ written \in 0..Len(applied.root)
  BY <1>1 DEF Kept, TypeOK
<1>3. files[Destination] = Kept \o SubSeq(applied.root, 1, written)
  BY <1>1 DEF WrittenInOrder, TypeOK
<1>4. files'[Destination] = Kept \o SubSeq(applied.root, 1, written')
      /\ applied.root[written + 1] \in Blocks
  <2>1. files'[Destination]
          = Append(files[Destination], applied.root[written + 1])
    BY <1>1 DEF TypeOK
  <2>2. /\ Append(Kept \o SubSeq(applied.root, 1, written),
                  applied.root[written + 1])
             = Kept \o SubSeq(applied.root, 1, written + 1)
        /\ applied.root[written + 1] \in Blocks
    BY <1>2, NextBlock
  <2> QED
    BY <1>3, <2>1, <2>2
<1>5. TypeOK'
  <2>1. Append(files[Destination], applied.root[written + 1]) \in Seq(Blocks)
    BY <1>1, <1>4, AppendProperties DEF TypeOK
  <2>2. files' \in [Streams -> Seq(Blocks)]
    BY <2>1 DEF TypeOK
  <2>3. written' \in 0..Len(applied.root)
    BY <1>2
  <2> QED
    BY <2>2, <2>3 DEF TypeOK
<1>6. (Checked /\ Untouched /\ SchemaIsWhole /\ InputIsVerified /\ ResultIsMade)'
  BY <1>1 DEF Checked, Untouched, SchemaIsWhole, InputIsVerified, ResultIsMade
<1>7. WrittenInOrder'
  BY <1>1, <1>4 DEF WrittenInOrder, TypeOK
<1>8. TouchesOnlyWhatItEdits'
  BY <1>1 DEF TouchesOnlyWhatItEdits, SchemaIsWhole, InputIsVerified,
     ResultIsMade, TypeOK
<1>9. (SuccessIsWhole /\ WholeUnlessTorn)'
  BY DEF SuccessIsWhole, WholeUnlessTorn, TypeOK
<1> QED
  BY <1>5, <1>6, <1>7, <1>8, <1>9

\* A run that ends while it writes, its files as they are.
LEMMA EndsWriting ==
  ASSUME IInv, pc = "write", pc' = "ended", torn' \in SUBSET Streams,
         UNCHANGED <<files, schema, input, applied, written, History>>,
         exit' \in {Killed, RuntimeError, Success}, ioError' \in BOOLEAN,
         exit' = RuntimeError => ioError'
  PROVE  /\ TypeOK' /\ TouchesOnlyWhatItEdits'
         /\ (Checked /\ Untouched /\ SchemaIsWhole /\ InputIsVerified
              /\ ResultIsMade /\ WrittenInOrder)'
<1>1. TypeOK'
  BY DEF IInv, TypeOK, History
<1>2. Destination' = Destination
  BY DEF Destination, History
<1>3. (Checked /\ Untouched /\ SchemaIsWhole /\ InputIsVerified /\ ResultIsMade
        /\ WrittenInOrder)'
  BY DEF Checked, Untouched, SchemaIsWhole, InputIsVerified, ResultIsMade,
     WrittenInOrder
<1>4. TouchesOnlyWhatItEdits'
  BY <1>2 DEF IInv, TouchesOnlyWhatItEdits, SchemaIsWhole, InputIsVerified,
     ResultIsMade, TypeOK, History
<1> QED
  BY <1>1, <1>3, <1>4

LEMMA WriteFailsInv == IInv /\ WriteFails => IInv'
<1> SUFFICES ASSUME IInv, WriteFails PROVE IInv'
  OBVIOUS
<1> USE DEF WriteFails, History, End, Fail, Tear
<1>1. Destination \in Streams
  BY StreamsNamed
<1>2. /\ TypeOK' /\ TouchesOnlyWhatItEdits'
      /\ (Checked /\ Untouched /\ SchemaIsWhole /\ InputIsVerified
           /\ ResultIsMade /\ WrittenInOrder)'
  BY <1>1, EndsWriting DEF IInv, TypeOK
<1>3. (SuccessIsWhole /\ WholeUnlessTorn)'
  BY DEF IInv, SuccessIsWhole, WholeUnlessTorn, WrittenInOrder, TypeOK, Streams
<1> QED
  BY <1>2, <1>3 DEF IInv

LEMMA CloseInv == IInv /\ Close => IInv'
<1> SUFFICES ASSUME IInv, Close PROVE IInv'
  OBVIOUS
<1> USE DEF Close, History, End
<1>1. Destination \in Streams /\ Destination' = Destination /\ Stdout \in Streams
  BY StreamsNamed DEF Destination, Streams
<1>2. /\ TypeOK' /\ TouchesOnlyWhatItEdits'
      /\ (Checked /\ Untouched /\ SchemaIsWhole /\ InputIsVerified
           /\ ResultIsMade /\ WrittenInOrder)'
  BY EndsWriting DEF IInv, TypeOK
<1>3. applied.root \in Seq(Blocks) /\ Kept \in Seq(Blocks)
  <2>1. before \in [Streams -> Seq(Blocks)]
    BY Sequential DEF IInv
  <2>a. before[Stdout] \in Seq(Blocks)
    BY <1>1, <2>1
  <2>2. applied.root \in Seq(Blocks)
    BY DEF IInv, TypeOK
  <2> QED
    BY <2>1, <2>a, Empty, <2>2 DEF Kept
<1>4. files = [before EXCEPT ![Destination] = Kept \o applied.root]
  BY <1>3, NoBlocks DEF IInv, WrittenInOrder
<1>5. Destination # Stdout => Kept \o applied.root = applied.root
  <2>1. << >> \o applied.root = applied.root
    BY <1>3, ConcatEmptySeq
  <2> QED
    BY <2>1 DEF Kept
<1>6. SuccessIsWhole'
  BY <1>1, <1>4, <1>5 DEF IInv, SuccessIsWhole, SchemaIsWhole, InputIsVerified,
     ResultIsMade, Edited, Kept, TypeOK
<1>7. WholeUnlessTorn'
  BY <1>4, <1>5, CliAssumption DEF IInv, WholeUnlessTorn, TypeOK, Streams
<1> QED
  BY <1>2, <1>6, <1>7 DEF IInv

LEMMA KillInv == IInv /\ Kill => IInv'
<1> SUFFICES ASSUME IInv, Kill PROVE IInv'
  OBVIOUS
<1> USE DEF Kill, History, End, Tear
<1>1. CASE pc = "write"
  <2>1. Destination \in Streams
    BY <1>1, StreamsNamed
  <2>2. /\ TypeOK' /\ TouchesOnlyWhatItEdits'
        /\ (Checked /\ Untouched /\ SchemaIsWhole /\ InputIsVerified
             /\ ResultIsMade /\ WrittenInOrder)'
    BY <1>1, <2>1, EndsWriting DEF IInv, TypeOK
  <2>3. (SuccessIsWhole /\ WholeUnlessTorn)'
    BY <1>1 DEF IInv, SuccessIsWhole, WholeUnlessTorn, WrittenInOrder, TypeOK, Streams
  <2> QED
    BY <2>2, <2>3 DEF IInv
<1>2. CASE pc # "write"
  <2>1. files = before /\ TypeOK'
    BY <1>2 DEF IInv, TypeOK, Untouched
  <2>2. (Checked /\ Untouched /\ SchemaIsWhole /\ InputIsVerified /\ ResultIsMade
          /\ WrittenInOrder)'
    BY DEF Checked, Untouched, SchemaIsWhole, InputIsVerified, ResultIsMade,
       WrittenInOrder
  <2>3. (SuccessIsWhole /\ TouchesOnlyWhatItEdits /\ WholeUnlessTorn)'
    BY <2>1 DEF SuccessIsWhole, TouchesOnlyWhatItEdits, WholeUnlessTorn
  <2> QED
    BY <2>1, <2>2, <2>3 DEF IInv
<1> QED
  BY <1>1, <1>2

LEMMA RunAgainInv == IInv /\ RunAgain => IInv'
<1> SUFFICES ASSUME IInv, RunAgain PROVE IInv'
  OBVIOUS
<1> USE DEF RunAgain, Start
<1>1. NotApplied \in [outcome : Outcomes, root : Seq(Blocks)]
      /\ Len(NotApplied.root) = 0 /\ << >> \in Seq(Blocks)
  BY DEF NotApplied, Outcomes
<1>2. TypeOK'
  <2>1. applied' \in [outcome : Outcomes, root : Seq(Blocks)]
        /\ written' \in 0..Len(applied'.root)
    BY <1>1
  <2>2. /\ files \in [Streams -> Seq(Blocks)] /\ runs' \in Nat
        /\ torn \subseteq Streams
    BY Sequential DEF IInv
  <2> QED
    BY <1>1, <2>1, <2>2 DEF TypeOK
<1>3. (Checked /\ Untouched /\ SchemaIsWhole /\ InputIsVerified /\ ResultIsMade
        /\ WrittenInOrder)'
  BY DEF Checked, Untouched, SchemaIsWhole, InputIsVerified, ResultIsMade,
     WrittenInOrder
<1>4. (SuccessIsWhole /\ TouchesOnlyWhatItEdits /\ WholeUnlessTorn)'
  BY DEF SuccessIsWhole, TouchesOnlyWhatItEdits, WholeUnlessTorn
<1> QED
  BY <1>2, <1>3, <1>4 DEF IInv

LEMMA NextInv == IInv /\ [Next]_vars => IInv'
<1> SUFFICES ASSUME IInv, [Next]_vars PROVE IInv'
  OBVIOUS
<1>1. CASE Next
  BY <1>1, CheckArgumentsInv, ReadSchemaInv, ReadInputInv, ParseRequestInv,
     ApplyRequestInv, OpenOutputInv, WriteBlockInv, WriteFailsInv, CloseInv,
     KillInv, RunAgainInv DEF Next, Step
<1>2. CASE UNCHANGED vars
  BY <1>2, ZenonT(60) DEF vars, IInv, TypeOK, Checked, Untouched, SchemaIsWhole,
     InputIsVerified, ResultIsMade, WrittenInOrder, SuccessIsWhole,
     TouchesOnlyWhatItEdits, WholeUnlessTorn, Edited, Kept, Destination
<1> QED
  BY <1>1, <1>2

THEOREM Invariance == Spec => []IInv
<1> QED
  BY InitInv, NextInv, PTL DEF Spec

-----------------------------------------------------------------------------

\* The state of every run of the tool keeps its types (tools/fbrequest.cpp).
THEOREM TypeCorrect == Spec => []TypeOK
<1>1. IInv => TypeOK
  BY DEF IInv
<1> QED
  BY <1>1, Invariance, PTL

\* A run that exits 0 wrote all of its edit and touched nothing else, whatever
\* files its output is one of, and whatever runs failed or died before it.
THEOREM SuccessWritesTheWholeEdit == Spec => []SuccessIsWhole
<1>1. IInv => SuccessIsWhole
  BY DEF IInv
<1> QED
  BY <1>1, Invariance, PTL

\* Nothing is opened for writing before the request is Applied to a verified
\* input; a failure that is not the output's own leaves every file.
THEOREM NothingElseIsTouched == Spec => []TouchesOnlyWhatItEdits
<1>1. IInv => TouchesOnlyWhatItEdits
  BY DEF IInv
<1> QED
  BY <1>1, Invariance, PTL

\* Only a write that failed or was killed leaves a file neither old nor new.
THEOREM OnlyInterruptedWritesTear == Spec => []WholeUnlessTorn
<1>1. IInv => WholeUnlessTorn
  BY DEF IInv
<1> QED
  BY <1>1, Invariance, PTL
=============================================================================
