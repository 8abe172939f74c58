---------------------------------- MODULE Cli ----------------------------------
(***************************************************************************)
(* The fbrequest tool (tools/fbrequest.cpp): one run after another over    *)
(* the same files.  A run reads the schema and the input whole, verifies   *)
(* both, parses and applies the request, and only then opens, truncates    *)
(* and writes its output, which may be the file it read either from.  A    *)
(* read, the opening or the write may fail, and a run may be killed at any *)
(* point.                                                                  *)
(*                                                                         *)
(* The standard streams are files that are not opened; what a file holds   *)
(* is a sequence of blocks, which a write adds one at a time.              *)
(***************************************************************************)
EXTENDS Naturals, Sequences

CONSTANTS
  Files,         \* The names of the files.
  Stdin, Stdout, \* The standard streams.
  Blocks,        \* The blocks a file may hold.
  None,          \* What stands for an option not given.
  Requests,      \* The texts of requests.
  Arguments,     \* The command lines considered.
  Contents,      \* What the files may hold at first.
  Schemas,       \* What reflection::VerifySchemaBuffer takes.
  Buffers,       \* What verifyBuffer takes, of each schema.
  Parses(_, _),  \* Whether parseFlatbufferRequest takes a request.
  Apply(_, _, _),    \* tryApplyRequest: [outcome, root].
  MostRuns       \* How many runs follow one another.

Streams == Files \cup {Stdin, Stdout}
Outcomes == {"Applied", "NotStored", "Refused"}

\* A command line: `fails` where cxxopts throws; "-" is an input not given.
ArgumentType ==
  [fails : BOOLEAN, help : BOOLEAN, inPlace : BOOLEAN,
   schema : Files \cup {None}, output : Files \cup {None},
   request : Requests \cup {None}, input : Files \cup {Stdin}]

ASSUME CliAssumption ==
  /\ Stdin \notin Files /\ Stdout \notin Files /\ Stdin # Stdout
  /\ None \notin Files \cup Requests
  /\ Arguments \subseteq ArgumentType
  /\ Contents \subseteq Seq(Blocks)
  /\ Schemas \subseteq Seq(Blocks)
  /\ Buffers \in [Schemas -> SUBSET Seq(Blocks)]
  /\ MostRuns \in Nat

ASSUME ApplyAssumption ==
  \A s \in Schemas : \A b \in Buffers[s], r \in Requests :
    Apply(s, b, r) \in [outcome : Outcomes, root : Seq(Blocks)]

Running == "running"
Killed == "killed"
Aborted == "aborted"  \* An exception leaves main.
Success == "exit 0"
RuntimeError == "exit 1"
UsageError == "exit 2"

VARIABLES
  files,    \* What each stream holds; what is written to stdout is its own.
  args,     \* The command line of the run.
  pc,       \* What the run does next.
  schema,   \* schemaBytes
  input,    \* The input read.
  applied,  \* What the apply came to: [outcome, root].
  written,  \* How many blocks of the result are written.
  exit,     \* How the run ended.
  runs,     \* The runs begun.
  before,   \* History: what the run found in the streams.
  ioError,  \* History: whether a read, an open or a write of the run failed.
  torn      \* History: the files an interrupted write may have left in part.

vars == <<files, args, pc, schema, input, applied, written, exit, runs, before,
          ioError, torn>>

NotApplied == [outcome |-> "Refused", root |-> << >>]

\* Where the result goes.
Destination ==
  IF args.inPlace THEN args.input
  ELSE IF args.output # None THEN args.output ELSE Stdout

-----------------------------------------------------------------------------

Start(a) ==
  /\ args' = a
  /\ pc' = "arguments"
  /\ schema' = << >>
  /\ input' = << >>
  /\ applied' = NotApplied
  /\ written' = 0
  /\ exit' = Running
  /\ ioError' = FALSE

Init ==
  /\ files \in [Streams -> Contents]
  /\ before = files
  /\ args \in Arguments
  /\ pc = "arguments"
  /\ schema = << >>
  /\ input = << >>
  /\ applied = NotApplied
  /\ written = 0
  /\ exit = Running
  /\ runs = 1
  /\ ioError = FALSE
  /\ torn = {}

\* The history of runs, which no step of one changes.
History == <<args, runs, before>>

End(code) == exit' = code /\ pc' = "ended"
Fail == End(RuntimeError)
\* The run goes on to `next` where `holds`, and fails where it does not.
Require(holds, next) ==
  IF holds THEN pc' = next /\ UNCHANGED exit ELSE Fail

\* --in-place takes an input file and no output.
WrongArguments ==
  \/ args.schema = None \/ args.request = None
  \/ args.inPlace /\ (args.output # None \/ args.input = Stdin)

CheckArguments ==
  /\ pc = "arguments"
  /\ IF args.fails THEN End(UsageError)
     ELSE IF args.help THEN End(Success)
     ELSE IF WrongArguments THEN End(UsageError)
     ELSE pc' = "schema" /\ UNCHANGED exit
  /\ UNCHANGED <<files, schema, input, applied, written, ioError, torn, History>>

\* readFile: what cannot be opened is an error reported.  `in.bad()` sees none
\* of what happens while reading: the iterators read past the stream's state.
\* A file whose read fails throws out of main, and of standard input what was
\* read is taken for the whole.
OpenFails ==
  /\ Fail
  /\ ioError' = TRUE
ReadThrows ==
  /\ End(Aborted)
  /\ ioError' = TRUE

ReadSchema ==
  /\ pc = "schema"
  /\ \/ /\ schema' = files[args.schema]
        /\ Require(schema' \in Schemas, "input")
        /\ UNCHANGED ioError
     \/ (OpenFails \/ ReadThrows) /\ UNCHANGED schema
  /\ UNCHANGED <<files, input, applied, written, torn, History>>

ReadShort ==
  /\ args.input = Stdin
  /\ \E n \in 0..Len(files[Stdin]) : input' = SubSeq(files[Stdin], 1, n)
  /\ ioError' = TRUE

ReadInput ==
  /\ pc = "input"
  /\ \/ /\ input' = files[args.input]
        /\ Require(input' \in Buffers[schema], "parse")
        /\ UNCHANGED ioError
     \/ ReadShort /\ Require(input' \in Buffers[schema], "parse")
     \/ /\ args.input # Stdin
        /\ OpenFails \/ ReadThrows
        /\ UNCHANGED input
  /\ UNCHANGED <<files, schema, applied, written, torn, History>>

ParseRequest ==
  /\ pc = "parse"
  /\ Require(Parses(schema, args.request), "apply")
  /\ UNCHANGED <<files, schema, input, applied, written, ioError, torn, History>>

ContinueAnyway(outcome) == TRUE                            \* mutant
MakesResult(outcome) == outcome = "Applied"
ApplyRequest ==
  /\ pc = "apply"
  /\ applied' = Apply(schema, input, args.request)
  /\ Require(MakesResult(applied'.outcome), "open")
  /\ UNCHANGED <<files, schema, input, written, ioError, torn, History>>

\* writeFile opens a file truncated; standard output is open.
Appended(stream) == files[stream]                          \* mutant
Truncated(stream) == IF stream = Stdout THEN files[Stdout] ELSE << >>
OpenOutput ==
  /\ pc = "open"
  /\ \/ /\ files' = [files EXCEPT ![Destination] = Truncated(Destination)]
        /\ pc' = "write"
        /\ UNCHANGED <<exit, ioError>>
     \/ /\ Destination # Stdout
        /\ OpenFails
        /\ UNCHANGED files
  /\ UNCHANGED <<schema, input, applied, written, torn, History>>

WriteBlock ==
  /\ pc = "write"
  /\ written < Len(applied.root)
  /\ files' = [files EXCEPT ![Destination] =
                 Append(@, applied.root[written + 1])]
  /\ written' = written + 1
  /\ UNCHANGED <<pc, exit, schema, input, applied, ioError, torn, History>>

Tear == torn' = torn \cup {Destination}

\* writeStream: `out.good()` does not hold once a write or the flush failed.
WriteFails ==
  /\ pc = "write"
  /\ Fail
  /\ ioError' = TRUE
  /\ Tear
  /\ UNCHANGED <<files, schema, input, applied, written, History>>

CloseUnflushed ==                                          \* mutant
  /\ pc = "write"
  /\ End(Success)
  /\ UNCHANGED <<files, schema, input, applied, written, ioError, torn, History>>
Close ==
  /\ pc = "write"
  /\ written = Len(applied.root)
  /\ End(Success)
  /\ UNCHANGED <<files, schema, input, applied, written, ioError, torn, History>>

Step ==
  \/ CheckArguments \/ ReadSchema \/ ReadInput \/ ParseRequest \/ ApplyRequest
  \/ OpenOutput \/ WriteBlock \/ WriteFails \/ Close

Kill ==
  /\ exit = Running
  /\ End(Killed)
  /\ IF pc = "write" THEN Tear ELSE UNCHANGED torn
  /\ UNCHANGED <<files, schema, input, applied, written, ioError, History>>

\* The next run, of the same command line or of another.
RunAgain ==
  /\ exit # Running
  /\ runs < MostRuns
  /\ runs' = runs + 1
  /\ \E a \in Arguments : Start(a)
  /\ before' = files
  /\ UNCHANGED <<files, torn>>

Next == Step \/ Kill \/ RunAgain

Spec == Init /\ [][Next]_vars

-----------------------------------------------------------------------------

TypeOK ==
  /\ files \in [Streams -> Seq(Blocks)]
  /\ before \in [Streams -> Seq(Blocks)]
  /\ args \in Arguments
  /\ pc \in {"arguments", "schema", "input", "parse", "apply", "open", "write",
             "ended"}
  /\ schema \in Seq(Blocks)
  /\ input \in Seq(Blocks)
  /\ applied \in [outcome : Outcomes, root : Seq(Blocks)]
  /\ written \in 0..Len(applied.root)
  /\ exit \in {Running, Killed, Aborted, Success, RuntimeError, UsageError}
  /\ exit = Running <=> pc # "ended"
  /\ runs \in Nat
  /\ ioError \in BOOLEAN
  /\ torn \subseteq Streams

\* What a run of the command line leaves that edits what it read as `read`.
Edited(read) ==
  LET edit == Apply(before[args.schema], read, args.request)
  IN  [before EXCEPT ![Destination] =
         IF Destination = Stdout THEN @ \o edit.root ELSE edit.root]

\* A run that exits 0 has written the whole of what its request makes of what it
\* read, and nothing else: also where the output is the input or the schema,
\* which it truncates, and where files were torn before.  What it read is all that
\* its input held when it began, whatever reads failed, but for standard input:
\* of that a read that fails leaves a beginning, which is edited if it verifies.
SuccessIsWhole ==
  exit = Success /\ ~args.help =>
    /\ \/ input = before[args.input]
       \/ /\ ioError /\ args.input = Stdin
          /\ \E n \in 0..Len(before[Stdin]) : input = SubSeq(before[Stdin], 1, n)
    /\ Apply(before[args.schema], input, args.request).outcome = "Applied"
    /\ files = Edited(input)

\* A run touches a file only once its request is Applied, to a verified input;
\* one that fails for any other reason than its own output's leaves every file.
TouchesOnlyWhatItEdits ==
  /\ \A s \in Streams :
       files[s] # before[s] =>
         /\ s = Destination
         /\ pc \in {"write", "ended"}
         /\ before[args.schema] \in Schemas
         /\ input \in Buffers[before[args.schema]]
         /\ applied = Apply(before[args.schema], input, args.request)
         /\ applied.outcome = "Applied"
  /\ exit \in {RuntimeError, UsageError, Aborted} /\ files # before => ioError

\* Whatever fails, is killed or is run again, a file that no interrupted write
\* may have torn holds what it held before the run, or all of an edit's result.
WholeUnlessTorn ==
  \A f \in Files : f \notin torn /\ pc # "write" =>
    files[f] \in {before[f], applied.root}

-----------------------------------------------------------------------------

\* docs/cli.md: the tool "never writes partial output on failure".
NoPartialOutput ==
  exit = RuntimeError => files = before \/ files = Edited(before[args.input])
=============================================================================
