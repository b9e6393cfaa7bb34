------------------------------ MODULE McParser ------------------------------
(***************************************************************************)
(* The serial command parser of command_handler/parser/mc_parser.c.        *)
(*                                                                         *)
(* mc_parser(input) is called by the main loop with one character at a     *)
(* time; one call is one step.  A line is a sequence of symbols: the name  *)
(* of a command and a numeral are one symbol each, so that what is counted *)
(* here in symbols the code counts in characters.  A numeral symbol stands *)
(* for a complete numeral: followed by any other symbol of the argument it *)
(* is a numeral with a trailing character that strtol() does not accept.   *)
(*                                                                         *)
(* The command handlers are abstracted to the number of bytes they leave   *)
(* in the data buffer (see EccCommands for the real ones).                 *)
(***************************************************************************)
EXTENDS Naturals, Sequences, FiniteSets

CONSTANTS
  LineLen,       \* MC_LINE_BUFFER_LENGTH
  DataLen,       \* MC_DATA_BUFFER_LENGTH
  MaxArgs,       \* MC_MAX_ARGUMENTS
  WordSize,      \* number of values of a uint16_t
  Input,         \* the symbols that arrive on the serial line
  Newline,       \* '\r' or '\n'
  Equals,        \* '='
  Comma,         \* ','
  Commands,      \* names in mc_command_set
  DataCommands,  \* those whose "data" flag is set
  Numerals,      \* numeral symbols ...
  NumeralValue,  \* ... and what strtol() returns for them
  NoCommand      \* the NULL active_command

ASSUME SizeAssumption ==
  /\ LineLen \in Nat \ {0}
  /\ DataLen \in Nat \ {0}
  /\ MaxArgs \in Nat \ {0}
  /\ WordSize \in Nat /\ WordSize > DataLen

ASSUME SymbolAssumption ==
  /\ Newline \in Input
  /\ Newline # Equals /\ Newline # Comma /\ Equals # Comma
  /\ Newline \notin Commands /\ Newline \notin Numerals
  /\ Comma \notin Commands \cup Numerals
  /\ Equals \notin Commands \cup Numerals
  /\ DataCommands \subseteq Commands
  /\ Commands \cap Numerals = {}
  /\ NoCommand \notin Commands
  /\ NumeralValue \in [Numerals -> Nat]

VARIABLES
  parser_state,
  linebuffer,          \* the symbols stored so far; linecounter is its length
  active_command,
  argcount,
  expected_datalength,
  databuffer,          \* the blob bytes stored since the blob was opened
  datalength,
  input,               \* the argument of the last call ...
  response             \* ... and what that call printed to the host

vars == <<parser_state, linebuffer, active_command, argcount,
          expected_datalength, databuffer, datalength, input, response>>

linecounter == Len(linebuffer)

IsNewline(c) == c = Newline
-----------------------------------------------------------------------------
(* mc_parse_command() and mc_parse_arguments() on a complete line, whose   *)
(* last symbol is the newline.                                             *)

\* mc_match_command(): the whole name, then '=' or the end of the line.
Matched(line) == /\ Len(line) >= 2
                 /\ line[1] \in Commands
                 /\ line[2] \in {Equals, Newline}

HasArguments(line) == /\ line[2] = Equals
                      /\ line[3] # Newline

CommaCount(line) == Cardinality({i \in 3..Len(line) : line[i] = Comma})

\* Mutant: one argument too many is accepted.
ArgumentsOKTooMany(line) == /\ line[3] # Comma
                            /\ CommaCount(line) <= MaxArgs
                            /\ Len(line) < LineLen

\* Mutant: the last byte of the line buffer is looked at as well.
ArgumentsOKFullLine(line) == line[3] # Comma /\ CommaCount(line) < MaxArgs

\* The loop counts argument_length from the start of the text and never
\* resets it, so only the first argument has to be non-empty; it never looks
\* at the last byte of the line buffer.
ArgumentsOK(line) == /\ line[3] # Comma
                     /\ CommaCount(line) < MaxArgs
                     /\ Len(line) < LineLen

LineOK(line) == Matched(line) /\ (HasArguments(line) => ArgumentsOK(line))

\* argcount when mc_parse_arguments() returns, on success or not.
ArgCount(line) ==
  IF ~HasArguments(line) \/ line[3] = Comma THEN 0
  ELSE IF ArgumentsOK(line) THEN CommaCount(line) + 1
  ELSE IF CommaCount(line) < MaxArgs THEN CommaCount(line) ELSE MaxArgs

\* Where the last argument starts: after the last comma or after the '='.
LastArgStart(line) ==
  CHOOSE i \in 3..Len(line) :
    /\ i = 3 \/ line[i-1] = Comma
    /\ \A j \in i..Len(line) : line[j] # Comma

LastArg(line) == SubSeq(line, LastArgStart(line), Len(line) - 1)

\* strtol() stores into a uint16_t: the value is taken modulo 2^16.
ArgValue(arg) == (IF arg # <<>> /\ arg[1] \in Numerals
                    THEN NumeralValue[arg[1]] ELSE 0) % WordSize

\* *endptr == '\0': nothing is left of the argument after the numeral.
ArgComplete(arg) == arg = <<>> \/ (Len(arg) = 1 /\ arg[1] \in Numerals)
-----------------------------------------------------------------------------
Responses == {"none", "prompt", "overrun", "bad_command", "bad_blob", "ran"}

TypeOK ==
  /\ parser_state \in {"RESET", "READY", "DATA", "ERR"}
  /\ linebuffer \in Seq(Input) /\ linecounter <= LineLen
  /\ active_command \in Commands \cup {NoCommand}
  /\ argcount \in 0..MaxArgs
  /\ expected_datalength \in 0..DataLen
  /\ databuffer \in Seq(Input)
  /\ datalength \in 0..DataLen
  /\ input \in Input
  /\ response \in Responses

Init ==
  /\ parser_state = "READY"
  /\ linebuffer = <<>>
  /\ active_command = NoCommand
  /\ argcount = 0
  /\ expected_datalength = 0
  /\ databuffer = <<>>
  /\ datalength = 0
  /\ input = Newline
  /\ response = "none"

\* Mutant: the rest of a line that is too long is not dropped.
OverrunNoDiscard(c) ==
  /\ linecounter >= LineLen
  /\ response' = "overrun"
  /\ linebuffer' = <<>>
  /\ parser_state' = "READY"
  /\ UNCHANGED <<active_command, argcount, expected_datalength, databuffer,
                 datalength>>

\* Mutant: a line that is too long is dropped without an answer.
OverrunSilent(c) ==
  /\ linecounter >= LineLen
  /\ response' = "none"
  /\ linebuffer' = <<>>
  /\ parser_state' = IF IsNewline(c) THEN "READY" ELSE "ERR"
  /\ UNCHANGED <<active_command, argcount, expected_datalength, databuffer,
                 datalength>>

\* The check at the top of mc_parser(), made in every state.
Overrun(c) ==
  /\ linecounter >= LineLen
  /\ response' = "overrun"
  /\ linebuffer' = <<>>
  /\ parser_state' = IF IsNewline(c) THEN "READY" ELSE "ERR"
  /\ UNCHANGED <<active_command, argcount, expected_datalength, databuffer,
                 datalength>>

\* STATE_RESET clears the line counter and falls through to STATE_READY.
Collecting == linecounter < LineLen /\ parser_state \in {"RESET", "READY"}

Line == IF parser_state = "RESET" THEN <<>> ELSE linebuffer

SuperfluousNewline(c) ==
  /\ Collecting /\ IsNewline(c) /\ Line = <<>>
  /\ parser_state' = "READY"
  /\ linebuffer' = <<>>
  /\ response' = "none"
  /\ UNCHANGED <<active_command, argcount, expected_datalength, databuffer,
                 datalength>>

StoreSymbol(c) ==
  /\ Collecting /\ ~IsNewline(c)
  /\ parser_state' = "READY"
  /\ linebuffer' = Append(Line, c)
  /\ response' = "none"
  /\ UNCHANGED <<active_command, argcount, expected_datalength, databuffer,
                 datalength>>

\* The newline that ends a line: mc_parse_command().
ParseLine(c) ==
  /\ Collecting /\ IsNewline(c) /\ Line # <<>>
  /\ linebuffer' = Append(Line, c)
  /\ IF Matched(linebuffer')
       THEN /\ active_command' = linebuffer'[1]
            /\ argcount' = ArgCount(linebuffer')
       ELSE UNCHANGED <<active_command, argcount>>

RejectLine(c) ==
  /\ ParseLine(c)
  /\ ~LineOK(linebuffer')
  /\ response' = "bad_command"
  /\ parser_state' = "RESET"
  /\ UNCHANGED <<expected_datalength, databuffer, datalength>>

\* A command without a blob runs at once; n is the length of its answer.
RunCommand(c) ==
  /\ ParseLine(c)
  /\ LineOK(linebuffer')
  /\ active_command' \notin DataCommands
  /\ \E n \in 0..DataLen : datalength' = n
  /\ response' = "ran"
  /\ parser_state' = "RESET"
  /\ UNCHANGED <<expected_datalength, databuffer>>

\* A blob command: the last argument is the length of the blob.
StartBlobCommand(c) ==
  /\ ParseLine(c)
  /\ LineOK(linebuffer')
  /\ active_command' \in DataCommands
  /\ datalength' = 0
  /\ databuffer' = <<>>

MissingBlobLength(c) ==
  /\ StartBlobCommand(c)
  /\ argcount' = 0
  /\ response' = "bad_command"
  /\ parser_state' = "RESET"
  /\ UNCHANGED expected_datalength

BlobTooLong(c) ==
  /\ StartBlobCommand(c)
  /\ argcount' > 0
  /\ ArgValue(LastArg(linebuffer')) > DataLen
  /\ expected_datalength' = DataLen
  /\ response' = "bad_blob"
  /\ parser_state' = "RESET"

BlobLengthMalformed(c) ==
  /\ StartBlobCommand(c)
  /\ argcount' > 0
  /\ ArgValue(LastArg(linebuffer')) <= DataLen
  /\ ~ArgComplete(LastArg(linebuffer'))
  /\ expected_datalength' = ArgValue(LastArg(linebuffer'))
  /\ response' = "bad_blob"
  /\ parser_state' = "RESET"

OpenBlob(c) ==
  /\ StartBlobCommand(c)
  /\ argcount' > 0
  /\ ArgValue(LastArg(linebuffer')) <= DataLen
  /\ ArgComplete(LastArg(linebuffer'))
  /\ expected_datalength' = ArgValue(LastArg(linebuffer'))
  /\ response' = "prompt"
  /\ parser_state' = "DATA"
-----------------------------------------------------------------------------
InBlob == linecounter < LineLen /\ parser_state = "DATA"

\* Mutant: every newline in a blob is skipped.
LeadingNewlineAlways(c) ==
  /\ InBlob /\ IsNewline(c)
  /\ response' = "none"
  /\ UNCHANGED <<parser_state, linebuffer, active_command, argcount,
                 expected_datalength, databuffer, datalength>>

\* A newline before the first byte belongs to the end of the command line.
LeadingNewline(c) ==
  /\ InBlob /\ datalength = 0 /\ IsNewline(c)
  /\ response' = "none"
  /\ UNCHANGED <<parser_state, linebuffer, active_command, argcount,
                 expected_datalength, databuffer, datalength>>

\* Mutant: the second half of a CR LF is taken for the first byte of the blob.
StoreByteNewline(c) ==
  /\ InBlob
  /\ datalength < expected_datalength
  /\ databuffer' = Append(databuffer, c)
  /\ datalength' = datalength + 1
  /\ response' = "none"
  /\ UNCHANGED <<parser_state, linebuffer, active_command, argcount,
                 expected_datalength>>

StoreByte(c) ==
  /\ InBlob /\ ~(datalength = 0 /\ IsNewline(c))
  /\ datalength < expected_datalength
  /\ databuffer' = Append(databuffer, c)
  /\ datalength' = datalength + 1
  /\ response' = "none"
  /\ UNCHANGED <<parser_state, linebuffer, active_command, argcount,
                 expected_datalength>>

\* The blob is complete: the handler runs and may leave an answer of n bytes,
\* whose content is not modelled, in the place of the blob.
RunBlobCommand(c) ==
  /\ InBlob /\ datalength # 0 /\ IsNewline(c)
  /\ datalength >= expected_datalength
  /\ \E n \in 0..DataLen : datalength' = n
  /\ databuffer' = <<>>
  /\ response' = "ran"
  /\ parser_state' = "RESET"
  /\ UNCHANGED <<linebuffer, active_command, argcount, expected_datalength>>

BlobOverflow(c) ==
  /\ InBlob /\ ~IsNewline(c)
  /\ datalength >= expected_datalength
  /\ response' = "bad_blob"
  /\ parser_state' = "ERR"
  /\ UNCHANGED <<linebuffer, active_command, argcount, expected_datalength,
                 databuffer, datalength>>

\* Mutant: the overrun is reported again at the end of the dropped line.
DiscardAnswers(c) ==
  /\ linecounter < LineLen /\ parser_state = "ERR"
  /\ parser_state' = IF IsNewline(c) THEN "RESET" ELSE "ERR"
  /\ response' = IF IsNewline(c) THEN "overrun" ELSE "none"
  /\ UNCHANGED <<linebuffer, active_command, argcount, expected_datalength,
                 databuffer, datalength>>

\* STATE_ERR drops everything up to the next newline.
Discard(c) ==
  /\ linecounter < LineLen /\ parser_state = "ERR"
  /\ parser_state' = IF IsNewline(c) THEN "RESET" ELSE "ERR"
  /\ response' = "none"
  /\ UNCHANGED <<linebuffer, active_command, argcount, expected_datalength,
                 databuffer, datalength>>

mc_parser(c) ==
  /\ \/ Overrun(c)
     \/ SuperfluousNewline(c) \/ StoreSymbol(c)
     \/ RejectLine(c) \/ RunCommand(c)
     \/ MissingBlobLength(c) \/ BlobTooLong(c) \/ BlobLengthMalformed(c)
     \/ OpenBlob(c)
     \/ LeadingNewline(c) \/ StoreByte(c)
     \/ RunBlobCommand(c) \/ BlobOverflow(c)
     \/ Discard(c)
  /\ input' = c

Next == \E c \in Input : mc_parser(c)

Spec == Init /\ [][Next]_vars
-----------------------------------------------------------------------------
(* Safety: a blob in progress.  Each conjunct of OpenBlobSafe is relied on *)
(* in STATE_DATA without being checked there.                              *)

\* The overrun check runs before STATE_DATA too: with a full line buffer it
\* would take the first byte of the blob for the end of an over-long line.
BlobNotCutShort == parser_state = "DATA" => linecounter < LineLen

\* databuffer[datalength++] stays inside the buffer, and datalength counts
\* the bytes that are there.
BlobFits == parser_state = "DATA" =>
              /\ expected_datalength <= DataLen
              /\ datalength <= expected_datalength
              /\ datalength = Len(databuffer)

\* When the blob is complete the handler is called through active_command with
\* argcount arguments that still lie in the line buffer: what was decided when
\* the command line was parsed must still describe that line.
BlobMatchesCommandLine == parser_state = "DATA" =>
  /\ LineOK(linebuffer)
  /\ active_command = linebuffer[1] /\ active_command \in DataCommands
  /\ argcount = CommaCount(linebuffer) + 1
  /\ expected_datalength = ArgValue(LastArg(linebuffer))

OpenBlobSafe == BlobNotCutShort /\ BlobFits /\ BlobMatchesCommandLine

\* What the host sees of the parser: the session of CommandSession.
SessionPhase == IF parser_state = "DATA" THEN "blob"
                ELSE IF parser_state = "ERR" THEN "discard" ELSE "command"

Session == INSTANCE CommandSession WITH
  phase <- SessionPhase,
  blank <- parser_state = "READY" => linebuffer = <<>>,
  need  <- IF parser_state = "DATA" THEN expected_datalength ELSE 0,
  blob  <- IF parser_state = "DATA" THEN databuffer ELSE <<>>,
  heard <- input,
  reply <- response

\* The parser implements the session: every line that is not blank gets one
\* answer; no byte of a blob is lost, executed as a command or taken for a
\* line that is too long; a blob command runs with exactly the bytes it asked
\* for; and after an error the rest of the line is dropped.
ImplementsSession == Session!Spec
=============================================================================
