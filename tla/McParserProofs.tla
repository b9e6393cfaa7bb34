--------------------------- MODULE McParserProofs ---------------------------
(***************************************************************************)
(* Proofs about McParser, for every size of the buffers and every set of   *)
(* symbols and commands: type correctness, the safety of a blob in         *)
(* progress, and that the parser implements CommandSession.                *)
(***************************************************************************)
EXTENDS McParser, FiniteSetTheorems, SequenceTheorems, TLAPS

\* The comma count of a line is a natural number.
LEMMA CommaCountType ==
  ASSUME NEW line \in Seq(Input)
  PROVE  CommaCount(line) \in Nat
<1> DEFINE commas == {i \in 3..Len(line) : line[i] = Comma}
<1>1. IsFiniteSet(3..Len(line))
  BY FS_Interval, LenProperties
<1>2. IsFiniteSet(commas)
  BY <1>1, FS_Subset
<1>3. Cardinality(commas) \in Nat
  BY <1>2, FS_CardinalityType
<1> QED BY <1>3 DEF CommaCount

\* mc_parse_arguments() never counts more than MC_MAX_ARGUMENTS arguments.
LEMMA ArgCountBounded ==
  ASSUME NEW line \in Seq(Input)
  PROVE  ArgCount(line) \in 0..MaxArgs
BY CommaCountType, SizeAssumption DEF ArgCount, ArgumentsOK

\* The blob length is a natural number.
LEMMA ArgValueType ==
  ASSUME NEW arg
  PROVE  ArgValue(arg) \in Nat
<1> DEFINE v == IF arg # <<>> /\ arg[1] \in Numerals
                  THEN NumeralValue[arg[1]] ELSE 0
<1>1. v \in Nat
  BY SymbolAssumption
<1>2. WordSize \in Nat /\ WordSize > 0
  BY SizeAssumption
<1> HIDE DEF v
<1>3. v % WordSize \in Nat
  BY <1>1, <1>2
<1> QED BY <1>3 DEF ArgValue, v

\* The line seen by the READY case is a sequence of input symbols with room
\* for one more.
LEMMA LineType ==
  ASSUME TypeOK, Collecting
  PROVE  Line \in Seq(Input) /\ Len(Line) < LineLen
BY SizeAssumption DEF TypeOK, Collecting, Line, linecounter

\* What every end of a line leaves behind.
LEMMA ParseLineType ==
  ASSUME TypeOK, NEW c \in Input, ParseLine(c)
  PROVE  /\ linebuffer' \in Seq(Input)
         /\ Len(linebuffer') <= LineLen
         /\ active_command' \in Commands \cup {NoCommand}
         /\ argcount' \in 0..MaxArgs
<1>1. Collecting
  BY DEF ParseLine
<1>2. Line \in Seq(Input) /\ Len(Line) < LineLen
  BY <1>1, LineType
<1>3. linebuffer' = Append(Line, c)
  BY DEF ParseLine
<1>4. linebuffer' \in Seq(Input) /\ Len(linebuffer') = Len(Line) + 1
  BY <1>2, <1>3
<1>5. Len(linebuffer') <= LineLen
  BY <1>2, <1>4, SizeAssumption
<1>6. ArgCount(linebuffer') \in 0..MaxArgs
  BY <1>4, ArgCountBounded
<1>7. CASE Matched(linebuffer')
  BY <1>4, <1>5, <1>6, <1>7 DEF ParseLine, Matched
<1>8. CASE ~Matched(linebuffer')
  BY <1>4, <1>5, <1>8 DEF ParseLine, TypeOK
<1> QED BY <1>7, <1>8
-----------------------------------------------------------------------------
\* Type correctness: the line counter never exceeds MC_LINE_BUFFER_LENGTH, the
\* data counters never MC_DATA_BUFFER_LENGTH, the argument count never
\* MC_MAX_ARGUMENTS.
LEMMA InitTypeOK == Init => TypeOK
BY SizeAssumption, SymbolAssumption DEF Init, TypeOK, Responses, linecounter

\* Every call of mc_parser() preserves the types.
LEMMA StepTypeOK ==
  ASSUME TypeOK, NEW c \in Input, mc_parser(c)
  PROVE  TypeOK'
<1> USE SizeAssumption
<1> USE DEF Responses
<1>0. input' \in Input
  BY DEF mc_parser
<1>1. CASE Overrun(c)
  BY <1>0, <1>1 DEF Overrun, TypeOK, linecounter
<1>2. CASE SuperfluousNewline(c)
  BY <1>0, <1>2 DEF SuperfluousNewline, TypeOK, linecounter
<1>3. CASE StoreSymbol(c)
  <2>1. Line \in Seq(Input) /\ Len(Line) < LineLen
    BY <1>3, LineType DEF StoreSymbol
  <2>2. /\ Append(Line, c) \in Seq(Input)
        /\ Len(Append(Line, c)) <= LineLen
    BY <2>1
  <2> QED BY <1>0, <1>3, <2>2 DEF StoreSymbol, TypeOK, linecounter
<1>4. CASE RejectLine(c)
  BY <1>0, <1>4, ParseLineType DEF RejectLine, TypeOK, linecounter
<1>5. CASE RunCommand(c)
  BY <1>0, <1>5, ParseLineType DEF RunCommand, TypeOK, linecounter
<1>6. CASE MissingBlobLength(c)
  BY <1>0, <1>6, ParseLineType
  DEF MissingBlobLength, StartBlobCommand, TypeOK, linecounter
<1>7. CASE BlobTooLong(c)
  BY <1>0, <1>7, ParseLineType
  DEF BlobTooLong, StartBlobCommand, TypeOK, linecounter
<1>8. CASE BlobLengthMalformed(c)
  BY <1>0, <1>8, ParseLineType, ArgValueType
  DEF BlobLengthMalformed, StartBlobCommand, TypeOK, linecounter
<1>9. CASE OpenBlob(c)
  BY <1>0, <1>9, ParseLineType, ArgValueType
  DEF OpenBlob, StartBlobCommand, TypeOK, linecounter
<1>10. CASE LeadingNewline(c)
  BY <1>0, <1>10 DEF LeadingNewline, TypeOK, linecounter
<1>11. CASE StoreByte(c)
  <2>1. datalength + 1 \in 0..DataLen
    BY <1>11 DEF StoreByte, TypeOK
  <2> QED BY <1>0, <1>11, <2>1 DEF StoreByte, TypeOK, linecounter
<1>12. CASE RunBlobCommand(c)
  BY <1>0, <1>12 DEF RunBlobCommand, TypeOK, linecounter
<1>13. CASE BlobOverflow(c)
  BY <1>0, <1>13 DEF BlobOverflow, TypeOK, linecounter
<1>14. CASE Discard(c)
  BY <1>0, <1>14 DEF Discard, TypeOK, linecounter
<1> QED
  BY <1>1, <1>2, <1>3, <1>4, <1>5, <1>6, <1>7, <1>8, <1>9, <1>10, <1>11,
     <1>12, <1>13, <1>14 DEF mc_parser

\* Spec => []TypeOK, for all sizes.
THEOREM TypeCorrect == Spec => []TypeOK
<1>1. TypeOK /\ [Next]_vars => TypeOK'
  <2> SUFFICES ASSUME TypeOK, [Next]_vars PROVE TypeOK'
    OBVIOUS
  <2>1. CASE Next
    BY <2>1, StepTypeOK DEF Next
  <2>2. CASE UNCHANGED vars
    BY <2>2 DEF vars, TypeOK, linecounter
  <2> QED BY <2>1, <2>2
<1> QED BY InitTypeOK, <1>1, PTL DEF Spec
-----------------------------------------------------------------------------
(* The safety of a blob in progress.  OpenBlobSafe is inductive given the  *)
(* types: STATE_DATA is entered only by OpenBlob, which establishes it,    *)
(* and left untouched by the steps within STATE_DATA.                      *)

\* A blob opened by a complete command line is safe from its first byte on.
LEMMA OpenBlobEstablishes ==
  ASSUME TypeOK, NEW c \in Input, OpenBlob(c)
  PROVE  OpenBlobSafe'
<1>1. ParseLine(c) /\ LineOK(linebuffer') /\ argcount' > 0
  BY DEF OpenBlob, StartBlobCommand
<1>2. Matched(linebuffer')
  BY <1>1 DEF LineOK
<1>3. active_command' = linebuffer'[1] /\ argcount' = ArgCount(linebuffer')
  BY <1>1, <1>2 DEF ParseLine
<1>4. HasArguments(linebuffer')
  BY <1>1, <1>3 DEF ArgCount
<1>5. ArgumentsOK(linebuffer')
  BY <1>1, <1>4 DEF LineOK
<1>6. argcount' = CommaCount(linebuffer') + 1
  BY <1>3, <1>4, <1>5 DEF ArgCount, ArgumentsOK
<1>7. BlobNotCutShort'
  BY <1>5 DEF BlobNotCutShort, ArgumentsOK, linecounter
<1>8. BlobFits'
  BY ArgValueType, SizeAssumption
  DEF BlobFits, OpenBlob, StartBlobCommand
<1>9. BlobMatchesCommandLine'
  BY <1>1, <1>3, <1>6
  DEF BlobMatchesCommandLine, OpenBlob, StartBlobCommand
<1> QED BY <1>7, <1>8, <1>9 DEF OpenBlobSafe

\* Every call of mc_parser() preserves the safety of an open blob.
LEMMA StepOpenBlobSafe ==
  ASSUME TypeOK, OpenBlobSafe, NEW c \in Input, mc_parser(c)
  PROVE  OpenBlobSafe'
<1> DEFINE Opened == OpenBlob(c)
           Within == LeadingNewline(c) \/ StoreByte(c)
<1>1. CASE Opened
  BY <1>1, OpenBlobEstablishes
<1>2. CASE LeadingNewline(c)
  BY <1>2
  DEF LeadingNewline, OpenBlobSafe, BlobNotCutShort, BlobFits,
      BlobMatchesCommandLine, linecounter
<1>3. CASE StoreByte(c)
  <2>1. BlobNotCutShort' /\ BlobMatchesCommandLine'
    BY <1>3
    DEF StoreByte, OpenBlobSafe, BlobNotCutShort, BlobMatchesCommandLine,
        linecounter
  <2>2. parser_state = "DATA" /\ datalength = Len(databuffer)
    BY <1>3 DEF StoreByte, InBlob, OpenBlobSafe, BlobFits
  <2>3. Len(databuffer') = datalength + 1
    BY <1>3, <2>2 DEF StoreByte, TypeOK
  <2>4. BlobFits'
    BY <1>3, <2>2, <2>3 DEF StoreByte, OpenBlobSafe, BlobFits, TypeOK
  <2> QED BY <2>1, <2>4 DEF OpenBlobSafe
<1>4. CASE ~Opened /\ ~Within
  <2>1. parser_state' # "DATA"
    BY <1>4
    DEF mc_parser, Overrun, SuperfluousNewline, StoreSymbol, RejectLine,
        RunCommand, MissingBlobLength, BlobTooLong, BlobLengthMalformed,
        RunBlobCommand, BlobOverflow, Discard
  <2> QED
    BY <2>1
    DEF OpenBlobSafe, BlobNotCutShort, BlobFits, BlobMatchesCommandLine
<1> QED BY <1>1, <1>2, <1>3, <1>4

\* While a blob is being received the overrun check cannot fire, the blob fits
\* in the data buffer, and the command, its arguments and the length it was
\* given still agree with the line buffer.
THEOREM OpenBlobIsSafe == Spec => []OpenBlobSafe
<1>1. Init => OpenBlobSafe
  BY DEF Init, OpenBlobSafe, BlobNotCutShort, BlobFits,
         BlobMatchesCommandLine
<1>2. TypeOK /\ OpenBlobSafe /\ [Next]_vars => OpenBlobSafe'
  <2> SUFFICES ASSUME TypeOK, OpenBlobSafe, [Next]_vars
               PROVE  OpenBlobSafe'
    OBVIOUS
  <2>1. CASE Next
    BY <2>1, StepOpenBlobSafe DEF Next
  <2>2. CASE UNCHANGED vars
    BY <2>2
    DEF vars, OpenBlobSafe, BlobNotCutShort, BlobFits,
        BlobMatchesCommandLine, linecounter
  <2> QED BY <2>1, <2>2
<1> QED BY <1>1, <1>2, TypeCorrect, PTL DEF Spec
-----------------------------------------------------------------------------
(* McParser implements CommandSession.  Besides OpenBlobSafe the proof     *)
(* needs that the overrun check cannot fire in STATE_ERR either.           *)

DiscardNotCutShort == parser_state = "ERR" => linecounter < LineLen

RefinementInv == TypeOK /\ OpenBlobSafe /\ DiscardNotCutShort

\* STATE_ERR is entered with a line counter below the size of the buffer.
LEMMA StepDiscardNotCutShort ==
  ASSUME TypeOK, DiscardNotCutShort, NEW c \in Input, mc_parser(c)
  PROVE  DiscardNotCutShort'
BY SizeAssumption
DEF mc_parser, DiscardNotCutShort, linecounter, Overrun, SuperfluousNewline,
    StoreSymbol, RejectLine, RunCommand, MissingBlobLength, BlobTooLong,
    BlobLengthMalformed, OpenBlob, LeadingNewline, StoreByte, RunBlobCommand,
    BlobOverflow, Discard, InBlob

\* Every call of mc_parser() is one step of the session.
LEMMA StepImplementsSession ==
  ASSUME RefinementInv, NEW c \in Input, mc_parser(c)
  PROVE  Session!Receive(c)
<1> SUFFICES Session!Interact(c)
  BY DEF mc_parser, Session!Receive
<1> USE DEF SessionPhase, Session!Answer, Session!EndBlob, IsNewline,
            linecounter
<1>1. CASE Overrun(c)
  <2>1. parser_state \in {"RESET", "READY"}
    BY <1>1, SizeAssumption
    DEF Overrun, RefinementInv, TypeOK, OpenBlobSafe, BlobNotCutShort,
        DiscardNotCutShort
  <2>2. Session!LineTooLong(c)
    BY <1>1, <2>1 DEF Overrun, Session!LineTooLong
  <2> QED BY <2>2 DEF Session!Interact
<1>2. CASE SuperfluousNewline(c)
  <2>1. Session!SkipBlankLine(c)
    BY <1>2
    DEF SuperfluousNewline, Collecting, Line, Session!SkipBlankLine
  <2> QED BY <2>1 DEF Session!Interact
<1>3. CASE StoreSymbol(c)
  <2>1. Line \in Seq(Input)
    BY <1>3, LineType DEF StoreSymbol, RefinementInv
  <2>2. linebuffer' # <<>>
    BY <1>3, <2>1 DEF StoreSymbol
  <2>3. Session!Collect(c)
    BY <1>3, <2>2 DEF StoreSymbol, Collecting, Session!Collect
  <2> QED BY <2>3 DEF Session!Interact
<1>4. ASSUME ParseLine(c)
      PROVE  /\ parser_state \in {"RESET", "READY"}
             /\ ~(parser_state = "READY" => linebuffer = <<>>)
             /\ c = Newline
  BY <1>4 DEF ParseLine, Collecting, Line
<1>5. CASE RejectLine(c) \/ RunCommand(c) \/ MissingBlobLength(c)
            \/ BlobTooLong(c) \/ BlobLengthMalformed(c)
  <2>1. ParseLine(c)
    BY <1>5
    DEF RejectLine, RunCommand, MissingBlobLength, BlobTooLong,
        BlobLengthMalformed, StartBlobCommand
  <2>2. Session!LineAnswered(c)
    BY <1>4, <1>5, <2>1
    DEF RejectLine, RunCommand, MissingBlobLength, BlobTooLong,
        BlobLengthMalformed, Session!LineAnswered
  <2> QED BY <2>2 DEF Session!Interact
<1>6. CASE OpenBlob(c)
  <2>1. expected_datalength' \in 0..DataLen
    BY <1>6, ArgValueType, SizeAssumption DEF OpenBlob
  <2>2. ParseLine(c)
    BY <1>6 DEF OpenBlob, StartBlobCommand
  <2>3. Session!AskForBlob(c)
    BY <1>4, <1>6, <2>1, <2>2
    DEF OpenBlob, StartBlobCommand, Session!AskForBlob
  <2> QED BY <2>3 DEF Session!Interact
<1>7. ASSUME InBlob
      PROVE  /\ parser_state = "DATA"
             /\ databuffer \in Seq(Input)
             /\ datalength = Len(databuffer)
             /\ datalength <= expected_datalength
             /\ datalength \in Nat /\ expected_datalength \in Nat
             /\ databuffer = <<>> <=> datalength = 0
  <2>1. parser_state = "DATA" /\ databuffer \in Seq(Input)
    BY <1>7 DEF InBlob, RefinementInv, TypeOK
  <2>2. datalength \in Nat /\ expected_datalength \in Nat
    BY DEF RefinementInv, TypeOK
  <2> QED BY <2>1, <2>2, EmptySeq DEF RefinementInv, OpenBlobSafe, BlobFits
<1>8. CASE LeadingNewline(c)
  <2>1. Session!SkipNewline(c)
    BY <1>7, <1>8 DEF LeadingNewline, Session!SkipNewline
  <2> QED BY <2>1 DEF Session!Interact
<1>9. CASE StoreByte(c)
  <2>1. Session!AcceptByte(c)
    BY <1>7, <1>9 DEF StoreByte, Session!AcceptByte
  <2> QED BY <2>1 DEF Session!Interact
<1>10. CASE RunBlobCommand(c)
  <2>1. Session!Deliver(c)
    BY <1>7, <1>10 DEF RunBlobCommand, Session!Deliver
  <2> QED BY <2>1 DEF Session!Interact
<1>11. CASE BlobOverflow(c)
  <2>1. Session!RefuseBlob(c)
    BY <1>7, <1>11 DEF BlobOverflow, Session!RefuseBlob
  <2> QED BY <2>1 DEF Session!Interact
<1>12. CASE Discard(c)
  <2>1. Session!Drop(c)
    BY <1>12 DEF Discard, Session!Drop
  <2> QED BY <2>1 DEF Session!Interact
<1> QED
  BY <1>1, <1>2, <1>3, <1>5, <1>6, <1>8, <1>9, <1>10, <1>11, <1>12
  DEF mc_parser

\* The parser implements the session of CommandSession.
THEOREM ParserImplementsSession == Spec => ImplementsSession
<1>1. Init => Session!Init
  BY DEF Init, Session!Init, SessionPhase
<1>2. RefinementInv /\ [Next]_vars => [Session!Next]_(Session!session)
  <2> SUFFICES ASSUME RefinementInv, [Next]_vars
               PROVE  [Session!Next]_(Session!session)
    OBVIOUS
  <2>1. CASE Next
    BY <2>1, StepImplementsSession DEF Next, Session!Next
  <2>2. CASE UNCHANGED vars
    BY <2>2 DEF vars, Session!session, SessionPhase
  <2> QED BY <2>1, <2>2
<1>3. Spec => []DiscardNotCutShort
  <2>1. Init => DiscardNotCutShort
    BY DEF Init, DiscardNotCutShort
  <2>2. TypeOK /\ DiscardNotCutShort /\ [Next]_vars => DiscardNotCutShort'
    <3> SUFFICES ASSUME TypeOK, DiscardNotCutShort, [Next]_vars
                 PROVE  DiscardNotCutShort'
      OBVIOUS
    <3>1. CASE Next
      BY <3>1, StepDiscardNotCutShort DEF Next
    <3>2. CASE UNCHANGED vars
      BY <3>2 DEF vars, DiscardNotCutShort, linecounter
    <3> QED BY <3>1, <3>2
  <2> QED BY <2>1, <2>2, TypeCorrect, PTL DEF Spec
<1> QED
  BY <1>1, <1>2, <1>3, TypeCorrect, OpenBlobIsSafe, PTL
  DEF Spec, Session!Spec, ImplementsSession, RefinementInv
=============================================================================
