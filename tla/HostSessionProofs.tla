------------------------- MODULE HostSessionProofs --------------------------
(***************************************************************************)
(* Proofs about HostSession, for every set of command lines that satisfies *)
(* its assumptions, either line ending and every size of the buffers: host *)
(* and firmware stay in step, and neither waits for the other for ever.    *)
(* The argument is about the symbols on their way to the firmware.         *)
(***************************************************************************)
EXTENDS HostSession, McParserProofs

\* What the firmware has not read yet, and what it has of the line so far.
Pending == rx \o todo

Received == IF parser_state = "READY" THEN linebuffer ELSE <<>>

Newlines(w, a, b) == \A i \in a..b : w[i] = Newline

\* In this state the parser reads the first k symbols of w without a word.
Skips(state, w, k) ==
  IF state = "ERR"
    THEN \E j \in 1..k : /\ w[j] = Newline
                         /\ \A i \in 1..(j - 1) : w[i] # Newline
                         /\ Newlines(w, j + 1, k)
    ELSE Newlines(w, 1, k)

\* Before a line or the first byte of a blob.
AtRest == /\ parser_state = "READY" => linebuffer = <<>>
          /\ parser_state = "DATA" => datalength = 0

\* Nothing that is on its way will be answered.
Quiet == AtRest /\ Skips(parser_state, Pending, Len(Pending))

\* The overrun check can only fire in the middle of a line.
Room == parser_state # "READY" => linecounter < LineLen

\* What HostCommand takes for its line.
WholeLine(l) == /\ Len(l) >= 2 /\ Len(l) # LineLen
                /\ l[Len(l)] = Newline
                /\ \A i \in 1..(Len(l) - 1) : l[i] # Newline
                /\ LineOK(l) /\ HasArguments(l) /\ l[1] \in DataCommands
                     => ArgValue(LastArg(l)) # 0 \/ ~ArgComplete(LastArg(l))

\* After k symbols of w comes the line l without its first d symbols, and
\* nothing but newlines after that.
LineFrom(l, w, k, d) ==
  /\ k + (Len(l) - d) <= Len(w)
  /\ \A i \in 1..(Len(l) - d) : w[k + i] = l[d + i]
  /\ Newlines(w, k + (Len(l) - d) + 1, Len(w))

\* The parser has read some of the line, or what precedes the line.
LineComing ==
  /\ parser_state # "DATA"
  /\ Len(Received) < Len(line)
  /\ \A i \in 1..Len(Received) : Received[i] = line[i]
  /\ \E k \in 0..Len(Pending) :
       /\ Skips(parser_state, Pending, k)
       /\ Received # <<>> => k = 0
       /\ LineFrom(line, Pending, k, Len(Received))

\* The blob is open, with the length that the line asked for.
BlobOpen == /\ parser_state = "DATA"
            /\ expected_datalength = ArgValue(LastArg(line))
            /\ expected_datalength > 0

\* After k newlines, n bytes and the newline that ends them.
BlobFrom(w, k, n) ==
  /\ Len(w) = k + n + 1
  /\ Newlines(w, 1, k)
  /\ \A i \in (k + 1)..(k + n) : w[i] = Byte
  /\ w[k + n + 1] = Newline

\* The parser has read some of the n bytes that the host sends.
BlobComing(n) ==
  /\ BlobOpen
  /\ datalength <= expected_datalength
  /\ \E k \in 0..Len(Pending) :
       /\ datalength > 0 => k = 0
       /\ BlobFrom(Pending, k, n - datalength)

Answered == /\ Len(tx) = 1 /\ tx[1] \in Deserved
            /\ Quiet
            /\ IF tx[1] = "prompt" THEN BlobOpen ELSE parser_state # "DATA"

\* The phases of an exchange.
Between == asked = "none" => /\ todo = <<>> /\ tx = <<>>
                             /\ Quiet /\ parser_state # "DATA"

WaitsForLine == asked = "line" /\ tx = <<>> => LineComing

WaitsForBlob ==
  /\ asked = "blob" /\ tx = <<>> => BlobComing(ArgValue(LastArg(line)))
  /\ asked = "surplus" /\ tx = <<>>
       => BlobComing(ArgValue(LastArg(line)) + 1)

InStep == /\ Between /\ WaitsForLine /\ WaitsForBlob
          /\ asked # "none" => WholeLine(line)
          /\ asked # "none" /\ tx # <<>> => Answered

\* The inductive invariant.
HostInv == HostTypeOK /\ Room /\ InStep
-----------------------------------------------------------------------------
(* The symbols on their way.                                               *)

\* The tail of a sequence, symbol by symbol.
LEMMA TailOf ==
  ASSUME NEW w \in Seq(Input), w # <<>>
  PROVE  /\ Len(w) \in Nat \ {0} /\ w[1] \in Input
         /\ Tail(w) \in Seq(Input)
         /\ Len(Tail(w)) = Len(w) - 1
         /\ \A i \in 1..(Len(w) - 1) : Tail(w)[i] = w[i + 1]
BY EmptySeq

\* The firmware takes the first pending symbol.
LEMMA PendingTail ==
  ASSUME rx \in Seq(Input), todo \in Seq(Input), rx # <<>>
  PROVE  /\ Pending \in Seq(Input) /\ Pending # <<>>
         /\ Head(rx) = Pending[1]
         /\ Tail(rx) \o todo = Tail(Pending)
<1>1. Len(rx) \in Nat \ {0} /\ Len(todo) \in Nat
  BY EmptySeq
<1>2. Tail(rx) \in Seq(Input) /\ Len(Tail(rx)) = Len(rx) - 1
  BY <1>1
<1>3. Pending \in Seq(Input) /\ Len(Pending) = Len(rx) + Len(todo)
  BY DEF Pending
<1>4. Pending # <<>>
  BY <1>1, <1>3
<1>5. \A i \in 1..Len(Pending) :
        Pending[i] = IF i <= Len(rx) THEN rx[i] ELSE todo[i - Len(rx)]
  BY <1>1 DEF Pending
<1>6. Head(rx) = Pending[1]
  BY <1>1, <1>3, <1>5
<1>7. Tail(rx) \o todo = Tail(Pending)
  <2> DEFINE u == Tail(rx) \o todo
             v == Tail(Pending)
  <2>1. u \in Seq(Input) /\ Len(u) = Len(rx) - 1 + Len(todo)
    BY <1>2
  <2>2. v \in Seq(Input) /\ Len(v) = Len(u)
    BY <1>1, <1>3, <1>4, <2>1, TailOf
  <2>3. ASSUME NEW i \in 1..Len(u)
        PROVE  u[i] = v[i]
    <3>1. v[i] = Pending[i + 1]
      BY <1>3, <1>4, <2>1, TailOf
    <3>2. u[i] = IF i <= Len(rx) - 1 THEN Tail(rx)[i]
                 ELSE todo[i - (Len(rx) - 1)]
      BY <1>1, <1>2, <2>1
    <3>3. i <= Len(rx) - 1 => Tail(rx)[i] = rx[i + 1]
      BY <1>1, TailOf
    <3> QED BY <1>1, <1>3, <1>5, <2>1, <3>1, <3>2, <3>3
  <2> HIDE DEF u, v
  <2>4. u = v
    BY <2>1, <2>2, <2>3, SeqEqual
  <2> QED BY <2>4 DEF u, v
<1> QED BY <1>3, <1>4, <1>6, <1>7

\* The host moves a symbol to the serial line, and nothing else.
LEMMA SendKeepsPending ==
  ASSUME rx \in Seq(Input), todo \in Seq(Input), HostSend
  PROVE  Pending' = Pending
<1>1. /\ todo # <<>> /\ rx' = Append(rx, Head(todo)) /\ todo' = Tail(todo)
  BY DEF HostSend
<1>2. Len(rx) \in Nat /\ Len(todo) \in Nat \ {0}
  BY <1>1, EmptySeq
<1>3. Head(todo) \in Input /\ Head(todo) = todo[1]
  BY <1>1, <1>2
<1>4. /\ rx' \in Seq(Input) /\ Len(rx') = Len(rx) + 1
      /\ \A i \in 1..Len(rx) : rx'[i] = rx[i]
      /\ rx'[Len(rx) + 1] = todo[1]
  BY <1>1, <1>2, <1>3
<1>5. /\ todo' \in Seq(Input) /\ Len(todo') = Len(todo) - 1
      /\ \A i \in 1..Len(todo') : todo'[i] = todo[i + 1]
  BY <1>1, <1>2, TailOf
<1> DEFINE u == rx' \o todo'
           v == rx \o todo
<1>6. u \in Seq(Input) /\ Len(u) = Len(rx) + Len(todo)
  <2>1. u \in Seq(Input) /\ Len(u) = Len(rx') + Len(todo')
    BY <1>4, <1>5, ConcatProperties
  <2> QED BY <1>2, <1>4, <1>5, <2>1
<1>7. v \in Seq(Input) /\ Len(v) = Len(rx) + Len(todo)
  BY <1>2
<1>8. ASSUME NEW i \in 1..Len(u)
      PROVE  u[i] = v[i]
  <2>1. u[i] = IF i <= Len(rx') THEN rx'[i] ELSE todo'[i - Len(rx')]
    BY <1>4, <1>5, <1>6
  <2>2. v[i] = IF i <= Len(rx) THEN rx[i] ELSE todo[i - Len(rx)]
    BY <1>2, <1>6
  <2>3. CASE i <= Len(rx)
    BY <1>2, <1>4, <2>1, <2>2, <2>3
  <2>4. CASE i = Len(rx) + 1
    BY <1>2, <1>4, <2>1, <2>2, <2>4
  <2>5. CASE i > Len(rx) + 1
    <3>1. i - Len(rx') \in 1..Len(todo')
      BY <1>2, <1>4, <1>5, <1>6, <2>5
    <3>2. u[i] = todo[(i - Len(rx')) + 1]
      BY <1>4, <1>5, <2>1, <2>5, <3>1
    <3> QED BY <1>2, <1>4, <1>6, <2>2, <2>5, <3>2
  <2>6. i \in Int
    BY <1>6
  <2> HIDE DEF u, v
  <2> QED BY <1>2, <2>3, <2>4, <2>5, <2>6
<1> HIDE DEF u, v
<1>9. u = v
  BY <1>6, <1>7, <1>8, SeqEqual
<1> QED BY <1>9 DEF u, v, Pending

\* A newline that is skipped leaves the rest to be skipped.
LEMMA NewlineSkipped ==
  ASSUME NEW w \in Seq(Input), w # <<>>, NEW k \in 0..Len(w),
         NEW s, NEW t, Skips(s, w, k), k > 0, t # "ERR",
         s = "ERR" => w[1] = Newline
  PROVE  /\ w[1] = Newline
         /\ k - 1 \in 0..Len(Tail(w)) /\ Skips(t, Tail(w), k - 1)
<1>1. Len(w) \in Nat \ {0} /\ Len(Tail(w)) = Len(w) - 1
      /\ \A i \in 1..(Len(w) - 1) : Tail(w)[i] = w[i + 1]
  BY TailOf
<1>2. Newlines(w, 1, k)
  <2>1. CASE s = "ERR"
    <3>1. PICK j \in 1..k : /\ w[j] = Newline
                            /\ \A i \in 1..(j - 1) : w[i] # Newline
                            /\ Newlines(w, j + 1, k)
      BY <2>1 DEF Skips
    <3>2. j = 1
      BY <2>1, <3>1
    <3> QED BY <3>1, <3>2 DEF Newlines
  <2> QED BY <2>1 DEF Skips
<1>3. k - 1 \in 0..Len(Tail(w)) /\ w[1] = Newline
  BY <1>1, <1>2 DEF Newlines
<1>4. Newlines(Tail(w), 1, k - 1)
  BY <1>1, <1>2 DEF Newlines
<1> QED BY <1>3, <1>4 DEF Skips

\* What is dropped after an error leaves the rest to be dropped.
LEMMA RestDropped ==
  ASSUME NEW w \in Seq(Input), w # <<>>, NEW k \in 0..Len(w),
         Skips("ERR", w, k), w[1] # Newline
  PROVE  /\ k > 0
         /\ k - 1 \in 0..Len(Tail(w)) /\ Skips("ERR", Tail(w), k - 1)
<1>1. Len(w) \in Nat \ {0} /\ Len(Tail(w)) = Len(w) - 1
      /\ \A i \in 1..(Len(w) - 1) : Tail(w)[i] = w[i + 1]
  BY TailOf
<1>2. PICK j \in 1..k : /\ w[j] = Newline
                        /\ \A i \in 1..(j - 1) : w[i] # Newline
                        /\ Newlines(w, j + 1, k)
  BY DEF Skips
<1> DEFINE m == j - 1
<1>3. m \in 1..(k - 1) /\ m + 1 = j
  BY <1>2
<1> HIDE DEF m
<1>4. /\ Tail(w)[m] = Newline
      /\ \A i \in 1..(m - 1) : Tail(w)[i] # Newline
      /\ Newlines(Tail(w), m + 1, k - 1)
  BY <1>1, <1>2, <1>3 DEF Newlines
<1>5. Skips("ERR", Tail(w), k - 1)
  BY <1>3, <1>4 DEF Skips
<1>6. k > 0 /\ k - 1 \in 0..Len(Tail(w))
  BY <1>1, <1>3
<1> QED BY <1>5, <1>6

\* A symbol before the line is read.
LEMMA LineComesCloser ==
  ASSUME NEW l \in Seq(Input), NEW w \in Seq(Input), w # <<>>,
         NEW k \in 0..Len(w), NEW d \in 0..Len(l), k > 0,
         LineFrom(l, w, k, d)
  PROVE  LineFrom(l, Tail(w), k - 1, d)
<1>1. /\ Len(w) \in Nat \ {0} /\ Len(Tail(w)) = Len(w) - 1
      /\ Len(l) \in Nat
      /\ \A i \in 1..(Len(w) - 1) : Tail(w)[i] = w[i + 1]
  BY TailOf
<1>2. (k - 1) + (Len(l) - d) <= Len(Tail(w))
  BY <1>1 DEF LineFrom
<1>3. ASSUME NEW i \in 1..(Len(l) - d)
      PROVE  Tail(w)[(k - 1) + i] = l[d + i]
  <2>1. (k - 1) + i \in 1..(Len(w) - 1) /\ ((k - 1) + i) + 1 = k + i
    BY <1>1, <1>2
  <2> QED BY <1>1, <2>1 DEF LineFrom
<1>4. Newlines(Tail(w), (k - 1) + (Len(l) - d) + 1, Len(Tail(w)))
  BY <1>1, <1>2 DEF LineFrom, Newlines
<1> QED BY <1>2, <1>3, <1>4 DEF LineFrom

\* A symbol of the line is read.
LEMMA LineIsRead ==
  ASSUME NEW l \in Seq(Input), NEW w \in Seq(Input), w # <<>>,
         NEW d \in 0..(Len(l) - 1), LineFrom(l, w, 0, d)
  PROVE  w[1] = l[d + 1] /\ LineFrom(l, Tail(w), 0, d + 1)
<1>1. /\ Len(w) \in Nat \ {0} /\ Len(Tail(w)) = Len(w) - 1
      /\ Len(l) \in Nat
      /\ \A i \in 1..(Len(w) - 1) : Tail(w)[i] = w[i + 1]
  BY TailOf
<1>2. Len(l) - d <= Len(w) /\ d \in Nat
  BY <1>1 DEF LineFrom
<1>3. \A i \in 1..(Len(l) - d) : w[i] = l[d + i]
  BY <1>1, <1>2 DEF LineFrom
<1>4. \A i \in 1..(Len(l) - (d + 1)) : Tail(w)[i] = l[(d + 1) + i]
  <2> TAKE i \in 1..(Len(l) - (d + 1))
  <2>1. i \in 1..(Len(w) - 1) /\ i + 1 \in 1..(Len(l) - d)
        /\ (d + 1) + i = d + (i + 1)
    BY <1>1, <1>2
  <2> QED BY <1>1, <1>3, <2>1
<1>5. Newlines(Tail(w), (Len(l) - (d + 1)) + 1, Len(Tail(w)))
  BY <1>1, <1>2 DEF LineFrom, Newlines
<1>6. w[1] = l[d + 1]
  BY <1>1, <1>2, <1>3
<1>7. Len(l) - (d + 1) <= Len(Tail(w))
  BY <1>1, <1>2
<1>8. \A i \in 1..(Len(l) - (d + 1)) : 0 + i = i
  BY <1>1, <1>2
<1>9. 0 + (Len(l) - (d + 1)) = Len(l) - (d + 1)
  BY <1>1, <1>2
<1> QED BY <1>4, <1>5, <1>6, <1>7, <1>8, <1>9 DEF LineFrom

\* After the whole line there are only newlines.
LEMMA LineWasRead ==
  ASSUME NEW l \in Seq(Input), NEW w \in Seq(Input),
         LineFrom(l, w, 0, Len(l)), NEW s, s # "ERR"
  PROVE  Skips(s, w, Len(w))
BY DEF LineFrom, Skips, Newlines

\* The rest of a line that is dropped ends with the newline of the line.
LEMMA LineIsDropped ==
  ASSUME NEW l \in Seq(Input), NEW w \in Seq(Input), WholeLine(l),
         NEW d \in 0..(Len(l) - 1), LineFrom(l, w, 0, d)
  PROVE  Skips("ERR", w, Len(w))
<1>1. Len(w) \in Nat /\ Len(l) \in Nat /\ d \in Nat
  OBVIOUS
<1> DEFINE j == Len(l) - d
<1>2. j \in 1..Len(w)
  BY <1>1 DEF LineFrom
<1>3. \A i \in 1..j : w[i] = l[d + i]
  BY <1>1, <1>2 DEF LineFrom
<1>4. w[j] = Newline /\ \A i \in 1..(j - 1) : w[i] # Newline
  <2>1. d + j = Len(l)
    BY <1>1
  <2>2. \A i \in 1..(j - 1) : d + i \in 1..(Len(l) - 1)
    BY <1>1
  <2> HIDE DEF j
  <2>3. w[j] = l[d + j]
    BY <1>2, <1>3
  <2>4. \A i \in 1..(j - 1) : w[i] = l[d + i]
    BY <1>2, <1>3
  <2> QED BY <2>1, <2>2, <2>3, <2>4 DEF WholeLine
<1>5. Newlines(w, j + 1, Len(w))
  BY <1>1, <1>2 DEF LineFrom, Newlines
<1> QED BY <1>2, <1>4, <1>5 DEF Skips

\* A newline before the blob is read.
LEMMA BlobComesCloser ==
  ASSUME NEW w \in Seq(Input), w # <<>>, NEW k \in 0..Len(w), NEW n \in Nat,
         k > 0, BlobFrom(w, k, n)
  PROVE  w[1] = Newline /\ BlobFrom(Tail(w), k - 1, n)
<1>1. /\ Len(w) \in Nat \ {0} /\ Len(Tail(w)) = Len(w) - 1
      /\ \A i \in 1..(Len(w) - 1) : Tail(w)[i] = w[i + 1]
  BY TailOf
<1>2. /\ Len(w) = k + n + 1 /\ k \in Nat
      /\ \A i \in 1..k : w[i] = Newline
      /\ \A i \in (k + 1)..(k + n) : w[i] = Byte
      /\ w[k + n + 1] = Newline
  BY DEF BlobFrom, Newlines
<1>3. w[1] = Newline /\ Len(Tail(w)) = (k - 1) + n + 1
  BY <1>1, <1>2
<1>4. \A i \in 1..(k - 1) : Tail(w)[i] = Newline
  BY <1>1, <1>2
<1>5. \A i \in ((k - 1) + 1)..((k - 1) + n) : Tail(w)[i] = Byte
  BY <1>1, <1>2
<1>6. Tail(w)[(k - 1) + n + 1] = Newline
  <2>1. (k - 1) + n + 1 = k + n /\ k + n \in 1..(Len(w) - 1)
    BY <1>2
  <2> QED BY <1>1, <1>2, <2>1
<1> QED BY <1>3, <1>4, <1>5, <1>6 DEF BlobFrom, Newlines

\* A byte of the blob is read.
LEMMA BlobIsRead ==
  ASSUME NEW w \in Seq(Input), w # <<>>, NEW n \in Nat \ {0},
         BlobFrom(w, 0, n)
  PROVE  w[1] = Byte /\ BlobFrom(Tail(w), 0, n - 1)
<1>1. /\ Len(w) \in Nat \ {0} /\ Len(Tail(w)) = Len(w) - 1
      /\ \A i \in 1..(Len(w) - 1) : Tail(w)[i] = w[i + 1]
  BY TailOf
<1> QED BY <1>1 DEF BlobFrom, Newlines

\* The end of the blob is read.
LEMMA BlobWasRead ==
  ASSUME NEW w \in Seq(Input), w # <<>>, BlobFrom(w, 0, 0)
  PROVE  w[1] = Newline /\ Len(w) = 1 /\ Len(Tail(w)) = 0
BY TailOf DEF BlobFrom
-----------------------------------------------------------------------------
(* What one call of mc_parser() does, by what it has read before.          *)

\* The steps that answer a line.
EndOfLine(c) == \/ RejectLine(c) \/ RunCommand(c) \/ MissingBlobLength(c)
                \/ BlobTooLong(c) \/ BlobLengthMalformed(c) \/ OpenBlob(c)

\* What decides which step one call takes.
LEMMA StepGuards ==
  ASSUME TypeOK, NEW c \in Input, mc_parser(c)
  PROVE  \/ Overrun(c) /\ ~(linecounter < LineLen)
         \/ SuperfluousNewline(c) /\ Collecting /\ c = Newline /\ Line = <<>>
         \/ StoreSymbol(c) /\ Collecting /\ c # Newline
         \/ EndOfLine(c) /\ Collecting /\ c = Newline /\ Line # <<>>
         \/ LeadingNewline(c) /\ InBlob /\ c = Newline /\ datalength = 0
         \/ /\ StoreByte(c) /\ InBlob /\ ~(datalength = 0 /\ c = Newline)
            /\ datalength < expected_datalength
         \/ /\ RunBlobCommand(c) /\ InBlob /\ c = Newline /\ datalength # 0
            /\ ~(datalength < expected_datalength)
         \/ /\ BlobOverflow(c) /\ InBlob /\ c # Newline
            /\ ~(datalength < expected_datalength)
         \/ Discard(c) /\ linecounter < LineLen /\ parser_state = "ERR"
<1> USE DEF IsNewline
<1>1. linecounter \in Nat /\ LineLen \in Nat
      /\ datalength \in Nat /\ expected_datalength \in Nat
  BY SizeAssumption DEF TypeOK, linecounter
<1>2. CASE Overrun(c)
  BY <1>1, <1>2 DEF Overrun
<1>3. CASE SuperfluousNewline(c)
  BY <1>3 DEF SuperfluousNewline
<1>4. CASE StoreSymbol(c)
  BY <1>4 DEF StoreSymbol
<1>5. CASE EndOfLine(c)
  <2>1. ParseLine(c)
    BY <1>5
    DEF EndOfLine, RejectLine, RunCommand, MissingBlobLength, BlobTooLong,
        BlobLengthMalformed, OpenBlob, StartBlobCommand
  <2> QED BY <1>5, <2>1 DEF ParseLine
<1>6. CASE LeadingNewline(c)
  BY <1>6 DEF LeadingNewline
<1>7. CASE StoreByte(c)
  BY <1>7 DEF StoreByte
<1>8. CASE RunBlobCommand(c)
  BY <1>1, <1>8 DEF RunBlobCommand
<1>9. CASE BlobOverflow(c)
  BY <1>1, <1>9 DEF BlobOverflow
<1>10. CASE Discard(c)
  BY <1>10 DEF Discard
<1> QED
  BY <1>2, <1>3, <1>4, <1>5, <1>6, <1>7, <1>8, <1>9, <1>10
  DEF mc_parser, EndOfLine

\* What is skipped is not answered.
LEMMA SkipStep ==
  ASSUME TypeOK, Room, AtRest, NEW c \in Input, mc_parser(c),
         parser_state = "ERR" \/ c = Newline
  PROVE  /\ response' = "none" /\ Room' /\ AtRest'
         /\ parser_state' = IF parser_state = "ERR" /\ c # Newline THEN "ERR"
                            ELSE IF parser_state = "ERR" THEN "RESET"
                            ELSE IF parser_state = "DATA" THEN "DATA"
                            ELSE "READY"
         /\ parser_state = "DATA"
              => UNCHANGED <<datalength, expected_datalength>>
<1> USE DEF IsNewline, linecounter
<1>1. linecounter < LineLen /\ Len(linebuffer) \in Nat
  BY SizeAssumption, EmptySeq DEF Room, AtRest, TypeOK
<1>2. CASE parser_state = "ERR"
  <2>1. Discard(c)
    BY <1>1, <1>2, StepGuards DEF Collecting, InBlob
  <2> QED BY <1>1, <1>2, <2>1 DEF Discard, Room, AtRest
<1>3. CASE parser_state = "DATA"
  <2>1. c = Newline /\ datalength = 0
    BY <1>3 DEF AtRest
  <2>2. LeadingNewline(c)
    BY <1>1, <1>3, <2>1, StepGuards DEF Collecting, InBlob
  <2> QED BY <1>1, <1>3, <2>1, <2>2 DEF LeadingNewline, Room, AtRest
<1>4. CASE parser_state \in {"RESET", "READY"}
  <2>1. c = Newline /\ Line = <<>>
    BY <1>4 DEF AtRest, Line
  <2>2. SuperfluousNewline(c)
    BY <1>1, <1>4, <2>1, StepGuards DEF Collecting, InBlob
  <2> QED BY <1>4, <2>2 DEF SuperfluousNewline, Room, AtRest
<1> QED BY <1>2, <1>3, <1>4 DEF TypeOK

\* A symbol of a line is stored.
LEMMA StoreStep ==
  ASSUME TypeOK, Room, parser_state \in {"RESET", "READY"},
         Len(Received) < LineLen, NEW c \in Input \ {Newline}, mc_parser(c)
  PROVE  /\ response' = "none" /\ parser_state' = "READY"
         /\ linebuffer' = Append(Received, c) /\ Room'
<1> USE DEF IsNewline, linecounter
<1>1. Collecting /\ Line = Received
  BY DEF Collecting, Line, Received, Room
<1>2. StoreSymbol(c)
  BY <1>1, StepGuards DEF Collecting, InBlob
<1> QED BY <1>1, <1>2 DEF StoreSymbol, Room

\* A line that fills the line buffer is cut off at the next symbol.
LEMMA OverrunStep ==
  ASSUME TypeOK, parser_state = "READY", Len(linebuffer) >= LineLen,
         NEW c \in Input, mc_parser(c)
  PROVE  /\ response' = "overrun" /\ linebuffer' = <<>> /\ Room'
         /\ parser_state' = IF c = Newline THEN "READY" ELSE "ERR"
<1> USE DEF IsNewline, linecounter
<1>1. ~(Len(linebuffer) < LineLen)
  BY SizeAssumption DEF TypeOK
<1>2. Overrun(c)
  BY <1>1, StepGuards DEF Collecting, InBlob
<1> QED BY <1>2, SizeAssumption, EmptySeq DEF Overrun, Room

\* A line is answered when it ends, with what it deserves.
LEMMA LineAnsweredStep ==
  ASSUME TypeOK, parser_state = "READY", linebuffer # <<>>,
         Len(linebuffer) < LineLen, NEW c \in Input, c = Newline,
         mc_parser(c), asked = "line", line = Append(linebuffer, c),
         WholeLine(line)
  PROVE  /\ response' \in Deserved /\ response' # "none" /\ Room'
         /\ linebuffer' = line
         /\ IF response' = "prompt"
              THEN /\ parser_state' = "DATA" /\ datalength' = 0
                   /\ expected_datalength' = ArgValue(LastArg(line))
                   /\ expected_datalength' > 0
              ELSE parser_state' = "RESET"
<1> USE DEF IsNewline, linecounter
<1>1. Collecting /\ Line = linebuffer
  BY DEF Collecting, Line
<1>2. EndOfLine(c)
  BY <1>1, StepGuards DEF Collecting, InBlob
<1>3. ParseLine(c)
  BY <1>2
  DEF EndOfLine, RejectLine, RunCommand, MissingBlobLength, BlobTooLong,
      BlobLengthMalformed, OpenBlob, StartBlobCommand
<1>4. linebuffer' = line
  BY <1>1, <1>3 DEF ParseLine
<1>5. line \in Seq(Input) /\ Len(line) = Len(linebuffer) + 1
      /\ Len(linebuffer) \in Nat
  BY DEF TypeOK
<1>6. Len(line) < LineLen /\ ~(Len(line) > LineLen)
  BY <1>5, SizeAssumption DEF WholeLine
<1>7. Room'
  BY <1>4, <1>6 DEF Room
<1>8. /\ Matched(line) => active_command' = line[1]
      /\ Matched(line) => argcount' = ArgCount(line)
  BY <1>3, <1>4 DEF ParseLine
<1>9. CASE RejectLine(c)
  <2>1. ~LineOK(line)
    BY <1>4, <1>9 DEF RejectLine
  <2> QED BY <1>4, <1>6, <1>7, <1>9, <2>1 DEF RejectLine, Deserved
<1>10. CASE RunCommand(c)
  <2>1. LineOK(line) /\ line[1] \notin DataCommands
    BY <1>4, <1>8, <1>10 DEF RunCommand, LineOK
  <2> QED BY <1>4, <1>6, <1>7, <1>10, <2>1 DEF RunCommand, Deserved
<1>11. ASSUME StartBlobCommand(c)
       PROVE  /\ LineOK(line) /\ line[1] \in DataCommands
              /\ argcount' > 0 <=> HasArguments(line)
              /\ argcount' = 0 <=> ~HasArguments(line)
              /\ linebuffer' = line /\ datalength' = 0
  <2>1. LineOK(line) /\ line[1] \in DataCommands
    BY <1>4, <1>8, <1>11 DEF StartBlobCommand, LineOK
  <2>2. argcount' = ArgCount(line)
    BY <1>8, <2>1 DEF LineOK
  <2>3. CASE HasArguments(line)
    <3>1. ArgumentsOK(line)
      BY <2>1, <2>3 DEF LineOK
    <3>2. argcount' = CommaCount(line) + 1
      BY <2>2, <2>3, <3>1 DEF ArgCount, ArgumentsOK
    <3>3. CommaCount(line) \in Nat
      BY <1>5, CommaCountType
    <3>4. argcount' > 0 /\ argcount' # 0
      BY <3>2, <3>3
    <3> QED BY <1>4, <1>11, <2>1, <2>3, <3>4 DEF StartBlobCommand
  <2>4. CASE ~HasArguments(line)
    BY <1>4, <1>11, <2>1, <2>2, <2>4 DEF StartBlobCommand, ArgCount
  <2> QED BY <2>3, <2>4
<1>12. CASE MissingBlobLength(c)
  <2>1. StartBlobCommand(c) /\ ~HasArguments(line)
    BY <1>11, <1>12 DEF MissingBlobLength
  <2> QED BY <1>6, <1>7, <1>11, <1>12, <2>1 DEF MissingBlobLength, Deserved
<1>13. ArgValue(LastArg(line)) \in Nat
  BY ArgValueType
<1>14. CASE BlobTooLong(c) \/ BlobLengthMalformed(c)
  <2>1. StartBlobCommand(c) /\ HasArguments(line)
    BY <1>11, <1>14 DEF BlobTooLong, BlobLengthMalformed
  <2>2. ~(/\ ArgComplete(LastArg(line))
          /\ ArgValue(LastArg(line)) <= DataLen)
    BY <1>4, <1>13, <1>14, SizeAssumption
    DEF BlobTooLong, BlobLengthMalformed
  <2>3. response' = "bad_blob" /\ parser_state' = "RESET"
    BY <1>14 DEF BlobTooLong, BlobLengthMalformed
  <2> QED BY <1>6, <1>7, <1>11, <2>1, <2>2, <2>3 DEF Deserved
<1>15. CASE OpenBlob(c)
  <2>1. StartBlobCommand(c) /\ HasArguments(line)
    BY <1>11, <1>15 DEF OpenBlob
  <2>2. /\ ArgComplete(LastArg(line))
        /\ ArgValue(LastArg(line)) <= DataLen
        /\ expected_datalength' = ArgValue(LastArg(line))
        /\ response' = "prompt" /\ parser_state' = "DATA"
    BY <1>4, <1>15 DEF OpenBlob
  <2>3. ArgValue(LastArg(line)) > 0
    BY <1>11, <1>13, <2>1, <2>2 DEF WholeLine
  <2>4. response' \in Deserved
    BY <1>6, <1>11, <2>1, <2>2 DEF Deserved
  <2> QED BY <1>7, <1>11, <2>1, <2>2, <2>3, <2>4
<1> QED BY <1>2, <1>9, <1>10, <1>12, <1>14, <1>15 DEF EndOfLine

\* A byte of the blob is stored.
LEMMA StoreByteStep ==
  ASSUME TypeOK, Room, parser_state = "DATA",
         datalength < expected_datalength,
         NEW c \in Input \ {Newline}, mc_parser(c)
  PROVE  /\ response' = "none" /\ Room'
         /\ datalength' = datalength + 1
         /\ UNCHANGED <<parser_state, expected_datalength>>
<1> USE DEF IsNewline, linecounter
<1>1. linecounter < LineLen /\ ~(datalength >= expected_datalength)
  BY DEF Room, TypeOK
<1>2. StoreByte(c)
  BY <1>1, StepGuards DEF Collecting, InBlob
<1> QED BY <1>1, <1>2 DEF StoreByte, Room

\* The newline after the last byte runs the command.
LEMMA BlobEndStep ==
  ASSUME TypeOK, Room, parser_state = "DATA",
         datalength = expected_datalength, expected_datalength > 0,
         mc_parser(Newline)
  PROVE  /\ response' = "ran" /\ parser_state' = "RESET" /\ Room'
<1> USE DEF IsNewline, linecounter
<1>1. linecounter < LineLen /\ datalength # 0 /\ datalength \in Nat
      /\ ~(datalength < expected_datalength)
  BY DEF Room, TypeOK
<1>2. RunBlobCommand(Newline)
  BY <1>1, StepGuards, SymbolAssumption DEF Collecting, InBlob
<1> QED BY <1>1, <1>2 DEF RunBlobCommand, Room

\* A byte more than the command asked for is refused.
LEMMA SurplusStep ==
  ASSUME TypeOK, Room, parser_state = "DATA",
         datalength = expected_datalength,
         NEW c \in Input \ {Newline}, mc_parser(c)
  PROVE  /\ response' = "bad_blob" /\ parser_state' = "ERR" /\ Room'
<1> USE DEF IsNewline, linecounter
<1>1. linecounter < LineLen /\ ~(datalength < expected_datalength)
  BY DEF Room, TypeOK
<1>2. BlobOverflow(c)
  BY <1>1, StepGuards DEF Collecting, InBlob
<1> QED BY <1>1, <1>2 DEF BlobOverflow, Room
-----------------------------------------------------------------------------
(* One turn of the main loop, phase by phase.                              *)

\* The symbol that the firmware takes.
LEMMA FirmwareReads ==
  ASSUME HostTypeOK, Firmware
  PROVE  /\ Pending \in Seq(Input) /\ Pending # <<>>
         /\ Pending[1] \in Input /\ mc_parser(Pending[1])
         /\ Pending' = Tail(Pending)
         /\ Pending' \in Seq(Input)
         /\ TypeOK /\ TypeOK'
         /\ UNCHANGED <<line, asked, todo>>
<1>1. /\ rx # <<>> /\ mc_parser(Head(rx)) /\ rx' = Tail(rx)
      /\ UNCHANGED <<line, asked, todo>>
  BY DEF Firmware
<1>2. rx \in Seq(Input) /\ todo \in Seq(Input) /\ TypeOK
  BY DEF HostTypeOK
<1>3. /\ Pending \in Seq(Input) /\ Pending # <<>> /\ Head(rx) = Pending[1]
      /\ Tail(rx) \o todo = Tail(Pending)
  BY <1>1, <1>2, PendingTail
<1>4. Pending' = Tail(Pending)
  BY <1>1, <1>3 DEF Pending
<1>5. Pending[1] \in Input /\ Tail(Pending) \in Seq(Input)
  BY <1>3, TailOf
<1>6. TypeOK'
  BY <1>1, <1>2, <1>3, <1>5, StepTypeOK
<1> QED BY <1>1, <1>2, <1>3, <1>4, <1>5, <1>6

\* A symbol that is skipped is not answered.
LEMMA SkippedStep ==
  ASSUME HostTypeOK, Room, AtRest, Firmware,
         NEW k \in 0..Len(Pending), k > 0, Skips(parser_state, Pending, k)
  PROVE  /\ response' = "none" /\ Room' /\ AtRest'
         /\ k - 1 \in 0..Len(Pending')
         /\ Skips(parser_state', Pending', k - 1)
         /\ parser_state = "DATA" <=> parser_state' = "DATA"
         /\ parser_state = "DATA"
              => UNCHANGED <<datalength, expected_datalength>>
         /\ parser_state' # "READY" \/ linebuffer' = <<>>
<1>1. /\ Pending \in Seq(Input) /\ Pending # <<>>
      /\ Pending[1] \in Input /\ mc_parser(Pending[1])
      /\ Pending' = Tail(Pending) /\ TypeOK
  BY FirmwareReads
<1>2. CASE parser_state = "ERR" /\ Pending[1] # Newline
  BY <1>1, <1>2, RestDropped, SkipStep DEF AtRest
<1>3. CASE parser_state = "ERR" => Pending[1] = Newline
  <2>1. Pending[1] = Newline
    BY <1>1, <1>3, NewlineSkipped
  <2>2. /\ response' = "none" /\ Room' /\ AtRest' /\ parser_state' # "ERR"
        /\ parser_state = "DATA" <=> parser_state' = "DATA"
        /\ parser_state = "DATA"
             => UNCHANGED <<datalength, expected_datalength>>
    BY <1>1, <2>1, SkipStep
  <2>3. /\ k - 1 \in 0..Len(Tail(Pending))
        /\ Skips(parser_state', Tail(Pending), k - 1)
    BY <1>1, <1>3, <2>2, NewlineSkipped
  <2> QED BY <1>1, <2>2, <2>3 DEF AtRest
<1> QED BY <1>2, <1>3

\* When nothing is to be answered, nothing is.
LEMMA QuietStep ==
  ASSUME HostTypeOK, Room, Quiet, Firmware
  PROVE  /\ response' = "none" /\ Room' /\ Quiet'
         /\ parser_state = "DATA" <=> parser_state' = "DATA"
         /\ BlobOpen => BlobOpen'
<1>1. /\ Pending \in Seq(Input) /\ Pending # <<>>
      /\ Pending' = Tail(Pending) /\ line' = line
  BY FirmwareReads
<1>2. Len(Pending) \in Nat \ {0} /\ Len(Pending') = Len(Pending) - 1
  BY <1>1, TailOf
<1>3. /\ response' = "none" /\ Room' /\ AtRest'
      /\ Skips(parser_state', Pending', Len(Pending) - 1)
      /\ parser_state = "DATA" <=> parser_state' = "DATA"
      /\ parser_state = "DATA"
           => UNCHANGED <<datalength, expected_datalength>>
  BY <1>2, SkippedStep DEF Quiet
<1> QED BY <1>1, <1>2, <1>3 DEF Quiet, BlobOpen

\* What precedes the line is skipped.
LEMMA BeforeLineStep ==
  ASSUME HostTypeOK, Room, WholeLine(line), LineComing, Firmware,
         NEW k \in 0..Len(Pending), k > 0,
         Skips(parser_state, Pending, k), Received = <<>>,
         LineFrom(line, Pending, k, Len(Received))
  PROVE  response' = "none" /\ Room' /\ LineComing'
<1>1. /\ Pending \in Seq(Input) /\ Pending # <<>>
      /\ Pending' = Tail(Pending) /\ line' = line
  BY FirmwareReads
<1>2. AtRest
  BY DEF AtRest, LineComing, Received
<1>3. /\ response' = "none" /\ Room'
      /\ k - 1 \in 0..Len(Pending')
      /\ Skips(parser_state', Pending', k - 1)
      /\ parser_state' # "DATA"
      /\ parser_state' # "READY" \/ linebuffer' = <<>>
  BY <1>2, SkippedStep DEF LineComing
<1>4. Received' = <<>> /\ Len(<<>>) = 0
  BY <1>3 DEF Received
<1>5. line \in Seq(Input) /\ Len(line) \in Nat /\ 0 \in 0..Len(line)
      /\ Len(line) > 0
  BY DEF HostTypeOK, WholeLine
<1>6. LineFrom(line, Tail(Pending), k - 1, 0)
  BY <1>1, <1>4, <1>5, LineComesCloser
<1> QED BY <1>1, <1>3, <1>4, <1>5, <1>6 DEF LineComing

\* A symbol of the line is read, and the line is answered when it ends or
\* does not fit.
LEMMA WithinLineStep ==
  ASSUME HostTypeOK, Room, WholeLine(line), LineComing, Firmware,
         asked = "line", parser_state # "ERR",
         LineFrom(line, Pending, 0, Len(Received))
  PROVE  /\ Room'
         /\ \/ response' = "none" /\ LineComing'
            \/ /\ response' # "none" /\ response' \in Deserved
               /\ Quiet'
               /\ IF response' = "prompt" THEN BlobOpen'
                  ELSE parser_state' # "DATA"
<1> DEFINE d == Len(Received)
           c == Pending[1]
<1>1. /\ Pending \in Seq(Input) /\ Pending # <<>>
      /\ c \in Input /\ mc_parser(c)
      /\ Pending' = Tail(Pending) /\ Pending' \in Seq(Input)
      /\ TypeOK /\ line' = line
  BY FirmwareReads
<1>2. line \in Seq(Input) /\ Len(line) \in Nat /\ Len(line) >= 2
  BY DEF HostTypeOK, WholeLine
<1>3. Received \in Seq(Input) /\ d \in Nat /\ d <= LineLen /\ d < Len(line)
  BY <1>1, SizeAssumption, EmptySeq
  DEF TypeOK, Received, LineComing, linecounter
<1>4. c = line[d + 1] /\ LineFrom(line, Pending', 0, d + 1)
  BY <1>1, <1>2, <1>3, LineIsRead
<1>5. parser_state \in {"RESET", "READY"}
  BY <1>1 DEF TypeOK, LineComing
<1>6. c = Newline <=> d + 1 = Len(line)
  BY <1>2, <1>3, <1>4 DEF WholeLine
<1>7. CASE d < LineLen /\ c # Newline
  <2>1. /\ response' = "none" /\ parser_state' = "READY"
        /\ linebuffer' = Append(Received, c) /\ Room'
    BY <1>1, <1>5, <1>7, StoreStep
  <2>2. Received' = Append(Received, c)
    BY <2>1 DEF Received
  <2>3. Len(Received') = d + 1 /\ d + 1 < Len(line)
    BY <1>1, <1>2, <1>3, <1>6, <1>7, <2>2
  <2>4. \A i \in 1..(d + 1) : Received'[i] = line[i]
    BY <1>1, <1>3, <1>4, <2>2 DEF LineComing
  <2>5. Skips("READY", Pending', 0) /\ 0 \in 0..Len(Pending')
    BY <1>1 DEF Skips, Newlines
  <2>6. LineComing'
    BY <1>1, <1>4, <2>1, <2>3, <2>4, <2>5 DEF LineComing
  <2> QED BY <2>1, <2>6
<1>8. CASE d < LineLen /\ c = Newline
  <2>1. d + 1 = Len(line) /\ d > 0
    BY <1>2, <1>3, <1>6, <1>8
  <2>2. parser_state = "READY" /\ Received = linebuffer /\ linebuffer # <<>>
    BY <2>1, EmptySeq DEF Received
  <2>3. line = Append(linebuffer, c)
    <3>1. /\ Append(Received, c) \in Seq(Input)
          /\ Len(Append(Received, c)) = Len(line)
          /\ \A i \in 1..Len(line) : Append(Received, c)[i] = line[i]
      BY <1>1, <1>2, <1>3, <1>4, <2>1 DEF LineComing
    <3> QED BY <1>2, <2>2, <3>1, SeqEqual
  <2>4. /\ response' \in Deserved /\ response' # "none" /\ Room'
        /\ IF response' = "prompt"
             THEN /\ parser_state' = "DATA" /\ datalength' = 0
                  /\ expected_datalength' = ArgValue(LastArg(line))
                  /\ expected_datalength' > 0
             ELSE parser_state' = "RESET"
    BY <1>1, <1>8, <2>2, <2>3, LineAnsweredStep
  <2>5. Skips(parser_state', Pending', Len(Pending'))
    BY <1>1, <1>2, <1>4, <2>1, <2>4, LineWasRead
  <2>6. AtRest'
    BY <2>4 DEF AtRest
  <2> QED BY <1>1, <2>4, <2>5, <2>6 DEF Quiet, BlobOpen
<1>9. CASE d >= LineLen
  <2>1. parser_state = "READY" /\ Received = linebuffer
    BY <1>3, <1>9, SizeAssumption, EmptySeq DEF Received
  <2>2. /\ response' = "overrun" /\ linebuffer' = <<>> /\ Room'
        /\ parser_state' = IF c = Newline THEN "READY" ELSE "ERR"
    BY <1>1, <1>9, <2>1, OverrunStep
  <2>3. Len(line) > LineLen
    BY <1>2, <1>3, <1>9, SizeAssumption
  <2>4. response' \in Deserved
    BY <2>2, <2>3 DEF Deserved
  <2>5. Skips(parser_state', Pending', Len(Pending'))
    <3>1. CASE c = Newline
      BY <1>1, <1>2, <1>4, <1>6, <2>2, <3>1, LineWasRead
    <3>2. CASE c # Newline
      <4>1. d + 1 \in 0..(Len(line) - 1)
        BY <1>2, <1>3, <1>6, <3>2
      <4> QED BY <1>1, <1>2, <1>4, <2>2, <3>2, <4>1, LineIsDropped
    <3> QED BY <3>1, <3>2
  <2>6. AtRest' /\ parser_state' # "DATA"
    BY <2>2 DEF AtRest
  <2> QED BY <2>2, <2>4, <2>5, <2>6 DEF Quiet
<1> QED BY <1>3, <1>7, <1>8, <1>9, SizeAssumption

\* A symbol of the blob is read, or a newline before the blob.
LEMMA BlobStep ==
  ASSUME HostTypeOK, Room, Firmware,
         NEW n \in {expected_datalength, expected_datalength + 1},
         BlobComing(n)
  PROVE  /\ Room'
         /\ \/ response' = "none" /\ BlobComing(n)'
            \/ /\ response' = IF n = expected_datalength THEN "ran"
                              ELSE "bad_blob"
               /\ Quiet' /\ parser_state' # "DATA"
<1> DEFINE c == Pending[1]
           e == expected_datalength
<1>1. /\ Pending \in Seq(Input) /\ Pending # <<>>
      /\ c \in Input /\ mc_parser(c)
      /\ Pending' = Tail(Pending) /\ Pending' \in Seq(Input)
      /\ TypeOK /\ line' = line
  BY FirmwareReads
<1>2. e \in Nat /\ datalength \in Nat /\ n \in Nat
  BY <1>1 DEF TypeOK
<1>3. parser_state = "DATA" /\ e > 0 /\ datalength <= e
  BY DEF BlobComing, BlobOpen
<1>4. PICK k \in 0..Len(Pending) :
        /\ datalength > 0 => k = 0
        /\ BlobFrom(Pending, k, n - datalength)
  BY DEF BlobComing
<1>5. n - datalength \in Nat
  BY <1>2, <1>3
<1>6. Len(Tail(Pending)) \in Nat
  BY <1>1
<1>7. CASE k > 0
  <2>1. AtRest /\ Skips(parser_state, Pending, k)
    BY <1>2, <1>3, <1>4, <1>7 DEF AtRest, Skips, BlobFrom
  <2>2. /\ response' = "none" /\ Room' /\ parser_state' = "DATA"
        /\ k - 1 \in 0..Len(Pending')
        /\ UNCHANGED <<datalength, expected_datalength>>
    BY <1>3, <1>7, <2>1, SkippedStep
  <2>3. BlobFrom(Pending', k - 1, n - datalength)
    BY <1>1, <1>4, <1>5, <1>7, BlobComesCloser
  <2>4. datalength' > 0 => k - 1 = 0
    BY <1>2, <1>4, <1>7, <2>2
  <2>5. BlobOpen'
    BY <1>1, <2>2 DEF BlobComing, BlobOpen
  <2> QED BY <1>3, <2>2, <2>3, <2>4, <2>5 DEF BlobComing
<1>8. CASE k = 0 /\ datalength < e
  <2>1. n - datalength \in Nat \ {0} /\ (n - datalength) - 1 = n - (datalength + 1)
    BY <1>2, <1>8
  <2>2. c = Byte /\ BlobFrom(Pending', 0, n - (datalength + 1))
    BY <1>1, <1>4, <1>8, <2>1, BlobIsRead
  <2>3. /\ response' = "none" /\ Room' /\ datalength' = datalength + 1
        /\ UNCHANGED <<parser_state, expected_datalength>>
    BY <1>1, <1>3, <1>8, <2>2, StoreByteStep, HostAssumption
  <2>4. BlobOpen' /\ datalength' <= expected_datalength'
    BY <1>1, <1>2, <1>8, <2>3 DEF BlobComing, BlobOpen
  <2>5. 0 \in 0..Len(Pending')
    BY <1>1, <1>6
  <2> QED BY <2>2, <2>3, <2>4, <2>5 DEF BlobComing
<1>9. CASE k = 0 /\ datalength = e /\ n = e
  <2>1. BlobFrom(Pending, 0, 0)
    BY <1>2, <1>4, <1>9
  <2>2. c = Newline /\ Len(Pending') = 0
    BY <1>1, <2>1, BlobWasRead
  <2>3. response' = "ran" /\ parser_state' = "RESET" /\ Room'
    BY <1>1, <1>3, <1>9, <2>2, BlobEndStep
  <2>4. Quiet'
    BY <2>2, <2>3 DEF Quiet, AtRest, Skips, Newlines
  <2> QED BY <1>9, <2>3, <2>4
<1>10. CASE k = 0 /\ datalength = e /\ n = e + 1
  <2>1. n - datalength \in Nat \ {0} /\ (n - datalength) - 1 = 0
    BY <1>2, <1>10
  <2>2. c = Byte /\ BlobFrom(Pending', 0, 0)
    BY <1>1, <1>4, <1>10, <2>1, BlobIsRead
  <2>3. response' = "bad_blob" /\ parser_state' = "ERR" /\ Room'
    BY <1>1, <1>3, <1>10, <2>2, SurplusStep, HostAssumption
  <2>4. Len(Pending') = 1 /\ Pending'[1] = Newline
    BY <2>2 DEF BlobFrom
  <2>5. Skips("ERR", Pending', 1)
    BY <2>4 DEF Skips, Newlines
  <2>6. Quiet'
    BY <2>3, <2>4, <2>5 DEF Quiet, AtRest
  <2> QED BY <1>2, <1>10, <2>3, <2>6
<1> QED BY <1>2, <1>3, <1>4, <1>7, <1>8, <1>9, <1>10

\* What the last text deserves does not change while the firmware reads it.
LEMMA SameDeserved ==
  ASSUME UNCHANGED <<line, asked>>
  PROVE  Deserved' = Deserved
BY DEF Deserved

\* One turn of the main loop keeps host and firmware in step.
LEMMA FirmwareInStep ==
  ASSUME HostInv, Firmware
  PROVE  HostInv'
<1>1. HostTypeOK /\ Room /\ InStep
  BY DEF HostInv
<1>2. /\ Pending' = Tail(Pending) /\ TypeOK /\ TypeOK'
      /\ UNCHANGED <<line, asked, todo>>
      /\ rx # <<>> /\ rx' = Tail(rx)
      /\ tx' = IF response' = "none" THEN tx ELSE Append(tx, response')
  BY <1>1, FirmwareReads DEF Firmware
<1>3. Deserved' = Deserved
  BY <1>2, SameDeserved
<1>4. /\ tx \in Seq(Responses) /\ Len(tx) <= 1 /\ Len(tx) \in Nat
      /\ response' \in Responses
  BY <1>1, <1>2 DEF HostTypeOK, TypeOK
<1>5. /\ rx' \in Seq(Input) /\ Len(rx') <= RxSize
      /\ line' \in Seq(Input) /\ todo' \in Seq(Input)
      /\ asked' \in {"none", "line", "blob", "surplus"}
  BY <1>1, <1>2, HostAssumption DEF HostTypeOK
<1>6. ASSUME response' = "none" \/ tx = <<>>
      PROVE  HostTypeOK'
  <2>1. tx' \in Seq(Responses) /\ Len(tx') <= 1
    <3>1. CASE response' = "none"
      BY <1>2, <1>4, <3>1
    <3>2. CASE response' # "none" /\ tx = <<>>
      BY <1>2, <1>4, <3>2
    <3> QED BY <1>6, <3>1, <3>2
  <2> QED BY <1>2, <1>5, <2>1 DEF HostTypeOK
<1>7. ASSUME response' # "none", tx = <<>>
      PROVE  Len(tx') = 1 /\ tx'[1] = response' /\ tx' # <<>>
  BY <1>2, <1>4, <1>7
<1>8. asked # "none" => WholeLine(line)'
  BY <1>1, <1>2 DEF InStep, WholeLine
<1>9. CASE asked = "none" \/ tx # <<>>
  <2>1. Quiet /\ (asked = "none" => parser_state # "DATA" /\ todo = <<>> /\ tx = <<>>)
    BY <1>1, <1>9 DEF InStep, Between, Answered
  <2>2. /\ response' = "none" /\ Room' /\ Quiet'
        /\ parser_state = "DATA" <=> parser_state' = "DATA"
        /\ BlobOpen => BlobOpen'
    BY <1>1, <2>1, QuietStep
  <2>3. HostTypeOK' /\ tx' = tx
    BY <1>2, <1>6, <2>2
  <2>4. asked' # "none" /\ tx' # <<>> => Answered'
    BY <1>1, <1>2, <1>3, <2>2, <2>3 DEF InStep, Answered
  <2>5. Between' /\ WaitsForLine' /\ WaitsForBlob'
    BY <1>2, <1>9, <2>1, <2>2, <2>3
    DEF Between, WaitsForLine, WaitsForBlob
  <2> QED BY <1>2, <1>8, <2>2, <2>3, <2>4, <2>5 DEF HostInv, InStep
<1>10. CASE asked = "line" /\ tx = <<>>
  <2>1. LineComing /\ WholeLine(line)
    BY <1>1, <1>10 DEF InStep, WaitsForLine
  <2>2. PICK k \in 0..Len(Pending) :
          /\ Skips(parser_state, Pending, k)
          /\ Received # <<>> => k = 0
          /\ LineFrom(line, Pending, k, Len(Received))
    BY <2>1 DEF LineComing
  <2>3. /\ Room'
        /\ \/ response' = "none" /\ LineComing'
           \/ /\ response' # "none" /\ response' \in Deserved
              /\ Quiet'
              /\ IF response' = "prompt" THEN BlobOpen'
                 ELSE parser_state' # "DATA"
    <3>1. CASE k > 0
      <4>1. Received = <<>>
        BY <2>2, <3>1
      <4> QED BY <1>1, <2>1, <2>2, <3>1, <4>1, BeforeLineStep
    <3>2. CASE k = 0
      <4>1. parser_state # "ERR"
        BY <2>2, <3>2 DEF Skips
      <4> QED BY <1>1, <1>10, <2>1, <2>2, <3>2, <4>1, WithinLineStep
    <3> QED BY <2>2, <3>1, <3>2
  <2>4. HostTypeOK'
    BY <1>6, <1>10
  <2>5. asked' = "line"
    BY <1>2, <1>10
  <2>6. CASE response' = "none" /\ LineComing'
    BY <1>2, <1>8, <1>10, <2>3, <2>4, <2>5, <2>6
    DEF HostInv, InStep, Between, WaitsForLine, WaitsForBlob
  <2>7. CASE /\ response' # "none" /\ response' \in Deserved
             /\ Quiet'
             /\ IF response' = "prompt" THEN BlobOpen'
                ELSE parser_state' # "DATA"
    <3>1. Len(tx') = 1 /\ tx'[1] = response' /\ tx' # <<>>
      BY <1>7, <1>10, <2>7
    <3>2. Answered'
      BY <1>3, <2>7, <3>1 DEF Answered
    <3> QED BY <1>8, <1>10, <2>3, <2>4, <2>5, <3>1, <3>2
            DEF HostInv, InStep, Between, WaitsForLine, WaitsForBlob
  <2> QED BY <2>3, <2>6, <2>7
<1>11. CASE asked \in {"blob", "surplus"} /\ tx = <<>>
  <2> DEFINE v == ArgValue(LastArg(line))
             n == IF asked = "blob" THEN v ELSE v + 1
  <2>1. BlobComing(n)
    BY <1>1, <1>11 DEF InStep, WaitsForBlob
  <2>2. v = expected_datalength /\ v \in Nat
    BY <1>2, <2>1 DEF BlobComing, BlobOpen, TypeOK
  <2>3. n = IF asked = "blob" THEN expected_datalength
            ELSE expected_datalength + 1
    BY <2>2
  <2>4. v' = v /\ n' = n
    BY <1>2
  <2>5. asked = "blob" <=> n = expected_datalength
    BY <2>2, <2>3
  <2> HIDE DEF n
  <2>6. /\ Room'
        /\ \/ response' = "none" /\ BlobComing(n)'
           \/ /\ response' = IF n = expected_datalength THEN "ran"
                             ELSE "bad_blob"
              /\ Quiet' /\ parser_state' # "DATA"
    <3>1. n \in {expected_datalength, expected_datalength + 1}
      BY <2>3
    <3>2. PICK m \in {expected_datalength, expected_datalength + 1} : m = n
      BY <3>1
    <3>3. BlobComing(m)
      BY <2>1, <3>2
    <3>4. /\ Room'
          /\ \/ response' = "none" /\ BlobComing(m)'
             \/ /\ response' = IF m = expected_datalength THEN "ran"
                               ELSE "bad_blob"
                /\ Quiet' /\ parser_state' # "DATA"
      BY <1>1, <3>3, BlobStep
    <3>5. n' = m
      BY <2>4, <3>2
    <3>6. BlobComing(m)' => BlobComing(n)'
      BY <3>5 DEF BlobComing
    <3> QED BY <3>2, <3>4, <3>6
  <2>7. HostTypeOK'
    BY <1>6, <1>11
  <2>8. CASE response' = "none" /\ BlobComing(n)'
    <3>1. WaitsForBlob'
      BY <1>2, <2>4, <2>8 DEF WaitsForBlob, n
    <3> QED BY <1>2, <1>8, <1>11, <2>6, <2>7, <2>8, <3>1
            DEF HostInv, InStep, Between, WaitsForLine
  <2>9. CASE /\ response' = IF n = expected_datalength THEN "ran"
                            ELSE "bad_blob"
             /\ Quiet' /\ parser_state' # "DATA"
    <3>1. /\ response' # "none" /\ response' # "prompt"
          /\ response' \in Deserved
      BY <1>11, <2>5, <2>9 DEF Deserved
    <3>2. Len(tx') = 1 /\ tx'[1] = response' /\ tx' # <<>>
      BY <1>7, <1>11, <3>1
    <3>3. Answered'
      BY <1>3, <2>9, <3>1, <3>2 DEF Answered
    <3> QED BY <1>2, <1>8, <1>11, <2>6, <2>7, <3>2, <3>3
            DEF HostInv, InStep, Between, WaitsForLine, WaitsForBlob
  <2> QED BY <2>6, <2>8, <2>9
<1> QED BY <1>1, <1>9, <1>10, <1>11 DEF HostTypeOK
-----------------------------------------------------------------------------
(* The steps of the host.                                                  *)

\* What is appended does not change what is skipped before it.
LEMMA SkipsExtended ==
  ASSUME NEW u \in Seq(Input), NEW v \in Seq(Input), NEW s,
         Skips(s, u, Len(u))
  PROVE  Skips(s, u \o v, Len(u))
<1>1. /\ Len(u) \in Nat /\ Len(u \o v) = Len(u) + Len(v)
      /\ \A i \in 1..Len(u) : (u \o v)[i] = u[i]
  OBVIOUS
<1>2. CASE s = "ERR"
  <2>1. PICK j \in 1..Len(u) : /\ u[j] = Newline
                               /\ \A i \in 1..(j - 1) : u[i] # Newline
                               /\ Newlines(u, j + 1, Len(u))
    BY <1>2 DEF Skips
  <2>2. /\ (u \o v)[j] = Newline
        /\ \A i \in 1..(j - 1) : (u \o v)[i] # Newline
        /\ Newlines(u \o v, j + 1, Len(u))
    BY <1>1, <2>1 DEF Newlines
  <2> QED BY <1>2, <2>2 DEF Skips
<1>3. CASE s # "ERR"
  BY <1>1, <1>3 DEF Skips, Newlines
<1> QED BY <1>2, <1>3

\* The parser's part of the invariant does not depend on the host.
LEMMA ParserUnchanged ==
  ASSUME TypeOK, Room, UNCHANGED vars
  PROVE  /\ TypeOK' /\ Room'
         /\ UNCHANGED <<parser_state, linebuffer, datalength,
                        expected_datalength>>
         /\ Received' = Received
         /\ AtRest => AtRest'
BY DEF vars, TypeOK, Room, AtRest, Received, linecounter

\* The symbols of a command line.
LEMMA CommandText ==
  ASSUME NEW l \in Lines, NEW e \in LineEndings
  PROVE  /\ l \o e \in Seq(Input) /\ Append(l, Newline) \in Seq(Input)
         /\ WholeLine(Append(l, Newline))
         /\ LineFrom(Append(l, Newline), l \o e, 0, 0)
<1> DEFINE full == Append(l, Newline)
           text == l \o e
<1>1. /\ l \in Seq(Input) /\ Len(l) \in Nat \ {0}
      /\ \A i \in 1..Len(l) : l[i] # Newline
  <2>1. l \in Seq(Input \ {Newline}) /\ l # <<>>
    BY HostAssumption
  <2>2. Len(l) \in Nat \ {0} /\ \A i \in 1..Len(l) : l[i] \in Input \ {Newline}
    BY <2>1, EmptySeq
  <2>3. l \in Seq(Input)
    BY <2>1, <2>2, SeqDef
  <2> QED BY <2>2, <2>3
<1>2. /\ e \in Seq(Input) /\ Len(e) \in Nat /\ Len(e) >= 1
      /\ \A i \in 1..Len(e) : e[i] = Newline
  <2>1. e = <<Newline>> \/ e = <<Newline, Newline>>
    BY HostAssumption
  <2>2. CASE e = <<Newline>>
    BY <2>2, SymbolAssumption
  <2>3. CASE e = <<Newline, Newline>>
    BY <2>3, SymbolAssumption
  <2> QED BY <2>1, <2>2, <2>3
<1>3. /\ full \in Seq(Input) /\ Len(full) = Len(l) + 1
      /\ full[Len(l) + 1] = Newline
      /\ \A i \in 1..Len(l) : full[i] = l[i]
  BY <1>1, SymbolAssumption
<1>4. /\ text \in Seq(Input) /\ Len(text) = Len(l) + Len(e)
      /\ \A i \in 1..Len(text) :
           text[i] = IF i <= Len(l) THEN l[i] ELSE e[i - Len(l)]
  BY <1>1, <1>2, ConcatProperties
<1>5. /\ Len(l) + 1 # LineLen
      /\ LineOK(full) /\ HasArguments(full) /\ full[1] \in DataCommands
           => ArgValue(LastArg(full)) # 0 \/ ~ArgComplete(LastArg(full))
  BY LineAssumption
<1> HIDE DEF full, text
<1>6. WholeLine(full)
  BY <1>1, <1>3, <1>5 DEF WholeLine
<1>7. \A i \in (Len(l) + 1)..Len(text) : text[i] = Newline
  <2> TAKE i \in (Len(l) + 1)..Len(text)
  <2>1. i \in 1..Len(text) /\ ~(i <= Len(l)) /\ i - Len(l) \in 1..Len(e)
    BY <1>1, <1>2, <1>4
  <2> QED BY <1>2, <1>4, <2>1
<1>8. \A i \in 1..Len(full) : text[i] = full[i]
  <2> TAKE i \in 1..Len(full)
  <2>1. i \in 1..Len(text)
    BY <1>1, <1>2, <1>3, <1>4
  <2>2. CASE i <= Len(l)
    BY <1>1, <1>3, <1>4, <2>1, <2>2
  <2>3. CASE i = Len(l) + 1
    <3>1. i \in (Len(l) + 1)..Len(text)
      BY <1>1, <2>1, <2>3
    <3> QED BY <1>3, <1>7, <2>3, <3>1
  <2> QED BY <1>1, <1>3, <2>2, <2>3
<1>9. LineFrom(full, text, 0, 0)
  <2>1. Len(full) - 0 = Len(full) /\ 0 + Len(full) = Len(full)
        /\ \A i \in 1..Len(full) : 0 + i = i
    BY <1>1, <1>3
  <2>2. Len(full) <= Len(text)
    BY <1>1, <1>2, <1>3, <1>4
  <2>3. Newlines(text, Len(full) + 1, Len(text))
    BY <1>1, <1>3, <1>4, <1>7 DEF Newlines
  <2> QED BY <1>8, <2>1, <2>2, <2>3 DEF LineFrom
<1> QED BY <1>3, <1>4, <1>6, <1>9 DEF full, text

\* A line that follows what is skipped.
LEMMA LineFollows ==
  ASSUME NEW l \in Seq(Input), NEW u \in Seq(Input), NEW v \in Seq(Input),
         LineFrom(l, v, 0, 0)
  PROVE  LineFrom(l, u \o v, Len(u), 0)
<1>1. /\ Len(u \o v) = Len(u) + Len(v)
      /\ \A i \in 1..Len(v) : (u \o v)[Len(u) + i] = v[i]
      /\ Len(u) \in Nat /\ Len(v) \in Nat /\ Len(l) \in Nat
  BY ConcatProperties
<1>2. Len(l) <= Len(v) /\ \A i \in 1..Len(l) : v[i] = l[i]
  BY <1>1 DEF LineFrom
<1>3. \A i \in (Len(l) + 1)..Len(v) : v[i] = Newline
  BY <1>1 DEF LineFrom, Newlines
<1>4. \A i \in 1..Len(l) : (u \o v)[Len(u) + i] = l[i]
  BY <1>1, <1>2
<1>5. ASSUME NEW i \in (Len(u) + Len(l) + 1)..Len(u \o v)
      PROVE  (u \o v)[i] = Newline
  <2>1. i - Len(u) \in (Len(l) + 1)..Len(v) /\ i - Len(u) \in 1..Len(v)
        /\ Len(u) + (i - Len(u)) = i
    BY <1>1
  <2> QED BY <1>1, <1>3, <2>1
<1>6. Len(l) - 0 = Len(l) /\ \A i \in 1..Len(l) : 0 + i = i
  BY <1>1
<1> QED BY <1>1, <1>2, <1>4, <1>5, <1>6 DEF LineFrom, Newlines

\* A new command finds the firmware at rest.
LEMMA CommandInStep ==
  ASSUME HostInv, HostCommand
  PROVE  HostInv'
<1>1. PICK l \in Lines, e \in LineEndings :
        line' = Append(l, Newline) /\ todo' = l \o e
  BY DEF HostCommand
<1>2. /\ asked = "none" /\ todo = <<>> /\ asked' = "line"
      /\ rx' = rx /\ tx' = tx /\ UNCHANGED vars
  BY DEF HostCommand, Idle
<1>3. HostTypeOK /\ TypeOK /\ Room /\ InStep /\ rx \in Seq(Input)
  BY DEF HostInv, HostTypeOK
<1>4. Quiet /\ tx = <<>> /\ parser_state # "DATA"
  BY <1>2, <1>3 DEF InStep, Between
<1>5. /\ TypeOK' /\ Room' /\ parser_state' = parser_state
      /\ Received' = Received
  BY <1>2, <1>3, ParserUnchanged
<1>6. /\ todo' \in Seq(Input) /\ line' \in Seq(Input)
      /\ WholeLine(line') /\ LineFrom(line', todo', 0, 0)
  BY <1>1, CommandText
<1>7. Pending = rx /\ Pending' = rx \o todo'
  BY <1>2, <1>3 DEF Pending
<1>8. Len(rx) \in 0..Len(Pending')
  BY <1>3, <1>6, <1>7, ConcatProperties
<1>9. Skips(parser_state', Pending', Len(rx))
  BY <1>3, <1>4, <1>5, <1>6, <1>7, SkipsExtended DEF Quiet
<1>10. Received' = <<>> /\ Len(<<>>) = 0
  BY <1>4, <1>5 DEF Quiet, AtRest, Received
<1>11. LineFrom(line', Pending', Len(rx), 0)
  BY <1>3, <1>6, <1>7, LineFollows
<1>12. Len(line') > 0
  BY <1>6 DEF WholeLine
<1>13. LineComing'
  BY <1>4, <1>5, <1>8, <1>9, <1>10, <1>11, <1>12 DEF LineComing
<1>14. HostTypeOK'
  BY <1>2, <1>3, <1>5, <1>6 DEF HostTypeOK
<1>15. WholeLine(line)'
  BY <1>6 DEF WholeLine
<1> QED BY <1>2, <1>4, <1>5, <1>13, <1>14, <1>15
        DEF HostInv, InStep, Between, WaitsForLine, WaitsForBlob

\* Nothing of the state but the place of a symbol changes.
LEMMA SendInStep ==
  ASSUME HostInv, HostSend
  PROVE  HostInv'
<1>1. HostTypeOK /\ TypeOK /\ Room /\ InStep
  BY DEF HostInv, HostTypeOK
<1>2. /\ todo # <<>> /\ Len(rx) < RxSize
      /\ rx' = Append(rx, Head(todo)) /\ todo' = Tail(todo)
      /\ UNCHANGED <<vars, line, asked, tx>>
  BY DEF HostSend
<1>3. rx \in Seq(Input) /\ todo \in Seq(Input)
  BY <1>1 DEF HostTypeOK
<1>4. Pending' = Pending
  BY <1>3, SendKeepsPending
<1>5. /\ TypeOK' /\ Room'
      /\ UNCHANGED <<parser_state, linebuffer, datalength,
                     expected_datalength>>
      /\ Received' = Received
      /\ AtRest => AtRest'
  BY <1>1, <1>2, ParserUnchanged
<1>6. /\ rx' \in Seq(Input) /\ Len(rx') <= RxSize /\ todo' \in Seq(Input)
  <2>1. Head(todo) \in Input /\ Tail(todo) \in Seq(Input)
    BY <1>2, <1>3, TailOf
  <2>2. Len(rx') = Len(rx) + 1 /\ Len(rx) \in Nat
    BY <1>2, <1>3, <2>1
  <2> QED BY <1>2, <1>3, <2>1, <2>2, HostAssumption
<1>7. HostTypeOK'
  BY <1>1, <1>2, <1>5, <1>6 DEF HostTypeOK
<1>8. asked # "none"
  BY <1>1, <1>2 DEF InStep, Between
<1>9. Quiet => Quiet'
  BY <1>4, <1>5 DEF Quiet
<1>10. LineComing => LineComing'
  BY <1>2, <1>4, <1>5 DEF LineComing
<1>11. BlobOpen => BlobOpen'
  BY <1>2, <1>5 DEF BlobOpen
<1>12. ASSUME NEW n PROVE BlobComing(n) => BlobComing(n)'
  BY <1>4, <1>5, <1>11 DEF BlobComing
<1>13. Deserved' = Deserved
  BY <1>2, SameDeserved
<1>14. Answered => Answered'
  BY <1>2, <1>5, <1>9, <1>11, <1>13 DEF Answered
<1>15. WholeLine(line) => WholeLine(line)'
  BY <1>2
<1>16. WaitsForBlob'
  BY <1>1, <1>2, <1>4, <1>5, <1>11 DEF InStep, WaitsForBlob, BlobComing
<1> QED BY <1>1, <1>2, <1>5, <1>7, <1>8, <1>10, <1>14, <1>15, <1>16
        DEF HostInv, InStep, Between, WaitsForLine

\* n bytes and a newline, after newlines.
LEMMA BlobFollows ==
  ASSUME NEW u \in Seq(Input), Newlines(u, 1, Len(u)), NEW n \in Nat,
         NEW v, v = Append([i \in 1..n |-> Byte], Newline)
  PROVE  v \in Seq(Input) /\ BlobFrom(u \o v, Len(u), n)
<1> DEFINE b == [i \in 1..n |-> Byte]
<1>1. b \in Seq(Input) /\ Len(b) = n /\ \A i \in 1..n : b[i] = Byte
  BY HostAssumption, SeqDef
<1> HIDE DEF b
<1>2. /\ v \in Seq(Input) /\ Len(v) = n + 1 /\ v[n + 1] = Newline
      /\ \A i \in 1..n : v[i] = Byte
  BY <1>1, SymbolAssumption DEF b
<1>3. /\ Len(u \o v) = Len(u) + (n + 1) /\ Len(u) \in Nat
      /\ \A i \in 1..(Len(u) + (n + 1)) :
           (u \o v)[i] = IF i <= Len(u) THEN u[i] ELSE v[i - Len(u)]
  <2>1. /\ Len(u \o v) = Len(u) + Len(v)
        /\ \A i \in 1..(Len(u) + Len(v)) :
             (u \o v)[i] = IF i <= Len(u) THEN u[i] ELSE v[i - Len(u)]
    BY <1>2, ConcatProperties
  <2> QED BY <1>2, <2>1
<1>4. Newlines(u \o v, 1, Len(u))
  BY <1>3 DEF Newlines
<1>5. ASSUME NEW i \in (Len(u) + 1)..(Len(u) + n)
      PROVE  (u \o v)[i] = Byte
  <2>1. i - Len(u) \in 1..n /\ ~(i <= Len(u))
        /\ i \in 1..(Len(u) + (n + 1))
    BY <1>3
  <2> QED BY <1>2, <1>3, <2>1
<1>6. (u \o v)[Len(u) + n + 1] = Newline
  <2>1. Len(u) + n + 1 \in 1..(Len(u) + (n + 1)) /\ ~(Len(u) + n + 1 <= Len(u))
        /\ (Len(u) + n + 1) - Len(u) = n + 1
    BY <1>3
  <2> QED BY <1>2, <1>3, <2>1
<1>7. Len(u \o v) = Len(u) + n + 1
  BY <1>3
<1> QED BY <1>2, <1>4, <1>5, <1>6, <1>7 DEF BlobFrom

\* The blob is sent to a parser that waits for it.
LEMMA BlobInStep ==
  ASSUME HostInv, HostBlob
  PROVE  HostInv'
<1> DEFINE n == ArgValue(LastArg(line))
           bytes(k) == [i \in 1..k |-> Byte]
<1>1. HostTypeOK /\ TypeOK /\ Room /\ InStep /\ rx \in Seq(Input)
      /\ tx \in Seq(Responses)
  BY DEF HostInv, HostTypeOK
<1>2. /\ tx # <<>> /\ Head(tx) = "prompt" /\ asked = "line" /\ todo = <<>>
      /\ tx' = Tail(tx)
      /\ UNCHANGED <<vars, line, rx>>
      /\ \/ asked' = "blob" /\ todo' = Append(bytes(n), Newline)
         \/ asked' = "surplus" /\ todo' = Append(bytes(n + 1), Newline)
  BY DEF HostBlob
<1>3. Answered /\ WholeLine(line)
  BY <1>1, <1>2 DEF InStep
<1>4. Len(tx) = 1 /\ tx[1] = "prompt" /\ Quiet /\ BlobOpen
  BY <1>1, <1>2, <1>3 DEF Answered
<1>5. tx' = <<>>
  BY <1>1, <1>2, <1>4
<1>6. /\ TypeOK' /\ Room'
      /\ UNCHANGED <<parser_state, linebuffer, datalength,
                     expected_datalength>>
  BY <1>1, <1>2, ParserUnchanged
<1>7. /\ parser_state = "DATA" /\ datalength = 0
      /\ Newlines(rx, 1, Len(rx))
  <2>1. Pending = rx
    BY <1>1, <1>2 DEF Pending
  <2> QED BY <1>4, <2>1 DEF Quiet, AtRest, BlobOpen, Skips
<1>8. n \in Nat /\ n = expected_datalength /\ n + 1 \in Nat
  BY <1>1, <1>4 DEF BlobOpen, TypeOK
<1>9. BlobOpen'
  BY <1>2, <1>4, <1>6 DEF BlobOpen
<1>10. Pending' = rx \o todo'
  BY <1>2 DEF Pending
<1>11. ASSUME NEW m \in Nat, todo' = Append(bytes(m), Newline)
       PROVE  todo' \in Seq(Input) /\ BlobComing(m)'
  <2>1. todo' \in Seq(Input) /\ BlobFrom(Pending', Len(rx), m)
    BY <1>1, <1>7, <1>10, <1>11, BlobFollows
  <2>2. m - datalength' = m /\ Len(rx) \in 0..Len(Pending')
    BY <1>1, <1>6, <1>7, <2>1 DEF BlobFrom
  <2>3. datalength' <= expected_datalength' /\ ~(datalength' > 0)
    BY <1>6, <1>7, <1>8
  <2> QED BY <1>9, <2>1, <2>2, <2>3 DEF BlobComing
<1>12. n' = n
  BY <1>2
<1> HIDE DEF n
<1>13. /\ todo' \in Seq(Input)
       /\ asked' = "blob" => BlobComing(n)'
       /\ asked' = "surplus" => BlobComing(n + 1)'
  <2>1. PICK m \in Nat : m = n
    BY <1>8
  <2>2. CASE asked' = "blob" /\ todo' = Append(bytes(n), Newline)
    <3>1. todo' \in Seq(Input) /\ BlobComing(m)'
      BY <1>11, <2>1, <2>2
    <3>2. BlobComing(n)'
      BY <1>12, <2>1, <3>1 DEF BlobComing
    <3> QED BY <2>2, <3>1, <3>2
  <2>3. CASE asked' = "surplus" /\ todo' = Append(bytes(n + 1), Newline)
    <3>1. todo' \in Seq(Input) /\ BlobComing(m + 1)'
      BY <1>11, <2>1, <2>3
    <3>2. BlobComing(n + 1)'
      BY <1>12, <2>1, <3>1 DEF BlobComing
    <3> QED BY <2>3, <3>1, <3>2
  <2> QED BY <1>2, <2>2, <2>3
<1>14. HostTypeOK'
  BY <1>1, <1>2, <1>5, <1>6, <1>13, EmptySeq DEF HostTypeOK
<1>15. WholeLine(line)'
  BY <1>2, <1>3
<1>16. WaitsForBlob'
  BY <1>13 DEF WaitsForBlob, n
<1> QED BY <1>2, <1>5, <1>6, <1>14, <1>15, <1>16
        DEF HostInv, InStep, Between, WaitsForLine

\* The host has its answer, and what is still on its way is skipped.
LEMMA DoneInStep ==
  ASSUME HostInv, HostDone
  PROVE  HostInv'
<1>1. HostTypeOK /\ TypeOK /\ Room /\ InStep /\ tx \in Seq(Responses)
  BY DEF HostInv, HostTypeOK
<1>2. /\ tx # <<>> /\ asked # "none" /\ todo = <<>>
      /\ ~(asked = "line" /\ Head(tx) = "prompt")
      /\ tx' = Tail(tx) /\ asked' = "none" /\ line' = <<>>
      /\ UNCHANGED <<vars, todo, rx>>
  BY DEF HostDone
<1>3. Answered
  BY <1>1, <1>2 DEF InStep
<1>4. tx' = <<>> /\ Head(tx) = tx[1]
  BY <1>1, <1>2, <1>3 DEF Answered
<1>5. tx[1] # "prompt"
  BY <1>1, <1>2, <1>3, <1>4 DEF Answered, Deserved, HostTypeOK
<1>6. /\ TypeOK' /\ Room' /\ parser_state' = parser_state
      /\ AtRest => AtRest'
  BY <1>1, <1>2, ParserUnchanged
<1>7. Quiet' /\ parser_state' # "DATA"
  <2>1. Pending' = Pending
    BY <1>2 DEF Pending
  <2> QED BY <1>3, <1>5, <1>6, <2>1 DEF Answered, Quiet
<1>8. HostTypeOK'
  BY <1>1, <1>2, <1>4, <1>6, EmptySeq DEF HostTypeOK
<1> QED BY <1>2, <1>4, <1>6, <1>7, <1>8
        DEF HostInv, InStep, Between, WaitsForLine, WaitsForBlob
-----------------------------------------------------------------------------
\* Nothing is on its way at first.
LEMMA HostInitInStep == HostInit => HostInv
<1> SUFFICES ASSUME HostInit PROVE HostInv
  OBVIOUS
<1>1. /\ Init /\ line = <<>> /\ asked = "none" /\ todo = <<>>
      /\ rx = <<>> /\ tx = <<>>
  BY DEF HostInit
<1>2. /\ TypeOK /\ Room /\ AtRest /\ parser_state = "READY"
  BY <1>1, InitTypeOK DEF Init, Room, AtRest
<1>3. HostTypeOK
  BY <1>1, <1>2, HostAssumption, EmptySeq DEF HostTypeOK
<1>4. Pending = <<>> /\ Len(Pending) = 0
  BY <1>1 DEF Pending
<1>5. Quiet
  BY <1>2, <1>4 DEF Quiet, Skips, Newlines
<1> QED BY <1>1, <1>2, <1>3, <1>5
        DEF HostInv, InStep, Between, WaitsForLine, WaitsForBlob

\* Every step keeps host and firmware in step.
LEMMA HostStep ==
  ASSUME HostInv, [HostNext]_allvars
  PROVE  HostInv'
<1>1. CASE Firmware
  BY <1>1, FirmwareInStep
<1>2. CASE HostCommand
  BY <1>2, CommandInStep
<1>3. CASE HostSend
  BY <1>3, SendInStep
<1>4. CASE HostBlob
  BY <1>4, BlobInStep
<1>5. CASE HostDone
  BY <1>5, DoneInStep
<1>6. CASE UNCHANGED allvars
  <2>1. UNCHANGED vars /\ UNCHANGED <<line, asked, todo, rx, tx>>
    BY <1>6 DEF allvars, hostvars
  <2>2. HostTypeOK /\ TypeOK /\ Room /\ InStep
    BY DEF HostInv, HostTypeOK
  <2>3. /\ TypeOK' /\ Room'
        /\ UNCHANGED <<parser_state, linebuffer, datalength,
                       expected_datalength>>
        /\ Received' = Received
        /\ AtRest => AtRest'
    BY <2>1, <2>2, ParserUnchanged
  <2>4. HostTypeOK'
    BY <2>1, <2>2, <2>3 DEF HostTypeOK
  <2>5. Pending' = Pending
    BY <2>1 DEF Pending
  <2>6. Quiet => Quiet'
    BY <2>3, <2>5 DEF Quiet
  <2>7. LineComing => LineComing'
    BY <2>1, <2>3, <2>5 DEF LineComing
  <2>8. WaitsForBlob'
    BY <2>1, <2>2, <2>3, <2>5 DEF InStep, WaitsForBlob, BlobComing, BlobOpen
  <2>9. Deserved' = Deserved
    BY <2>1, SameDeserved
  <2>10. Answered => Answered'
    BY <2>1, <2>3, <2>6, <2>9 DEF Answered, BlobOpen
  <2> QED BY <2>1, <2>2, <2>3, <2>4, <2>6, <2>7, <2>8, <2>10
          DEF HostInv, InStep, Between, WaitsForLine
<1> QED BY <1>1, <1>2, <1>3, <1>4, <1>5, <1>6 DEF HostNext, Host

\* The inductive invariant holds.
THEOREM HostInvHolds == HostSpec => []HostInv
BY HostInitInStep, HostStep, PTL DEF HostSpec

\* The types of the session: neither direction of the serial line holds more
\* than it can, and never more than one answer is on its way.
THEOREM HostTypeCorrect == HostSpec => []HostTypeOK
<1>1. HostInv => HostTypeOK
  BY DEF HostInv
<1> QED BY <1>1, HostInvHolds, PTL

\* Every answer that the host reads is the answer to what it sent last.
THEOREM EveryAnswerMatches == HostSpec => []AnswersMatch
<1>1. HostInv => AnswersMatch
  <2> SUFFICES ASSUME HostInv, NEW i \in 1..Len(tx)
               PROVE  tx[i] \in Deserved
    BY DEF AnswersMatch
  <2>1. HostTypeOK /\ InStep
    BY DEF HostInv
  <2>2. tx \in Seq(Responses) /\ Len(tx) = 1 /\ i = 1 /\ tx # <<>>
    <3>1. tx \in Seq(Responses) /\ Len(tx) \in Nat
      BY <2>1 DEF HostTypeOK
    <3>2. Len(tx) <= 1
      BY <2>1 DEF HostTypeOK
    <3>3. ASSUME NEW n \in Nat, n <= 1, NEW m \in 1..n
          PROVE  n = 1 /\ m = 1
      BY <3>3
    <3>4. Len(tx) = 1 /\ i = 1
      BY ONLY <3>1, <3>2, <3>3, i \in 1..Len(tx)
    <3> QED BY <3>1, <3>4, EmptySeq
  <2>3. Answered
    BY <2>1, <2>2 DEF InStep, Between
  <2> QED BY <2>2, <2>3 DEF Answered
<1> QED BY <1>1, HostInvHolds, PTL

\* The firmware does not wait for the host while the host waits for it: a
\* text that has been read to its end has been answered.
THEOREM NoAnswerIsLost == HostSpec => []AnswerNotLost
<1>1. HostInv => AnswerNotLost
  <2> SUFFICES ASSUME HostInv, asked # "none", todo = <<>>, rx = <<>>,
                      tx = <<>>
               PROVE  FALSE
    BY DEF AnswerNotLost
  <2>1. HostTypeOK /\ TypeOK /\ InStep
    BY DEF HostInv, HostTypeOK
  <2>2. Len(Pending) = 0
    BY DEF Pending
  <2>3. CASE asked = "line"
    <3>1. LineComing
      BY <2>1, <2>3 DEF InStep, WaitsForLine
    <3>2. PICK k \in 0..Len(Pending) :
            LineFrom(line, Pending, k, Len(Received))
      BY <3>1 DEF LineComing
    <3>3. k = 0 /\ k + (Len(line) - Len(Received)) <= 0
      BY <2>2, <3>2 DEF LineFrom
    <3>4. Len(Received) \in Nat /\ Len(line) \in Nat
      BY <2>1, EmptySeq DEF Received, TypeOK, HostTypeOK
    <3> QED BY <3>1, <3>3, <3>4 DEF LineComing
  <2>4. ASSUME NEW n \in Nat, BlobComing(n), n >= expected_datalength
        PROVE  FALSE
    <3>1. datalength \in Nat /\ expected_datalength \in Nat
          /\ datalength <= expected_datalength
      BY <2>1, <2>4 DEF TypeOK, BlobComing
    <3>2. PICK k \in 0..Len(Pending) :
            Len(Pending) = k + (n - datalength) + 1
      BY <2>4 DEF BlobComing, BlobFrom
    <3> QED BY <2>2, <2>4, <3>1, <3>2
  <2>5. CASE asked = "blob" \/ asked = "surplus"
    <3> DEFINE v == ArgValue(LastArg(line))
    <3>1. BlobComing(v) \/ BlobComing(v + 1)
      BY <2>1, <2>5 DEF InStep, WaitsForBlob
    <3>2. v \in Nat /\ v = expected_datalength
      BY <2>1, <3>1 DEF BlobComing, BlobOpen, TypeOK
    <3> HIDE DEF v
    <3>3. v + 1 \in Nat /\ v + 1 >= expected_datalength
          /\ v >= expected_datalength
      BY <3>2
    <3> QED BY <2>4, <3>1, <3>2, <3>3
  <2> QED BY <2>1, <2>3, <2>5 DEF HostTypeOK
<1> QED BY <1>1, HostInvHolds, PTL

\* What is proved about the parser holds when a host drives it: only symbols
\* of Input reach mc_parser(), so that a blob in progress is safe and the
\* parser implements the session of CommandSession.
THEOREM HostedParser ==
  HostSpec => Spec /\ []OpenBlobSafe /\ ImplementsSession
<1>1. HostInit => Init
  BY DEF HostInit
<1>2. HostInv /\ [HostNext]_allvars => [Next]_vars
  <2> SUFFICES ASSUME HostInv, [HostNext]_allvars
               PROVE  Next \/ UNCHANGED vars
    OBVIOUS
  <2>1. CASE Firmware
    <3>1. mc_parser(Pending[1]) /\ Pending[1] \in Input
      BY <2>1, FirmwareReads DEF HostInv
    <3> QED BY <3>1 DEF Next
  <2>2. CASE ~Firmware
    BY <2>2
    DEF HostNext, Host, HostCommand, HostSend, HostBlob, HostDone, allvars
  <2> QED BY <2>1, <2>2
<1>3. HostSpec => Spec
  BY <1>1, <1>2, HostInvHolds, PTL DEF HostSpec, Spec
<1> QED BY <1>3, OpenBlobIsSafe, ParserImplementsSession
-----------------------------------------------------------------------------
(* Towards EveryExchangeEnds.                                              *)

\* What is left of an exchange: the prompt and its blob, then the answer.
Rank == CASE asked = "none" -> 0
          [] asked \in {"blob", "surplus"} -> 1
          [] asked = "line" -> 2

\* The transfers that are left: each symbol is sent, and then it is read.
Work == 2 * Len(todo) + Len(rx)

\* The exchange comes closer to its end.
Closer == \/ Rank' < Rank
          \/ Rank' = Rank /\ Work' < Work

\* What is left is a pair of natural numbers.
LEMMA LeftType == HostInv => Rank \in 0..2 /\ Work \in Nat
<1> SUFFICES ASSUME HostInv PROVE Rank \in 0..2 /\ Work \in Nat
  OBVIOUS
<1>1. Rank \in 0..2
  BY DEF HostInv, HostTypeOK, Rank
<1>2. Len(todo) \in Nat /\ Len(rx) \in Nat
  BY DEF HostInv, HostTypeOK
<1> QED BY <1>1, <1>2 DEF Work

\* Every step of the host and of the firmware brings the exchange closer to its
\* end, in the lexicographic order of two natural numbers of which the first
\* is at most 2: only a new command starts another one.  There is no loop of
\* prompts and blobs, and nothing is sent or answered twice.
THEOREM ExchangeComesCloser ==
  HostSpec => /\ [](Rank \in 0..2 /\ Work \in Nat)
              /\ [][HostCommand \/ Closer]_allvars
<1>1. HostInv /\ [HostNext]_allvars => [HostCommand \/ Closer]_allvars
  <2> SUFFICES ASSUME HostInv, HostNext, ~HostCommand
               PROVE  Closer
    OBVIOUS
  <2>1. rx \in Seq(Input) /\ todo \in Seq(Input)
    BY DEF HostInv, HostTypeOK
  <2>2. CASE HostSend
    <3>1. Len(todo') = Len(todo) - 1 /\ Len(rx') = Len(rx) + 1
          /\ Len(todo) \in Nat \ {0} /\ Len(rx) \in Nat
      BY <2>1, <2>2, EmptySeq DEF HostSend
    <3>2. Rank' = Rank
      BY <2>2 DEF HostSend, Rank
    <3> QED BY <3>1, <3>2 DEF Closer, Work
  <2>3. CASE Firmware
    <3>1. Len(rx') = Len(rx) - 1 /\ todo' = todo
          /\ Len(todo) \in Nat /\ Len(rx) \in Nat \ {0}
      BY <2>1, <2>3, EmptySeq DEF Firmware
    <3>2. Rank' = Rank
      BY <2>3 DEF Firmware, Rank
    <3> QED BY <3>1, <3>2 DEF Closer, Work
  <2>4. CASE HostBlob
    BY <2>4 DEF HostBlob, Rank, Closer
  <2>5. CASE HostDone
    <3>1. asked \in {"line", "blob", "surplus"} /\ asked' = "none"
      BY <2>5 DEF HostDone, HostInv, HostTypeOK
    <3> QED BY <3>1 DEF Rank, Closer
  <2> QED BY <2>2, <2>3, <2>4, <2>5 DEF HostNext, Host
<1> QED BY <1>1, LeftType, HostInvHolds, PTL DEF HostSpec

\* Until its end an exchange is never stuck: there is a symbol for the firmware,
\* or the host may send one, or it has the answer and nothing left to send.
THEOREM ExchangeIsNeverStuck ==
  HostSpec => [](asked # "none" => \/ rx # <<>>
                                   \/ todo # <<>> /\ Len(rx) < RxSize
                                   \/ tx # <<>> /\ todo = <<>>)
<1>1. HostInv /\ AnswerNotLost =>
        (asked # "none" => \/ rx # <<>>
                           \/ todo # <<>> /\ Len(rx) < RxSize
                           \/ tx # <<>> /\ todo = <<>>)
  <2> SUFFICES ASSUME AnswerNotLost, asked # "none", rx = <<>>
               PROVE  \/ todo # <<>> /\ Len(rx) < RxSize
                      \/ tx # <<>> /\ todo = <<>>
    OBVIOUS
  <2>1. Len(rx) < RxSize
    BY HostAssumption
  <2> QED BY <2>1 DEF AnswerNotLost
<1> QED BY <1>1, HostInvHolds, NoAnswerIsLost, PTL
=============================================================================
