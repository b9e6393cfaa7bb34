---------------------------- MODULE HostSession -----------------------------
(***************************************************************************)
(* A host that talks to the firmware in stop-and-wait fashion, as          *)
(* iotprovision does: it sends one command line, waits for its answer,     *)
(* sends the blob if it was prompted for one and waits again.  The main    *)
(* loop of main.c takes one symbol after the other from the USART and      *)
(* hands it to mc_parser(); both directions of the serial line are FIFOs.  *)
(* The receiving one holds at most RxSize symbols: the host is assumed     *)
(* not to outrun the firmware by more (UsartRx shows that the surplus is   *)
(* dropped when it does).                                                  *)
(***************************************************************************)
EXTENDS McParser

CONSTANTS
  Lines,       \* the command lines the host may send, without their ending
  LineEndings, \* what it ends a line with: <<Newline>> or <<Newline, Newline>>
  Byte,        \* a byte of a blob
  RxSize

ASSUME HostAssumption ==
  /\ Byte \in Input \ {Newline}
  /\ RxSize \in Nat \ {0}
  /\ \A l \in Lines : l \in Seq(Input \ {Newline}) /\ l # <<>>
  /\ LineEndings \subseteq {<<Newline>>, <<Newline, Newline>>}

\* What the firmware needs of the host to stay in step with it.  A line that
\* fills the line buffer exactly is answered when it ends, but linecounter is
\* cleared only in the next STATE_RESET step, which the overrun check of the
\* following symbol comes before.  A blob of length 0 can never be ended:
\* without a first byte every newline is skipped.
ASSUME LineAssumption ==
  \A l \in Lines :
    /\ Len(l) + 1 # LineLen
    /\ LET full == Append(l, Newline)
       IN  LineOK(full) /\ HasArguments(full) /\ full[1] \in DataCommands
             => ArgValue(LastArg(full)) # 0 \/ ~ArgComplete(LastArg(full))

VARIABLES
  line,    \* the command line of this exchange
  asked,   \* "line", "blob" or "surplus": what the next answer is about
  todo,    \* the symbols the host has still to send
  rx,      \* host to firmware
  tx       \* firmware to host

hostvars == <<line, asked, todo, rx, tx>>
allvars == <<vars, hostvars>>

HostInit == Init /\ line = <<>> /\ asked = "none" /\ todo = <<>>
                 /\ rx = <<>> /\ tx = <<>>

Idle == asked = "none" /\ todo = <<>>

HostCommand ==
  /\ Idle
  /\ \E l \in Lines, e \in LineEndings :
       /\ line' = Append(l, Newline)
       /\ todo' = l \o e
  /\ asked' = "line"
  /\ UNCHANGED <<vars, rx, tx>>

HostSend ==
  /\ todo # <<>> /\ Len(rx) < RxSize
  /\ rx' = Append(rx, Head(todo))
  /\ todo' = Tail(todo)
  /\ UNCHANGED <<vars, line, asked, tx>>

\* Main loop: mc_parser(uart[cdc].Read()).
Firmware ==
  /\ rx # <<>>
  /\ mc_parser(Head(rx))
  /\ rx' = Tail(rx)
  /\ tx' = IF response' = "none" THEN tx ELSE Append(tx, response')
  /\ UNCHANGED <<line, asked, todo>>

\* The length the host asked for on the command line; the blob it sends when
\* prompted has that length, or is too long by one byte.
HostBlob ==
  /\ tx # <<>> /\ Head(tx) = "prompt" /\ asked = "line" /\ todo = <<>>
  /\ LET n == ArgValue(LastArg(line))
         bytes(k) == [i \in 1..k |-> Byte]
     IN  \/ asked' = "blob" /\ todo' = Append(bytes(n), Newline)
         \/ asked' = "surplus" /\ todo' = Append(bytes(n + 1), Newline)
  /\ tx' = Tail(tx)
  /\ UNCHANGED <<vars, line, rx>>

HostDone ==
  /\ tx # <<>> /\ asked # "none" /\ todo = <<>>
  /\ ~(asked = "line" /\ Head(tx) = "prompt")
  /\ tx' = Tail(tx)
  /\ asked' = "none"
  /\ line' = <<>>
  /\ UNCHANGED <<vars, todo, rx>>

Host == HostCommand \/ HostSend \/ HostBlob \/ HostDone

HostNext == Host \/ Firmware

HostSpec == HostInit /\ [][HostNext]_allvars

\* The firmware does nothing else than its main loop, and a handler always
\* returns (main.c:60-64); the host answers a prompt and finishes what it
\* started, but need not start anything.
Fairness == /\ WF_allvars(Firmware)
            /\ WF_allvars(HostSend \/ HostBlob \/ HostDone)

FairHostSpec == HostSpec /\ Fairness
-----------------------------------------------------------------------------
HostTypeOK ==
  /\ TypeOK
  /\ asked \in {"none", "line", "blob", "surplus"}
  /\ line \in Seq(Input) /\ todo \in Seq(Input)
  /\ rx \in Seq(Input) /\ Len(rx) <= RxSize
  /\ tx \in Seq(Responses) /\ Len(tx) <= 1

\* The answer that the line or the blob deserves, from its text alone.
Deserved ==
  CASE asked = "blob"    -> {"ran"}
    [] asked = "surplus" -> {"bad_blob"}
    [] asked = "line" ->
         IF Len(line) > LineLen THEN {"overrun"}
         ELSE IF ~LineOK(line) THEN {"bad_command"}
         ELSE IF line[1] \notin DataCommands THEN {"ran"}
         ELSE IF ~HasArguments(line) THEN {"bad_command"}
         ELSE IF /\ ArgComplete(LastArg(line))
                 /\ ArgValue(LastArg(line)) <= DataLen
                THEN {"prompt"} ELSE {"bad_blob"}
    [] asked = "none" -> {}

\* Every answer the host reads is the answer to what it sent last, and there
\* is never more than one: host and firmware stay in step, with either line
\* ending, after malformed lines, lines that are too long and blobs that are
\* too long.
AnswersMatch == \A i \in 1..Len(tx) : tx[i] \in Deserved

\* The firmware never waits for the host while the host waits for it.
AnswerNotLost ==
  asked # "none" /\ todo = <<>> /\ rx = <<>> => tx # <<>>

\* Whatever the host sends is answered, and the host can go on.
EveryExchangeEnds == asked # "none" ~> asked = "none"
=============================================================================
