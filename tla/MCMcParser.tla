----------------------------- MODULE MCMcParser -----------------------------
(* Instance of McParser for TLC.                                          *)
EXTENDS McParser, Integers

\* With DataLen = 2 and WordSize = 8: "n2" is accepted, "n3" is too long, and
\* "n10" is accepted because it is truncated to 2.
MCNumeralValue == [n \in {"n2", "n3", "n10"} |->
                     CASE n = "n2" -> 2 [] n = "n3" -> 3 [] n = "n10" -> 10]

\* Bounds: lines of five to seven symbols, which test the end of the line buffer
\* and the count of the arguments, start with the blob command and have only one
\* kind of numeral; blobs are made of newlines, commas and commands.
LongLine(line) ==
  /\ line[1] = "blobcmd"
  /\ \A i \in DOMAIN line : line[i] \in {"nl", "eq", "comma", "blobcmd", "n2"}
Bounded ==
  /\ Len(linebuffer) <= 4 \/ LongLine(linebuffer)
  /\ \A i \in DOMAIN databuffer : databuffer[i] \in {"nl", "comma", "blobcmd"}
-----------------------------------------------------------------------------
(* The commands that are about the command handler and the board.          *)
House == INSTANCE Housekeeping

\* The table is searched by whole names: no command hides another one.
ASSUME CommandsDiffer ==
  LET names == House!mc_command_set
  IN  \A i, j \in DOMAIN names : i # j => names[i].name # names[j].name

\* 'Mc+P' and control characters against 'MC+P'.
ASSUME NamesMatchInEitherCase ==
  /\ House!mc_match_string(<<77, 67, 43, 80>>, <<77, 99, 43, 80>>)
  /\ ~House!mc_match_string(<<77, 67>>, <<77, 67, 43>>)
  /\ ~House!mc_match_string(<<77, 67, 43>>, <<77, 67>>)
  /\ \A c \in 0..255 :
       LET n == House!mc_normalize_char(c)
       IN  /\ House!mc_normalize_char(n) = n
           /\ n \notin 97..122 \cup 128..255

\* A failure of a module is never reported as success, and one can tell which
\* module failed and how.
ASSUME FailuresAreReported ==
  \A source, other \in 0..2 : \A status \in (-128..127) \ {0} :
    /\ House!TO_MC_STATUS(source, status) # House!OK
    /\ \A st \in {-128, -1, 1, 127} :
         House!TO_MC_STATUS(source, status) = House!TO_MC_STATUS(other, st)
           => source = other /\ status = st

\* Whatever LEDs were switched before, an LED reads as it was last set, and all
\* of them as on where one of them is.
MCLed == {"ERROR", "WIFI", "ALL"}
MCSwitch == MCLed \X {"ON", "OFF", "DIM"}
Port(switches) ==
  LET out[n \in 0..Len(switches)] ==
        IF n = 0 THEN House!mc_board_init
        ELSE House!mc_set_led(out[n - 1], switches[n]).out
  IN  out[Len(switches)]
LastSet(switches, led) ==
  LET about == {i \in DOMAIN switches :
                  switches[i][1] \in {led, "ALL"} /\ switches[i][2] # "DIM"}
  IN  IF about = {} THEN "OFF"
      ELSE switches[CHOOSE i \in about : \A j \in about : j <= i][2]
ASSUME LedsReadAsLastSet ==
  \A switches \in UNION {[1..n -> MCSwitch] : n \in 0..3} :
    /\ \A led \in {"ERROR", "DATA", "CONN", "WIFI"} :
         House!mc_get_led(Port(switches), <<led>>) = LastSet(switches, led)
    /\ House!mc_get_led(Port(switches), <<"ALL">>) = "ON"
         <=> \E led \in {"ERROR", "DATA", "CONN", "WIFI"} :
               LastSet(switches, led) = "ON"

\* All of an answer is in its buffer; of the versions of the WINC only where
\* their six numbers have no more than twelve digits, as two digits each do.
\* Longer ones are answered with what lies behind them in the buffer.
MCNumbers == [1..6 -> {7, 99, 100}]
ASSUME AnswersAreWhole ==
  /\ \A args \in {<<>>, <<"FIRMWARE">>, <<"OTHER">>} :
       LET answer == House!mc_get_version(args, <<0, 0, 0, 0, 0, 0>>, House!OK)
       IN  answer.length = answer.written
  /\ House!mc_ping(<<"TOKEN">>).written = Len("MC+PONG=TOKEN")
  /\ House!mc_list_commands < House!DataBuffer
  /\ \A parts \in MCNumbers :
       LET version == House!mc_get_version(<<"WINC">>, parts, House!OK)
           about == House!mc_about(parts, House!OK)
       IN  /\ about.length = about.written
           /\ (\A i \in 1..6 : parts[i] < 100) => version.length = version.written
           /\ (\A i \in 1..6 : parts[i] > 10) /\ (\E i \in 1..6 : parts[i] = 100)
                => version.length > version.written

\* A WINC that cannot be read has no version, and its status is the answer.
ASSUME UnreadVersions ==
  LET failure == House!TO_MC_STATUS(2, -1)
  IN  /\ House!mc_get_version(<<"WINC">>, <<>>, failure).status = failure
      /\ House!mc_about(<<>>, failure).status = failure
      /\ House!mc_get_version(<<"FIRMWARE">>, <<>>, failure).status = House!OK
=============================================================================
