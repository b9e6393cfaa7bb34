---------------------------- MODULE Housekeeping ----------------------------
(***************************************************************************)
(* The commands that are about the command handler and the board           *)
(* (mc_housekeeping.c, mc_board.c), the table of all commands              *)
(* (mc_commands.c) and the status codes (mc_error.h), as functions.        *)
(*                                                                         *)
(* A text is what matters of it: its length, and for an answer that is     *)
(* written with snprintf() how much of it is in the buffer.                *)
(***************************************************************************)
EXTENDS Integers, Sequences, SequencesExt

DataBuffer == 1024     \* MC_DATA_BUFFER_LENGTH
VersionsBuffer == 47   \* BOARD_VERSIONS_MAX_LENGTH

OK == 0
BadCommand == 1
BadCount == 3
BadValue == 5

\* A status of a module, which is a signed byte, with the module that gave it.
TO_MC_STATUS(source, status) ==
  IF status = 0 THEN OK ELSE 256 * source + (status % 256)

Command(name, data) == [name |-> name, data |-> data]
mc_command_set ==
  <<Command("MC+ABOUT", FALSE), Command("MC+BLOBTEST", TRUE),
    Command("MC+PING", FALSE), Command("MC+ECC+GENPUBKEY", FALSE),
    Command("MC+ECC+LOCK", FALSE), Command("MC+ECC+OTP+READ", FALSE),
    Command("MC+ECC+READ", FALSE), Command("MC+ECC+PUBKEY+READ", FALSE),
    Command("MC+ECC+SERIAL", FALSE), Command("MC+ECC+SIGNDIGEST", TRUE),
    Command("MC+ECC+WRITEBLOB", TRUE), Command("MC+ECC+PUBKEY+WRITE", TRUE),
    Command("MC+GETLED", FALSE), Command("MC+LISTCOMMANDS", FALSE),
    Command("MC+RESET", FALSE), Command("MC+SETLED", FALSE),
    Command("MC+VERSION", FALSE), Command("MC+WINC+ERASE", FALSE),
    Command("MC+WINC+READ", FALSE), Command("MC+WINC+WRITEBLOB", TRUE)>>

\* Characters are codes.  What is not printable becomes '#', and what is
\* compared with a name, an upper-case text, is put in upper case first.
mc_normalize_char(c) ==
  CASE c \in {0, 10, 13} \cup 32..96 \cup 123..126  -> c
    [] c \in 97..122                                -> c - 32
    [] OTHER                                        -> 35

mc_match_string(match, string) ==
  /\ Len(match) = Len(string)
  /\ \A i \in DOMAIN match : match[i] = mc_normalize_char(string[i])

-----------------------------------------------------------------------------
(* The LEDs.  out is the set of the pins of the port that are high: an LED  *)
(* is on where its pin is low.                                             *)

led_table ==
  [ERROR |-> {0}, DATA |-> {1}, CONN |-> {2}, WIFI |-> {3}, ALL |-> 0..3]

\* Also what is left of the port after mc_reset().
mc_board_init == 0..3

mc_set_led(out, args) ==
  CASE Len(args) # 2                     -> [status |-> BadCount, out |-> out]
    [] Len(args) = 2 /\ (args[1] \notin DOMAIN led_table
                          \/ args[2] \notin {"ON", "OFF"})
                                         -> [status |-> BadValue, out |-> out]
    [] OTHER ->
         LET mask == led_table[args[1]]
         IN  [status |-> OK,
              out |-> IF args[2] = "ON" THEN out \ mask ELSE out \cup mask]

mc_get_led(out, args) ==
  CASE Len(args) # 1                                    -> BadCount
    [] Len(args) = 1 /\ args[1] \notin DOMAIN led_table -> BadValue
    [] OTHER -> IF led_table[args[1]] \subseteq out THEN "OFF" ELSE "ON"

-----------------------------------------------------------------------------
(* The answers.  snprintf() returns the length of the whole text, and puts  *)
(* no more of it in the buffer than fits with the final 0.                 *)

Smaller(a, b) == IF a < b THEN a ELSE b
snprintf(text, room) == [length |-> text, written |-> Smaller(text, room - 1)]

Answer(print) == [status |-> OK, length |-> print.length, written |-> print.written]
Refuse(status) == [status |-> status, length |-> 0, written |-> 0]

Digits(n) == IF n < 10 THEN 1 ELSE IF n < 100 THEN 2 ELSE 3

\* The six numbers of firmware and driver between 34 other characters; failure
\* is the status of reading them.
get_winc_version_string(parts, failure) ==
  IF failure # OK THEN Refuse(failure)
  ELSE Answer(snprintf(FoldLeft(LAMBDA n, part : n + Digits(part), 34, parts),
                       VersionsBuffer))

mc_get_version(args, parts, failure) ==
  CASE Len(args) > 1  -> Refuse(BadCount)
    [] Len(args) = 0  -> Answer(snprintf(Len("1.3.0") + 2, DataBuffer))
    [] args = <<"COMMANDHANDLER">>
                      -> Answer(snprintf(Len("1.3.0") + 2, DataBuffer))
    [] args = <<"FIRMWARE">>
                      -> Answer(snprintf(Len("0.4.9") + 2, DataBuffer))
    [] args = <<"WINC">> -> get_winc_version_string(parts, failure)
    [] OTHER          -> Refuse(BadValue)

\* The versions are the part that was written, as a text within a text.
mc_about(parts, failure) ==
  LET versions == get_winc_version_string(parts, failure)
      rest == Len("AVR-IoT provisioning FW") + 2 + Len("FW 0.4.9") + 2
                + Len("Command handler 1.3.0") + 2 + Len("for the AVR-IoT WG") + 2
  IN  IF versions.status # OK THEN versions
      ELSE Answer(snprintf(rest + versions.written, DataBuffer))

mc_ping(args) ==
  IF Len(args) # 1 THEN Refuse(BadCount)
  ELSE Answer(snprintf(Len("MC+PONG=") + Len(args[1]), DataBuffer))

\* Each name and a line end; strcat() does not look at the room.
mc_list_commands ==
  FoldLeft(LAMBDA n, command : n + Len(command.name) + 2, 0, mc_command_set)
=============================================================================
