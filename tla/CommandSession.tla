--------------------------- MODULE CommandSession ---------------------------
(***************************************************************************)
(* What the provisioning firmware promises the host on the serial line,    *)
(* without the line buffer: each line that is not blank is answered once,  *)
(* at its end or when it is too long; a command may ask for a blob of      *)
(* "need" bytes with a prompt; a blob in progress is delivered whole or    *)
(* refused; after an error the rest of the line is dropped.                *)
(***************************************************************************)
EXTENDS Naturals, Sequences

CONSTANTS Input, Newline, DataLen

VARIABLES phase,   \* "command", "blob" or "discard"
          blank,   \* nothing of the line has come yet
          need,    \* the length of the blob asked for
          blob,    \* the bytes of it received so far
          heard,   \* the symbol received last ...
          reply    \* ... and the answer to it

session == <<phase, blank, need, blob, heard, reply>>

Init == /\ phase = "command" /\ blank = TRUE
        /\ need = 0 /\ blob = <<>>
        /\ heard = Newline /\ reply = "none"

Answer(r, p) == reply' = r /\ phase' = p

EndBlob == need' = 0 /\ blob' = <<>>

Collect(c) == /\ phase = "command" /\ c # Newline
              /\ Answer("none", "command")
              /\ blank' = FALSE
              /\ UNCHANGED <<need, blob>>

SkipBlankLine(c) == /\ phase = "command" /\ blank /\ c = Newline
                    /\ Answer("none", "command")
                    /\ UNCHANGED <<blank, need, blob>>

LineAnswered(c) == /\ phase = "command" /\ ~blank /\ c = Newline
                   /\ \E r \in {"bad_command", "bad_blob", "ran"} :
                        Answer(r, "command")
                   /\ blank' = TRUE
                   /\ UNCHANGED <<need, blob>>

\* A line that just fills the line buffer is answered when it ends, but makes
\* the one that follows too long: hence no condition on blank.
LineTooLong(c) == /\ phase = "command"
                  /\ Answer("overrun",
                            IF c = Newline THEN "command" ELSE "discard")
                  /\ blank' = TRUE
                  /\ UNCHANGED <<need, blob>>

AskForBlob(c) == /\ phase = "command" /\ ~blank /\ c = Newline
                 /\ Answer("prompt", "blob")
                 /\ blank' = TRUE
                 /\ need' \in 0..DataLen
                 /\ blob' = <<>>

SkipNewline(c) == /\ phase = "blob" /\ blob = <<>> /\ c = Newline
                  /\ Answer("none", "blob")
                  /\ UNCHANGED <<blank, need, blob>>

AcceptByte(c) == /\ phase = "blob" /\ Len(blob) < need
                 /\ blob = <<>> => c # Newline
                 /\ Answer("none", "blob")
                 /\ blob' = Append(blob, c)
                 /\ UNCHANGED <<blank, need>>

\* The command runs with the whole blob.
Deliver(c) == /\ phase = "blob" /\ Len(blob) = need /\ need > 0
              /\ c = Newline
              /\ Answer("ran", "command")
              /\ EndBlob
              /\ UNCHANGED blank

RefuseBlob(c) == /\ phase = "blob" /\ Len(blob) = need /\ c # Newline
                 /\ Answer("bad_blob", "discard")
                 /\ EndBlob
                 /\ UNCHANGED blank

Drop(c) == /\ phase = "discard"
           /\ Answer("none", IF c = Newline THEN "command" ELSE "discard")
           /\ UNCHANGED <<blank, need, blob>>

Interact(c) ==
  \/ Collect(c) \/ SkipBlankLine(c) \/ LineAnswered(c) \/ LineTooLong(c)
  \/ AskForBlob(c)
  \/ SkipNewline(c) \/ AcceptByte(c) \/ Deliver(c) \/ RefuseBlob(c)
  \/ Drop(c)

Receive(c) == Interact(c) /\ heard' = c

Next == \E c \in Input : Receive(c)

Spec == Init /\ [][Next]_session
=============================================================================
