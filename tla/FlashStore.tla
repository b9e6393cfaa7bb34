----------------------------- MODULE FlashStore -----------------------------
(***************************************************************************)
(* What the WINC commands promise the host about the flash of the WINC.    *)
(* A request acts on its own cells only, in any order; it is answered with *)
(* OK only if all of them are done.  A request that failed may still act   *)
(* until the next OK: the flash finishes what was started.                 *)
(***************************************************************************)
EXTENDS Integers, Sequences

CONSTANTS Address,     \* the cells of the flash
          Bits,        \* the bits of a cell; an erased cell has them all
          SectorSize,
          Requests,    \* [kind, address, length, data]
          NoRequest

VARIABLES content,   \* the bits that are set, for each cell
          open,      \* the requests that may still act
          asked,     \* the request that waits for its answer
          answer,
          value      \* what the last read returned

store == <<content, open, asked, answer, value>>

Sector(a) == {b \in Address : b \div SectorSize = a \div SectorSize}

\* The cells a request acts on, and what it makes of one: programming can only
\* clear bits.
Cells(r) ==
  IF r.kind = "write" THEN r.address .. (r.address + r.length - 1)
  ELSE IF r.kind = "erase" THEN Sector(r.address) ELSE {}

Effect(r, a) == IF r.kind = "erase" THEN Bits
                ELSE content[a] \cap r.data[a - r.address + 1]

Done(r) == \A a \in Cells(r) : content[a] = Effect(r, a)

Contents(r) == [i \in 1..r.length |-> content[r.address + i - 1]]

Init == /\ content = [a \in Address |-> Bits]
        /\ open = {} /\ asked = NoRequest
        /\ answer = "none" /\ value = <<>>

Ask(r) == /\ asked = NoRequest
          /\ asked' = r /\ answer' = "none" /\ value' = <<>>
          /\ open' \in SUBSET (open \cup {r})
          /\ UNCHANGED content

Refuse == /\ asked = NoRequest
          /\ answer' = "refused" /\ value' = <<>>
          /\ UNCHANGED <<content, open, asked>>

Act(r, a) == /\ r \in open /\ a \in Cells(r)
             /\ content' = [content EXCEPT ![a] = Effect(r, a)]
             /\ open' \in SUBSET open
             /\ UNCHANGED <<asked, answer, value>>

GiveUp == /\ open' \in SUBSET open
          /\ UNCHANGED <<content, asked, answer, value>>

AnswerOK == /\ asked # NoRequest
            /\ Done(asked)
            /\ value' = IF asked.kind = "read" THEN Contents(asked) ELSE <<>>
            /\ answer' = "OK" /\ asked' = NoRequest /\ open' = {}
            /\ UNCHANGED content

AnswerError == /\ asked # NoRequest
               /\ answer' = "error" /\ asked' = NoRequest
               /\ open' \in SUBSET open
               /\ UNCHANGED <<content, value>>

\* A restart forgets what was asked, not what the flash has begun.
Restart == /\ answer' = "none" /\ asked' = NoRequest /\ value' = <<>>
           /\ open' \in SUBSET open
           /\ UNCHANGED content

Next == \/ \E r \in Requests : Ask(r)
        \/ \E r \in open : \E a \in Cells(r) : Act(r, a)
        \/ Refuse \/ GiveUp \/ AnswerOK \/ AnswerError \/ Restart

Spec == Init /\ [][Next]_store
=============================================================================
