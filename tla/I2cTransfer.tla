---------------------------- MODULE I2cTransfer -----------------------------
(***************************************************************************)
(* Abstract: what a transfer of i2c_simple_master.c is on the wire.  The   *)
(* bytes of the request reach the device in order and none of them twice,  *)
(* the device is read only after it has taken all of them, and never for   *)
(* more bytes than there is room for.  A transfer may end early at any     *)
(* byte: its caller is not told.  What one would like to do without is     *)
(* WriteRoom: see there.                                                   *)
(***************************************************************************)
EXTENDS Naturals, Sequences

CONSTANT Byte

VARIABLES
  request,  \* out: the bytes to write; in: how many to read; tries: how often
  wrote,    \* the bytes the device has acknowledged
  read      \* the bytes it has sent

vars == <<request, wrote, read>>

NoRequest == [out |-> <<>>, in |-> 0, tries |-> 0]

Request == [out : Seq(Byte), in : Nat, tries : 1..2]

Init == request = NoRequest /\ wrote = <<>> /\ read = <<>>

Begin == /\ request = NoRequest
         /\ request' \in Request
         /\ wrote' = <<>> /\ read' = <<>>

WriteByte == /\ Len(wrote) < Len(request.out)
             /\ wrote' = Append(wrote, request.out[Len(wrote) + 1])
             /\ UNCHANGED <<request, read>>

\* A register read whose second address is not acknowledged starts again as a
\* write, of what is in the room for the answer.
WriteRoom == /\ request.out # <<>> /\ read = <<>>
             /\ Len(wrote) \in Len(request.out)
                              ..(Len(request.out) + request.in - 1)
             /\ \E b \in Byte : wrote' = Append(wrote, b)
             /\ UNCHANGED <<request, read>>

ReadByte == /\ wrote = request.out
            /\ Len(read) < request.in
            /\ \E b \in Byte : read' = Append(read, b)
            /\ UNCHANGED <<request, wrote>>

TryAgain == /\ request.tries > 1
            /\ request' = [request EXCEPT !.tries = @ - 1]
            /\ wrote' = <<>> /\ read' = <<>>

End == /\ request # NoRequest
       /\ request' = NoRequest
       /\ UNCHANGED <<wrote, read>>

Next == Begin \/ WriteByte \/ WriteRoom \/ ReadByte \/ TryAgain \/ End

Spec == Init /\ [][Next]_vars
=============================================================================
