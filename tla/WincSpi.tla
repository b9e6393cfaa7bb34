------------------------------ MODULE WincSpi -------------------------------
(***************************************************************************)
(* The SPI protocol between the firmware and the WINC (winc_spi.c), as     *)
(* functions of what the WINC sends.                                       *)
(*                                                                         *)
(* input is the sequence of bytes that the WINC will send; the bus is idle, *)
(* and reads as 0, after them.  The adapter's transfers cannot fail.       *)
(***************************************************************************)
EXTENDS Integers, Sequences, SequencesExt

INTERNAL_WRITE == 195  \* 0xc3
INTERNAL_READ == 196   \* 0xc4
DMA_EXT_WRITE == 199   \* 0xc7
DMA_EXT_READ == 200    \* 0xc8
SINGLE_WRITE == 201    \* 0xc9
SINGLE_READ == 202     \* 0xca
RESET == 207           \* 0xcf
DATA == 240            \* 0xf0
RetryCount == 10       \* SPI_RESP_RETRY_COUNT
Packet == 8192         \* DATA_PKT_SZ

At(input, i) == IF i <= Len(input) THEN input[i] ELSE 0
After(input, n) == SubSeq(input, n + 1, Len(input))
Smaller(a, b) == IF a < b THEN a ELSE b

Response(value, left) == [value |-> value, left |-> left]

\* The first byte that is not 0, among one more than the retries, must be the
\* type that is waited for; a header of data is one in its upper nibble, and
\* the lower one is cleared.  A command's response has a state behind it.
spi_rsp(type, input) ==
  LET busy == {i \in 1..(RetryCount + 1) : At(input, i) # 0}
      first == CHOOSE i \in busy : \A j \in busy : i <= j
  IN  CASE busy = {} -> Response(255, After(input, RetryCount + 1))
        [] busy # {} /\ type = DATA /\ At(input, first) >= DATA
                     -> Response(DATA, After(input, first))
        [] busy # {} /\ type # DATA /\ At(input, first) = type
                     -> Response(At(input, first + 1), After(input, first + 1))
        [] OTHER     -> Response(255, After(input, first))

\* What an operation sends, whether it succeeds, what it has read of the data,
\* and what of the input is left.
Result(ok, sent, data, left) ==
  [ok |-> ok, sent |-> sent, data |-> data, left |-> left]

spi_cmd_send(command, input) ==
  LET response == spi_rsp(command[1], input)
  IN  Result(response.value = 0, command, <<>>, response.left)

\* The sizes of the packets that size bytes are cut into.
Packets(size) ==
  [i \in 1..((size + Packet - 1) \div Packet) |->
     Smaller(Packet, size - (i - 1) * Packet)]

\* Bits 2 and 3 of what spi_rsp() returns are checked for an error: they are
\* set only when it has failed.
spi_data_read(size, input) ==
  LET packets == Packets(size)
      read[n \in 0..Len(packets)] ==
        IF n = 0 THEN Result(TRUE, <<>>, <<>>, input)
        ELSE LET before == read[n - 1]
                 header == spi_rsp(DATA, before.left)
                 bytes == [i \in 1..packets[n] |-> At(header.left, i)]
             IN  CASE ~before.ok -> before
                   [] before.ok /\ header.value = 255
                        -> Result(FALSE, <<>>, before.data, header.left)
                   [] OTHER -> Result(TRUE, <<>>, before.data \o bytes,
                                      After(header.left, packets[n]))
  IN  read[Len(packets)]

\* The byte in front of each packet: first, last (the only one, too), other.
spi_data_write(size) ==
  LET packets == Packets(size)
  IN  [i \in DOMAIN packets |->
         [order |-> IF i = Len(packets) THEN 243 ELSE IF i = 1 THEN 241 ELSE 242,
          size |-> packets[i]]]

Byte(value, i) == (value \div 256 ^ i) % 256

\* Registers up to 0xff are read without the clock of the chip ...
ReadCommand(addr) ==
  IF addr <= 255 THEN <<INTERNAL_READ, 128, addr, 0>>
  ELSE <<SINGLE_READ, Byte(addr, 2), Byte(addr, 1), Byte(addr, 0)>>

\* ... and only those up to 0x30 written so.  A value is its four bytes, the
\* lowest first; it is sent the other way round.
WriteCommand(addr, val) ==
  (IF addr <= 48 THEN <<INTERNAL_WRITE, 128, addr>>
   ELSE <<SINGLE_WRITE, Byte(addr, 2), Byte(addr, 1), Byte(addr, 0)>>)
    \o Reverse(val)

\* A single byte is transferred as two.
BlockSize(size) == IF size = 1 THEN 2 ELSE size
BlockCommand(opcode, addr, size) ==
  <<opcode, Byte(addr, 2), Byte(addr, 1), Byte(addr, 0),
    0, Byte(BlockSize(size), 1), Byte(BlockSize(size), 0)>>

spi_read_reg(addr, input) ==
  LET sent == spi_cmd_send(ReadCommand(addr), input)
  IN  IF ~sent.ok THEN sent
      ELSE [spi_data_read(4, sent.left) EXCEPT !.sent = sent.sent]

\* bCheckRsp is FALSE for the write that resets the chip.
spi_write_reg(addr, val, bCheckRsp, input) ==
  IF bCheckRsp THEN spi_cmd_send(WriteCommand(addr, val), input)
  ELSE Result(TRUE, WriteCommand(addr, val), <<>>, input)

\* Of two bytes read for one, the second is dropped.
ReadBlock(addr, size, input) ==
  LET sent == spi_cmd_send(BlockCommand(DMA_EXT_READ, addr, size), input)
      read == spi_data_read(BlockSize(size), sent.left)
  IN  IF ~sent.ok THEN sent
      ELSE [read EXCEPT !.sent = sent.sent, !.data = SubSeq(read.data, 1, size)]

\* The response behind the data has the type of another command, 0xc3.  The
\* data itself is left out of what is sent.
WriteBlock(addr, size, input) ==
  LET sent == spi_cmd_send(BlockCommand(DMA_EXT_WRITE, addr, size), input)
      response == spi_rsp(INTERNAL_WRITE, sent.left)
  IN  IF ~sent.ok THEN sent
      ELSE Result(response.value = 0, sent.sent, <<>>, response.left)

-----------------------------------------------------------------------------
(* The calls of the other layers.  An error of the bus makes each of them   *)
(* fail and send nothing, and it is preset while one is in progress.       *)

Call(bSPIBusError, result, input) ==
  IF bSPIBusError
  THEN [bSPIBusError |-> TRUE, result |-> Result(FALSE, <<>>, <<>>, input)]
  ELSE [bSPIBusError |-> ~result.ok, result |-> result]

winc_bus_read_reg_with_ret(bSPIBusError, addr, input) ==
  Call(bSPIBusError, spi_read_reg(addr, input), input)
winc_bus_write_reg(bSPIBusError, addr, val, input) ==
  Call(bSPIBusError, spi_write_reg(addr, val, TRUE, input), input)
winc_bus_write_reg_no_rsp(bSPIBusError, addr, val, input) ==
  Call(bSPIBusError, spi_write_reg(addr, val, FALSE, input), input)
winc_bus_read_block(bSPIBusError, addr, size, input) ==
  Call(bSPIBusError, ReadBlock(addr, size, input), input)
winc_bus_write_block(bSPIBusError, addr, size, input) ==
  Call(bSPIBusError, WriteBlock(addr, size, input), input)

\* A register that could not be read has the value 0.
winc_bus_read_reg(bSPIBusError, addr, input) ==
  LET call == winc_bus_read_reg_with_ret(bSPIBusError, addr, input)
  IN  IF call.result.ok THEN call.result.data ELSE <<0, 0, 0, 0>>

\* Starting and resetting the bus clear the error, whatever the WINC answers;
\* stopping it sets the error.
winc_bus_init(input) ==
  [bSPIBusError |-> FALSE,
   result |-> spi_cmd_send(<<SINGLE_WRITE, 0, 232, 36, 0, 0, 0, 82, 92>>, input)]
winc_bus_reset(input) ==
  [bSPIBusError |-> FALSE,
   result |-> spi_cmd_send(<<RESET, 255, 255, 255, 0>>, input)]
winc_bus_deinit == [bSPIBusError |-> TRUE]

BitsOf(val) == {b \in 0..31 : (val[(b \div 8) + 1] \div 2 ^ (b % 8)) % 2 = 1}
BytesOf(bits) ==
  [i \in 1..4 |-> FoldSet(LAMBDA b, sum : 2 ^ (b % 8) + sum, 0,
                         bits \cap (8 * (i - 1))..(8 * i - 1))]

\* Bits of a register are set, or cleared, by reading it, and writing it if that
\* changes it; where it could not be read, stack is what its place on the stack
\* holds.
Rewrite(bSPIBusError, addr, set, clear, stack, input) ==
  LET read == winc_bus_read_reg_with_ret(bSPIBusError, addr, input)
      old == BitsOf(IF read.result.ok THEN read.result.data ELSE stack)
      new == (old \cup set) \ clear
  IN  IF new = old THEN read
      ELSE winc_bus_write_reg(read.bSPIBusError, addr, BytesOf(new),
                              read.result.left)
winc_bus_set_reg_bits(bSPIBusError, addr, bits, stack, input) ==
  Rewrite(bSPIBusError, addr, bits, {}, stack, input)
winc_bus_clear_reg_bits(bSPIBusError, addr, bits, stack, input) ==
  Rewrite(bSPIBusError, addr, {}, bits, stack, input)
=============================================================================
