--------------------------- MODULE MCWincCommands ---------------------------
(***************************************************************************)
(* A flash of two sectors of two pages of two cells, cells of one bit.     *)
(***************************************************************************)
EXTENDS WincCommands

MCBlobs == {<<{1}, {}>>}
-----------------------------------------------------------------------------
(* The SPI protocol below the exchanges, on small inputs.                  *)
Spi == INSTANCE WincSpi

\* What a WINC may send: nothing, idle bytes, an echo of a command, headers with
\* every error bit, states, and noise.
MCBytes == {0, 1, Spi!SINGLE_READ, Spi!SINGLE_WRITE, Spi!DATA, 252, 255}
MCInputs == UNION {[1..n -> MCBytes] : n \in 0..4}
Idle(n) == [i \in 1..n |-> 0]
MCRegister == 4096

\* A command succeeds just if its own echo and a state of 0 come after no more
\* than ten idle bytes, and what is behind them is left to be read.
ASSUME OnlyTheEchoIsSuccess ==
  \A input \in MCInputs : \A n \in {0, 6, 8, 10, 11} :
    LET sent == Spi!spi_cmd_send(<<Spi!SINGLE_READ, 0, 16, 0>>, Idle(n) \o input)
        zeros == CHOOSE z \in 0..Len(input) :
                   /\ \A i \in 1..z : input[i] = 0
                   /\ z < Len(input) => input[z + 1] # 0
    IN  /\ sent.ok <=> /\ zeros < Len(input) /\ n + zeros <= 10
                       /\ input[zeros + 1] = Spi!SINGLE_READ
                       /\ Spi!At(input, zeros + 2) = 0
        /\ sent.ok => sent.left = SubSeq(input, zeros + 3, Len(input))

\* The error bits of a data header are dropped before they are checked: data
\* behind a header that reports an error is taken like any other.
ASSUME HeaderErrorsPass ==
  \A header \in 240..255 :
    LET read == Spi!spi_read_reg(MCRegister,
                  <<Spi!SINGLE_READ, 0, header, 1, 2, 3, 4, 77>>)
    IN  read.ok /\ read.data = <<1, 2, 3, 4>> /\ read.left = <<77>>

\* Data is cut into packets of 8 KiB that are all of it and none of them empty;
\* the last one says so, and the first one of several.
ASSUME PacketsAreOrdered ==
  \A size \in {1, 2, 8191, 8192, 8193, 16384, 40000, 65535} :
    LET sent == Spi!spi_data_write(size)
        upTo[n \in 0..Len(sent)] == IF n = 0 THEN 0 ELSE upTo[n - 1] + sent[n].size
    IN  /\ upTo[Len(sent)] = size
        /\ \A i \in DOMAIN sent :
             /\ sent[i].size \in 1..8192
             /\ sent[i].order = 243 <=> i = Len(sent)
             /\ sent[i].order = 241 <=> i = 1 /\ Len(sent) > 1

\* Registers that are read and written by different commands, 0x31 to 0xff, are
\* still the same: no two registers share a command.
ASSUME RegistersDiffer ==
  \A a, b \in {0, 1, 48, 49, 50, 255, 256, 4096, 4144, 65536, 16777215} :
    a # b => /\ Spi!ReadCommand(a) # Spi!ReadCommand(b)
             /\ Spi!WriteCommand(a, <<1, 2, 3, 4>>) # Spi!WriteCommand(b, <<1, 2, 3, 4>>)

\* A block gives as many bytes as it was asked for, though one is read as two.
ASSUME BlocksAreWhole ==
  \A size \in 1..4 :
    LET read == Spi!ReadBlock(MCRegister, size,
                  <<Spi!DMA_EXT_READ, 0, Spi!DATA, 11, 12, 13, 14>>)
    IN  read.ok /\ read.data = SubSeq(<<11, 12, 13, 14>>, 1, size)

\* After a failure nothing is sent and nothing succeeds until the bus is started
\* or reset, which both do even where the WINC does not answer.
ASSUME ErrorsStay ==
  \A input \in MCInputs :
    LET calls(error) ==
          {Spi!winc_bus_read_reg_with_ret(error, MCRegister, input),
           Spi!winc_bus_write_reg(error, MCRegister, <<1, 2, 3, 4>>, input),
           Spi!winc_bus_write_reg_no_rsp(error, MCRegister, <<1, 2, 3, 4>>, input),
           Spi!winc_bus_read_block(error, MCRegister, 2, input),
           Spi!winc_bus_write_block(error, MCRegister, 2, input),
           Spi!winc_bus_set_reg_bits(error, MCRegister, {0}, <<0, 0, 0, 0>>, input)}
    IN  /\ \A call \in calls(TRUE) :
             call.bSPIBusError /\ ~call.result.ok /\ call.result.sent = <<>>
        /\ \A call \in calls(FALSE) : call.bSPIBusError <=> ~call.result.ok
        /\ ~Spi!winc_bus_init(input).bSPIBusError
        /\ ~Spi!winc_bus_reset(input).bSPIBusError

\* What is on the stack in place of a register that could not be read is never
\* written to the WINC; bits that are set in one that could be are all written.
ASSUME GarbageIsNotWritten ==
  \A input \in MCInputs :
    LET set(stack, in) ==
          Spi!winc_bus_set_reg_bits(FALSE, MCRegister, {0, 9}, stack, in)
        clear(stack, in) ==
          Spi!winc_bus_clear_reg_bits(FALSE, MCRegister, {0, 9}, stack, in)
        wrote(call) == call.result.sent # <<>> /\ call.result.sent[1] = Spi!SINGLE_WRITE
        reads == <<Spi!SINGLE_READ, 0, Spi!DATA, 1, 4, 0, 128>>
    IN  /\ ~Spi!spi_read_reg(MCRegister, input).ok =>
             /\ ~wrote(set(<<0, 0, 0, 0>>, input))
             /\ ~wrote(clear(<<255, 255, 255, 255>>, input))
        /\ set(<<0, 0, 0, 0>>, reads \o input).result.sent
             = Spi!WriteCommand(MCRegister, <<1, 6, 0, 128>>)
        /\ clear(<<0, 0, 0, 0>>, reads \o input).result.sent
             = Spi!WriteCommand(MCRegister, <<0, 4, 0, 128>>)
=============================================================================
