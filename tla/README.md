# Verification of the AVR-IoT provisioning firmware

The firmware turns an AVR-IoT board into a device that a host script
(`iotprovision`) provisions over a serial line: the host sends text commands,
the firmware runs them against the ECC608 secure element (over I2C) and the
flash of the WINC1510 Wi-Fi module (over SPI).  This directory holds TLA+
models of it, the TLC configurations that check them and TLAPS proofs about
them.  Paths below are relative to `src/avr-iot-provisioning-mplab.X/`, which
is written `X/`.

## 1. Inventory

| component | source | state | operations |
|---|---|---|---|
| command parser | `X/command_handler/parser/mc_parser.c` | `parser_state`, line and data buffer with their counters, `active_command`, `argcount`, `expected_datalength` | `mc_parser(char)`, called with one character at a time |
| main loop | `X/main.c` | none | `mc_parser(uart[cdc].Read())` for ever |
| USART driver | `X/mcc_generated_files/src/usart2.c` | two ring buffers with head, tail and element count; DREIE | RX and DRE interrupt, `USART2_Read`, `USART2_Write` |
| ECC commands | `X/ecc_commands.c` | none of its own; the slots and locks of the secure element | nine `cmd_ecc_*` handlers |
| WINC commands | `X/winc_commands.c` | `download_mode`; the flash of the WINC | write, read, erase, version, init |
| housekeeping, board | `mc_housekeeping.c`, `mc_board.c` | four LEDs | text answers, reset |
| argument parsing, conversions | `mc_argparser.c`, `conversions.c` | none | numerals, hex in place |
| CryptoAuthLib | `X/mcc_generated_files/CryptoAuthenticationLibrary/` | the clock divider; the wake/idle state of the device | wake, send, wait, receive, idle; the commands built from them; certificates, tokens, host-side messages |
| TWI driver | `src/twi0_master.c`, `drivers/i2c_simple_master.c` | the state machine `I2C0_status` with callbacks | open, write, read, close; polled |
| WINC driver | `winc/driver`, `winc/spi_flash`, `winc/m2m` | Wi-Fi state, chip sleep count, sticky bus error; scans, files and certificates under way | register and block transfers, flash pages, requests and replies of the host interface |
| WINC sockets | `winc/socket/socket.c` | table of sockets, session number, callbacks | open, bind, connect, send, receive, close, ping; the replies |

How they interact.  The RX interrupt puts characters into a ring buffer; the
main loop takes them out one at a time and calls the parser; the parser calls
a handler when a line, or the blob that a line announced, is complete; the
handler changes the data buffer and `data_length`, which the parser sends back
through the transmit ring buffer before the status.  Handlers call
CryptoAuthLib or the WINC driver and block until these are done.  Only the
USART has concurrency: everything else runs in the main loop, and the TWI and
SPI drivers poll.

What is hard about it:

* the interrupt handlers share the element counts with the main loop, and the
  transmit interrupt is enabled outside the critical section;
* the parser carries decisions from the end of a command line through every
  byte of the blob, and must leave host and firmware in step after each kind
  of error;
* a write to the secure element is many I2C exchanges, each of which may fail
  before or after the device has done its part; locking cannot be undone;
* `data_length` is input and output of a handler, so each early return decides
  whether the host gets stale data;
* sizes are 8 and 16 bits wide;
* the drivers below keep sticky state (bus error, download mode, transfer
  error) across calls, and ignore most results on the way;
* the flash of the WINC goes on by itself after the command that started it
  has failed.

`PROJECT.json` lists each hazard at its line with the properties that cover it.

What would make each component correct:

* parser: a line or blob gets exactly one answer; no byte of a blob is lost,
  executed or written past the buffer; the handler gets the bytes and arguments
  that belong to its own line;
* USART: each direction is a FIFO, nothing is stranded, no wait is for ever;
* ECC commands: what the host was told is true; nothing outside the data
  buffer is touched; a repeated LOCK succeeds; a failure returns no data;
* WINC commands: a flash write or erase reported as done is in the flash, and
  no cell outside the range is touched, also when the bus fails or the board is
  reset on the way; the flash is written only with the WINC's CPU halted;
* TWI: a transfer that failed is not reported as done, and ends;
* CryptoAuthLib execution: a response is that of the command just sent;
* CryptoAuthLib's pure parts: what one function writes another reads, buffers
  are not left, and nothing unset goes into a packet;
* sockets: data reaches the socket that asked for it, or nobody.

## 2. Modules

| module | models | composed of |
|---|---|---|
| `CommandSession` | abstract: what the parser promises a host | |
| `McParser` | `mc_parser.c`, one action per branch of `mc_parser()` | implements `CommandSession` |
| `HostSession` | `main()`'s loop, the serial line and a stop-and-wait host | extends `McParser` |
| `ByteFifo` | abstract: a bounded FIFO of bytes | |
| `UsartRx`, `UsartTx` | the two halves of `usart2.c`; `Usart` is what they share | each implements `ByteFifo` |
| `MCUsart` | both halves, one main loop and one interrupt flag | extends `UsartRx` and `UsartTx` |
| `EccCommands` | `ecc_commands.c` and what it uses of CryptoAuthLib | |
| `FlashStore` | abstract: what the WINC commands promise about the flash | |
| `WincCommands` | `winc_commands.c`, `spi_flash.c` and what they use of the WINC driver | implements `FlashStore` |
| `I2cTransfer` | abstract: what an I2C transfer is on the wire | |
| `TwiMaster` | `twi0_master.c` with `i2c_simple_master.c` | implements `I2cTransfer` |
| `EccExchange` | abstract: what a caller of `atca_execute_command()` may rely on | |
| `AtcaExec` | `atca_execution.c`, `atca_i2c_hal.c`, `atca_hal.c`, the start of `atcab_init()`, and a secure element | implements `EccExchange` |
| `WincSockets` | `winc/socket/socket.c` | |
| `*Proofs` | the theorems about the module of that name; `UsartProofs` has both halves of the driver and their composition (`MCUsart`) | |
| `MC*` | instances for TLC | |

**McParser.**  A state is what lies between two calls of `mc_parser()`.  The
guards of the actions follow the order of the code: the overrun check first,
then the state.  `linecounter` is the length of `linebuffer`.  A line is a
sequence of symbols, a command name or a numeral being one symbol, so buffer
sizes count symbols.  The parsing operators (`Matched`, `ArgumentsOK`, ...)
say what `mc_parse_command()` and `mc_parse_arguments()` compute, with their
peculiarities: only the first argument must be non-empty, the last byte of a
full line buffer is never looked at, `active_command` and `argcount` change
even if the line is refused.  A handler is abstracted to the number of bytes it
leaves.  The state `"READY"` at `Init` is that after `mc_parser_init()`.
`input` is the argument of the last call: `CommandSession` promises an answer
per symbol received, so it has to see the symbols.

**CommandSession** has no line buffer: of the line it knows only whether
anything of it has come (`blank`), of a blob what was asked for and what came.
Every line that is not blank gets one answer, at its end or when it is too
long.

**HostSession** adds a host that sends a line, with LF or CR LF, waits for the
answer, sends a blob of the announced length or one byte longer if it was
prompted, and waits again.  It is the composition that shows whether both
sides stay in step.  Its assumption `LineAssumption` names two things the
firmware does not survive and the host must not do: send a line that fills the
line buffer exactly (the answer is followed by a spurious overrun that eats
the next line) and ask for a blob of length 0 (which can never be ended).

**UsartRx, UsartTx, MCUsart.**  The interrupt handler is one step;
`USART2_Read()` and `USART2_Write()` are split at every access to a shared
variable, the update of the count into its load and its store.  `irq` is the
global interrupt flag that `ENTER_CRITICAL` clears and `EXIT_CRITICAL` restores.
The busy waits are guards.  A local variable that is not used any more is 0.
The history variable `refused` of `UsartRx` says that the byte that arrived last
found the buffer full.  The read-modify-write that enables DREIE is one step:
the only other writer of the bit is the ISR, which can only clear it, and the
store sets it whatever was loaded.  `MCUsart` runs the two halves together: the
main loop is in one of the two functions at a time, and `irq` is one variable,
so that a critical section of one half holds up the ISR of the other.

**EccCommands.**  One step is one call of a handler.  `content` and `locked`
are the secure element; the CryptoAuthLib functions are operators on them.  An
exchange may fail (`f`) before or after the device has acted, and the board may
be restarted in between, so a write may leave any prefix; the prefixes of a
blob are taken at every word, where the code writes whole 32-byte blocks while
it can, so the model has some more.  `known` and `known_locked` are history
variables: what a host may conclude from the answers.  The length of the blob
comes from the last argument modulo 2^16, as the parser takes it.  A slot is
writable until it is locked; the access rights that a configuration zone may
add are not modelled, a refusal by the device is an ordinary failure.

**WincCommands.**  A step is one exchange with the WINC: a command of
`spi_flash.c` is a series of register accesses that is one step here, since
only its last access makes the flash act.  `pc` is the place in the code.  Any
exchange may fail before or after it has taken effect; `bus_error` is
`bSPIBusError`, which once set makes every exchange fail until
`winc_bus_init()`.  `wifi_state` is `gu8WifiState`.  `EnterDownloadMode`
covers `m2m_wifi_deinit()` and `m2m_wifi_download_mode()`: they end in success,
in a failure with a bus error, or in the failure of the first command after the
reset, which `winc_bus_init()` returns without setting the bus error.
`WifiInitHold` to `FirmwareRuns` are `m2m_wifi_init()`, at start-up and when
the version is asked for.  `winc_download_mode(false)` clears `download_mode`
only when that has returned (`X/winc_commands.c:283-284`, `AfterWifiInit`): the
flag stays set while the WINC boots, and for ever if the boot hangs.

The flash and the WINC's CPU are external.  A cell is a set of bits:
programming intersects, erasing sets all.  `flash` is what the cells hold,
`goal` what the program or erase in progress will make of them; it is busy
while they differ and moves one cell at a time.  Programming wraps around
within a page and erasing acts on the whole sector of an address, as NOR
flashes do.  A busy flash, or one without its write enable latch, ignores
programs and erases.  A reset of the board leaves the WINC powered, so the flash
may finish; the reset of the WINC in `winc_drv_init()` and a power loss cut it
off.  A cell that was cut off keeps its old contents: half-programmed cells are
left out.  `origin` is a history variable, the command that the work in
progress is for.

Requests stay within the flash.  The code does not check that, and takes an
erase address that is not a number for 0.

**TwiMaster.**  A state lies between two runs of `I2C0_MasterIsr()`.  A helper
of the simple master starts a call, which opens the driver, sets the callbacks
and sends the address; each event on the bus is a step of `I2C0_Poller()`, and
so is `I2C0_Close()`.  `status` is the record `I2C0_status`.  The bus is open: at
an event the device may acknowledge or not, the arbitration may be lost and the
bus may fail.  Two history variables keep the bytes that were written and read.
A register read that is not acknowledged is tried twice, the other calls until
the device answers.

**I2cTransfer** promises the order of the bytes, that a read follows all of the
request and that no more is read than there is room for.  One weakness of the
code is part of it under a name of its own (`WriteRoom`): a register read whose
second address is refused is taken up again as a write, and what is in the
buffer for the answer goes to the device.

**AtcaExec.**  One transfer or one delay is a step.  `device` is the secure
element: awake or not, what it runs and how long it still takes, its answer, its
clock mode.  The times are those of the tables of `atca_execution.c`.  The boot
reads the chip mode and runs the synchronisation (`hal_ecc_sync()`); then
commands are requested one at a time.  The board may be reset while the device
keeps its state, a transfer may be cut short, and the device may fall asleep, all
these at most `MaxFaults` times.  `data`, the bytes of the wake answer that are on
the stack of `hal_i2c_wake()`, is a variable because a read that was not
acknowledged leaves them as they are.

**EccExchange.**  The device runs a command at most once, and the call succeeds
only if it has, or if two things went wrong.  This is what `EccCommands` assumes
of an exchange: it fails before or after the device has acted, or succeeds.

**WincSockets.**  Steps are the calls of the application, from its main loop or
from inside a callback (`inside` says which callback runs), and the replies of
the WINC, handled by `m2m_ip_cb()`.  `requests` is a bag of what the WINC has
still to answer, in any order; `lost` and `event` are history variables.  A
receive buffer is its size.  Left out: addresses and names, the flags of TLS, and
a receive status that is positive but less than what the reply says of itself.

**Modules of functions.**  Code without state of its own is modelled as
functions and checked by ASSUMEs of the MC module named here, which TLC
evaluates in every run of it:

| module | models | checked in |
|---|---|---|
| `Conversions`, `ArgParser` | `conversions.c`, in place on one memory; `mc_argparser.c` | `MCEccCommands` |
| `Housekeeping` | `mc_housekeeping.c`, `mc_board.c`, the table of commands, the status codes | `MCMcParser` |
| `AtcaPacket` | sizes, checksums, error codes and wake answers of CryptoAuthLib's packets | `MCAtcaExec` |
| `ZoneAccess` | how reads and writes of a zone are cut into words and blocks | `MCAtcaExec` |
| `DeviceCommands` | `basic/atca_basic_*.c`: the commands of every call, what goes into their packets, what is handed on of the answers | `MCAtcaExec` |
| `HostMessages` | `host/atca_host.c`: the messages that the host hashes, and `TempKey` | `MCAtcaExec` |
| `CryptoStreams` | digests, MACs and AES modes that take a message in pieces | `MCAtcaExec` |
| `CertDates`, `CertDer`, `CertDef` | `atcacert_date.c`, `atcacert_der.c`, `atcacert_def.c` and `atcacert_client.c` | `MCEccCommands` |
| `TextEncodings` | `atca_helpers.c`, `atcacert_pem.c`, `atca_jwt.c`: hex, Base64, PEM, tokens | `MCEccCommands` |
| `WincSpi` | `winc_spi.c` as functions of what the WINC sends | `MCWincCommands` |
| `WincHif` | `winc_hif.c`: the sleep count, requests and messages of the host interface; the interrupt in `winc_adapter.c` | `MCWincSockets` |
| `WincRequests` | `m2m_wifi.c`, `m2m_ota.c`, `m2m_ssl.c`, `flexible_flash.c`: every request, the checks and cuts of its arguments, the replies, and the state of scans, files and certificates | `MCWincSockets` |

In these modules the block functions of the digests and ciphers, and what the
device computes, are opaque.  In `WincRequests` a request says only what a check or
a cut of its arguments is about; what a callback calls in its turn, and code
behind `ETH_MODE`, `_PS_SERVER_`, `CONF_PERIPH` and
`CONF_WINC_SUPPORT_ENTERPRISE_CONNECT`, which the build does not define, are left
out.  `SuccessIsTold` in `MCWincSockets` is the assumption that `WincSockets` makes
of `winc_hif_send()` with its three outcomes of a request.

**FlashStore** has a set `open` of requests that may still act, each on its own
cells in any order.  OK is answered only when all of them are done, and closes
every request; a request that failed may act until then.  So an OK promises
that nothing left over from an earlier failure comes afterwards.

## 3. Runs

| run | question | bounds |
|---|---|---|
| `parser` | argument lists, the end of the line buffer, and blob lengths that fit, do not, or only modulo the word size | line buffer of 7 symbols, data buffer of 2, at most 2 arguments, words modulo 8; lines of 5 to 7 symbols (`LongLine`) and bytes of blobs have fewer kinds of symbols (`Bounded`) |
| `host_session` | do host and firmware stay in step, does each exchange end | 11 lines of every kind, both line endings, receive buffer of 4 |
| `usart` | interleavings of both ISRs and the main loop | receive ring of 4, transmit ring of 2, two byte values |
| `ecc` | all commands, faults and restarts in any order | two slots (one too small for a public key), 30 argument lists |
| `ecc_failure`, `ecc_digest` | two findings | as `ecc` |
| `winc` | all WINC commands, a bus that fails at any exchange, restarts at any time | a flash of 2 sectors of 2 pages of 2 one-bit cells; one blob of 2 cells, which crosses a page, a sector or neither by its address |
| `winc_firmware` | a finding | as `winc` |
| `twi_master` | every helper on a bus that may do anything at any event | bytes {0, 1}, buffers of 1 to 3 bytes, `size_t` modulo 8 |
| `atca_exec` | boot, synchronisation and requests with faults | a slow and a quick command, the three clock modes, 3 faults |
| `ecc_sync` | a finding | as `atca_exec`, without faults |
| `sockets` | sockets that are opened, used and closed while answers are on their way | 2 TCP sockets and 1 UDP socket, session numbers modulo 3, 2 requests under way, data in 2 chunks, 1 ping |

Why the bounds are enough.  The parser compares counters with three bounds
(line, arguments, data buffer) and the configurations reach each of them from
below, at and above, with every symbol class; nothing depends on the values
of names or data bytes.  The rings go round and fill up in a few bytes, an ISR
reaches every step of either function with the ring empty, full and between, and
the proofs cover each half at its real size and all others.  Three bytes are a
first, a middle and a last one, at each of which a transfer may fail; the proofs
have all lengths.  With 3 faults `EccExchange` is exercised past the two that it
allows for.  Two session numbers wrap around within a few calls, the worst case of
2^16.  The handlers of
`EccCommands` are independent of each other but for the slot they act on, so
one slot of each kind shows every interaction.  A write in `WincCommands`
is split at most once, since a blob is at most a page (`FLASH_PAGE_SZ`), and
two sectors show what an erase leaves alone.  For all other sizes there are
the proofs.

Scale of `ecc`: a word of 2 bytes, blocks of 2, keys of 4, a data buffer of 12,
16-bit numbers taken modulo 32 and 8-bit ones modulo 4, so that both wrap.

What the runs show:

* `OpenBlobSafe`: `STATE_DATA` relies on values set when the line was parsed
  and on the overrun check at the top not firing.  It never does, because a
  line that fills the buffer never has arguments that parse.
* `ImplementsSession`: no byte of a blob is lost, executed as a command or
  taken for an over-long line, and after an error the rest is dropped.
* `AnswersMatch`, `AnswerNotLost`, `EveryExchangeEnds`: under `LineAssumption`
  each line and blob gets the one answer that it deserves.
* `CountMatchesIndices`, `NoLostUpdate`, `ImplementsFifo`: the count, which two
  contexts update, agrees with the indices, which one context each owns; the
  byte read last, after interrupts are enabled again, has not been overwritten.
* `Armed`, `Drained`, `WriteReturns`: enabling DREIE outside the critical
  section strands no byte and no writer.
* `KnowledgeTrue`: a write or a lock answered with OK has happened and lasts,
  whatever failed before.  `LockMayBeRepeated`: LOCK may be retried after a
  lost answer.  `BufferNotOverrun`: raw and encoded data fit for all lengths, a
  length included that matches its blob only modulo 2^16: WRITEBLOB passes that
  on, and the size of the slot is all that keeps what lies behind the blob from
  being written.
* `OnlySignDigestEchoes`: SIGNDIGEST is the only command that returns data
  with an error.
* `ImplementsFlashStore`: a write or erase answered with OK is in the flash,
  whole and in place, though the results of the steps in between are dropped;
  splitting at pages keeps writes from wrapping around; no failure and no
  restart touches other cells; a read returns the cells asked for.
* `FlagsTellCPU`: whichever switches failed before, after a switch to download
  mode an initialized Wi-Fi state means that the CPU was halted, and in normal
  mode, once the WINC was started, the CPU runs.  The code that decides whether
  to switch again looks at `download_mode` only: see the finding.  The property
  is not about `m2m_wifi_init()` while it is in progress (`Booting`), where
  `download_mode` is still set and the CPU runs.
* `EveryCommandEnds`: every poll ends when the bus fails, but for the wait for
  the efuses (`Hung`).

* `WithinBuffer`, `ReadIntoBuffer`, `ImplementsTransfer`: whatever the bus does,
  no length wraps, no byte goes twice or out of order, and what was read is in
  the caller's buffer, though a refused address and a refused byte are told apart
  by one flag only.  `TransferEnds`: a call ends if the device answers at last.
* `NeverTooEarly`: the delay before an answer is read is never shorter than the
  command takes in the clock mode that the device is in.  `HangNeedsFault`:
  `atsend()` and `atidle()`, which ask for ever, find the device awake unless
  there was a reset, an error or a doze.  `ImplementsExchange`: an old answer
  passes for a new one only after two faults.  `ExecutionEnds`: a call ends
  unless it hangs in that way (`Hung`).
* `NoEventAfterClose`: no data and no result of a send is reported of a socket
  that is closed, before its reply came or in the callback.  It asks no more than
  that the socket is open: a reply to an earlier user of the index is dropped by
  the number of its session, unless that has wrapped around to the new user's.
  `PendingHasRequest`: `recv()` does not ask again while a receive is pending, so
  one must be on its way.  `SessionKept`: an open socket is
  not given to somebody else, but for the flaw of `socket()` below.

What the functions are checked for:

* `MCEccCommands`.  Conversions in place: `Digits`, `DecodesInPlace`,
  `OddLengthReadsOn`, `HandlersEncodeInPlace`, `RoundTrip`, `LengthsAgree`.
  Arguments: `NumeralsAreUnderstood`, `OnlyNumeralsAreAccepted`.  Dates:
  `DatesAreRead`, `LatestDates`, `SecondsAreDates`, `CompressedDates`.  DER:
  `DerLengths`, `DerIntegers`, `DerSignatures`, `DerLengthsAreAdjusted`.  Texts:
  `Base64IsRead`, `HexIsRead`, `PemIsRead`, `TokensVerify`.  Certificates:
  `CertificatesAreRebuilt` (what is read from a device gives the certificate that
  was written to it), `RequestsVerify`.
* `MCAtcaExec`.  Packets: `WakeAnswers`, `CorruptionIsDetected`,
  `LostTransfersAreNoticed`, `ErrorsAreNoSuccess`, `PacketsFit`.  Zones at their
  real sizes: `ReadsAreExact`, `WritesAreExact`, `AddressesDiffer`,
  `PublicKeyIsRead`, `SerialNumber`, `SlotLocks`.  Device commands:
  `NothingUnsetIsSent`, with its one exception `SomethingUnsetIsSent`,
  `VerdictIsTheDevices`, `ConfigurationIsWritten`, `CounterIsWritten`.  Host
  messages: `ValidateRebuilds`, `CheckMacFollowsMac`, `MessagesAreWhole`,
  `DecryptsWhatIsWritten`.  Streams, cut at every place: `DigestsAreOfTheText`,
  `DeviceDigestsTheText`, `CmacIsOfTheText`, `GcmIsOfTheText`.
* `MCMcParser`: `CommandsDiffer`, `NamesMatchInEitherCase`,
  `FailuresAreReported`, `LedsReadAsLastSet`, `AnswersAreWhole`, `UnreadVersions`.
* `MCWincCommands`: `OnlyTheEchoIsSuccess`, `HeaderErrorsPass` (what the code
  lets pass), `PacketsAreOrdered`, `RegistersDiffer`, `BlocksAreWhole`,
  `ErrorsStay`, `GarbageIsNotWritten`.

Findings (runs that end in a violation):

* `ecc_failure`: SIGNDIGEST refuses a digest of the wrong size without clearing
  `data_length` (`X/ecc_commands.c:265-267`), against the comment at
  `X/ecc_commands.c:256-257` and `test/test_ecc_commands.c:537`.
* `ecc_digest`: the size of the digest is kept in 8 bits, so that 288 bytes
  pass for 32 and the first 32 of them are signed.
* `winc_firmware`: a switch to download mode that failed is taken for done
  (`X/winc_commands.c:278-279`), and the flash is written while the WINC's CPU
  runs, against the warning at `winc/spi_flash/spi_flash.h:135-136`.
* `ecc_sync`: going idle resets the error (`src/twi0_master.c:350`), so that a
  read that was not acknowledged closes with `I2C0_NOERR`, `attempt_read()` never
  sees a failure and `hal_ecc_sync()` does not wake a device at rest, against the
  comment at `hal/atca_i2c_hal.c:318`.

Seen while modelling, where no comment or test says otherwise (paths as in the
map):

* The literal of a self-test error, {04 07 C4 40}, is not a valid frame.
  `spi_rsp()` clears the error bits of a data header before they are looked at
  (`winc_spi.c:76`).  The version is cut off if it does not fit
  (`mc_board.c:157`).  The range check of `parse_arg_uint32()` is always true.
* `socket()` without a free socket returns -1 and yet clears and opens the one it
  looked at last.  A receive whose request could not be sent stays pending.
  Replies to bind, listen, connect and accept are not compared with the session.
  A callback that closes its socket and opens the index again gets the rest of
  the old data.  A ping callback that pings again loses its callback.  After
  `socketDeinit()` session numbers start again at 1.  `gethostbyname()` takes the
  length of the name modulo 256.
* Commands whose response is short are a success with the output untouched in
  verify with MAC, nonce, ecdh, kdf, secureboot, info and aes; mac and read_zone
  copy without a look at the size; `atcab_gendig()` in the mode of a shared nonce
  sends bytes that nobody set if the data is short; `atcab_write_config_counter()`
  shifts a 16-bit value by up to 31 places.
* `VERIFY_MODE_INVALIDATE` (7) is compared with a value masked with 3, so that
  case is never taken.  `atcah_gen_dig()` does not look at `TempKey.valid`, and
  `atcah_check_mac()` does not use `TempKey` up.
* The last date of the POSIX format cannot be encoded, and decoded dates are not
  checked for their ranges.  `atcacert_get_*_date()` accepts a format one past
  the last one.  A transform of `TF_NONE` is an error.  Merging two places of a
  device keeps an offset that is not rounded, and `atcacert_write_cert()` may put
  their bytes in the wrong place; nor does it undo transforms.
* A wake of the WINC that fails is counted like one that succeeds, so that no later
  call wakes it (`winc_hif.c:72`); a MAC address that cannot be read leaves it awake
  (`m2m_wifi.c:1336`).  The length of a request is 16 bits and wraps before it is
  compared with the limit.  A message that is given up leaves its interrupt
  pending, and the last message can be read after the WINC was told that it is
  done.
* Saving of power is switched although the request for it was refused, and a WPS or
  provisioning request ends a scan although it was not sent.  The end of a scan
  is seen only if there is a callback.  `m2m_wifi_set_system_time()` sends four
  bytes that lie behind its argument; the requests for an active scan, for no
  roaming and for an access point have fields that nobody sets.  The digits of a
  WEP key are not checked, and a passphrase counts modulo 256.  A device name of
  length 255 is sent empty.
* `m2m_ota_notif_sched()` does not use its period.  A file callback that asks for
  the next file, or erases, loses its new callback.  Reading a file from the flash
  with another handler is a success that reads nothing of it, and a part may lie in
  the sector behind the section.
* Certificates of more than 1536 bytes that are not a number of words are sent on
  past their end until a request fails.  A chunk that fails leaves its header in the
  caller's buffer.  A reply that cannot be read is reported to the application
  with the status so far.
* `packHex()` writes one character past its buffer.  A claim that does not fit
  leaves its comma in the token.

Fairness.  `HostSession`: weak fairness of the main loop, which does nothing
else (`X/main.c:62-64`, and a handler returns), and of a host that finishes
what it began; it need not begin anything.  `UsartRx`: weak fairness of the
reader, which the main loop always comes back to; nothing obliges bytes to
arrive.  `UsartTx`: weak fairness of the ISR, as the transmitter goes on
shifting bytes out, and of a `USART2_Write()` once called; nothing obliges a
call.  `MCUsart`, which is what the run checks: strong fairness of reading, to
which the main loop always comes back from writing, weak fairness of a
`USART2_Write()` once called, and strong fairness of the transmit ISR, which
critical sections of both halves hold up again and again.  `TwiMaster`: weak
fairness of the polling loops, which nothing else holds up, and strong fairness
of an event at which the device acknowledges; without the latter the helpers do
poll for ever.  `AtcaExec`: weak fairness of the firmware and of a command that
the device runs.  `WincSockets` has no liveness properties: nothing obliges the
WINC to answer.  `EccCommands` has no liveness properties: a handler is one step.
`WincCommands`: weak fairness of the firmware's steps, which nothing else
holds up, and of the flash, which finishes what it started; no command need
come.  `EveryCommandEnds` is about behaviours in which restarts stop, and
leaves out `Hung`, from which only a restart leads.

Deadlock is checked in every run but `atca_exec` and `ecc_sync`: there a write that
polls a device at rest (`Hung`) stops the model for good once the faults are used
up.  `WincCommands` always has a step, a restart;
that the firmware alone is never stuck but in `Hung` is `EveryCommandEnds`.

## 4. Proofs

All theorems are for all values of the constants that satisfy the ASSUMEs of
the modules.

* `McParserProofs`.  `TypeCorrect` and `OpenBlobIsSafe` come from one
  inductive invariant: the conjuncts of `OpenBlobSafe` together with the
  types.  The types need the others: that `datalength` stays within the buffer
  follows from `expected_datalength` and the order of the checks.
  `ParserImplementsSession` uses the same invariant and maps each branch of
  `mc_parser()` to an action of `CommandSession`.
* `UsartProofs`.  `CountMatchesIndices` is not inductive
  alone: the store of the new count keeps it only if the ISR did not run since
  the load (`CriticalSection`, which contains `NoLostUpdate`), and the count
  fits its type only because it equals a distance of indices.  The three are
  inductive together.  The refinement shows which step is the linearization
  point: the move of the tail for a read, the store of the count for a write.
  `BothSafe` and `BothImplementFifos` carry this over to the two halves under the one
  interrupt flag of the controller (`MCSpec`): a step of one half leaves the
  variables of the other alone, except for the flag, and it changes the flag
  only where the other half is outside of its critical section.
* `HostSessionProofs`.  That an answer matches the command that was sent
  (`AnswersMatch`) says nothing of the bytes on their way, so it is far from
  inductive.  `HostInv` reads all of them, in the receive buffer and still to be
  sent, as one sequence `Pending`, and says that it fits the state of the parser
  (`InStep`): nothing or the rest of what is skipped (`Between`), the rest of the
  line whose first part is in the parser's buffer (`WaitsForLine`), exactly the
  bytes that the parser still expects of a blob (`WaitsForBlob`), a line that is
  complete (`WholeLine`), or an answer on its way (`Answered`).  `Room` says that
  a symbol is taken for an overrun only in the middle of a line, so that none of
  a blob and none before a line is.  `HostedParser` shows that the host's
  steps are steps of `McParser` or stutters; the invariant and the refinement
  of the parser therefore hold of it in this system without a second proof.
  Two theorems are what `EveryExchangeEnds` rests on, next to the fairness:
  every step but a new command brings the exchange closer to its end
  (`ExchangeComesCloser`), in the lexicographic order of what is still to be
  answered and of the transfers that are left, and until the end there is always
  such a step to take (`ExchangeIsNeverStuck`).
* `WincSocketsProofs`.  `ClosedIsSilent` and `PendingWasAsked` are inductive
  only with the types and two facts about sockets: one that is in use has a
  session other than 0 (`OpenHasSession`), and so has each request for data or
  of a send that is in flight (`RequestHasSession`): a reply to one is told from
  a reply to a closed socket by that number alone.  `SessionIsKept` is the action
  property.  The choice of the lowest free socket needs that the naturals are
  well-founded.  Four theorems are about the functions of `WincHif`, and hold for
  every request, message and fault of the bus where the assumptions of
  `MCWincSockets` of the same names enumerate a few: `SuccessIsTold`,
  `FailedWakeStays`, `BlocksFit` and `InterruptsAndMessages`.  They ask that no
  256 calls are nested, that the control part of a request ends before its data,
  and that its length fits 16 bits; `LengthsWrap` shows what happens otherwise.
* `TwiMasterProofs`.  The inductive invariant joins the types, `WithinBuffer` and
  `ReadIntoBuffer` with what each state of the driver says of the lengths that
  are left (`Fits`, `Phase`) and of the bytes that are already on the wire
  (`WritesRequest` or `WritesRoom`, after a restart).  The lengths do not wrap
  because the flag for a refused address is cleared by the first byte.
* `AtcaExecProofs`.  The inductive invariant says of each place in the firmware
  what the device may be doing: `Timed` compares the delay with what the command
  still takes, `Awake` says where the device is awake unless there was a fault,
  `Answers` whose answer it holds and `Counts` how many faults an answer of
  another command needs.  `ExecImplementsExchange` maps each step with it.
* `EccCommandsProofs`.  `EccKnowledgeTrue` needs no strengthening but the
  types.  Each handler has a lemma that it ends in one of a few outcomes
  (refused, answered, written up to some offset, locked); the properties are
  then proved of the outcomes.
* `WincCommandsProofs`.  `WincTypeCorrect` needs what the place in the code
  says about the command (`PcOK`), which is part of `TypeOK`.
  `FlagsTellTheCPU` needs that the CPU runs while `m2m_wifi_init()` does, since
  the flags do not say so then, and that at start-up, where nobody clears
  `download_mode` afterwards, it is clear (`ModeInv`).
  `WincImplementsFlashStore` rests on `FlashInv`, which was
  first checked by TLC.  Two parts hold always: every cell still to change is
  one of `origin`'s and will be what `origin` makes of it (`WorkIsOrigins`), and
  nothing is answered early (`NoAnswerYet`).  The others hold only while the bus
  works, and are why the one check of the bus error at the end is enough: the
  flash is busy only where the code polls (`BusyIsPolled`), so it is not busy
  when it is told to write, and takes it (`Latched`), so what was dealt with is
  or will be in the flash (`WrittenSoFar`, `ErasedSector`).  `PageWindow` is the
  arithmetic that a part which fits its page does not wrap around.

Every safety invariant, action property and refinement of a passing run is the
statement of a theorem.  Only model-checked: all liveness (`EveryExchangeEnds`,
`EveryByteIsRead`, `WriteReturns`, `Drained`, `EveryCommandEnds`,
`TransferEnds`, `ExecutionEnds`), and the modules of functions, except `WincHif`,
for the inputs that the ASSUMEs enumerate.  Out of the provers' reach: liveness
under fairness and ENABLED, induction over data (the recursive functions of these
modules), and modules with RECURSIVE operators.  No module here declares one.

## 5. Not modelled, and the plan

Next, in this order:

1. A composition of `HostSession` with `EccCommands`: a host that repeats
   WRITEBLOB and LOCK until both are answered with OK ends with the slot
   written and locked, across restarts.
2. `spi_flash_erase()` for ranges longer than a sector: its header promises to
   round the end up to a whole sector, its loop does not do so for an address
   inside a sector.  The erase command is the only caller.
3. The asynchronous side of Wi-Fi, OTA and TLS: `WincRequests` has each request and
   each reply as a function; a module with replies in any order, as `WincSockets`
   has them, would be the next step.
4. Proofs: lemmas about the other modules of functions where no recursion is in the
   way: how certificates are cut (`Chunks` in `WincRequests`), the verdict on them
   (`Worse`), public keys and addresses in `ZoneAccess`.

Left out for good: headers, which declare and define constants that the models
of the code above carry with them, and which are most of what the map leaves
out; the parts of `winc/m2m` that the build options above leave out; the HALs of CryptoAuthLib for other
interfaces; the block functions of digests and ciphers; generated register set-up;
the wording of answers; examples, project files and the unit tests.
