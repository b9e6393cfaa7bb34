---------------------------- MODULE WincCommands ----------------------------
(***************************************************************************)
(* The WINC commands of winc_commands.c: they put the WINC in download     *)
(* mode and write, read or erase its flash through spi_flash.c, or put it  *)
(* back in normal mode to read the version of its firmware.                *)
(*                                                                         *)
(* A step is an exchange with the WINC over the SPI bus, which can fail at *)
(* any time.  The bus error is sticky: once set, every exchange fails      *)
(* until the WINC is started again.  The flash itself and the WINC's CPU   *)
(* are external.                                                           *)
(***************************************************************************)
EXTENDS Integers, Sequences

CONSTANTS
  FlashSize,     \* cells of the flash
  SectorSize,    \* FLASH_SECTOR_SZ
  PageSize,      \* FLASH_PAGE_SZ
  Bits,          \* the bits of a cell
  Blobs          \* the blobs the host sends, decoded

ASSUME WincAssumption ==
  /\ PageSize \in Nat \ {0}
  /\ SectorSize \in Nat \ {0} /\ SectorSize % PageSize = 0
  /\ FlashSize \in Nat \ {0} /\ FlashSize % SectorSize = 0
  /\ Blobs \subseteq Seq(SUBSET Bits)

Address == 0 .. (FlashSize - 1)

Request(kind, address, length, data) ==
  [kind |-> kind, address |-> address, length |-> length, data |-> data]

NoRequest == Request("none", 0, 0, <<>>)
StartUp   == Request("startup", 0, 0, <<>>)
Version   == Request("version", 0, 0, <<>>)

\* What passes the checks of the arguments, for a host that stays within the
\* flash: the code does not check that.
WriteRequests ==
  {Request("write", a, Len(d), d) : a \in Address, d \in Blobs}
WriteRequestsOK == {r \in WriteRequests : /\ r.length \in 1..PageSize
                                          /\ r.address + r.length <= FlashSize}
ReadRequests ==
  {r \in {Request("read", a, n, <<>>) : a \in Address, n \in 1..PageSize} :
     r.address + r.length <= FlashSize}
EraseRequests == {Request("erase", a, 0, <<>>) : a \in Address}

Requests == WriteRequestsOK \cup ReadRequests \cup EraseRequests \cup {Version}

VARIABLES
  pc,             \* the exchange to come, or "idle"
  request,        \* the command in progress
  written,        \* bytes of it that spi_flash_write() has dealt with
  download_mode,
  wifi_state,     \* gu8WifiState: "deinit", "init" or "start"
  bus_error,      \* bSPIBusError
  reply,          \* the answer to the last command ...
  returned,       \* ... and the cells that it read
  cpu,            \* external: the CPU of the WINC is "running" or "halted"
  flash,          \* external: the cells of the flash,
  goal,           \* what the program or erase in progress makes of them,
  wel,            \* its write enable latch, and
  origin          \* (history) the command that the work in progress is for

firmware == <<pc, request, written, download_mode, wifi_state, bus_error,
              reply, returned>>
die      == <<flash, goal, wel, origin>>
vars     == <<firmware, cpu, die>>

Busy == flash # goal
Writing == {"fill", "enable", "program", "poll", "disable"}
Erasing == {"erase_enable", "erase", "erase_poll"}
Booting == {"chip_init", "efuse", "boot"}

\* What the place in the code says about the command; a part of a blob that is
\* being written is not empty.
PcOK ==
  /\ pc = "idle" <=> request = NoRequest
  /\ pc = "startup" => request = StartUp
  /\ pc = "mode" => request # StartUp
  /\ pc \in Booting \cup {"version"} => request \in {StartUp, Version}
  /\ pc = "version" => request = Version
  /\ pc \in Writing => request.kind = "write" /\ written < request.length
  /\ pc \notin Writing => written = 0
  /\ pc \in Erasing => request.kind = "erase"
  /\ pc = "load" => request.kind = "read"

TypeOK ==
  /\ pc \in {"idle", "startup", "mode", "version", "load"}
           \cup Booting \cup Writing \cup Erasing
  /\ PcOK
  /\ request \in Requests \cup {NoRequest, StartUp}
  /\ written \in 0..request.length
  /\ download_mode \in BOOLEAN
  /\ wifi_state \in {"deinit", "init", "start"}
  /\ bus_error \in BOOLEAN
  /\ reply \in {"none", "OK", "error", "refused"}
  /\ returned \in Seq(SUBSET Bits)
  /\ cpu \in {"running", "halted"}
  /\ flash \in [Address -> SUBSET Bits]
  /\ goal \in [Address -> SUBSET Bits]
  /\ wel \in BOOLEAN
  /\ origin \in Requests \cup {NoRequest}

Init ==
  /\ pc = "startup" /\ request = StartUp /\ written = 0
  /\ download_mode = FALSE /\ wifi_state = "deinit" /\ bus_error = TRUE
  /\ reply = "none" /\ returned = <<>>
  /\ cpu = "running"
  /\ flash = [a \in Address |-> Bits] /\ goal = flash
  /\ wel = FALSE /\ origin = NoRequest
-----------------------------------------------------------------------------
(* The flash, as spi_flash.c uses it.  It programs within one page, where  *)
(* addresses wrap around, erases the whole sector an address lies in, and  *)
(* takes neither command while it is busy or not write enabled.            *)

Programmed(o, bytes) ==
  [a \in Address |->
     IF /\ a \div PageSize = o \div PageSize
        /\ (a - o) % PageSize < Len(bytes)
     THEN flash[a] \cap bytes[((a - o) % PageSize) + 1]
     ELSE flash[a]]

SectorErased(o) ==
  [a \in Address |->
     IF a \div SectorSize = o \div SectorSize THEN Bits ELSE flash[a]]

Accept(new) ==
  IF wel /\ ~Busy
    THEN /\ goal' = new
         /\ wel' = FALSE
         /\ origin' = (IF new = flash THEN NoRequest ELSE request)
         /\ UNCHANGED flash
    ELSE UNCHANGED die

SetLatch(on) == /\ wel' = IF Busy THEN wel ELSE on
                /\ UNCHANGED <<flash, goal, origin>>

\* The flash makes progress on one cell.
FlashStep ==
  \E a \in Address :
    /\ flash[a] # goal[a]
    /\ flash' = [flash EXCEPT ![a] = goal[a]]
    /\ origin' = IF flash' = goal THEN NoRequest ELSE origin
    /\ UNCHANGED <<goal, wel, cpu, firmware>>

\* Power-down and reset of the WINC, with delays in which the flash finishes
\* or is cut off.
ResetChip == /\ goal' = flash /\ origin' = NoRequest
             /\ wel' \in {FALSE, wel}
             /\ UNCHANGED flash
-----------------------------------------------------------------------------
(* The commands.                                                           *)

Begin(r, next) ==
  /\ pc = "idle"
  /\ request' = r /\ written' = 0
  /\ reply' = "none" /\ returned' = <<>>
  /\ pc' = next
  /\ UNCHANGED <<download_mode, wifi_state, bus_error, cpu, die>>

cmd_winc_writeblob == \E r \in WriteRequestsOK : Begin(r, "mode")
cmd_winc_read == \E r \in ReadRequests : Begin(r, "mode")
\* An address that is not a number is taken for 0.
cmd_winc_erasesector == \E r \in EraseRequests : Begin(r, "mode")
read_winc_version == Begin(Version, "mode")

\* Arguments that do not pass the checks.
RefuseArguments ==
  /\ pc = "idle"
  /\ reply' = "refused" /\ returned' = <<>>
  /\ UNCHANGED <<pc, request, written, download_mode, wifi_state, bus_error,
                 cpu, die>>

Answer(r) == /\ reply' = r /\ pc' = "idle"
             /\ request' = NoRequest /\ written' = 0

\* After winc_download_mode(), whose result nobody looks at.
Continue ==
  /\ pc' = IF request.kind = "write" THEN "fill"
           ELSE IF request.kind = "erase" THEN "erase_enable"
           ELSE IF request.kind = "read" THEN "load" ELSE "version"
  /\ UNCHANGED <<request, written, reply>>

\* m2m_wifi_init() returns to winc_init(), or to winc_download_mode(false),
\* which clears download_mode only now.
AfterWifiInit ==
  IF request = StartUp
    THEN Answer("none") /\ UNCHANGED download_mode
    ELSE Continue /\ download_mode' = FALSE

InRequestedMode == download_mode = (request.kind # "version")

AlreadyInMode ==
  /\ pc = "mode" /\ InRequestedMode
  /\ Continue
  /\ UNCHANGED <<download_mode, wifi_state, bus_error, returned, cpu, die>>

\* Mutant: the Wi-Fi is not de-initialized first.
EnterDownloadModeNoDeinit ==
  /\ pc = "mode" /\ ~InRequestedMode /\ request.kind # "version"
  /\ download_mode' = TRUE
  /\ ResetChip
  /\ \/ bus_error' = FALSE /\ cpu' = "running" /\ wifi_state' = wifi_state
     \/ bus_error' = TRUE /\ cpu' \in {"running", "halted"}
        /\ wifi_state' = wifi_state
     \/ bus_error' \in BOOLEAN /\ cpu' = "halted" /\ wifi_state' = "init"
  /\ Continue
  /\ UNCHANGED returned

\* m2m_wifi_deinit() and m2m_wifi_download_mode(): the WINC is reset and its
\* CPU halted.  It may not answer the first command on the bus, which sets no
\* bus error, or fail to halt; what comes after the halt is not checked.
EnterDownloadMode ==
  /\ pc = "mode" /\ ~InRequestedMode /\ request.kind # "version"
  /\ download_mode' = TRUE
  /\ ResetChip
  /\ \/ bus_error' = FALSE /\ cpu' = "running" /\ wifi_state' = "deinit"
     \/ bus_error' = TRUE /\ cpu' \in {"running", "halted"}
        /\ wifi_state' = "deinit"
     \/ bus_error' \in BOOLEAN /\ cpu' = "halted" /\ wifi_state' = "init"
  /\ Continue
  /\ UNCHANGED returned

\* m2m_wifi_init_hold(): the WINC is reset, and may not answer.
WifiInitHold ==
  /\ \/ pc = "startup"
     \/ pc = "mode" /\ ~InRequestedMode /\ request.kind = "version"
  /\ ResetChip
  /\ cpu' = "running" /\ bus_error' = FALSE
  /\ \/ /\ wifi_state' = "init" /\ pc' = "chip_init"
        /\ UNCHANGED <<request, written, reply, download_mode>>
     \/ wifi_state' = wifi_state /\ AfterWifiInit
  /\ UNCHANGED returned

ChipInitFails ==
  /\ pc \in {"chip_init", "boot"}
  /\ bus_error' = TRUE
  /\ AfterWifiInit
  /\ UNCHANGED <<wifi_state, returned, cpu, die>>

ReleaseCPU ==
  /\ pc = "chip_init" /\ ~bus_error
  /\ pc' = "efuse"
  /\ UNCHANGED <<request, written, download_mode, wifi_state, bus_error,
                 reply, returned, cpu, die>>

\* The loop that waits for the efuses reads 0 on a bus error, and does not end.
WaitForEfuse ==
  /\ pc = "efuse" /\ ~bus_error
  /\ \/ pc' = "boot" /\ bus_error' = FALSE
     \/ pc' = "efuse" /\ bus_error' = TRUE
  /\ UNCHANGED <<request, written, download_mode, wifi_state, reply, returned,
                 cpu, die>>

\* The firmware of the WINC runs; its version may not be readable.
FirmwareRuns ==
  /\ pc = "boot" /\ ~bus_error
  /\ wifi_state' = "start"
  /\ bus_error' \in BOOLEAN
  /\ AfterWifiInit
  /\ UNCHANGED <<returned, cpu, die>>

m2m_fwinfo_get_firmware_info ==
  /\ pc = "version"
  /\ \/ ~bus_error /\ Answer("OK") /\ UNCHANGED bus_error
     \/ Answer("error") /\ bus_error' \in {TRUE, bus_error}
  /\ UNCHANGED <<download_mode, wifi_state, returned, cpu, die>>
-----------------------------------------------------------------------------
(* spi_flash.c.                                                            *)

\* An exchange with the flash: if the bus works it takes effect, and may fail
\* after that.  If the bus fails before, it does not.
Exchange(effect) ==
  \/ ~bus_error /\ effect /\ bus_error' \in BOOLEAN
  \/ bus_error' = TRUE /\ UNCHANGED die

Offset == request.address + written
Left   == request.length - written
Room   == PageSize - (Offset % PageSize)

\* Mutant: a part of a page is written as if it were a whole page.
ChunkIgnoresPage == IF PageSize < Left THEN PageSize ELSE Left

\* The length of the next spi_flash_pp(): up to the end of the page.
Chunk == IF Room < Left THEN Room ELSE Left

Bytes == SubSeq(request.data, written + 1, written + Chunk)

Stay == UNCHANGED <<request, written, reply>>

FillMemory ==
  /\ pc = "fill"
  /\ \/ ~bus_error /\ pc' = "enable" /\ Stay /\ UNCHANGED bus_error
     \/ bus_error' = TRUE /\ Answer("error")
  /\ UNCHANGED <<download_mode, wifi_state, returned, cpu, die>>

spi_flash_write_enable ==
  /\ pc = "enable"
  /\ Exchange(SetLatch(TRUE))
  /\ pc' = "program" /\ Stay
  /\ UNCHANGED <<download_mode, wifi_state, returned, cpu>>

spi_flash_page_program ==
  /\ pc = "program"
  /\ Exchange(Accept(Programmed(Offset, Bytes)))
  /\ pc' = "poll" /\ Stay
  /\ UNCHANGED <<download_mode, wifi_state, returned, cpu>>

\* Mutant: a status that cannot be read does not end the loop.
PollNoBreak ==
  /\ pc = "poll"
  /\ \/ ~bus_error /\ ~Busy /\ pc' = "disable" /\ UNCHANGED bus_error
     \/ bus_error' = TRUE /\ pc' = "poll"
  /\ Stay
  /\ UNCHANGED <<download_mode, wifi_state, returned, cpu, die>>

\* The status is read until the flash is not busy or the bus fails.
PollStatus ==
  /\ pc = "poll"
  /\ \/ ~bus_error /\ ~Busy /\ pc' = "disable" /\ UNCHANGED bus_error
     \/ bus_error' = TRUE /\ pc' = "disable"
  /\ Stay
  /\ UNCHANGED <<download_mode, wifi_state, returned, cpu, die>>

\* Mutant: the loop goes on when nothing is left.
WriteDisableOneMore ==
  /\ pc = "disable"
  /\ Exchange(SetLatch(FALSE))
  /\ \/ bus_error' /\ Answer("error")
     \/ ~bus_error' /\ Chunk > Left /\ Answer("OK")
     \/ /\ ~bus_error' /\ Chunk <= Left
        /\ written' = written + Chunk /\ pc' = "fill"
        /\ UNCHANGED <<request, reply>>
  /\ UNCHANGED <<download_mode, wifi_state, returned, cpu>>

\* The last step of spi_flash_pp(), and the loop of spi_flash_write().
spi_flash_write_disable ==
  /\ pc = "disable"
  /\ Exchange(SetLatch(FALSE))
  /\ \/ bus_error' /\ Answer("error")
     \/ ~bus_error' /\ Chunk = Left /\ Answer("OK")
     \/ /\ ~bus_error' /\ Chunk < Left
        /\ written' = written + Chunk /\ pc' = "fill"
        /\ UNCHANGED <<request, reply>>
  /\ UNCHANGED <<download_mode, wifi_state, returned, cpu>>

\* spi_flash_erase() is called for one sector: its loop runs once.
EraseExchange(at, next, effect) ==
  /\ pc = at
  /\ Exchange(effect)
  /\ \/ bus_error' /\ Answer("error")
     \/ ~bus_error' /\ pc' = next /\ Stay
  /\ UNCHANGED <<download_mode, wifi_state, returned, cpu>>

EraseWriteEnable ==
  EraseExchange("erase_enable", "erase", SetLatch(TRUE))

spi_flash_sector_erase ==
  EraseExchange("erase", "erase_poll", Accept(SectorErased(request.address)))

ErasePollStatus ==
  /\ pc = "erase_poll"
  /\ \/ ~bus_error /\ ~Busy /\ Answer("OK") /\ UNCHANGED bus_error
     \/ bus_error' = TRUE /\ Answer("error")
  /\ UNCHANGED <<download_mode, wifi_state, returned, cpu, die>>

\* A flash that is busy does not give its cells.
spi_flash_read_internal ==
  /\ pc = "load"
  /\ \/ /\ ~bus_error /\ Answer("OK") /\ UNCHANGED bus_error
        /\ returned' = IF Busy THEN <<>>
                       ELSE [i \in 1..request.length |->
                               flash[request.address + i - 1]]
     \/ bus_error' = TRUE /\ Answer("error") /\ UNCHANGED returned
  /\ UNCHANGED <<download_mode, wifi_state, cpu, die>>
-----------------------------------------------------------------------------
\* The board is reset, by the host or a loss of power, at any time.
Restart ==
  /\ pc' = "startup" /\ request' = StartUp /\ written' = 0
  /\ download_mode' = FALSE /\ wifi_state' = "deinit" /\ bus_error' = TRUE
  /\ reply' = "none" /\ returned' = <<>>
  /\ goal' \in {flash, goal}
  /\ origin' = IF goal' = flash THEN NoRequest ELSE origin
  /\ UNCHANGED <<cpu, flash, wel>>

Command == cmd_winc_writeblob \/ cmd_winc_read \/ cmd_winc_erasesector
           \/ read_winc_version \/ RefuseArguments

Step == \/ AlreadyInMode \/ EnterDownloadMode
        \/ WifiInitHold \/ ChipInitFails \/ ReleaseCPU \/ WaitForEfuse
        \/ FirmwareRuns \/ m2m_fwinfo_get_firmware_info
        \/ FillMemory \/ spi_flash_write_enable \/ spi_flash_page_program
        \/ PollStatus \/ spi_flash_write_disable
        \/ EraseWriteEnable \/ spi_flash_sector_erase \/ ErasePollStatus
        \/ spi_flash_read_internal

Next == Command \/ Step \/ FlashStep \/ Restart

Spec == Init /\ [][Next]_vars

\* The firmware goes on, and the flash finishes.
FairSpec == Spec /\ WF_vars(Step) /\ WF_vars(FlashStep)
-----------------------------------------------------------------------------
(* Properties.                                                             *)

Pending == request \notin {NoRequest, StartUp}

Store == INSTANCE FlashStore WITH
  content <- flash,
  open    <- (IF Pending THEN {request} ELSE {})
             \cup (IF Busy THEN {origin} ELSE {}),
  asked   <- IF Pending THEN request ELSE NoRequest,
  answer  <- reply,
  value   <- returned

\* The commands keep the promise of FlashStore: no failure of the bus and no
\* restart touches a cell outside what the host asked for; a write or an erase
\* that is answered with OK is in the flash, whole and in place, and nothing
\* acts on the flash any more; a read returns the cells it asked for.
ImplementsFlashStore == Store!Spec

\* What the two flags of the code say of the CPU of the WINC whenever
\* m2m_wifi_init() is not in progress, whichever switches failed before.  In
\* download mode, which is also recorded after a switch that failed, a Wi-Fi
\* state that is initialized means that the CPU was halted.  In normal mode the
\* CPU is never held, but for a board that was reset and has not yet started the
\* WINC.  Within winc_download_mode(false), for ever if it hangs, the first
\* is not true: download_mode is still set while the CPU runs.
FlagsTellCPU ==
  pc \notin Booting =>
    /\ download_mode /\ wifi_state # "deinit" => cpu = "halted"
    /\ ~download_mode /\ pc # "startup" => cpu = "running"

\* The flash is written or erased only while the CPU of the WINC is halted.
FirmwareStopped == Busy => cpu = "halted"

\* In chip_init(), waiting for the efuses with a bus error set.
Hung == pc = "efuse" /\ bus_error

\* When the board is not reset for ever, every command is answered in the end,
\* even if the bus fails, unless it fails while the WINC loads its efuses.
EveryCommandEnds ==
  <>[][~Restart]_vars => (pc # "idle" ~> (pc = "idle" \/ Hung))
=============================================================================
