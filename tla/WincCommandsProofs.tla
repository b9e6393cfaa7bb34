------------------------- MODULE WincCommandsProofs -------------------------
(***************************************************************************)
(* Proofs about WincCommands, for every size of the flash, its sectors and *)
(* pages and every set of blobs: type correctness, what the flags of the   *)
(* code say of the CPU of the WINC, and that the commands keep the promise *)
(* of FlashStore.                                                          *)
(***************************************************************************)
EXTENDS WincCommands, SequenceTheorems, TLAPS

AllRequests == Requests \cup {NoRequest, StartUp}

\* The kinds tell the requests apart.
LEMMA RequestKinds ==
  /\ \A r \in WriteRequestsOK : r \in Requests /\ r.kind = "write"
  /\ \A r \in ReadRequests : r \in Requests /\ r.kind = "read"
  /\ \A r \in EraseRequests : r \in Requests /\ r.kind = "erase"
  /\ Version \in Requests /\ Version.kind = "version"
  /\ NoRequest.kind = "none" /\ StartUp.kind = "startup"
BY DEF Requests, WriteRequestsOK, WriteRequests, ReadRequests, EraseRequests,
       Version, NoRequest, StartUp, Request

\* Every request has a length, and only the version has its kind.
LEMMA RequestType ==
  ASSUME NEW r \in AllRequests
  PROVE  /\ r.length \in Nat
         /\ r.address \in Nat
         /\ r.kind = "write" => r \in WriteRequestsOK
         /\ r.kind = "read" => r \in ReadRequests
         /\ r.kind = "erase" => r \in EraseRequests
         /\ r.kind = "version" => r = Version
         /\ r.kind = "none" => r = NoRequest
         /\ r.kind = "startup" => r = StartUp
<1> USE WincAssumption DEF Address
<1>1. CASE r \in WriteRequestsOK
  <2>1. r.length \in 1..PageSize /\ r.address \in Nat
    BY <1>1 DEF WriteRequestsOK, WriteRequests, Request
  <2> QED BY <1>1, <2>1, RequestKinds
<1>2. CASE r \in ReadRequests
  <2>1. r.length \in 1..PageSize /\ r.address \in Nat
    BY <1>2 DEF ReadRequests, Request
  <2> QED BY <1>2, <2>1, RequestKinds
<1>3. CASE r \in EraseRequests
  <2>1. r.length = 0 /\ r.address \in Nat
    BY <1>3 DEF EraseRequests, Request
  <2> QED BY <1>3, <2>1, RequestKinds
<1>4. CASE r = Version \/ r = NoRequest \/ r = StartUp
  <2>1. r.length = 0 /\ r.address = 0
    BY <1>4 DEF Version, NoRequest, StartUp, Request
  <2> QED BY <1>4, <2>1, RequestKinds
<1> QED BY <1>1, <1>2, <1>3, <1>4 DEF AllRequests, Requests

\* Starting up is neither idle nor a command.
LEMMA StartUpType ==
  /\ StartUp \in AllRequests /\ StartUp.length = 0
  /\ StartUp # NoRequest /\ StartUp # Version
  /\ StartUp.kind = "startup"
BY RequestKinds DEF StartUp, Request, AllRequests

\* Reading nothing returns no cells.
LEMMA NothingReturned == <<>> \in Seq(SUBSET Bits)
BY EmptySeq

\* A write has a blob of at least one byte.
LEMMA WriteLength ==
  ASSUME NEW r \in WriteRequestsOK
  PROVE  r.length \in Nat /\ r.length > 0
BY WincAssumption DEF WriteRequestsOK
-----------------------------------------------------------------------------
(* The types in two halves: the firmware and the flash.                    *)

FirmwareOK ==
  /\ pc \in {"idle", "startup", "mode", "version", "load"}
           \cup Booting \cup Writing \cup Erasing
  /\ PcOK
  /\ request \in AllRequests
  /\ written \in 0..request.length
  /\ download_mode \in BOOLEAN
  /\ wifi_state \in {"deinit", "init", "start"}
  /\ bus_error \in BOOLEAN
  /\ reply \in {"none", "OK", "error", "refused"}
  /\ returned \in Seq(SUBSET Bits)
  /\ cpu \in {"running", "halted"}

DieOK ==
  /\ flash \in [Address -> SUBSET Bits]
  /\ goal \in [Address -> SUBSET Bits]
  /\ wel \in BOOLEAN
  /\ origin \in Requests \cup {NoRequest}

\* The two halves are the type invariant.
LEMMA TypeHalves == TypeOK <=> FirmwareOK /\ DieOK
BY DEF TypeOK, FirmwareOK, DieOK, AllRequests

\* A program or an erase, accepted or not, leaves the flash well typed.
LEMMA AcceptType ==
  ASSUME DieOK, request \in Requests,
         NEW new \in [Address -> SUBSET Bits], Accept(new)
  PROVE  DieOK'
BY DEF Accept, DieOK, die

\* Programming clears bits of cells.
LEMMA ProgrammedType ==
  ASSUME DieOK, NEW o, NEW bytes
  PROVE  Programmed(o, bytes) \in [Address -> SUBSET Bits]
<1> SUFFICES ASSUME NEW a \in Address
             PROVE  Programmed(o, bytes)[a] \in SUBSET Bits
  BY DEF Programmed
<1>1. flash[a] \in SUBSET Bits
  BY DEF DieOK
<1> QED BY <1>1 DEF Programmed

\* Erasing sets all bits of cells.
LEMMA SectorErasedType ==
  ASSUME DieOK, NEW o
  PROVE  SectorErased(o) \in [Address -> SUBSET Bits]
BY DEF DieOK, SectorErased

\* Every exchange leaves the flash well typed.
LEMMA StepDieOK ==
  ASSUME TypeOK, Next
  PROVE  DieOK'
<1>1. FirmwareOK /\ DieOK
  BY TypeHalves
<1>2. CASE UNCHANGED die
  BY <1>1, <1>2 DEF DieOK, die
<1>3. CASE ResetChip
  BY <1>1, <1>3 DEF ResetChip, DieOK
<1>4. ASSUME NEW on \in BOOLEAN, SetLatch(on)
      PROVE  DieOK'
  BY <1>1, <1>4 DEF SetLatch, DieOK
<1>5. CASE spi_flash_page_program
  <2>1. request \in Requests
    BY <1>1, <1>5, RequestType, RequestKinds
    DEF spi_flash_page_program, FirmwareOK, PcOK, Writing
  <2> DEFINE new == Programmed(Offset, Bytes)
  <2>2. new \in [Address -> SUBSET Bits]
    BY <1>1, ProgrammedType
  <2>3. Accept(new) \/ UNCHANGED die
    BY <1>5 DEF spi_flash_page_program, Exchange
  <2> HIDE DEF new
  <2> QED BY <1>1, <1>2, <2>1, <2>2, <2>3, AcceptType
<1>6. CASE spi_flash_sector_erase
  <2>1. request \in Requests
    BY <1>1, <1>6, RequestType, RequestKinds
    DEF spi_flash_sector_erase, EraseExchange, FirmwareOK, PcOK, Erasing
  <2> DEFINE new == SectorErased(request.address)
  <2>2. new \in [Address -> SUBSET Bits]
    BY <1>1, SectorErasedType
  <2>3. Accept(new) \/ UNCHANGED die
    BY <1>6 DEF spi_flash_sector_erase, EraseExchange, Exchange
  <2> HIDE DEF new
  <2> QED BY <1>1, <1>2, <2>1, <2>2, <2>3, AcceptType
<1>7. CASE FlashStep
  <2>1. PICK a \in Address : /\ flash' = [flash EXCEPT ![a] = goal[a]]
                             /\ UNCHANGED <<goal, wel>>
                             /\ origin' \in {NoRequest, origin}
    BY <1>7 DEF FlashStep
  <2>2. goal[a] \in SUBSET Bits
    BY <1>1 DEF DieOK
  <2>3. flash' \in [Address -> SUBSET Bits]
    BY <1>1, <2>1, <2>2 DEF DieOK
  <2> QED BY <1>1, <2>1, <2>3 DEF DieOK
<1>8. CASE Restart
  BY <1>1, <1>8 DEF Restart, DieOK
<1>9. CASE spi_flash_write_enable \/ EraseWriteEnable
           \/ spi_flash_write_disable
  <2>1. SetLatch(TRUE) \/ SetLatch(FALSE) \/ UNCHANGED die
    BY <1>9 DEF spi_flash_write_enable, EraseWriteEnable, EraseExchange,
                spi_flash_write_disable, Exchange
  <2> QED BY <1>2, <1>4, <2>1
<1>10. CASE Command
  BY <1>2, <1>10
  DEF Command, cmd_winc_writeblob, cmd_winc_read, cmd_winc_erasesector,
      read_winc_version, RefuseArguments, Begin
<1>11. CASE EnterDownloadMode \/ WifiInitHold
  BY <1>3, <1>11 DEF EnterDownloadMode, WifiInitHold
<1>12. CASE AlreadyInMode \/ ChipInitFails \/ ReleaseCPU \/ WaitForEfuse
            \/ FirmwareRuns \/ m2m_fwinfo_get_firmware_info \/ FillMemory
            \/ PollStatus \/ ErasePollStatus \/ spi_flash_read_internal
  BY <1>2, <1>12
  DEF AlreadyInMode, ChipInitFails, ReleaseCPU, WaitForEfuse, FirmwareRuns,
      m2m_fwinfo_get_firmware_info, FillMemory, PollStatus, ErasePollStatus,
      spi_flash_read_internal
<1> QED
  BY <1>5, <1>6, <1>7, <1>8, <1>9, <1>10, <1>11, <1>12 DEF Next, Step
-----------------------------------------------------------------------------
\* The end of a command leaves the firmware idle.
LEMMA AnswerType ==
  ASSUME NEW r \in {"none", "OK", "error", "refused"}, Answer(r)
  PROVE  /\ pc' = "idle" /\ request' = NoRequest /\ PcOK'
         /\ request' \in AllRequests /\ written' \in 0..(request'.length)
         /\ reply' \in {"none", "OK", "error", "refused"}
<1>1. NoRequest.length = 0 /\ NoRequest # StartUp /\ NoRequest # Version
  BY RequestKinds DEF NoRequest, Request
<1> QED
  BY <1>1 DEF Answer, PcOK, AllRequests, Booting, Writing, Erasing

\* After the switch of mode a command goes on with what it is for.
LEMMA ContinueType ==
  ASSUME FirmwareOK, pc \in {"mode"} \cup Booting, request # StartUp, Continue
  PROVE  /\ pc' \in {"fill", "erase_enable", "load", "version"}
         /\ PcOK' /\ request' = request /\ written' = written
         /\ reply' = reply
<1>1. request \in Requests
  BY DEF FirmwareOK, PcOK, AllRequests, Booting
<1>2. request.kind \in {"write", "read", "erase", "version"}
  BY <1>1, RequestKinds DEF Requests
<1>3. request # NoRequest /\ request # StartUp
  BY <1>2, RequestKinds
<1>4. request.kind = "write" => 0 < request.length
  BY RequestType, WriteLength DEF FirmwareOK
<1>5. request.kind = "version" => request = Version
  BY RequestType DEF FirmwareOK
<1>6. written = 0
  BY DEF FirmwareOK, PcOK, Booting, Writing
<1> QED
  BY <1>2, <1>3, <1>4, <1>5, <1>6
  DEF Continue, PcOK, Booting, Writing, Erasing

\* After m2m_wifi_init(), at start-up or in a command.
LEMMA AfterWifiInitType ==
  ASSUME FirmwareOK, pc \in {"startup", "mode"} \cup Booting,
         pc = "mode" => request # StartUp, AfterWifiInit
  PROVE  /\ pc' \in {"idle", "fill", "erase_enable", "load", "version"}
         /\ PcOK' /\ request' \in AllRequests
         /\ written' \in 0..(request'.length)
         /\ reply' \in {"none", "OK", "error", "refused"}
         /\ download_mode' \in BOOLEAN
<1>1. CASE request = StartUp
  <2>1. Answer("none") /\ download_mode' = download_mode
    BY <1>1 DEF AfterWifiInit
  <2> QED BY <2>1, AnswerType DEF FirmwareOK
<1>2. CASE request # StartUp
  <2>1. pc \in {"mode"} \cup Booting
    BY <1>2 DEF FirmwareOK, PcOK
  <2> QED BY <1>2, <2>1, ContinueType DEF AfterWifiInit, FirmwareOK
<1> QED BY <1>1, <1>2

\* A write that goes on has a next part that is not empty.
LEMMA ChunkAdvances ==
  ASSUME FirmwareOK, pc = "disable", Chunk < Left
  PROVE  /\ written + Chunk \in 0..request.length
         /\ written + Chunk < request.length
<1>1. /\ request.length \in Nat /\ request.address \in Nat
      /\ written \in Nat
  BY RequestType DEF FirmwareOK
<1>2. Room \in 1..PageSize
  BY <1>1, WincAssumption DEF Room, Offset
<1> HIDE DEF Room
<1> QED BY <1>1, <1>2 DEF Chunk, Left, FirmwareOK
-----------------------------------------------------------------------------
\* The start of a command.
LEMMA BeginType ==
  ASSUME FirmwareOK, NEW r \in Requests, Begin(r, "mode")
  PROVE  FirmwareOK'
<1>1. r # NoRequest /\ r # StartUp /\ r.length \in Nat
  BY RequestKinds, RequestType DEF Requests, AllRequests
<1> QED
  BY <1>1 DEF Begin, FirmwareOK, PcOK, AllRequests, Booting, Writing, Erasing

\* Every step leaves the firmware well typed.
LEMMA StepFirmwareOK ==
  ASSUME TypeOK, Next
  PROVE  FirmwareOK'
<1>1. FirmwareOK /\ DieOK
  BY TypeHalves
<1> USE DEF FirmwareOK
<1>2. CASE cmd_winc_writeblob \/ cmd_winc_read \/ cmd_winc_erasesector
           \/ read_winc_version
  <2>1. \E r \in Requests : Begin(r, "mode")
    BY <1>2, RequestKinds
    DEF cmd_winc_writeblob, cmd_winc_read, cmd_winc_erasesector,
        read_winc_version
  <2> QED BY <1>1, <2>1, BeginType
<1>3. CASE RefuseArguments
  BY <1>1, <1>3 DEF RefuseArguments, PcOK, Booting, Writing, Erasing
<1>4. CASE AlreadyInMode
  <2>1. pc = "mode" /\ request # StartUp /\ Continue
    BY <1>1, <1>4 DEF AlreadyInMode, PcOK
  <2> QED BY <1>1, <1>4, <2>1, ContinueType
          DEF AlreadyInMode, Booting, Writing, Erasing
<1>5. CASE EnterDownloadMode
  <2>1. pc = "mode" /\ request # StartUp /\ Continue
    BY <1>1, <1>5 DEF EnterDownloadMode, PcOK
  <2>2. /\ download_mode' = TRUE /\ bus_error' \in BOOLEAN
        /\ cpu' \in {"running", "halted"}
        /\ wifi_state' \in {"deinit", "init"} /\ returned' = returned
    BY <1>5 DEF EnterDownloadMode
  <2> QED BY <1>1, <2>1, <2>2, ContinueType DEF Booting, Writing, Erasing
<1>6. CASE WifiInitHold
  <2>1. /\ pc \in {"startup", "mode"} /\ (pc = "mode" => request # StartUp)
        /\ (pc = "mode" => request = Version)
        /\ (pc = "startup" => request = StartUp)
    BY <1>1, <1>6, RequestType DEF WifiInitHold, PcOK
  <2>2. CASE /\ pc' = "chip_init"
             /\ UNCHANGED <<request, written, reply, download_mode>>
    <3>1. NoRequest # StartUp /\ NoRequest # Version /\ written = 0
      BY <1>1, <2>1, RequestKinds DEF PcOK, Writing
    <3> QED BY <1>1, <1>6, <2>1, <2>2, <3>1
            DEF WifiInitHold, PcOK, Booting, Writing, Erasing
  <2>3. CASE AfterWifiInit /\ wifi_state' = wifi_state
    BY <1>1, <1>6, <2>1, <2>3, AfterWifiInitType
    DEF WifiInitHold, Booting, Writing, Erasing
  <2> QED BY <1>6, <2>2, <2>3 DEF WifiInitHold
<1>7. CASE ChipInitFails \/ FirmwareRuns
  <2>1. pc \in Booting /\ AfterWifiInit
    BY <1>7 DEF ChipInitFails, FirmwareRuns, Booting
  <2>2. /\ bus_error' \in BOOLEAN
        /\ wifi_state' \in {"deinit", "init", "start"}
        /\ UNCHANGED <<returned, cpu>>
    BY <1>1, <1>7 DEF ChipInitFails, FirmwareRuns
  <2> QED BY <1>1, <2>1, <2>2, AfterWifiInitType
          DEF Booting, Writing, Erasing
<1>8. CASE ReleaseCPU \/ WaitForEfuse
  BY <1>1, <1>8
  DEF ReleaseCPU, WaitForEfuse, PcOK, Booting, Writing, Erasing
<1>9. CASE m2m_fwinfo_get_firmware_info
  <2>1. Answer("OK") \/ Answer("error")
    BY <1>9 DEF m2m_fwinfo_get_firmware_info
  <2>2. /\ bus_error' \in BOOLEAN
        /\ UNCHANGED <<download_mode, wifi_state, returned, cpu>>
    BY <1>1, <1>9 DEF m2m_fwinfo_get_firmware_info
  <2> QED BY <1>1, <2>1, <2>2, AnswerType
<1>10. CASE FillMemory
  <2>1. /\ bus_error' \in BOOLEAN
        /\ UNCHANGED <<download_mode, wifi_state, returned, cpu>>
    BY <1>1, <1>10 DEF FillMemory
  <2>2. CASE Answer("error")
    BY <1>1, <2>1, <2>2, AnswerType
  <2>3. CASE pc' = "enable" /\ Stay
    BY <1>1, <1>10, <2>1, <2>3
    DEF FillMemory, Stay, PcOK, Booting, Writing, Erasing
  <2> QED BY <1>10, <2>2, <2>3 DEF FillMemory
<1>11. CASE spi_flash_write_enable \/ spi_flash_page_program \/ PollStatus
  <2>1. /\ bus_error' \in BOOLEAN
        /\ UNCHANGED <<download_mode, wifi_state, returned, cpu>>
    BY <1>1, <1>11
    DEF spi_flash_write_enable, spi_flash_page_program, PollStatus, Exchange
  <2>2. pc \in Writing /\ pc' \in Writing /\ Stay
    BY <1>11
    DEF spi_flash_write_enable, spi_flash_page_program, PollStatus, Writing
  <2> QED BY <1>1, <2>1, <2>2 DEF Stay, PcOK, Booting, Writing, Erasing
<1>12. CASE spi_flash_write_disable
  <2>1. /\ bus_error' \in BOOLEAN
        /\ UNCHANGED <<download_mode, wifi_state, returned, cpu>>
        /\ pc = "disable"
    BY <1>1, <1>12 DEF spi_flash_write_disable, Exchange
  <2>2. CASE Answer("error") \/ Answer("OK")
    BY <1>1, <2>1, <2>2, AnswerType
  <2>3. CASE /\ Chunk < Left /\ written' = written + Chunk /\ pc' = "fill"
             /\ UNCHANGED <<request, reply>>
    <3>1. /\ written' \in 0..request.length
          /\ written' < request.length
      BY <1>1, <2>1, <2>3, ChunkAdvances
    <3> QED BY <1>1, <2>1, <2>3, <3>1 DEF PcOK, Booting, Writing, Erasing
  <2> QED BY <1>12, <2>2, <2>3 DEF spi_flash_write_disable
<1>13. CASE EraseWriteEnable \/ spi_flash_sector_erase \/ ErasePollStatus
  <2>1. /\ bus_error' \in BOOLEAN
        /\ UNCHANGED <<download_mode, wifi_state, returned, cpu>>
    BY <1>1, <1>13
    DEF EraseWriteEnable, spi_flash_sector_erase, ErasePollStatus,
        EraseExchange, Exchange
  <2>2. CASE Answer("error") \/ Answer("OK")
    BY <1>1, <2>1, <2>2, AnswerType
  <2>3. CASE pc \in Erasing /\ pc' \in Erasing /\ Stay
    BY <1>1, <2>1, <2>3 DEF Stay, PcOK, Booting, Writing, Erasing
  <2> QED
    BY <1>13, <2>2, <2>3
    DEF EraseWriteEnable, spi_flash_sector_erase, ErasePollStatus,
        EraseExchange, Erasing
<1>14. CASE spi_flash_read_internal
  <2>1. Answer("error") \/ Answer("OK")
    BY <1>14 DEF spi_flash_read_internal
  <2>2. /\ bus_error' \in BOOLEAN
        /\ UNCHANGED <<download_mode, wifi_state, cpu>>
    BY <1>1, <1>14 DEF spi_flash_read_internal
  <2>3. request \in ReadRequests
    BY <1>1, <1>14, RequestType DEF spi_flash_read_internal, PcOK
  <2> DEFINE read == [i \in 1..request.length |->
                        flash[request.address + i - 1]]
  <2>4. read \in Seq(SUBSET Bits)
    <3>1. /\ request.length \in Nat /\ request.address \in Nat
          /\ request.address + request.length <= FlashSize
      BY <2>3, RequestType DEF ReadRequests, AllRequests, Requests
    <3>2. \A i \in 1..request.length :
            flash[request.address + i - 1] \in SUBSET Bits
      BY <1>1, <3>1, WincAssumption DEF DieOK, Address
    <3> HIDE DEF read
    <3>3. DOMAIN read = 1..request.length
      BY DEF read
    <3>4. \A i \in 1..request.length : read[i] \in SUBSET Bits
      BY <3>2 DEF read
    <3>5. read = [i \in 1..request.length |-> read[i]]
      BY DEF read
    <3> QED BY <3>1, <3>4, <3>5
  <2>5. returned' \in {<<>>, read, returned}
    BY <1>14 DEF spi_flash_read_internal
  <2> HIDE DEF read
  <2>6. returned' \in Seq(SUBSET Bits)
    BY <1>1, <2>4, <2>5, NothingReturned
  <2> QED BY <1>1, <2>1, <2>2, <2>6, AnswerType
<1>15. CASE FlashStep
  BY <1>1, <1>15
  DEF FlashStep, firmware, PcOK, Booting, Writing, Erasing
<1>16. CASE Restart
  <2>1. PcOK'
    BY <1>16, StartUpType DEF Restart, PcOK, Booting, Writing, Erasing
  <2>2. request' \in AllRequests /\ written' \in 0..(request'.length)
    BY <1>16, StartUpType DEF Restart
  <2>3. returned' \in Seq(SUBSET Bits)
    BY <1>16, NothingReturned DEF Restart
  <2> QED BY <1>1, <1>16, <2>1, <2>2, <2>3 DEF Restart
<1> QED
  BY <1>2, <1>3, <1>4, <1>5, <1>6, <1>7, <1>8, <1>9, <1>10, <1>11, <1>12,
     <1>13, <1>14, <1>15, <1>16 DEF Next, Command, Step

\* Type correctness: the parts of a blob add up to it, and the place in the
\* code fits the command in progress.
THEOREM WincTypeCorrect == Spec => []TypeOK
<1>1. Init => TypeOK
  <2> SUFFICES ASSUME Init PROVE TypeOK
    OBVIOUS
  <2>1. PcOK
    BY StartUpType DEF Init, PcOK, Booting, Writing, Erasing
  <2>2. FirmwareOK
    <3>1. /\ pc = "startup" /\ request = StartUp /\ written = 0
          /\ download_mode = FALSE /\ wifi_state = "deinit"
          /\ bus_error = TRUE /\ reply = "none" /\ returned = <<>>
          /\ cpu = "running"
      BY DEF Init
    <3>2. written \in 0..request.length
      BY <3>1, StartUpType
    <3>3. returned \in Seq(SUBSET Bits)
      BY <3>1, NothingReturned
    <3> QED BY <2>1, <3>1, <3>2, <3>3, StartUpType DEF FirmwareOK
  <2>3. DieOK
    BY DEF Init, DieOK
  <2> QED BY <2>2, <2>3, TypeHalves
<1>2. TypeOK /\ [Next]_vars => TypeOK'
  <2> SUFFICES ASSUME TypeOK, [Next]_vars PROVE TypeOK'
    OBVIOUS
  <2>1. CASE Next
    <3>1. FirmwareOK' /\ DieOK'
      BY <2>1, StepFirmwareOK, StepDieOK
    <3> QED BY <3>1 DEF TypeOK, FirmwareOK, DieOK, AllRequests
  <2>2. CASE UNCHANGED vars
    BY <2>2
    DEF vars, firmware, die, TypeOK, PcOK, Booting, Writing, Erasing
  <2> QED BY <2>1, <2>2
<1> QED BY <1>1, <1>2, PTL DEF Spec
-----------------------------------------------------------------------------
(* The flags and the CPU.  m2m_wifi_init() leaves the CPU running, so that  *)
(* when it returns the flags must say normal mode: winc_download_mode()    *)
(* clears download_mode then, and at start-up it has never been set.       *)

ModeInv ==
  /\ request = StartUp => ~download_mode
  /\ pc \in Booting => cpu = "running"
  /\ FlagsTellCPU

\* When m2m_wifi_init() returns, the WINC is in normal mode and its CPU runs.
LEMMA InitEndsInNormalMode ==
  ASSUME FirmwareOK, pc \in {"startup", "mode"} \cup Booting,
         pc = "mode" => request # StartUp,
         request = StartUp => ~download_mode,
         AfterWifiInit, cpu' = "running"
  PROVE  ModeInv'
<1>1. pc' \notin Booting
  BY AfterWifiInitType DEF Booting
<1>2. ~download_mode'
  BY DEF AfterWifiInit
<1> QED BY <1>1, <1>2 DEF ModeInv, FlagsTellCPU

\* The steps in which neither a flag nor the CPU changes, of a command or of the
\* flash, and not in m2m_wifi_init().
LEMMA FlagsUnchanged ==
  ASSUME ModeInv, UNCHANGED <<download_mode, wifi_state, cpu>>,
         pc \notin Booting, pc # "startup", pc' \notin Booting,
         request' # StartUp
  PROVE  ModeInv'
BY DEF ModeInv, FlagsTellCPU

\* Every step preserves what the flags say of the CPU.
LEMMA StepModeInv ==
  ASSUME TypeOK, ModeInv, Next
  PROVE  ModeInv'
<1>1. FirmwareOK
  BY TypeHalves
<1>2. /\ pc = "mode" => request # StartUp
      /\ pc = "startup" => request = StartUp
  BY <1>1 DEF FirmwareOK, PcOK
<1>3. CASE cmd_winc_writeblob \/ cmd_winc_read \/ cmd_winc_erasesector
           \/ read_winc_version
  <2>1. PICK r \in Requests : Begin(r, "mode")
    BY <1>3, RequestKinds
    DEF cmd_winc_writeblob, cmd_winc_read, cmd_winc_erasesector,
        read_winc_version
  <2>2. r # StartUp
    BY RequestKinds DEF Requests
  <2> QED BY <2>1, <2>2, FlagsUnchanged DEF Begin, Booting
<1>4. CASE RefuseArguments
  <2>1. request # StartUp
    BY <1>1, <1>4, StartUpType DEF RefuseArguments, FirmwareOK, PcOK
  <2> QED BY <1>4, <2>1, FlagsUnchanged DEF RefuseArguments, Booting
<1>5. CASE AlreadyInMode
  <2>1. Continue /\ pc = "mode" /\ UNCHANGED <<download_mode, wifi_state, cpu>>
    BY <1>5 DEF AlreadyInMode
  <2> QED BY <1>2, <2>1, FlagsUnchanged DEF Continue, Booting
<1>6. CASE EnterDownloadMode
  BY <1>2, <1>6 DEF EnterDownloadMode, Continue, ModeInv, FlagsTellCPU, Booting
<1>7. CASE WifiInitHold
  <2>1. pc \in {"startup", "mode"} /\ cpu' = "running"
    BY <1>7 DEF WifiInitHold
  <2>2. CASE pc' = "chip_init" /\ UNCHANGED <<request, download_mode>>
    BY <2>1, <2>2 DEF ModeInv, FlagsTellCPU, Booting
  <2>3. CASE AfterWifiInit
    BY <1>1, <1>2, <2>1, <2>3, InitEndsInNormalMode DEF ModeInv
  <2> QED BY <1>7, <2>2, <2>3 DEF WifiInitHold
<1>8. CASE ChipInitFails \/ FirmwareRuns
  <2>1. pc \in Booting /\ AfterWifiInit /\ cpu' = cpu
    BY <1>8 DEF ChipInitFails, FirmwareRuns, Booting
  <2>2. cpu' = "running" /\ pc # "mode"
    BY <2>1 DEF ModeInv, Booting
  <2> QED BY <1>1, <2>1, <2>2, InitEndsInNormalMode DEF ModeInv
<1>9. CASE ReleaseCPU \/ WaitForEfuse
  BY <1>9 DEF ReleaseCPU, WaitForEfuse, ModeInv, FlagsTellCPU, Booting
<1>10. CASE m2m_fwinfo_get_firmware_info \/ FillMemory
            \/ spi_flash_write_enable \/ spi_flash_page_program
            \/ PollStatus \/ spi_flash_write_disable \/ EraseWriteEnable
            \/ spi_flash_sector_erase \/ ErasePollStatus
            \/ spi_flash_read_internal
  <2>1. UNCHANGED <<download_mode, wifi_state, cpu>>
    BY <1>10
    DEF m2m_fwinfo_get_firmware_info, FillMemory, spi_flash_write_enable,
        spi_flash_page_program, PollStatus, spi_flash_write_disable,
        EraseWriteEnable, spi_flash_sector_erase, ErasePollStatus,
        EraseExchange, spi_flash_read_internal
  <2>2. pc \in {"version", "load"} \cup Writing \cup Erasing
    BY <1>10
    DEF m2m_fwinfo_get_firmware_info, FillMemory, spi_flash_write_enable,
        spi_flash_page_program, PollStatus, spi_flash_write_disable,
        EraseWriteEnable, spi_flash_sector_erase, ErasePollStatus,
        EraseExchange, spi_flash_read_internal, Writing, Erasing
  <2>3. /\ pc' \notin Booting
        /\ request' \in {request, NoRequest}
    BY <1>10
    DEF m2m_fwinfo_get_firmware_info, FillMemory, spi_flash_write_enable,
        spi_flash_page_program, PollStatus, spi_flash_write_disable,
        EraseWriteEnable, spi_flash_sector_erase, ErasePollStatus,
        EraseExchange, spi_flash_read_internal, Answer, Stay, Booting
  <2>4. request # StartUp
    BY <1>1, <2>2, StartUpType, RequestKinds DEF FirmwareOK, PcOK
  <2>5. pc \notin Booting /\ pc # "startup" /\ request' # StartUp
    BY <2>2, <2>3, <2>4, StartUpType DEF Booting, Writing, Erasing
  <2> QED BY <2>1, <2>3, <2>5, FlagsUnchanged
<1>11. CASE FlashStep
  BY <1>11 DEF FlashStep, firmware, ModeInv, FlagsTellCPU
<1>12. CASE Restart
  BY <1>12 DEF Restart, ModeInv, FlagsTellCPU, Booting
<1> QED
  BY <1>3, <1>4, <1>5, <1>6, <1>7, <1>8, <1>9, <1>10, <1>11, <1>12
  DEF Next, Command, Step

\* Whatever switches failed before: outside of m2m_wifi_init() an initialized
\* Wi-Fi state in download mode means that the CPU of the WINC was halted, and
\* in normal mode, once the WINC was started, it runs.
THEOREM FlagsTellTheCPU == Spec => []FlagsTellCPU
<1>1. Init => ModeInv
  BY DEF Init, ModeInv, FlagsTellCPU, Booting
<1>2. TypeOK /\ ModeInv /\ [Next]_vars => ModeInv'
  <2> SUFFICES ASSUME TypeOK, ModeInv, [Next]_vars
               PROVE  ModeInv'
    OBVIOUS
  <2>1. CASE Next
    BY <2>1, StepModeInv
  <2>2. CASE UNCHANGED vars
    BY <2>2 DEF vars, firmware, ModeInv, FlagsTellCPU
  <2> QED BY <2>1, <2>2
<1>3. ModeInv => FlagsTellCPU
  BY DEF ModeInv
<1> QED BY <1>1, <1>2, <1>3, WincTypeCorrect, PTL DEF Spec
-----------------------------------------------------------------------------
(* The WINC commands keep the promise of FlashStore.  The flash works only *)
(* for the request that it was given, and while the bus works it takes     *)
(* what it is given: with the types, FlashInv is the inductive invariant.  *)

\* The flash works only for the request that it was given.
WorkIsOrigins ==
  \A a \in Address : goal[a] # flash[a] =>
    /\ origin \in Requests /\ a \in Store!Cells(origin)
    /\ goal[a] = Store!Effect(origin, a)

\* While the bus works, the flash is busy only where the code polls, and for
\* the request in progress.
BusyIsPolled ==
  Busy /\ ~bus_error => pc \in {"poll", "erase_poll"} /\ origin = request

\* While the bus works, the flash takes what it is given.
Latched == pc \in {"program", "erase"} /\ ~bus_error => wel

\* The bytes of a blob that the flash has taken.
Taken == IF pc \in {"poll", "disable"} THEN written + Chunk ELSE written

\* While the bus works, what spi_flash_write() has dealt with is in the flash,
\* or will be.
WrittenSoFar ==
  pc \in Writing /\ ~bus_error =>
    \A i \in 1..Taken : goal[request.address + i - 1] \subseteq request.data[i]

\* While the bus works, an erase that was accepted is for the whole sector.
ErasedSector ==
  pc = "erase_poll" /\ ~bus_error =>
    \A a \in Store!Sector(request.address) : goal[a] = Bits

\* Nothing is answered before the end of a command.
NoAnswerYet ==
  request # NoRequest => reply = "none" /\ returned = <<>>

\* With the types, the inductive invariant.
FlashInv ==
  /\ WorkIsOrigins /\ BusyIsPolled /\ Latched
  /\ WrittenSoFar /\ ErasedSector /\ NoAnswerYet
-----------------------------------------------------------------------------
(* The arithmetic of pages.                                                *)

\* Quotient and remainder.
LEMMA DivMod ==
  ASSUME NEW P \in Nat \ {0}, NEW a \in Int
  PROVE  /\ a \div P \in Int /\ a % P \in 0..(P - 1)
         /\ a = P * (a \div P) + (a % P)
OBVIOUS

\* They are unique.
LEMMA DivModUnique ==
  ASSUME NEW P \in Nat \ {0}, NEW a \in Int, NEW q \in Int,
         NEW r \in 0..(P - 1), a = P * q + r
  PROVE  a \div P = q /\ a % P = r
OBVIOUS

\* From an offset in a page, n cells that stay in the page are the next n.
LEMMA PageWindow ==
  ASSUME NEW P \in Nat \ {0}, NEW o \in Nat, NEW a \in Nat, NEW n \in Nat,
         n <= P - (o % P)
  PROVE  /\ a \div P = o \div P /\ (a - o) % P < n
              <=> a \in o .. (o + n - 1)
         /\ a \in o .. (o + n - 1) => (a - o) % P = a - o
<1>1. o \div P \in Int /\ o % P \in 0..(P - 1) /\ o = P * (o \div P) + (o % P)
  BY DivMod
<1>2. a \div P \in Int /\ a % P \in 0..(P - 1) /\ a = P * (a \div P) + (a % P)
  BY DivMod
<1> DEFINE q == o \div P
           r == o % P
           s == a % P
<1>3. ASSUME a \in o .. (o + n - 1)
      PROVE  a \div P = q /\ (a - o) % P = a - o
  <2> DEFINE t == r + (a - o)
  <2>1. t \in 0..(P - 1) /\ a = P * q + t
    <3>1. o = P * q + r /\ r \in 0..(P - 1) /\ n <= P - r /\ P * q \in Int
      BY <1>1
    <3> HIDE DEF q, r
    <3> QED BY <1>3, <3>1
  <2>2. a - o = P * 0 + (a - o) /\ a - o \in 0..(P - 1)
    <3>1. r \in 0..(P - 1) /\ n <= P - r
      BY <1>1
    <3> HIDE DEF r
    <3> QED BY <1>3, <3>1
  <2>3. q \in Int
    BY <1>1
  <2> HIDE DEF t, q
  <2> QED BY <2>1, <2>2, <2>3, DivModUnique
<1>4. ASSUME a \div P = q, (a - o) % P < n
      PROVE  a \in o .. (o + n - 1)
  <2>1. a - o = s - r /\ s \in 0..(P - 1) /\ r \in 0..(P - 1) /\ n <= P - r
    <3>1. o = P * q + r /\ a = P * q + s /\ P * q \in Int
      BY <1>1, <1>2, <1>4
    <3>2. s \in 0..(P - 1) /\ r \in 0..(P - 1) /\ n <= P - r
      BY <1>1, <1>2
    <3> HIDE DEF q, r, s
    <3> QED BY <3>1, <3>2
  <2>2. CASE a >= o
    <3>1. a - o = P * 0 + (a - o) /\ a - o \in 0..(P - 1)
      <4> HIDE DEF r, s
      <4> QED BY <2>1, <2>2
    <3>2. (a - o) % P = a - o
      BY <3>1, DivModUnique
    <3> QED BY <1>4, <2>2, <3>2
  <2>3. CASE a < o
    <3>1. /\ a - o = P * (-1) + (a - o + P) /\ a - o + P \in 0..(P - 1)
          /\ a - o + P >= n
      <4> HIDE DEF r, s
      <4> QED BY <2>1, <2>3
    <3>2. (a - o) % P = a - o + P
      BY <3>1, DivModUnique
    <3> QED BY <1>4, <3>1, <3>2
  <2> QED BY <2>2, <2>3
<1> QED BY <1>3, <1>4
-----------------------------------------------------------------------------
(* What the code gives the flash to do.                                    *)

\* A write lies in the flash, and so does its next part, which stays in its
\* page.
LEMMA WriteInFlash ==
  ASSUME TypeOK, pc \in Writing
  PROVE  /\ request \in Requests /\ request.kind = "write"
         /\ request.length \in Nat /\ request.address \in Nat
         /\ written \in Nat /\ written < request.length
         /\ request.data \in Seq(SUBSET Bits)
         /\ Len(request.data) = request.length
         /\ request.address + request.length <= FlashSize
         /\ Offset \in Nat /\ Chunk \in 1..Left
         /\ Chunk <= PageSize - (Offset % PageSize)
<1>1. FirmwareOK
  BY TypeHalves
<1>2. request.kind = "write" /\ written < request.length
  BY <1>1 DEF FirmwareOK, PcOK
<1>3. request \in WriteRequestsOK /\ request.address \in Nat
  BY <1>1, <1>2, RequestType DEF FirmwareOK
<1>4. /\ request.length \in Nat
      /\ request.data \in Seq(SUBSET Bits)
      /\ Len(request.data) = request.length
      /\ request.address + request.length <= FlashSize
  BY <1>3, WincAssumption DEF WriteRequestsOK, WriteRequests, Request
<1>5. written \in Nat
  BY <1>1, <1>4 DEF FirmwareOK
<1>6. Offset \in Nat
  BY <1>3, <1>5 DEF Offset
<1>7. Room \in 1..PageSize /\ Room = PageSize - (Offset % PageSize)
  BY <1>6, WincAssumption DEF Room
<1>8. Chunk \in 1..Left /\ Chunk <= Room
  <2> HIDE DEF Room
  <2>1. Left \in Nat /\ Left > 0
    BY <1>2, <1>4, <1>5 DEF Left
  <2> HIDE DEF Left
  <2> QED BY <1>7, <2>1, WincAssumption DEF Chunk
<1> QED
  BY <1>2, <1>3, <1>4, <1>5, <1>6, <1>7, <1>8, RequestKinds

\* What a page program makes of the cells: nothing outside the part of the
\* blob that it is for changes.
LEMMA ProgramEffect ==
  ASSUME TypeOK, pc \in Writing, NEW a \in Address
  PROVE  LET new == Programmed(Offset, Bytes)
         IN  /\ new[a] \subseteq flash[a]
             /\ new[a] # flash[a] =>
                  a \in Store!Cells(request) /\ new[a] = Store!Effect(request, a)
             /\ \A i \in (written + 1)..(written + Chunk) :
                  a = request.address + i - 1 => new[a] \subseteq request.data[i]
<1> DEFINE new == Programmed(Offset, Bytes)
           C == Chunk
           O == Offset
           A == request.address
           D == request.data
<1>1. /\ request.kind = "write" /\ request.length \in Nat /\ A \in Nat
      /\ written \in Nat /\ written < request.length
      /\ D \in Seq(SUBSET Bits) /\ Len(D) = request.length
      /\ O \in Nat /\ C \in 1..Left
      /\ C <= PageSize - (O % PageSize)
  BY WriteInFlash
<1>2. O = A + written /\ Left = request.length - written
  BY DEF Offset, Left
<1>3. Bytes = SubSeq(D, written + 1, written + C)
  BY DEF Bytes
<1>4. C \in Nat /\ a \in Nat /\ PageSize \in Nat \ {0}
  BY <1>1, <1>2, WincAssumption DEF Address
<1> HIDE DEF C, O, A, D
<1>5. Len(Bytes) = C /\ \A j \in 1..C : Bytes[j] = D[written + j]
  <2>1. written + 1 \in 1..(Len(D) + 1) /\ written + C \in (written..Len(D))
    BY <1>1, <1>2, <1>4
  <2> QED BY <1>1, <1>3, <1>4, <2>1, SubSeqProperties
<1>6. /\ a \div PageSize = O \div PageSize /\ (a - O) % PageSize < C
             <=> a \in O .. (O + C - 1)
      /\ a \in O .. (O + C - 1) => (a - O) % PageSize = a - O
  BY <1>1, <1>4, PageWindow
<1>7. new[a] = IF a \in O .. (O + C - 1)
                 THEN flash[a] \cap Bytes[(a - O) + 1] ELSE flash[a]
  BY <1>5, <1>6 DEF Programmed, O
<1>8. a \in O .. (O + C - 1) =>
        /\ a \in A .. (A + request.length - 1)
        /\ (a - O) + 1 \in 1..C
        /\ Bytes[(a - O) + 1] = D[a - A + 1]
  <2> SUFFICES ASSUME a \in O .. (O + C - 1)
               PROVE  /\ a \in A .. (A + request.length - 1)
                      /\ (a - O) + 1 \in 1..C
                      /\ Bytes[(a - O) + 1] = D[a - A + 1]
    OBVIOUS
  <2>1. (a - O) + 1 \in 1..C /\ written + ((a - O) + 1) = a - A + 1
    BY <1>1, <1>2, <1>4
  <2> QED BY <1>1, <1>2, <1>4, <1>5, <2>1
<1> HIDE DEF new
<1>9. new[a] # flash[a] =>
        a \in Store!Cells(request) /\ new[a] = Store!Effect(request, a)
  BY <1>1, <1>7, <1>8 DEF Store!Cells, Store!Effect, A, D
<1>10. ASSUME NEW i \in (written + 1)..(written + C), a = A + i - 1
       PROVE  new[a] \subseteq D[i]
  <2>1. a \in O .. (O + C - 1) /\ a - A + 1 = i
    BY <1>1, <1>2, <1>4, <1>10
  <2> QED BY <1>7, <1>8, <2>1
<1> QED
  BY <1>7, <1>9, <1>10 DEF new, C, A, D

\* What an erase makes of the cells.
LEMMA EraseEffect ==
  ASSUME TypeOK, pc \in Erasing, NEW a \in Address
  PROVE  LET new == SectorErased(request.address)
         IN  /\ request \in Requests
             /\ new[a] # flash[a] =>
                  a \in Store!Cells(request) /\ new[a] = Store!Effect(request, a)
             /\ a \in Store!Sector(request.address) => new[a] = Bits
<1>1. request.kind = "erase" /\ request \in AllRequests
  BY TypeHalves DEF FirmwareOK, PcOK
<1>2. request \in Requests
  BY <1>1, RequestType, RequestKinds
<1> QED
  BY <1>1, <1>2
  DEF SectorErased, Store!Cells, Store!Effect, Store!Sector
-----------------------------------------------------------------------------
(* The steps, by what they do to the flash and to the command.             *)

\* While the bus works and the code does not poll, the flash is at rest.
LEMMA AtRest ==
  ASSUME FlashInv, ~bus_error, pc \notin {"poll", "erase_poll"}
  PROVE  goal = flash
BY DEF FlashInv, BusyIsPolled, Busy

\* The steps that switch the mode and start the WINC.
Switch == \/ AlreadyInMode \/ EnterDownloadMode \/ WifiInitHold
          \/ ChipInitFails \/ ReleaseCPU \/ WaitForEfuse \/ FirmwareRuns

\* They answer nothing but the start-up, and give the flash nothing to do.
LEMMA SwitchStep ==
  ASSUME TypeOK, Switch
  PROVE  /\ pc \in {"startup", "mode"} \cup Booting /\ written = 0
         /\ pc' \in {"idle", "fill", "erase_enable", "load", "version"}
                      \cup Booting
         /\ \/ UNCHANGED <<request, written, reply>>
            \/ request = StartUp /\ Answer("none")
         /\ returned' = returned
         /\ flash' = flash
         /\ \/ goal' = flash /\ origin' = NoRequest
            \/ UNCHANGED die /\ (~bus_error' => ~bus_error)
<1>1. FirmwareOK
  BY TypeHalves
<1>2. pc \in {"startup", "mode"} \cup Booting
  BY DEF Switch, AlreadyInMode, EnterDownloadMode, WifiInitHold,
         ChipInitFails, ReleaseCPU, WaitForEfuse, FirmwareRuns, Booting
<1>3. written = 0
  BY <1>1, <1>2 DEF FirmwareOK, PcOK, Booting, Writing
<1>5. CASE AlreadyInMode
  BY <1>2, <1>3, <1>5 DEF AlreadyInMode, Continue, die
<1>6. CASE EnterDownloadMode
  BY <1>2, <1>3, <1>6 DEF EnterDownloadMode, Continue, ResetChip
<1>7. CASE WifiInitHold
  BY <1>2, <1>3, <1>7
  DEF WifiInitHold, AfterWifiInit, Continue, ResetChip, Answer, Booting
<1>8. CASE ChipInitFails
  BY <1>2, <1>3, <1>8
  DEF ChipInitFails, AfterWifiInit, Continue, Answer, die
<1>9. CASE ReleaseCPU \/ WaitForEfuse
  BY <1>2, <1>3, <1>9 DEF ReleaseCPU, WaitForEfuse, Booting, die
<1>10. CASE FirmwareRuns
  BY <1>2, <1>3, <1>10
  DEF FirmwareRuns, AfterWifiInit, Continue, Answer, die
<1> QED
  BY <1>5, <1>6, <1>7, <1>8, <1>9, <1>10 DEF Switch
-----------------------------------------------------------------------------
(* Each part of the invariant is preserved.                                *)

\* A command starts.
LEMMA Asking ==
  ASSUME cmd_winc_writeblob \/ cmd_winc_read \/ cmd_winc_erasesector
           \/ read_winc_version
  PROVE  \E r \in Requests : Begin(r, "mode")
BY RequestKinds
DEF cmd_winc_writeblob, cmd_winc_read, cmd_winc_erasesector,
    read_winc_version

\* Work that the flash accepts is for the request that asks for it.
LEMMA NewWork ==
  ASSUME WorkIsOrigins, request \in Requests, NEW new, Accept(new),
         \A a \in Address : new[a] # flash[a] =>
            a \in Store!Cells(request) /\ new[a] = Store!Effect(request, a)
  PROVE  WorkIsOrigins'
<1>1. CASE wel /\ ~Busy
  <2>1. goal' = new /\ flash' = flash
    BY <1>1 DEF Accept
  <2>2. new # flash => origin' = request
    BY <1>1 DEF Accept
  <2> SUFFICES ASSUME NEW a \in Address, new[a] # flash[a]
               PROVE  /\ request \in Requests /\ a \in Store!Cells(request)
                      /\ new[a] = Store!Effect(request, a)
    BY <2>1, <2>2 DEF WorkIsOrigins, Store!Effect
  <2> QED OBVIOUS
<1>2. CASE ~(wel /\ ~Busy)
  BY <1>2 DEF Accept, WorkIsOrigins, Store!Effect, die
<1> QED BY <1>1, <1>2

\* The flash works only for the request that it was given.
LEMMA StepWork ==
  ASSUME TypeOK, FlashInv, Next
  PROVE  WorkIsOrigins'
<1>1. WorkIsOrigins /\ DieOK
  BY TypeHalves DEF FlashInv
<1>2. CASE UNCHANGED <<flash, goal, origin>>
  BY <1>1, <1>2 DEF WorkIsOrigins, Store!Effect
<1>3. CASE goal' = flash'
  BY <1>3 DEF WorkIsOrigins
<1>4. CASE spi_flash_page_program
  <2>1. pc \in Writing
    BY <1>4 DEF spi_flash_page_program, Writing
  <2> DEFINE new == Programmed(Offset, Bytes)
  <2>2. Accept(new) \/ UNCHANGED die
    BY <1>4 DEF spi_flash_page_program, Exchange
  <2>3. \A a \in Address : new[a] # flash[a] =>
          a \in Store!Cells(request) /\ new[a] = Store!Effect(request, a)
    BY <2>1, ProgramEffect
  <2>4. request \in Requests
    BY <2>1, WriteInFlash
  <2> HIDE DEF new
  <2> QED BY <1>1, <1>2, <2>2, <2>3, <2>4, NewWork DEF die
<1>5. CASE spi_flash_sector_erase
  <2>1. pc \in Erasing
    BY <1>5 DEF spi_flash_sector_erase, EraseExchange, Erasing
  <2> DEFINE new == SectorErased(request.address)
  <2>2. Accept(new) \/ UNCHANGED die
    BY <1>5 DEF spi_flash_sector_erase, EraseExchange, Exchange
  <2>3. \A a \in Address : new[a] # flash[a] =>
          a \in Store!Cells(request) /\ new[a] = Store!Effect(request, a)
    BY <2>1, EraseEffect
  <2>4. 0 \in Address
    BY WincAssumption DEF Address
  <2>5. request \in Requests
    BY <2>1, <2>4, EraseEffect
  <2> HIDE DEF new
  <2> QED BY <1>1, <1>2, <2>2, <2>3, <2>5, NewWork DEF die
<1>6. CASE FlashStep
  <2>1. PICK b \in Address : /\ flash' = [flash EXCEPT ![b] = goal[b]]
                             /\ goal' = goal
                             /\ flash' # goal => origin' = origin
    BY <1>6 DEF FlashStep
  <2> SUFFICES ASSUME NEW a \in Address, goal'[a] # flash'[a]
               PROVE  /\ origin' \in Requests /\ a \in Store!Cells(origin')
                      /\ goal'[a] = Store!Effect(origin, a)'
    BY DEF WorkIsOrigins
  <2>2. a # b /\ flash'[a] = flash[a] /\ origin' = origin
    BY <1>1, <2>1 DEF DieOK
  <2> QED BY <1>1, <2>1, <2>2 DEF WorkIsOrigins, Store!Effect
<1>7. CASE Restart
  BY <1>2, <1>3, <1>7 DEF Restart
<1>8. CASE spi_flash_write_enable \/ EraseWriteEnable
           \/ spi_flash_write_disable
  BY <1>2, <1>8
  DEF spi_flash_write_enable, EraseWriteEnable, EraseExchange,
      spi_flash_write_disable, Exchange, SetLatch, die
<1>9. CASE Switch
  BY <1>2, <1>3, <1>9, SwitchStep DEF die
<1>10. CASE Command
  BY <1>2, <1>10
  DEF Command, cmd_winc_writeblob, cmd_winc_read, cmd_winc_erasesector,
      read_winc_version, RefuseArguments, Begin, die
<1>11. CASE m2m_fwinfo_get_firmware_info \/ FillMemory \/ PollStatus
            \/ ErasePollStatus \/ spi_flash_read_internal
  BY <1>2, <1>11
  DEF m2m_fwinfo_get_firmware_info, FillMemory, PollStatus, ErasePollStatus,
      spi_flash_read_internal, die
<1> QED
  BY <1>4, <1>5, <1>6, <1>7, <1>8, <1>9, <1>10, <1>11
  DEF Next, Step, Switch

\* While the bus works, the flash is busy only where the code polls.
LEMMA StepBusyIsPolled ==
  ASSUME TypeOK, FlashInv, Next
  PROVE  BusyIsPolled'
<1> SUFFICES ASSUME goal' # flash', ~bus_error'
             PROVE  pc' \in {"poll", "erase_poll"} /\ origin' = request'
  BY DEF BusyIsPolled, Busy
<1>1. CASE Command
  <2>1. pc = "idle" /\ UNCHANGED <<die, bus_error>>
    BY <1>1
    DEF Command, cmd_winc_writeblob, cmd_winc_read, cmd_winc_erasesector,
        read_winc_version, RefuseArguments, Begin
  <2> QED BY <2>1, AtRest DEF die
<1>2. CASE Switch
  <2>1. pc \notin {"poll", "erase_poll"}
    BY <1>2, SwitchStep DEF Booting
  <2> QED BY <1>2, <2>1, SwitchStep, AtRest DEF die
<1>3. CASE m2m_fwinfo_get_firmware_info \/ FillMemory
           \/ spi_flash_read_internal
  <2>1. pc \in {"version", "fill", "load"} /\ UNCHANGED die
    BY <1>3 DEF m2m_fwinfo_get_firmware_info, FillMemory,
                spi_flash_read_internal
  <2>2. bus_error' \in {TRUE, bus_error}
    BY <1>3 DEF m2m_fwinfo_get_firmware_info, FillMemory,
                spi_flash_read_internal
  <2>3. ~bus_error
    BY <2>2
  <2> QED BY <2>1, <2>3, AtRest DEF die
<1>4. CASE spi_flash_write_enable \/ EraseWriteEnable
           \/ spi_flash_write_disable
  <2>1. /\ pc \in {"enable", "erase_enable", "disable"}
        /\ UNCHANGED <<flash, goal>> /\ ~bus_error
    BY <1>4
    DEF spi_flash_write_enable, EraseWriteEnable, EraseExchange,
        spi_flash_write_disable, Exchange, SetLatch
  <2> QED BY <2>1, AtRest
<1>5. CASE spi_flash_page_program \/ spi_flash_sector_erase
  <2>1. /\ pc \in {"program", "erase"} /\ ~bus_error
        /\ pc' \in {"poll", "erase_poll"} /\ request' = request
        /\ \E new : Accept(new)
    BY <1>5
    DEF spi_flash_page_program, spi_flash_sector_erase, EraseExchange,
        Exchange, Stay, Answer
  <2>2. goal = flash
    BY <2>1, AtRest
  <2> QED BY <2>1, <2>2 DEF Accept, die
<1>6. CASE PollStatus \/ ErasePollStatus
  BY <1>6 DEF PollStatus, ErasePollStatus, Busy, die
<1>7. CASE FlashStep
  <2>1. /\ Busy /\ ~bus_error /\ goal' = goal /\ origin' = origin
        /\ pc' = pc /\ request' = request
    BY <1>7 DEF FlashStep, firmware, Busy
  <2> QED BY <2>1 DEF FlashInv, BusyIsPolled
<1>8. CASE Restart
  BY <1>8 DEF Restart
<1> QED
  BY <1>1, <1>2, <1>3, <1>4, <1>5, <1>6, <1>7, <1>8 DEF Next, Step, Switch

\* While the bus works, the flash takes what it is given.
LEMMA StepLatched ==
  ASSUME TypeOK, FlashInv, Next
  PROVE  Latched'
<1> SUFFICES ASSUME pc' \in {"program", "erase"}, ~bus_error'
             PROVE  wel'
  BY DEF Latched
<1>1. CASE Command
  BY <1>1
  DEF Command, cmd_winc_writeblob, cmd_winc_read, cmd_winc_erasesector,
      read_winc_version, RefuseArguments, Begin
<1>2. CASE Switch
  BY <1>2, SwitchStep DEF Booting
<1>3. CASE m2m_fwinfo_get_firmware_info \/ FillMemory
           \/ spi_flash_read_internal \/ spi_flash_page_program
           \/ PollStatus \/ spi_flash_write_disable
           \/ spi_flash_sector_erase \/ ErasePollStatus
  BY <1>3
  DEF m2m_fwinfo_get_firmware_info, FillMemory, spi_flash_read_internal,
      spi_flash_page_program, PollStatus, spi_flash_write_disable,
      spi_flash_sector_erase, EraseExchange, ErasePollStatus, Answer
<1>4. CASE spi_flash_write_enable \/ EraseWriteEnable
  <2>1. /\ pc \in {"enable", "erase_enable"} /\ SetLatch(TRUE) /\ ~bus_error
    BY <1>4
    DEF spi_flash_write_enable, EraseWriteEnable, EraseExchange, Exchange
  <2>2. goal = flash
    BY <2>1, AtRest
  <2> QED BY <2>1, <2>2 DEF SetLatch, Busy
<1>5. CASE FlashStep
  BY <1>5 DEF FlashStep, firmware, FlashInv, Latched
<1>6. CASE Restart
  BY <1>6 DEF Restart
<1> QED
  BY <1>1, <1>2, <1>3, <1>4, <1>5, <1>6 DEF Next, Step, Switch

\* While the bus works, what spi_flash_write() has dealt with is in the flash,
\* or will be.
LEMMA StepWrittenSoFar ==
  ASSUME TypeOK, FlashInv, Next
  PROVE  WrittenSoFar'
<1> SUFFICES ASSUME pc' \in Writing, ~bus_error', NEW i \in 1..Taken'
             PROVE  goal'[request'.address + i - 1] \subseteq request'.data[i]
  BY DEF WrittenSoFar, Writing
<1>1. CASE Command
  BY <1>1
  DEF Command, cmd_winc_writeblob, cmd_winc_read, cmd_winc_erasesector,
      read_winc_version, RefuseArguments, Begin, Writing
<1>2. CASE Switch
  <2>1. pc' = "fill" /\ written' = 0
    BY <1>2, SwitchStep DEF Writing, Booting, Answer
  <2>2. Taken' = 0
    BY <2>1 DEF Taken
  <2> QED BY <2>2
<1>3. CASE FillMemory \/ spi_flash_write_enable \/ PollStatus
  <2>1. /\ pc \in Writing /\ ~bus_error /\ goal' = goal /\ Stay
    BY <1>3
    DEF FillMemory, spi_flash_write_enable, PollStatus, Exchange, SetLatch,
        Answer, die, Writing
  <2>2. Taken' = Taken
    BY <1>3, <2>1
    DEF FillMemory, spi_flash_write_enable, PollStatus, Answer, Stay, Writing,
        Taken, Chunk, Room, Left, Offset
  <2>3. \A j \in 1..Taken :
          goal[request.address + j - 1] \subseteq request.data[j]
    BY <2>1 DEF FlashInv, WrittenSoFar
  <2> QED BY <2>1, <2>2, <2>3 DEF Stay
<1>4. CASE spi_flash_page_program
  <2> DEFINE new == Programmed(Offset, Bytes)
             k == request.address + i - 1
  <2>1. /\ pc = "program" /\ pc' = "poll" /\ Stay /\ ~bus_error
        /\ Accept(new)
    BY <1>4 DEF spi_flash_page_program, Exchange
  <2>2. pc \in Writing /\ wel /\ goal = flash
    BY <2>1, AtRest DEF FlashInv, Latched, Writing
  <2>3. goal' = new
    BY <2>1, <2>2 DEF Accept, Busy
  <2>4. /\ written \in Nat /\ written < request.length
        /\ request.length \in Nat /\ request.address \in Nat
        /\ request.address + request.length <= FlashSize
        /\ Chunk \in 1..Left
    BY <2>2, WriteInFlash
  <2>5. Taken' = written + Chunk
    BY <2>1 DEF Taken, Stay, Chunk, Room, Left, Offset
  <2>6. i \in 1..(written + Chunk) /\ k \in Address
    BY <2>4, <2>5, WincAssumption DEF Left, Address
  <2>7. CASE i \in 1..written
    <3>1. flash[k] \subseteq request.data[i]
      <4>1. Taken = written
        BY <2>1 DEF Taken
      <4> QED BY <2>1, <2>2, <2>7, <4>1 DEF FlashInv, WrittenSoFar
    <3>2. new[k] \subseteq flash[k]
      BY <2>2, <2>6, ProgramEffect
    <3> HIDE DEF new
    <3> QED BY <2>1, <2>3, <3>1, <3>2 DEF Stay
  <2>8. CASE i \in (written + 1)..(written + Chunk)
    <3>1. new[k] \subseteq request.data[i]
      BY <2>2, <2>6, <2>8, ProgramEffect
    <3> HIDE DEF new
    <3> QED BY <2>1, <2>3, <3>1 DEF Stay
  <2> QED
    BY <2>4, <2>6, <2>7, <2>8 DEF Left
<1>5. CASE spi_flash_write_disable
  <2>1. /\ pc = "disable" /\ pc' = "fill" /\ ~bus_error /\ goal' = goal
        /\ request' = request /\ written' = written + Chunk
    BY <1>5
    DEF spi_flash_write_disable, Exchange, SetLatch, Answer, Writing
  <2>2. Taken' = written + Chunk /\ Taken = written + Chunk
    BY <2>1 DEF Taken
  <2>3. \A j \in 1..Taken :
          goal[request.address + j - 1] \subseteq request.data[j]
    BY <2>1 DEF FlashInv, WrittenSoFar, Writing
  <2> QED BY <2>1, <2>2, <2>3
<1>6. CASE FlashStep
  <2>1. goal' = goal /\ UNCHANGED <<pc, request, written, bus_error>>
    BY <1>6 DEF FlashStep, firmware
  <2>2. Taken' = Taken
    BY <2>1 DEF Taken, Chunk, Room, Left, Offset
  <2> QED BY <2>1, <2>2 DEF FlashInv, WrittenSoFar
<1>7. CASE Restart
  BY <1>7 DEF Restart, Writing
<1>8. CASE m2m_fwinfo_get_firmware_info \/ EraseWriteEnable
           \/ spi_flash_sector_erase \/ ErasePollStatus
           \/ spi_flash_read_internal
  BY <1>8
  DEF m2m_fwinfo_get_firmware_info, EraseWriteEnable, spi_flash_sector_erase,
      EraseExchange, ErasePollStatus, spi_flash_read_internal, Answer, Writing
<1> QED
  BY <1>1, <1>2, <1>3, <1>4, <1>5, <1>6, <1>7, <1>8 DEF Next, Step, Switch

\* An erase that the flash has taken is for the whole sector.
LEMMA StepErasedSector ==
  ASSUME TypeOK, FlashInv, Next
  PROVE  ErasedSector'
<1> SUFFICES ASSUME pc' = "erase_poll", ~bus_error',
                    NEW a \in Address, a \in Store!Sector(request'.address)
             PROVE  goal'[a] = Bits
  BY DEF ErasedSector, Store!Sector
<1>1. CASE Command
  BY <1>1
  DEF Command, cmd_winc_writeblob, cmd_winc_read, cmd_winc_erasesector,
      read_winc_version, RefuseArguments, Begin
<1>2. CASE Switch
  BY <1>2, SwitchStep DEF Booting
<1>3. CASE spi_flash_sector_erase
  <2> DEFINE new == SectorErased(request.address)
  <2>1. pc = "erase" /\ request' = request /\ ~bus_error /\ Accept(new)
    BY <1>3 DEF spi_flash_sector_erase, EraseExchange, Exchange, Stay
  <2>2. pc \in Erasing /\ wel /\ goal = flash
    BY <2>1, AtRest DEF FlashInv, Latched, Erasing
  <2>3. new[a] = Bits
    BY <2>1, <2>2, EraseEffect
  <2>4. goal' = new
    BY <2>1, <2>2 DEF Accept, Busy
  <2> HIDE DEF new
  <2> QED BY <2>3, <2>4
<1>4. CASE FlashStep
  BY <1>4 DEF FlashStep, firmware, FlashInv, ErasedSector
<1>5. CASE Restart
  BY <1>5 DEF Restart
<1>6. CASE m2m_fwinfo_get_firmware_info \/ FillMemory
           \/ spi_flash_write_enable \/ spi_flash_page_program \/ PollStatus
           \/ spi_flash_write_disable \/ EraseWriteEnable \/ ErasePollStatus
           \/ spi_flash_read_internal
  BY <1>6
  DEF m2m_fwinfo_get_firmware_info, FillMemory, spi_flash_write_enable,
      spi_flash_page_program, PollStatus, spi_flash_write_disable,
      EraseWriteEnable, EraseExchange, ErasePollStatus,
      spi_flash_read_internal, Answer
<1> QED
  BY <1>1, <1>2, <1>3, <1>4, <1>5, <1>6 DEF Next, Step, Switch

\* Nothing is answered, and nothing returned, before the end of a command.
LEMMA StepNoAnswerYet ==
  ASSUME TypeOK, FlashInv, Next
  PROVE  NoAnswerYet'
<1> SUFFICES ASSUME request' # NoRequest
             PROVE  reply' = "none" /\ returned' = <<>>
  BY DEF NoAnswerYet
<1>1. request # NoRequest => reply = "none" /\ returned = <<>>
  BY DEF FlashInv, NoAnswerYet
<1>2. CASE Command
  <2>1. request = NoRequest <=> pc = "idle"
    BY DEF TypeOK, PcOK
  <2> QED
    BY <1>2, <2>1
    DEF Command, cmd_winc_writeblob, cmd_winc_read, cmd_winc_erasesector,
        read_winc_version, RefuseArguments, Begin
<1>3. CASE Switch
  BY <1>1, <1>3, SwitchStep DEF Answer
<1>4. CASE FlashStep
  BY <1>1, <1>4 DEF FlashStep, firmware
<1>5. CASE Restart
  BY <1>5 DEF Restart
<1>6. CASE m2m_fwinfo_get_firmware_info \/ FillMemory
           \/ spi_flash_write_enable \/ spi_flash_page_program \/ PollStatus
           \/ spi_flash_write_disable \/ EraseWriteEnable
           \/ spi_flash_sector_erase \/ ErasePollStatus
  <2>1. /\ returned' = returned
        /\ UNCHANGED <<request, reply>> \/ request' = NoRequest
    BY <1>6
    DEF m2m_fwinfo_get_firmware_info, FillMemory, spi_flash_write_enable,
        spi_flash_page_program, PollStatus, spi_flash_write_disable,
        EraseWriteEnable, spi_flash_sector_erase, EraseExchange,
        ErasePollStatus, Answer, Stay
  <2> QED BY <1>1, <2>1
<1>7. CASE spi_flash_read_internal
  BY <1>7 DEF spi_flash_read_internal, Answer
<1> QED
  BY <1>2, <1>3, <1>4, <1>5, <1>6, <1>7 DEF Next, Step, Switch

\* The invariant about the flash is inductive, given the types.
LEMMA StepFlashInv ==
  ASSUME TypeOK, FlashInv, [Next]_vars
  PROVE  FlashInv'
<1>1. CASE Next
  BY <1>1, StepWork, StepBusyIsPolled, StepLatched, StepWrittenSoFar,
     StepErasedSector, StepNoAnswerYet DEF FlashInv
<1>2. CASE UNCHANGED vars
  BY <1>2
  DEF vars, firmware, die, FlashInv, WorkIsOrigins, BusyIsPolled, Busy,
      Latched, WrittenSoFar, ErasedSector, NoAnswerYet, Taken, Chunk, Room,
      Left, Offset, Store!Effect
<1> QED BY <1>1, <1>2
-----------------------------------------------------------------------------
(* Every step is one of FlashStore's, or a stutter.                        *)

\* What FlashStore sees of the requests.
Open == (IF Pending THEN {request} ELSE {})
          \cup (IF Busy THEN {origin} ELSE {})
Asked == IF Pending THEN request ELSE NoRequest

\* A step that only lets go of the flash.
LEMMA GivesUp ==
  ASSUME flash' = flash, Asked' = Asked, reply' = reply, returned' = returned,
         Open' \subseteq Open
  PROVE  Store!GiveUp
BY DEF Open, Asked, Store!GiveUp

\* The end of a command that failed.
LEMMA AnswersError ==
  ASSUME Pending, Answer("error"), UNCHANGED <<flash, returned>>,
         Open' \subseteq Open
  PROVE  Store!AnswerError
<1>1. ~Pending' /\ reply' = "error"
  BY DEF Answer, Pending
<1> QED BY <1>1 DEF Store!AnswerError, Open, Pending

\* The end of a command that succeeded: the flash is at rest.
LEMMA AnswersOK ==
  ASSUME Pending, Answer("OK"), goal = flash,
         UNCHANGED <<flash, goal>>, Store!Done(request),
         returned' = IF request.kind = "read" THEN Store!Contents(request)
                     ELSE <<>>
  PROVE  Store!AnswerOK
<1>1. ~Pending' /\ reply' = "OK" /\ ~Busy'
  BY DEF Answer, Pending, Busy
<1> QED BY <1>1 DEF Store!AnswerOK, Pending

\* A command in progress is one that the host asked for.
LEMMA InProgress ==
  ASSUME TypeOK, pc \in {"version", "load"} \cup Writing \cup Erasing
  PROVE  Pending
BY RequestKinds DEF TypeOK, PcOK, Pending, Booting, Writing, Erasing

\* What the flash may work on after an exchange with it.
LEMMA ExchangeOpens ==
  ASSUME Pending, Exchange(SetLatch(TRUE)) \/ Exchange(SetLatch(FALSE))
                    \/ \E new : Exchange(Accept(new))
  PROVE  /\ flash' = flash
         /\ Busy' => origin' = request \/ (Busy /\ origin' = origin)
<1>1. CASE UNCHANGED <<flash, goal, origin>>
  BY <1>1 DEF Busy
<1>2. CASE \E new : Accept(new)
  BY <1>2 DEF Accept, Busy, die
<1> QED BY <1>1, <1>2 DEF Exchange, SetLatch, die

\* An exchange with the flash that the command goes on after.
LEMMA ExchangeGivesUp ==
  ASSUME Pending, Stay, returned' = returned, flash' = flash,
         Busy' => origin' = request \/ (Busy /\ origin' = origin)
  PROVE  Store!GiveUp
<1>1. Asked' = Asked /\ Pending'
  BY DEF Asked, Pending, Stay
<1>2. Open' \subseteq Open
  BY <1>1 DEF Open, Stay
<1> QED BY <1>1, <1>2, GivesUp DEF Stay

\* Steps of the code that leave the flash alone.
LEMMA FirmwareImplements ==
  ASSUME TypeOK, FlashInv,
         Command \/ Switch \/ m2m_fwinfo_get_firmware_info \/ FillMemory
           \/ PollStatus \/ spi_flash_read_internal
  PROVE  [Store!Next]_(Store!store)
<1>1. CASE cmd_winc_writeblob \/ cmd_winc_read \/ cmd_winc_erasesector
           \/ read_winc_version
  <2>1. PICK r \in Requests : Begin(r, "mode")
    BY <1>1, Asking
  <2>2. r # NoRequest /\ r # StartUp
    BY RequestKinds DEF Requests
  <2>3. /\ ~Pending /\ Pending' /\ request' = r
        /\ reply' = "none" /\ returned' = <<>> /\ UNCHANGED die
    BY <2>1, <2>2 DEF Begin, Pending, TypeOK, PcOK
  <2>4. Busy' = Busy /\ flash' = flash /\ origin' = origin
    BY <2>3 DEF Busy, die
  <2>5. Store!Ask(r)
    BY <2>3, <2>4 DEF Store!Ask
  <2> QED BY <2>5 DEF Store!Next
<1>2. CASE RefuseArguments
  <2>1. ~Pending
    BY <1>2 DEF RefuseArguments, Pending, TypeOK, PcOK
  <2>2. /\ request' = request /\ flash' = flash /\ origin' = origin
        /\ goal' = goal /\ reply' = "refused" /\ returned' = <<>>
    BY <1>2 DEF RefuseArguments, die
  <2>3. Pending' = Pending /\ Busy' = Busy
    BY <2>2 DEF Pending, Busy
  <2>4. Store!Refuse
    BY <2>1, <2>2, <2>3 DEF Store!Refuse
  <2> QED BY <2>4 DEF Store!Next
<1>3. CASE Switch
  <2>1. /\ returned' = returned /\ flash' = flash
        /\ \/ goal' = flash /\ origin' = NoRequest
           \/ UNCHANGED <<goal, origin>>
        /\ \/ UNCHANGED <<request, written, reply>>
           \/ request = StartUp /\ Answer("none")
    BY <1>3, SwitchStep DEF die
  <2>2. Busy' => Busy /\ origin' = origin
    BY <2>1 DEF Busy
  <2>3. Pending' = Pending /\ (Pending => request' = request)
        /\ reply' = reply
    <3>1. CASE UNCHANGED <<request, written, reply>>
      BY <3>1 DEF Pending
    <3>2. CASE request = StartUp /\ Answer("none")
      BY <3>2, StartUpType DEF Answer, Pending, FlashInv, NoAnswerYet
    <3> QED BY <2>1, <3>1, <3>2
  <2>4. Asked' = Asked /\ Open' \subseteq Open
    BY <2>2, <2>3 DEF Asked, Open
  <2> QED BY <2>1, <2>3, <2>4, GivesUp DEF Store!Next
<1>4. CASE m2m_fwinfo_get_firmware_info
  <2>1. /\ Pending /\ request = Version /\ pc = "version"
        /\ UNCHANGED <<flash, goal, origin, returned>>
        /\ \/ Answer("OK") /\ ~bus_error
           \/ Answer("error")
    BY <1>4, InProgress
    DEF m2m_fwinfo_get_firmware_info, TypeOK, PcOK, die
  <2>2. CASE Answer("OK") /\ ~bus_error
    <3>1. goal = flash
      BY <2>1, <2>2, AtRest
    <3>2. /\ Store!Done(request) /\ request.kind # "read"
          /\ returned' = <<>>
      BY <2>1, RequestKinds
      DEF Store!Done, Store!Cells, FlashInv, NoAnswerYet, Pending
    <3> QED BY <2>1, <2>2, <3>1, <3>2, AnswersOK DEF Store!Next
  <2>3. CASE Answer("error")
    BY <2>1, <2>3, AnswersError DEF Store!Next, Open, Answer, Pending, Busy
  <2> QED BY <2>1, <2>2, <2>3
<1>5. CASE FillMemory \/ PollStatus
  <2>1. /\ Pending
        /\ UNCHANGED <<flash, goal, origin, returned>>
        /\ Stay \/ Answer("error")
    BY <1>5, InProgress DEF FillMemory, PollStatus, die, Writing
  <2>2. Busy' => Busy /\ origin' = origin
    BY <2>1 DEF Busy
  <2>3. CASE Stay
    BY <2>1, <2>2, <2>3, ExchangeGivesUp DEF Store!Next
  <2>4. CASE Answer("error")
    BY <2>1, <2>2, <2>4, AnswersError DEF Store!Next, Open, Answer, Pending
  <2> QED BY <2>1, <2>3, <2>4
<1>6. CASE spi_flash_read_internal
  <2>1. /\ Pending /\ request.kind = "read" /\ pc = "load"
        /\ UNCHANGED <<flash, goal, origin>>
    BY <1>6, InProgress DEF spi_flash_read_internal, TypeOK, PcOK, die
  <2>2. CASE ~bus_error /\ Answer("OK")
    <3>1. goal = flash
      BY <2>1, <2>2, AtRest
    <3>2. returned' = Store!Contents(request)
      BY <1>6, <2>2, <3>1
      DEF spi_flash_read_internal, Answer, Busy, Store!Contents
    <3>3. Store!Done(request)
      BY <2>1 DEF Store!Done, Store!Cells
    <3> QED BY <2>1, <2>2, <3>1, <3>2, <3>3, AnswersOK DEF Store!Next
  <2>3. CASE Answer("error") /\ returned' = returned
    BY <2>1, <2>3, AnswersError DEF Store!Next, Open, Answer, Pending, Busy
  <2> QED BY <1>6, <2>2, <2>3 DEF spi_flash_read_internal
<1> QED
  BY <1>1, <1>2, <1>3, <1>4, <1>5, <1>6 DEF Command

\* When the last part of a blob is done, so is the blob.
LEMMA WriteDone ==
  ASSUME TypeOK, FlashInv, pc = "disable", ~bus_error, Chunk = Left
  PROVE  goal = flash /\ Store!Done(request) /\ request.kind # "read"
<1>1. goal = flash /\ pc \in Writing
  BY AtRest DEF Writing
<1>2. /\ request.kind = "write" /\ request.length \in Nat
      /\ request.address \in Nat /\ written \in Nat
  BY <1>1, WriteInFlash
<1>3. Taken = request.length
  BY <1>2 DEF Taken, Left
<1>4. \A i \in 1..request.length :
        goal[request.address + i - 1] \subseteq request.data[i]
  BY <1>1, <1>3 DEF FlashInv, WrittenSoFar
<1>5. ASSUME NEW a \in Store!Cells(request)
      PROVE  flash[a] = Store!Effect(request, a)
  <2> DEFINE i == a - request.address + 1
  <2>1. i \in 1..request.length /\ request.address + i - 1 = a
    BY <1>2, <1>5 DEF Store!Cells
  <2>2. flash[a] \subseteq request.data[i]
    BY <1>1, <1>4, <2>1
  <2> QED BY <1>2, <2>2 DEF Store!Effect
<1> QED BY <1>1, <1>2, <1>5 DEF Store!Done

\* When the flash has finished an erase, the sector is erased.
LEMMA EraseDone ==
  ASSUME TypeOK, FlashInv, pc = "erase_poll", ~bus_error, ~Busy
  PROVE  goal = flash /\ Store!Done(request) /\ request.kind # "read"
<1>1. request.kind = "erase"
  BY DEF TypeOK, PcOK, Erasing
<1>2. goal = flash
  BY DEF Busy
<1>3. \A a \in Store!Cells(request) : a \in Address /\ flash[a] = Bits
  BY <1>1, <1>2
  DEF FlashInv, ErasedSector, Store!Cells, Store!Sector
<1> QED BY <1>1, <1>2, <1>3 DEF Store!Done, Store!Effect

\* Exchanges with the flash.
LEMMA ExchangeImplements ==
  ASSUME TypeOK, FlashInv,
         spi_flash_write_enable \/ spi_flash_page_program
           \/ spi_flash_write_disable \/ EraseWriteEnable
           \/ spi_flash_sector_erase
  PROVE  [Store!Next]_(Store!store)
<1>1. Pending /\ returned' = returned
  BY InProgress
  DEF spi_flash_write_enable, spi_flash_page_program, spi_flash_write_disable,
      EraseWriteEnable, spi_flash_sector_erase, EraseExchange, Writing,
      Erasing
<1>2. /\ flash' = flash
      /\ Busy' => origin' = request \/ (Busy /\ origin' = origin)
  BY <1>1, ExchangeOpens
  DEF spi_flash_write_enable, spi_flash_page_program, spi_flash_write_disable,
      EraseWriteEnable, spi_flash_sector_erase, EraseExchange
<1>3. CASE Stay
  BY <1>1, <1>2, <1>3, ExchangeGivesUp DEF Store!Next
<1>4. CASE Answer("error")
  <2>1. Open' \subseteq Open
    BY <1>1, <1>2, <1>4 DEF Open, Answer, Pending
  <2> QED BY <1>1, <1>2, <1>4, <2>1, AnswersError DEF Store!Next
<1>5. CASE spi_flash_write_disable /\ ~Stay /\ ~Answer("error")
  <2>1. /\ pc = "disable" /\ ~bus_error /\ UNCHANGED <<flash, goal, origin>>
        /\ \/ Answer("OK") /\ Chunk = Left
           \/ UNCHANGED <<request, reply>>
    BY <1>5 DEF spi_flash_write_disable, Exchange, SetLatch
  <2>2. CASE Answer("OK") /\ Chunk = Left
    <3>1. goal = flash /\ Store!Done(request) /\ request.kind # "read"
      BY <2>1, <2>2, WriteDone
    <3>2. returned' = <<>>
      BY <1>1 DEF FlashInv, NoAnswerYet, Pending
    <3> QED BY <1>1, <2>1, <2>2, <3>1, <3>2, AnswersOK DEF Store!Next
  <2>3. CASE UNCHANGED <<request, reply>>
    <3>1. Asked' = Asked /\ Open' = Open
      BY <2>1, <2>3 DEF Asked, Open, Pending, Busy
    <3> QED BY <1>1, <1>2, <2>3, <3>1, GivesUp DEF Store!Next
  <2> QED BY <2>1, <2>2, <2>3
<1> QED
  BY <1>3, <1>4, <1>5
  DEF spi_flash_write_enable, spi_flash_page_program, EraseWriteEnable,
      spi_flash_sector_erase, EraseExchange

\* The last poll of an erase.
LEMMA ErasePollImplements ==
  ASSUME TypeOK, FlashInv, ErasePollStatus
  PROVE  [Store!Next]_(Store!store)
<1>1. Pending /\ UNCHANGED <<flash, goal, origin, returned>>
  BY InProgress DEF ErasePollStatus, Erasing, die
<1>2. CASE ~bus_error /\ ~Busy /\ Answer("OK")
  <2>1. goal = flash /\ Store!Done(request) /\ request.kind # "read"
    BY <1>2, EraseDone DEF ErasePollStatus
  <2>2. returned' = <<>>
    BY <1>1 DEF FlashInv, NoAnswerYet, Pending
  <2> QED BY <1>1, <1>2, <2>1, <2>2, AnswersOK DEF Store!Next
<1>3. CASE Answer("error")
  BY <1>1, <1>3, AnswersError DEF Store!Next, Open, Answer, Pending, Busy
<1> QED BY <1>2, <1>3 DEF ErasePollStatus

\* The flash acts on a cell of the request that it works for.
LEMMA FlashStepImplements ==
  ASSUME TypeOK, FlashInv, FlashStep
  PROVE  [Store!Next]_(Store!store)
<1>1. PICK a \in Address : /\ flash[a] # goal[a]
                           /\ flash' = [flash EXCEPT ![a] = goal[a]]
                           /\ flash' # goal => origin' = origin
                           /\ goal' = goal /\ UNCHANGED firmware
  BY DEF FlashStep
<1>2. /\ origin \in Requests /\ a \in Store!Cells(origin)
      /\ goal[a] = Store!Effect(origin, a)
  BY <1>1 DEF FlashInv, WorkIsOrigins
<1>3. Busy /\ (Busy' => origin' = origin)
  BY <1>1 DEF Busy
<1>4. Pending' = Pending /\ UNCHANGED <<request, reply, returned>>
  BY <1>1 DEF firmware, Pending
<1>5. origin \in Open /\ Open' \subseteq Open /\ Asked' = Asked
  BY <1>3, <1>4 DEF Open, Asked
<1>6. Store!Act(origin, a)
  BY <1>1, <1>2, <1>4, <1>5 DEF Store!Act, Open, Asked
<1> QED BY <1>2, <1>5, <1>6 DEF Store!Next, Open

\* A restart forgets the command, not what the flash has begun.
LEMMA RestartImplements ==
  ASSUME FlashInv, Restart
  PROVE  [Store!Next]_(Store!store)
<1>1. ~Pending' /\ reply' = "none" /\ returned' = <<>> /\ flash' = flash
  BY DEF Restart, Pending
<1>2. Busy' => Busy /\ origin' = origin
  BY DEF Restart, Busy
<1>3. Store!Restart
  BY <1>1, <1>2 DEF Store!Restart
<1> QED BY <1>3 DEF Store!Next

\* The WINC commands keep the promise of FlashStore: what is answered with OK
\* is in the flash, whole and in place, and no cell changes that the host did
\* not ask to change, whatever fails and whenever the board is reset.
THEOREM WincImplementsFlashStore == Spec => ImplementsFlashStore
<1>1. Init => FlashInv
  <2> SUFFICES ASSUME Init PROVE FlashInv
    OBVIOUS
  <2>1. /\ goal = flash /\ pc = "startup" /\ reply = "none"
        /\ returned = <<>>
    BY DEF Init
  <2> QED
    BY <2>1
    DEF FlashInv, WorkIsOrigins, BusyIsPolled, Busy, Latched, WrittenSoFar,
        Writing, ErasedSector, NoAnswerYet
<1>2. Init => Store!Init
  <2> SUFFICES ASSUME Init PROVE Store!Init
    OBVIOUS
  <2>1. /\ goal = flash /\ request = StartUp /\ reply = "none"
        /\ returned = <<>> /\ flash = [a \in Address |-> Bits]
    BY DEF Init
  <2>2. ~Pending /\ ~Busy
    BY <2>1 DEF Pending, Busy
  <2> QED BY <2>1, <2>2 DEF Store!Init
<1>3. TypeOK /\ FlashInv /\ [Next]_vars => FlashInv'
  BY StepFlashInv
<1>4. TypeOK /\ FlashInv /\ [Next]_vars => [Store!Next]_(Store!store)
  <2> SUFFICES ASSUME TypeOK, FlashInv, [Next]_vars
               PROVE  [Store!Next]_(Store!store)
    OBVIOUS
  <2>1. CASE UNCHANGED vars
    BY <2>1 DEF vars, firmware, die, Store!store, Pending, Busy
  <2>2. CASE Next
    BY <2>2, FirmwareImplements, ExchangeImplements, ErasePollImplements,
       FlashStepImplements, RestartImplements DEF Next, Step, Switch
  <2> QED BY <2>1, <2>2
<1> QED
  BY <1>1, <1>2, <1>3, <1>4, WincTypeCorrect, PTL
  DEF Spec, ImplementsFlashStore, Store!Spec
=============================================================================
