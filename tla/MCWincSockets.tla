--------------------------- MODULE MCWincSockets ----------------------------
(* Instance of WincSockets for TLC: two TCP sockets and one UDP socket,    *)
(* session IDs that wrap around after two, data that come in two chunks,   *)
(* and two requests under way at a time.                                   *)
EXTENDS WincSockets, Sequences
-----------------------------------------------------------------------------
(* The host interface below the sockets, on small inputs.                  *)
Winc == INSTANCE WincRequests

MCHifs == [gu8ChipSleep : 0..2, gbChipPwrSave : BOOLEAN, gu32RxAddr : {100},
           gu16RxSize : {24}, serviceRequest : 0..1, asleep : BOOLEAN]
MCBuses == [wakes : BOOLEAN, polls : {1, 1000, 1001}, memory : BOOLEAN,
            error : {"NONE", "REQUEST", "POLL", "ADDRESS", "HEADER", "CTRL", "DATA",
                     "TRIGGER", "SLEEP"}]
MCRequests == {Winc!Request("WIFI", "X", ctrl, data, 16) :
                 ctrl \in {Winc!None, 16}, data \in {Winc!None, 100, 1572, 1573, 65510}}

\* A state in which the WINC may sleep only if the next call wakes it.
Wakeable(hif) == hif.asleep => hif.gbChipPwrSave /\ hif.gu8ChipSleep = 0

\* What WincSockets assumes of winc_hif_send(): a success is a request that the
\* WINC knows of, and one that it cannot know of is an error; the other way round,
\* an error says nothing.  A WINC that is asked has been woken before.
ASSUME SuccessIsTold ==
  \A hif \in MCHifs, request \in MCRequests, bus \in MCBuses :
    LET sent == Winc!winc_hif_send(hif, request, bus)
    IN  /\ sent.status = "M2M_SUCCESS" => sent.told = "YES"
        /\ sent.told # "NO" /\ Wakeable(hif) =>
             Winc!winc_hif_chip_wake(hif, bus.wakes).hif.asleep = FALSE
        /\ sent.told # "NO" => bus.memory /\ bus.polls <= 1000

\* Calls are counted in and out, but one whose WINC does not wake only in: from
\* then on nothing wakes it, whatever is asked of it.
ASSUME FailedWakeStays ==
  \A hif \in MCHifs, request \in MCRequests, bus \in MCBuses :
    LET sent == Winc!winc_hif_send(hif, request, bus)
        fails == /\ hif.gbChipPwrSave /\ hif.gu8ChipSleep = 0 /\ ~bus.wakes
                 /\ Winc!LengthOf(request) <= Winc!M2M_HIF_MAX_PACKET_SIZE
    IN  IF fails
        THEN /\ sent.hif.gu8ChipSleep = 1 /\ sent.told = "NO"
             /\ hif.asleep => \A later \in MCBuses :
                  LET again == Winc!winc_hif_send(sent.hif, request, later)
                  IN  \/ again.told = "NO"
                      \/ Winc!winc_hif_chip_wake(sent.hif, later.wakes).hif.asleep
        ELSE /\ sent.hif.gu8ChipSleep = hif.gu8ChipSleep
             /\ Wakeable(hif) => Wakeable(sent.hif)

\* The requests of the firmware's functions, with arguments at their limits.
MCNetworks == {{[ssid |-> ssid, ssidLen |-> length, channel |-> channel, bssid |-> FALSE]} :
                 ssid \in {{}, {{}}}, length \in {0, 32, 33}, channel \in {0, 1, 14, 15, 255}}
MCConfig == [ssid |-> 6, u8ListenChannel |-> 6, au8DHCPServerIP |-> <<10, 0, 0, 1>>,
             u8SecType |-> "WPA_PSK", u8KeyIndx |-> 1, u8KeySz |-> 8, wepKey |-> 0]
MCWifi == [gu8scanInProgress |-> FALSE, gu8ChNum |-> 0, gu8WifiState |-> "START",
           genuPsMode |-> 0, gpfAppWifiCb |-> TRUE]
MCLists == {{}} \cup {{[count |-> count, lengths |-> <<32, 0, 33, 5>>]} : count \in 0..5}
MCPsk == {{}} \cup {{[pu8Psk |-> psk, pu8Passphrase |-> pass, u8PassphraseLen |-> length]} :
                     psk \in {{}, {[i \in 1..64 |-> 48 + (i % 10)]}, {[i \in 1..64 |-> 47 + i]}},
                     pass \in {{}, {"text"}}, length \in {8, 64, 65}}
MCCalls ==
  {Winc!m2m_wifi_send_crl, Winc!m2m_wifi_delete_sc, Winc!m2m_wifi_disconnect,
   Winc!m2m_wifi_set_system_time(7), Winc!m2m_wifi_enable_ap(MCConfig),
   Winc!m2m_wifi_start_provision_mode(MCWifi, MCConfig, 5, 0).call}
  \cup {Winc!m2m_wifi_send_ethernet_pkt({"packet"}, size) : size \in {0, 1, 1562, 1563}}
  \cup {Winc!m2m_wifi_set_cust_InfoElement({length}) : length \in {0, 250, 251}}
  \cup {Winc!m2m_wifi_connect_open("DONTSAVE", network) : network \in MCNetworks}
  \cup {Winc!m2m_wifi_connect_psk("SAVE_ENCRYPTED", network, psk) :
          network \in MCNetworks, psk \in MCPsk}
  \cup {Winc!m2m_wifi_request_scan_ssid_list(MCWifi, 255, list, TRUE).call : list \in MCLists}
  \cup {Winc!m2m_wifi_prng_get_random_bytes({"buffer"}, size) : size \in {0, 1587, 1588}}
  \cup {Winc!m2m_ssl_handshake_rsp(size) : size \in {0, 1476, 1477}}
  \cup {Winc!m2m_ota_start_update(length) : length \in {0, 1587, 1588}}
  \cup {Winc!m2m_ssl_send_certs_to_winc(size, 9) : size \in {1, 1536, 1540, 4096}}

\* What is written for a request is as long as its header says, in pieces that do
\* not overlap, or else it is refused.
ASSUME BlocksFit ==
  \A call \in MCCalls : \A i \in DOMAIN call.requests :
    LET blocks == Winc!BlocksOf(call.requests[i])
        end(n) == blocks[n].at + blocks[n].size
    IN  /\ \A n \in 1..(Len(blocks) - 1) : end(n) <= blocks[n + 1].at
        /\ end(Len(blocks)) = Winc!LengthOf(call.requests[i])

\* A length is 16 bits: of a packet or an answer near 64 KiB all is written behind
\* a header that speaks of a few bytes.
ASSUME LengthsWrap ==
  \A call \in {Winc!m2m_wifi_send_ethernet_pkt({"packet"}, 65510),
               Winc!m2m_ssl_handshake_rsp(65500)} :
    /\ Winc!LengthOf(call.requests[1]) < 100
    /\ \E n \in DOMAIN Winc!BlocksOf(call.requests[1]) :
         Winc!BlocksOf(call.requests[1])[n].size > Winc!M2M_HIF_MAX_PACKET_SIZE

\* A message of the WINC: its size in the interrupt register and in its header.
MCMessages == [raised : BOOLEAN, size : {0, 24, 26, 29}, length : {24, 4095}, gid : {0, 1, 8},
               opcode : {"X"}, address : {100, 200}]

\* A message goes to a callback just if its interrupt is taken, once; a message that
\* is given up leaves its interrupt pending, for the WINC to have nothing to say.
\* What can be read is always of the last message, also when that was given up.
ASSUME InterruptsAndMessages ==
  \A hif \in MCHifs, message \in MCMessages, exchanges \in 0..5 :
    LET handled == Winc!winc_hif_handle_isr(hif, message, exchanges)
        good == /\ message.raised /\ message.size # 0 /\ message.gid = 1
                /\ message.size - message.length \in 0..4
    IN  /\ handled.called # {} <=> /\ hif.serviceRequest = 1 /\ exchanges >= 4 /\ good
        /\ handled.hif.serviceRequest = hif.serviceRequest - Cardinality(handled.called)
        /\ handled.status = "M2M_SUCCESS" => hif.serviceRequest = 0 \/ handled.done
        /\ \A address \in {92, 100, 108, 123, 124, 200}, size \in {0, 1, 16, 24, 30} :
             Winc!winc_hif_receive(handled.hif, address, size, TRUE) = "M2M_SUCCESS" =>
               /\ address >= handled.hif.gu32RxAddr
               /\ address + size <= handled.hif.gu32RxAddr + handled.hif.gu16RxSize
        /\ \A call \in handled.called : \A size \in 0..16 :
             Winc!winc_hif_receive(handled.hif, call.address, size, TRUE) = "M2M_SUCCESS"

\* Steps of a scan: asked for, refused by the bus, over, or ended by WPS.
MCScanSteps == {"ASK", "LOST", "PASSIVE", "LIST", "DONE", "WPS"}
MCScanStep(wifi, step) ==
  CASE step = "ASK" -> Winc!m2m_wifi_request_scan(wifi, 1, TRUE)
    [] step = "LOST" -> Winc!m2m_wifi_request_scan(wifi, 1, FALSE)
    [] step = "PASSIVE" -> Winc!m2m_wifi_request_scan_passive(wifi, 255, 9, TRUE)
    [] step = "LIST" -> Winc!m2m_wifi_request_scan_ssid_list(wifi, 1,
                          {[count |-> 1, lengths |-> <<5, 5, 5, 5>>]}, TRUE)
    [] step = "WPS" -> Winc!m2m_wifi_wps(wifi, {})
    [] OTHER -> [call |-> Winc!Answer("M2M_SUCCESS"),
                 wifi |-> Winc!m2m_wifi_cb(wifi, [gu32RxAddr |-> 0, gu16RxSize |-> 100],
                            [opcode |-> "SCAN_DONE", address |-> 8, says |-> 3], 1).wifi]

\* One scan at a time: what asks for a second one is refused, until the WINC says
\* that it is done.  Without a callback that is never seen, and WPS has to end it.
ASSUME OneScanAtATime ==
  \A callback \in BOOLEAN : \A steps \in [1..4 -> MCScanSteps] :
    LET wifi[n \in 0..4] ==
          IF n = 0 THEN [MCWifi EXCEPT !.gpfAppWifiCb = callback]
          ELSE MCScanStep(wifi[n - 1], steps[n]).wifi
        asks(n) == steps[n] \in {"ASK", "PASSIVE", "LIST"}
        accepted(n) == asks(n) /\ MCScanStep(wifi[n - 1], steps[n]).call.status = "SENT"
        over(n) == steps[n] = "WPS" \/ (steps[n] = "DONE" /\ callback)
    IN  \A i, j \in 1..4 :
          i < j /\ accepted(i) /\ accepted(j) => \E k \in (i + 1)..(j - 1) : over(k)

\* The channel of a request is one less than what the application calls it, and a
\* passphrase counts modulo 256: one of 300 characters passes as one of 44.
ASSUME Credentials ==
  /\ \A network \in MCNetworks, store \in {"DONTSAVE", "SAVE_ENCRYPTED"} :
       LET call == Winc!m2m_wifi_connect_open(store, network)
           given == Winc!There(network)
       IN  call.status = "SENT" <=> /\ given.ssid # {} /\ given.ssidLen <= 32
                                    /\ given.channel \in (1..14) \cup {255}
  /\ \A length \in {8, 63, 65, 256, 300, 320, 321} :
       Winc!m2m_wifi_connect({}, 6, "WPA_PSK", {[i \in 1..length |-> 120]}, 6).status
         = IF length % 256 <= 64 THEN "SENT" ELSE "M2M_ERR_INVALID_ARG"

\* The digits and nothing else have a value, the same in both cases.
ASSUME HexDigits ==
  /\ \A ch \in 0..255 :
       Winc!hexchar_2_val(ch) =
         IF ch \in 48..57 THEN ch - 48
         ELSE IF ch \in 65..70 THEN ch - 55
         ELSE IF ch \in 97..102 THEN ch - 87 ELSE 255
  /\ Winc!hexstr_2_bytes(<<49, 65, 102, 71>>, 2) = [ok |-> FALSE, bytes |-> <<26, 240>>]

\* Certificates of no more than one request, or whose size is a number of words,
\* are sent whole, each byte once and with its place.  Other sizes are sent past
\* their end.
ASSUME ChunksCover ==
  \A size \in (1..1540) \cup {2559, 2560, 2561, 2564, 3840, 3844, 5001, 5004, 9000} :
    LET sent == Winc!Chunks(size)
        chunk(i) == sent.chunks[i]
        from(i) == IF i = 1 THEN 0 ELSE chunk(i).from + Winc!CHUNKHDRSZ
        after(i) == chunk(i).from + chunk(i).size
    IN  /\ sent.ends <=> size <= Winc!TXLIMIT \/ size % 4 = 0
        /\ sent.ends => after(Len(sent.chunks)) = size
        /\ \A i \in DOMAIN sent.chunks :
             /\ chunk(i).size <= Winc!TXLIMIT
             /\ 4 * chunk(i).offset32 = from(i)
             /\ i > 1 => from(i) = after(i - 1)

\* The statuses of the chunks of one set of certificates, in order, and what the
\* application is told at the end.
MCStatuses == {"OK", "OK_NO_CHANGE", "ERR_CORRUPT", "ERR_NO_CHANGE", "OTHER"}
MCSsl == [gpfAppSSLCb |-> TRUE, gu32HIFAddr |-> 0, genuStatus |-> "ERR_CORRUPT"]
MCRx == [gu32RxAddr |-> 0, gu16RxSize |-> 200]
MCReply(status, first, last) ==
  [opcode |-> "RESP_WRITE_OWN_CERTS", address |-> 8,
   says |-> [status |-> status, first |-> first, last |-> last]]

\* The worst status wins: damage is never masked, and all is well just if each
\* chunk was written or had not changed.  What was told before does not matter.
ASSUME WorstStatusIsTold ==
  \A n \in 1..4 : \A statuses \in [1..n -> MCStatuses] :
    LET ssl[i \in 0..n] ==
          IF i = 0 THEN MCSsl
          ELSE Winc!m2m_ssl_cb(ssl[i - 1], MCRx, MCReply(statuses[i], i = 1, i = n), 1).ssl
        told(i) == Winc!m2m_ssl_cb(ssl[i - 1], MCRx, MCReply(statuses[i], i = 1, i = n), 1).told
        all == {statuses[i] : i \in 1..n}
    IN  /\ \A i \in 1..(n - 1) : told(i) = {}
        /\ told(n) = {ssl[n].genuStatus}
        /\ ssl[n].genuStatus = "ERR_CORRUPT" <=> "ERR_CORRUPT" \in all
        /\ ssl[n].genuStatus = "OK" <=> "OK" \in all /\ all \subseteq {"OK", "OK_NO_CHANGE"}
        /\ ssl[n].genuStatus = "OK_NO_CHANGE" <=> all = {"OK_NO_CHANGE"}

\* A reply that cannot be read is told to the application with the status so far, if
\* it is the first one with that of the certificates before.
ASSUME UnreadReplyIsTold ==
  Winc!m2m_ssl_cb(MCSsl, MCRx, MCReply("OK", TRUE, FALSE), 0).told = {"ERR_CORRUPT"}

\* What happens to the file that the WINC keeps for the host.
MCOta == [gu8CurrFileHandlerID |-> Winc!HFD_INVALID_HANDLER, callbacks |-> {}]
MCOtaSteps == {"GET", "GET_FAILS", "READ", "ERASE", "GOT", "GOT_NONE", "ERASED"}
MCOtaReply(opcode, says) == [opcode |-> opcode, address |-> 8, says |-> says]
MCOtaStep(ota, step) ==
  LET reply(opcode, says) ==
        [call |-> Winc!Answer("M2M_SUCCESS"),
         ota |-> Winc!m2m_ota_cb(ota, MCRx, MCOtaReply(opcode, says), 1).ota]
  IN  CASE step = "GET" -> Winc!m2m_ota_host_file_get(ota, 30, TRUE, TRUE)
        [] step = "GET_FAILS" -> Winc!m2m_ota_host_file_get(ota, 30, TRUE, FALSE)
        [] step = "READ" -> Winc!m2m_ota_host_file_read_hif(ota, 1, 0, 128, TRUE, TRUE)
        [] step = "ERASE" -> Winc!m2m_ota_host_file_erase(ota, 1, TRUE)
        [] step = "GOT" -> reply("HOST_FILE_DOWNLOAD", {1})
        [] step = "GOT_NONE" -> reply("HOST_FILE_DOWNLOAD", {})
        [] OTHER -> reply("HOST_FILE_ERASE", {})

\* A file is read and erased only after it was got, and not after it was erased or
\* another one asked for.
ASSUME OnlyAFileThatWasGot ==
  \A steps \in [1..4 -> MCOtaSteps] :
    LET ota[n \in 0..4] == IF n = 0 THEN MCOta ELSE MCOtaStep(ota[n - 1], steps[n]).ota
        allowed(n) == MCOtaStep(ota[n - 1], steps[n]).call.status = "SENT"
    IN  \A n \in 1..4 : steps[n] \in {"READ", "ERASE"} =>
          (allowed(n) <=> \E got \in 1..(n - 1) :
                            /\ steps[got] = "GOT"
                            /\ \A k \in (got + 1)..(n - 1) : steps[k] \notin {"GET", "ERASE"})

\* From the flash only a part of the file's section is read, or of the sector behind
\* it; with the handler of another file nothing is read, which is a success.
ASSUME PartsOfTheFile ==
  \A offset \in {0, 4095, 8191, 8192}, size \in {1, 4096, 8192, 8193}, reads \in 0..2,
     first \in {1, 2}, state \in {"INIT", "START"} :
    LET file == Winc!m2m_ota_host_file_read_spi([gu8WifiState |-> state], {},
                  Winc!spi_flexible_flash_find_section(<<[id |-> 7, start |-> 0, size |-> 9],
                    [id |-> 5, start |-> 40960, size |-> 8192]>>, 5, 3),
                  1, {"buffer"}, [offset |-> offset, size |-> size], first, reads)
    IN  /\ \A part \in file.read :
             /\ part.at >= 40960 + 4096 /\ part.at + part.size < 40960 + 8192 + 4096
             /\ state = "INIT" /\ first = 1
        /\ file.status = "M2M_SUCCESS" /\ first = 1 => file.read # {}
        /\ first = 2 => file.read = {}
=============================================================================
