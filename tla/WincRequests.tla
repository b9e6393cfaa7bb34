---------------------------- MODULE WincRequests ----------------------------
(***************************************************************************)
(* What is asked of the WINC over its host interface, and what is done     *)
(* with its replies: m2m_wifi.c, m2m_ota.c and m2m_ssl.c, as functions.    *)
(*                                                                         *)
(* A call either is answered at once, with a status, or asks the WINC, and *)
(* then the status is that of winc_hif_send().  `says' is what matters of  *)
(* a request's content; Unset is a byte or field that nobody has set.      *)
(* A pointer is the set of what is there, so NULL is {}; a text is its     *)
(* length where its characters do not matter.  Groups and codes are names, *)
(* and the bit that asks for a buffer for data is left out.                *)
(***************************************************************************)
EXTENDS WincHif, SequencesExt

NULL == {}
There(pointer) == CHOOSE content \in pointer : TRUE
Unset == -1

Answer(status) == [status |-> status, requests |-> <<>>, says |-> <<>>]
Ask(request, says) == [status |-> "SENT", requests |-> <<request>>, says |-> says]

\* The sizes of the structures in the build.
SizeOf ==
  [tstrM2mWifiApId |-> 36, tstrM2mWifiConnHdr |-> 48, tstrM2mWifiWep |-> 16,
   tstrM2mWifiPsk |-> 108, tstrM2mSetMacAddress |-> 8, tstrM2MIPConfig |-> 24,
   tstrM2mLsnInt |-> 4, tstrM2MScanOption |-> 4, tstrM2MScanRegion |-> 4,
   tstrM2MScan |-> 4, tstrM2MWPSConnect |-> 12, tstrM2MP2PConnect |-> 4,
   tstrM2MAPModeConfig |-> 148, tstrM2mWifiGainsParams |-> 4,
   tstrM2MWifiTxPacketInfo |-> 4, tstrM2mReqScanResult |-> 4, tstrM2mPsType |-> 4,
   tstrM2mSlpReqTime |-> 4, tstrM2MDeviceNameConfig |-> 48, tstrM2MSNTPConfig |-> 36,
   tstrM2MProvisionModeConfig |-> 216, tstrSystemTime |-> 8, tstrM2mPwrMode |-> 4,
   tstrM2mTxPwrLevel |-> 4, tstrM2mWiFiGainIdx |-> 4, tstrM2mEnableLogs |-> 4,
   tstrM2mBatteryVoltage |-> 4, tstrPrng |-> 8, tstrConfAutoRate |-> 12,
   tstrM2mWiFiRoaming |-> 4, tstrTlsCrlInfo |-> 684, tstrEccReqInfo |-> 112,
   tstrTlsSrvChunkHdr |-> 8, tstrSslSetActiveCsList |-> 4, FileBlockDescriptor |-> 8]

Bare(gid, opcode) == Ask(Request(gid, opcode, None, None, 0), <<>>)
With(gid, opcode, structure, says) ==
  Ask(Request(gid, opcode, SizeOf[structure], None, 0), says)
-----------------------------------------------------------------------------
(* Requests that only pass on what they are given.                         *)

m2m_wifi_send_crl ==
  Ask(Request("SSL", "IND_CRL", None, SizeOf.tstrTlsCrlInfo, 0), <<>>)

\* The SSID is not looked at: all the credentials are deleted.
m2m_wifi_delete_sc == With("WIFI", "DELETE_APID", "tstrM2mWifiApId", <<255>>)
m2m_wifi_default_connect == Bare("WIFI", "DEFAULT_CONNECT")
m2m_wifi_disconnect == Bare("WIFI", "DISCONNECT")

m2m_wifi_set_mac_address(mac) ==
  With("WIFI", "SET_MAC_ADDRESS", "tstrM2mSetMacAddress", mac)

m2m_wifi_set_static_ip(conf) == With("IP", "STATIC_IP_CONF", "tstrM2MIPConfig", conf)
m2m_wifi_enable_dhcp(u8DhcpEn) ==
  Bare("IP", IF u8DhcpEn # 0 THEN "ENABLE_DHCP" ELSE "DISABLE_DHCP")

m2m_wifi_set_lsn_int(interval) == With("WIFI", "LSN_INT", "tstrM2mLsnInt", interval)
m2m_wifi_set_scan_region(u16ScanRegion) ==
  With("WIFI", "SET_SCAN_REGION", "tstrM2MScanRegion", <<u16ScanRegion>>)

m2m_wifi_wps_disable == Bare("WIFI", "DISABLE_WPS")

\* Without _PS_SERVER_.
m2m_wifi_req_client_ctrl(u8Cmd) == Answer("M2M_ERR_FAIL")
m2m_wifi_req_server_init(u8Ch) == Answer("M2M_ERR_FAIL")

m2m_wifi_p2p(u8Channel) ==
  IF u8Channel \in {1, 6, 11}
  THEN With("WIFI", "ENABLE_P2P", "tstrM2MP2PConnect", <<u8Channel>>)
  ELSE Answer("M2M_ERR_FAIL")

m2m_wifi_p2p_disconnect == Bare("WIFI", "DISABLE_P2P")

m2m_wifi_set_gains(gains) ==
  IF gains = NULL THEN Answer("M2M_ERR_FAIL")
  ELSE With("WIFI", "SET_GAINS", "tstrM2mWifiGainsParams", There(gains))

m2m_wifi_disable_ap == Bare("WIFI", "DISABLE_AP")
m2m_wifi_req_curr_rssi == Bare("WIFI", "CURRENT_RSSI")
m2m_wifi_req_scan_result(u8Index) ==
  With("WIFI", "SCAN_RESULT", "tstrM2mReqScanResult", <<u8Index>>)

m2m_wifi_stop_provision_mode == Bare("WIFI", "STOP_PROVISION_MODE")
m2m_wifi_get_connection_info == Bare("WIFI", "GET_CONN_INFO")

\* A time of 4 bytes, and 4 bytes of what is behind it.
m2m_wifi_set_system_time(u32UTCSeconds) ==
  With("WIFI", "SET_SYS_TIME", "tstrSystemTime", <<u32UTCSeconds, Unset>>)
m2m_wifi_get_system_time == Bare("WIFI", "GET_SYS_TIME")

m2m_wifi_enable_sntp(u8Enable) ==
  Bare("WIFI", IF u8Enable # 0 THEN "ENABLE_SNTP_CLIENT" ELSE "DISABLE_SNTP_CLIENT")

m2m_wifi_set_power_profile(u8PwrMode) ==
  With("WIFI", "SET_POWER_PROFILE", "tstrM2mPwrMode", <<u8PwrMode>>)
m2m_wifi_set_tx_power(level) ==
  With("WIFI", "SET_TX_POWER", "tstrM2mTxPwrLevel", <<level>>)
m2m_wifi_set_gain_table_idx(index) ==
  With("WIFI", "SET_GAIN_TABLE_IDX", "tstrM2mWiFiGainIdx", <<index>>)
m2m_wifi_enable_firmware_logs(u8Enable) ==
  With("WIFI", "SET_ENABLE_LOGS", "tstrM2mEnableLogs", <<u8Enable>>)
m2m_wifi_set_battery_voltage(voltage) ==
  With("WIFI", "SET_BATTERY_VOLTAGE", "tstrM2mBatteryVoltage", <<voltage>>)
m2m_wifi_conf_auto_rate(rates) ==
  With("WIFI", "CONG_AUTO_RATE", "tstrConfAutoRate", rates)

m2m_wifi_enable_roaming(u8EnableDhcp) ==
  IF u8EnableDhcp > 1 THEN Answer("M2M_ERR_INVALID_ARG")
  ELSE With("WIFI", "ROAMING", "tstrM2mWiFiRoaming", <<1, u8EnableDhcp>>)
m2m_wifi_disable_roaming ==
  With("WIFI", "ROAMING", "tstrM2mWiFiRoaming", <<0, Unset>>)

m2m_ssl_set_active_ciphersuites(u32SslCsBMP) ==
  With("SSL", "SET_CS_LIST", "tstrSslSetActiveCsList", <<u32SslCsBMP>>)
m2m_ssl_handshake_rsp(u16RspDataSz) ==
  Ask(Request("SSL", "RESP_ECC", SizeOf.tstrEccReqInfo, u16RspDataSz,
              SizeOf.tstrEccReqInfo), <<>>)
-----------------------------------------------------------------------------
(* Requests whose arguments are checked or cut.                            *)

\* The first byte of the element is the length of the rest.
m2m_wifi_set_cust_InfoElement(element) ==
  IF element = NULL THEN Answer("M2M_ERR_FAIL")
  ELSE IF There(element) + 1 >= 252 THEN Answer("M2M_ERR_FAIL")
  ELSE Ask(Request("WIFI", "CUST_INFO_ELEMENT", There(element) + 1, None, 0), <<>>)

m2m_validate_scan_options(option) ==
  /\ option # NULL
  /\ There(option).u8NumOfSlot # 0
  /\ There(option).u8SlotTime \in 10..250
  /\ There(option).u8ProbesPerSlot \in 1..2
  /\ There(option).s8RssiThresh < 0

m2m_wifi_set_scan_options(option) ==
  IF m2m_validate_scan_options(option)
  THEN With("WIFI", "SET_SCAN_OPTION", "tstrM2MScanOption", There(option))
  ELSE Answer("M2M_ERR_FAIL")

m2m_wifi_send_ethernet_pkt(packet, u16PacketSize) ==
  IF packet = NULL \/ u16PacketSize = 0 THEN Answer("M2M_ERR_SEND")
  ELSE Ask(Request("WIFI", "SEND_ETHERNET_PACKET", SizeOf.tstrM2MWifiTxPacketInfo,
                   u16PacketSize, 34 - M2M_HIF_HDR_OFFSET), <<u16PacketSize, 14>>)

\* How many bytes are taken from the name, whose length is a byte: no more than
\* there is room for, and its NUL if that fits, but none for a length of 255.
m2m_wifi_set_device_name(u8DeviceNameLength) ==
  LET length == (u8DeviceNameLength + 1) % 256
  IN  With("WIFI", "SET_DEVICE_NAME", "tstrM2MDeviceNameConfig",
           <<IF length >= 48 THEN 48 ELSE length>>)

m2m_wifi_configure_sntp(u8NTPServerNameLength, enuUseDHCP) ==
  IF u8NTPServerNameLength > 32 THEN Answer("M2M_ERR_FAIL")
  ELSE With("WIFI", "CONFIG_SNTP", "tstrM2MSNTPConfig",
            <<u8NTPServerNameLength, enuUseDHCP>>)

m2m_wifi_prng_get_random_bytes(buffer, u16PrngSize) ==
  IF u16PrngSize < 1596 - SizeOf.tstrPrng /\ buffer # NULL
  THEN With("WIFI", "GET_PRNG", "tstrPrng", <<u16PrngSize>>)
  ELSE Answer("M2M_ERR_FAIL")
-----------------------------------------------------------------------------
(* Connecting.  A network has an ssid, which is the set of the places of NUL *)
(* in it or NULL, its length, a channel and whether a BSSID is given.      *)

Channels == 1..14
AllChannels == 255
SecTypes == {"OPEN", "WPA_PSK", "WEP", "802_1X"}

\* The header of a request to connect, or NULL if an argument is invalid.  The
\* WINC counts channels from 0.
m2m_wifi_connect_prepare_msg(store, authType, authSize, network) ==
  IF \/ network = NULL
     \/ There(network).ssid = NULL
     \/ There(network).ssidLen >= 33
     \/ store \notin {"DONTSAVE", "SAVE_UNENCRYPTED", "SAVE_ENCRYPTED"}
     \/ There(network).channel \notin Channels \cup {AllChannels}
     \/ authType \notin SecTypes
  THEN NULL
  ELSE {[credSize |-> 44 + authSize,
         encrypt |-> store = "SAVE_ENCRYPTED",
         store |-> store # "DONTSAVE",
         channel |-> IF There(network).channel = AllChannels THEN AllChannels
                     ELSE There(network).channel - 1,
         authType |-> authType,
         ssidLen |-> There(network).ssidLen,
         bssid |-> There(network).bssid]}

\* Characters are codes; 255 for one that is not a hexadecimal digit.
hexchar_2_val(ch) ==
  LET digit == (ch - 48) % 256
      lower == IF (digit \div 32) % 2 = 1 THEN digit ELSE digit + 32
      letter == (lower - 49) % 256
  IN  IF digit <= 9 THEN digit ELSE IF letter <= 5 THEN letter + 10 ELSE 255

\* The bytes up to the first pair that is not hexadecimal.  One whose first digit
\* alone is good has its upper half set.
hexstr_2_bytes(text, u8SizeOut) ==
  LET high(i) == hexchar_2_val(text[2 * i - 1])
      low(i) == hexchar_2_val(text[2 * i])
      good(i) == high(i) # 255 /\ low(i) # 255
      done == IF \A i \in 1..u8SizeOut : good(i) THEN u8SizeOut
              ELSE (CHOOSE i \in 1..u8SizeOut :
                      ~good(i) /\ \A j \in 1..(i - 1) : good(j)) - 1
      bytes == [i \in 1..done |-> 16 * high(i) + low(i)]
  IN  [ok |-> done = u8SizeOut,
       bytes |-> IF done = u8SizeOut \/ high(done + 1) = 255 THEN bytes
                 ELSE Append(bytes, 16 * high(done + 1))]

\* A header, and what goes behind it.
Connect(header, structure, says) ==
  IF header = NULL THEN Answer("M2M_ERR_INVALID_ARG")
  ELSE Ask(Request("WIFI", "CONN", SizeOf.tstrM2mWifiConnHdr, SizeOf[structure],
                   SizeOf.tstrM2mWifiConnHdr),
           <<There(header), says>>)

m2m_wifi_connect_open(store, network) ==
  LET header == m2m_wifi_connect_prepare_msg(store, "OPEN", 0, network)
  IN  IF header = NULL THEN Answer("M2M_ERR_INVALID_ARG")
      ELSE With("WIFI", "CONN", "tstrM2mWifiConnHdr", <<There(header)>>)

\* A key is a text of codes.  Whether it is hexadecimal is not looked at.
m2m_wifi_connect_wep(store, network, wep) ==
  IF wep = NULL THEN Answer("M2M_ERR_INVALID_ARG")
  ELSE IF \/ There(wep).pu8WepKey = NULL
          \/ There(wep).u8KeyIndx \notin 1..4
          \/ There(wep).u8KeySz \notin {10, 26}
  THEN Answer("M2M_ERR_INVALID_ARG")
  ELSE LET bytes == There(wep).u8KeySz \div 2
           key == hexstr_2_bytes(There(There(wep).pu8WepKey), bytes).bytes
       IN  Connect(m2m_wifi_connect_prepare_msg(store, "WEP", SizeOf.tstrM2mWifiWep, network),
                   "tstrM2mWifiWep",
                   [keyIndex |-> There(wep).u8KeyIndx - 1, keyLen |-> bytes,
                    key |-> [i \in 1..bytes |-> IF i \in DOMAIN key THEN key[i] ELSE Unset]])

\* A key of 64 digits is checked and sent as the text that it is.
m2m_wifi_connect_psk(store, network, psk) ==
  LET given == There(psk)
      connect(length) ==
        Connect(m2m_wifi_connect_prepare_msg(store, "WPA_PSK", SizeOf.tstrM2mWifiPsk, network),
                "tstrM2mWifiPsk", <<length>>)
  IN  IF psk = NULL THEN Answer("M2M_ERR_INVALID_ARG")
      ELSE IF /\ given.pu8Psk # NULL /\ given.pu8Passphrase = NULL
              /\ hexstr_2_bytes(There(given.pu8Psk), 32).ok
        THEN connect(64)
      ELSE IF /\ given.pu8Psk = NULL /\ given.pu8Passphrase # NULL
              /\ given.u8PassphraseLen <= 64
        THEN connect(given.u8PassphraseLen)
      ELSE Answer("M2M_ERR_INVALID_ARG")

\* Without CONF_WINC_SUPPORT_ENTERPRISE_CONNECT.
m2m_wifi_connect_1x_mschap2 == Answer("M2M_ERR_FAIL")
m2m_wifi_connect_1x_tls == Answer("M2M_ERR_FAIL")

\* auth is a text, or a WEP key with its size and index.  An SSID ends at its
\* first NUL, and the length of a passphrase is a byte.
m2m_wifi_connect_sc(nuls, ssidLen, secType, auth, channel, noSave) ==
  LET inside == {n \in nuls : n < ssidLen}
      network == {[ssid |-> {nuls}, bssid |-> FALSE, channel |-> channel,
                   ssidLen |-> IF ssidLen < 33 /\ inside # {}
                               THEN CHOOSE n \in inside : \A m \in inside : n <= m
                               ELSE ssidLen]}
      store == IF noSave THEN "DONTSAVE" ELSE "SAVE_ENCRYPTED"
      text == There(auth)
  IN  CASE secType = "OPEN" -> m2m_wifi_connect_open(store, network)
        [] secType = "WPA_PSK" /\ auth # NULL ->
             m2m_wifi_connect_psk(store, network,
               {[pu8Psk |-> IF Len(text) = 64 THEN auth ELSE NULL,
                 pu8Passphrase |-> IF Len(text) = 64 THEN NULL ELSE auth,
                 u8PassphraseLen |-> IF Len(text) = 64 THEN 0 ELSE Len(text) % 256]})
        [] secType = "WEP" /\ auth # NULL ->
             m2m_wifi_connect_wep(store, network,
               {[pu8WepKey |-> {text.key}, u8KeySz |-> (text.u8KeySz - 1) % 256,
                 u8KeyIndx |-> text.u8KeyIndx]})
        [] secType = "802_1X" /\ auth # NULL -> m2m_wifi_connect_1x_mschap2
        [] OTHER -> Answer("M2M_ERR_INVALID_ARG")

m2m_wifi_connect(nuls, ssidLen, secType, auth, channel) ==
  m2m_wifi_connect_sc(nuls, ssidLen, secType, auth, channel, FALSE)
-----------------------------------------------------------------------------
(* The access point.  An address is valid if one of its first three bytes is *)
(* not 0; texts are their lengths.                                         *)

m2m_validate_ap_parameters(mode) ==
  LET config == There(mode).strApConfig
  IN  /\ mode # NULL
      /\ config.ssid \in 1..32
      /\ config.u8ListenChannel \in Channels
      /\ \E i \in 1..3 : config.au8DHCPServerIP[i] # 0
      /\ \/ config.u8SecType = "OPEN"
         \/ /\ config.u8SecType = "WEP"
            /\ config.u8KeyIndx \in 1..4
            /\ config.u8KeySz \in {10, 26}
            /\ config.wepKey \in 1..26
         \/ /\ config.u8SecType = "WPA_PSK"
            /\ config.u8KeySz + 1 \in 9..65

\* Router and DNS are the DHCP server; of the mask the first byte is set.
Extended(config) == {[strApConfig |-> config,
                      au8DefRouterIP |-> config.au8DHCPServerIP,
                      au8DNSServerIP |-> config.au8DHCPServerIP,
                      au8SubnetMask |-> <<0, Unset, Unset, Unset>>]}

m2m_wifi_enable_ap_ext(mode) ==
  IF m2m_validate_ap_parameters(mode)
  THEN Ask(Request("WIFI", "ENABLE_AP", None, SizeOf.tstrM2MAPModeConfig, 0),
           <<There(mode)>>)
  ELSE Answer("M2M_ERR_FAIL")

m2m_wifi_enable_ap(config) == m2m_wifi_enable_ap_ext(Extended(config))
-----------------------------------------------------------------------------
(* Requests that go with the state of m2m_wifi.c: `wifi' has               *)
(* gu8scanInProgress, gu8ChNum, gu8WifiState, genuPsMode and gpfAppWifiCb,  *)
(* which is whether there is a callback.  sent is whether winc_hif_send()  *)
(* succeeds, if it is called.                                              *)

Then(call, wifi) == [call |-> call, wifi |-> wifi]

\* A scan is under way from when it was asked for.
Scan(wifi, call, sent) ==
  IF wifi.gu8scanInProgress THEN Then(Answer("M2M_ERR_SCAN_IN_PROGRESS"), wifi)
  ELSE Then(call, [wifi EXCEPT !.gu8scanInProgress = call.requests # <<>> /\ sent])

\* Unset is the time of a passive scan in the request for an active one.
ScanOf(opcode, u8Ch, u16PassiveScanTime) ==
  IF u8Ch \in Channels \cup {AllChannels}
  THEN With("WIFI", opcode, "tstrM2MScan", <<u8Ch, u16PassiveScanTime>>)
  ELSE Answer("M2M_ERR_INVALID_ARG")

m2m_wifi_request_scan(wifi, u8Ch, sent) ==
  Scan(wifi, ScanOf("SCAN", u8Ch, Unset), sent)

m2m_wifi_request_scan_passive(wifi, u8Ch, u16ScanTime, sent) ==
  Scan(wifi, ScanOf("PASSIVE_SCAN", u8Ch, u16ScanTime), sent)

\* A list is the number of SSIDs that it has and their lengths.
m2m_wifi_request_scan_ssid_list(wifi, u8Ch, list, sent) ==
  LET count == There(list).count
      upTo[n \in 0..4] == IF n = 0 THEN 1 ELSE upTo[n - 1] + There(list).lengths[n] + 1
      good == /\ u8Ch \in Channels \cup {AllChannels}
              /\ list # NULL
              /\ count <= 4
              /\ \A n \in 1..count : There(list).lengths[n] < 33
  IN  Scan(wifi, IF ~good THEN Answer("M2M_ERR_INVALID_ARG")
                 ELSE Ask(Request("WIFI", "SCAN_SSID_LIST", SizeOf.tstrM2MScan,
                                  upTo[count], SizeOf.tstrM2MScan), <<u8Ch, Unset>>),
           sent)

\* Whether the request gets through or not, a scan is taken to be over.
m2m_wifi_wps(wifi, pin) ==
  Then(With("WIFI", "WPS", "tstrM2MWPSConnect",
            <<IF pin = NULL THEN Unset ELSE There(pin)>>),
       [wifi EXCEPT !.gu8scanInProgress = FALSE])

m2m_wifi_start_provision_mode_ext(wifi, mode, domainName, bEnableHttpRedirect) ==
  IF ~m2m_validate_ap_parameters(mode) \/ domainName = 0
  THEN Then(Answer("M2M_ERR_FAIL"), wifi)
  ELSE Then(With("WIFI", "START_PROVISION_MODE", "tstrM2MProvisionModeConfig",
                 <<There(mode), domainName, bEnableHttpRedirect>>),
            [wifi EXCEPT !.gu8scanInProgress = FALSE])

m2m_wifi_start_provision_mode(wifi, config, domainName, bEnableHttpRedirect) ==
  m2m_wifi_start_provision_mode_ext(wifi, Extended(config), domainName,
                                    bEnableHttpRedirect)

m2m_wifi_get_num_ap_found(wifi) == wifi.gu8ChNum
m2m_wifi_get_sleep_mode(wifi) == wifi.genuPsMode
m2m_wifi_get_state(wifi) == wifi.gu8WifiState

\* The host saves power from now on, whether the WINC was told or not; hif is the
\* state behind winc_hif_send().
m2m_wifi_set_sleep_mode(wifi, hif, u8PsTyp, u8BcastEn) ==
  [call |-> With("WIFI", "SLEEP", "tstrM2mPsType", <<u8PsTyp, u8BcastEn>>),
   wifi |-> [wifi EXCEPT !.genuPsMode = u8PsTyp],
   hif |-> winc_hif_set_power_save(hif, u8PsTyp # 0)]

m2m_wifi_request_sleep(wifi, u32SlpReqTime) ==
  IF wifi.genuPsMode = 4
  THEN With("WIFI", "DOZE", "tstrM2mSlpReqTime", <<u32SlpReqTime>>)
  ELSE Answer("M2M_SUCCESS")
-----------------------------------------------------------------------------
(* Calls that read the WINC while it is kept awake.                        *)

m2m_wifi_get_otp_mac_address(hif, wakes, sleeps) ==
  LET woken == winc_hif_chip_wake(hif, wakes)
  IN  IF woken.status = "M2M_SUCCESS" THEN winc_hif_chip_sleep(woken.hif, sleeps)
      ELSE woken

\* An address that cannot be read leaves the WINC awake.
m2m_wifi_get_mac_address(hif, wakes, works, sleeps) ==
  LET woken == winc_hif_chip_wake(hif, wakes)
  IN  IF woken.status # "M2M_SUCCESS" THEN woken
      ELSE IF works THEN winc_hif_chip_sleep(woken.hif, sleeps)
      ELSE [woken EXCEPT !.status = "M2M_ERR_FAIL"]

\* version is the status of m2m_fwinfo_get_firmware_info(), and then of
\* m2m_fwinfo_version_check().
m2m_wifi_get_firmware_version(hif, wakes, version, sleeps) ==
  LET woken == winc_hif_chip_wake(hif, wakes)
  IN  IF woken.status # "M2M_SUCCESS" THEN woken
      ELSE [status |-> version, hif |-> winc_hif_chip_sleep(woken.hif, sleeps).hif]

m2m_ota_get_firmware_version(hif, wakes, version, sleeps) ==
  m2m_wifi_get_firmware_version(hif, wakes, version, sleeps)
-----------------------------------------------------------------------------
(* Start and end.  opens and starts are whether winc_drv_init() and         *)
(* winc_drv_start() succeed, param is whether there is a callback, or NULL. *)

Result(status, wifi, hif) == [status |-> status, wifi |-> wifi, hif |-> hif]

\* The WINC is reset.
m2m_wifi_init_hold(wifi, hif, opens) ==
  LET awake == [hif EXCEPT !.asleep = FALSE]
  IN  IF opens THEN Result("M2M_SUCCESS", [wifi EXCEPT !.gu8WifiState = "INIT"], awake)
      ELSE Result("M2M_ERR_FAIL", wifi, awake)

m2m_wifi_download_mode(wifi, hif, opens) == m2m_wifi_init_hold(wifi, hif, opens)

\* What was left of the sleep count and the saving of power is gone before the
\* version is read, so the WINC need not be woken for it.
m2m_wifi_init_start(wifi, hif, param, starts, version) ==
  LET ready == [wifi EXCEPT !.gpfAppWifiCb = There(param), !.gu8scanInProgress = FALSE]
      read == m2m_wifi_get_firmware_version(winc_hif_init(hif), FALSE, version, FALSE)
  IN  IF param = NULL THEN Result("M2M_ERR_INVALID_ARG", wifi, hif)
      ELSE IF ~starts THEN Result("M2M_ERR_INIT", ready, hif)
      ELSE Result(read.status, [ready EXCEPT !.gu8WifiState = "START"], read.hif)

m2m_wifi_init(wifi, hif, opens, param, starts, version) ==
  LET held == m2m_wifi_init_hold(wifi, hif, opens)
  IN  IF held.status # "M2M_SUCCESS" THEN held
      ELSE m2m_wifi_init_start(held.wifi, held.hif, param, starts, version)

m2m_wifi_deinit(wifi, hif, wakes) ==
  Result("M2M_SUCCESS", [wifi EXCEPT !.gu8WifiState = "DEINIT"],
         winc_hif_deinit(hif, wakes).hif)
-----------------------------------------------------------------------------
(* Replies.  A message has its opcode, its address and what it says; reads  *)
(* is how many of the reads of it succeed on the bus, and `told' is what   *)
(* the application's callbacks are called with.                            *)

\* Whether the part of size at offset can be read, as the n-th of the message.
Received(hif, message, n, offset, size, reads) ==
  winc_hif_receive(hif, message.address + offset, size, reads >= n) = "M2M_SUCCESS"

WiFiCbTable ==
  [CON_STATE_CHANGED |-> 4, GET_SYS_TIME |-> 8, CONN_INFO |-> 48, DHCP_CONF |-> 24,
   DHCP_FAILURE |-> 0, WPS |-> 100, IP_CONFLICT |-> 4, SCAN_DONE |-> 4,
   SCAN_RESULT |-> 44, CURRENT_RSSI |-> 4, CLIENT_INFO |-> 4, PROVISION_INFO |-> 100,
   DEFAULT_CONNECT |-> 4, DELETE_APID |-> 4]

\* The end of a scan is seen only if there is a callback.  Random bytes come with
\* their number, and where the application wanted them.
m2m_wifi_cb(wifi, hif, message, reads) ==
  LET size == WiFiCbTable[message.opcode]
      listed == message.opcode \in DOMAIN WiFiCbTable
      received ==
        IF listed THEN size = 0 \/ Received(hif, message, 1, 0, size, reads)
        ELSE /\ message.opcode = "GET_PRNG"
             /\ Received(hif, message, 1, 0, SizeOf.tstrPrng, reads)
             /\ Received(hif, message, 2, SizeOf.tstrPrng, message.says, reads)
      told == received /\ wifi.gpfAppWifiCb
  IN  [told |-> IF told THEN {message.opcode} ELSE {},
       wifi |-> IF told /\ message.opcode = "SCAN_DONE"
                THEN [wifi EXCEPT !.gu8scanInProgress = FALSE, !.gu8ChNum = message.says]
                ELSE wifi]

m2m_wifi_handle_events(hif, message, exchanges) ==
  winc_hif_handle_isr(hif, message, exchanges)
-----------------------------------------------------------------------------
(* Files of the WINC for the host.  `ota' has gu8CurrFileHandlerID and the  *)
(* callbacks that are registered.                                          *)

HFD_INVALID_HANDLER == 255

m2m_ota_init(ota, update, notif) ==
  [call |-> Bare("OTA", "HOST_FILE_STATUS"),
   ota |-> [ota EXCEPT !.callbacks = (@ \ {"UPDATE", "NOTIF"})
                                     \cup (IF update THEN {"UPDATE"} ELSE {})
                                     \cup (IF notif THEN {"NOTIF"} ELSE {})]]

\* A URL and its NUL, of which a 16-bit length is sent.
Url(opcode, length) == Ask(Request("OTA", opcode, U16(length + 1), None, 0), <<>>)

m2m_ota_notif_set_url(length) == Url("NOTIF_SET_URL", length)
m2m_ota_start_update(length) == Url("START_FW_UPDATE", length)
m2m_ota_notif_check_for_update == Bare("OTA", "NOTIF_CHECK_FOR_UPDATE")

\* The period is not used: one check, now.
m2m_ota_notif_sched(u32Period) == m2m_ota_notif_check_for_update

m2m_ota_rollback == Bare("OTA", "ROLLBACK_FW")
m2m_ota_abort == Bare("OTA", "ABORT")
m2m_ota_switch_firmware == Bare("OTA", "SWITCH_FIRMWARE")

File(call, ota) == [call |-> call, ota |-> ota]
IsCurrent(ota, u8Handler) == u8Handler = ota.gu8CurrFileHandlerID /\ u8Handler # HFD_INVALID_HANDLER

m2m_ota_host_file_get(ota, length, callback, sent) ==
  IF ~callback \/ length = 0 THEN File(Answer("M2M_ERR_FAIL"), ota)
  ELSE File(Url("HOST_FILE_DOWNLOAD", length),
            IF ~sent THEN ota
            ELSE [gu8CurrFileHandlerID |-> HFD_INVALID_HANDLER,
                  callbacks |-> ota.callbacks \cup {"GET"}])

m2m_ota_host_file_read_hif(ota, u8Handler, u32Offset, u32Size, callback, sent) ==
  IF ~IsCurrent(ota, u8Handler) \/ ~callback
  THEN File(Answer("M2M_ERR_INVALID_ARG"), ota)
  ELSE File(With("OTA", "HOST_FILE_READ", "FileBlockDescriptor", <<u32Offset, u32Size>>),
            IF sent THEN [ota EXCEPT !.callbacks = @ \cup {"READ"}] ELSE ota)

\* The file is gone for the host as soon as it asks, whether the WINC is told or
\* not.
m2m_ota_host_file_erase(ota, u8Handler, callback) ==
  IF ~IsCurrent(ota, u8Handler) THEN File(Answer("M2M_ERR_INVALID_ARG"), ota)
  ELSE File(Bare("OTA", "HOST_FILE_ERASE"),
            [gu8CurrFileHandlerID |-> HFD_INVALID_HANDLER,
             callbacks |-> (ota.callbacks \ {"READ", "ERASE"})
                           \cup (IF callback THEN {"ERASE"} ELSE {})])

\* entries are those of the flash's map, reads how many reads of it succeed: its
\* length, and then one entry after the other.  To find nothing is a success.
spi_flexible_flash_find_section(entries, id, reads) ==
  LET found == {i \in DOMAIN entries : entries[i].id = id}
      first == CHOOSE i \in found : \A j \in found : i <= j
      needed == 1 + IF found = {} THEN Len(entries) ELSE first
  IN  IF Len(entries) > 32 \/ reads < needed
      THEN [status |-> "M2M_ERR_FAIL", section |-> NULL]
      ELSE [status |-> "M2M_SUCCESS",
            section |-> IF found = {} THEN NULL
                        ELSE {[start |-> entries[first].start, size |-> entries[first].size]}]

\* A part of the file from the flash, while the CPU of the WINC is halted.  section
\* is where the file is, from an earlier call or by the search `finds'; its first
\* byte is the handler, and the file is behind the first sector.  reads is how many
\* of the two reads succeed, and `read' where the part was read.
m2m_ota_host_file_read_spi(wifi, section, finds, u8Handler, buffer, part, first, reads) ==
  LET known == section # NULL \/ finds.status = "M2M_SUCCESS"
      place == IF section # NULL THEN section ELSE finds.section
      size == IF place = NULL THEN 0 ELSE There(place).size
      at == There(place).start + 4096 + part.offset
      answer(status, read) == [status |-> status, section |-> place, read |-> read]
  IN  IF u8Handler = HFD_INVALID_HANDLER \/ buffer = NULL
        THEN [answer("M2M_ERR_INVALID_ARG", {}) EXCEPT !.section = section]
      ELSE IF wifi.gu8WifiState # "INIT" \/ ~known
        THEN [answer("M2M_ERR_FAIL", {}) EXCEPT !.section = section]
      ELSE IF reads < 1 THEN answer("M2M_ERR_FAIL", {})
      ELSE IF first # u8Handler THEN answer("M2M_SUCCESS", {})
      ELSE IF \/ part.offset >= size \/ part.size > size
              \/ part.offset + part.size >= size
        THEN answer("M2M_ERR_FAIL", {})
      ELSE IF reads < 2 THEN answer("M2M_ERR_FAIL", {})
      ELSE answer("M2M_SUCCESS", {Block(at, part.size)})

OtaReplies == [NOTIF_UPDATE_INFO |-> [size |-> 16, callback |-> "NOTIF"],
               UPDATE_STATUS |-> [size |-> 4, callback |-> "UPDATE"],
               HOST_FILE_DOWNLOAD |-> [size |-> 8, callback |-> "GET"],
               HOST_FILE_READ |-> [size |-> 132, callback |-> "READ"],
               HOST_FILE_ERASE |-> [size |-> 4, callback |-> "ERASE"],
               HOST_FILE_STATUS |-> [size |-> 8, callback |-> "NONE"]]

\* says has the handler of the file if the WINC has got it, and is NULL otherwise.
\* The callbacks for a download and an erase are used once.
m2m_ota_cb(ota, hif, message, reads) ==
  LET reply == OtaReplies[message.opcode]
      received == /\ message.opcode \in DOMAIN OtaReplies
                  /\ Received(hif, message, 1, 0, reply.size, reads)
      told == reply.callback \in ota.callbacks
      file == IF /\ message.opcode \in {"HOST_FILE_STATUS", "HOST_FILE_DOWNLOAD"}
                 /\ message.says # NULL
              THEN There(message.says) ELSE ota.gu8CurrFileHandlerID
  IN  IF ~received THEN [told |-> {}, ota |-> ota]
      ELSE [told |-> IF told THEN {<<message.opcode, file>>} ELSE {},
            ota |-> [gu8CurrFileHandlerID |-> file,
                     callbacks |-> ota.callbacks \ ({reply.callback} \cap {"GET", "ERASE"})]]
-----------------------------------------------------------------------------
(* TLS.  Certificates go to the WINC in chunks, each behind a header that   *)
(* takes the place of the 8 bytes before it; sizes and offsets of a header  *)
(* are in words of 4 bytes.                                                *)

TXLIMIT == 1536
CHUNKHDRSZ == 8
CHUNKSZ == 1280

\* A chunk: where it is taken from, with its header, and how long, and what its
\* header says of its place.
Chunk(from, size, offset32, size32) ==
  [from |-> from, size |-> size, offset32 |-> U16(offset32), size32 |-> size32]

RoundedUp(size) == 4 * ((size + 3) \div 4)

\* The chunks behind the first one, whose header replaces data and not what is
\* before them.  The last is rounded up, and what remains is then less than nothing
\* if that was more: the loop has gone past its end and does not stop (`ends').
Chunks(size) ==
  LET remaining == size - CHUNKSZ
      whole == remaining \div CHUNKSZ
      rest == remaining % CHUNKSZ
      next(i) == Chunk(i * CHUNKSZ - CHUNKHDRSZ, CHUNKSZ + CHUNKHDRSZ,
                       i * (CHUNKSZ \div 4), CHUNKSZ \div 4)
      last == Chunk((whole + 1) * CHUNKSZ - CHUNKHDRSZ, RoundedUp(rest) + CHUNKHDRSZ,
                    (whole + 1) * (CHUNKSZ \div 4), RoundedUp(rest) \div 4)
  IN  IF size <= TXLIMIT
      THEN [chunks |-> <<Chunk(0, size, 0, U16((size + 3) \div 4))>>, ends |-> TRUE]
      ELSE [chunks |-> <<Chunk(0, CHUNKSZ, 0, CHUNKSZ \div 4)>>
                       \o [i \in 1..whole |-> next(i)]
                       \o (IF rest = 0 THEN <<>> ELSE <<last>>),
            ends |-> RoundedUp(rest) = rest]

\* sent is how many of the chunks get through.  A chunk that does not leaves its
\* header where it was put, over the data of the caller.  What is sent past the end,
\* until one of the requests fails, is not listed.
m2m_ssl_send_certs_to_winc(size, sent) ==
  LET all == Chunks(size).chunks
      fails == sent < Len(all)
      request(chunk) == Request("SSL", "WRITE_OWN_CERTS", None, chunk.size, 0)
      asked == IF fails THEN sent + 1 ELSE Len(all)
  IN  [status |-> IF fails \/ ~Chunks(size).ends THEN "M2M_ERR_FAIL" ELSE "M2M_SUCCESS",
       requests |-> [i \in 1..asked |-> request(all[i])],
       spoilt |-> IF fails THEN {all[sent + 1].from}
                  ELSE IF size <= TXLIMIT THEN {0} ELSE {}]

\* `ssl' has genuStatus, gu32HIFAddr and gpfAppSSLCb, whether there is a callback.
m2m_ssl_init(callback) ==
  [gpfAppSSLCb |-> callback, gu32HIFAddr |-> 0, genuStatus |-> "ERR_UNKNOWN"]

\* The worst status of the chunks so far.
Worse(status, next) ==
  CASE next = "OK" /\ status = "OK_NO_CHANGE"                          -> next
    [] next = "ERR_CORRUPT"                                            -> next
    [] next = "ERR_NO_CHANGE" /\ status \notin {"ERR_CORRUPT", "ERR_UNKNOWN"} -> next
    [] next = "OTHER" /\ status # "ERR_CORRUPT"                        -> "ERR_UNKNOWN"
    [] OTHER                                                           -> status

\* A reply to a chunk says whether it is the first and the last one.  One that
\* cannot be read counts as the last.
m2m_ssl_cb(ssl, hif, message, reads) ==
  LET size == [REQ_ECC |-> SizeOf.tstrEccReqInfo, RESP_SET_CS_LIST |-> 4,
               RESP_WRITE_OWN_CERTS |-> SizeOf.tstrTlsSrvChunkHdr]
      received == /\ message.opcode \in DOMAIN size
                  /\ Received(hif, message, 1, 0, size[message.opcode], reads)
      status == IF ~received THEN ssl.genuStatus
                ELSE Worse(IF message.says.first THEN "OK_NO_CHANGE" ELSE ssl.genuStatus,
                           message.says.status)
      told(what) == IF ssl.gpfAppSSLCb THEN {what} ELSE {}
  IN  CASE message.opcode = "RESP_WRITE_OWN_CERTS" ->
             [ssl |-> [ssl EXCEPT !.genuStatus = status],
              told |-> IF ~received \/ message.says.last THEN told(status) ELSE {}]
        [] message.opcode = "REQ_ECC" /\ received ->
             [ssl |-> IF ~ssl.gpfAppSSLCb THEN ssl
                      ELSE [ssl EXCEPT !.gu32HIFAddr = message.address + size.REQ_ECC],
              told |-> told("REQ_ECC")]
        [] message.opcode = "RESP_SET_CS_LIST" /\ received ->
             [ssl |-> ssl, told |-> told("RESP_SET_CS_LIST")]
        [] OTHER -> [ssl |-> ssl, told |-> {}]

\* The certificate behind the request: its curve and three lengths, and then a key
\* of two coordinates, a hash and a signature; reads is how many reads succeed on
\* the bus.  What could not be read is read again by the next call.
m2m_ssl_retrieve_cert(ssl, hif, cert, reads) ==
  LET parts == <<2, 2, 2, 2, 2 * cert.key, cert.hash, cert.sig>>
      before[n \in 1..8] == IF n = 1 THEN 0 ELSE before[n - 1] + parts[n - 1]
      good(n) == winc_hif_receive(hif, ssl.gu32HIFAddr + before[n], parts[n], reads >= n)
                   = "M2M_SUCCESS"
      done == CHOOSE n \in 0..7 : /\ \A i \in 1..n : good(i)
                                 /\ n < 7 => ~good(n + 1)
  IN  IF ssl.gu32HIFAddr = 0 THEN [status |-> "M2M_ERR_FAIL", ssl |-> ssl]
      ELSE [status |-> IF done = 7 THEN "M2M_SUCCESS" ELSE "M2M_ERR_FAIL",
            ssl |-> [ssl EXCEPT !.gu32HIFAddr = @ + before[done + 1]]]

m2m_ssl_retrieve_hash(ssl, hif, u16HashSz, works) ==
  IF ssl.gu32HIFAddr = 0 THEN "M2M_ERR_FAIL"
  ELSE winc_hif_receive(hif, ssl.gu32HIFAddr, u16HashSz, works)

m2m_ssl_ecc_process_done(ssl) == [ssl EXCEPT !.gu32HIFAddr = 0]
=============================================================================
