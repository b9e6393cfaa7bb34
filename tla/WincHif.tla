------------------------------- MODULE WincHif -------------------------------
(***************************************************************************)
(* The host interface of the WINC (winc_hif.c) and its interrupt           *)
(* (winc_adapter.c), as functions.                                         *)
(*                                                                         *)
(* `hif' is the state they share: gu8ChipSleep, gbChipPwrSave, gu32RxAddr, *)
(* gu16RxSize and serviceRequest, and `asleep', whether it lets the WINC   *)
(* sleep.  What the WINC and the bus do in a call is an argument of it.    *)
(* A buffer is its size, or None, and a message is where it is and how     *)
(* long.  A result has the `status' returned and the new `hif'.            *)
(***************************************************************************)
EXTENDS Integers, Sequences

M2M_HIF_MAX_PACKET_SIZE == 1596
M2M_HIF_HDR_OFFSET == 8
WINC_HIF_CB_HIGHEST_GID == 7
None == -1

\* Numbers of 16 bits.
U16(n) == n % 65536

SizeOrZero(buffer) == IF buffer = None THEN 0 ELSE buffer
-----------------------------------------------------------------------------
(* Sleep.  The WINC is woken by the first of nested calls, and put to sleep *)
(* by the last, if power is to be saved.                                   *)

winc_hif_init(hif) == [hif EXCEPT !.gu8ChipSleep = 0, !.gbChipPwrSave = FALSE]

winc_hif_set_power_save(hif, bPwrSave) == [hif EXCEPT !.gbChipPwrSave = bPwrSave]

\* The call is counted also if the WINC is not woken; a WINC that could not be
\* woken is taken to sleep on.
winc_hif_chip_wake(hif, wakes) ==
  LET tried == hif.gu8ChipSleep = 0 /\ hif.gbChipPwrSave
  IN  [status |-> IF tried /\ ~wakes THEN "M2M_ERR_FAIL" ELSE "M2M_SUCCESS",
       hif |-> [hif EXCEPT !.gu8ChipSleep = (@ + 1) % 256,
                           !.asleep = @ /\ ~(tried /\ wakes)]]

winc_hif_chip_sleep(hif, sleeps) ==
  LET left == IF hif.gu8ChipSleep = 0 THEN 0 ELSE hif.gu8ChipSleep - 1
      tried == left = 0 /\ hif.gbChipPwrSave
  IN  [status |-> IF tried /\ ~sleeps THEN "M2M_ERR_FAIL" ELSE "M2M_SUCCESS",
       hif |-> [hif EXCEPT !.gu8ChipSleep = left,
                           !.asleep = @ \/ (tried /\ sleeps)]]

winc_hif_deinit(hif, wakes) == winc_hif_chip_wake(hif, wakes)
-----------------------------------------------------------------------------
(* To the WINC.  A request has a group, a code, a control part, which goes  *)
(* behind the header, and data, which go behind the header by offset.       *)

Request(gid, opcode, ctrl, data, offset) ==
  [gid |-> gid, opcode |-> opcode, ctrl |-> ctrl, data |-> data, offset |-> offset]

\* strHif.u16Length: the control part does not count where there are data.
LengthOf(request) ==
  U16(M2M_HIF_HDR_OFFSET + IF request.data # None THEN request.offset + request.data
                           ELSE SizeOrZero(request.ctrl))

Block(at, size) == [at |-> at, size |-> size]

\* What is written to the address that the WINC gives.
BlocksOf(request) ==
  <<Block(0, M2M_HIF_HDR_OFFSET)>>
  \o (IF request.ctrl = None THEN <<>>
      ELSE <<Block(M2M_HIF_HDR_OFFSET, request.ctrl)>>)
  \o (IF request.data = None THEN <<>>
      ELSE <<Block(M2M_HIF_HDR_OFFSET + request.offset, request.data)>>)

\* bus is what happens: whether the WINC wakes, after how many reads it has an
\* address to give, if it has one (`memory'), and the exchange in which the bus
\* fails, if it does.  A bus that has failed does nothing more, so the WINC is put
\* to sleep just if it has not.  told is whether the WINC knows of the request.
winc_hif_send(hif, request, bus) ==
  LET woken == winc_hif_chip_wake(hif, bus.wakes)
      slept == winc_hif_chip_sleep(woken.hif, bus.error = "NONE").hif
      mustSleep == winc_hif_chip_sleep(woken.hif, FALSE).status = "M2M_ERR_FAIL"
      written == \/ bus.error \in {"NONE", "TRIGGER", "SLEEP"}
                 \/ bus.error = "CTRL" /\ request.ctrl = None
                 \/ bus.error = "DATA" /\ request.data = None
      failed == \/ ~written
                \/ bus.error = "TRIGGER"
                \/ bus.error = "SLEEP" /\ mustSleep
      answer(status, state, told) == [status |-> status, hif |-> state, told |-> told]
  IN  IF LengthOf(request) > M2M_HIF_MAX_PACKET_SIZE
        THEN answer("M2M_ERR_SEND", hif, "NO")
      ELSE IF woken.status # "M2M_SUCCESS"
        THEN answer("M2M_ERR_SEND", woken.hif, "NO")
      ELSE IF bus.error \in {"REQUEST", "POLL"}
        THEN answer("M2M_ERR_SEND", slept, "NO")
      ELSE IF bus.polls > 1000 \/ bus.error = "ADDRESS" \/ ~bus.memory
        THEN answer("M2M_ERR_MEM_ALLOC", slept, "NO")
      ELSE answer(IF failed THEN "M2M_ERR_SEND" ELSE "M2M_SUCCESS", slept,
                  CASE ~written -> "NO"
                    [] written /\ bus.error = "TRIGGER" -> "MAYBE"
                    [] OTHER -> "YES")

winc_hif_send_no_data(hif, gid, opcode, ctrl, bus) ==
  winc_hif_send(hif, Request(gid, opcode, ctrl, None, 0), bus)
-----------------------------------------------------------------------------
(* From the WINC.  The pin's interrupt counts, and handle_isr() takes one.  *)

winc_adapter_init(hif) == [hif EXCEPT !.serviceRequest = 0]

winc_interrupt_handler(hif, low) ==
  IF low THEN [hif EXCEPT !.serviceRequest = (@ + 1) % 256] ELSE hif

winc_adapter_interrupt_serviced(hif, bEdgeInt) ==
  IF bEdgeInt /\ hif.serviceRequest # 0
  THEN [hif EXCEPT !.serviceRequest = @ - 1] ELSE hif

winc_adapter_interrupt_request_pending(hif) == hif.serviceRequest # 0

\* message is what the WINC has to say: raised and size are in its interrupt
\* register, the rest in the message.  exchanges is how many exchanges succeed of:
\* reading that register, clearing it, reading the address, reading the header,
\* telling the WINC that it is done.  called is the callback's argument, if any;
\* what the callback does itself is not in the result.
winc_hif_handle_isr(hif, message, exchanges) ==
  LET sized == [hif EXCEPT !.gu16RxSize = message.size]
      placed == IF exchanges >= 3 THEN [sized EXCEPT !.gu32RxAddr = message.address]
                ELSE sized
      stop(status, state) ==
        [status |-> status, hif |-> state, called |-> {}, done |-> FALSE]
  IN  IF ~winc_adapter_interrupt_request_pending(hif) THEN stop("M2M_SUCCESS", hif)
      ELSE IF exchanges < 1 \/ ~message.raised \/ exchanges < 2 THEN stop("M2M_ERR_FAIL", hif)
      ELSE IF message.size = 0 THEN stop("M2M_ERR_RCV", sized)
      ELSE IF exchanges < 4 THEN stop("M2M_ERR_FAIL", placed)
      ELSE IF U16(message.size - message.length) > 4 THEN stop("M2M_ERR_BUS_FAIL", placed)
      ELSE IF message.gid \notin 1..WINC_HIF_CB_HIGHEST_GID THEN stop("M2M_ERR_FAIL", placed)
      ELSE [status |-> IF exchanges < 5 THEN "M2M_ERR_FAIL" ELSE "M2M_SUCCESS",
            hif |-> winc_adapter_interrupt_serviced(placed, TRUE),
            called |-> {[gid |-> message.gid, opcode |-> message.opcode,
                         size |-> U16(message.length - M2M_HIF_HDR_OFFSET),
                         address |-> message.address + M2M_HIF_HDR_OFFSET]},
            done |-> exchanges >= 5]

\* Within the last message, though it is done.
winc_hif_receive(hif, u32Addr, u16Sz, works) ==
  IF /\ u16Sz <= hif.gu16RxSize
     /\ u32Addr >= hif.gu32RxAddr
     /\ u32Addr + u16Sz <= hif.gu32RxAddr + hif.gu16RxSize
     /\ works
  THEN "M2M_SUCCESS" ELSE "M2M_ERR_FAIL"
=============================================================================
