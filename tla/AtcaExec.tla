------------------------------ MODULE AtcaExec ------------------------------
(***************************************************************************)
(* How a command reaches the secure element: atca_execute_command() of     *)
(* atca_execution.c over the hal of hal/atca_i2c_hal.c, with the two reads *)
(* and the synchronisation of atcab_init() at boot.                        *)
(*                                                                         *)
(* One transfer of i2c_simple_master.c is one step (TwiMaster shows what a *)
(* transfer is), and a delay is one.  Between them the device goes on, the *)
(* board may be reset while the device keeps its state, a transfer may be  *)
(* cut short by an error of the bus and the device may fall asleep: all    *)
(* these together at most MaxFaults times.                                 *)
(***************************************************************************)
EXTENDS Integers

CONSTANTS
  Command,    \* the commands that the host's requests lead to
  ChipMode,   \* values of the chip mode byte of the device
  MaxFaults   \* bound: resets, errors and dozes

\* A table with some times of its own.
Except(table, times) ==
  [opcode \in DOMAIN table \cup DOMAIN times |->
     IF opcode \in DOMAIN times THEN times[opcode] ELSE table[opcode]]

\* Times in ms by opcode, for the devices of device_execution_time_t.
device_execution_time_204 ==
  [CHECKMAC |-> 38, DERIVE_KEY |-> 62, GENDIG |-> 43, HMAC |-> 69, INFO |-> 2,
   LOCK |-> 24, MAC |-> 35, NONCE |-> 60, PAUSE |-> 2, RANDOM |-> 50,
   READ |-> 5, SHA |-> 22, UPDATE_EXTRA |-> 12, WRITE |-> 42]

device_execution_time_108 ==
  [CHECKMAC |-> 13, COUNTER |-> 20, DERIVE_KEY |-> 50, GENDIG |-> 11,
   GENKEY |-> 115, HMAC |-> 23, INFO |-> 2, LOCK |-> 32, MAC |-> 14,
   NONCE |-> 29, PAUSE |-> 3, PRIVWRITE |-> 48, RANDOM |-> 23, READ |-> 5,
   SHA |-> 9, SIGN |-> 60, UPDATE_EXTRA |-> 10, VERIFY |-> 72, WRITE |-> 26]

\* The same times, and ECDH.
device_execution_time_508 ==
  Except(device_execution_time_108, [ECDH |-> 58])

device_execution_time_608_m0 ==
  [AES |-> 27, CHECKMAC |-> 40, COUNTER |-> 25, DERIVE_KEY |-> 50, ECDH |-> 75,
   GENDIG |-> 25, GENKEY |-> 115, INFO |-> 5, KDF |-> 165, LOCK |-> 35,
   MAC |-> 55, NONCE |-> 20, PRIVWRITE |-> 50, RANDOM |-> 23, READ |-> 5,
   SECUREBOOT |-> 80, SELFTEST |-> 250, SHA |-> 36, SIGN |-> 115,
   UPDATE_EXTRA |-> 10, VERIFY |-> 105, WRITE |-> 45]

device_execution_time_608_m1 ==
  Except(device_execution_time_608_m0,
         [ECDH |-> 172, GENDIG |-> 35, GENKEY |-> 215, SECUREBOOT |-> 160,
          SELFTEST |-> 625, SHA |-> 42, SIGN |-> 220, VERIFY |-> 295])

device_execution_time_608_m2 ==
  Except(device_execution_time_608_m1,
         [ECDH |-> 531, GENKEY |-> 653, SECUREBOOT |-> 480, SELFTEST |-> 2324,
          SHA |-> 75, SIGN |-> 665, VERIFY |-> 1085])

\* ATCA_CHIPMODE_CLOCK_DIV_M1 and _M2; anything else is taken for M0.
Table608(divider) ==
  IF divider = 40 THEN device_execution_time_608_m1
  ELSE IF divider = 104 THEN device_execution_time_608_m2
  ELSE device_execution_time_608_m0

Table(dt, divider) ==
  IF dt = "ATSHA204A" THEN device_execution_time_204
  ELSE IF dt = "ATECC108A" THEN device_execution_time_108
  ELSE IF dt = "ATECC508A" THEN device_execution_time_508
  ELSE Table608(divider)

\* The time for an opcode, or ATCA_UNSUPPORTED_CMD.
UnsupportedCmd == 65535
atGetExecTime(dt, divider, opcode) ==
  LET table == Table(dt, divider)
  IN  IF opcode \in DOMAIN table THEN table[opcode] ELSE UnsupportedCmd

\* The clock mode that a chip mode byte puts the device in.
ClockMode(byte) == byte - (byte % 8)

\* Mutant: the other bits of the byte stay.
Unmasked(byte) == byte

\* byte & ATCA_CHIPMODE_CLOCK_DIV_MASK, 0xF8
Masked(byte) == (byte \div 8) * 8

\* ATCA_POST_DELAY_MSEC, cfg->wake_delay, and the delay of hal_ecc_sync()
PostDelay == 25
WakeDelay == 1
SyncDelay == 1900

ASSUME ExecAssumption ==
  /\ Command \subseteq DOMAIN device_execution_time_608_m0
  /\ ChipMode \subseteq 0..255 /\ ChipMode # {}
  /\ MaxFaults \in Nat

VARIABLES
  device,  \* the secure element, see Init
  pc,      \* the next transfer or delay of the firmware
  stage,   \* what the running command is for
  op,      \* its opcode
  tries,   \* how often a wake, or a read of hal_ecc_sync(), is still tried
  clock_divider,
  mode_read, \* history: this boot's atcab_init() has read the device's mode
  status,  \* of the running command
  ran,     \* history: how often the device has run it ...
  result,  \* ... and what its caller got
  data,    \* the bytes that hal_i2c_wake() has on the stack
  faults

vars == <<device, pc, stage, op, tries, clock_divider, mode_read, status, ran,
          result, data, faults>>

NoOp == "none"

\* output is what a read gets, will what it is to be after the command or the
\* self test that runs; fresh: nothing has been read of it yet.
Init == /\ \E m \in ChipMode :
             device = [awake |-> FALSE, runs |-> NoOp, left |-> 0,
                       output |-> "none", will |-> "none", fresh |-> FALSE,
                       mode |-> m]
        /\ pc = "call" /\ stage = "init" /\ op = "READ"
        /\ tries = 0 /\ clock_divider = 0 /\ mode_read = FALSE
        /\ status = "none" /\ ran = 0 /\ result = "none"
        /\ data = "other" /\ faults = 0
-----------------------------------------------------------------------------
(* The device.  It acknowledges its address when it is awake and idle.     *)

Acknowledges(d) == d.awake /\ d.runs = NoOp

Finished(d) == [d EXCEPT !.runs = NoOp, !.left = 0, !.output = d.will,
                         !.fresh = TRUE]

\* A wake pulse starts the power-on self test, if that is enabled.
Woken(d) ==
  LET w == [d EXCEPT !.awake = TRUE, !.output = "wake", !.fresh = TRUE]
      post == [w EXCEPT !.runs = "POST", !.left = PostDelay,
                        !.output = "none", !.will = "wake"]
  IN  IF d.awake THEN {d} ELSE {w, post}

\* A command takes at most the time of its device's clock mode.
Started(d) ==
  {[d EXCEPT !.runs = op, !.will = r, !.output = "none",
             !.left = Table608(ClockMode(d.mode))[op]] : r \in {"answer", "error"}}

Elapse(d, ms) ==
  IF d.runs = NoOp THEN d
  ELSE IF d.left <= ms THEN Finished(d) ELSE [d EXCEPT !.left = @ - ms]

Drained(d) == [d EXCEPT !.fresh = FALSE]

\* It may be done earlier than in the worst case.
Finish == /\ device.runs # NoOp
          /\ device' = Finished(device)
          /\ UNCHANGED <<pc, stage, op, tries, clock_divider, mode_read, status,
                         ran, result, data, faults>>

Fault == faults < MaxFaults /\ faults' = faults + 1
NoFault == faults' = faults

\* The watchdog of the device.
Doze == /\ Fault /\ Acknowledges(device)
        /\ device' = [device EXCEPT !.awake = FALSE, !.output = "none"]
        /\ UNCHANGED <<pc, stage, op, tries, clock_divider, mode_read, status,
                       ran, result, data>>

\* The power-on self test fails.
PostFails == /\ Fault /\ device.runs = "POST"
             /\ device' = Finished([device EXCEPT !.will = "selftest_failed"])
             /\ UNCHANGED <<pc, stage, op, tries, clock_divider, mode_read,
                            status,
                            ran, result, data>>
-----------------------------------------------------------------------------
(* atca_execute_command()                                                  *)

atca_execute_command ==
  /\ pc = "call"
  /\ pc' = "pulse" /\ tries' = 1
  /\ status' = "none" /\ ran' = 0 /\ result' = "none"
  /\ NoFault
  /\ UNCHANGED <<device, stage, op, clock_divider, mode_read, data>>

\* Mutant: the pulse is not sent.
WakePulseNotSent ==
  /\ pc = "pulse" /\ pc' = "wake_read"
  /\ NoFault /\ device' = Elapse(device, WakeDelay)
  /\ UNCHANGED <<stage, op, tries, clock_divider, mode_read, status, ran,
                 result,
                 data>>

\* hal_i2c_wake(): a write to address 0, then the delay.
WakePulse ==
  /\ pc = "pulse" /\ pc' = "wake_read"
  /\ \/ NoFault /\ device' \in Woken(device)
     \/ Fault /\ device' = Elapse(device, WakeDelay)
  /\ UNCHANGED <<stage, op, tries, clock_divider, mode_read, status, ran,
                 result, data>>

\* What the four bytes of data[] are then: they keep what was on the stack, what
\* an earlier call has read or anything else, if the address is not
\* acknowledged or the bus fails.
Leftovers == {data, "other"}
WakeData ==
  IF ~Acknowledges(device) THEN Leftovers
  ELSE IF device.fresh /\ device.output \in {"wake", "selftest_failed"}
    THEN {device.output} ELSE {"other"}

\* Mutant: the device is woken again and again.
WakeReadForever ==
  /\ pc = "wake_read"
  /\ \/ NoFault /\ data' \in WakeData
     \/ Fault /\ data' \in Leftovers
  /\ \/ data' = "wake" /\ pc' = "send" /\ UNCHANGED status
     \/ data' = "other" /\ pc' = "post_delay" /\ UNCHANGED status
     \/ data' = "selftest_failed" /\ pc' = "idle" /\ status' = "failed"
  /\ device' = IF Acknowledges(device) THEN Drained(device) ELSE device
  /\ UNCHANGED <<stage, op, tries, clock_divider, mode_read, ran, result>>

\* hal_check_wake() on them, and the second try of atwake().
WakeRead ==
  /\ pc = "wake_read"
  /\ \/ NoFault /\ data' \in WakeData
     \/ Fault /\ data' \in Leftovers
  /\ \/ data' = "wake" /\ pc' = "send" /\ UNCHANGED status
     \/ data' = "other" /\ tries > 0 /\ pc' = "post_delay" /\ UNCHANGED status
     \/ /\ data' = "selftest_failed" \/ (data' = "other" /\ tries = 0)
        /\ pc' = "idle" /\ status' = "failed"
  /\ device' = IF Acknowledges(device) THEN Drained(device) ELSE device
  /\ UNCHANGED <<stage, op, tries, clock_divider, mode_read, ran, result>>

\* Mutant: the tries are not counted.
PostWaitUncounted ==
  /\ pc = "post_delay" /\ pc' = "pulse"
  /\ device' = Elapse(device, PostDelay)
  /\ NoFault
  /\ UNCHANGED <<stage, op, tries, clock_divider, mode_read, status, ran,
                 result,
                 data>>

PostWait ==
  /\ pc = "post_delay" /\ pc' = "pulse"
  /\ tries' = tries - 1
  /\ device' = Elapse(device, PostDelay)
  /\ NoFault
  /\ UNCHANGED <<stage, op, clock_divider, mode_read, status, ran, result,
                 data>>

\* hal_i2c_send() polls until the device acknowledges.  A command that is cut
\* short is not run, and the device may say so when it is read.
hal_i2c_send ==
  /\ pc = "send" /\ pc' = "delay"
  /\ \/ /\ NoFault /\ Acknowledges(device)
        /\ device' \in Started(device)
        /\ ran' = ran + 1
     \/ /\ Fault
        /\ device' \in {device} \cup
             (IF Acknowledges(device)
                THEN {[device EXCEPT !.output = "error", !.fresh = TRUE]}
                ELSE {})
        /\ ran' = ran
  /\ UNCHANGED <<stage, op, tries, clock_divider, mode_read, status, result,
                 data>>

ExecutionDelay ==
  /\ pc = "delay" /\ pc' = "receive"
  /\ device' = Elapse(device, atGetExecTime("ATECC608A", clock_divider, op))
  /\ NoFault
  /\ UNCHANGED <<stage, op, tries, clock_divider, mode_read, status, ran,
                 result, data>>

\* Mutant: a command whose answer is not good is sent again.
hal_i2c_receiveResend ==
  /\ pc = "receive"
  /\ \/ /\ NoFault
        /\ status' = IF /\ Acknowledges(device) /\ device.fresh
                        /\ device.output = "answer"
                       THEN "ok" ELSE "failed"
     \/ Fault /\ status' = "failed"
  /\ pc' = IF status' = "ok" THEN "idle" ELSE "send"
  /\ device' = IF Acknowledges(device) THEN Drained(device) ELSE device
  /\ UNCHANGED <<stage, op, tries, clock_divider, mode_read, ran, result, data>>

\* hal_i2c_receive() asks once; then the size, the CRC and isATCAError().
hal_i2c_receive ==
  /\ pc = "receive" /\ pc' = "idle"
  /\ \/ /\ NoFault
        /\ status' = IF /\ Acknowledges(device) /\ device.fresh
                        /\ device.output = "answer"
                       THEN "ok" ELSE "failed"
     \/ Fault /\ status' = "failed"
  /\ device' = IF Acknowledges(device) THEN Drained(device) ELSE device
  /\ UNCHANGED <<stage, op, tries, clock_divider, mode_read, ran, result, data>>

Proceed(p, s, o) == pc' = p /\ stage' = s /\ op' = o

\* The byte that a successful read of the chip mode has stored.
ReadByte == IF ran = 1 THEN {device.mode} ELSE ChipMode \cup {255}

InitDone(byte) == /\ clock_divider' = Masked(byte)
                  /\ mode_read' = (ran = 1)
                  /\ Proceed("call", "lock", "LOCK")

\* What follows a command, by its stage: the rest of atcab_init(), the lock of
\* CryptoAuth_Initialize(), the self test of main() and the host's requests.
Return ==
  \/ /\ stage \in {"init", "init_again"} /\ status = "ok"
     /\ \E byte \in ReadByte : InitDone(byte)
     /\ tries' = 0
  \/ /\ stage = "init" /\ status # "ok"
     /\ Proceed("sync_read", "init_again", "READ")
     /\ tries' = 3
     /\ UNCHANGED <<clock_divider, mode_read>>
  \/ /\ stage = "lock" \/ (stage = "init_again" /\ status # "ok")
     /\ Proceed("call", "selftest", "SELFTEST")
     /\ tries' = 0
     /\ UNCHANGED <<clock_divider, mode_read>>
  \/ /\ stage \in {"selftest", "host"}
     /\ Proceed("ready", "host", op)
     /\ tries' = 0
     /\ UNCHANGED <<clock_divider, mode_read>>

\* atidle(), whatever has happened before, and the return.
atidle ==
  /\ pc = "idle"
  /\ \/ /\ NoFault /\ Acknowledges(device)
        /\ device' = [device EXCEPT !.awake = FALSE, !.output = "none",
                                    !.fresh = FALSE]
     \/ Fault /\ device' = device
  /\ result' = IF status = "ok" THEN "ok" ELSE "failed"
  /\ Return
  /\ UNCHANGED <<status, ran, data>>

Request(c) ==
  /\ pc = "ready"
  /\ Proceed("call", "host", c)
  /\ NoFault
  /\ UNCHANGED <<device, tries, clock_divider, mode_read, status, ran, result,
                 data>>
-----------------------------------------------------------------------------
(* hal_ecc_sync()                                                          *)

\* attempt_read() ends with I2C0_NOERR if the device does not acknowledge:
\* only an error of the bus is seen.
SyncRead ==
  /\ pc = "sync_read"
  /\ \/ NoFault /\ pc' = "sync_reset" /\ tries' = 0
     \/ Fault /\ pc' = "sync_reset" /\ tries' = 0
     \/ /\ Fault /\ tries' = tries - 1
        /\ pc' = IF tries = 3 THEN "sync_wake"
                 ELSE IF tries = 2 THEN "sync_delay" ELSE "call"
  /\ device' = IF Acknowledges(device) THEN Drained(device) ELSE device
  /\ UNCHANGED <<stage, op, clock_divider, mode_read, status, ran, result,
                 data>>

\* hal_i2c_wake(), whose result is not looked at.
SyncWake ==
  /\ pc = "sync_wake" /\ pc' = "sync_read"
  /\ \/ NoFault /\ device' \in Woken(device)
     \/ Fault /\ device' = device
  /\ UNCHANGED <<stage, op, tries, clock_divider, mode_read, status, ran,
                 result, data>>

SyncWait ==
  /\ pc = "sync_delay" /\ pc' = "sync_read"
  /\ device' = Elapse(device, SyncDelay)
  /\ NoFault
  /\ UNCHANGED <<stage, op, tries, clock_divider, mode_read, status, ran,
                 result, data>>

\* The write to the reset register, which polls: reads start over.
SyncReset ==
  /\ pc = "sync_reset" /\ pc' = "call"
  /\ \/ /\ NoFault /\ Acknowledges(device)
        /\ device' = [device EXCEPT !.fresh = (device.output # "none")]
     \/ Fault /\ device' = device
  /\ UNCHANGED <<stage, op, tries, clock_divider, mode_read, status, ran,
                 result, data>>
-----------------------------------------------------------------------------
\* The board starts again; the device does not notice, but for a transfer that
\* is cut off.
Reset ==
  /\ Fault
  /\ device' \in {device, Drained(device)}
  /\ Proceed("call", "init", "READ")
  /\ tries' = 0 /\ clock_divider' = 0 /\ mode_read' = FALSE
  /\ status' = "none" /\ result' = "failed" /\ ran' = ran
  /\ data' = data

Firmware == \/ atca_execute_command \/ WakePulse \/ WakeRead \/ PostWait
            \/ hal_i2c_send \/ ExecutionDelay \/ hal_i2c_receive \/ atidle
            \/ SyncRead \/ SyncWake \/ SyncWait \/ SyncReset

Next == \/ Firmware \/ Finish \/ PostFails \/ Doze \/ Reset
        \/ \E c \in Command : Request(c)

Spec == Init /\ [][Next]_vars

\* The firmware runs on, and a command of the device comes to its end.
FairSpec == Spec /\ WF_vars(Firmware) /\ WF_vars(Finish)
-----------------------------------------------------------------------------
Pcs == {"call", "pulse", "wake_read", "post_delay", "send", "delay", "receive",
        "idle", "sync_read", "sync_wake", "sync_delay", "sync_reset", "ready"}

Asked == pc \in {"pulse", "wake_read", "post_delay", "send", "delay",
                 "receive", "idle"}

Outputs == {"none", "wake", "selftest_failed", "answer", "error"}

BusyOps == Command \cup {"READ", "LOCK", "SELFTEST", "POST"}

\* The types of the firmware's and of the device's state.
TypeOK ==
  /\ device \in [awake : BOOLEAN, runs : BusyOps \cup {NoOp}, left : Nat,
                 output : Outputs, will : Outputs, fresh : BOOLEAN,
                 mode : ChipMode]
  /\ pc \in Pcs
  /\ stage \in {"init", "init_again", "lock", "selftest", "host"}
  /\ op \in BusyOps \ {"POST"}
  /\ tries \in 0..3
  /\ clock_divider \in 0..255
  /\ mode_read \in BOOLEAN
  /\ status \in {"none", "ok", "failed"}
  /\ ran \in 0..1
  /\ result \in {"none", "ok", "failed"}
  /\ data \in {"wake", "selftest_failed", "other"}
  /\ faults \in 0..MaxFaults

\* A command is run at most once and succeeds only if it has been run: a reset
\* of the board, a transfer that the hal reports as done though it was cut short
\* or wake bytes that were never read do not, alone, make an old answer pass.
Exchange == INSTANCE EccExchange WITH asked <- Asked
ImplementsExchange == Exchange!Spec

\* The firmware asks once, after a fixed time: once atcab_init() has read the
\* clock mode, the device is never still busy with the command.
NeverTooEarly ==
  mode_read /\ pc = "receive" /\ ran = 1 => device.runs = NoOp

\* A write that polls a device at rest never ends.
Hung == pc \in {"send", "idle", "sync_reset"} /\ ~device.awake

\* atsend() and atidle() poll without a limit.  They find the device awake
\* unless something has failed, though the result of the wake may be leftovers.
HangNeedsFault == Hung /\ pc # "sync_reset" => faults > 0

\* hal_ecc_sync() reads before it writes to the reset register, and "Read
\* failed, ECC device might be at sleep": then it wakes the device.
SleeperIsWoken == pc = "sync_reset" => device.awake

\* Whatever the firmware does ends, but for a write to a device at rest.
ExecutionEnds == pc # "ready" ~> (pc = "ready" \/ Hung)
=============================================================================
