--------------------------- MODULE AtcaExecProofs ---------------------------
(***************************************************************************)
(* Proofs about AtcaExec for every set of commands and of chip modes, and  *)
(* any number of faults: the types, that the firmware never asks too early *)
(* once it knows the clock mode, that it polls a device at rest only after *)
(* a fault, and that it implements EccExchange.                            *)
(***************************************************************************)
EXTENDS AtcaExec, TLAPS

Devices == [awake : BOOLEAN, runs : BusyOps \cup {NoOp}, left : Nat,
            output : Outputs, will : Outputs, fresh : BOOLEAN, mode : ChipMode]

FirmwareTypeOK ==
  /\ pc \in Pcs
  /\ stage \in {"init", "init_again", "lock", "selftest", "host"}
  /\ op \in BusyOps \ {"POST"}
  /\ tries \in 0..3
  /\ clock_divider \in 0..255
  /\ mode_read \in BOOLEAN
  /\ status \in {"none", "ok", "failed"}
  /\ ran \in 0..1
  /\ result \in {"none", "ok", "failed"}
  /\ data \in {"wake", "selftest_failed", "other"}
  /\ faults \in 0..MaxFaults

\* Until it is sent a command has not been run, and whatever is tried again is
\* counted down to the last try.
Counts ==
  /\ pc \in {"pulse", "wake_read", "post_delay", "send"} => ran = 0
  /\ pc \in {"post_delay", "sync_read", "sync_wake", "sync_delay"} => tries > 0

\* The clock divider is that of the device once the mode has been read, and a
\* command that runs during the delay is done in the time of that mode.
Timed ==
  /\ mode_read => clock_divider = Masked(device.mode)
  /\ pc = "delay" /\ ran = 1 /\ device.runs # NoOp =>
       device.left <= Table608(ClockMode(device.mode))[op]
  /\ NeverTooEarly

\* Without a fault the device stays awake from its wake pulse to its idle.
Awake ==
  faults = 0 /\ pc \in {"wake_read", "post_delay", "send", "delay", "receive",
                        "idle"} => device.awake

\* The device has no answer to give, nor will have one.
Clean(d) == d.output # "answer" /\ (d.runs # NoOp => d.will # "answer")

\* What an answer that is received is the answer to: a command that has been
\* run, as long as there has been at most one fault.
Answers ==
  /\ faults = 0 /\ pc \notin {"delay", "receive", "idle"} => Clean(device)
  /\ faults = 0 /\ pc \in {"delay", "receive"} => ran = 1
  /\ faults <= 1 /\ pc \in {"delay", "receive"} /\ ran = 0 => Clean(device)
  /\ pc = "idle" /\ status = "ok" => ran = 1 \/ faults >= 2

-----------------------------------------------------------------------------
(* The tables and the device.                                              *)

\* Times of its own do not take a table out of its type.
LEMMA ExceptTypes ==
  ASSUME NEW D, NEW f \in [D -> Nat], NEW E, NEW g \in [E -> Nat], E \subseteq D
  PROVE  Except(f, g) \in [D -> Nat]
BY DEF Except

\* Every opcode that the firmware sends has a time in each clock mode.
LEMMA TableTypes ==
  ASSUME NEW d \in Int, NEW o \in BusyOps \ {"POST"}
  PROVE  Table608(d)[o] \in Nat /\ o \in DOMAIN Table608(d)
<1> DEFINE D == DOMAIN device_execution_time_608_m0
           n1 == [ECDH |-> 172, GENDIG |-> 35, GENKEY |-> 215,
                  SECUREBOOT |-> 160, SELFTEST |-> 625, SHA |-> 42,
                  SIGN |-> 220, VERIFY |-> 295]
           n2 == [ECDH |-> 531, GENKEY |-> 653, SECUREBOOT |-> 480,
                  SELFTEST |-> 2324, SHA |-> 75, SIGN |-> 665, VERIFY |-> 1085]
<1>1. o \in D
  BY ExecAssumption DEF BusyOps, device_execution_time_608_m0
<1>2. device_execution_time_608_m0 \in [D -> Nat]
  BY DEF device_execution_time_608_m0
<1>3. n1 \in [DOMAIN n1 -> Nat] /\ DOMAIN n1 \subseteq D
  BY DEF device_execution_time_608_m0
<1>4. n2 \in [DOMAIN n2 -> Nat] /\ DOMAIN n2 \subseteq D
  BY DEF device_execution_time_608_m0
<1>5. /\ device_execution_time_608_m1 = Except(device_execution_time_608_m0, n1)
      /\ device_execution_time_608_m2 = Except(device_execution_time_608_m1, n2)
  BY DEF device_execution_time_608_m1, device_execution_time_608_m2
<1> HIDE DEF D, n1, n2
<1>6. device_execution_time_608_m1 \in [D -> Nat]
  BY <1>2, <1>3, <1>5, ExceptTypes
<1>7. device_execution_time_608_m2 \in [D -> Nat]
  BY <1>4, <1>5, <1>6, ExceptTypes
<1>8. Table608(d) \in [D -> Nat]
  BY <1>2, <1>6, <1>7 DEF Table608
<1> QED BY <1>1, <1>8

\* The firmware masks the byte as the device does.
LEMMA MaskIsClockMode ==
  ASSUME NEW b \in 0..255
  PROVE  Masked(b) = ClockMode(b) /\ Masked(b) \in 0..255
BY DEF Masked, ClockMode

LEMMA FinishedType ==
  ASSUME NEW d \in Devices
  PROVE  /\ Finished(d) \in Devices
         /\ Finished(d).mode = d.mode /\ Finished(d).awake = d.awake
         /\ Finished(d).runs = NoOp /\ Finished(d).output = d.will
BY DEF Devices, Finished, NoOp

LEMMA ElapseType ==
  ASSUME NEW d \in Devices, NEW ms \in Nat
  PROVE  /\ Elapse(d, ms) \in Devices
         /\ Elapse(d, ms).mode = d.mode /\ Elapse(d, ms).awake = d.awake
         /\ Clean(d) => Clean(Elapse(d, ms))
         /\ d.runs = NoOp => Elapse(d, ms) = d
         /\ d.left <= ms => Elapse(d, ms).runs = NoOp
<1>1. CASE d.runs = NoOp
  BY <1>1 DEF Elapse
<1>2. CASE d.runs # NoOp /\ d.left <= ms
  BY <1>2, FinishedType DEF Elapse, Clean
<1>3. CASE d.runs # NoOp /\ ~(d.left <= ms)
  BY <1>3 DEF Elapse, Devices, Clean
<1> QED BY <1>1, <1>2, <1>3

LEMMA WokenType ==
  ASSUME NEW d \in Devices, NEW w \in Woken(d)
  PROVE  /\ w \in Devices /\ w.mode = d.mode /\ w.awake
         /\ Clean(d) => Clean(w)
<1> DEFINE up == [d EXCEPT !.awake = TRUE, !.output = "wake", !.fresh = TRUE]
           post == [up EXCEPT !.runs = "POST", !.left = PostDelay,
                              !.output = "none", !.will = "wake"]
<1>2. up \in Devices /\ up.mode = d.mode /\ up.awake /\ (Clean(d) => Clean(up))
  BY DEF Devices, Outputs, Clean
<1>3. post \in Devices /\ post.mode = d.mode /\ post.awake /\ Clean(post)
  <2>1. PostDelay \in Nat /\ "POST" \in BusyOps
    BY DEF PostDelay, BusyOps
  <2> QED BY <1>2, <2>1 DEF Devices, Outputs, Clean
<1>4. (w = d /\ d.awake) \/ w = up \/ w = post
  BY DEF Woken
<1> QED BY <1>2, <1>3, <1>4

LEMMA DrainedType ==
  ASSUME NEW d \in Devices
  PROVE  /\ Drained(d) \in Devices
         /\ Drained(d).mode = d.mode /\ Drained(d).awake = d.awake
         /\ Drained(d).runs = d.runs /\ Drained(d).left = d.left
         /\ Clean(d) => Clean(Drained(d))
BY DEF Devices, Drained, Clean

\* A command starts only when the device is idle, and takes its time at most.
LEMMA StartedType ==
  ASSUME device \in Devices, op \in BusyOps \ {"POST"},
         NEW s \in Started(device)
  PROVE  /\ s \in Devices /\ s.mode = device.mode /\ s.awake = device.awake
         /\ s.left <= Table608(ClockMode(device.mode))[op]
<1>1. ChipMode \subseteq 0..255 /\ device.mode \in ChipMode
  BY ExecAssumption DEF Devices
<1>2. ClockMode(device.mode) \in Int
  <2>1. device.mode \in 0..255
    BY <1>1, Zenon
  <2>2. ClockMode(device.mode) \in 0..255
    BY <2>1, MaskIsClockMode, Zenon
  <2> QED BY <2>2
<1> DEFINE t == Table608(ClockMode(device.mode))[op]
<1>3. t \in Nat
  BY <1>2, TableTypes
<1> HIDE DEF t
<1>4. PICK r \in {"answer", "error"} :
        s = [device EXCEPT !.runs = op, !.will = r, !.output = "none",
                           !.left = t]
  BY DEF Started, t
<1>5. /\ s \in Devices /\ s.mode = device.mode /\ s.awake = device.awake
      /\ s.left = t
  BY <1>3, <1>4 DEF Devices, Outputs
<1> QED BY <1>3, <1>5 DEF t

-----------------------------------------------------------------------------
(* The steps.  First what each does to the device, then each part of the   *)
(* invariant.                                                              *)

LEMMA TypesSplit == TypeOK <=> device \in Devices /\ FirmwareTypeOK
BY Zenon DEF TypeOK, Devices, FirmwareTypeOK

\* Constants of the device and of the firmware.
LEMMA Delays == PostDelay \in Nat /\ WakeDelay \in Nat /\ SyncDelay \in Nat
BY DEF PostDelay, WakeDelay, SyncDelay

LEMMA ExecTime ==
  ASSUME FirmwareTypeOK
  PROVE  /\ atGetExecTime("ATECC608A", clock_divider, op)
              = Table608(clock_divider)[op]
         /\ Table608(clock_divider)[op] \in Nat
<1>1. clock_divider \in Int /\ op \in BusyOps \ {"POST"}
  BY DEF FirmwareTypeOK
<1>2. op \in DOMAIN Table608(clock_divider)
  BY <1>1, TableTypes
<1>3. Table("ATECC608A", clock_divider) = Table608(clock_divider)
  BY DEF Table
<1> QED BY <1>1, <1>2, <1>3, TableTypes DEF atGetExecTime

\* No step takes the device out of its type or changes its chip mode.
LEMMA DeviceStep ==
  ASSUME TypeOK, [Next]_vars
  PROVE  device' \in Devices /\ device'.mode = device.mode
<1>1. device \in Devices /\ FirmwareTypeOK
  BY TypesSplit
<1>2. op \in BusyOps \ {"POST"}
  BY <1>1 DEF FirmwareTypeOK
<1> USE <1>1, <1>2
<1>3. CASE Finish \/ PostFails
  <2>1. [device EXCEPT !.will = "selftest_failed"] \in Devices
        /\ [device EXCEPT !.will = "selftest_failed"].mode = device.mode
    BY DEF Devices, Outputs
  <2> QED BY <1>3, <2>1, FinishedType DEF Finish, PostFails
<1>4. CASE Doze
  <2>1. device' = [device EXCEPT !.awake = FALSE, !.output = "none"]
    BY <1>4 DEF Doze
  <2> QED BY <2>1 DEF Devices, Outputs
<1>5. CASE WakePulse \/ SyncWake
  <2>1. device' \in Woken(device) \/ device' = device
        \/ device' = Elapse(device, WakeDelay)
    BY <1>5 DEF WakePulse, SyncWake
  <2> QED BY <2>1, WokenType, ElapseType, Delays
<1>6. CASE WakeRead \/ hal_i2c_receive \/ SyncRead \/ Reset
  <2>1. device' \in {device, Drained(device)}
    BY <1>6 DEF WakeRead, hal_i2c_receive, SyncRead, Reset
  <2> QED BY <2>1, DrainedType
<1>7. CASE PostWait \/ ExecutionDelay \/ SyncWait
  <2>1. PICK ms \in Nat : device' = Elapse(device, ms)
    BY <1>7, Delays, ExecTime DEF PostWait, ExecutionDelay, SyncWait
  <2> QED BY <2>1, ElapseType
<1>8. CASE hal_i2c_send
  <2>1. \/ device' \in Started(device) \/ device' = device
        \/ device' = [device EXCEPT !.output = "error", !.fresh = TRUE]
    BY <1>8 DEF hal_i2c_send
  <2>2. CASE device' \in Started(device)
    BY <2>2, StartedType
  <2>3. CASE ~(device' \in Started(device))
    BY <2>1, <2>3 DEF Devices, Outputs
  <2> QED BY <2>2, <2>3
<1>9. CASE atidle
  <2>1. \/ device' = device
        \/ device' = [device EXCEPT !.awake = FALSE, !.output = "none",
                                    !.fresh = FALSE]
    BY <1>9 DEF atidle
  <2> QED BY <2>1 DEF Devices, Outputs
<1>10. CASE SyncReset
  <2>1. \/ device' = device
        \/ device' = [device EXCEPT !.fresh = (device.output # "none")]
    BY <1>10 DEF SyncReset
  <2> QED BY <2>1 DEF Devices
<1>11. CASE \/ atca_execute_command \/ (\E c \in Command : Request(c))
            \/ UNCHANGED vars
  BY <1>11 DEF atca_execute_command, Request, vars
<1> QED BY <1>3, <1>4, <1>5, <1>6, <1>7, <1>8, <1>9, <1>10, <1>11
        DEF Next, Firmware

\* A fault stays within the bound.
LEMMA FaultType ==
  ASSUME FirmwareTypeOK, Fault \/ NoFault
  PROVE  faults' \in 0..MaxFaults
BY ExecAssumption DEF FirmwareTypeOK, Fault, NoFault

\* The firmware's variables keep their types, and the tries are counted.
LEMMA FirmwareStep ==
  ASSUME TypeOK, Counts, [Next]_vars
  PROVE  FirmwareTypeOK' /\ Counts'
<1>1. device \in Devices /\ FirmwareTypeOK
  BY TypesSplit
<1> USE <1>1
<1>2. CASE Finish \/ PostFails \/ Doze
  BY <1>2, FaultType
  DEF Finish, PostFails, Doze, FirmwareTypeOK, Counts
<1>3. CASE WakePulse \/ SyncWake
  <2>1. Fault \/ NoFault
    BY <1>3 DEF WakePulse, SyncWake
  <2> QED BY <1>3, <2>1, FaultType
          DEF WakePulse, SyncWake, FirmwareTypeOK, Counts, Pcs
<1>4. CASE WakeRead
  <2>1. (Fault \/ NoFault) /\ data' \in {"wake", "selftest_failed", "other"}
    BY <1>4 DEF WakeRead, WakeData, Leftovers, FirmwareTypeOK
  <2> QED BY <1>4, <2>1, FaultType DEF WakeRead, FirmwareTypeOK, Counts, Pcs
<1>5. CASE hal_i2c_receive
  <2>1. Fault \/ NoFault
    BY <1>5 DEF hal_i2c_receive
  <2> QED BY <1>5, <2>1, FaultType
          DEF hal_i2c_receive, FirmwareTypeOK, Counts, Pcs
<1>6. CASE SyncRead
  <2>1. Fault \/ NoFault
    BY <1>6 DEF SyncRead
  <2> QED BY <1>6, <2>1, FaultType DEF SyncRead, FirmwareTypeOK, Counts, Pcs
<1>7. CASE Reset
  <2>1. Fault
    BY <1>7 DEF Reset
  <2>2. mode_read' \in BOOLEAN /\ op' \in BusyOps \ {"POST"} /\ pc' = "call"
        /\ stage' = "init"
    BY <1>7 DEF Reset, Proceed, BusyOps
  <2> QED BY <1>7, <2>1, <2>2, FaultType DEF Reset, FirmwareTypeOK, Counts, Pcs
<1>8. CASE PostWait \/ ExecutionDelay \/ SyncWait
  BY <1>8, FaultType
  DEF PostWait, ExecutionDelay, SyncWait, FirmwareTypeOK, Counts, Pcs
<1>9. CASE hal_i2c_send
  <2>1. Fault \/ NoFault
    BY <1>9 DEF hal_i2c_send
  <2> QED BY <1>9, <2>1, FaultType
          DEF hal_i2c_send, FirmwareTypeOK, Counts, Pcs
<1>10. CASE atidle
  <2>1. Fault \/ NoFault
    BY <1>10 DEF atidle
  <2>2. /\ clock_divider' \in 0..255 /\ mode_read' \in BOOLEAN
        /\ tries' \in 0..3 /\ stage' \in {"init_again", "lock", "selftest", "host"}
        /\ op' \in BusyOps \ {"POST"}
        /\ \/ pc' \in {"call", "ready"}
           \/ pc' = "sync_read" /\ tries' = 3
    <3>1. CASE \E byte \in ReadByte : InitDone(byte) /\ tries' = 0
      <4>1. PICK byte \in ReadByte : InitDone(byte) /\ tries' = 0
        BY <3>1
      <4>2. byte \in 0..255
        BY <4>1, ExecAssumption DEF ReadByte, Devices
      <4>3. mode_read' \in BOOLEAN /\ "LOCK" \in BusyOps \ {"POST"}
        BY <4>1 DEF InitDone, BusyOps
      <4>4. clock_divider' = Masked(byte) /\ tries' = 0
            /\ pc' = "call" /\ stage' = "lock" /\ op' = "LOCK"
        BY <4>1 DEF InitDone, Proceed
      <4>5. clock_divider' \in 0..255
        BY <4>2, <4>4, MaskIsClockMode, Zenon
      <4> QED BY <4>3, <4>4, <4>5
    <3>2. CASE ~(\E byte \in ReadByte : InitDone(byte) /\ tries' = 0)
      <4>1. /\ UNCHANGED <<clock_divider, mode_read>>
            /\ \/ Proceed("sync_read", "init_again", "READ") /\ tries' = 3
               \/ Proceed("call", "selftest", "SELFTEST") /\ tries' = 0
               \/ Proceed("ready", "host", op) /\ tries' = 0
        BY <1>10, <3>2 DEF atidle, Return
      <4>2. {"READ", "SELFTEST", op} \subseteq BusyOps \ {"POST"}
        BY DEF FirmwareTypeOK, BusyOps
      <4>3. mode_read' \in BOOLEAN /\ clock_divider' \in 0..255
        BY <4>1 DEF FirmwareTypeOK
      <4> QED BY <4>1, <4>2, <4>3 DEF Proceed
    <3> QED BY <3>1, <3>2
  <2>3. UNCHANGED <<status, ran, data>> /\ result' \in {"ok", "failed"}
    BY <1>10 DEF atidle
  <2> QED BY <2>1, <2>2, <2>3, FaultType DEF FirmwareTypeOK, Counts, Pcs
<1>11. CASE SyncReset
  <2>1. Fault \/ NoFault
    BY <1>11 DEF SyncReset
  <2> QED BY <1>11, <2>1, FaultType DEF SyncReset, FirmwareTypeOK, Counts, Pcs
<1>12. CASE atca_execute_command
  BY <1>12, FaultType DEF atca_execute_command, FirmwareTypeOK, Counts, Pcs
<1>13. CASE \E c \in Command : Request(c)
  <2>1. PICK c \in Command : Request(c)
    BY <1>13
  <2>2. c \in BusyOps \ {"POST"}
    BY <2>1, ExecAssumption DEF BusyOps, device_execution_time_608_m0
  <2> QED BY <2>1, <2>2, FaultType
          DEF Request, Proceed, FirmwareTypeOK, Counts, Pcs
<1>14. CASE UNCHANGED vars
  BY <1>14 DEF vars, FirmwareTypeOK, Counts
<1> QED BY <1>2, <1>3, <1>4, <1>5, <1>6, <1>7, <1>8, <1>9, <1>10, <1>11, <1>12,
           <1>13, <1>14 DEF Next, Firmware

-----------------------------------------------------------------------------
(* The parts of the invariant that TypeOK and Counts serve.                *)

\* The steps of the device alone.
Quiet == Finish \/ PostFails \/ Doze

\* A command that runs in the delay was started by this call.
LEMMA TimedStep ==
  ASSUME TypeOK, Counts, Timed, [Next]_vars
  PROVE  Timed'
<1>1. device \in Devices /\ FirmwareTypeOK /\ device'.mode = device.mode
  BY TypesSplit, DeviceStep
<1> USE <1>1
<1>2. ChipMode \subseteq 0..255 /\ device.mode \in ChipMode
  BY ExecAssumption DEF Devices
<1>3. Masked(device.mode) = ClockMode(device.mode)
  BY <1>2, MaskIsClockMode
<1>4. CASE Quiet
  <2>1. /\ UNCHANGED <<pc, op, clock_divider, mode_read, ran>>
        /\ device'.runs = NoOp \/ device'.runs = device.runs
        /\ device'.left = device.left \/ device'.runs = NoOp
    <3>1. CASE Finish
      BY <3>1, FinishedType DEF Finish
    <3>2. CASE PostFails
      <4>1. [device EXCEPT !.will = "selftest_failed"] \in Devices
        BY DEF Devices, Outputs
      <4> QED BY <3>2, <4>1, FinishedType DEF PostFails
    <3>3. CASE Doze
      <4>1. device' = [device EXCEPT !.awake = FALSE, !.output = "none"]
            /\ UNCHANGED <<pc, op, clock_divider, mode_read, ran>>
        BY <3>3 DEF Doze
      <4> QED BY <4>1 DEF Devices
    <3> QED BY <1>4, <3>1, <3>2, <3>3 DEF Quiet
  <2> QED BY <2>1 DEF Timed, NeverTooEarly
<1>5. CASE ExecutionDelay
  <2> DEFINE ms == Table608(clock_divider)[op]
  <2>1. /\ pc = "delay" /\ pc' = "receive" /\ device' = Elapse(device, ms)
        /\ UNCHANGED <<op, clock_divider, mode_read, ran>>
    BY <1>5, ExecTime DEF ExecutionDelay
  <2>2. ms \in Nat
    BY ExecTime
  <2>3. mode_read /\ ran = 1 /\ device.runs # NoOp => device.left <= ms
    BY <1>3, <2>1 DEF Timed
  <2> HIDE DEF ms
  <2>4. device.runs = NoOp \/ device.left <= ms => device'.runs = NoOp
    BY <2>1, <2>2, ElapseType
  <2> QED BY <2>1, <2>3, <2>4 DEF Timed, NeverTooEarly
<1>6. CASE hal_i2c_send
  <2>1. /\ pc = "send" /\ pc' = "delay" /\ UNCHANGED <<op, clock_divider, mode_read>>
        /\ \/ device' \in Started(device)
           \/ ran' = ran
    BY <1>6 DEF hal_i2c_send
  <2>2. ran = 0
    BY <2>1 DEF Counts
  <2>3. op \in BusyOps \ {"POST"}
    BY DEF FirmwareTypeOK
  <2>4. CASE device' \in Started(device)
    BY <2>1, <2>3, <2>4, StartedType DEF Timed, NeverTooEarly
  <2>5. CASE ran' = ran
    BY <2>1, <2>2, <2>5 DEF Timed, NeverTooEarly
  <2> QED BY <2>1, <2>4, <2>5
<1>7. CASE atidle
  <2>1. pc' \notin {"delay", "receive"}
    BY <1>7 DEF atidle, Return, InitDone, Proceed
  <2>2. CASE UNCHANGED <<clock_divider, mode_read>>
    BY <2>1, <2>2 DEF Timed, NeverTooEarly
  <2>3. CASE \E byte \in ReadByte : InitDone(byte)
    <3>1. PICK byte \in ReadByte :
            clock_divider' = Masked(byte) /\ mode_read' = (ran = 1)
      BY <2>3 DEF InitDone
    <3>2. mode_read' => byte = device.mode
      BY <3>1 DEF ReadByte
    <3> QED BY <2>1, <3>1, <3>2 DEF Timed, NeverTooEarly
  <2> QED BY <1>7, <2>2, <2>3 DEF atidle, Return
<1>8. CASE Reset
  BY <1>8 DEF Reset, Proceed, Timed, NeverTooEarly
<1>9. CASE \/ atca_execute_command \/ WakePulse \/ WakeRead \/ PostWait
           \/ SyncRead \/ SyncWake \/ SyncWait \/ SyncReset \/ hal_i2c_receive
           \/ (\E c \in Command : Request(c))
  <2>1. UNCHANGED <<clock_divider, mode_read>>
        /\ pc' \notin {"delay", "receive"}
    BY <1>9
    DEF atca_execute_command, WakePulse, WakeRead, PostWait, SyncRead, SyncWake,
        SyncWait, SyncReset, hal_i2c_receive, Request, Proceed
  <2> QED BY <2>1 DEF Timed, NeverTooEarly
<1>10. CASE UNCHANGED vars
  BY <1>10 DEF vars, Timed, NeverTooEarly
<1> QED BY <1>4, <1>5, <1>6, <1>7, <1>8, <1>9, <1>10 DEF Next, Firmware, Quiet

\* Nothing but a fault takes the device to rest before it is put there.
LEMMA AwakeStep ==
  ASSUME TypeOK, Awake, [Next]_vars
  PROVE  Awake'
<1>1. device \in Devices /\ FirmwareTypeOK
  BY TypesSplit
<1> USE <1>1
<1>2. CASE Fault
  BY <1>2, ExecAssumption DEF Fault, FirmwareTypeOK, Awake
<1>3. CASE Finish
  BY <1>3, FinishedType DEF Finish, Awake
<1>4. CASE WakePulse /\ NoFault
  <2>1. device' \in Woken(device) \/ Fault
    BY <1>4 DEF WakePulse
  <2> QED BY <1>2, <2>1, WokenType DEF Awake
<1>5. CASE (WakeRead \/ hal_i2c_receive) /\ NoFault
  <2>1. /\ device' \in {device, Drained(device)}
        /\ pc \in {"wake_read", "receive"}
    BY <1>5 DEF WakeRead, hal_i2c_receive
  <2> QED BY <1>5, <2>1, DrainedType DEF Awake, NoFault
<1>6. CASE PostWait \/ ExecutionDelay
  <2>1. (\E ms \in Nat : device' = Elapse(device, ms)) /\ faults' = faults
        /\ pc \in {"post_delay", "delay"}
    BY <1>6, Delays, ExecTime DEF PostWait, ExecutionDelay, NoFault
  <2> QED BY <2>1, ElapseType DEF Awake
<1>7. CASE hal_i2c_send /\ NoFault
  <2>1. device' \in Started(device) \/ Fault
    BY <1>7 DEF hal_i2c_send
  <2>2. op \in BusyOps \ {"POST"} /\ pc = "send" /\ faults' = faults
    BY <1>7 DEF FirmwareTypeOK, hal_i2c_send, NoFault
  <2> QED BY <1>2, <2>1, <2>2, StartedType DEF Awake
<1>8. CASE \/ atca_execute_command \/ atidle \/ SyncRead \/ SyncWake \/ SyncWait
           \/ SyncReset \/ Reset \/ (\E c \in Command : Request(c))
  <2>1. pc' \in {"call", "pulse", "sync_read", "sync_reset", "sync_wake",
                 "sync_delay", "ready"}
    BY <1>8
    DEF atca_execute_command, atidle, Return, InitDone, Proceed, SyncRead,
        SyncWake, SyncWait, SyncReset, Reset, Request
  <2> QED BY <2>1 DEF Awake
<1>9. CASE UNCHANGED vars
  BY <1>9 DEF vars, Awake
<1>10. CASE PostFails \/ Doze
  BY <1>2, <1>10 DEF PostFails, Doze
<1>11. \/ Fault \/ NoFault
       \/ ~(WakePulse \/ WakeRead \/ hal_i2c_receive \/ hal_i2c_send)
  BY DEF WakePulse, WakeRead, hal_i2c_receive, hal_i2c_send
<1> QED BY <1>2, <1>3, <1>4, <1>5, <1>6, <1>7, <1>8, <1>9, <1>10, <1>11
        DEF Next, Firmware

\* The device's own steps, and a reading, make no answer out of nothing.
LEMMA QuietClean ==
  ASSUME TypeOK, Quiet
  PROVE  Clean(device) => Clean(device')
<1>1. device \in Devices
  BY TypesSplit
<1>2. CASE Finish
  BY <1>1, <1>2, FinishedType DEF Finish, Clean
<1>3. CASE PostFails
  <2>1. [device EXCEPT !.will = "selftest_failed"] \in Devices
        /\ [device EXCEPT !.will = "selftest_failed"].will = "selftest_failed"
    BY <1>1 DEF Devices, Outputs
  <2> QED BY <1>3, <2>1, FinishedType DEF PostFails, Clean
<1>4. CASE Doze
  <2>1. device' = [device EXCEPT !.awake = FALSE, !.output = "none"]
    BY <1>4 DEF Doze
  <2> QED BY <1>1, <2>1 DEF Devices, Clean
<1> QED BY <1>2, <1>3, <1>4 DEF Quiet

\* With at most one fault no answer is taken for that of another command.
LEMMA AnswersStep ==
  ASSUME TypeOK, Counts, Answers, [Next]_vars
  PROVE  Answers'
<1>1. /\ device \in Devices /\ FirmwareTypeOK /\ faults \in Nat /\ ran \in 0..1
      /\ status \in {"none", "ok", "failed"}
  BY TypesSplit, ExecAssumption DEF FirmwareTypeOK
<1> USE <1>1
<1>2. Fault => faults' = faults + 1
  BY DEF Fault
<1>3. NoFault => faults' = faults
  BY DEF NoFault
<1>4. CASE Quiet
  <2>1. UNCHANGED <<pc, status, ran>> /\ (faults' = faults \/ faults' = faults + 1)
    BY <1>2, <1>4 DEF Quiet, Finish, PostFails, Doze
  <2>2. Clean(device) => Clean(device')
    BY <1>4, QuietClean
  <2> QED BY <2>1, <2>2 DEF Answers
<1>5. CASE \/ WakePulse \/ PostWait \/ SyncRead \/ SyncWake \/ SyncWait
           \/ SyncReset \/ atca_execute_command \/ (\E c \in Command : Request(c))
  <2>1. pc \notin {"delay", "receive", "idle"} /\ pc' \notin {"delay", "receive", "idle"}
    BY <1>5
    DEF WakePulse, PostWait, SyncRead, SyncWake, SyncWait, SyncReset,
        atca_execute_command, Request, Proceed
  <2>2. \/ device' = device \/ device' = Drained(device)
        \/ device' \in Woken(device) \/ (\E ms \in Nat : device' = Elapse(device, ms))
        \/ device' = [device EXCEPT !.fresh = (device.output # "none")]
    BY <1>5, Delays
    DEF WakePulse, PostWait, SyncRead, SyncWake, SyncWait, SyncReset,
        atca_execute_command, Request
  <2>3. Clean(device) => Clean(device')
    <3>1. Clean(device) => Clean([device EXCEPT !.fresh = (device.output # "none")])
      BY DEF Devices, Clean
    <3> QED BY <2>2, <3>1, DrainedType, WokenType, ElapseType
  <2>4. faults' = faults \/ faults' = faults + 1
    BY <1>2, <1>3, <1>5
    DEF WakePulse, PostWait, SyncRead, SyncWake, SyncWait, SyncReset,
        atca_execute_command, Request
  <2> QED BY <2>1, <2>3, <2>4 DEF Answers
<1>6. CASE WakeRead
  <2>1. /\ pc = "wake_read" /\ pc' \in {"send", "post_delay", "idle"}
        /\ pc' = "idle" => status' # "ok"
        /\ faults' = faults \/ faults' = faults + 1
        /\ device' \in {device, Drained(device)}
    BY <1>2, <1>3, <1>6 DEF WakeRead
  <2> QED BY <2>1, DrainedType DEF Answers
<1>7. CASE hal_i2c_send
  <2>1. pc = "send" /\ pc' = "delay" /\ ran = 0
    BY <1>7 DEF hal_i2c_send, Counts
  <2>2. CASE NoFault /\ ran' = ran + 1
    BY <1>3, <2>1, <2>2 DEF Answers
  <2>3. CASE Fault /\ ran' = ran
    <3>1. \/ device' = device
          \/ device' = [device EXCEPT !.output = "error", !.fresh = TRUE]
      BY <1>3, <1>7, <2>3, <1>2 DEF hal_i2c_send
    <3>2. Clean(device) => Clean(device')
      BY <3>1 DEF Devices, Clean
    <3> QED BY <1>2, <2>1, <2>3, <3>2 DEF Answers
  <2> QED BY <1>7, <2>2, <2>3 DEF hal_i2c_send
<1>8. CASE ExecutionDelay
  <2>1. /\ pc = "delay" /\ pc' = "receive" /\ UNCHANGED <<ran, status>>
        /\ faults' = faults /\ \E ms \in Nat : device' = Elapse(device, ms)
    BY <1>3, <1>8, ExecTime DEF ExecutionDelay
  <2> QED BY <2>1, ElapseType DEF Answers
<1>9. CASE hal_i2c_receive
  <2>1. pc = "receive" /\ pc' = "idle" /\ ran' = ran
    BY <1>9 DEF hal_i2c_receive
  <2>2. \/ status' # "ok"
        \/ status' = "ok" /\ faults' = faults /\ device.output = "answer"
    BY <1>3, <1>9 DEF hal_i2c_receive
  <2> QED BY <2>1, <2>2 DEF Answers, Clean
<1>10. CASE atidle
  <2>1. pc' \notin {"delay", "receive", "idle"}
    BY <1>10 DEF atidle, Return, InitDone, Proceed
  <2>2. CASE Fault
    BY <1>2, <2>1, <2>2 DEF Answers
  <2>3. CASE ~Fault
    <3>1. /\ Acknowledges(device)
          /\ device' = [device EXCEPT !.awake = FALSE, !.output = "none",
                                      !.fresh = FALSE]
      BY <1>10, <2>3 DEF atidle
    <3>2. Clean(device')
      BY <3>1 DEF Acknowledges, Devices, Clean
    <3> QED BY <2>1, <3>2 DEF Answers
  <2> QED BY <2>2, <2>3
<1>11. CASE Reset
  <2>1. pc' = "call" /\ faults' = faults + 1
    BY <1>2, <1>11 DEF Reset, Proceed
  <2> QED BY <2>1 DEF Answers
<1>12. CASE UNCHANGED vars
  BY <1>12 DEF vars, Answers
<1> QED BY <1>4, <1>5, <1>6, <1>7, <1>8, <1>9, <1>10, <1>11, <1>12
        DEF Next, Firmware, Quiet

-----------------------------------------------------------------------------
(* The theorems.                                                           *)

\* The inductive invariant.  NeverTooEarly needs the rest of Timed, which
\* follows the command from its start; HangNeedsFault needs Awake and
\* ImplementsExchange needs Answers.
IInv == TypeOK /\ Counts /\ Timed /\ Awake /\ Answers

LEMMA InitIInv == Init => IInv
<1> SUFFICES ASSUME Init PROVE IInv
  OBVIOUS
<1>1. PICK m \in ChipMode :
        device = [awake |-> FALSE, runs |-> NoOp, left |-> 0,
                  output |-> "none", will |-> "none", fresh |-> FALSE,
                  mode |-> m]
  BY DEF Init
<1>2. device \in Devices
  BY <1>1 DEF Devices, Outputs
<1>3. FirmwareTypeOK
  <2>1. mode_read = FALSE /\ op = "READ" /\ faults = 0
    BY DEF Init
  <2>2. mode_read \in BOOLEAN
    BY <2>1
  <2>3. op \in BusyOps \ {"POST"}
    BY <2>1 DEF BusyOps
  <2>4. faults \in 0..MaxFaults
    BY <2>1, ExecAssumption
  <2> QED BY <2>2, <2>3, <2>4 DEF Init, FirmwareTypeOK, Pcs
<1>4. Clean(device)
  BY <1>1 DEF Clean
<1>5. pc = "call" /\ mode_read = FALSE
  BY DEF Init
<1>6. Counts /\ Timed /\ Awake /\ Answers
  BY <1>4, <1>5 DEF Counts, Timed, NeverTooEarly, Awake, Answers
<1> QED BY <1>2, <1>3, <1>6, TypesSplit DEF IInv

LEMMA Invariance == Spec => []IInv
<1>1. IInv /\ [Next]_vars => IInv'
  <2> SUFFICES ASSUME IInv, [Next]_vars PROVE IInv'
    OBVIOUS
  <2>1. device' \in Devices /\ FirmwareTypeOK' /\ Counts'
    BY DeviceStep, FirmwareStep DEF IInv
  <2>2. TypeOK'
    BY <2>1, Zenon DEF TypeOK, Devices, FirmwareTypeOK
  <2>3. Timed' /\ Awake' /\ Answers'
    BY TimedStep, AwakeStep, AnswersStep DEF IInv
  <2> QED BY <2>1, <2>2, <2>3 DEF IInv
<1> QED BY <1>1, InitIInv, PTL DEF Spec

\* The firmware's and the device's variables keep their types.
THEOREM ExecTypeCorrect == Spec => []TypeOK
<1>1. IInv => TypeOK
  BY DEF IInv
<1> QED BY <1>1, Invariance, PTL

\* Once atcab_init() has read the clock mode the fixed delays are long enough.
THEOREM ExecNeverTooEarly == Spec => []NeverTooEarly
<1>1. IInv => NeverTooEarly
  BY DEF IInv, Timed
<1> QED BY <1>1, Invariance, PTL

\* Without a fault atsend() and atidle() do not poll a device at rest.
THEOREM ExecHangNeedsFault == Spec => []HangNeedsFault
<1>1. IInv => HangNeedsFault
  BY ExecAssumption DEF IInv, TypeOK, Awake, HangNeedsFault, Hung
<1> QED BY <1>1, Invariance, PTL

\* A step of the firmware or of the device is a step of the exchange.
LEMMA ExchangeStep ==
  ASSUME IInv, [Next]_vars
  PROVE  [Exchange!Next]_(Exchange!vars)
<1>1. Counts /\ Answers
  BY DEF IInv
<1> USE <1>1
<1>2. Fault => faults' = faults + 1
  BY DEF Fault
<1>3. NoFault => faults' = faults
  BY DEF NoFault
<1>4. CASE atca_execute_command
  <2>1. ~Asked /\ Asked' /\ ran' = 0 /\ result' = "none" /\ faults' = faults
    BY <1>3, <1>4 DEF atca_execute_command, Asked
  <2> QED BY <2>1 DEF Exchange!Next, Exchange!Ask
<1>5. CASE hal_i2c_send
  <2>1. Asked /\ Asked' /\ ran = 0 /\ result' = result
    BY <1>5 DEF hal_i2c_send, Asked, Counts
  <2>2. \/ faults' = faults /\ ran' = ran + 1
        \/ faults' = faults + 1 /\ ran' = ran
    BY <1>2, <1>3, <1>5 DEF hal_i2c_send
  <2> QED BY <2>1, <2>2 DEF Exchange!Next, Exchange!Run, Exchange!Fault
<1>6. CASE atidle
  <2>1. Asked /\ ~Asked' /\ ran' = ran /\ faults' \in {faults, faults + 1}
    BY <1>2, <1>3, <1>6 DEF atidle, Return, InitDone, Proceed, Asked
  <2>2. \/ result' = "failed"
        \/ result' = "ok" /\ status = "ok" /\ pc = "idle"
    BY <1>6 DEF atidle
  <2>3. result' = "ok" => ran = 1 \/ faults >= 2
    BY <2>2 DEF Answers
  <2> QED BY <2>1, <2>2, <2>3 DEF Exchange!Next, Exchange!Succeed, Exchange!Fail
<1>7. CASE Reset
  <2>1. ~Asked' /\ result' = "failed" /\ ran' = ran /\ faults' = faults + 1
    BY <1>2, <1>7 DEF Reset, Proceed, Asked
  <2> QED BY <2>1 DEF Exchange!Next, Exchange!Fail
<1>8. CASE \/ Quiet \/ WakePulse \/ WakeRead \/ PostWait \/ ExecutionDelay
           \/ hal_i2c_receive \/ SyncRead \/ SyncWake \/ SyncWait \/ SyncReset
           \/ (\E c \in Command : Request(c))
  <2>1. UNCHANGED <<ran, result>>
    BY <1>8
    DEF Quiet, Finish, PostFails, Doze, WakePulse, WakeRead, PostWait,
        ExecutionDelay, hal_i2c_receive, SyncRead, SyncWake, SyncWait,
        SyncReset, Request
  <2>2. Asked' = Asked
    BY <1>8
    DEF Quiet, Finish, PostFails, Doze, WakePulse, WakeRead, PostWait,
        ExecutionDelay, hal_i2c_receive, SyncRead, SyncWake, SyncWait,
        SyncReset, Request, Proceed, Asked
  <2>3. faults' = faults \/ faults' = faults + 1
    BY <1>2, <1>3, <1>8
    DEF Quiet, Finish, PostFails, Doze, WakePulse, WakeRead, PostWait,
        ExecutionDelay, hal_i2c_receive, SyncRead, SyncWake, SyncWait,
        SyncReset, Request
  <2> QED BY <2>1, <2>2, <2>3 DEF Exchange!Next, Exchange!Fault, Exchange!vars
<1>9. CASE UNCHANGED vars
  BY <1>9 DEF vars, Exchange!vars, Asked
<1> QED BY <1>4, <1>5, <1>6, <1>7, <1>8, <1>9 DEF Next, Firmware, Quiet

\* atca_execute_command() with its hal implements the exchange that its callers
\* rely on: at most once, and no single fault makes an old answer pass.
THEOREM ExecImplementsExchange == Spec => ImplementsExchange
<1>1. Init => Exchange!Init
  BY DEF Init, Exchange!Init, Asked
<1> QED BY <1>1, ExchangeStep, Invariance, PTL
        DEF Spec, Exchange!Spec, ImplementsExchange
=============================================================================
