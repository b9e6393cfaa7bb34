---------------------------- MODULE EccExchange -----------------------------
(***************************************************************************)
(* Abstract: what a caller of atca_execute_command() may rely on.  The     *)
(* device runs the command at most once, and the call succeeds only if the *)
(* device has run it, or if two things went wrong: no single fault makes   *)
(* an old answer pass for a new one.  A command whose call failed may have *)
(* been run all the same.                                                  *)
(***************************************************************************)
EXTENDS Naturals

VARIABLES
  asked,  \* a command is being executed
  ran,    \* how often the device has run it
  result, \* of the last call
  faults  \* how often the bus, the device or the board has failed

vars == <<asked, ran, result, faults>>

Init == asked = FALSE /\ ran = 0 /\ result = "none" /\ faults = 0

Ask == /\ ~asked
       /\ asked' = TRUE /\ ran' = 0 /\ result' = "none"
       /\ faults' = faults

Run == /\ asked /\ ran = 0
       /\ ran' = 1
       /\ UNCHANGED <<asked, result, faults>>

Succeed == /\ asked /\ result' = "ok"
           /\ ran = 1 \/ faults >= 2
           /\ asked' = FALSE /\ ran' = ran
           /\ faults' \in {faults, faults + 1}

\* Also when the board is reset, whether or not a call is in progress.
Fail == /\ result' = "failed"
        /\ asked' = FALSE /\ ran' = ran
        /\ faults' \in {faults, faults + 1}

Fault == faults' = faults + 1 /\ UNCHANGED <<asked, ran, result>>

Next == Ask \/ Run \/ Succeed \/ Fail \/ Fault

Spec == Init /\ [][Next]_vars
=============================================================================
