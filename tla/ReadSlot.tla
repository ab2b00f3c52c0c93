------------------------------ MODULE ReadSlot ------------------------------
(***************************************************************************)
(* What the read transfers of a device promise device_data_input, without  *)
(* threads, sockets or events: a buffer for one transfer.  While the       *)
(* device is connected, what a transfer brought stays there until it is    *)
(* handled, and the next transfer waits for that; nothing is handled       *)
(* twice, or once its device was removed.                                  *)
(***************************************************************************)
EXTENDS Integers, Sequences

VARIABLES
  connected, \* the device is there
  slot,      \* the number of the transfer in the buffer, 0 for none
  brought,   \* the number of the last transfer
  handled    \* those that were handled

vars == <<connected, slot, brought, handled>>

Init == connected = FALSE /\ slot = 0 /\ brought = 0 /\ handled = <<>>

Connect ==
  /\ ~connected /\ connected' = TRUE
  /\ UNCHANGED <<slot, brought, handled>>

\* A transfer that is over only when the device was removed is nobody's.
Bring ==
  /\ slot = 0 /\ brought' = brought + 1
  /\ slot' = IF connected THEN brought' ELSE 0
  /\ UNCHANGED <<connected, handled>>

Handle ==
  /\ slot # 0 /\ slot' = 0
  /\ handled' = Append(handled, slot)
  /\ UNCHANGED <<connected, brought>>

Remove ==
  /\ connected /\ connected' = FALSE /\ slot' = 0
  /\ UNCHANGED <<brought, handled>>

Next == Connect \/ Bring \/ Handle \/ Remove

Spec == Init /\ [][Next]_vars
=============================================================================
