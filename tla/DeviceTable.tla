---------------------------- MODULE DeviceTable -----------------------------
(***************************************************************************)
(* What the list of known devices promises to those who read it: a table   *)
(* from logical addresses to devices.  A report of a device replaces the   *)
(* entry of its own address, touches no other, and is visible all at once; *)
(* no device is ever forgotten.                                            *)
(***************************************************************************)
CONSTANTS
  Addresses,   \* logical addresses
  Device       \* devices; each has a field "address"

VARIABLE table   \* address -> {}, or the set of the one device known there

Init == table = [a \in Addresses |-> {}]

Report(d) ==
  /\ d \in Device
  /\ table' = [table EXCEPT ![d.address] = {d}]

Next == \E a \in Addresses : \E d \in table'[a] : d.address = a /\ Report(d)

Spec == Init /\ [][Next]_table
=============================================================================
