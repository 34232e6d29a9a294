--------------------------- MODULE BootLifecycle ---------------------------
(***************************************************************************)
(* What docs/architecture.md and the protocol document promise of a boot's *)
(* status: it is opened PENDING and afterwards changes only along the      *)
(* transition table, one event at a time, so a terminal status is final.   *)
(***************************************************************************)
EXTENDS BootStatus

CONSTANT Boots

VARIABLE status

Init == status = [b \in Boots |-> NoStatus]

Open(b) ==
  /\ status[b] = NoStatus
  /\ status' = [status EXCEPT ![b] = "PENDING"]

Move(b, event) ==
  /\ Allowed(status[b], event)
  /\ status' = [status EXCEPT ![b] = Target(event)]

Next == \E b \in Boots : Open(b) \/ \E event \in Events : Move(b, event)

Spec == Init /\ [][Next]_status

=============================================================================
