---------------------------- MODULE BootHandover ----------------------------
(***************************************************************************)
(* What a workload and the vault promise each other about one start,       *)
(* whatever the network loses. The client opens the payload of one boot;   *)
(* the vault marks a boot consumed only if the client opened it; and the   *)
(* application starts once, only after that. Either side may stop earlier: *)
(* a boot can stay consumed by a client that never starts.                 *)
(***************************************************************************)
CONSTANTS Boots, NULL

VARIABLES opened,    \* the boot whose payload the client opened
          consumed,  \* the boots the vault marked consumed
          outcome    \* "running", "started" or "exited"

vars == <<opened, consumed, outcome>>

Init == opened = NULL /\ consumed = {} /\ outcome = "running"

Open(b) ==
  /\ outcome = "running" /\ opened \in {NULL, b}
  /\ opened' = b
  /\ UNCHANGED <<consumed, outcome>>

Consume(b) ==
  /\ opened = b
  /\ consumed' = {b}
  /\ UNCHANGED <<opened, outcome>>

Start ==
  /\ outcome = "running" /\ opened \in consumed
  /\ outcome' = "started"
  /\ UNCHANGED <<opened, consumed>>

Exit ==
  /\ outcome = "running"
  /\ outcome' = "exited"
  /\ UNCHANGED <<opened, consumed>>

Next == (\E b \in Boots : Open(b) \/ Consume(b)) \/ Start \/ Exit

Spec == Init /\ [][Next]_vars

=============================================================================
