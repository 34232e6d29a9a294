---------------------------- MODULE BootRelease ----------------------------
(***************************************************************************)
(* What the object promises about a release whatever order its handlers    *)
(* interleave in. A boot is opened for one key. It is decided once: either *)
(* a payload is released for it, and stays that payload, or it is refused  *)
(* for good. A payload goes to nobody but the holder of the boot's key.    *)
(***************************************************************************)
CONSTANTS Boots, Clients, Payloads, NULL

VARIABLES decision,  \* "NONE", "OPEN", "RELEASED" or "REFUSED" for each boot
          key,       \* the workload each boot was opened by
          payload,   \* what was released, 0 for nothing
          sentTo     \* the workloads it was sent to

vars == <<decision, key, payload, sentTo>>

Init ==
  /\ decision = [b \in Boots |-> "NONE"]
  /\ key = [b \in Boots |-> NULL]
  /\ payload = [b \in Boots |-> 0]
  /\ sentTo = [b \in Boots |-> {}]

Open(b, k) ==
  /\ decision[b] = "NONE"
  /\ decision' = [decision EXCEPT ![b] = "OPEN"]
  /\ key' = [key EXCEPT ![b] = k]
  /\ UNCHANGED <<payload, sentTo>>

Release(b, p) ==
  /\ decision[b] = "OPEN"
  /\ decision' = [decision EXCEPT ![b] = "RELEASED"]
  /\ payload' = [payload EXCEPT ![b] = p]
  /\ UNCHANGED <<key, sentTo>>

Refuse(b) ==
  /\ decision[b] = "OPEN"
  /\ decision' = [decision EXCEPT ![b] = "REFUSED"]
  /\ UNCHANGED <<key, payload, sentTo>>

Send(b) ==
  /\ decision[b] = "RELEASED"
  /\ sentTo' = [sentTo EXCEPT ![b] = {key[b]}]
  /\ UNCHANGED <<decision, key, payload>>

Next == \E b \in Boots :
  \/ \E k \in Clients : Open(b, k)
  \/ \E p \in Payloads : Release(b, p)
  \/ Refuse(b)
  \/ Send(b)

Spec == Init /\ [][Next]_vars

=============================================================================
