----------------------------- MODULE BootStatus -----------------------------
(***************************************************************************)
(* The boot state machine of packages/protocol/src/state.ts: the statuses  *)
(* a boot row can hold, the events that move it, and the one transition    *)
(* table both the Durable Object and the protocol document rest on.        *)
(* "NONE" stands for a boot id that has no row yet: CREATING of the docs   *)
(* exists only inside the hello handler and is never stored.               *)
(***************************************************************************)

Live == {"PENDING", "APPROVED", "DELIVERED"}

Terminal == {"CONSUMED", "DECLINED", "EXPIRED", "CANCELED"}

Status == Live \cup Terminal

NoStatus == "NONE"

Events == {"approve", "decline", "expirePending", "cancel",
           "deliver", "redeliver", "consume", "expirePayload"}

\* The table, as the set of its rows.
Transitions ==
  { [from |-> "PENDING",   event |-> "approve",       to |-> "APPROVED"],
    [from |-> "PENDING",   event |-> "decline",       to |-> "DECLINED"],
    [from |-> "PENDING",   event |-> "expirePending", to |-> "EXPIRED"],
    [from |-> "PENDING",   event |-> "cancel",        to |-> "CANCELED"],
    [from |-> "APPROVED",  event |-> "deliver",       to |-> "DELIVERED"],
    [from |-> "APPROVED",  event |-> "cancel",        to |-> "CANCELED"],
    [from |-> "APPROVED",  event |-> "expirePayload", to |-> "EXPIRED"],
    [from |-> "DELIVERED", event |-> "redeliver",     to |-> "DELIVERED"],
    [from |-> "DELIVERED", event |-> "consume",       to |-> "CONSUMED"],
    [from |-> "DELIVERED", event |-> "expirePayload", to |-> "EXPIRED"] }

\* The status every successful use of an event leads to: the table gives one
\* event one target, whatever status it starts from.
Target(event) ==
  CASE event = "approve"                               -> "APPROVED"
    [] event = "decline"                               -> "DECLINED"
    [] event \in {"expirePending", "expirePayload"}    -> "EXPIRED"
    [] event = "cancel"                                -> "CANCELED"
    [] event \in {"deliver", "redeliver"}              -> "DELIVERED"
    [] event = "consume"                               -> "CONSUMED"

\* transition(from, event).ok: the pair is in the table.
Allowed(from, event) ==
  [from |-> from, event |-> event, to |-> Target(event)] \in Transitions

=============================================================================
