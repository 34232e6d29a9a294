----------------------------- MODULE TokenGate -----------------------------
(***************************************************************************)
(* How a socket gets through: authenticateBootstrapRequest reads the token *)
(* row, checks secret, revocation and source address, awaits the read of   *)
(* the environment, and only then is the socket handed to the object; in   *)
(* the meantime the token may be revoked or its address ranges changed.    *)
(* Addresses are sequences of bytes, matched the way crypto/src/cidr.ts    *)
(* does.  An address here has Width bytes of Bits bits (4 or 16 of 8).     *)
(***************************************************************************)
EXTENDS Integers, Sequences, FiniteSets

CONSTANTS
  Bits,       \* bits of a byte
  Width,      \* the lengths an address can have, in bytes: one per family
  Request,    \* upgrade requests
  Lists       \* lists of address ranges an operator may set: sets of CidrRange

\* 2 to the power of n.
Pow2(n) == LET p[i \in 0 .. n] == IF i = 0 THEN 1 ELSE 2 * p[i - 1] IN p[n]

Byte == 0 .. Pow2(Bits) - 1

Address == UNION {[1 .. w -> Byte] : w \in Width}

CidrRange == UNION {[address : [1 .. w -> Byte], prefix : 0 .. w * Bits] : w \in Width}

ASSUME GateAssumption ==
  /\ Bits \in Nat \ {0}
  /\ Width \subseteq Nat \ {0}
  /\ Lists \subseteq SUBSET CidrRange

VARIABLES
  allowed,    \* allowed_cidrs_json of the token's row
  token,      \* its row: "live", "dead" (revoked or expired) or "gone"
  request     \* upgrade requests, with what they read

gateVars == <<allowed, token, request>>

Fresh == [pc |-> "new"]

-----------------------------------------------------------------------------
(* crypto/src/cidr.ts *)

\* x & mask, where the mask keeps the highest spare bits.
\* Mutant: the mask keeps one bit too few.
MaskedShort(x, spare) == x - (x % Pow2(Bits - spare + 1))

Masked(x, spare) == x - (x % Pow2(Bits - spare))

BytesInPrefix(candidate, range) ==
  LET full  == range.prefix \div Bits
      spare == range.prefix % Bits
  IN  /\ \A i \in 1 .. full : candidate[i] = range.address[i]
      /\ spare # 0 => Masked(candidate[full + 1], spare)
                      = Masked(range.address[full + 1], spare)

InCidr(ip, range) ==
  Len(ip) = Len(range.address) /\ BytesInPrefix(ip, range)

\* An empty list means the check is skipped.
IpAllowed(ip, ranges) == ranges = {} \/ \E r \in ranges : InCidr(ip, r)

-----------------------------------------------------------------------------
(* The upgrade *)

GateInit ==
  /\ allowed \in Lists
  /\ token = "live"
  /\ request = [r \in Request |-> Fresh]

\* The token row, the secret, and the address policy, in the order of the code.
Authenticate(r) ==
  /\ request[r] = Fresh
  /\ \E ip \in Address, secretGood \in BOOLEAN :
       request' = [request EXCEPT ![r] =
         IF token = "live" /\ secretGood
         THEN [pc |-> IF IpAllowed(ip, allowed) THEN "checked" ELSE "outside",
               ip |-> ip, ranges |-> allowed]
         ELSE [pc |-> "refused"]]
  /\ UNCHANGED <<allowed, token>>

\* The environment is read last; the policy is not looked at again.
Enter(r) ==
  /\ request[r].pc = "checked"
  /\ request' = [request EXCEPT ![r] =
       IF token = "gone" THEN [pc |-> "refused"] ELSE [@ EXCEPT !.pc = "open"]]
  /\ UNCHANGED <<allowed, token>>

\* revokeBootstrapToken, the passing of expires_at, and the cascade of the
\* environment's deletion.
Kill ==
  /\ \/ token = "live" /\ token' = "dead"
     \/ token # "gone" /\ token' = "gone"
  /\ UNCHANGED <<allowed, request>>

UpdateTokenCidrs ==
  /\ token # "gone"
  /\ allowed' \in Lists
  /\ UNCHANGED <<token, request>>

GateNext ==
  \/ \E r \in Request : Authenticate(r) \/ Enter(r)
  \/ Kill
  \/ UpdateTokenCidrs

-----------------------------------------------------------------------------
(* Properties *)

\* An address as a number, its first byte the most significant.
Value(ip) ==
  LET v[i \in 0 .. Len(ip)] == IF i = 0 THEN 0 ELSE v[i - 1] * Pow2(Bits) + ip[i]
  IN  v[Len(ip)]

\* The block of addresses a CIDR stands for.
Block(range) ==
  LET size == Pow2(Len(range.address) * Bits - range.prefix)
      low  == (Value(range.address) \div size) * size
  IN  {ip \in Address : Len(ip) = Len(range.address)
                        /\ Value(ip) \in low .. low + size - 1}

\* The address policy lets a request pass exactly if its address is in a block of
\* the list that was read with it, in the reading of a CIDR as an interval of
\* numbers of its own family, for prefixes that end inside a byte, at a byte and at
\* zero; an empty list is the one way past the policy. What the request finds there
\* counts until its socket opens, whatever becomes of the list.
AdmittedFromRange ==
  \A r \in Request : request[r].pc \in {"checked", "outside", "open"} =>
    (request[r].pc # "outside" <=>
       \/ request[r].ranges = {}
       \/ \E range \in request[r].ranges : request[r].ip \in Block(range))

=============================================================================
