--------------------------- MODULE MCClientSystem ---------------------------
(* A small instance of ClientSystem. *)
EXTENDS ClientSystem

CONSTANTS b1, b2, c1, c2

=============================================================================
