----------------------------- MODULE MCGateway -----------------------------
(***************************************************************************)
(* Small instances of Gateway.                                             *)
(***************************************************************************)
EXTENDS Gateway

CONSTANTS c1, c2, r1

\* Between them they have a property of every rule.
TwoHandlers == {"register", "confirmPasswordReset"}

=============================================================================
