----------------------------- MODULE MCSession -----------------------------
(***************************************************************************)
(* Small instances of Session.                                             *)
(***************************************************************************)
EXTENDS MCAuthSystem, SessionInvariant

CONSTANTS c1, c2, c3

AnonymousCalls == Anonymous \cup Permutations(Calls)

=============================================================================
