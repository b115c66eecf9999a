---------------------------- MODULE MCAuthSystem ----------------------------
(***************************************************************************)
(* Small instances of AuthSystem.                                          *)
(***************************************************************************)
EXTENDS DocumentedClaims, TLC

CONSTANTS a, A, b, g1, g2, r1, r2, r3, r4

OneEmail == {a}
TwoEmails == {a, b}
TwoSpellings == {a, A}

SameSpelling == [e \in Emails |-> e]

\* A is the e-mail a with a capital letter in it.
CapitalSpelling == [e \in Emails |-> a]

\* For instances where every e-mail has one spelling.
Anonymous ==
  Permutations(Requests) \cup Permutations(Emails) \cup Permutations(GoogleIds)

=============================================================================
