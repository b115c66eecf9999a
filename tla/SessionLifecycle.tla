-------------------------- MODULE SessionLifecycle --------------------------
(***************************************************************************)
(* What the API promises about a session: each proof of identity - a       *)
(* password that matched, a Google login - opens at most one, for the      *)
(* account that was proven; it ends a fixed time after it was opened,      *)
(* however late it is handed over and however often; what was handed over  *)
(* is never anything else.                                                 *)
(***************************************************************************)
EXTENDS Naturals

CONSTANTS Accounts,   \* whose sessions
          Occasions,  \* on which an account is proven
          Lifetime    \* of a session

VARIABLES time,
          proofs,   \* of identity, not used yet
          opened,   \* sessions that can be handed over
          given     \* sessions the clients have

lifecycle == <<time, proofs, opened, given>>

Proof == [by : Occasions, account : Accounts]

Init ==
  /\ time = 0
  /\ proofs = {}
  /\ opened = {}
  /\ given = {}

Prove(proof) ==
  /\ proof \notin proofs
  /\ proofs' = proofs \cup {proof}
  /\ UNCHANGED <<time, opened, given>>

Opened(proof) == [email |-> proof.account, expiry |-> time + Lifetime]

\* A session is opened, and perhaps handed over at once.
Open(proof) ==
  /\ proof \in proofs
  /\ proofs' = proofs \ {proof}
  /\ opened' = opened \cup {Opened(proof)}
  /\ given' \in {given, given \cup {Opened(proof)}}
  /\ UNCHANGED time

Give(session) ==
  /\ session \in opened
  /\ given' = given \cup {session}
  /\ UNCHANGED <<time, proofs, opened>>

\* Errors and crashes lose proofs, and sessions nobody has.
Lose ==
  /\ proofs' \subseteq proofs
  /\ opened' \subseteq opened
  /\ given \subseteq opened'
  /\ UNCHANGED <<time, given>>

Pass ==
  /\ time' = time + 1
  /\ UNCHANGED <<proofs, opened, given>>

Next ==
  \/ \E proof \in Proof : Prove(proof) \/ Open(proof)
  \/ \E session \in opened : Give(session)
  \/ Lose
  \/ Pass

Spec == Init /\ [][Next]_lifecycle

=============================================================================
