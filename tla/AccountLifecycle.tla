-------------------------- MODULE AccountLifecycle --------------------------
(***************************************************************************)
(* What the API promises about an account, whatever handlers run and       *)
(* however they interleave: it is created once, it becomes verified only   *)
(* when the holder of the e-mail has shown up - by the link sent to the    *)
(* mailbox, or by Google - and it never goes back.                         *)
(***************************************************************************)
CONSTANT Addresses

VARIABLES stage,   \* how far each account is
          proven   \* e-mails whose holder has shown up

TypeOK ==
  /\ stage \in [Addresses -> {"absent", "unverified", "verified"}]
  /\ proven \in SUBSET Addresses

Init ==
  /\ stage = [a \in Addresses |-> "absent"]
  /\ proven = {}

Create(a) ==
  /\ stage[a] = "absent"
  /\ stage' = [stage EXCEPT ![a] = "unverified"]
  /\ UNCHANGED proven

Prove(a) ==
  /\ proven' = proven \cup {a}
  /\ UNCHANGED stage

Verify(a) ==
  /\ a \in proven
  /\ stage[a] # "verified"
  /\ stage' = [stage EXCEPT ![a] = "verified"]
  /\ UNCHANGED proven

Next == \E a \in Addresses : Create(a) \/ Prove(a) \/ Verify(a)

Spec == Init /\ [][Next]_<<stage, proven>>

=============================================================================
