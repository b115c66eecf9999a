-------------------------- MODULE SessionInvariant --------------------------
(***************************************************************************)
(* The inductive invariant behind the safety properties of Session: that   *)
(* of AuthSystem, and what a call still knows at each await of the account *)
(* it is about.                                                            *)
(***************************************************************************)
EXTENDS Session, AuthInvariant

Linked(e) == Verified(e) /\ users[e].googleId # None

\* What the handler of c found, and has not lost since.
CallKnows(c) ==
  /\ at[c] = "signSession" =>
       call[c] # None /\ call[c].email \in Emails /\ Exists(call[c].email)
  /\ at[c] = "placeHold" => signed[c] # None /\ Linked(signed[c].email)
  /\ at[c] = "findProfile" =>
       call[c] # None /\ call[c].email \in Emails /\ Exists(call[c].email)

\* The password of a login that has been let in.
LoginKnows(c) ==
  /\ at[c] = "signSession" => call[c].op = "login"
  /\ at[c] \in {"signSession", "SESSION"} /\ call[c].op = "login" =>
       /\ call[c].by \in Requests
       /\ PasswordFrom(call[c].by, call[c].email)

CallsOK == \A c \in Calls : CallKnows(c) /\ LoginKnows(c)

SessionIInv ==
  /\ IInv
  /\ SessionTypeOK
  /\ CallsOK
  /\ TokensNameAccounts
  /\ HoldIsForGoogleUser

=============================================================================
