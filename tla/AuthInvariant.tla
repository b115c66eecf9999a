--------------------------- MODULE AuthInvariant ---------------------------
(***************************************************************************)
(* The inductive invariant behind the safety properties of AuthSystem: the *)
(* properties speak of documents and answers, the invariant adds what a    *)
(* handler still knows at each await of what it did before it.             *)
(***************************************************************************)
EXTENDS AuthSystem

\* Labels at which the e-mail of the request surely has a user.
UserKnown ==
  {"updateProfile", "savePassword", "purgeRegistrationToken",
   "purgePasswordToken", "createRegistrationToken", "createPasswordToken",
   "emitRegistered"}

\* The label of a handler tells the route it serves and what it was given.
Control ==
  \A r \in Requests :
    /\ pc[r] = "idle" <=> input[r] = None
    /\ pc[r] \in RegisterLabels =>
         Asked(r, "register") /\ input[r].email \in Emails
    /\ pc[r] \in ResetLabels =>
         Asked(r, "reset") /\ input[r].email \in Emails
    /\ pc[r] \in GoogleLabels =>
         /\ Asked(r, "google")
         /\ input[r].email \in Emails
         /\ input[r].googleId \in GoogleIds
    /\ pc[r] = "LOGIN" => Asked(r, "google") /\ input[r].email \in Emails
    /\ pc[r] = "createResetToken" => held[r] # None
    /\ pc[r] \in ConfirmRegisterLabels =>
         Asked(r, "confirmRegister") /\ held[r] # None
    /\ pc[r] \in ConfirmResetLabels =>
         Asked(r, "confirmReset") /\ held[r] # None

\* What the handler of r relies on, found by an earlier await.
AccountsKnown(r) ==
  /\ pc[r] \in {"createUser", "createGoogleUser"} =>
       profiles[input[r].email] # None
  /\ pc[r] \in UserKnown => Exists(input[r].email)
  /\ pc[r] \in ResetLabels \cup {"linkGoogleId"} => Verified(input[r].email)
  /\ pc[r] = "LOGIN" =>
       Verified(input[r].email) /\ users[input[r].email].googleId # None
  /\ pc[r] \in {"verifyUser", "spendRegistration",
                "replacePassword", "spendReset"} => Exists(held[r].email)

\* Users and profiles, and the handlers that rely on them.
AccountsOK ==
  /\ UserHasProfile
  /\ GoogleUserIsVerified
  /\ VerifiedEmailIsProven
  /\ \A r \in Requests : AccountsKnown(r)

\* The token of e in either collection names the request that drew it, for e;
\* that request is past the creation.
Drawn(value, e) ==
  input[value] # None /\ input[value].email = e /\ pc[value] \notin BeforeIssue

RegistrationTokenOK(e) ==
  registrationTokens[e] # None =>
    LET v == registrationTokens[e].value IN
    Exists(e) /\ Asked(v, "register") /\ Drawn(v, e)

PasswordResetTokenOK(e) ==
  passwordResetTokens[e] # None =>
    LET v == passwordResetTokens[e].value IN
    /\ Exists(e) /\ Drawn(v, e)
    /\ \/ /\ Asked(v, "register")
          /\ Expired(passwordResetTokens[e].expiryDate)
       \/ Asked(v, "reset") /\ Verified(e)

TokensOK ==
  \A e \in Emails : RegistrationTokenOK(e) /\ PasswordResetTokenOK(e)

\* An e-mail goes to the address of the request that caused it, which ended.
MailsOK ==
  \A m \in mailQueue \cup mailbox :
    Asked(m.value, m.kind) /\ input[m.value].email = m.to /\ Ended(m.value)

\* A confirmation of a known link follows an e-mail; while its handler runs it
\* holds the token of the e-mail that link was sent to.
FollowsLink(r, route, kind) ==
  Asked(r, route) /\ input[r].value # None =>
    /\ Asked(input[r].value, kind)
    /\ Mailed(kind, input[input[r].value].email, input[r].value)

LinkOK(r) ==
  /\ FollowsLink(r, "confirmRegister", "register")
  /\ FollowsLink(r, "confirmReset", "reset")
  /\ pc[r] \in ConfirmRegisterLabels \cup ConfirmResetLabels =>
       /\ input[r].value # None
       /\ held[r].email = input[input[r].value].email

LinksOK == MailsOK /\ \A r \in Requests : LinkOK(r)

IInv ==
  /\ TypeOK
  /\ Control
  /\ AccountsOK
  /\ TokensOK
  /\ LinksOK
  /\ SpentLinkIsDead
  /\ PasswordProvenance

=============================================================================
