-------------------------- MODULE DocumentedClaims --------------------------
(***************************************************************************)
(* What comments and messages of the repository say of the handlers and    *)
(* the handlers do not do.  Each claim has a run in which TLC refutes it.  *)
(***************************************************************************)
EXTENDS AuthInvariant

\* registration.service.spec.ts:309: "should register with no existing google
\* user if !existingUser".  Here: the first request of all about an e-mail, if
\* it is a registration and nothing fails, is not refused by the server.
OnlyRequestAbout(r) ==
  \A q \in Requests \ {r} : input[q] = None \/ input[q].email # input[r].email

FirstRegistrationSucceeds ==
  \A r \in Requests :
    Asked(r, "register") /\ OnlyRequestAbout(r) /\ faults = 0 => pc[r] # "500"

\* error.constants.ts:2: "if you have previously logged in with Google we will
\* automatically link your accounts": an e-mail never ends with two accounts.
OneAccountPerEmail ==
  \A e, f \in Emails :
    Exists(e) /\ Exists(f) /\ Lower[e] = Lower[f] => e = f

\* registration.service.ts:68-69: a registration passes over an existing
\* verified user only without a password, and is a conflict otherwise.
ConflictProtectsPassword ==
  [][\A e \in Emails :
       /\ Verified(e)
       /\ users[e].password # None
       /\ users'[e].password # users[e].password
       => ~Asked(users'[e].password, "register")]_vars

\* registration.service.ts:203-204: confirmRegistration fails with 400 when the
\* token is expired, with 500 when it "exists with no existing user".
ServerErrorMeansNoUser ==
  \A r \in Requests :
    Asked(r, "confirmRegister") /\ pc[r] = "500" /\ faults = 0 =>
      \E e \in Emails : Stored(registrationTokens, e, input[r].value)
                        /\ ~Exists(e)

=============================================================================
