----------------------------- MODULE AuthSystem -----------------------------
(***************************************************************************)
(* The authentication core of the API: registration, password reset,       *)
(* Google login and the mail listener over the same collections, with time *)
(* passing, database errors, refused e-mails and a process that may die.   *)
(***************************************************************************)
EXTENDS Registration, PasswordReset, GoogleLogin

\* A client calls a route.
Arrival(r) ==
  \/ RegisterUser(r) \/ RefuseTerms(r)
  \/ ConfirmRegistration(r)
  \/ ResetPassword(r)
  \/ ConfirmPasswordReset(r)
  \/ LoginWithGoogle(r) \/ LoginWithoutEmail(r)

\* The handler of a request goes on after an await.
HandlerStep(r) == RegistrationStep(r) \/ PasswordStep(r) \/ GoogleStep(r)

\* Every request has been answered and every e-mail handled.
Quiescent ==
  /\ \A r \in Requests : ~Running(r)
  /\ mailQueue = {}

Finished ==
  /\ Quiescent
  /\ \A r \in Requests : Ended(r)
  /\ UNCHANGED vars

Next ==
  \/ \E r \in Requests : Arrival(r) \/ HandlerStep(r) \/ Abort(r)
  \/ \E m \in mailQueue : SendMail(m) \/ MailRefused(m)
  \/ Crash
  \/ Tick
  \/ Finished

Spec == Init /\ [][Next]_vars

\* Node's event loop resumes every handler whose await is settled, the driver
\* settles each one by a result or an error, and the listener of an emitted
\* event runs.  Nothing makes a client call, or the clock reach a given time.
Fairness ==
  /\ \A r \in Requests : WF_vars(HandlerStep(r))
  /\ \A m \in Mail : WF_vars(SendMail(m))

FairSpec == Spec /\ Fairness

-----------------------------------------------------------------------------

Asked(r, op) == input[r] # None /\ input[r].op = op
Exists(e) == users[e] # None
Verified(e) == users[e] # None /\ users[e].isEmailVerified
Mailed(kind, e, value) ==
  [kind |-> kind, to |-> e, value |-> value] \in mailbox

\* Users who log in with Google are verified: nobody is left with a googleId
\* and an unverified e-mail, the state handleExistingUser has no case for.
GoogleUserIsVerified ==
  \A e \in Emails : Exists(e) /\ users[e].googleId # None => Verified(e)

\* A stored token always has its user, so the two "token exists with no
\* existing user" errors cannot happen, whatever failed between two writes.
IssuedTokensHaveUser ==
  \A e \in Emails :
    registrationTokens[e] # None \/ passwordResetTokens[e] # None => Exists(e)

\* A user always has the profile its userProfile field points to, which
\* registerWithExistingGoogleUser dereferences and GET /users/profile returns.
UserHasProfile == \A e \in Emails : Exists(e) => profiles[e] # None

\* An account that is being created: its profile is there and
\* the handler that created it is about to insert the user.
Completing(e) ==
  \E r \in Requests : pc[r] \in {"createUser", "createGoogleUser"}
                      /\ input[r].email = e

Stranded(e) == profiles[e] # None /\ ~Exists(e) /\ ~Completing(e)

\* A handler that fails between the two inserts strands the profile: the index
\* on e-mail refuses it to every later registration and Google login, so the
\* address never has an account.
StrandedProfileIsForever ==
  [][\A e \in Emails : Stranded(e) => Stranded(e)']_vars

\* A password reset token that is not expired belongs to a verified user: the
\* placeholder of a registration is never usable.
LiveResetTokenIsForVerifiedUser ==
  \A e \in Emails :
    /\ passwordResetTokens[e] # None
    /\ ~Expired(passwordResetTokens[e].expiryDate)
    => Verified(e)

LiveIn(collection, value) ==
  \E e \in Emails : Stored(collection, e, value)
                    /\ ~Expired(collection[e].expiryDate)

\* Once a confirmation has answered SUCCESS its link is dead: no token of that
\* value is left unexpired, whatever was registered or reset meanwhile.
SpentLinkIsDead ==
  \A r \in Requests :
    pc[r] = "SUCCESS" =>
      /\ Asked(r, "confirmRegister") =>
           ~LiveIn(registrationTokens, input[r].value)
      /\ Asked(r, "confirmReset") =>
           ~LiveIn(passwordResetTokens, input[r].value)

PasswordFrom(p, e) ==
  \/ Asked(p, "register") /\ input[p].email = e
  \/ Asked(p, "confirmReset") /\ Mailed("reset", e, input[p].value)

\* The password of a user comes from a registration of that e-mail or from a
\* reset through a link mailed to that e-mail, never from a link of another.
PasswordProvenance ==
  \A e \in Emails :
    Exists(e) /\ users[e].password # None => PasswordFrom(users[e].password, e)

\* When everything has settled without a fault, a registration that promised
\* an e-mail has left a registration token for its user, however many other
\* registrations were deleting and creating tokens of the same e-mail.
AwaitedRegistrationHasToken ==
  Quiescent /\ faults = 0 =>
    \A r \in Requests :
      Asked(r, "register") /\ pc[r] = "AWAITING_EMAIL_VERIFICATION" =>
        registrationTokens[input[r].email] # None

-----------------------------------------------------------------------------

\* E-mails whose holder has shown up: a registration link reached the mailbox,
\* or Google vouched for the address.
Proven ==
  {e \in Emails :
     \/ \E m \in mailbox : m.kind = "register" /\ m.to = e
     \/ \E r \in Requests : Asked(r, "google") /\ input[r].email = e}

\* A verified user's e-mail has been proven.
VerifiedEmailIsProven == \A e \in Emails : Verified(e) => e \in Proven

Stage ==
  [e \in Emails |-> IF ~Exists(e) THEN "absent"
                    ELSE IF Verified(e) THEN "verified" ELSE "unverified"]

Account == INSTANCE AccountLifecycle
             WITH Addresses <- Emails, stage <- Stage, proven <- Proven

\* Accounts follow the abstract life cycle: created once, verified only after
\* the e-mail is proven, never deleted and never unverified.
ImplementsAccountLifecycle == Account!Spec

\* Where the handler that draws the value of a link has not stored it yet.
BeforeIssue ==
  {"idle", "clearRegistrationToken", "clearPasswordToken", "findRegistered",
   "updateProfile", "savePassword", "createProfile", "createUser",
   "purgeRegistrationToken", "purgePasswordToken", "createRegistrationToken",
   "deleteResetToken", "createResetToken"}

\* Requests that draw no value for a link.
DrawsNoLink(r) == input[r] # None /\ input[r].op \notin {"register", "reset"}

\* Whether the token of a value is stored and not expired.  What handlers still
\* hold of it is LinkOpen.
LinkState ==
  [v \in Requests |->
     IF LiveIn(registrationTokens, v) \/ LiveIn(passwordResetTokens, v)
     THEN "live"
     ELSE IF pc[v] \in BeforeIssue \/ DrawsNoLink(v)
     THEN "unissued" ELSE "dead"]

\* The handler of a confirmation is past the expiry check, or would pass it
\* with the token it holds, whatever became of the stored one since.
HasOpened(c) ==
  \/ pc[c] \in {"verifyUser", "spendRegistration",
               "replacePassword", "spendReset"}
  \/ /\ pc[c] \in {"findRegistrant", "findResetUser"}
     /\ ~Expired(held[c].expiryDate)

\* <<c, v>> when c confirms the link of v.
Confirms(pair) == input[pair[1]].value = pair[2]

LinkOpen ==
  {pair \in Requests \X Requests : HasOpened(pair[1]) /\ Confirms(pair)}

LinkUsed ==
  {pair \in Requests \X Requests :
     pc[pair[1]] = "SUCCESS" /\ Confirms(pair)}

Link == INSTANCE LinkLifecycle
          WITH Values <- Requests, Confirmations <- Requests,
               state <- LinkState, open <- LinkOpen, used <- LinkUsed

\* Links follow the abstract life cycle.  The value of a link becomes live at
\* most once and never revives; whoever saves a verification or a password and
\* answers SUCCESS had read the token while its link was live, though it may
\* have died since; and once one confirmation succeeded, none that arrives
\* later does, whatever was registered, reset or expired in between.
ImplementsLinkLifecycle == Link!Spec

-----------------------------------------------------------------------------

\* Every request ends, with a result or an error, or with the process.
EveryRequestIsAnswered ==
  \A r \in Requests : Running(r) ~> Ended(r)

Delivered(r) == Asked(r, "register") /\ Mailed("register", input[r].email, r)

\* While nothing fails, the link a registration promises reaches the mailbox.
RegistrationIsMailed ==
  \A r \in Requests :
    Asked(r, "register") /\ pc[r] = "AWAITING_EMAIL_VERIFICATION"
      ~> Delivered(r)

\* The e-mail that request q causes has reached the address of r.
LinkFor(r, kind, q) == input[r] # None /\ Mailed(kind, input[r].email, q)

\* When everything has settled without a fault, though links expire meanwhile: a
\* registration that promised an e-mail has sent its own; a reset that was
\* refused has lost the place to a request whose link was sent to that address;
\* and no reset token is stored that nobody was sent.
SettledPromisesAreKept ==
  Quiescent /\ faults = 0 =>
    /\ \A r \in Requests :
         /\ Asked(r, "register") /\ pc[r] = "AWAITING_EMAIL_VERIFICATION" =>
              Delivered(r)
         /\ Asked(r, "reset") /\ pc[r] = "500" =>
              \E kind \in {"reset", "register"}, q \in Requests \ {r} :
                LinkFor(r, kind, q)
    /\ \A e \in Emails : passwordResetTokens[e] # None =>
         \E kind \in {"reset", "register"} :
           Mailed(kind, e, passwordResetTokens[e].value)

\* While nothing fails, a reset of a verified user ends with a link in the
\* mailbox: its own, or, when another reset or a registration of the e-mail
\* took the place of its token and it was refused, the link of that one.
ResetIsMailed ==
  \A r \in Requests :
    pc[r] \in ResetLabels ~>
      \/ LinkFor(r, "reset", r)
      \/ /\ pc[r] = "500"
         /\ \E kind \in {"reset", "register"}, q \in Requests \ {r} :
              LinkFor(r, kind, q)

=============================================================================
