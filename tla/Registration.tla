---------------------------- MODULE Registration ----------------------------
(***************************************************************************)
(* RegistrationService: POST /register and POST /register/confirm.         *)
(***************************************************************************)
EXTENDS UsersService, TokenService, MailService

Email(r) == input[r].email

\* handleExistingUser lets a registration go on over no user, over a user who
\* never proved the e-mail, and over a Google user without a password.
NotVerifiedYet(user) == ~user.isEmailVerified /\ user.googleId = None
GoogleOnly(user) ==
  /\ user.isEmailVerified
  /\ user.googleId # None
  /\ user.password = None

HandleExistingUser(user) ==
  IF user = None THEN "clearRegistrationToken"
  ELSE IF NotVerifiedYet(user) THEN "clearRegistrationToken"
  ELSE IF GoogleOnly(user) THEN "findRegistered"
  ELSE "409"

\* The terms were not accepted.
RefuseTerms(r) ==
  /\ \E e \in Emails : Arrives(r, "register", Lower[e], None, None, "400")
  /\ UNCHANGED <<accounts, tokens, now, held, mail, faults>>

\* registerUser up to the answer of the first findOne.  RegisterRequestDto has
\* put the e-mail in lower case.
RegisterUser(r) ==
  /\ \E e \in Emails :
       Arrives(r, "register", Lower[e], None, None,
               HandleExistingUser(users[Lower[e]]))
  /\ UNCHANGED <<accounts, tokens, now, held, mail, faults>>

ClearRegistrationToken(r) ==
  DeleteRegistrationToken(r, Email(r), "clearRegistrationToken",
                          "clearPasswordToken")

ClearPasswordToken(r) ==
  DeletePasswordResetToken(r, Email(r), "clearPasswordToken",
                           "findRegistered")

\* The second findOne of registerUser: any user it finds is taken for a Google
\* user, whichever branch handleExistingUser took.
FindRegistered(r) ==
  /\ pc[r] = "findRegistered"
  /\ Goto(r, IF users[Email(r)] # None
             THEN "updateProfile" ELSE "createProfile")
  /\ UNCHANGED <<accounts, tokens, now, mail, faults>>

\* registerWithExistingGoogleUser.
UpdateProfile(r) ==
  /\ pc[r] = "updateProfile"
  /\ Goto(r, "savePassword")
  /\ profiles' = [profiles EXCEPT ![Email(r)] = r]
  /\ UNCHANGED <<users, tokens, now, mail, faults>>

\* Mutation: the Google user is made to confirm the e-mail again.
SavePasswordUnverified(r) ==
  SaveUser(r, Email(r),
           [users[Email(r)] EXCEPT !.password = r, !.isEmailVerified = FALSE],
           "savePassword", "purgeRegistrationToken")

SavePassword(r) ==
  SaveUser(r, Email(r), [users[Email(r)] EXCEPT !.password = r],
           "savePassword", "purgeRegistrationToken")

\* registerWithNoExistingGoogleUser.
CreateProfile(r) ==
  CreateUserProfile(r, Email(r), "createProfile", "createUser")

\* Mutations: the password is stored as it was sent; the user is verified
\* from the start.
PlaintextUser(r) ==
  [isEmailVerified |-> FALSE, googleId |-> None, password |-> input[r]]
TrustedUser(r) ==
  [isEmailVerified |-> TRUE, googleId |-> None, password |-> r]

RegisteredUser(r) ==
  [isEmailVerified |-> FALSE, googleId |-> None, password |-> r]

CreateRegisteredUser(r) ==
  CreateUser(r, Email(r), RegisteredUser(r),
             "createUser", "purgeRegistrationToken")

\* Both end with deleteTokensForEmail, generateTokensForNewUser and the event.
PurgeRegistrationToken(r) ==
  DeleteRegistrationToken(r, Email(r), "purgeRegistrationToken",
                          "purgePasswordToken")

PurgePasswordToken(r) ==
  DeletePasswordResetToken(r, Email(r), "purgePasswordToken",
                           "createRegistrationToken")

IssueRegistrationToken(r) ==
  CreateRegistrationToken(r, Email(r), "createRegistrationToken",
                          "createPasswordToken")

IssuePlaceholderToken(r) ==
  CreatePasswordResetToken(r, Email(r), PlaceholderToken(r),
                           "createPasswordToken", "emitRegistered")

EmitUserRegistered(r) ==
  EmitAndAnswer(r, RegisterMail(r, Email(r)), "emitRegistered")

-----------------------------------------------------------------------------

\* confirmRegistration up to the answer of its findOne by value.  A token that
\* is not found is null, and reading its expiryDate throws: 500.
ConfirmRegistration(r) ==
  /\ \E value \in Links("register") \cup {None} :
       \/ \E e \in Holders(registrationTokens, value) :
            /\ Arrives(r, "confirmRegister", None, None, value,
                       "findRegistrant")
            /\ held' = [held EXCEPT ![r] = Held(registrationTokens, e)]
       \/ /\ Holders(registrationTokens, value) = {}
          /\ Arrives(r, "confirmRegister", None, None, value, "500")
          /\ UNCHANGED held
  /\ UNCHANGED <<accounts, tokens, now, mail, faults>>

\* Mutation: an expired token is not answered.
FindRegistrantOnly(r) ==
  /\ pc[r] = "findRegistrant"
  /\ ~Expired(held[r].expiryDate)
  /\ IF users[held[r].email] = None
     THEN Answer(r, "500")
     ELSE Goto(r, "verifyUser")
  /\ UNCHANGED <<accounts, tokens, now, mail, faults>>

\* Mutation: whatever the token found, its expiry is not looked at.
FindRegistrantAnyhow(r) ==
  /\ pc[r] = "findRegistrant"
  /\ IF users[held[r].email] = None
     THEN Answer(r, "500")
     ELSE Goto(r, "verifyUser")
  /\ UNCHANGED <<accounts, tokens, now, mail, faults>>

\* The expiry check on the token as it was read, and the user of its e-mail.
FindRegistrant(r) ==
  /\ pc[r] = "findRegistrant"
  /\ \/ /\ Expired(held[r].expiryDate)
        /\ Answer(r, "400")
     \/ /\ ~Expired(held[r].expiryDate)
        /\ IF users[held[r].email] = None
           THEN Answer(r, "500")
           ELSE Goto(r, "verifyUser")
  /\ UNCHANGED <<accounts, tokens, now, mail, faults>>

VerifyUser(r) ==
  LET email == held[r].email IN
  SaveUser(r, email, [users[email] EXCEPT !.isEmailVerified = TRUE],
           "verifyUser", "spendRegistration")

SpendRegistrationToken(r) ==
  LET email == held[r].email
      value == input[r].value IN
  /\ pc[r] = "spendRegistration"
  /\ registrationTokens' = Spend(registrationTokens, email, value)
  /\ Answer(r, SpendAnswer(registrationTokens, email, value))
  /\ UNCHANGED <<accounts, passwordResetTokens, now, mail, faults>>

RegistrationStep(r) ==
  \/ ClearRegistrationToken(r) \/ ClearPasswordToken(r)
  \/ FindRegistered(r)
  \/ UpdateProfile(r) \/ SavePassword(r)
  \/ CreateProfile(r) \/ CreateRegisteredUser(r)
  \/ PurgeRegistrationToken(r) \/ PurgePasswordToken(r)
  \/ IssueRegistrationToken(r) \/ IssuePlaceholderToken(r)
  \/ EmitUserRegistered(r)
  \/ FindRegistrant(r) \/ VerifyUser(r) \/ SpendRegistrationToken(r)

=============================================================================
