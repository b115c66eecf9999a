---------------------------- MODULE GoogleLogin ----------------------------
(***************************************************************************)
(* AuthService.googleLogin, called by the passport strategy with the       *)
(* profile Google returned.  Its e-mail is used as Google spells it.       *)
(***************************************************************************)
EXTENDS UsersService

\* Mutation: the user is created without a profile.
SkipProfile(user, googleId) ==
  IF user = None THEN "createGoogleUser"
  ELSE IF user.googleId = googleId THEN "LOGIN"
  ELSE "linkGoogleId"

GoogleNext(user, googleId) ==
  IF user = None THEN "createGoogleProfile"
  ELSE IF ~user.isEmailVerified THEN "createGoogleProfile"
  ELSE IF user.googleId = googleId THEN "LOGIN"
  ELSE "linkGoogleId"

\* googleLogin up to the answer of findUserByEmail.
LoginWithGoogle(r) ==
  /\ \E e \in Emails, g \in GoogleIds :
       Arrives(r, "google", e, g, None, GoogleNext(users[e], g))
  /\ UNCHANGED <<accounts, tokens, now, held, mail, faults>>

\* A Google profile without an e-mail is refused.
LoginWithoutEmail(r) ==
  /\ \E g \in GoogleIds : Arrives(r, "google", None, g, None, "500")
  /\ UNCHANGED <<accounts, tokens, now, held, mail, faults>>

\* No other user carries the googleId.
GoogleIdFree(email, googleId) ==
  \A e \in Emails \ {email} : users[e] # None => users[e].googleId # googleId

LinkGoogleId(r) ==
  LET email == input[r].email
      googleId == input[r].googleId IN
  /\ pc[r] = "linkGoogleId"
  /\ \/ /\ GoogleIdFree(email, googleId)
        /\ users' = [users EXCEPT ![email].googleId = googleId]
        /\ Answer(r, "LOGIN")
     \/ /\ ~GoogleIdFree(email, googleId)
        /\ Answer(r, "500")
        /\ UNCHANGED users
  /\ UNCHANGED <<profiles, tokens, now, mail, faults>>

CreateGoogleProfile(r) ==
  CreateUserProfile(r, input[r].email,
                    "createGoogleProfile", "createGoogleUser")

\* Mutation: a Google user is left to verify the e-mail.
DoubtedUser(googleId) ==
  [isEmailVerified |-> FALSE, googleId |-> googleId, password |-> None]

GoogleUser(googleId) ==
  [isEmailVerified |-> TRUE, googleId |-> googleId, password |-> None]

CreateGoogleUser(r) ==
  CreateUser(r, input[r].email, GoogleUser(input[r].googleId),
             "createGoogleUser", "LOGIN")

GoogleStep(r) ==
  LinkGoogleId(r) \/ CreateGoogleProfile(r) \/ CreateGoogleUser(r)

=============================================================================
