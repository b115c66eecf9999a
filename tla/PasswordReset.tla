--------------------------- MODULE PasswordReset ---------------------------
(***************************************************************************)
(* PasswordService: POST /password/reset and POST /password/reset/confirm. *)
(***************************************************************************)
EXTENDS UsersService, TokenService, MailService

Resettable(user) == user # None /\ user.isEmailVerified

\* resetPassword up to the answer of its findOne.  Without a verified user it
\* answers as if there were one.
ResetPassword(r) ==
  /\ \E e \in Emails :
       Arrives(r, "reset", Lower[e], None, None,
               IF Resettable(users[Lower[e]])
               THEN "deleteResetToken" ELSE "AWAITING_EMAIL_VERIFICATION")
  /\ UNCHANGED <<accounts, tokens, now, held, mail, faults>>

\* The expiry of the new token is computed as soon as the old one is deleted,
\* before the random value is awaited.
DeleteResetToken(r) ==
  LET email == input[r].email IN
  /\ pc[r] = "deleteResetToken"
  /\ passwordResetTokens' = [passwordResetTokens EXCEPT ![email] = None]
  /\ held' = [held EXCEPT
                ![r] = [email |-> email, expiryDate |-> now + TokenTTL]]
  /\ pc' = [pc EXCEPT ![r] = "createResetToken"]
  /\ UNCHANGED <<accounts, registrationTokens, now, input, mail, faults>>

ResetToken(r) == [value |-> r, expiryDate |-> held[r].expiryDate]

CreateResetToken(r) ==
  CreatePasswordResetToken(r, input[r].email, ResetToken(r),
                           "createResetToken", "emitReset")

EmitPasswordResetAttempt(r) ==
  EmitAndAnswer(r, ResetMail(r, input[r].email), "emitReset")

-----------------------------------------------------------------------------

\* confirmPasswordReset up to the answer of its findOne by value.
ConfirmPasswordReset(r) ==
  /\ \E value \in Links("reset") \cup {None} :
       \/ \E e \in Holders(passwordResetTokens, value) :
            /\ Arrives(r, "confirmReset", None, None, value, "findResetUser")
            /\ held' = [held EXCEPT ![r] = Held(passwordResetTokens, e)]
       \/ /\ Holders(passwordResetTokens, value) = {}
          /\ Arrives(r, "confirmReset", None, None, value, "400")
          /\ UNCHANGED held
  /\ UNCHANGED <<accounts, tokens, now, mail, faults>>

\* Mutation: the expiry of the token is not looked at.
FindResetUserAnyhow(r) ==
  /\ pc[r] = "findResetUser"
  /\ IF users[held[r].email] = None THEN Answer(r, "500")
     ELSE Goto(r, "replacePassword")
  /\ UNCHANGED <<accounts, tokens, now, mail, faults>>

\* Here the user is looked up before the expiry check.
FindResetUser(r) ==
  /\ pc[r] = "findResetUser"
  /\ IF users[held[r].email] = None THEN Answer(r, "500")
     ELSE \/ /\ Expired(held[r].expiryDate)
             /\ Answer(r, "400")
          \/ /\ ~Expired(held[r].expiryDate)
             /\ Goto(r, "replacePassword")
  /\ UNCHANGED <<accounts, tokens, now, mail, faults>>

\* Mutation: an update without the e-mail in its filter.
ReplaceEveryPassword(r) ==
  /\ pc[r] = "replacePassword"
  /\ users' = [e \in Emails |->
       IF users[e] = None THEN None ELSE [users[e] EXCEPT !.password = r]]
  /\ Goto(r, "spendReset")
  /\ UNCHANGED <<profiles, tokens, now, mail, faults>>

\* The save comes after bcrypt: the token may have expired in between.
ReplacePassword(r) ==
  LET email == held[r].email IN
  SaveUser(r, email, [users[email] EXCEPT !.password = r],
           "replacePassword", "spendReset")

SpendResetToken(r) ==
  LET email == held[r].email
      value == input[r].value IN
  /\ pc[r] = "spendReset"
  /\ passwordResetTokens' = Spend(passwordResetTokens, email, value)
  /\ Answer(r, SpendAnswer(passwordResetTokens, email, value))
  /\ UNCHANGED <<accounts, registrationTokens, now, mail, faults>>

PasswordStep(r) ==
  \/ DeleteResetToken(r) \/ CreateResetToken(r)
  \/ EmitPasswordResetAttempt(r)
  \/ FindResetUser(r) \/ ReplacePassword(r) \/ SpendResetToken(r)

=============================================================================
