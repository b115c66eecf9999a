-------------------------- MODULE AuthSystemProofs --------------------------
(***************************************************************************)
(* For every set of requests, e-mails and Google accounts, every token     *)
(* lifetime and every number of faults: the types and the safety           *)
(* properties of AuthSystem.  The argument is the inductive invariant IInv *)
(* of AuthInvariant.  Two lemmas say what no step undoes, StepAdvances of  *)
(* the requests and StepGrows of the store; with them each part of IInv is *)
(* preserved action by action.                                             *)
(***************************************************************************)
EXTENDS AuthInvariant, TLAPS

\* What no step undoes of the requests.
Advances ==
  \A r \in Requests :
    /\ input[r] # None => input'[r] = input[r]
    /\ Ended(r) => pc'[r] = pc[r]
    /\ pc[r] \notin BeforeIssue => pc'[r] \notin BeforeIssue
    /\ pc[r] # "SUCCESS" /\ pc'[r] = "SUCCESS" =>
         SpendRegistrationToken(r) \/ SpendResetToken(r)

\* What no step undoes of the store.
Grows ==
  /\ \A e \in Emails :
       /\ Exists(e) => Exists(e)'
       /\ Verified(e) => Verified(e)'
       /\ Exists(e) /\ users[e].googleId # None => users'[e].googleId # None
       /\ profiles[e] # None => profiles'[e] # None
  /\ mailbox \subseteq mailbox'
  /\ now <= now'

\* The awaits that create a token that is not expired from the start.
Issues(r) == IssueRegistrationToken(r) \/ CreateResetToken(r)

\* A collection of tokens after a step that issues none.
NotIssued(before, after) ==
  \A e \in Emails :
    \/ after[e] \in {None, before[e]}
    \/ after[e].expiryDate <= now

NothingIssued ==
  /\ NotIssued(registrationTokens, registrationTokens')
  /\ NotIssued(passwordResetTokens, passwordResetTokens')

\* A collection of tokens after any step, given what it was before.
NotRevived(before, after) ==
  \A e \in Emails :
    \/ after[e] \in {None, before[e]}
    \/ after[e].expiryDate <= now
    \/ ~Ended(after[e].value)

NothingRevived ==
  /\ NotRevived(registrationTokens, registrationTokens')
  /\ NotRevived(passwordResetTokens, passwordResetTokens')

-----------------------------------------------------------------------------

\* The user document a handler is about to save exists.
LEMMA SavedUserExists ==
  ASSUME IInv, NEW r \in Requests
  PROVE  /\ pc[r] \in {"savePassword", "linkGoogleId"} =>
              /\ input[r].email \in Emails
              /\ Exists(input[r].email)
              /\ users[input[r].email] \in User
         /\ pc[r] \in {"verifyUser", "replacePassword"} =>
              /\ held[r].email \in Emails
              /\ Exists(held[r].email)
              /\ users[held[r].email] \in User
PROOF
<1>1. /\ pc[r] \in {"savePassword", "linkGoogleId"} =>
           input[r].email \in Emails /\ Exists(input[r].email)
      /\ pc[r] \in {"verifyUser", "replacePassword"} =>
           held[r].email \in Emails /\ Exists(held[r].email)
  BY DEF IInv, TypeOK, Control, AccountsOK, AccountsKnown, UserKnown,
         Exists, Verified, HeldToken, RegisterLabels, GoogleLabels,
         ConfirmRegisterLabels, ConfirmResetLabels
<1> QED
  BY <1>1 DEF IInv, TypeOK, Exists

\* No step, however the handlers interleave, puts a document, a label or an
\* e-mail outside its type.
LEMMA TypingPreserved ==
  IInv /\ [Next]_vars => TypeOK'
PROOF
<1> SUFFICES ASSUME IInv, [Next]_vars PROVE TypeOK'
  OBVIOUS
<1>1. ASSUME NEW r \in Requests, RegisterUser(r) PROVE TypeOK'
  BY <1>1, NoneAssumption, OperationsAssumption, LowerAssumption
     DEF IInv, TypeOK, Input, Routes, RegisterLabels, Labels, Answers,
         RegisterUser, HandleExistingUser, Arrives, accounts, tokens, mail
<1>2. ASSUME NEW r \in Requests, RefuseTerms(r) PROVE TypeOK'
  BY <1>2, NoneAssumption, OperationsAssumption, LowerAssumption
     DEF IInv, TypeOK, Input, Routes, Answers, RefuseTerms, Arrives, accounts,
         tokens, mail
<1>3. ASSUME NEW r \in Requests, ConfirmRegistration(r) PROVE TypeOK'
  BY <1>3, NoneAssumption, OperationsAssumption
     DEF IInv, TypeOK, Input, Routes, Token, HeldToken, Mail,
         ConfirmRegisterLabels, Labels, Answers, ConfirmRegistration, Holders,
         Held, Links, Arrives, Stored, accounts, tokens, mail
<1>4. ASSUME NEW r \in Requests, ResetPassword(r) PROVE TypeOK'
  BY <1>4, NoneAssumption, OperationsAssumption, LowerAssumption
     DEF IInv, TypeOK, Input, Routes, ResetLabels, Labels, Answers,
         ResetPassword, Arrives, accounts, tokens, mail
<1>5. ASSUME NEW r \in Requests, ConfirmPasswordReset(r) PROVE TypeOK'
  BY <1>5, NoneAssumption, OperationsAssumption
     DEF IInv, TypeOK, Input, Routes, Token, HeldToken, Mail,
         ConfirmResetLabels, Labels, Answers, ConfirmPasswordReset, Holders,
         Held, Links, Arrives, Stored, accounts, tokens, mail
<1>6. ASSUME NEW r \in Requests, LoginWithGoogle(r) PROVE TypeOK'
  BY <1>6, NoneAssumption, OperationsAssumption
     DEF IInv, TypeOK, Input, Routes, GoogleLabels, Labels, Answers,
         LoginWithGoogle, GoogleNext, Arrives, accounts, tokens, mail
<1>7. ASSUME NEW r \in Requests, LoginWithoutEmail(r) PROVE TypeOK'
  BY <1>7, NoneAssumption, OperationsAssumption
     DEF IInv, TypeOK, Input, Routes, Answers, LoginWithoutEmail, Arrives,
         accounts, tokens, mail
<1>8. ASSUME NEW r \in Requests, ClearRegistrationToken(r) PROVE TypeOK'
  BY <1>8, NoneAssumption
     DEF IInv, TypeOK, RegisterLabels, Labels, Answers, ClearRegistrationToken,
         DeleteRegistrationToken, Goto, Email, accounts, tokens, mail
<1>9. ASSUME NEW r \in Requests, ClearPasswordToken(r) PROVE TypeOK'
  BY <1>9, NoneAssumption
     DEF IInv, TypeOK, RegisterLabels, Labels, Answers, ClearPasswordToken,
         DeletePasswordResetToken, Goto, Email, accounts, tokens, mail
<1>10. ASSUME NEW r \in Requests, FindRegistered(r) PROVE TypeOK'
  BY <1>10, NoneAssumption
     DEF IInv, TypeOK, RegisterLabels, Labels, Answers, FindRegistered, Goto,
         Email, accounts, tokens, mail
<1>11. ASSUME NEW r \in Requests, UpdateProfile(r) PROVE TypeOK'
  BY <1>11, NoneAssumption
     DEF IInv, TypeOK, RegisterLabels, Labels, Answers, UpdateProfile, Goto,
         Email, accounts, tokens, mail
<1>12. ASSUME NEW r \in Requests, SavePassword(r) PROVE TypeOK'
  BY <1>12, NoneAssumption, SavedUserExists
     DEF IInv, TypeOK, User, RegisterLabels, Labels, Answers, SavePassword,
         SaveUser, Goto, Email, accounts, tokens, mail
<1>13. ASSUME NEW r \in Requests, CreateProfile(r) PROVE TypeOK'
  BY <1>13, NoneAssumption
     DEF IInv, TypeOK, RegisterLabels, Labels, Answers, CreateProfile,
         CreateUserProfile, Goto, Answer, UniqueEmail, Email, accounts, tokens,
         mail
<1>14. ASSUME NEW r \in Requests, CreateRegisteredUser(r) PROVE TypeOK'
  <2>1. /\ pc[r] = "createUser"
        /\ RegisteredUser(r) \in User
    BY <1>14 DEF CreateRegisteredUser, CreateUser, RegisteredUser, User
  <2>2. users' \in [Emails -> User \cup {None}]
    BY <1>14, <2>1
       DEF IInv, TypeOK, CreateRegisteredUser, CreateUser
  <2> QED
    BY <1>14, <2>2, NoneAssumption
       DEF IInv, TypeOK, RegisterLabels, Labels, Answers,
           CreateRegisteredUser, CreateUser, Goto, Answer, tokens, mail
<1>15. ASSUME NEW r \in Requests, PurgeRegistrationToken(r) PROVE TypeOK'
  BY <1>15, NoneAssumption
     DEF IInv, TypeOK, RegisterLabels, Labels, Answers, PurgeRegistrationToken,
         DeleteRegistrationToken, Goto, Email, accounts, tokens, mail
<1>16. ASSUME NEW r \in Requests, PurgePasswordToken(r) PROVE TypeOK'
  BY <1>16, NoneAssumption
     DEF IInv, TypeOK, RegisterLabels, Labels, Answers, PurgePasswordToken,
         DeletePasswordResetToken, Goto, Email, accounts, tokens, mail
<1>17. ASSUME NEW r \in Requests, IssueRegistrationToken(r) PROVE TypeOK'
  BY <1>17, NoneAssumption, BoundsAssumption
     DEF IInv, TypeOK, Token, RegisterLabels, Labels, Answers,
         IssueRegistrationToken, CreateRegistrationToken, RegistrationToken,
         Goto, Answer, UniqueEmail, Email, accounts, tokens, mail
<1>18. ASSUME NEW r \in Requests, IssuePlaceholderToken(r) PROVE TypeOK'
  BY <1>18, NoneAssumption, BoundsAssumption
     DEF IInv, TypeOK, Token, RegisterLabels, Labels, Answers,
         IssuePlaceholderToken, CreatePasswordResetToken, PlaceholderToken,
         Goto, Answer, UniqueEmail, Email, accounts, tokens, mail
<1>19. ASSUME NEW r \in Requests, EmitUserRegistered(r) PROVE TypeOK'
  BY <1>19, NoneAssumption
     DEF IInv, TypeOK, Mail, Control, RegisterLabels, Labels, Answers,
         EmitUserRegistered, EmitAndAnswer, RegisterMail, Answer, Email,
         accounts, tokens, mail
<1>20. ASSUME NEW r \in Requests, FindRegistrant(r) PROVE TypeOK'
  BY <1>20, NoneAssumption
     DEF IInv, TypeOK, ConfirmRegisterLabels, Labels, Answers, FindRegistrant,
         Answer, Goto, accounts, tokens, mail
<1>21. ASSUME NEW r \in Requests, VerifyUser(r) PROVE TypeOK'
  <2> DEFINE email == held[r].email
             saved == [users[email] EXCEPT !.isEmailVerified = TRUE]
  <2>1. email \in Emails /\ users[email] \in User
    BY <1>21, SavedUserExists DEF VerifyUser, SaveUser
  <2>2. saved \in User
    BY <2>1 DEF User
  <2>3. users' \in [Emails -> User \cup {None}]
    BY <1>21, <2>1, <2>2 DEF IInv, TypeOK, VerifyUser, SaveUser
  <2> QED
    BY <1>21, <2>3
       DEF IInv, TypeOK, ConfirmRegisterLabels, Labels, VerifyUser, SaveUser,
           Goto, tokens, mail
<1>22. ASSUME NEW r \in Requests, SpendRegistrationToken(r) PROVE TypeOK'
  BY <1>22, NoneAssumption
     DEF IInv, TypeOK, Token, HeldToken, Control, ConfirmRegisterLabels,
         Labels, Answers, SpendRegistrationToken, Spend, SpendAnswer,
         SpentExpiry, Stored, Answer, accounts, tokens, mail
<1>23. ASSUME NEW r \in Requests, DeleteResetToken(r) PROVE TypeOK'
  BY <1>23, NoneAssumption, BoundsAssumption
     DEF IInv, TypeOK, HeldToken, Control, ResetLabels, Labels, Answers,
         DeleteResetToken, accounts, tokens, mail
<1>24. ASSUME NEW r \in Requests, CreateResetToken(r) PROVE TypeOK'
  <2>1. ResetToken(r) \in Token
    BY <1>24, NoneAssumption
       DEF IInv, TypeOK, Control, HeldToken, ResetToken, Token,
           CreateResetToken, CreatePasswordResetToken
  <2>2. passwordResetTokens' \in [Emails -> Token \cup {None}]
    BY <1>24, <2>1
       DEF IInv, TypeOK, CreateResetToken, CreatePasswordResetToken
  <2> QED
    BY <1>24, <2>2, NoneAssumption
       DEF IInv, TypeOK, ResetLabels, Labels, Answers, CreateResetToken,
           CreatePasswordResetToken, Goto, Answer, accounts, mail
<1>25. ASSUME NEW r \in Requests, EmitPasswordResetAttempt(r) PROVE TypeOK'
  BY <1>25, NoneAssumption
     DEF IInv, TypeOK, Mail, Control, ResetLabels, Labels, Answers,
         EmitPasswordResetAttempt, EmitAndAnswer, ResetMail, Answer, accounts,
         tokens, mail
<1>26. ASSUME NEW r \in Requests, FindResetUser(r) PROVE TypeOK'
  BY <1>26, NoneAssumption
     DEF IInv, TypeOK, ConfirmResetLabels, Labels, Answers, FindResetUser,
         Answer, Goto, accounts, tokens, mail
<1>27. ASSUME NEW r \in Requests, ReplacePassword(r) PROVE TypeOK'
  BY <1>27, NoneAssumption, SavedUserExists
     DEF IInv, TypeOK, User, HeldToken, ConfirmResetLabels, Labels, Answers,
         ReplacePassword, SaveUser, Goto, accounts, tokens, mail
<1>28. ASSUME NEW r \in Requests, SpendResetToken(r) PROVE TypeOK'
  BY <1>28, NoneAssumption
     DEF IInv, TypeOK, Token, HeldToken, Control, ConfirmResetLabels, Labels,
         Answers, SpendResetToken, Spend, SpendAnswer, SpentExpiry, Stored,
         Answer, accounts, tokens, mail
<1>29. ASSUME NEW r \in Requests, LinkGoogleId(r) PROVE TypeOK'
  <2> DEFINE email == input[r].email
             saved == [users[email] EXCEPT !.googleId = input[r].googleId]
  <2>1. email \in Emails /\ users[email] \in User
    BY <1>29, SavedUserExists DEF LinkGoogleId
  <2>2. saved \in User
    BY <1>29, <2>1 DEF IInv, Control, GoogleLabels, LinkGoogleId, User
  <2>3. users' \in [Emails -> User \cup {None}]
    BY <1>29, <2>1, <2>2 DEF IInv, TypeOK, LinkGoogleId
  <2> QED
    BY <1>29, <2>3, NoneAssumption
       DEF IInv, TypeOK, Answers, LinkGoogleId, Answer, tokens, mail
<1>30. ASSUME NEW r \in Requests, CreateGoogleProfile(r) PROVE TypeOK'
  BY <1>30, NoneAssumption
     DEF IInv, TypeOK, GoogleLabels, Labels, Answers, CreateGoogleProfile,
         CreateUserProfile, Goto, Answer, UniqueEmail, accounts, tokens, mail
<1>31. ASSUME NEW r \in Requests, CreateGoogleUser(r) PROVE TypeOK'
  <2>1. input[r].googleId \in GoogleIds
    BY <1>31 DEF IInv, Control, GoogleLabels, CreateGoogleUser, CreateUser
  <2>2. GoogleUser(input[r].googleId) \in User
    BY <2>1 DEF GoogleUser, User
  <2>3. users' \in [Emails -> User \cup {None}]
    BY <1>31, <2>2 DEF IInv, TypeOK, CreateGoogleUser, CreateUser
  <2> QED
    BY <1>31, <2>3, NoneAssumption
       DEF IInv, TypeOK, Answers, CreateGoogleUser, CreateUser, Goto, Answer,
           tokens, mail
<1>32. ASSUME NEW r \in Requests, Abort(r) PROVE TypeOK'
  BY <1>32, NoneAssumption
     DEF IInv, TypeOK, Answers, Abort, Running, accounts, tokens, mail
<1>33. ASSUME NEW m \in mailQueue, SendMail(m) PROVE TypeOK'
  BY <1>33, NoneAssumption
     DEF IInv, TypeOK, Answers, SendMail, accounts, tokens, requests
<1>34. ASSUME NEW m \in mailQueue, MailRefused(m) PROVE TypeOK'
  BY <1>34, NoneAssumption
     DEF IInv, TypeOK, Answers, MailRefused, accounts, tokens, requests
<1>35. CASE Crash
  BY <1>35, NoneAssumption
     DEF IInv, TypeOK, Answers, Crash, accounts, tokens, mail
<1>36. CASE Tick
  BY <1>36, NoneAssumption
     DEF IInv, TypeOK, Tick, accounts, tokens, mail, requests, vars
<1>37. CASE Finished
  BY <1>37, NoneAssumption
     DEF IInv, TypeOK, Answers, Finished, accounts, tokens, mail, requests,
         vars
<1>38. CASE UNCHANGED vars
  BY <1>38, NoneAssumption
     DEF IInv, TypeOK, accounts, tokens, mail, requests, vars
<1>39. QED
  BY <1>1, <1>2, <1>3, <1>4, <1>5, <1>6, <1>7, <1>8, <1>9, <1>10, <1>11, <1>12,
     <1>13, <1>14, <1>15, <1>16, <1>17, <1>18, <1>19, <1>20, <1>21, <1>22,
     <1>23, <1>24, <1>25, <1>26, <1>27, <1>28, <1>29, <1>30, <1>31, <1>32,
     <1>33, <1>34, <1>35, <1>36, <1>37, <1>38
     DEF Next, Arrival, HandlerStep, RegistrationStep, PasswordStep, GoogleStep

\* A request is asked once, its handler never goes back to before it stores a
\* token, and only the save of a spent token answers SUCCESS.
LEMMA StepAdvances ==
  IInv /\ [Next]_vars => Advances
PROOF
<1> SUFFICES ASSUME IInv, [Next]_vars PROVE Advances
  OBVIOUS
<1>1. ASSUME NEW r \in Requests, RegisterUser(r) PROVE Advances
  BY <1>1
     DEF IInv, TypeOK, Control, Advances, Ended, Answers, BeforeIssue,
         RegisterUser, HandleExistingUser, Arrives
<1>2. ASSUME NEW r \in Requests, RefuseTerms(r) PROVE Advances
  BY <1>2
     DEF IInv, TypeOK, Control, Advances, Ended, Answers, BeforeIssue,
         RefuseTerms, Arrives
<1>3. ASSUME NEW r \in Requests, ConfirmRegistration(r) PROVE Advances
  BY <1>3
     DEF IInv, TypeOK, Control, Advances, Ended, Answers, BeforeIssue,
         ConfirmRegistration, Arrives
<1>4. ASSUME NEW r \in Requests, ResetPassword(r) PROVE Advances
  BY <1>4
     DEF IInv, TypeOK, Control, Advances, Ended, Answers, BeforeIssue,
         ResetPassword, Arrives
<1>5. ASSUME NEW r \in Requests, ConfirmPasswordReset(r) PROVE Advances
  BY <1>5
     DEF IInv, TypeOK, Control, Advances, Ended, Answers, BeforeIssue,
         ConfirmPasswordReset, Arrives
<1>6. ASSUME NEW r \in Requests, LoginWithGoogle(r) PROVE Advances
  BY <1>6
     DEF IInv, TypeOK, Control, Advances, Ended, Answers, BeforeIssue,
         LoginWithGoogle, GoogleNext, Arrives
<1>7. ASSUME NEW r \in Requests, LoginWithoutEmail(r) PROVE Advances
  BY <1>7
     DEF IInv, TypeOK, Control, Advances, Ended, Answers, BeforeIssue,
         LoginWithoutEmail, Arrives
<1>8. ASSUME NEW r \in Requests, ClearRegistrationToken(r) PROVE Advances
  BY <1>8
     DEF IInv, TypeOK, Advances, Ended, Answers, BeforeIssue,
         ClearRegistrationToken, DeleteRegistrationToken, Goto
<1>9. ASSUME NEW r \in Requests, ClearPasswordToken(r) PROVE Advances
  BY <1>9
     DEF IInv, TypeOK, Advances, Ended, Answers, BeforeIssue,
         ClearPasswordToken, DeletePasswordResetToken, Goto
<1>10. ASSUME NEW r \in Requests, FindRegistered(r) PROVE Advances
  BY <1>10
     DEF IInv, TypeOK, Advances, Ended, Answers, BeforeIssue, FindRegistered,
         Goto
<1>11. ASSUME NEW r \in Requests, UpdateProfile(r) PROVE Advances
  BY <1>11
     DEF IInv, TypeOK, Advances, Ended, Answers, BeforeIssue, UpdateProfile,
         Goto
<1>12. ASSUME NEW r \in Requests, SavePassword(r) PROVE Advances
  BY <1>12
     DEF IInv, TypeOK, Advances, Ended, Answers, BeforeIssue, SavePassword,
         SaveUser, Goto
<1>13. ASSUME NEW r \in Requests, CreateProfile(r) PROVE Advances
  BY <1>13
     DEF IInv, TypeOK, Advances, Ended, Answers, BeforeIssue, CreateProfile,
         CreateUserProfile, Goto, Answer
<1>14. ASSUME NEW r \in Requests, CreateRegisteredUser(r) PROVE Advances
  BY <1>14
     DEF IInv, TypeOK, Advances, Ended, Answers, BeforeIssue,
         CreateRegisteredUser, CreateUser, Goto, Answer
<1>15. ASSUME NEW r \in Requests, PurgeRegistrationToken(r) PROVE Advances
  BY <1>15
     DEF IInv, TypeOK, Advances, Ended, Answers, BeforeIssue,
         PurgeRegistrationToken, DeleteRegistrationToken, Goto
<1>16. ASSUME NEW r \in Requests, PurgePasswordToken(r) PROVE Advances
  BY <1>16
     DEF IInv, TypeOK, Advances, Ended, Answers, BeforeIssue,
         PurgePasswordToken, DeletePasswordResetToken, Goto
<1>17. ASSUME NEW r \in Requests, IssueRegistrationToken(r) PROVE Advances
  BY <1>17
     DEF IInv, TypeOK, Advances, Ended, Answers, BeforeIssue,
         IssueRegistrationToken, CreateRegistrationToken, Goto, Answer
<1>18. ASSUME NEW r \in Requests, IssuePlaceholderToken(r) PROVE Advances
  BY <1>18
     DEF IInv, TypeOK, Advances, Ended, Answers, BeforeIssue,
         IssuePlaceholderToken, CreatePasswordResetToken, Goto, Answer
<1>19. ASSUME NEW r \in Requests, EmitUserRegistered(r) PROVE Advances
  BY <1>19
     DEF IInv, TypeOK, Advances, Ended, Answers, BeforeIssue,
         EmitUserRegistered, EmitAndAnswer, Answer
<1>20. ASSUME NEW r \in Requests, FindRegistrant(r) PROVE Advances
  BY <1>20
     DEF IInv, TypeOK, Advances, Ended, Answers, BeforeIssue, FindRegistrant,
         Answer, Goto
<1>21. ASSUME NEW r \in Requests, VerifyUser(r) PROVE Advances
  BY <1>21
     DEF IInv, TypeOK, Advances, Ended, Answers, BeforeIssue, VerifyUser,
         SaveUser, Goto
<1>22. ASSUME NEW r \in Requests, SpendRegistrationToken(r) PROVE Advances
  BY <1>22
     DEF IInv, TypeOK, Advances, Ended, Answers, BeforeIssue,
         SpendRegistrationToken, SpendAnswer, Answer
<1>23. ASSUME NEW r \in Requests, DeleteResetToken(r) PROVE Advances
  BY <1>23
     DEF IInv, TypeOK, Advances, Ended, Answers, BeforeIssue, DeleteResetToken
<1>24. ASSUME NEW r \in Requests, CreateResetToken(r) PROVE Advances
  BY <1>24
     DEF IInv, TypeOK, Advances, Ended, Answers, BeforeIssue, CreateResetToken,
         CreatePasswordResetToken, Goto, Answer
<1>25. ASSUME NEW r \in Requests, EmitPasswordResetAttempt(r) PROVE Advances
  BY <1>25
     DEF IInv, TypeOK, Advances, Ended, Answers, BeforeIssue,
         EmitPasswordResetAttempt, EmitAndAnswer, Answer
<1>26. ASSUME NEW r \in Requests, FindResetUser(r) PROVE Advances
  BY <1>26
     DEF IInv, TypeOK, Advances, Ended, Answers, BeforeIssue, FindResetUser,
         Answer, Goto
<1>27. ASSUME NEW r \in Requests, ReplacePassword(r) PROVE Advances
  BY <1>27
     DEF IInv, TypeOK, Advances, Ended, Answers, BeforeIssue, ReplacePassword,
         SaveUser, Goto
<1>28. ASSUME NEW r \in Requests, SpendResetToken(r) PROVE Advances
  BY <1>28
     DEF IInv, TypeOK, Advances, Ended, Answers, BeforeIssue, SpendResetToken,
         SpendAnswer, Answer
<1>29. ASSUME NEW r \in Requests, LinkGoogleId(r) PROVE Advances
  BY <1>29
     DEF IInv, TypeOK, Advances, Ended, Answers, BeforeIssue, LinkGoogleId,
         Answer
<1>30. ASSUME NEW r \in Requests, CreateGoogleProfile(r) PROVE Advances
  BY <1>30
     DEF IInv, TypeOK, Advances, Ended, Answers, BeforeIssue,
         CreateGoogleProfile, CreateUserProfile, Goto, Answer
<1>31. ASSUME NEW r \in Requests, CreateGoogleUser(r) PROVE Advances
  BY <1>31
     DEF IInv, TypeOK, Advances, Ended, Answers, BeforeIssue, CreateGoogleUser,
         CreateUser, Goto, Answer
<1>32. ASSUME NEW r \in Requests, Abort(r) PROVE Advances
  BY <1>32
     DEF IInv, TypeOK, Advances, Ended, Answers, BeforeIssue, Labels,
         RegisterLabels, ConfirmRegisterLabels, ResetLabels,
         ConfirmResetLabels, GoogleLabels, Running, Abort
<1>33. ASSUME NEW m \in mailQueue, SendMail(m) PROVE Advances
  BY <1>33
     DEF IInv, TypeOK, Advances, Ended, Answers, BeforeIssue, SendMail,
         requests, accounts
<1>34. ASSUME NEW m \in mailQueue, MailRefused(m) PROVE Advances
  BY <1>34
     DEF IInv, TypeOK, Advances, Ended, Answers, BeforeIssue, MailRefused,
         requests, accounts
<1>35. CASE Crash
  BY <1>35
     DEF IInv, TypeOK, Advances, Ended, Answers, BeforeIssue, Labels,
         RegisterLabels, ConfirmRegisterLabels, ResetLabels,
         ConfirmResetLabels, GoogleLabels, Running, Crash
<1>36. CASE Tick
  BY <1>36
     DEF IInv, TypeOK, Advances, Ended, Answers, BeforeIssue, Tick, requests,
         accounts
<1>37. CASE Finished
  BY <1>37
     DEF IInv, TypeOK, Advances, Ended, Answers, BeforeIssue, Finished,
         accounts, tokens, mail, requests, vars
<1>38. CASE UNCHANGED vars
  BY <1>38
     DEF IInv, TypeOK, Advances, Ended, Answers, BeforeIssue, accounts, tokens,
         mail, requests, vars
<1>39. QED
  BY <1>1, <1>2, <1>3, <1>4, <1>5, <1>6, <1>7, <1>8, <1>9, <1>10, <1>11, <1>12,
     <1>13, <1>14, <1>15, <1>16, <1>17, <1>18, <1>19, <1>20, <1>21, <1>22,
     <1>23, <1>24, <1>25, <1>26, <1>27, <1>28, <1>29, <1>30, <1>31, <1>32,
     <1>33, <1>34, <1>35, <1>36, <1>37, <1>38
     DEF Next, Arrival, HandlerStep, RegistrationStep, PasswordStep, GoogleStep

\* Users, profiles, verified e-mails and sent e-mails are never lost: no save
\* of a document read earlier undoes what another request wrote meanwhile.
LEMMA StepGrows ==
  IInv /\ [Next]_vars => Grows
PROOF
<1> SUFFICES ASSUME IInv, [Next]_vars PROVE Grows
  OBVIOUS
<1>a. now <= now
  BY DEF IInv, TypeOK
<1>b. ASSUME UNCHANGED <<users, profiles, now>>, mailbox \subseteq mailbox'
      PROVE  Grows
  BY <1>a, <1>b DEF Grows, Exists, Verified
<1>1. ASSUME NEW r \in Requests, RegisterUser(r) PROVE Grows
  BY <1>1, <1>a, <1>b DEF RegisterUser, accounts, mail
<1>2. ASSUME NEW r \in Requests, RefuseTerms(r) PROVE Grows
  BY <1>2, <1>a, <1>b DEF RefuseTerms, accounts, mail
<1>3. ASSUME NEW r \in Requests, ConfirmRegistration(r) PROVE Grows
  BY <1>3, <1>a, <1>b DEF ConfirmRegistration, accounts, mail
<1>4. ASSUME NEW r \in Requests, ResetPassword(r) PROVE Grows
  BY <1>4, <1>a, <1>b DEF ResetPassword, accounts, mail
<1>5. ASSUME NEW r \in Requests, ConfirmPasswordReset(r) PROVE Grows
  BY <1>5, <1>a, <1>b DEF ConfirmPasswordReset, accounts, mail
<1>6. ASSUME NEW r \in Requests, LoginWithGoogle(r) PROVE Grows
  BY <1>6, <1>a, <1>b DEF LoginWithGoogle, accounts, mail
<1>7. ASSUME NEW r \in Requests, LoginWithoutEmail(r) PROVE Grows
  BY <1>7, <1>a, <1>b DEF LoginWithoutEmail, accounts, mail
<1>8. ASSUME NEW r \in Requests, ClearRegistrationToken(r) PROVE Grows
  BY <1>8, <1>a, <1>b
     DEF ClearRegistrationToken, DeleteRegistrationToken, accounts, mail
<1>9. ASSUME NEW r \in Requests, ClearPasswordToken(r) PROVE Grows
  BY <1>9, <1>a, <1>b
     DEF ClearPasswordToken, DeletePasswordResetToken, accounts, mail
<1>10. ASSUME NEW r \in Requests, FindRegistered(r) PROVE Grows
  BY <1>10, <1>a, <1>b DEF FindRegistered, accounts, mail
<1>11. ASSUME NEW r \in Requests, UpdateProfile(r) PROVE Grows
  BY <1>11, <1>a, NoneAssumption
     DEF IInv, TypeOK, Grows, Exists, Verified, UpdateProfile, Email, mail
<1>12. ASSUME NEW r \in Requests, SavePassword(r) PROVE Grows
  <2> DEFINE email == Email(r)
  <2>1. /\ Exists(email)
        /\ email \in Emails
        /\ users[email] \in User
    BY <1>12, SavedUserExists DEF SavePassword, SaveUser, Email
  <2> QED
    BY <1>12, <2>1, <1>a, NoneAssumption
       DEF IInv, TypeOK, User, Grows, Exists, Verified, SavePassword, SaveUser,
           mail
<1>13. ASSUME NEW r \in Requests, CreateProfile(r) PROVE Grows
  BY <1>13, <1>a, NoneAssumption
     DEF IInv, TypeOK, Grows, Exists, Verified, CreateProfile,
         CreateUserProfile, Email, mail
<1>14. ASSUME NEW r \in Requests, CreateRegisteredUser(r) PROVE Grows
  BY <1>14, <1>a, NoneAssumption
     DEF IInv, TypeOK, Grows, Exists, Verified, CreateRegisteredUser,
         CreateUser, RegisteredUser, UniqueUser, Email, mail
<1>15. ASSUME NEW r \in Requests, PurgeRegistrationToken(r) PROVE Grows
  BY <1>15, <1>a, <1>b
     DEF PurgeRegistrationToken, DeleteRegistrationToken, accounts, mail
<1>16. ASSUME NEW r \in Requests, PurgePasswordToken(r) PROVE Grows
  BY <1>16, <1>a, <1>b
     DEF PurgePasswordToken, DeletePasswordResetToken, accounts, mail
<1>17. ASSUME NEW r \in Requests, IssueRegistrationToken(r) PROVE Grows
  BY <1>17, <1>a, <1>b
     DEF IssueRegistrationToken, CreateRegistrationToken, accounts, mail
<1>18. ASSUME NEW r \in Requests, IssuePlaceholderToken(r) PROVE Grows
  BY <1>18, <1>a, <1>b
     DEF IssuePlaceholderToken, CreatePasswordResetToken, accounts, mail
<1>19. ASSUME NEW r \in Requests, EmitUserRegistered(r) PROVE Grows
  BY <1>19, <1>a, <1>b DEF EmitUserRegistered, EmitAndAnswer, accounts
<1>20. ASSUME NEW r \in Requests, FindRegistrant(r) PROVE Grows
  BY <1>20, <1>a, <1>b DEF FindRegistrant, accounts, mail
<1>21. ASSUME NEW r \in Requests, VerifyUser(r) PROVE Grows
  <2> DEFINE email == held[r].email
  <2>1. /\ Exists(email)
        /\ email \in Emails
        /\ users[email] \in User
    BY <1>21, SavedUserExists DEF VerifyUser, SaveUser
  <2> QED
    BY <1>21, <2>1, <1>a, NoneAssumption
       DEF IInv, TypeOK, User, Grows, Exists, Verified, VerifyUser, SaveUser,
           mail
<1>22. ASSUME NEW r \in Requests, SpendRegistrationToken(r) PROVE Grows
  BY <1>22, <1>a, <1>b DEF SpendRegistrationToken, accounts, mail
<1>23. ASSUME NEW r \in Requests, DeleteResetToken(r) PROVE Grows
  BY <1>23, <1>a, <1>b DEF DeleteResetToken, accounts, mail
<1>24. ASSUME NEW r \in Requests, CreateResetToken(r) PROVE Grows
  BY <1>24, <1>a, <1>b
     DEF CreateResetToken, CreatePasswordResetToken, accounts, mail
<1>25. ASSUME NEW r \in Requests, EmitPasswordResetAttempt(r) PROVE Grows
  BY <1>25, <1>a, <1>b DEF EmitPasswordResetAttempt, EmitAndAnswer, accounts
<1>26. ASSUME NEW r \in Requests, FindResetUser(r) PROVE Grows
  BY <1>26, <1>a, <1>b DEF FindResetUser, accounts, mail
<1>27. ASSUME NEW r \in Requests, ReplacePassword(r) PROVE Grows
  <2> DEFINE email == held[r].email
  <2>1. /\ Exists(email)
        /\ email \in Emails
        /\ users[email] \in User
    BY <1>27, SavedUserExists DEF ReplacePassword, SaveUser
  <2> QED
    BY <1>27, <2>1, <1>a, NoneAssumption
       DEF IInv, TypeOK, User, Grows, Exists, Verified, ReplacePassword,
           SaveUser, mail
<1>28. ASSUME NEW r \in Requests, SpendResetToken(r) PROVE Grows
  BY <1>28, <1>a, <1>b DEF SpendResetToken, accounts, mail
<1>29. ASSUME NEW r \in Requests, LinkGoogleId(r) PROVE Grows
  <2> DEFINE email == input[r].email
             linked == [users[email] EXCEPT !.googleId = input[r].googleId]
  <2>1. /\ Exists(email)
        /\ email \in Emails
        /\ users[email] \in User
    BY <1>29, SavedUserExists DEF LinkGoogleId
  <2>2. /\ linked # None
        /\ linked.isEmailVerified = users[email].isEmailVerified
        /\ linked.googleId # None
    BY <1>29, <2>1, NoneAssumption
       DEF IInv, Control, GoogleLabels, LinkGoogleId, User
  <2>3. /\ users' = users \/ users' = [users EXCEPT ![email] = linked]
        /\ UNCHANGED <<profiles, now, mailbox>>
    BY <1>29 DEF LinkGoogleId, mail
  <2> QED
    BY <2>1, <2>2, <2>3, <1>a DEF IInv, TypeOK, Grows, Exists, Verified
<1>30. ASSUME NEW r \in Requests, CreateGoogleProfile(r) PROVE Grows
  BY <1>30, <1>a, NoneAssumption
     DEF IInv, TypeOK, Grows, Exists, Verified, CreateGoogleProfile,
         CreateUserProfile, mail
<1>31. ASSUME NEW r \in Requests, CreateGoogleUser(r) PROVE Grows
  BY <1>31, <1>a, NoneAssumption
     DEF IInv, TypeOK, Grows, Exists, Verified, CreateGoogleUser, CreateUser,
         GoogleUser, UniqueUser, mail
<1>32. ASSUME NEW r \in Requests, Abort(r) PROVE Grows
  BY <1>32, <1>a, <1>b DEF Abort, accounts, mail
<1>33. ASSUME NEW m \in mailQueue, SendMail(m) PROVE Grows
  BY <1>33, <1>a, <1>b DEF SendMail, accounts
<1>34. ASSUME NEW m \in mailQueue, MailRefused(m) PROVE Grows
  BY <1>34, <1>a, <1>b DEF MailRefused, accounts
<1>35. CASE Crash
  BY <1>35, <1>a, <1>b DEF Crash, accounts
<1>36. CASE Tick
  BY <1>36, <1>a
     DEF IInv, TypeOK, Grows, Exists, Verified, Tick, accounts, mail
<1>37. CASE Finished
  BY <1>37, <1>a, <1>b DEF Finished, accounts, tokens, mail, requests, vars
<1>38. CASE UNCHANGED vars
  BY <1>38, <1>a, <1>b DEF accounts, tokens, mail, requests, vars
<1>39. QED
  BY <1>1, <1>2, <1>3, <1>4, <1>5, <1>6, <1>7, <1>8, <1>9, <1>10, <1>11, <1>12,
     <1>13, <1>14, <1>15, <1>16, <1>17, <1>18, <1>19, <1>20, <1>21, <1>22,
     <1>23, <1>24, <1>25, <1>26, <1>27, <1>28, <1>29, <1>30, <1>31, <1>32,
     <1>33, <1>34, <1>35, <1>36, <1>37, <1>38
     DEF Next, Arrival, HandlerStep, RegistrationStep, PasswordStep, GoogleStep

\* The label of a handler keeps telling which route it serves and what it was
\* given.
LEMMA ControlPreserved ==
  IInv /\ [Next]_vars => Control'
PROOF
<1> SUFFICES ASSUME IInv, [Next]_vars PROVE Control'
  OBVIOUS
<1>1. ASSUME NEW r \in Requests, RegisterUser(r) PROVE Control'
  BY <1>1, NoneAssumption, OperationsAssumption, LowerAssumption
     DEF IInv, TypeOK, Control, Asked, RegisterLabels, ConfirmRegisterLabels,
         ResetLabels, ConfirmResetLabels, GoogleLabels, Input, Routes,
         RegisterUser, HandleExistingUser, Arrives
<1>2. ASSUME NEW r \in Requests, RefuseTerms(r) PROVE Control'
  BY <1>2, NoneAssumption, OperationsAssumption, LowerAssumption
     DEF IInv, TypeOK, Control, Asked, RegisterLabels, ConfirmRegisterLabels,
         ResetLabels, ConfirmResetLabels, GoogleLabels, Input, Routes,
         RefuseTerms, Arrives
<1>3. ASSUME NEW r \in Requests, ConfirmRegistration(r) PROVE Control'
  BY <1>3, NoneAssumption, OperationsAssumption
     DEF IInv, TypeOK, Control, Asked, RegisterLabels, ConfirmRegisterLabels,
         ResetLabels, ConfirmResetLabels, GoogleLabels, Input, Routes,
         HeldToken, Token, Mail, ConfirmRegistration, Holders, Held, Links,
         Arrives, Stored
<1>4. ASSUME NEW r \in Requests, ResetPassword(r) PROVE Control'
  BY <1>4, NoneAssumption, OperationsAssumption, LowerAssumption
     DEF IInv, TypeOK, Control, Asked, RegisterLabels, ConfirmRegisterLabels,
         ResetLabels, ConfirmResetLabels, GoogleLabels, Input, Routes,
         ResetPassword, Arrives
<1>5. ASSUME NEW r \in Requests, ConfirmPasswordReset(r) PROVE Control'
  BY <1>5, NoneAssumption, OperationsAssumption
     DEF IInv, TypeOK, Control, Asked, RegisterLabels, ConfirmRegisterLabels,
         ResetLabels, ConfirmResetLabels, GoogleLabels, Input, Routes,
         HeldToken, Token, Mail, ConfirmPasswordReset, Holders, Held, Links,
         Arrives, Stored
<1>6. ASSUME NEW r \in Requests, LoginWithGoogle(r) PROVE Control'
  BY <1>6, NoneAssumption, OperationsAssumption
     DEF IInv, TypeOK, Control, Asked, RegisterLabels, ConfirmRegisterLabels,
         ResetLabels, ConfirmResetLabels, GoogleLabels, Input, Routes,
         LoginWithGoogle, GoogleNext, Arrives
<1>7. ASSUME NEW r \in Requests, LoginWithoutEmail(r) PROVE Control'
  BY <1>7, NoneAssumption, OperationsAssumption
     DEF IInv, TypeOK, Control, Asked, RegisterLabels, ConfirmRegisterLabels,
         ResetLabels, ConfirmResetLabels, GoogleLabels, Input, Routes,
         LoginWithoutEmail, Arrives
<1>8. ASSUME NEW r \in Requests, ClearRegistrationToken(r) PROVE Control'
  BY <1>8
     DEF IInv, TypeOK, Control, Asked, RegisterLabels, ConfirmRegisterLabels,
         ResetLabels, ConfirmResetLabels, GoogleLabels, ClearRegistrationToken,
         DeleteRegistrationToken, Goto
<1>9. ASSUME NEW r \in Requests, ClearPasswordToken(r) PROVE Control'
  BY <1>9
     DEF IInv, TypeOK, Control, Asked, RegisterLabels, ConfirmRegisterLabels,
         ResetLabels, ConfirmResetLabels, GoogleLabels, ClearPasswordToken,
         DeletePasswordResetToken, Goto
<1>10. ASSUME NEW r \in Requests, FindRegistered(r) PROVE Control'
  BY <1>10
     DEF IInv, TypeOK, Control, Asked, RegisterLabels, ConfirmRegisterLabels,
         ResetLabels, ConfirmResetLabels, GoogleLabels, FindRegistered, Goto
<1>11. ASSUME NEW r \in Requests, UpdateProfile(r) PROVE Control'
  BY <1>11
     DEF IInv, TypeOK, Control, Asked, RegisterLabels, ConfirmRegisterLabels,
         ResetLabels, ConfirmResetLabels, GoogleLabels, UpdateProfile, Goto
<1>12. ASSUME NEW r \in Requests, SavePassword(r) PROVE Control'
  BY <1>12
     DEF IInv, TypeOK, Control, Asked, RegisterLabels, ConfirmRegisterLabels,
         ResetLabels, ConfirmResetLabels, GoogleLabels, SavePassword, SaveUser,
         Goto
<1>13. ASSUME NEW r \in Requests, CreateProfile(r) PROVE Control'
  BY <1>13
     DEF IInv, TypeOK, Control, Asked, RegisterLabels, ConfirmRegisterLabels,
         ResetLabels, ConfirmResetLabels, GoogleLabels, CreateProfile,
         CreateUserProfile, Goto, Answer
<1>14. ASSUME NEW r \in Requests, CreateRegisteredUser(r) PROVE Control'
  BY <1>14
     DEF IInv, TypeOK, Control, Asked, RegisterLabels, ConfirmRegisterLabels,
         ResetLabels, ConfirmResetLabels, GoogleLabels, CreateRegisteredUser,
         CreateUser, Goto, Answer
<1>15. ASSUME NEW r \in Requests, PurgeRegistrationToken(r) PROVE Control'
  BY <1>15
     DEF IInv, TypeOK, Control, Asked, RegisterLabels, ConfirmRegisterLabels,
         ResetLabels, ConfirmResetLabels, GoogleLabels, PurgeRegistrationToken,
         DeleteRegistrationToken, Goto
<1>16. ASSUME NEW r \in Requests, PurgePasswordToken(r) PROVE Control'
  BY <1>16
     DEF IInv, TypeOK, Control, Asked, RegisterLabels, ConfirmRegisterLabels,
         ResetLabels, ConfirmResetLabels, GoogleLabels, PurgePasswordToken,
         DeletePasswordResetToken, Goto
<1>17. ASSUME NEW r \in Requests, IssueRegistrationToken(r) PROVE Control'
  BY <1>17
     DEF IInv, TypeOK, Control, Asked, RegisterLabels, ConfirmRegisterLabels,
         ResetLabels, ConfirmResetLabels, GoogleLabels, IssueRegistrationToken,
         CreateRegistrationToken, Goto, Answer
<1>18. ASSUME NEW r \in Requests, IssuePlaceholderToken(r) PROVE Control'
  BY <1>18
     DEF IInv, TypeOK, Control, Asked, RegisterLabels, ConfirmRegisterLabels,
         ResetLabels, ConfirmResetLabels, GoogleLabels, IssuePlaceholderToken,
         CreatePasswordResetToken, Goto, Answer
<1>19. ASSUME NEW r \in Requests, EmitUserRegistered(r) PROVE Control'
  BY <1>19
     DEF IInv, TypeOK, Control, Asked, RegisterLabels, ConfirmRegisterLabels,
         ResetLabels, ConfirmResetLabels, GoogleLabels, EmitUserRegistered,
         EmitAndAnswer, Answer
<1>20. ASSUME NEW r \in Requests, FindRegistrant(r) PROVE Control'
  BY <1>20
     DEF IInv, TypeOK, Control, Asked, RegisterLabels, ConfirmRegisterLabels,
         ResetLabels, ConfirmResetLabels, GoogleLabels, FindRegistrant, Answer,
         Goto
<1>21. ASSUME NEW r \in Requests, VerifyUser(r) PROVE Control'
  BY <1>21
     DEF IInv, TypeOK, Control, Asked, RegisterLabels, ConfirmRegisterLabels,
         ResetLabels, ConfirmResetLabels, GoogleLabels, VerifyUser, SaveUser,
         Goto
<1>22. ASSUME NEW r \in Requests, SpendRegistrationToken(r) PROVE Control'
  BY <1>22
     DEF IInv, TypeOK, Control, Asked, RegisterLabels, ConfirmRegisterLabels,
         ResetLabels, ConfirmResetLabels, GoogleLabels, SpendRegistrationToken,
         SpendAnswer, Answer
<1>23. ASSUME NEW r \in Requests, DeleteResetToken(r) PROVE Control'
  BY <1>23, NoneAssumption, BoundsAssumption
     DEF IInv, TypeOK, Control, Asked, RegisterLabels, ConfirmRegisterLabels,
         ResetLabels, ConfirmResetLabels, GoogleLabels, HeldToken,
         DeleteResetToken
<1>24. ASSUME NEW r \in Requests, CreateResetToken(r) PROVE Control'
  BY <1>24
     DEF IInv, TypeOK, Control, Asked, RegisterLabels, ConfirmRegisterLabels,
         ResetLabels, ConfirmResetLabels, GoogleLabels, CreateResetToken,
         CreatePasswordResetToken, Goto, Answer
<1>25. ASSUME NEW r \in Requests, EmitPasswordResetAttempt(r) PROVE Control'
  BY <1>25
     DEF IInv, TypeOK, Control, Asked, RegisterLabels, ConfirmRegisterLabels,
         ResetLabels, ConfirmResetLabels, GoogleLabels,
         EmitPasswordResetAttempt, EmitAndAnswer, Answer
<1>26. ASSUME NEW r \in Requests, FindResetUser(r) PROVE Control'
  BY <1>26
     DEF IInv, TypeOK, Control, Asked, RegisterLabels, ConfirmRegisterLabels,
         ResetLabels, ConfirmResetLabels, GoogleLabels, FindResetUser, Answer,
         Goto
<1>27. ASSUME NEW r \in Requests, ReplacePassword(r) PROVE Control'
  BY <1>27
     DEF IInv, TypeOK, Control, Asked, RegisterLabels, ConfirmRegisterLabels,
         ResetLabels, ConfirmResetLabels, GoogleLabels, ReplacePassword,
         SaveUser, Goto
<1>28. ASSUME NEW r \in Requests, SpendResetToken(r) PROVE Control'
  BY <1>28
     DEF IInv, TypeOK, Control, Asked, RegisterLabels, ConfirmRegisterLabels,
         ResetLabels, ConfirmResetLabels, GoogleLabels, SpendResetToken,
         SpendAnswer, Answer
<1>29. ASSUME NEW r \in Requests, LinkGoogleId(r) PROVE Control'
  BY <1>29
     DEF IInv, TypeOK, Control, Asked, RegisterLabels, ConfirmRegisterLabels,
         ResetLabels, ConfirmResetLabels, GoogleLabels, LinkGoogleId, Answer
<1>30. ASSUME NEW r \in Requests, CreateGoogleProfile(r) PROVE Control'
  BY <1>30
     DEF IInv, TypeOK, Control, Asked, RegisterLabels, ConfirmRegisterLabels,
         ResetLabels, ConfirmResetLabels, GoogleLabels, CreateGoogleProfile,
         CreateUserProfile, Goto, Answer
<1>31. ASSUME NEW r \in Requests, CreateGoogleUser(r) PROVE Control'
  BY <1>31
     DEF IInv, TypeOK, Control, Asked, RegisterLabels, ConfirmRegisterLabels,
         ResetLabels, ConfirmResetLabels, GoogleLabels, CreateGoogleUser,
         CreateUser, Goto, Answer
<1>32. ASSUME NEW r \in Requests, Abort(r) PROVE Control'
  BY <1>32
     DEF IInv, TypeOK, Control, Asked, RegisterLabels, ConfirmRegisterLabels,
         ResetLabels, ConfirmResetLabels, GoogleLabels, Labels, Running, Abort
<1>33. ASSUME NEW m \in mailQueue, SendMail(m) PROVE Control'
  BY <1>33 DEF IInv, Control, Asked, SendMail, requests
<1>34. ASSUME NEW m \in mailQueue, MailRefused(m) PROVE Control'
  BY <1>34 DEF IInv, Control, Asked, MailRefused, requests
<1>35. CASE Crash
  BY <1>35
     DEF IInv, TypeOK, Control, Asked, RegisterLabels, ConfirmRegisterLabels,
         ResetLabels, ConfirmResetLabels, GoogleLabels, Labels, Running, Crash
<1>36. CASE Tick
  BY <1>36 DEF IInv, Control, Asked, Tick, requests
<1>37. CASE Finished
  BY <1>37 DEF IInv, Control, Asked, Finished, vars, requests
<1>38. CASE UNCHANGED vars
  BY <1>38 DEF IInv, Control, Asked, vars, requests
<1>39. QED
  BY <1>1, <1>2, <1>3, <1>4, <1>5, <1>6, <1>7, <1>8, <1>9, <1>10, <1>11, <1>12,
     <1>13, <1>14, <1>15, <1>16, <1>17, <1>18, <1>19, <1>20, <1>21, <1>22,
     <1>23, <1>24, <1>25, <1>26, <1>27, <1>28, <1>29, <1>30, <1>31, <1>32,
     <1>33, <1>34, <1>35, <1>36, <1>37, <1>38
     DEF Next, Arrival, HandlerStep, RegistrationStep, PasswordStep, GoogleStep

\* Users keep their profiles, are verified only when proven or created by
\* Google, and what a handler found about a user still holds when it acts.
LEMMA AccountsPreserved ==
  IInv /\ [Next]_vars => AccountsOK'
PROOF
<1> SUFFICES ASSUME IInv, [Next]_vars PROVE AccountsOK'
  OBVIOUS
<1>a. Advances /\ Grows
  BY StepAdvances, StepGrows
<1>b. Proven \subseteq Proven'
  BY <1>a DEF IInv, TypeOK, Proven, Asked, Advances, Grows
<1>c. TypeOK'
  BY TypingPreserved
<1>d. ASSUME NEW q \in Requests, pc'[q] = pc[q], held'[q] = held[q]
      PROVE  AccountsKnown(q)'
  <2> DEFINE email == input[q].email
  <2>1. CASE pc[q] = "LOGIN"
    <3>1. /\ input'[q] = input[q]
          /\ email \in Emails
          /\ Verified(email)
          /\ users[email].googleId # None
      BY <1>a, <2>1
         DEF IInv, Control, AccountsOK, AccountsKnown, Asked, Advances
    <3>2. Verified(email)' /\ users'[email].googleId # None
      BY <1>a, <3>1 DEF Grows, Exists, Verified
    <3> QED
      BY <1>d, <2>1, <3>1, <3>2
         DEF AccountsKnown, UserKnown, ResetLabels, Verified
  <2>2. CASE pc[q] # "LOGIN"
    BY <1>a, <1>d, <2>2
       DEF IInv, TypeOK, Control, AccountsOK, AccountsKnown, Asked, HeldToken,
           Advances, Grows, UserKnown, RegisterLabels, ResetLabels,
           GoogleLabels, ConfirmRegisterLabels, ConfirmResetLabels
  <2> QED
    BY <2>1, <2>2
<1>e. ASSUME UNCHANGED users, \A q \in Requests : AccountsKnown(q)'
      PROVE  AccountsOK'
  BY <1>a, <1>b, <1>e
     DEF IInv, AccountsOK, UserHasProfile, GoogleUserIsVerified,
         VerifiedEmailIsProven, Grows, Exists, Verified
<1>f. ASSUME NEW e \in Emails, NEW user \in User,
             users' = [users EXCEPT ![e] = user],
             user.googleId # None => user.isEmailVerified,
             user.isEmailVerified => e \in Proven',
             profiles[e] # None,
             \A q \in Requests : AccountsKnown(q)'
      PROVE  AccountsOK'
  BY <1>a, <1>b, <1>f
     DEF IInv, TypeOK, AccountsOK, UserHasProfile, GoogleUserIsVerified,
         VerifiedEmailIsProven, Grows, Exists, Verified
<1>1. ASSUME NEW r \in Requests, RegisterUser(r) PROVE AccountsOK'
  BY <1>1, <1>d, <1>e
     DEF IInv, TypeOK, Control, AccountsOK, AccountsKnown, UserKnown,
         RegisterLabels, ResetLabels, Answers, Exists, Verified, accounts,
         RegisterUser, HandleExistingUser, Arrives
<1>2. ASSUME NEW r \in Requests, RefuseTerms(r) PROVE AccountsOK'
  BY <1>2, <1>d, <1>e
     DEF IInv, TypeOK, Control, AccountsOK, AccountsKnown, UserKnown,
         ResetLabels, Answers, Exists, Verified, accounts, RefuseTerms, Arrives
<1>3. ASSUME NEW r \in Requests, ConfirmRegistration(r) PROVE AccountsOK'
  BY <1>3, <1>d, <1>e
     DEF IInv, TypeOK, Control, AccountsOK, AccountsKnown, UserKnown,
         ConfirmRegisterLabels, ResetLabels, Answers, Exists, Verified,
         accounts, ConfirmRegistration, Holders, Held, Links, Arrives, Stored
<1>4. ASSUME NEW r \in Requests, ResetPassword(r) PROVE AccountsOK'
  BY <1>4, <1>d, <1>e
     DEF IInv, TypeOK, Control, AccountsOK, AccountsKnown, UserKnown,
         ResetLabels, Answers, Exists, Verified, Resettable, accounts,
         ResetPassword, Arrives
<1>5. ASSUME NEW r \in Requests, ConfirmPasswordReset(r) PROVE AccountsOK'
  BY <1>5, <1>d, <1>e
     DEF IInv, TypeOK, Control, AccountsOK, AccountsKnown, UserKnown,
         ConfirmResetLabels, ResetLabels, Answers, Exists, Verified, accounts,
         ConfirmPasswordReset, Holders, Held, Links, Arrives, Stored
<1>6. ASSUME NEW r \in Requests, LoginWithGoogle(r) PROVE AccountsOK'
  BY <1>6, <1>d, <1>e, NoneAssumption
     DEF IInv, TypeOK, Control, AccountsOK, AccountsKnown, UserKnown,
         GoogleLabels, ResetLabels, Answers, Exists, Verified, accounts,
         LoginWithGoogle, GoogleNext, Arrives
<1>7. ASSUME NEW r \in Requests, LoginWithoutEmail(r) PROVE AccountsOK'
  BY <1>7, <1>d, <1>e
     DEF IInv, TypeOK, Control, AccountsOK, AccountsKnown, UserKnown,
         ResetLabels, Answers, Exists, Verified, accounts, LoginWithoutEmail,
         Arrives
<1>8. ASSUME NEW r \in Requests, ClearRegistrationToken(r) PROVE AccountsOK'
  BY <1>8, <1>d, <1>e
     DEF IInv, TypeOK, Control, AccountsOK, AccountsKnown, UserKnown,
         RegisterLabels, ResetLabels, Exists, Verified, accounts,
         ClearRegistrationToken, DeleteRegistrationToken, Goto, Email
<1>9. ASSUME NEW r \in Requests, ClearPasswordToken(r) PROVE AccountsOK'
  BY <1>9, <1>d, <1>e
     DEF IInv, TypeOK, Control, AccountsOK, AccountsKnown, UserKnown,
         RegisterLabels, ResetLabels, Exists, Verified, accounts,
         ClearPasswordToken, DeletePasswordResetToken, Goto, Email
<1>10. ASSUME NEW r \in Requests, FindRegistered(r) PROVE AccountsOK'
  BY <1>10, <1>d, <1>e
     DEF IInv, TypeOK, Control, AccountsOK, AccountsKnown, UserKnown,
         RegisterLabels, ResetLabels, Exists, Verified, accounts,
         FindRegistered, Goto, Email
<1>11. ASSUME NEW r \in Requests, UpdateProfile(r) PROVE AccountsOK'
  BY <1>11, <1>d, <1>e, NoneAssumption
     DEF IInv, TypeOK, Control, AccountsOK, AccountsKnown, UserKnown,
         RegisterLabels, ResetLabels, Exists, Verified, User, UserHasProfile,
         GoogleUserIsVerified, VerifiedEmailIsProven, UpdateProfile, Goto,
         Email
<1>12. ASSUME NEW r \in Requests, SavePassword(r) PROVE AccountsOK'
  <2> DEFINE email == Email(r)
             saved == [users[email] EXCEPT !.password = r]
  <2>1. /\ email \in Emails
        /\ users[email] \in User
        /\ Exists(email)
    BY <1>12, SavedUserExists DEF SavePassword, SaveUser, Email
  <2>2. saved \in User
    BY <1>12, <2>1 DEF User
  <2>3. /\ saved.googleId # None => saved.isEmailVerified
        /\ saved.isEmailVerified => email \in Proven'
    BY <1>b, <2>1 DEF IInv, AccountsOK, GoogleUserIsVerified,
                      VerifiedEmailIsProven, Exists, Verified, User
  <2>4. profiles[email] # None
    BY <2>1 DEF IInv, AccountsOK, UserHasProfile
  <2>5. \A q \in Requests : AccountsKnown(q)'
    BY <1>12, <1>d, <1>a, <2>1
       DEF IInv, TypeOK, AccountsKnown, UserKnown, ResetLabels, Exists,
           SavePassword, SaveUser, Goto, Grows, Email
  <2> QED
    BY <1>12, <1>f, <2>1, <2>2, <2>3, <2>4, <2>5 DEF SavePassword, SaveUser
<1>13. ASSUME NEW r \in Requests, CreateProfile(r) PROVE AccountsOK'
  BY <1>13, <1>d, <1>e, NoneAssumption
     DEF IInv, TypeOK, Control, AccountsOK, AccountsKnown, UserKnown,
         RegisterLabels, ResetLabels, Exists, Verified, User, UserHasProfile,
         GoogleUserIsVerified, VerifiedEmailIsProven, CreateProfile,
         CreateUserProfile, Goto, Answer, Email
<1>14. ASSUME NEW r \in Requests, CreateRegisteredUser(r) PROVE AccountsOK'
  <2> DEFINE email == Email(r)
             created == RegisteredUser(r)
  <2>1. /\ email \in Emails
        /\ created \in User
        /\ profiles[email] # None
    BY <1>14
       DEF IInv, Control, AccountsOK, AccountsKnown, RegisterLabels, User,
           CreateRegisteredUser, CreateUser, RegisteredUser, Email
  <2>2. /\ created.googleId # None => created.isEmailVerified
        /\ created.isEmailVerified => email \in Proven'
    BY DEF RegisteredUser
  <2>3. UNCHANGED users \/ users' = [users EXCEPT ![email] = created]
    BY <1>14 DEF CreateRegisteredUser, CreateUser
  <2>4. \A q \in Requests : AccountsKnown(q)'
    BY <1>14, <1>d, <2>1, NoneAssumption
       DEF IInv, TypeOK, AccountsKnown, UserKnown, ResetLabels, Exists, User,
           CreateRegisteredUser, CreateUser, Goto, Answer, Email
  <2> QED
    BY <1>e, <1>f, <2>1, <2>2, <2>3, <2>4
<1>15. ASSUME NEW r \in Requests, PurgeRegistrationToken(r) PROVE AccountsOK'
  BY <1>15, <1>d, <1>e
     DEF IInv, TypeOK, Control, AccountsOK, AccountsKnown, UserKnown,
         RegisterLabels, ResetLabels, Exists, Verified, accounts,
         PurgeRegistrationToken, DeleteRegistrationToken, Goto, Email
<1>16. ASSUME NEW r \in Requests, PurgePasswordToken(r) PROVE AccountsOK'
  BY <1>16, <1>d, <1>e
     DEF IInv, TypeOK, Control, AccountsOK, AccountsKnown, UserKnown,
         RegisterLabels, ResetLabels, Exists, Verified, accounts,
         PurgePasswordToken, DeletePasswordResetToken, Goto, Email
<1>17. ASSUME NEW r \in Requests, IssueRegistrationToken(r) PROVE AccountsOK'
  BY <1>17, <1>d, <1>e
     DEF IInv, TypeOK, Control, AccountsOK, AccountsKnown, UserKnown,
         RegisterLabels, ResetLabels, Exists, Verified, accounts,
         IssueRegistrationToken, CreateRegistrationToken, Goto, Answer, Email
<1>18. ASSUME NEW r \in Requests, IssuePlaceholderToken(r) PROVE AccountsOK'
  BY <1>18, <1>d, <1>e
     DEF IInv, TypeOK, Control, AccountsOK, AccountsKnown, UserKnown,
         RegisterLabels, ResetLabels, Exists, Verified, accounts,
         IssuePlaceholderToken, CreatePasswordResetToken, Goto, Answer, Email
<1>19. ASSUME NEW r \in Requests, EmitUserRegistered(r) PROVE AccountsOK'
  BY <1>19, <1>d, <1>e
     DEF IInv, TypeOK, Control, AccountsOK, AccountsKnown, UserKnown,
         RegisterLabels, ResetLabels, Exists, Verified, accounts,
         EmitUserRegistered, EmitAndAnswer, Answer, Email
<1>20. ASSUME NEW r \in Requests, FindRegistrant(r) PROVE AccountsOK'
  BY <1>20, <1>d, <1>e
     DEF IInv, TypeOK, Control, AccountsOK, AccountsKnown, UserKnown,
         ConfirmRegisterLabels, ResetLabels, Exists, Verified, HeldToken,
         accounts, FindRegistrant, Answer, Goto
<1>21. ASSUME NEW r \in Requests, VerifyUser(r) PROVE AccountsOK'
  <2> DEFINE email == held[r].email
             saved == [users[email] EXCEPT !.isEmailVerified = TRUE]
  <2>1. /\ email \in Emails
        /\ users[email] \in User
        /\ Exists(email)
    BY <1>21, SavedUserExists DEF VerifyUser, SaveUser
  <2>2. saved \in User
    BY <1>21, <2>1 DEF User
  <2>3. /\ saved.googleId # None => saved.isEmailVerified
        /\ saved.isEmailVerified => email \in Proven'
    BY <1>21, <1>b, <2>1
       DEF IInv, TypeOK, Control, LinksOK, LinkOK, FollowsLink, Proven, Mailed, User,
           ConfirmRegisterLabels, VerifyUser, SaveUser
  <2>4. profiles[email] # None
    BY <2>1 DEF IInv, AccountsOK, UserHasProfile
  <2>5. \A q \in Requests : AccountsKnown(q)'
    BY <1>21, <1>d, <1>a, <2>1
       DEF IInv, TypeOK, AccountsKnown, UserKnown, ResetLabels, Exists, Grows,
           VerifyUser, SaveUser, Goto
  <2> QED
    BY <1>21, <1>f, <2>1, <2>2, <2>3, <2>4, <2>5 DEF VerifyUser, SaveUser
<1>22. ASSUME NEW r \in Requests, SpendRegistrationToken(r) PROVE AccountsOK'
  BY <1>22, <1>d, <1>e
     DEF IInv, TypeOK, Control, AccountsOK, AccountsKnown, UserKnown,
         ConfirmRegisterLabels, ResetLabels, Exists, Verified, accounts,
         SpendRegistrationToken, SpendAnswer, Stored, Answer
<1>23. ASSUME NEW r \in Requests, DeleteResetToken(r) PROVE AccountsOK'
  BY <1>23, <1>d, <1>e
     DEF IInv, TypeOK, Control, AccountsOK, AccountsKnown, UserKnown,
         ResetLabels, Exists, Verified, accounts, DeleteResetToken
<1>24. ASSUME NEW r \in Requests, CreateResetToken(r) PROVE AccountsOK'
  BY <1>24, <1>d, <1>e
     DEF IInv, TypeOK, Control, AccountsOK, AccountsKnown, UserKnown,
         ResetLabels, Exists, Verified, accounts, CreateResetToken,
         CreatePasswordResetToken, Goto, Answer
<1>25. ASSUME NEW r \in Requests, EmitPasswordResetAttempt(r) PROVE AccountsOK'
  BY <1>25, <1>d, <1>e
     DEF IInv, TypeOK, Control, AccountsOK, AccountsKnown, UserKnown,
         ResetLabels, Exists, Verified, accounts, EmitPasswordResetAttempt,
         EmitAndAnswer, Answer
<1>26. ASSUME NEW r \in Requests, FindResetUser(r) PROVE AccountsOK'
  BY <1>26, <1>d, <1>e
     DEF IInv, TypeOK, Control, AccountsOK, AccountsKnown, UserKnown,
         ConfirmResetLabels, ResetLabels, Exists, Verified, HeldToken,
         accounts, FindResetUser, Answer, Goto
<1>27. ASSUME NEW r \in Requests, ReplacePassword(r) PROVE AccountsOK'
  <2> DEFINE email == held[r].email
             saved == [users[email] EXCEPT !.password = r]
  <2>1. /\ email \in Emails
        /\ users[email] \in User
        /\ Exists(email)
    BY <1>27, SavedUserExists DEF ReplacePassword, SaveUser
  <2>2. saved \in User
    BY <1>27, <2>1 DEF User
  <2>3. /\ saved.googleId # None => saved.isEmailVerified
        /\ saved.isEmailVerified => email \in Proven'
    BY <1>b, <2>1 DEF IInv, AccountsOK, GoogleUserIsVerified,
                      VerifiedEmailIsProven, Exists, Verified, User
  <2>4. profiles[email] # None
    BY <2>1 DEF IInv, AccountsOK, UserHasProfile
  <2>5. \A q \in Requests : AccountsKnown(q)'
    BY <1>27, <1>d, <1>a, <2>1
       DEF IInv, TypeOK, AccountsKnown, UserKnown, ResetLabels, Exists, Grows,
           ReplacePassword, SaveUser, Goto
  <2> QED
    BY <1>27, <1>f, <2>1, <2>2, <2>3, <2>4, <2>5 DEF ReplacePassword, SaveUser
<1>28. ASSUME NEW r \in Requests, SpendResetToken(r) PROVE AccountsOK'
  BY <1>28, <1>d, <1>e
     DEF IInv, TypeOK, Control, AccountsOK, AccountsKnown, UserKnown,
         ConfirmResetLabels, ResetLabels, Exists, Verified, accounts,
         SpendResetToken, SpendAnswer, Stored, Answer
<1>29. ASSUME NEW r \in Requests, LinkGoogleId(r) PROVE AccountsOK'
  <2> DEFINE email == input[r].email
             saved == [users[email] EXCEPT !.googleId = input[r].googleId]
  <2>1. /\ email \in Emails
        /\ users[email] \in User
        /\ Exists(email)
    BY <1>29, SavedUserExists DEF LinkGoogleId
  <2>2. saved \in User
    BY <1>29, <2>1 DEF User, IInv, Control, GoogleLabels, LinkGoogleId
  <2>3. /\ saved.googleId # None => saved.isEmailVerified
        /\ saved.isEmailVerified => email \in Proven'
    BY <1>29, <1>b, <2>1
       DEF IInv, TypeOK, AccountsOK, AccountsKnown, VerifiedEmailIsProven,
           Verified, User, LinkGoogleId
  <2>4. profiles[email] # None
    BY <2>1 DEF IInv, AccountsOK, UserHasProfile
  <2>5. \A q \in Requests : AccountsKnown(q)'
    <3>1. AccountsKnown(r)'
      BY <1>29, <2>1, NoneAssumption
         DEF IInv, TypeOK, Control, AccountsOK, AccountsKnown, UserKnown,
             GoogleLabels, ResetLabels, Exists, Verified, User, LinkGoogleId,
             Answer
    <3>2. ASSUME NEW q \in Requests, q # r PROVE AccountsKnown(q)'
      BY <1>29, <1>d, <3>2 DEF IInv, TypeOK, LinkGoogleId, Answer
    <3> QED
      BY <3>1, <3>2
  <2>6. UNCHANGED users \/ users' = [users EXCEPT ![email] = saved]
    BY <1>29 DEF LinkGoogleId
  <2> QED
    BY <1>e, <1>f, <2>1, <2>2, <2>3, <2>4, <2>5, <2>6
<1>30. ASSUME NEW r \in Requests, CreateGoogleProfile(r) PROVE AccountsOK'
  BY <1>30, <1>d, <1>e, NoneAssumption
     DEF IInv, TypeOK, Control, AccountsOK, AccountsKnown, UserKnown,
         GoogleLabels, ResetLabels, Exists, Verified, User, UserHasProfile,
         GoogleUserIsVerified, VerifiedEmailIsProven, CreateGoogleProfile,
         CreateUserProfile, Goto, Answer
<1>31. ASSUME NEW r \in Requests, CreateGoogleUser(r) PROVE AccountsOK'
  <2> DEFINE email == input[r].email
             created == GoogleUser(input[r].googleId)
  <2>1. /\ email \in Emails
        /\ created \in User
        /\ profiles[email] # None
    BY <1>31
       DEF IInv, Control, AccountsOK, AccountsKnown, GoogleLabels, User,
           CreateGoogleUser, CreateUser, GoogleUser
  <2>2. /\ created.googleId # None => created.isEmailVerified
        /\ created.isEmailVerified => email \in Proven'
    BY <1>31, <1>b
       DEF IInv, Control, GoogleLabels, Proven, CreateGoogleUser, CreateUser,
           GoogleUser
  <2>3. UNCHANGED users \/ users' = [users EXCEPT ![email] = created]
    BY <1>31 DEF CreateGoogleUser, CreateUser
  <2>4. \A q \in Requests : AccountsKnown(q)'
    <3>1. /\ created # None
          /\ created.isEmailVerified
          /\ created.googleId # None
      BY <1>31, <2>1, NoneAssumption
         DEF IInv, Control, GoogleLabels, GoogleUser, CreateGoogleUser,
             CreateUser
    <3>2. /\ input'[r] = input[r]
          /\ \/ pc'[r] = "500"
             \/ pc'[r] = "LOGIN" /\ users' = [users EXCEPT ![email] = created]
      BY <1>31
         DEF IInv, TypeOK, CreateGoogleUser, CreateUser, Goto, Answer
    <3>3. AccountsKnown(r)'
      BY <2>1, <3>1, <3>2
         DEF IInv, TypeOK, AccountsKnown, UserKnown, ResetLabels, Verified
    <3>4. ASSUME NEW q \in Requests, q # r PROVE AccountsKnown(q)'
      BY <1>31, <1>d, <3>4
         DEF IInv, TypeOK, CreateGoogleUser, CreateUser, Goto, Answer
    <3> QED
      BY <3>3, <3>4
  <2> QED
    BY <1>e, <1>f, <2>1, <2>2, <2>3, <2>4
<1>32. ASSUME NEW r \in Requests, Abort(r) PROVE AccountsOK'
  BY <1>32, <1>d, <1>e
     DEF IInv, TypeOK, Control, AccountsOK, AccountsKnown, UserKnown,
         ResetLabels, Answers, Exists, Verified, accounts, Abort, Running
<1>33. ASSUME NEW m \in mailQueue, SendMail(m) PROVE AccountsOK'
  BY <1>33, <1>d, <1>e DEF SendMail, requests, accounts
<1>34. ASSUME NEW m \in mailQueue, MailRefused(m) PROVE AccountsOK'
  BY <1>34, <1>d, <1>e DEF MailRefused, requests, accounts
<1>35. CASE Crash
  BY <1>35, <1>d, <1>e
     DEF IInv, TypeOK, Control, AccountsOK, AccountsKnown, UserKnown,
         ResetLabels, Answers, Running, Labels, Exists, Verified, accounts,
         Crash
<1>36. CASE Tick
  BY <1>36, <1>d, <1>e DEF Tick, requests, accounts
<1>37. CASE Finished
  BY <1>37, <1>d, <1>e DEF Finished, vars, requests, accounts
<1>38. CASE UNCHANGED vars
  BY <1>38, <1>d, <1>e DEF vars, requests, accounts
<1>39. QED
  BY <1>1, <1>2, <1>3, <1>4, <1>5, <1>6, <1>7, <1>8, <1>9, <1>10, <1>11, <1>12,
     <1>13, <1>14, <1>15, <1>16, <1>17, <1>18, <1>19, <1>20, <1>21, <1>22,
     <1>23, <1>24, <1>25, <1>26, <1>27, <1>28, <1>29, <1>30, <1>31, <1>32,
     <1>33, <1>34, <1>35, <1>36, <1>37, <1>38
     DEF Next, Arrival, HandlerStep, RegistrationStep, PasswordStep, GoogleStep

\* Every stored token keeps naming the request that drew it for that e-mail,
\* has its user, and is usable for a reset only when the user is verified.
LEMMA TokensPreserved ==
  IInv /\ [Next]_vars => TokensOK'
PROOF
<1> SUFFICES ASSUME IInv, [Next]_vars PROVE TokensOK'
  OBVIOUS
<1>a. Advances /\ Grows
  BY StepAdvances, StepGrows
<1>b. TypeOK'
  BY TypingPreserved
<1>c. ASSUME NEW e \in Emails, NEW v \in Requests, Drawn(v, e)
      PROVE  Drawn(v, e)' /\ input'[v] = input[v]
  BY <1>a, <1>c DEF Advances, Drawn
<1>d. ASSUME NEW e \in Emails,
             registrationTokens'[e] \in {None, registrationTokens[e]}
      PROVE  RegistrationTokenOK(e)'
  BY <1>a, <1>c, <1>d
     DEF IInv, TypeOK, TokensOK, RegistrationTokenOK, Token, Grows, Asked
<1>e. ASSUME NEW e \in Emails,
             passwordResetTokens'[e] \in {None, passwordResetTokens[e]}
      PROVE  PasswordResetTokenOK(e)'
  BY <1>a, <1>b, <1>c, <1>e
     DEF IInv, TypeOK, TokensOK, PasswordResetTokenOK, Token, Grows, Asked,
         Expired
<1>f. ASSUME \A e \in Emails :
               /\ registrationTokens'[e] \in {None, registrationTokens[e]}
               /\ passwordResetTokens'[e] \in {None, passwordResetTokens[e]}
      PROVE  TokensOK'
  BY <1>d, <1>e, <1>f DEF TokensOK
<1>1. ASSUME NEW r \in Requests, RegisterUser(r) PROVE TokensOK'
  BY <1>1, <1>f DEF RegisterUser, tokens
<1>2. ASSUME NEW r \in Requests, RefuseTerms(r) PROVE TokensOK'
  BY <1>2, <1>f DEF RefuseTerms, tokens
<1>3. ASSUME NEW r \in Requests, ConfirmRegistration(r) PROVE TokensOK'
  BY <1>3, <1>f DEF ConfirmRegistration, tokens
<1>4. ASSUME NEW r \in Requests, ResetPassword(r) PROVE TokensOK'
  BY <1>4, <1>f DEF ResetPassword, tokens
<1>5. ASSUME NEW r \in Requests, ConfirmPasswordReset(r) PROVE TokensOK'
  BY <1>5, <1>f DEF ConfirmPasswordReset, tokens
<1>6. ASSUME NEW r \in Requests, LoginWithGoogle(r) PROVE TokensOK'
  BY <1>6, <1>f DEF LoginWithGoogle, tokens
<1>7. ASSUME NEW r \in Requests, LoginWithoutEmail(r) PROVE TokensOK'
  BY <1>7, <1>f DEF LoginWithoutEmail, tokens
<1>8. ASSUME NEW r \in Requests, ClearRegistrationToken(r) PROVE TokensOK'
  BY <1>8, <1>f
     DEF IInv, TypeOK, ClearRegistrationToken, DeleteRegistrationToken
<1>9. ASSUME NEW r \in Requests, ClearPasswordToken(r) PROVE TokensOK'
  BY <1>9, <1>f DEF IInv, TypeOK, ClearPasswordToken, DeletePasswordResetToken
<1>10. ASSUME NEW r \in Requests, FindRegistered(r) PROVE TokensOK'
  BY <1>10, <1>f DEF FindRegistered, tokens
<1>11. ASSUME NEW r \in Requests, UpdateProfile(r) PROVE TokensOK'
  BY <1>11, <1>f DEF UpdateProfile, tokens
<1>12. ASSUME NEW r \in Requests, SavePassword(r) PROVE TokensOK'
  BY <1>12, <1>f DEF SavePassword, SaveUser, tokens
<1>13. ASSUME NEW r \in Requests, CreateProfile(r) PROVE TokensOK'
  BY <1>13, <1>f DEF CreateProfile, CreateUserProfile, tokens
<1>14. ASSUME NEW r \in Requests, CreateRegisteredUser(r) PROVE TokensOK'
  BY <1>14, <1>f DEF CreateRegisteredUser, UniqueUser, CreateUser, tokens
<1>15. ASSUME NEW r \in Requests, PurgeRegistrationToken(r) PROVE TokensOK'
  BY <1>15, <1>f
     DEF IInv, TypeOK, PurgeRegistrationToken, DeleteRegistrationToken
<1>16. ASSUME NEW r \in Requests, PurgePasswordToken(r) PROVE TokensOK'
  BY <1>16, <1>f DEF IInv, TypeOK, PurgePasswordToken, DeletePasswordResetToken
<1>17. ASSUME NEW r \in Requests, IssueRegistrationToken(r) PROVE TokensOK'
  <2> DEFINE email == Email(r)
  <2>1. /\ email \in Emails
        /\ input[r] # None
        /\ Asked(r, "register")
        /\ Exists(email)
    BY <1>17
       DEF IInv, Control, AccountsOK, AccountsKnown, UserKnown, Exists,
           Verified, Asked, RegisterLabels, IssueRegistrationToken,
           CreateRegistrationToken, Email
  <2>2. ASSUME registrationTokens' = [registrationTokens EXCEPT ![email] = RegistrationToken(r)],
               pc'[r] = "createPasswordToken",
               UNCHANGED <<input, now, users>>
        PROVE  RegistrationTokenOK(email)'
    BY <2>1, <2>2, BoundsAssumption
       DEF IInv, TypeOK, RegistrationTokenOK, Asked, Drawn, Exists, Verified,
           BeforeIssue, Expired, RegistrationToken, Email
  <2>3. \/ UNCHANGED registrationTokens
        \/ /\ registrationTokens' = [registrationTokens EXCEPT ![email] = RegistrationToken(r)]
           /\ pc'[r] = "createPasswordToken"
           /\ UNCHANGED <<input, now, users>>
    BY <1>17 DEF IInv, TypeOK, IssueRegistrationToken, CreateRegistrationToken, Goto, Email, accounts
  <2>4. \A e \in Emails : RegistrationTokenOK(e)'
    BY <1>d, <2>2, <2>3 DEF IInv, TypeOK, Email
  <2> QED
    BY <1>17, <1>e, <2>4 DEF TokensOK, IssueRegistrationToken, CreateRegistrationToken
<1>18. ASSUME NEW r \in Requests, IssuePlaceholderToken(r) PROVE TokensOK'
  <2> DEFINE email == Email(r)
  <2>1. /\ email \in Emails
        /\ input[r] # None
        /\ Asked(r, "register")
        /\ Exists(email)
    BY <1>18
       DEF IInv, Control, AccountsOK, AccountsKnown, UserKnown, Exists,
           Verified, Asked, RegisterLabels, IssuePlaceholderToken,
           CreatePasswordResetToken, Email
  <2>2. ASSUME passwordResetTokens' = [passwordResetTokens EXCEPT ![email] = PlaceholderToken(r)],
               pc'[r] = "emitRegistered",
               UNCHANGED <<input, now, users>>
        PROVE  PasswordResetTokenOK(email)'
    BY <2>1, <2>2
       DEF IInv, TypeOK, PasswordResetTokenOK, Asked, Drawn, Exists, Verified,
           BeforeIssue, Expired, PlaceholderToken, Email
  <2>3. \/ UNCHANGED passwordResetTokens
        \/ /\ passwordResetTokens' = [passwordResetTokens EXCEPT ![email] = PlaceholderToken(r)]
           /\ pc'[r] = "emitRegistered"
           /\ UNCHANGED <<input, now, users>>
    BY <1>18 DEF IInv, TypeOK, IssuePlaceholderToken, CreatePasswordResetToken, Goto, Email, accounts
  <2>4. \A e \in Emails : PasswordResetTokenOK(e)'
    BY <1>e, <2>2, <2>3 DEF IInv, TypeOK, Email
  <2> QED
    BY <1>18, <1>d, <2>4 DEF TokensOK, IssuePlaceholderToken, CreatePasswordResetToken
<1>19. ASSUME NEW r \in Requests, EmitUserRegistered(r) PROVE TokensOK'
  BY <1>19, <1>f DEF EmitUserRegistered, EmitAndAnswer, tokens
<1>20. ASSUME NEW r \in Requests, FindRegistrant(r) PROVE TokensOK'
  BY <1>20, <1>f DEF FindRegistrant, tokens
<1>21. ASSUME NEW r \in Requests, VerifyUser(r) PROVE TokensOK'
  BY <1>21, <1>f DEF VerifyUser, SaveUser, tokens
<1>22. ASSUME NEW r \in Requests, SpendRegistrationToken(r) PROVE TokensOK'
  <2>1. ASSUME NEW e \in Emails
        PROVE  RegistrationTokenOK(e)'
    <3>1. \/ registrationTokens'[e] = registrationTokens[e]
          \/ /\ registrationTokens[e] # None
             /\ registrationTokens'[e] =
                  [registrationTokens[e] EXCEPT !.expiryDate = now]
    BY <1>22, <2>1
       DEF IInv, TypeOK, SpendRegistrationToken, Spend, Stored, SpentExpiry
    <3>2. CASE registrationTokens'[e] = registrationTokens[e]
      BY <3>2, <1>d
    <3>3. CASE /\ registrationTokens[e] # None
               /\ registrationTokens'[e] =
                    [registrationTokens[e] EXCEPT !.expiryDate = now]
      BY <1>a, <1>c, <1>22, <3>3
         DEF IInv, TypeOK, TokensOK, RegistrationTokenOK, Token, Grows, Asked,
             SpendRegistrationToken
    <3> QED
      BY <3>1, <3>2, <3>3
  <2> QED
    BY <1>22, <1>e, <2>1 DEF TokensOK, SpendRegistrationToken
<1>23. ASSUME NEW r \in Requests, DeleteResetToken(r) PROVE TokensOK'
  BY <1>23, <1>f DEF IInv, TypeOK, DeleteResetToken
<1>24. ASSUME NEW r \in Requests, CreateResetToken(r) PROVE TokensOK'
  <2> DEFINE email == input[r].email
  <2>1. /\ email \in Emails
        /\ input[r] # None
        /\ Asked(r, "reset")
        /\ Verified(email)
    BY <1>24
       DEF IInv, Control, AccountsOK, AccountsKnown, UserKnown, Exists,
           Verified, Asked, ResetLabels, CreateResetToken,
           CreatePasswordResetToken
  <2>2. ASSUME passwordResetTokens' = [passwordResetTokens EXCEPT ![email] = ResetToken(r)],
               pc'[r] = "emitReset",
               UNCHANGED <<input, now, users>>
        PROVE  PasswordResetTokenOK(email)'
    BY <2>1, <2>2
       DEF IInv, TypeOK, PasswordResetTokenOK, Asked, Drawn, Exists, Verified,
           BeforeIssue, Expired, ResetToken
  <2>3. \/ UNCHANGED passwordResetTokens
        \/ /\ passwordResetTokens' = [passwordResetTokens EXCEPT ![email] = ResetToken(r)]
           /\ pc'[r] = "emitReset"
           /\ UNCHANGED <<input, now, users>>
    BY <1>24 DEF IInv, TypeOK, CreateResetToken, CreatePasswordResetToken, Goto, accounts
  <2>4. \A e \in Emails : PasswordResetTokenOK(e)'
    BY <1>e, <2>2, <2>3 DEF IInv, TypeOK
  <2> QED
    BY <1>24, <1>d, <2>4 DEF TokensOK, CreateResetToken, CreatePasswordResetToken
<1>25. ASSUME NEW r \in Requests, EmitPasswordResetAttempt(r) PROVE TokensOK'
  BY <1>25, <1>f DEF EmitPasswordResetAttempt, EmitAndAnswer, tokens
<1>26. ASSUME NEW r \in Requests, FindResetUser(r) PROVE TokensOK'
  BY <1>26, <1>f DEF FindResetUser, tokens
<1>27. ASSUME NEW r \in Requests, ReplacePassword(r) PROVE TokensOK'
  BY <1>27, <1>f DEF ReplacePassword, SaveUser, tokens
<1>28. ASSUME NEW r \in Requests, SpendResetToken(r) PROVE TokensOK'
  <2>1. ASSUME NEW e \in Emails
        PROVE  PasswordResetTokenOK(e)'
    <3>1. \/ passwordResetTokens'[e] = passwordResetTokens[e]
          \/ /\ passwordResetTokens[e] # None
             /\ passwordResetTokens'[e] =
                  [passwordResetTokens[e] EXCEPT !.expiryDate = now]
    BY <1>28, <2>1
       DEF IInv, TypeOK, SpendResetToken, Spend, Stored, SpentExpiry
    <3>2. CASE passwordResetTokens'[e] = passwordResetTokens[e]
      BY <3>2, <1>e
    <3>3. CASE /\ passwordResetTokens[e] # None
               /\ passwordResetTokens'[e] =
                    [passwordResetTokens[e] EXCEPT !.expiryDate = now]
      BY <1>a, <1>c, <1>28, <3>3
         DEF IInv, TypeOK, TokensOK, PasswordResetTokenOK, Token, Grows, Asked,
             Expired, SpendResetToken
    <3> QED
      BY <3>1, <3>2, <3>3
  <2> QED
    BY <1>28, <1>d, <2>1 DEF TokensOK, SpendResetToken
<1>29. ASSUME NEW r \in Requests, LinkGoogleId(r) PROVE TokensOK'
  BY <1>29, <1>f DEF LinkGoogleId, tokens
<1>30. ASSUME NEW r \in Requests, CreateGoogleProfile(r) PROVE TokensOK'
  BY <1>30, <1>f DEF CreateGoogleProfile, CreateUserProfile, tokens
<1>31. ASSUME NEW r \in Requests, CreateGoogleUser(r) PROVE TokensOK'
  BY <1>31, <1>f DEF CreateGoogleUser, UniqueUser, CreateUser, tokens
<1>32. ASSUME NEW r \in Requests, Abort(r) PROVE TokensOK'
  BY <1>32, <1>f DEF Abort, tokens
<1>33. ASSUME NEW m \in mailQueue, SendMail(m) PROVE TokensOK'
  BY <1>33, <1>f DEF SendMail, tokens
<1>34. ASSUME NEW m \in mailQueue, MailRefused(m) PROVE TokensOK'
  BY <1>34, <1>f DEF MailRefused, tokens
<1>35. CASE Crash
  BY <1>35, <1>f DEF Crash, tokens
<1>36. CASE Tick
  BY <1>36, <1>f DEF Tick, tokens
<1>37. CASE Finished
  BY <1>37, <1>f DEF Finished, vars, tokens
<1>38. CASE UNCHANGED vars
  BY <1>38, <1>f DEF vars, tokens
<1>39. QED
  BY <1>1, <1>2, <1>3, <1>4, <1>5, <1>6, <1>7, <1>8, <1>9, <1>10, <1>11, <1>12,
     <1>13, <1>14, <1>15, <1>16, <1>17, <1>18, <1>19, <1>20, <1>21, <1>22,
     <1>23, <1>24, <1>25, <1>26, <1>27, <1>28, <1>29, <1>30, <1>31, <1>32,
     <1>33, <1>34, <1>35, <1>36, <1>37, <1>38
     DEF Next, Arrival, HandlerStep, RegistrationStep, PasswordStep, GoogleStep

\* E-mails keep going to the address of the request behind them, and a
\* confirmation keeps holding the token its link was sent for.
LEMMA LinksPreserved ==
  IInv /\ [Next]_vars => LinksOK'
PROOF
<1> SUFFICES ASSUME IInv, [Next]_vars PROVE LinksOK'
  OBVIOUS
<1>a. Advances /\ Grows
  BY StepAdvances, StepGrows
<1>b. Control' /\ TypeOK'
  BY ControlPreserved, TypingPreserved
<1>c. ASSUME mailQueue' \cup mailbox' \subseteq mailQueue \cup mailbox
      PROVE  MailsOK'
  BY <1>a, <1>c
     DEF IInv, TypeOK, LinksOK, MailsOK, Mail, Asked, Ended, Advances
<1>d. ASSUME NEW q \in Requests, input[q] # None,
             pc'[q] \in ConfirmRegisterLabels \cup ConfirmResetLabels =>
               /\ pc[q] \in ConfirmRegisterLabels \cup ConfirmResetLabels
               /\ held'[q] = held[q]
      PROVE  LinkOK(q)'
  <2>1. input'[q] = input[q]
    BY <1>a, <1>d DEF Advances
  <2>2. input[q] \in Input
    BY <1>d DEF IInv, TypeOK
  <2>3. ASSUME input[q].value # None,
               Asked(q, "confirmRegister") \/ Asked(q, "confirmReset")
        PROVE  input'[input[q].value] = input[input[q].value]
    BY <1>a, <1>d, <2>2, <2>3
       DEF IInv, LinksOK, LinkOK, FollowsLink, Asked, Advances, Input
  <2>4. /\ FollowsLink(q, "confirmRegister", "register")'
        /\ FollowsLink(q, "confirmReset", "reset")'
    BY <1>a, <1>d, <2>1, <2>3
       DEF IInv, LinksOK, LinkOK, FollowsLink, Asked, Mailed, Grows
  <2>5. ASSUME pc'[q] \in ConfirmRegisterLabels \cup ConfirmResetLabels
        PROVE  /\ input[q].value # None
               /\ held'[q].email = input'[input[q].value].email
    BY <1>d, <2>3, <2>5 DEF IInv, Control, LinksOK, LinkOK
  <2> QED
    BY <2>1, <2>4, <2>5 DEF LinkOK
<1>e. ASSUME NEW q \in Requests, input[q] = None, pc'[q] = pc[q]
      PROVE  LinkOK(q)'
  BY <1>b, <1>e
     DEF IInv, Control, LinkOK, FollowsLink, Asked, ConfirmRegisterLabels,
         ConfirmResetLabels
<1>1. ASSUME NEW r \in Requests, RegisterUser(r) PROVE LinksOK'
  BY <1>1, <1>c, <1>d, <1>e
     DEF IInv, TypeOK, Control, LinksOK, ConfirmRegisterLabels,
         ConfirmResetLabels, LinkOK, FollowsLink, Asked, RegisterUser,
         HandleExistingUser, Arrives, mail
<1>2. ASSUME NEW r \in Requests, RefuseTerms(r) PROVE LinksOK'
  BY <1>2, <1>c, <1>d, <1>e
     DEF IInv, TypeOK, Control, LinksOK, ConfirmRegisterLabels,
         ConfirmResetLabels, LinkOK, FollowsLink, Asked, RefuseTerms, Arrives,
         mail
<1>3. ASSUME NEW r \in Requests, ConfirmRegistration(r) PROVE LinksOK'
  <2>1. \A q \in Requests \ {r} : LinkOK(q)'
    BY <1>3, <1>d, <1>e DEF IInv, TypeOK, Control, ConfirmRegistration, Arrives
  <2>2. MailsOK'
    BY <1>3, <1>c DEF ConfirmRegistration, mail
  <2>3. PICK value \in Links("register") \cup {None} :
          \/ \E e \in Holders(registrationTokens, value) :
               /\ Arrives(r, "confirmRegister", None, None, value,
                          "findRegistrant")
               /\ held' = [held EXCEPT ![r] = Held(registrationTokens, e)]
          \/ pc'[r] # "findRegistrant"
             /\ \E next \in {"400", "500"} :
                  Arrives(r, "confirmRegister", None, None, value, next)
    BY <1>3 DEF ConfirmRegistration, IInv, TypeOK, Arrives
  <2>4. /\ input'[r] = [op |-> "confirmRegister", email |-> None,
                        googleId |-> None, value |-> value]
        /\ input[r] = None
        /\ \A q \in Requests : q # r => input'[q] = input[q]
        /\ pc'[r] \in {"findRegistrant", "400", "500"}
    BY <2>3 DEF IInv, TypeOK, Control, Arrives
  <2>5. ASSUME value # None
        PROVE  /\ value # r
               /\ value \in Requests
               /\ Asked(value, "register")
               /\ Mailed("register", input[value].email, value)
    <3>1. PICK m \in mailbox : m.kind = "register" /\ m.value = value
      BY <2>3, <2>5 DEF Links
    <3>2. /\ m \in Mail
          /\ m = [kind |-> m.kind, to |-> m.to, value |-> m.value]
      BY <3>1 DEF IInv, TypeOK, Mail
    <3> QED
      BY <2>4, <3>1, <3>2
         DEF IInv, LinksOK, MailsOK, Mail, Mailed, Asked
  <2>6. FollowsLink(r, "confirmRegister", "register")'
    BY <1>3, <2>4, <2>5 DEF FollowsLink, Asked, Mailed, ConfirmRegistration, mail
  <2>7. ASSUME pc'[r] = "findRegistrant"
        PROVE  /\ value # None
               /\ held'[r].email = input[value].email
    <3>1. PICK e \in Holders(registrationTokens, value) :
            held'[r] = Held(registrationTokens, e)
      BY <2>3, <2>7 DEF IInv, TypeOK
    <3> QED
      BY <3>1, NoneAssumption
         DEF IInv, TypeOK, TokensOK, RegistrationTokenOK, Drawn, Holders, Held, Stored,
             Token
  <2>8. LinkOK(r)'
    BY <1>b, <2>4, <2>5, <2>6, <2>7
       DEF LinkOK, FollowsLink, Asked, ConfirmRegisterLabels,
           ConfirmResetLabels
  <2> QED
    BY <2>1, <2>2, <2>8 DEF LinksOK
<1>4. ASSUME NEW r \in Requests, ResetPassword(r) PROVE LinksOK'
  BY <1>4, <1>c, <1>d, <1>e
     DEF IInv, TypeOK, Control, LinksOK, ConfirmRegisterLabels,
         ConfirmResetLabels, LinkOK, FollowsLink, Asked, ResetPassword,
         Arrives, mail
<1>5. ASSUME NEW r \in Requests, ConfirmPasswordReset(r) PROVE LinksOK'
  <2>1. \A q \in Requests \ {r} : LinkOK(q)'
    BY <1>5, <1>d, <1>e DEF IInv, TypeOK, Control, ConfirmPasswordReset, Arrives
  <2>2. MailsOK'
    BY <1>5, <1>c DEF ConfirmPasswordReset, mail
  <2>3. PICK value \in Links("reset") \cup {None} :
          \/ \E e \in Holders(passwordResetTokens, value) :
               /\ Arrives(r, "confirmReset", None, None, value,
                          "findResetUser")
               /\ held' = [held EXCEPT ![r] = Held(passwordResetTokens, e)]
          \/ pc'[r] # "findResetUser"
             /\ \E next \in {"400", "500"} :
                  Arrives(r, "confirmReset", None, None, value, next)
    BY <1>5 DEF ConfirmPasswordReset, IInv, TypeOK, Arrives
  <2>4. /\ input'[r] = [op |-> "confirmReset", email |-> None,
                        googleId |-> None, value |-> value]
        /\ input[r] = None
        /\ \A q \in Requests : q # r => input'[q] = input[q]
        /\ pc'[r] \in {"findResetUser", "400", "500"}
    BY <2>3 DEF IInv, TypeOK, Control, Arrives
  <2>5. ASSUME value # None
        PROVE  /\ value # r
               /\ value \in Requests
               /\ Asked(value, "reset")
               /\ Mailed("reset", input[value].email, value)
    <3>1. PICK m \in mailbox : m.kind = "reset" /\ m.value = value
      BY <2>3, <2>5 DEF Links
    <3>2. /\ m \in Mail
          /\ m = [kind |-> m.kind, to |-> m.to, value |-> m.value]
      BY <3>1 DEF IInv, TypeOK, Mail
    <3> QED
      BY <2>4, <3>1, <3>2
         DEF IInv, LinksOK, MailsOK, Mail, Mailed, Asked
  <2>6. FollowsLink(r, "confirmReset", "reset")'
    BY <1>5, <2>4, <2>5 DEF FollowsLink, Asked, Mailed, ConfirmPasswordReset, mail
  <2>7. ASSUME pc'[r] = "findResetUser"
        PROVE  /\ value # None
               /\ held'[r].email = input[value].email
    <3>1. PICK e \in Holders(passwordResetTokens, value) :
            held'[r] = Held(passwordResetTokens, e)
      BY <2>3, <2>7 DEF IInv, TypeOK
    <3> QED
      BY <3>1, NoneAssumption
         DEF IInv, TypeOK, TokensOK, PasswordResetTokenOK, Drawn, Holders, Held, Stored,
             Token
  <2>8. LinkOK(r)'
    BY <1>b, <2>4, <2>5, <2>6, <2>7
       DEF LinkOK, FollowsLink, Asked, ConfirmRegisterLabels,
           ConfirmResetLabels
  <2> QED
    BY <2>1, <2>2, <2>8 DEF LinksOK
<1>6. ASSUME NEW r \in Requests, LoginWithGoogle(r) PROVE LinksOK'
  BY <1>6, <1>c, <1>d, <1>e
     DEF IInv, TypeOK, Control, LinksOK, ConfirmRegisterLabels,
         ConfirmResetLabels, LinkOK, FollowsLink, Asked, LoginWithGoogle,
         GoogleNext, Arrives, mail
<1>7. ASSUME NEW r \in Requests, LoginWithoutEmail(r) PROVE LinksOK'
  BY <1>7, <1>c, <1>d, <1>e
     DEF IInv, TypeOK, Control, LinksOK, ConfirmRegisterLabels,
         ConfirmResetLabels, LinkOK, FollowsLink, Asked, LoginWithoutEmail,
         Arrives, mail
<1>8. ASSUME NEW r \in Requests, ClearRegistrationToken(r) PROVE LinksOK'
  BY <1>8, <1>c, <1>d, <1>e
     DEF IInv, TypeOK, Control, LinksOK, ConfirmRegisterLabels,
         ConfirmResetLabels, ClearRegistrationToken, DeleteRegistrationToken,
         Goto, mail
<1>9. ASSUME NEW r \in Requests, ClearPasswordToken(r) PROVE LinksOK'
  BY <1>9, <1>c, <1>d, <1>e
     DEF IInv, TypeOK, Control, LinksOK, ConfirmRegisterLabels,
         ConfirmResetLabels, ClearPasswordToken, DeletePasswordResetToken,
         Goto, mail
<1>10. ASSUME NEW r \in Requests, FindRegistered(r) PROVE LinksOK'
  BY <1>10, <1>c, <1>d, <1>e
     DEF IInv, TypeOK, Control, LinksOK, ConfirmRegisterLabels,
         ConfirmResetLabels, FindRegistered, Goto, mail
<1>11. ASSUME NEW r \in Requests, UpdateProfile(r) PROVE LinksOK'
  BY <1>11, <1>c, <1>d, <1>e
     DEF IInv, TypeOK, Control, LinksOK, ConfirmRegisterLabels,
         ConfirmResetLabels, UpdateProfile, Goto, mail
<1>12. ASSUME NEW r \in Requests, SavePassword(r) PROVE LinksOK'
  BY <1>12, <1>c, <1>d, <1>e
     DEF IInv, TypeOK, Control, LinksOK, ConfirmRegisterLabels,
         ConfirmResetLabels, SavePassword, SaveUser, Goto, mail
<1>13. ASSUME NEW r \in Requests, CreateProfile(r) PROVE LinksOK'
  BY <1>13, <1>c, <1>d, <1>e
     DEF IInv, TypeOK, Control, LinksOK, ConfirmRegisterLabels,
         ConfirmResetLabels, CreateProfile, CreateUserProfile, Goto, Answer,
         mail
<1>14. ASSUME NEW r \in Requests, CreateRegisteredUser(r) PROVE LinksOK'
  BY <1>14, <1>c, <1>d, <1>e
     DEF IInv, TypeOK, Control, LinksOK, ConfirmRegisterLabels,
         ConfirmResetLabels, CreateRegisteredUser, CreateUser, Goto, Answer,
         UniqueUser, mail
<1>15. ASSUME NEW r \in Requests, PurgeRegistrationToken(r) PROVE LinksOK'
  BY <1>15, <1>c, <1>d, <1>e
     DEF IInv, TypeOK, Control, LinksOK, ConfirmRegisterLabels,
         ConfirmResetLabels, PurgeRegistrationToken, DeleteRegistrationToken,
         Goto, mail
<1>16. ASSUME NEW r \in Requests, PurgePasswordToken(r) PROVE LinksOK'
  BY <1>16, <1>c, <1>d, <1>e
     DEF IInv, TypeOK, Control, LinksOK, ConfirmRegisterLabels,
         ConfirmResetLabels, PurgePasswordToken, DeletePasswordResetToken,
         Goto, mail
<1>17. ASSUME NEW r \in Requests, IssueRegistrationToken(r) PROVE LinksOK'
  BY <1>17, <1>c, <1>d, <1>e
     DEF IInv, TypeOK, Control, LinksOK, ConfirmRegisterLabels,
         ConfirmResetLabels, IssueRegistrationToken, CreateRegistrationToken,
         Goto, Answer, mail
<1>18. ASSUME NEW r \in Requests, IssuePlaceholderToken(r) PROVE LinksOK'
  BY <1>18, <1>c, <1>d, <1>e
     DEF IInv, TypeOK, Control, LinksOK, ConfirmRegisterLabels,
         ConfirmResetLabels, IssuePlaceholderToken, CreatePasswordResetToken,
         Goto, Answer, mail
<1>19. ASSUME NEW r \in Requests, EmitUserRegistered(r) PROVE LinksOK'
  <2>1. \A q \in Requests : LinkOK(q)'
    BY <1>19, <1>d, <1>e
       DEF IInv, TypeOK, Control, RegisterLabels, ConfirmRegisterLabels,
           ConfirmResetLabels, EmitUserRegistered, EmitAndAnswer, Answer
  <2>2. ASSUME NEW m \in mailQueue' \cup mailbox',
               m = RegisterMail(r, Email(r))
        PROVE  Asked(m.value, m.kind)' /\ input'[m.value].email = m.to
               /\ Ended(m.value)'
    BY <1>19, <2>2
       DEF IInv, TypeOK, Control, RegisterLabels, Asked, Ended, Answers,
           RegisterMail, EmitUserRegistered, EmitAndAnswer, Answer, Email
  <2>3. ASSUME NEW m \in mailQueue \cup mailbox
        PROVE  Asked(m.value, m.kind)' /\ input'[m.value].email = m.to
               /\ Ended(m.value)'
    BY <1>a, <2>3
       DEF IInv, TypeOK, LinksOK, MailsOK, Mail, Asked, Ended, Advances
  <2> QED
    BY <1>19, <2>1, <2>2, <2>3
       DEF LinksOK, MailsOK, EmitUserRegistered, EmitAndAnswer
<1>20. ASSUME NEW r \in Requests, FindRegistrant(r) PROVE LinksOK'
  BY <1>20, <1>c, <1>d, <1>e
     DEF IInv, TypeOK, Control, LinksOK, ConfirmRegisterLabels,
         ConfirmResetLabels, FindRegistrant, Answer, Goto, mail
<1>21. ASSUME NEW r \in Requests, VerifyUser(r) PROVE LinksOK'
  BY <1>21, <1>c, <1>d, <1>e
     DEF IInv, TypeOK, Control, LinksOK, ConfirmRegisterLabels,
         ConfirmResetLabels, VerifyUser, SaveUser, Goto, mail
<1>22. ASSUME NEW r \in Requests, SpendRegistrationToken(r) PROVE LinksOK'
  BY <1>22, <1>c, <1>d, <1>e
     DEF IInv, TypeOK, Control, LinksOK, ConfirmRegisterLabels,
         ConfirmResetLabels, SpendRegistrationToken, SpendAnswer, Stored,
         Answer, mail
<1>23. ASSUME NEW r \in Requests, DeleteResetToken(r) PROVE LinksOK'
  BY <1>23, <1>c, <1>d, <1>e
     DEF IInv, TypeOK, Control, LinksOK, ConfirmRegisterLabels,
         ConfirmResetLabels, DeleteResetToken, mail
<1>24. ASSUME NEW r \in Requests, CreateResetToken(r) PROVE LinksOK'
  BY <1>24, <1>c, <1>d, <1>e
     DEF IInv, TypeOK, Control, LinksOK, ConfirmRegisterLabels,
         ConfirmResetLabels, CreateResetToken, CreatePasswordResetToken, Goto,
         Answer, mail
<1>25. ASSUME NEW r \in Requests, EmitPasswordResetAttempt(r) PROVE LinksOK'
  <2>1. \A q \in Requests : LinkOK(q)'
    BY <1>25, <1>d, <1>e
       DEF IInv, TypeOK, Control, ResetLabels, ConfirmRegisterLabels,
           ConfirmResetLabels, EmitPasswordResetAttempt, EmitAndAnswer, Answer
  <2>2. ASSUME NEW m \in mailQueue' \cup mailbox',
               m = ResetMail(r, input[r].email)
        PROVE  Asked(m.value, m.kind)' /\ input'[m.value].email = m.to
               /\ Ended(m.value)'
    BY <1>25, <2>2
       DEF IInv, TypeOK, Control, ResetLabels, Asked, Ended, Answers,
           ResetMail, EmitPasswordResetAttempt, EmitAndAnswer, Answer
  <2>3. ASSUME NEW m \in mailQueue \cup mailbox
        PROVE  Asked(m.value, m.kind)' /\ input'[m.value].email = m.to
               /\ Ended(m.value)'
    BY <1>a, <2>3
       DEF IInv, TypeOK, LinksOK, MailsOK, Mail, Asked, Ended, Advances
  <2> QED
    BY <1>25, <2>1, <2>2, <2>3
       DEF LinksOK, MailsOK, EmitPasswordResetAttempt, EmitAndAnswer
<1>26. ASSUME NEW r \in Requests, FindResetUser(r) PROVE LinksOK'
  BY <1>26, <1>c, <1>d, <1>e
     DEF IInv, TypeOK, Control, LinksOK, ConfirmRegisterLabels,
         ConfirmResetLabels, FindResetUser, Answer, Goto, mail
<1>27. ASSUME NEW r \in Requests, ReplacePassword(r) PROVE LinksOK'
  BY <1>27, <1>c, <1>d, <1>e
     DEF IInv, TypeOK, Control, LinksOK, ConfirmRegisterLabels,
         ConfirmResetLabels, ReplacePassword, SaveUser, Goto, mail
<1>28. ASSUME NEW r \in Requests, SpendResetToken(r) PROVE LinksOK'
  BY <1>28, <1>c, <1>d, <1>e
     DEF IInv, TypeOK, Control, LinksOK, ConfirmRegisterLabels,
         ConfirmResetLabels, SpendResetToken, SpendAnswer, Stored, Answer, mail
<1>29. ASSUME NEW r \in Requests, LinkGoogleId(r) PROVE LinksOK'
  BY <1>29, <1>c, <1>d, <1>e
     DEF IInv, TypeOK, Control, LinksOK, ConfirmRegisterLabels,
         ConfirmResetLabels, LinkGoogleId, Answer, mail
<1>30. ASSUME NEW r \in Requests, CreateGoogleProfile(r) PROVE LinksOK'
  BY <1>30, <1>c, <1>d, <1>e
     DEF IInv, TypeOK, Control, LinksOK, ConfirmRegisterLabels,
         ConfirmResetLabels, CreateGoogleProfile, CreateUserProfile, Goto,
         Answer, mail
<1>31. ASSUME NEW r \in Requests, CreateGoogleUser(r) PROVE LinksOK'
  BY <1>31, <1>c, <1>d, <1>e
     DEF IInv, TypeOK, Control, LinksOK, ConfirmRegisterLabels,
         ConfirmResetLabels, CreateGoogleUser, CreateUser, Goto, Answer,
         UniqueUser, mail
<1>32. ASSUME NEW r \in Requests, Abort(r) PROVE LinksOK'
  BY <1>32, <1>c, <1>d, <1>e
     DEF IInv, TypeOK, Control, LinksOK, ConfirmRegisterLabels,
         ConfirmResetLabels, Abort, Running, mail, Labels, RegisterLabels,
         ResetLabels, GoogleLabels
<1>33. ASSUME NEW m \in mailQueue, SendMail(m) PROVE LinksOK'
  BY <1>33, <1>c, <1>d, <1>e
     DEF IInv, TypeOK, Control, LinksOK, ConfirmRegisterLabels,
         ConfirmResetLabels, SendMail, requests
<1>34. ASSUME NEW m \in mailQueue, MailRefused(m) PROVE LinksOK'
  BY <1>34, <1>c, <1>d, <1>e
     DEF IInv, TypeOK, Control, LinksOK, ConfirmRegisterLabels,
         ConfirmResetLabels, MailRefused, requests
<1>35. CASE Crash
  BY <1>35, <1>c, <1>d, <1>e
     DEF IInv, TypeOK, Control, LinksOK, ConfirmRegisterLabels,
         ConfirmResetLabels, Labels, Crash, RegisterLabels, ResetLabels,
         GoogleLabels, Running
<1>36. CASE Tick
  BY <1>36, <1>c, <1>d, <1>e
     DEF IInv, TypeOK, Control, LinksOK, ConfirmRegisterLabels,
         ConfirmResetLabels, Tick, mail, requests
<1>37. CASE Finished
  BY <1>37, <1>c, <1>d, <1>e DEF LinksOK, Finished, vars, requests, mail
<1>38. CASE UNCHANGED vars
  BY <1>38, <1>c, <1>d, <1>e DEF LinksOK, vars, requests, mail
<1>39. QED
  BY <1>1, <1>2, <1>3, <1>4, <1>5, <1>6, <1>7, <1>8, <1>9, <1>10, <1>11, <1>12,
     <1>13, <1>14, <1>15, <1>16, <1>17, <1>18, <1>19, <1>20, <1>21, <1>22,
     <1>23, <1>24, <1>25, <1>26, <1>27, <1>28, <1>29, <1>30, <1>31, <1>32,
     <1>33, <1>34, <1>35, <1>36, <1>37, <1>38
     DEF Next, Arrival, HandlerStep, RegistrationStep, PasswordStep, GoogleStep

\* A step deletes a token, expires it, leaves it, or creates one that may be
\* live; only two awaits do that.
LEMMA StepIssues ==
  IInv /\ [Next]_vars => NothingIssued \/ \E r \in Requests : Issues(r)
PROOF
<1> SUFFICES ASSUME IInv, [Next]_vars
             PROVE  NothingIssued \/ \E r \in Requests : Issues(r)
  OBVIOUS
<1>a. now \in Nat /\ now <= now
  BY DEF IInv, TypeOK
<1>b. UNCHANGED tokens => NothingIssued
  BY DEF NothingIssued, NotIssued, tokens
<1>1. ASSUME NEW r \in Requests, RegisterUser(r) PROVE NothingIssued
  BY <1>1, <1>b DEF RegisterUser, tokens
<1>2. ASSUME NEW r \in Requests, RefuseTerms(r) PROVE NothingIssued
  BY <1>2, <1>b DEF RefuseTerms, tokens
<1>3. ASSUME NEW r \in Requests, ConfirmRegistration(r) PROVE NothingIssued
  BY <1>3, <1>b DEF ConfirmRegistration, tokens
<1>4. ASSUME NEW r \in Requests, ResetPassword(r) PROVE NothingIssued
  BY <1>4, <1>b DEF ResetPassword, tokens
<1>5. ASSUME NEW r \in Requests, ConfirmPasswordReset(r) PROVE NothingIssued
  BY <1>5, <1>b DEF ConfirmPasswordReset, tokens
<1>6. ASSUME NEW r \in Requests, LoginWithGoogle(r) PROVE NothingIssued
  BY <1>6, <1>b DEF LoginWithGoogle, tokens
<1>7. ASSUME NEW r \in Requests, LoginWithoutEmail(r) PROVE NothingIssued
  BY <1>7, <1>b DEF LoginWithoutEmail, tokens
<1>8. ASSUME NEW r \in Requests, ClearRegistrationToken(r) PROVE NothingIssued
  BY <1>8
     DEF IInv, TypeOK, NothingIssued, NotIssued, ClearRegistrationToken,
         DeleteRegistrationToken
<1>9. ASSUME NEW r \in Requests, ClearPasswordToken(r) PROVE NothingIssued
  BY <1>9
     DEF IInv, TypeOK, NothingIssued, NotIssued, ClearPasswordToken,
         DeletePasswordResetToken
<1>10. ASSUME NEW r \in Requests, FindRegistered(r) PROVE NothingIssued
  BY <1>10, <1>b DEF FindRegistered, tokens
<1>11. ASSUME NEW r \in Requests, UpdateProfile(r) PROVE NothingIssued
  BY <1>11, <1>b DEF UpdateProfile, tokens
<1>12. ASSUME NEW r \in Requests, SavePassword(r) PROVE NothingIssued
  BY <1>12, <1>b DEF SavePassword, SaveUser, tokens
<1>13. ASSUME NEW r \in Requests, CreateProfile(r) PROVE NothingIssued
  BY <1>13, <1>b DEF CreateProfile, CreateUserProfile, tokens
<1>14. ASSUME NEW r \in Requests, CreateRegisteredUser(r) PROVE NothingIssued
  BY <1>14, <1>b DEF CreateRegisteredUser, CreateUser, UniqueUser, tokens
<1>15. ASSUME NEW r \in Requests, PurgeRegistrationToken(r) PROVE NothingIssued
  BY <1>15
     DEF IInv, TypeOK, NothingIssued, NotIssued, PurgeRegistrationToken,
         DeleteRegistrationToken
<1>16. ASSUME NEW r \in Requests, PurgePasswordToken(r) PROVE NothingIssued
  BY <1>16
     DEF IInv, TypeOK, NothingIssued, NotIssued, PurgePasswordToken,
         DeletePasswordResetToken
<1>18. ASSUME NEW r \in Requests, IssuePlaceholderToken(r) PROVE NothingIssued
  BY <1>18
     DEF IInv, TypeOK, NothingIssued, NotIssued,
         IssuePlaceholderToken, CreatePasswordResetToken, PlaceholderToken
<1>19. ASSUME NEW r \in Requests, EmitUserRegistered(r) PROVE NothingIssued
  BY <1>19, <1>b DEF EmitUserRegistered, EmitAndAnswer, tokens
<1>20. ASSUME NEW r \in Requests, FindRegistrant(r) PROVE NothingIssued
  BY <1>20, <1>b DEF FindRegistrant, tokens
<1>21. ASSUME NEW r \in Requests, VerifyUser(r) PROVE NothingIssued
  BY <1>21, <1>b DEF VerifyUser, SaveUser, tokens
<1>22. ASSUME NEW r \in Requests, SpendRegistrationToken(r) PROVE NothingIssued
  BY <1>22, <1>a
     DEF IInv, TypeOK, Token, NothingIssued, NotIssued,
         SpendRegistrationToken, Spend, Stored, SpentExpiry
<1>23. ASSUME NEW r \in Requests, DeleteResetToken(r) PROVE NothingIssued
  BY <1>23 DEF IInv, TypeOK, NothingIssued, NotIssued, DeleteResetToken
<1>25. ASSUME NEW r \in Requests, EmitPasswordResetAttempt(r) PROVE NothingIssued
  BY <1>25, <1>b DEF EmitPasswordResetAttempt, EmitAndAnswer, tokens
<1>26. ASSUME NEW r \in Requests, FindResetUser(r) PROVE NothingIssued
  BY <1>26, <1>b DEF FindResetUser, tokens
<1>27. ASSUME NEW r \in Requests, ReplacePassword(r) PROVE NothingIssued
  BY <1>27, <1>b DEF ReplacePassword, SaveUser, tokens
<1>28. ASSUME NEW r \in Requests, SpendResetToken(r) PROVE NothingIssued
  BY <1>28, <1>a
     DEF IInv, TypeOK, Token, NothingIssued, NotIssued, SpendResetToken,
         Spend, Stored, SpentExpiry
<1>29. ASSUME NEW r \in Requests, LinkGoogleId(r) PROVE NothingIssued
  BY <1>29, <1>b DEF LinkGoogleId, tokens
<1>30. ASSUME NEW r \in Requests, CreateGoogleProfile(r) PROVE NothingIssued
  BY <1>30, <1>b DEF CreateGoogleProfile, CreateUserProfile, tokens
<1>31. ASSUME NEW r \in Requests, CreateGoogleUser(r) PROVE NothingIssued
  BY <1>31, <1>b DEF CreateGoogleUser, CreateUser, UniqueUser, tokens
<1>32. ASSUME NEW r \in Requests, Abort(r) PROVE NothingIssued
  BY <1>32, <1>b DEF Abort, tokens
<1>33. ASSUME NEW m \in mailQueue, SendMail(m) PROVE NothingIssued
  BY <1>33, <1>b DEF SendMail, tokens
<1>34. ASSUME NEW m \in mailQueue, MailRefused(m) PROVE NothingIssued
  BY <1>34, <1>b DEF MailRefused, tokens
<1>35. CASE Crash
  BY <1>35, <1>b DEF Crash, tokens
<1>36. CASE Tick
  BY <1>36, <1>b DEF Tick, tokens
<1>37. CASE Finished
  BY <1>37, <1>b DEF vars, Finished
<1>38. CASE UNCHANGED vars
  BY <1>38, <1>b DEF vars
<1>39. QED
  BY <1>1, <1>2, <1>3, <1>4, <1>5, <1>6, <1>7, <1>8, <1>9, <1>10, <1>11, <1>12,
     <1>13, <1>14, <1>15, <1>16, <1>18, <1>19, <1>20, <1>21, <1>22,
     <1>23, <1>25, <1>26, <1>27, <1>28, <1>29, <1>30, <1>31, <1>32,
     <1>33, <1>34, <1>35, <1>36, <1>37, <1>38
     DEF Next, Arrival, HandlerStep, RegistrationStep, PasswordStep, GoogleStep,
         Issues

\* What a step creates has a value no ended request had drawn.
LEMMA StepRevivesNothing ==
  IInv /\ [Next]_vars => NothingRevived
PROOF
<1> SUFFICES ASSUME IInv, [Next]_vars PROVE NothingRevived
  OBVIOUS
<1>1. CASE NothingIssued
  BY <1>1 DEF NothingIssued, NotIssued, NothingRevived, NotRevived
<1>2. ASSUME NEW r \in Requests, IssueRegistrationToken(r)
      PROVE  NothingRevived
  BY <1>2
     DEF IInv, TypeOK, NothingRevived, NotRevived, Ended, Answers,
         IssueRegistrationToken, CreateRegistrationToken, RegistrationToken
<1>3. ASSUME NEW r \in Requests, CreateResetToken(r) PROVE NothingRevived
  BY <1>3
     DEF IInv, TypeOK, NothingRevived, NotRevived, Ended, Answers,
         CreateResetToken, CreatePasswordResetToken, ResetToken
<1> QED
  BY <1>1, <1>2, <1>3, StepIssues DEF Issues

\* A link that was confirmed stays dead, and the save that confirms kills it.
LEMMA SpentPreserved ==
  IInv /\ [Next]_vars => SpentLinkIsDead'
PROOF
<1> SUFFICES ASSUME IInv, [Next]_vars,
                    NEW r \in Requests, pc'[r] = "SUCCESS"
             PROVE  /\ Asked(r, "confirmRegister")' =>
                         ~LiveIn(registrationTokens, input[r].value)'
                    /\ Asked(r, "confirmReset")' =>
                         ~LiveIn(passwordResetTokens, input[r].value)'
  BY DEF SpentLinkIsDead
<1>1. /\ Advances /\ Grows /\ NothingRevived
      /\ TypeOK' /\ Control' /\ TokensOK' /\ LinksOK'
  BY StepAdvances, StepGrows, StepRevivesNothing, TypingPreserved,
     ControlPreserved, TokensPreserved, LinksPreserved
<1>2. CASE pc[r] = "SUCCESS"
  <2>1. input'[r] = input[r]
    BY <1>1, <1>2 DEF IInv, Control, Advances
  <2>2. ASSUME Asked(r, "confirmRegister"), input[r].value # None
        PROVE  Ended(input[r].value)
    <3> DEFINE v == input[r].value
               m == [kind |-> "register", to |-> input[v].email, value |-> v]
    <3>1. m \in mailbox
      BY <2>2 DEF IInv, LinksOK, LinkOK, FollowsLink, Mailed
    <3> QED
      BY <3>1 DEF IInv, LinksOK, MailsOK
  <2>3. ASSUME Asked(r, "confirmReset"), input[r].value # None
        PROVE  Ended(input[r].value)
    <3> DEFINE v == input[r].value
               m == [kind |-> "reset", to |-> input[v].email, value |-> v]
    <3>1. m \in mailbox
      BY <2>3 DEF IInv, LinksOK, LinkOK, FollowsLink, Mailed
    <3> QED
      BY <3>1 DEF IInv, LinksOK, MailsOK
  <2>4. ASSUME Asked(r, "confirmRegister"), NEW e \in Emails,
               Stored(registrationTokens', e, input[r].value)
        PROVE  now' >= registrationTokens'[e].expiryDate
    BY <1>1, <1>2, <2>2, <2>4, NoneAssumption
       DEF IInv, TypeOK, Token, SpentLinkIsDead, LiveIn, Stored, Expired,
           Grows, NothingRevived, NotRevived
  <2>5. ASSUME Asked(r, "confirmReset"), NEW e \in Emails,
               Stored(passwordResetTokens', e, input[r].value)
        PROVE  now' >= passwordResetTokens'[e].expiryDate
    BY <1>1, <1>2, <2>3, <2>5, NoneAssumption
       DEF IInv, TypeOK, Token, SpentLinkIsDead, LiveIn, Stored, Expired,
           Grows, NothingRevived, NotRevived
  <2> QED
    BY <2>1, <2>4, <2>5 DEF Asked, LiveIn, Stored, Expired
<1>3. CASE SpendRegistrationToken(r)
  <2>1. /\ Asked(r, "confirmRegister")
        /\ input[r].value # None
        /\ held[r].email = input[input[r].value].email
        /\ input' = input
        /\ now' = now
    BY <1>3 DEF IInv, Control, LinksOK, LinkOK, ConfirmRegisterLabels,
                SpendRegistrationToken, Answer
  <2>2. ASSUME NEW e \in Emails,
               Stored(registrationTokens', e, input[r].value)
        PROVE  now' >= registrationTokens'[e].expiryDate
    <3>1. e = held[r].email
      BY <1>1, <2>1, <2>2
         DEF TokensOK, RegistrationTokenOK, Drawn, Stored
    <3>2. registrationTokens'[e].expiryDate = now
      BY <1>3, <2>2, <3>1
         DEF IInv, TypeOK, Token, SpendRegistrationToken, Spend, SpentExpiry,
             Stored
    <3> QED
      BY <2>1, <3>2 DEF IInv, TypeOK
  <2> QED
    BY <2>1, <2>2 DEF Asked, LiveIn, Stored, Expired
<1>4. CASE SpendResetToken(r)
  <2>1. /\ Asked(r, "confirmReset")
        /\ input[r].value # None
        /\ held[r].email = input[input[r].value].email
        /\ input' = input
        /\ now' = now
    BY <1>4 DEF IInv, Control, LinksOK, LinkOK, ConfirmResetLabels,
                SpendResetToken, Answer
  <2>2. ASSUME NEW e \in Emails,
               Stored(passwordResetTokens', e, input[r].value)
        PROVE  now' >= passwordResetTokens'[e].expiryDate
    <3>1. e = held[r].email
      BY <1>1, <2>1, <2>2
         DEF TokensOK, PasswordResetTokenOK, Drawn, Stored
    <3>2. passwordResetTokens'[e].expiryDate = now
      BY <1>4, <2>2, <3>1
         DEF IInv, TypeOK, Token, SpendResetToken, Spend, SpentExpiry, Stored
    <3> QED
      BY <2>1, <3>2 DEF IInv, TypeOK
  <2> QED
    BY <2>1, <2>2 DEF Asked, LiveIn, Stored, Expired
<1> QED
  BY <1>1, <1>2, <1>3, <1>4 DEF Advances

\* A password is only ever written by a registration of its e-mail or through a
\* reset link mailed to it.
LEMMA ProvenancePreserved ==
  IInv /\ [Next]_vars => PasswordProvenance'
PROOF
<1> SUFFICES ASSUME IInv, [Next]_vars PROVE PasswordProvenance'
  OBVIOUS
<1>a. Advances /\ Grows
  BY StepAdvances, StepGrows
<1>b. ASSUME NEW e \in Emails, NEW p \in Requests, PasswordFrom(p, e)
      PROVE  PasswordFrom(p, e)'
  <2>1. input'[p] = input[p]
    BY <1>a, <1>b DEF PasswordFrom, Asked, Advances
  <2> QED
    BY <1>a, <1>b, <2>1 DEF PasswordFrom, Asked, Mailed, Grows
<1>c. ASSUME NEW e \in Emails, Exists(e), users'[e].password # None,
             users'[e].password = users[e].password
      PROVE  PasswordFrom(users[e].password, e)'
  <2>1. /\ users[e].password \in Requests
        /\ PasswordFrom(users[e].password, e)
    BY <1>c DEF IInv, TypeOK, User, Exists, PasswordProvenance
  <2> QED
    BY <1>b, <1>c, <2>1 DEF PasswordFrom, Asked, Mailed
<1>d. ASSUME UNCHANGED users
      PROVE  PasswordProvenance'
  BY <1>c, <1>d DEF PasswordProvenance, Exists
<1>1. ASSUME NEW r \in Requests, RegisterUser(r) PROVE PasswordProvenance'
  BY <1>1, <1>d DEF RegisterUser, accounts
<1>2. ASSUME NEW r \in Requests, RefuseTerms(r) PROVE PasswordProvenance'
  BY <1>2, <1>d DEF RefuseTerms, accounts
<1>3. ASSUME NEW r \in Requests, ConfirmRegistration(r) PROVE PasswordProvenance'
  BY <1>3, <1>d DEF ConfirmRegistration, accounts
<1>4. ASSUME NEW r \in Requests, ResetPassword(r) PROVE PasswordProvenance'
  BY <1>4, <1>d DEF ResetPassword, accounts
<1>5. ASSUME NEW r \in Requests, ConfirmPasswordReset(r) PROVE PasswordProvenance'
  BY <1>5, <1>d DEF ConfirmPasswordReset, accounts
<1>6. ASSUME NEW r \in Requests, LoginWithGoogle(r) PROVE PasswordProvenance'
  BY <1>6, <1>d DEF LoginWithGoogle, accounts
<1>7. ASSUME NEW r \in Requests, LoginWithoutEmail(r) PROVE PasswordProvenance'
  BY <1>7, <1>d DEF LoginWithoutEmail, accounts
<1>8. ASSUME NEW r \in Requests, ClearRegistrationToken(r) PROVE PasswordProvenance'
  BY <1>8, <1>d DEF ClearRegistrationToken, DeleteRegistrationToken, accounts
<1>9. ASSUME NEW r \in Requests, ClearPasswordToken(r) PROVE PasswordProvenance'
  BY <1>9, <1>d DEF ClearPasswordToken, DeletePasswordResetToken, accounts
<1>10. ASSUME NEW r \in Requests, FindRegistered(r) PROVE PasswordProvenance'
  BY <1>10, <1>d DEF FindRegistered, accounts
<1>11. ASSUME NEW r \in Requests, UpdateProfile(r) PROVE PasswordProvenance'
  BY <1>11, <1>d DEF UpdateProfile
<1>12. ASSUME NEW r \in Requests, SavePassword(r) PROVE PasswordProvenance'
  <2> DEFINE email == Email(r)
             saved == [users[email] EXCEPT !.password = r]
  <2>1. email \in Emails /\ saved.password = r
    BY <1>12, SavedUserExists DEF SavePassword, SaveUser, Email, User
  <2>2. PasswordFrom(r, email)
    BY <1>12
       DEF IInv, Control, RegisterLabels, PasswordFrom, Email, SavePassword,
           SaveUser
  <2>3. users' = users \/ users' = [users EXCEPT ![email] = saved]
    BY <1>12 DEF SavePassword, SaveUser
  <2>4. ASSUME NEW e \in Emails, e = email
        PROVE  PasswordFrom(r, e)'
    BY <1>b, <2>2, <2>4
  <2>5. ASSUME NEW e \in Emails, Exists(e)', users'[e].password # None
        PROVE  PasswordFrom(users[e].password, e)'
    BY <1>c, <1>d, <2>1, <2>2, <2>3, <2>4, <2>5
       DEF IInv, TypeOK, PasswordProvenance, Exists
  <2> QED
    BY <2>5 DEF PasswordProvenance
<1>13. ASSUME NEW r \in Requests, CreateProfile(r) PROVE PasswordProvenance'
  BY <1>13, <1>d DEF CreateProfile, CreateUserProfile
<1>14. ASSUME NEW r \in Requests, CreateRegisteredUser(r) PROVE PasswordProvenance'
  <2> DEFINE email == Email(r)
             saved == RegisteredUser(r)
  <2>1. email \in Emails /\ saved.password = r
    BY <1>14
       DEF IInv, Control, RegisterLabels, CreateRegisteredUser, CreateUser,
           Email, RegisteredUser
  <2>2. PasswordFrom(r, email)
    BY <1>14
       DEF IInv, Control, RegisterLabels, PasswordFrom, Email,
           CreateRegisteredUser, CreateUser
  <2>3. users' = users \/ users' = [users EXCEPT ![email] = saved]
    BY <1>14 DEF CreateRegisteredUser, CreateUser
  <2>4. ASSUME NEW e \in Emails, e = email
        PROVE  PasswordFrom(r, e)'
    BY <1>b, <2>2, <2>4
  <2>5. ASSUME NEW e \in Emails, Exists(e)', users'[e].password # None
        PROVE  PasswordFrom(users[e].password, e)'
    BY <1>c, <1>d, <2>1, <2>2, <2>3, <2>4, <2>5
       DEF IInv, TypeOK, PasswordProvenance, Exists
  <2> QED
    BY <2>5 DEF PasswordProvenance
<1>15. ASSUME NEW r \in Requests, PurgeRegistrationToken(r) PROVE PasswordProvenance'
  BY <1>15, <1>d DEF PurgeRegistrationToken, DeleteRegistrationToken, accounts
<1>16. ASSUME NEW r \in Requests, PurgePasswordToken(r) PROVE PasswordProvenance'
  BY <1>16, <1>d DEF PurgePasswordToken, DeletePasswordResetToken, accounts
<1>17. ASSUME NEW r \in Requests, IssueRegistrationToken(r) PROVE PasswordProvenance'
  BY <1>17, <1>d DEF IssueRegistrationToken, CreateRegistrationToken, accounts
<1>18. ASSUME NEW r \in Requests, IssuePlaceholderToken(r) PROVE PasswordProvenance'
  BY <1>18, <1>d DEF IssuePlaceholderToken, CreatePasswordResetToken, accounts
<1>19. ASSUME NEW r \in Requests, EmitUserRegistered(r) PROVE PasswordProvenance'
  BY <1>19, <1>d DEF EmitUserRegistered, EmitAndAnswer, accounts
<1>20. ASSUME NEW r \in Requests, FindRegistrant(r) PROVE PasswordProvenance'
  BY <1>20, <1>d DEF FindRegistrant, accounts
<1>21. ASSUME NEW r \in Requests, VerifyUser(r) PROVE PasswordProvenance'
  <2> DEFINE email == held[r].email
             saved == [users[email] EXCEPT !.isEmailVerified = TRUE]
  <2>1. email \in Emails /\ Exists(email) /\ users[email] \in User
    BY <1>21, SavedUserExists DEF VerifyUser, SaveUser
  <2>2. saved.password = users[email].password
    BY <2>1 DEF User
  <2>3. users' = users \/ users' = [users EXCEPT ![email] = saved]
    BY <1>21 DEF VerifyUser, SaveUser
  <2> QED
    BY <1>c, <2>1, <2>2, <2>3 DEF IInv, TypeOK, PasswordProvenance, Exists
<1>22. ASSUME NEW r \in Requests, SpendRegistrationToken(r) PROVE PasswordProvenance'
  BY <1>22, <1>d DEF SpendRegistrationToken, accounts
<1>23. ASSUME NEW r \in Requests, DeleteResetToken(r) PROVE PasswordProvenance'
  BY <1>23, <1>d DEF DeleteResetToken, accounts
<1>24. ASSUME NEW r \in Requests, CreateResetToken(r) PROVE PasswordProvenance'
  BY <1>24, <1>d DEF CreateResetToken, CreatePasswordResetToken, accounts
<1>25. ASSUME NEW r \in Requests, EmitPasswordResetAttempt(r) PROVE PasswordProvenance'
  BY <1>25, <1>d DEF EmitPasswordResetAttempt, EmitAndAnswer, accounts
<1>26. ASSUME NEW r \in Requests, FindResetUser(r) PROVE PasswordProvenance'
  BY <1>26, <1>d DEF FindResetUser, accounts
<1>27. ASSUME NEW r \in Requests, ReplacePassword(r) PROVE PasswordProvenance'
  <2> DEFINE email == held[r].email
             saved == [users[email] EXCEPT !.password = r]
  <2>1. email \in Emails /\ saved.password = r
    BY <1>27, SavedUserExists DEF ReplacePassword, SaveUser, User
  <2>2. PasswordFrom(r, email)
    BY <1>27
       DEF IInv, Control, LinksOK, LinkOK, FollowsLink, ConfirmResetLabels,
           PasswordFrom, ReplacePassword, SaveUser
  <2>3. users' = users \/ users' = [users EXCEPT ![email] = saved]
    BY <1>27 DEF ReplacePassword, SaveUser
  <2>4. ASSUME NEW e \in Emails, e = email
        PROVE  PasswordFrom(r, e)'
    BY <1>b, <2>2, <2>4
  <2>5. ASSUME NEW e \in Emails, Exists(e)', users'[e].password # None
        PROVE  PasswordFrom(users[e].password, e)'
    BY <1>c, <1>d, <2>1, <2>2, <2>3, <2>4, <2>5
       DEF IInv, TypeOK, PasswordProvenance, Exists
  <2> QED
    BY <2>5 DEF PasswordProvenance
<1>28. ASSUME NEW r \in Requests, SpendResetToken(r) PROVE PasswordProvenance'
  BY <1>28, <1>d DEF SpendResetToken, accounts
<1>29. ASSUME NEW r \in Requests, LinkGoogleId(r) PROVE PasswordProvenance'
  <2> DEFINE email == input[r].email
             saved == [users[email] EXCEPT !.googleId = input[r].googleId]
  <2>1. email \in Emails /\ Exists(email) /\ users[email] \in User
    BY <1>29, SavedUserExists DEF LinkGoogleId
  <2>2. saved.password = users[email].password
    BY <2>1 DEF User
  <2>3. users' = users \/ users' = [users EXCEPT ![email] = saved]
    BY <1>29 DEF LinkGoogleId
  <2> QED
    BY <1>c, <2>1, <2>2, <2>3 DEF IInv, TypeOK, PasswordProvenance, Exists
<1>30. ASSUME NEW r \in Requests, CreateGoogleProfile(r) PROVE PasswordProvenance'
  BY <1>30, <1>d DEF CreateGoogleProfile, CreateUserProfile
<1>31. ASSUME NEW r \in Requests, CreateGoogleUser(r) PROVE PasswordProvenance'
  <2> DEFINE email == input[r].email
             created == GoogleUser(input[r].googleId)
  <2>1. email \in Emails /\ created.password = None
    BY <1>31 DEF IInv, Control, GoogleLabels, CreateGoogleUser, CreateUser,
                 GoogleUser
  <2>2. users' = users \/ users' = [users EXCEPT ![email] = created]
    BY <1>31 DEF CreateGoogleUser, CreateUser
  <2> QED
    BY <1>c, <1>d, <2>1, <2>2 DEF IInv, TypeOK, PasswordProvenance, Exists
<1>32. ASSUME NEW r \in Requests, Abort(r) PROVE PasswordProvenance'
  BY <1>32, <1>d DEF Abort, accounts
<1>33. ASSUME NEW m \in mailQueue, SendMail(m) PROVE PasswordProvenance'
  BY <1>33, <1>d DEF SendMail, accounts
<1>34. ASSUME NEW m \in mailQueue, MailRefused(m) PROVE PasswordProvenance'
  BY <1>34, <1>d DEF MailRefused, accounts
<1>35. CASE Crash
  BY <1>35, <1>d DEF Crash, accounts
<1>36. CASE Tick
  BY <1>36, <1>d DEF Tick, accounts
<1>37. CASE Finished
  BY <1>37, <1>d DEF vars, accounts, Finished
<1>38. CASE UNCHANGED vars
  BY <1>38, <1>d DEF vars, accounts
<1>39. QED
  BY <1>1, <1>2, <1>3, <1>4, <1>5, <1>6, <1>7, <1>8, <1>9, <1>10, <1>11, <1>12,
     <1>13, <1>14, <1>15, <1>16, <1>17, <1>18, <1>19, <1>20, <1>21, <1>22,
     <1>23, <1>24, <1>25, <1>26, <1>27, <1>28, <1>29, <1>30, <1>31, <1>32,
     <1>33, <1>34, <1>35, <1>36, <1>37, <1>38
     DEF Next, Arrival, HandlerStep, RegistrationStep, PasswordStep, GoogleStep

-----------------------------------------------------------------------------

\* An empty database with no request satisfies the invariant.
LEMMA InitIInv == Init => IInv
PROOF
<1> SUFFICES ASSUME Init PROVE IInv
  OBVIOUS
<1>1. TypeOK
  BY DEF Init, TypeOK
<1>2. Control /\ LinksOK
  BY DEF Init, Control, LinksOK, MailsOK, LinkOK, FollowsLink, Asked,
         RegisterLabels, ResetLabels, GoogleLabels, ConfirmRegisterLabels,
         ConfirmResetLabels
<1>3. AccountsOK /\ TokensOK
  BY DEF Init, AccountsOK, AccountsKnown, UserHasProfile,
         GoogleUserIsVerified, VerifiedEmailIsProven, TokensOK,
         RegistrationTokenOK, PasswordResetTokenOK, UserKnown, Exists,
         Verified, ResetLabels
<1>4. SpentLinkIsDead /\ PasswordProvenance
  BY DEF Init, SpentLinkIsDead, PasswordProvenance, Exists
<1> QED
  BY <1>1, <1>2, <1>3, <1>4 DEF IInv

\* Every step of the system preserves the invariant.
LEMMA NextIInv == IInv /\ [Next]_vars => IInv'
BY TypingPreserved, ControlPreserved, AccountsPreserved, TokensPreserved,
   LinksPreserved, SpentPreserved, ProvenancePreserved DEF IInv

\* The invariant holds in every reachable state.
THEOREM Invariance == Spec => []IInv
BY InitIInv, NextIInv, PTL DEF Spec

\* Every variable keeps its type: every document a handler reads or writes has
\* the fields the code expects of it.
THEOREM Typing == Spec => []TypeOK
<1>1. IInv => TypeOK
  BY DEF IInv
<1> QED
  BY Invariance, <1>1, PTL

\* A stored token always has its user: the two errors "token exists with no
\* existing user" of registration.service.ts and password.service.ts are
\* unreachable, whatever fails or crashes between two writes.
THEOREM TokensHaveUser == Spec => []IssuedTokensHaveUser
<1>1. IInv => IssuedTokensHaveUser
  BY DEF IInv, TokensOK, RegistrationTokenOK, PasswordResetTokenOK,
         IssuedTokensHaveUser
<1> QED
  BY Invariance, <1>1, PTL

\* Every user has the profile its userProfile field points to, so
\* registerWithExistingGoogleUser never dereferences null.
THEOREM UsersHaveProfiles == Spec => []UserHasProfile
<1>1. IInv => UserHasProfile
  BY DEF IInv, AccountsOK
<1> QED
  BY Invariance, <1>1, PTL

\* A user with a googleId is verified: handleExistingUser never meets the state
\* it has no case for.
THEOREM GoogleUsersAreVerified == Spec => []GoogleUserIsVerified
<1>1. IInv => GoogleUserIsVerified
  BY DEF IInv, AccountsOK
<1> QED
  BY Invariance, <1>1, PTL

\* An account is verified only after a registration e-mail reached its address
\* or Google vouched for it.
THEOREM VerifiedEmailsAreProven == Spec => []VerifiedEmailIsProven
<1>1. IInv => VerifiedEmailIsProven
  BY DEF IInv, AccountsOK
<1> QED
  BY Invariance, <1>1, PTL

\* A password reset token that has not expired belongs to a verified user; the
\* placeholder token of a registration is never usable.
THEOREM LiveResetTokens == Spec => []LiveResetTokenIsForVerifiedUser
<1>1. IInv => LiveResetTokenIsForVerifiedUser
  BY DEF IInv, TokensOK, PasswordResetTokenOK,
         LiveResetTokenIsForVerifiedUser
<1> QED
  BY Invariance, <1>1, PTL

\* Once a confirmation has answered SUCCESS, its link never works again.
THEOREM SpentLinksAreDead == Spec => []SpentLinkIsDead
<1>1. IInv => SpentLinkIsDead
  BY DEF IInv
<1> QED
  BY Invariance, <1>1, PTL

\* A password comes from a registration of its e-mail or from a reset link
\* mailed to that e-mail.
THEOREM PasswordsHaveProvenance == Spec => []PasswordProvenance
<1>1. IInv => PasswordProvenance
  BY DEF IInv
<1> QED
  BY Invariance, <1>1, PTL

\* Users, profiles, verified e-mails, Google links and delivered e-mails are
\* never lost, in any step.
THEOREM NothingIsForgotten == Spec => [][Grows]_vars
<1>1. IInv /\ [Next]_vars => [Grows]_vars
  BY StepGrows
<1> QED
  BY Invariance, <1>1, PTL DEF Spec

=============================================================================
