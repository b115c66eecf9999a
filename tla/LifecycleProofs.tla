--------------------------- MODULE LifecycleProofs ---------------------------
(***************************************************************************)
(* What AuthSystem promises from one state to the next: accounts and links *)
(* follow their abstract life cycles, and a stranded profile is never      *)
(* claimed.  A state of the life cycle changes in few steps of the code,   *)
(* which the lemmas single out; every other step shows nothing, or only    *)
(* ends the life of links.                                                 *)
(*                                                                         *)
(* A registration that promised an e-mail leaves a registration token,     *)
(* however many others of that e-mail delete it meanwhile.  The argument:  *)
(* whoever deletes a token of a user is on a path that has no refusal left *)
(* before it creates one, unless a fault takes it off.                     *)
(*                                                                         *)
(* At the end: what was promised is mailed once all has settled without a  *)
(* fault, what the index on googleId admits, and that no token is read     *)
(* without its user.                                                       *)
(***************************************************************************)
EXTENDS AuthSystemProofs

\* The awaits that write a user document.
WritesUser(r) ==
  \/ CreateRegisteredUser(r) \/ SavePassword(r) \/ VerifyUser(r)
  \/ ReplacePassword(r) \/ LinkGoogleId(r) \/ CreateGoogleUser(r)

\* At most the user of one e-mail is written.
WritesOne ==
  /\ UNCHANGED <<input, mailbox>>
  /\ \E e \in Emails : \A d \in Emails \ {e} : users'[d] = users[d]

\* At most one e-mail is proven, and no user is written.
ProvesOne ==
  /\ users' = users
  /\ \/ Proven' = Proven
     \/ \E e \in Emails : Proven' = Proven \cup {e}

\* An arrival writes no user; a Google login proves the e-mail it is for.
LEMMA ArrivalProvesOne ==
  ASSUME IInv, NEW r \in Requests, Arrival(r)
  PROVE  ProvesOne
<1> USE DEF IInv, TypeOK, Control
<1>1. ASSUME input[r] = None, NEW op, NEW email, NEW g, NEW v, NEW next,
             Arrives(r, op, email, g, v, next),
             op # "google" \/ email \notin Emails,
             UNCHANGED <<users, mailbox>>
      PROVE  ProvesOne
  <2>1. \A q \in Requests, e \in Emails :
          (Asked(q, "google") /\ input[q].email = e)'
            <=> Asked(q, "google") /\ input[q].email = e
    BY <1>1 DEF Arrives, Asked
  <2> QED
    BY <1>1, <2>1 DEF ProvesOne, Proven
<1>2. input[r] = None
  BY DEF Arrival, RegisterUser, RefuseTerms, ConfirmRegistration, ResetPassword,
       ConfirmPasswordReset, LoginWithGoogle, LoginWithoutEmail, Arrives
<1>3. CASE RegisterUser(r) \/ RefuseTerms(r) \/ ResetPassword(r)
  BY <1>1, <1>2, <1>3
     DEF RegisterUser, RefuseTerms, ResetPassword, accounts, mail
<1>4. CASE ConfirmRegistration(r) \/ ConfirmPasswordReset(r)
  BY <1>1, <1>2, <1>4
     DEF ConfirmRegistration, ConfirmPasswordReset, accounts, mail
<1>5. CASE LoginWithoutEmail(r)
  BY <1>1, <1>2, <1>5, NoneAssumption DEF LoginWithoutEmail, accounts, mail
<1>6. CASE LoginWithGoogle(r)
  <2>1. PICK e \in Emails, g \in GoogleIds :
          Arrives(r, "google", e, g, None, GoogleNext(users[e], g))
    BY <1>6 DEF LoginWithGoogle
  <2>2. /\ \A q \in Requests \ {r} : input'[q] = input[q]
        /\ input'[r].op = "google" /\ input'[r].email = e
        /\ input'[r] \in Input
    BY <2>1, NoneAssumption DEF Arrives, Input, Routes
  <2>3. UNCHANGED <<users, mailbox>>
    BY <1>6 DEF LoginWithGoogle, accounts, mail
  <2>4. Proven' = Proven \cup {e}
    BY <1>2, <2>2, <2>3, NoneAssumption DEF Proven, Asked
  <2> QED
    BY <2>3, <2>4 DEF ProvesOne
<1> QED
  BY <1>3, <1>4, <1>5, <1>6 DEF Arrival

\* The other steps write at most one user, or prove at most one e-mail.
LEMMA StepWritesOrProves ==
  IInv /\ [Next]_vars =>
    \/ ProvesOne
    \/ \E r \in Requests : WritesUser(r) /\ WritesOne
<1> SUFFICES ASSUME IInv, [Next]_vars
             PROVE  \/ ProvesOne
                    \/ \E r \in Requests : WritesUser(r) /\ WritesOne
  OBVIOUS
<1>a. UNCHANGED <<users, input, mailbox>> => ProvesOne
  BY DEF ProvesOne, Proven, Asked
<1>1. ASSUME NEW r \in Requests, HandlerStep(r), ~WritesUser(r)
      PROVE  ProvesOne
  <2>1. CASE RegistrationStep(r)
    BY <1>1, <1>a, <2>1
       DEF RegistrationStep, WritesUser, ClearRegistrationToken,
           ClearPasswordToken, FindRegistered, UpdateProfile, CreateProfile,
           CreateUserProfile, PurgeRegistrationToken, PurgePasswordToken,
           DeleteRegistrationToken, DeletePasswordResetToken,
           IssueRegistrationToken, IssuePlaceholderToken,
           CreateRegistrationToken, CreatePasswordResetToken,
           EmitUserRegistered, EmitAndAnswer, FindRegistrant,
           SpendRegistrationToken, Goto, Answer, accounts, mail
  <2>2. CASE PasswordStep(r)
    BY <1>1, <1>a, <2>2
       DEF PasswordStep, WritesUser, DeleteResetToken, CreateResetToken,
           CreatePasswordResetToken, EmitPasswordResetAttempt, EmitAndAnswer,
           FindResetUser, SpendResetToken, Goto, Answer, accounts, mail
  <2>3. CASE GoogleStep(r)
    BY <1>1, <1>a, <2>3
       DEF GoogleStep, WritesUser, CreateGoogleProfile, CreateUserProfile,
           Goto, Answer, mail
  <2> QED
    BY <1>1, <2>1, <2>2, <2>3 DEF HandlerStep
<1>2. ASSUME NEW r \in Requests, WritesUser(r) PROVE WritesOne
  <2>1. UNCHANGED <<input, mailbox>>
    BY <1>2 DEF WritesUser, CreateRegisteredUser, CreateGoogleUser, CreateUser,
         SavePassword, VerifyUser, ReplacePassword, SaveUser, LinkGoogleId,
         Goto, Answer, mail
  <2>2. users \in [Emails -> User \cup {None}]
    BY DEF IInv, TypeOK
  <2>3. CASE VerifyUser(r) \/ ReplacePassword(r)
    <3>1. held[r].email \in Emails
      BY <2>3 DEF IInv, TypeOK, HeldToken, Control, VerifyUser,
           ReplacePassword, SaveUser, ConfirmRegisterLabels,
           ConfirmResetLabels
    <3>2. \A d \in Emails \ {held[r].email} : users'[d] = users[d]
      BY <2>2, <2>3, <3>1 DEF VerifyUser, ReplacePassword, SaveUser
    <3> QED
      BY <2>1, <3>1, <3>2 DEF WritesOne
  <2>4. CASE ~(VerifyUser(r) \/ ReplacePassword(r))
    <3>1. input[r].email \in Emails
      BY <1>2, <2>4 DEF IInv, Control, WritesUser, CreateRegisteredUser,
           CreateGoogleUser, CreateUser, SavePassword, SaveUser, LinkGoogleId,
           RegisterLabels, GoogleLabels
    <3>2. \A d \in Emails \ {input[r].email} : users'[d] = users[d]
      BY <1>2, <2>2, <2>4, <3>1
         DEF WritesUser, CreateRegisteredUser, CreateGoogleUser, CreateUser,
             SavePassword, SaveUser, LinkGoogleId, Email
    <3> QED
      BY <2>1, <3>1, <3>2 DEF WritesOne
  <2> QED
    BY <2>3, <2>4
<1>3. ASSUME NEW m \in mailQueue, SendMail(m) PROVE ProvesOne
  <2>1. /\ m.to \in Emails
        /\ mailbox' = mailbox \cup {m}
        /\ UNCHANGED <<users, input>>
    BY <1>3 DEF SendMail, IInv, TypeOK, Mail, accounts, requests
  <2>2. Proven' = Proven \/ Proven' = Proven \cup {m.to}
    BY <2>1 DEF Proven, Asked
  <2> QED
    BY <2>1, <2>2 DEF ProvesOne
<1>4. ASSUME NEW m \in mailQueue, MailRefused(m) PROVE ProvesOne
  BY <1>4, <1>a DEF MailRefused, accounts, requests
<1>5. ASSUME NEW r \in Requests, Abort(r) PROVE ProvesOne
  BY <1>5, <1>a DEF Abort, accounts, mail
<1>6. CASE Crash \/ Tick \/ Finished \/ UNCHANGED vars
  BY <1>6, <1>a DEF Crash, Tick, Finished, vars, accounts, requests, mail
<1> QED
  BY <1>1, <1>2, <1>3, <1>4, <1>5, <1>6, ArrivalProvesOne DEF Next

-----------------------------------------------------------------------------
\* A step creates or verifies one account, proves one e-mail, or shows nothing.
LEMMA StepOfAccounts ==
  IInv /\ IInv' /\ [Next]_vars => [Account!Next]_<<Stage, Proven>>
<1> SUFFICES ASSUME IInv, IInv', [Next]_vars
             PROVE  [Account!Next]_<<Stage, Proven>>
  OBVIOUS
<1>1. CASE ProvesOne
  <2>1. Stage' = Stage
    BY <1>1 DEF ProvesOne, Stage, Exists, Verified
  <2> QED
    BY <1>1, <2>1 DEF ProvesOne, Account!Next, Account!Prove
<1>2. CASE WritesOne
  <2>1. PICK e \in Emails : \A d \in Emails \ {e} : users'[d] = users[d]
    BY <1>2 DEF WritesOne
  <2>2. \A d \in Emails \ {e} : Stage'[d] = Stage[d]
    BY <2>1 DEF Stage, Exists, Verified
  <2>3. Stage \in [Emails -> {"absent", "unverified", "verified"}]
        /\ Stage' \in [Emails -> {"absent", "unverified", "verified"}]
    BY DEF Stage
  <2>4. Stage' = [Stage EXCEPT ![e] = Stage'[e]]
    BY <2>2, <2>3
  <2>5. Proven' = Proven
    BY <1>2 DEF WritesOne, Proven, Asked
  <2>6. CASE Stage'[e] = Stage[e]
    BY <2>3, <2>4, <2>5, <2>6
  <2>7. CASE Stage[e] # "verified" /\ Stage'[e] = "verified"
    <3>1. e \in Proven
      BY <2>5, <2>7 DEF Stage, IInv, AccountsOK, VerifiedEmailIsProven
    <3> QED
      BY <2>4, <2>5, <2>7, <3>1 DEF Account!Next, Account!Verify
  <2>8. CASE Stage[e] = "absent" /\ Stage'[e] = "unverified"
    BY <2>4, <2>5, <2>8 DEF Account!Next, Account!Create
  <2>9. \/ Stage'[e] = Stage[e]
        \/ Stage[e] # "verified" /\ Stage'[e] = "verified"
        \/ Stage[e] = "absent" /\ Stage'[e] = "unverified"
    BY StepGrows DEF Grows, Stage, Exists, Verified
  <2> QED
    BY <2>6, <2>7, <2>8, <2>9
<1> QED
  BY <1>1, <1>2, StepWritesOrProves

\* Accounts follow the abstract life cycle for any number of requests and
\* faults: created once, verified only when proven, never taken back.
THEOREM AccountsFollowLifecycle == Spec => ImplementsAccountLifecycle
<1>1. Init => Account!Init
  BY DEF Init, Account!Init, Stage, Proven, Exists, Verified, Asked
<1> QED
  BY <1>1, Invariance, StepOfAccounts, PTL
     DEF Spec, ImplementsAccountLifecycle, Account!Spec

-----------------------------------------------------------------------------
\* Links that become live in a step; LiveLink(v) is LinkState[v] = "live".
LiveLink(v) == LiveIn(registrationTokens, v) \/ LiveIn(passwordResetTokens, v)

\* A collection whose tokens are kept, deleted or expired shows no new link.
LEMMA NoLinkIsBorn ==
  ASSUME IInv, IInv', Grows, NothingIssued, NEW v \in Requests, LiveLink(v)'
  PROVE  LiveLink(v)
<1>1. now <= now' /\ now \in Nat /\ now' \in Nat
  BY DEF IInv, TypeOK, Grows
<1>2. ASSUME LiveIn(registrationTokens, v)' PROVE LiveIn(registrationTokens, v)
  <2>1. PICK e \in Emails :
          /\ Stored(registrationTokens', e, v)
          /\ ~(now' >= registrationTokens'[e].expiryDate)
    BY <1>2 DEF LiveIn, Expired, Stored
  <2>2. registrationTokens'[e].expiryDate \in Nat
    BY <2>1 DEF IInv, TypeOK, Token, Stored
  <2>3. registrationTokens'[e] = registrationTokens[e]
    BY <1>1, <2>1, <2>2 DEF NothingIssued, NotIssued, Stored
  <2> QED
    BY <1>1, <2>1, <2>2, <2>3 DEF LiveIn, Expired, Stored
<1>3. ASSUME LiveIn(passwordResetTokens, v)'
      PROVE  LiveIn(passwordResetTokens, v)
  <2>1. PICK e \in Emails :
          /\ Stored(passwordResetTokens', e, v)
          /\ ~(now' >= passwordResetTokens'[e].expiryDate)
    BY <1>3 DEF LiveIn, Expired, Stored
  <2>2. passwordResetTokens'[e].expiryDate \in Nat
    BY <2>1 DEF IInv, TypeOK, Token, Stored
  <2>3. passwordResetTokens'[e] = passwordResetTokens[e]
    BY <1>1, <2>1, <2>2 DEF NothingIssued, NotIssued, Stored
  <2> QED
    BY <1>1, <2>1, <2>2, <2>3 DEF LiveIn, Expired, Stored
<1> QED
  BY <1>2, <1>3 DEF LiveLink

\* Whose link may still be issued, as far as LinkState tells.
Unissued(v) == pc[v] \in BeforeIssue \/ DrawsNoLink(v)

\* A link that is live was drawn by a request that is past the creation.
LEMMA LiveIsDrawn ==
  ASSUME IInv, NEW v \in Requests, LiveLink(v)
  PROVE  ~Unissued(v)
BY DEF IInv, TokensOK, RegistrationTokenOK, PasswordResetTokenOK, Drawn,
       LiveLink, LiveIn, Stored, Unissued, DrawsNoLink, Asked

\* The link of a request that lost its chance to be issued has lost it for
\* good.
LEMMA IssuedStays ==
  ASSUME IInv, Advances, NEW v \in Requests, ~Unissued(v)
  PROVE  ~Unissued(v)' /\ input'[v] = input[v]
BY DEF IInv, Control, Advances, Unissued, DrawsNoLink, BeforeIssue

\* LinkState by its cases.
LEMMA StateOfLinks ==
  /\ LinkState = [v \in Requests |-> LinkState[v]]
  /\ \A v \in Requests :
       /\ LiveLink(v) => LinkState[v] = "live"
       /\ ~LiveLink(v) /\ Unissued(v) => LinkState[v] = "unissued"
       /\ ~LiveLink(v) /\ ~Unissued(v) => LinkState[v] = "dead"
BY DEF LinkState, LiveLink, Unissued

LEMMA StateOfLinksNext ==
  /\ LinkState' = [v \in Requests |-> LinkState'[v]]
  /\ \A v \in Requests :
       /\ LiveLink(v)' => LinkState'[v] = "live"
       /\ ~LiveLink(v)' /\ Unissued(v)' => LinkState'[v] = "unissued"
       /\ ~LiveLink(v)' /\ ~Unissued(v)' => LinkState'[v] = "dead"
BY DEF LinkState, LiveLink, Unissued

\* The creation of a token that may be live touches the link of its request
\* alone, which nobody had before.
LEMMA IssueBearsOne ==
  ASSUME IInv, IInv', NEW r \in Requests, Issues(r), ~NothingIssued
  PROVE  /\ pc[r] \in BeforeIssue /\ LiveLink(r)'
         /\ pc'[r] \in {"createPasswordToken", "emitReset"}
         /\ UNCHANGED <<now, input, held>>
         /\ \A v \in Requests \ {r} :
              pc'[v] = pc[v] /\ (LiveLink(v)' <=> LiveLink(v))
<1>a. TypeOK /\ now' = now
  BY DEF IInv, Issues, IssueRegistrationToken, CreateRegistrationToken,
         CreateResetToken, CreatePasswordResetToken
<1>b. UNCHANGED tokens => NothingIssued
  BY DEF NothingIssued, NotIssued, tokens
<1>1. CASE IssueRegistrationToken(r)
  <2> DEFINE e == Email(r)
  <2>1. /\ pc[r] = "createRegistrationToken"
        /\ registrationTokens[e] = None
        /\ registrationTokens' =
             [registrationTokens EXCEPT ![e] = RegistrationToken(r)]
        /\ passwordResetTokens' = passwordResetTokens
        /\ pc' = [pc EXCEPT ![r] = "createPasswordToken"]
        /\ UNCHANGED <<input, held>>
    BY <1>1, <1>b DEF IssueRegistrationToken, CreateRegistrationToken,
         UniqueEmail, Goto, tokens
  <2>2. e \in Emails
    BY <2>1 DEF IInv, Control, RegisterLabels, Email
  <2>3. /\ registrationTokens'[e] = [value |-> r, expiryDate |-> now + TokenTTL]
        /\ \A d \in Emails \ {e} : registrationTokens'[d] = registrationTokens[d]
    BY <1>a, <2>1, <2>2 DEF TypeOK, RegistrationToken
  <2>4. registrationTokens'[e] # None
    BY <1>a, <2>3, NoneAssumption, BoundsAssumption DEF TypeOK, Token
  <2>5. LiveLink(r)'
    <3>1. ~(now' >= registrationTokens'[e].expiryDate)
      BY <1>a, <2>3, BoundsAssumption DEF TypeOK
    <3> QED
      BY <2>2, <2>3, <2>4, <3>1 DEF LiveLink, LiveIn, Stored, Expired
  <2>6. ASSUME NEW v \in Requests \ {r}
        PROVE  pc'[v] = pc[v] /\ (LiveLink(v)' <=> LiveLink(v))
    <3>1. \A d \in Emails : Stored(registrationTokens', d, v)
                              <=> Stored(registrationTokens, d, v)
      BY <2>1, <2>3 DEF Stored
    <3>2. \A d \in Emails : Stored(registrationTokens, d, v) =>
            registrationTokens'[d] = registrationTokens[d]
      BY <2>1, <2>3 DEF Stored
    <3>3. LiveIn(registrationTokens, v)' <=> LiveIn(registrationTokens, v)
      BY <1>a, <3>1, <3>2 DEF LiveIn, Stored, Expired
    <3>4. LiveIn(passwordResetTokens, v)' <=> LiveIn(passwordResetTokens, v)
      BY <1>a, <2>1 DEF LiveIn, Stored, Expired
    <3> QED
      BY <1>a, <2>1, <3>3, <3>4 DEF LiveLink, TypeOK
  <2>7. pc'[r] \in {"createPasswordToken", "emitReset"}
    BY <1>a, <2>1 DEF TypeOK
  <2> QED
    BY <1>a, <2>1, <2>5, <2>6, <2>7 DEF BeforeIssue
<1>2. CASE CreateResetToken(r)
  <2> DEFINE e == input[r].email
  <2>1. /\ pc[r] = "createResetToken"
        /\ passwordResetTokens[e] = None
        /\ passwordResetTokens' =
             [passwordResetTokens EXCEPT ![e] = ResetToken(r)]
        /\ registrationTokens' = registrationTokens
        /\ pc' = [pc EXCEPT ![r] = "emitReset"]
        /\ UNCHANGED <<input, held>>
    BY <1>2, <1>b DEF CreateResetToken, CreatePasswordResetToken,
         UniqueEmail, Goto, tokens
  <2>2. e \in Emails /\ held[r] \in HeldToken
    BY <1>a, <2>1 DEF IInv, Control, ResetLabels, TypeOK
  <2>3. /\ passwordResetTokens'[e] =
             [value |-> r, expiryDate |-> held[r].expiryDate]
        /\ \A d \in Emails \ {e} :
             passwordResetTokens'[d] = passwordResetTokens[d]
    BY <1>a, <2>1, <2>2 DEF TypeOK, ResetToken
  <2>4. passwordResetTokens'[e] # None /\ held[r].expiryDate \in Nat
    BY <2>2, <2>3, NoneAssumption DEF Token, HeldToken
  <2>5. LiveLink(r)'
    <3>1. ~(held[r].expiryDate <= now)
      BY <2>1, <2>3 DEF NothingIssued, NotIssued
    <3>2. ~(now' >= passwordResetTokens'[e].expiryDate)
      BY <1>a, <2>3, <2>4, <3>1 DEF TypeOK
    <3> QED
      BY <2>2, <2>3, <2>4, <3>2 DEF LiveLink, LiveIn, Stored, Expired
  <2>6. ASSUME NEW v \in Requests \ {r}
        PROVE  pc'[v] = pc[v] /\ (LiveLink(v)' <=> LiveLink(v))
    <3>1. \A d \in Emails : Stored(passwordResetTokens', d, v)
                              <=> Stored(passwordResetTokens, d, v)
      BY <2>1, <2>3 DEF Stored
    <3>2. \A d \in Emails : Stored(passwordResetTokens, d, v) =>
            passwordResetTokens'[d] = passwordResetTokens[d]
      BY <2>1, <2>3 DEF Stored
    <3>3. LiveIn(passwordResetTokens, v)' <=> LiveIn(passwordResetTokens, v)
      BY <1>a, <3>1, <3>2 DEF LiveIn, Stored, Expired
    <3>4. LiveIn(registrationTokens, v)' <=> LiveIn(registrationTokens, v)
      BY <1>a, <2>1 DEF LiveIn, Stored, Expired
    <3> QED
      BY <1>a, <2>1, <3>3, <3>4 DEF LiveLink, TypeOK
  <2>7. pc'[r] \in {"createPasswordToken", "emitReset"}
    BY <1>a, <2>1 DEF TypeOK
  <2> QED
    BY <1>a, <2>1, <2>5, <2>6, <2>7 DEF BeforeIssue
<1> QED
  BY <1>1, <1>2 DEF Issues

-----------------------------------------------------------------------------
\* Confirmations that read a token, and those that end one.
ReadsToken(c) == ConfirmRegistration(c) \/ ConfirmPasswordReset(c)
SpendsToken(c) == SpendRegistrationToken(c) \/ SpendResetToken(c)

NoneOpens == \A c \in Requests : HasOpened(c)' => HasOpened(c)

\* A handler that does not read a token in this step opens no link.
LEMMA OnlyReadsOpen ==
  ASSUME IInv, [Next]_vars, ~\E c \in Requests : ReadsToken(c)
  PROVE  NoneOpens
<1> SUFFICES ASSUME NEW c \in Requests, HasOpened(c)'
             PROVE  HasOpened(c)
  BY DEF NoneOpens
<1> USE DEF IInv, TypeOK, HasOpened
<1>a. held[c] # None /\ pc[c] \in {"findRegistrant", "findResetUser"} =>
        held[c].expiryDate \in Nat
  BY DEF HeldToken
<1>b. pc'[c] = pc[c] /\ held'[c] = held[c] /\ now' = now => HasOpened(c)
  BY DEF Expired
<1>1. ASSUME NEW q \in Requests,
             \/ RegisterUser(q) \/ RefuseTerms(q) \/ ResetPassword(q)
             \/ LoginWithGoogle(q) \/ LoginWithoutEmail(q)
      PROVE  HasOpened(c)
  BY <1>1, <1>b
     DEF RegisterUser, HandleExistingUser, RefuseTerms, ResetPassword,
         LoginWithGoogle, GoogleNext, LoginWithoutEmail, Arrives
<1>2. ASSUME NEW q \in Requests, RegistrationStep(q) PROVE HasOpened(c)
  <2>1. CASE \/ ClearRegistrationToken(q) \/ ClearPasswordToken(q)
             \/ PurgeRegistrationToken(q) \/ PurgePasswordToken(q)
             \/ FindRegistered(q) \/ UpdateProfile(q) \/ SavePassword(q)
    BY <1>b, <2>1
       DEF ClearRegistrationToken, ClearPasswordToken,
           PurgeRegistrationToken, PurgePasswordToken,
           DeleteRegistrationToken, DeletePasswordResetToken,
           FindRegistered, UpdateProfile, SavePassword, SaveUser, Goto
  <2>2. CASE \/ CreateProfile(q) \/ CreateRegisteredUser(q)
             \/ IssueRegistrationToken(q) \/ IssuePlaceholderToken(q)
             \/ EmitUserRegistered(q)
    BY <1>b, <2>2
       DEF CreateProfile, CreateUserProfile, CreateRegisteredUser,
           CreateUser, IssueRegistrationToken, IssuePlaceholderToken,
           CreateRegistrationToken, CreatePasswordResetToken,
           EmitUserRegistered, EmitAndAnswer, Goto, Answer
  <2>3. CASE FindRegistrant(q)
    BY <1>b, <2>3 DEF FindRegistrant, Goto, Answer, Expired
  <2>4. CASE VerifyUser(q) \/ SpendRegistrationToken(q)
    BY <1>b, <2>4
       DEF VerifyUser, SaveUser, SpendRegistrationToken, SpendAnswer,
           Goto, Answer
  <2> QED
    BY <1>2, <2>1, <2>2, <2>3, <2>4 DEF RegistrationStep
<1>3. ASSUME NEW q \in Requests, PasswordStep(q) PROVE HasOpened(c)
  <2>1. CASE DeleteResetToken(q) \/ CreateResetToken(q)
             \/ EmitPasswordResetAttempt(q)
    BY <1>b, <2>1
       DEF DeleteResetToken, CreateResetToken, CreatePasswordResetToken,
           EmitPasswordResetAttempt, EmitAndAnswer, Goto, Answer
  <2>2. CASE FindResetUser(q)
    BY <1>b, <2>2 DEF FindResetUser, Goto, Answer, Expired
  <2>3. CASE ReplacePassword(q) \/ SpendResetToken(q)
    BY <1>b, <2>3
       DEF ReplacePassword, SaveUser, SpendResetToken, SpendAnswer,
           Goto, Answer
  <2> QED
    BY <1>3, <2>1, <2>2, <2>3 DEF PasswordStep
<1>4. ASSUME NEW q \in Requests, GoogleStep(q) \/ Abort(q)
      PROVE  HasOpened(c)
  BY <1>4, <1>b
     DEF GoogleStep, LinkGoogleId, CreateGoogleProfile, CreateUserProfile,
         CreateGoogleUser, CreateUser, Goto, Answer, Abort
<1>5. ASSUME NEW m \in mailQueue, SendMail(m) \/ MailRefused(m)
      PROVE  HasOpened(c)
  BY <1>5, <1>b DEF SendMail, MailRefused, requests
<1>6. ASSUME Crash PROVE FALSE
  BY <1>6 DEF Crash, Running, Labels, ConfirmRegisterLabels,
              ConfirmResetLabels
<1>7. CASE Tick
  <2>1. now' = now + 1 /\ pc' = pc /\ held' = held
    BY <1>7 DEF Tick, requests
  <2>2. CASE pc[c] \in {"findRegistrant", "findResetUser"}
    <3>1. held[c].expiryDate \in Nat
      BY <1>a, <2>2 DEF Control, ConfirmRegisterLabels, ConfirmResetLabels
    <3> QED
      BY <2>1, <2>2, <3>1 DEF Expired
  <2> QED
    BY <2>1, <2>2
<1>8. CASE Finished \/ UNCHANGED vars
  BY <1>8, <1>b DEF Finished, vars, requests
<1> QED
  BY <1>1, <1>2, <1>3, <1>4, <1>5, <1>6, <1>7, <1>8
     DEF Next, Arrival, HandlerStep, ReadsToken

\* Who reads a live token opens its link; who reads another opens none.
LEMMA ReadOpensLive ==
  ASSUME IInv, IInv', NEW c \in Requests, ReadsToken(c)
  PROVE  [Link!Next]_(Link!link)
<1> DEFINE v == input'[c].value
<1>1. /\ pc[c] = "idle" /\ UNCHANGED <<tokens, now>>
      /\ \A r \in Requests \ {c} :
           pc'[r] = pc[r] /\ input'[r] = input[r] /\ held'[r] = held[r]
      /\ pc'[c] \in {"findRegistrant", "findResetUser", "400", "500"}
      /\ input'[c].op \in {"confirmRegister", "confirmReset"}
  BY DEF ReadsToken, ConfirmRegistration, ConfirmPasswordReset, Arrives, IInv,
         TypeOK
<1>a. DrawsNoLink(c)'
  BY <1>1 DEF DrawsNoLink, IInv, Control
<1>2. LinkState' = LinkState
  <2>1. \A r \in Requests : LiveLink(r)' <=> LiveLink(r)
    BY <1>1 DEF LiveLink, LiveIn, Stored, Expired, tokens
  <2>2. \A r \in Requests : Unissued(r)' <=> Unissued(r)
    BY <1>1, <1>a DEF Unissued, DrawsNoLink, BeforeIssue
  <2>3. \A r \in Requests : LinkState'[r] = LinkState[r]
    BY <2>1, <2>2, StateOfLinks, StateOfLinksNext
  <2> QED
    BY <2>3, StateOfLinks, StateOfLinksNext
<1>3. LinkUsed' = LinkUsed
  BY <1>1 DEF LinkUsed, Confirms
<1>4. \A r \in Requests \ {c} : HasOpened(r)' <=> HasOpened(r)
  BY <1>1 DEF HasOpened, Expired
<1>5. ~HasOpened(c)
  BY <1>1 DEF HasOpened
<1>6. CASE ~HasOpened(c)'
  <2>1. LinkOpen' = LinkOpen
    BY <1>1, <1>4, <1>5, <1>6 DEF LinkOpen, Confirms
  <2> QED
    BY <1>2, <1>3, <2>1 DEF Link!link
<1>7. CASE HasOpened(c)'
  <2>1. v \in Requests /\ LiveLink(v)
    <3>1. CASE ConfirmRegistration(c)
      <4>1. PICK e \in Emails :
              /\ Stored(registrationTokens, e, v)
              /\ held'[c] = Held(registrationTokens, e)
        BY <1>7, <3>1 DEF ConfirmRegistration, Arrives, Holders, HasOpened,
                         IInv, TypeOK
      <4>2. ~Expired(registrationTokens[e].expiryDate)
        BY <1>1, <1>7, <4>1 DEF HasOpened, Held, Expired
      <4> QED
        BY <4>1, <4>2 DEF LiveLink, LiveIn, Stored, IInv, TypeOK, Token
    <3>2. CASE ConfirmPasswordReset(c)
      <4>1. PICK e \in Emails :
              /\ Stored(passwordResetTokens, e, v)
              /\ held'[c] = Held(passwordResetTokens, e)
        BY <1>7, <3>2 DEF ConfirmPasswordReset, Arrives, Holders, HasOpened,
                         IInv, TypeOK
      <4>2. ~Expired(passwordResetTokens[e].expiryDate)
        BY <1>1, <1>7, <4>1 DEF HasOpened, Held, Expired
      <4> QED
        BY <4>1, <4>2 DEF LiveLink, LiveIn, Stored, IInv, TypeOK, Token
    <3> QED
      BY <3>1, <3>2 DEF ReadsToken
  <2>2. LinkOpen' = LinkOpen \cup {<<c, v>>}
    BY <1>1, <1>4, <1>5, <1>7, <2>1 DEF LinkOpen, Confirms
  <2>3. \A w \in Requests : <<c, w>> \notin LinkOpen \cup LinkUsed
    BY <1>1, <1>5 DEF LinkOpen, LinkUsed
  <2>4. LinkState[v] = "live"
    BY <2>1, StateOfLinks
  <2>5. Link!Open(c, v)
    BY <1>2, <1>3, <2>2, <2>3, <2>4 DEF Link!Open
  <2> QED
    BY <2>1, <2>5 DEF Link!Next
<1> QED
  BY <1>6, <1>7

\* Ending a token touches the token of that value alone.
LEMMA SpendChangesOne ==
  ASSUME NEW collection \in [Emails -> Token \cup {None}], now \in Nat,
         NEW e \in Emails, NEW v \in Requests, NEW w \in Requests \ {v},
         NEW d \in Emails
  PROVE  /\ Stored(Spend(collection, e, v), d, w) <=> Stored(collection, d, w)
         /\ Stored(collection, d, w) => Spend(collection, e, v)[d] = collection[d]
BY NoneAssumption DEF Spend, Stored, SpentExpiry, Token

\* The token that a successful confirmation ends is the last of its value.
LEMMA SuccessEndsLink ==
  ASSUME IInv, IInv', NEW c \in Requests, SpendsToken(c), pc'[c] = "SUCCESS"
  PROVE  [Link!Next]_(Link!link)
<1>1. /\ pc[c] \in {"spendRegistration", "spendReset"}
      /\ UNCHANGED <<now, input>>
      /\ \A r \in Requests \ {c} : pc'[r] = pc[r] /\ held'[r] = held[r]
  BY DEF SpendsToken, SpendRegistrationToken, SpendResetToken, Answer, IInv,
         TypeOK
<1>a. input[c] \in Input /\ input[c].value \in Requests
  BY <1>1 DEF IInv, TypeOK, Input, Control, ConfirmRegisterLabels,
     ConfirmResetLabels, LinksOK, LinkOK, Asked
<1>b. PICK v \in Requests : v = input[c].value
  BY <1>a
<1>2. \/ /\ Asked(c, "confirmRegister") /\ Asked(v, "register")
         /\ Mailed("register", input[v].email, v)
      \/ /\ Asked(c, "confirmReset") /\ Asked(v, "reset")
         /\ Mailed("reset", input[v].email, v)
  <2>1. CASE pc[c] = "spendRegistration"
    BY <1>a, <1>b, <2>1, NoneAssumption
       DEF IInv, Control, ConfirmRegisterLabels, LinksOK, LinkOK, FollowsLink
  <2>2. CASE pc[c] = "spendReset"
    BY <1>a, <1>b, <2>2, NoneAssumption
       DEF IInv, Control, ConfirmResetLabels, LinksOK, LinkOK, FollowsLink
  <2> QED
    BY <1>1, <2>1, <2>2
<1>3. v # c /\ Ended(v)
  <2>1. v # c
    BY <1>2 DEF Asked
  <2> QED
    BY <1>2, <2>1 DEF IInv, LinksOK, MailsOK, Mailed
<1>4. ~LiveLink(v)'
  <2>1. CASE Asked(c, "confirmRegister") /\ Asked(v, "register")
    <3>1. ~LiveIn(registrationTokens, v)'
      BY <1>1, <1>b, <2>1 DEF IInv, SpentLinkIsDead, Asked
    <3>2. ~LiveIn(passwordResetTokens, v)'
      BY <1>1, <2>1 DEF IInv, TokensOK, PasswordResetTokenOK, LiveIn, Stored,
                        Asked
    <3> QED
      BY <3>1, <3>2 DEF LiveLink
  <2>2. CASE Asked(c, "confirmReset") /\ Asked(v, "reset")
    <3>1. ~LiveIn(passwordResetTokens, v)'
      BY <1>1, <1>b, <2>2 DEF IInv, SpentLinkIsDead, Asked
    <3>2. ~LiveIn(registrationTokens, v)'
      BY <1>1, <2>2 DEF IInv, TokensOK, RegistrationTokenOK, LiveIn, Stored,
                        Asked
    <3> QED
      BY <3>1, <3>2 DEF LiveLink
  <2> QED
    BY <1>2, <2>1, <2>2
<1>5. ASSUME NEW w \in Requests \ {v}
      PROVE  LiveLink(w)' <=> LiveLink(w)
  <2>1. \A d \in Emails :
          /\ Stored(registrationTokens', d, w)
               <=> Stored(registrationTokens, d, w)
          /\ Stored(registrationTokens, d, w) =>
               registrationTokens'[d] = registrationTokens[d]
          /\ Stored(passwordResetTokens', d, w)
               <=> Stored(passwordResetTokens, d, w)
          /\ Stored(passwordResetTokens, d, w) =>
               passwordResetTokens'[d] = passwordResetTokens[d]
    <3>1. held[c].email \in Emails
      BY <1>1 DEF IInv, TypeOK, HeldToken, Control, ConfirmRegisterLabels,
                  ConfirmResetLabels
    <3>2. /\ registrationTokens' \in
               {registrationTokens, Spend(registrationTokens, held[c].email, v)}
          /\ passwordResetTokens' \in
               {passwordResetTokens,
                Spend(passwordResetTokens, held[c].email, v)}
      BY <1>b DEF SpendsToken, SpendRegistrationToken, SpendResetToken
    <3>3. ASSUME NEW collection \in {registrationTokens, passwordResetTokens},
                 NEW d \in Emails
          PROVE  LET after == Spend(collection, held[c].email, v)
                 IN  /\ Stored(after, d, w) <=> Stored(collection, d, w)
                     /\ Stored(collection, d, w) => after[d] = collection[d]
      <4>1. /\ collection \in [Emails -> Token \cup {None}] /\ now \in Nat
            /\ w \in Requests \ {v}
        BY DEF IInv, TypeOK
      <4> QED
        BY <3>1, <4>1, SpendChangesOne
    <3> QED
      BY <3>2, <3>3
  <2> QED
    BY <1>1, <2>1 DEF LiveLink, LiveIn, Expired, Stored
<1>6. \A w \in Requests : Unissued(w)' <=> Unissued(w)
  BY <1>1, <1>2 DEF Unissued, DrawsNoLink, Asked
<1>7. LinkState' = [LinkState EXCEPT ![v] = "dead"]
  <2>1. ~Unissued(v)
    BY <1>2, <1>3 DEF Unissued, DrawsNoLink, Asked, Ended, Answers,
                      BeforeIssue
  <2>2. LinkState'[v] = "dead"
    BY <1>3, <1>4, <1>6, <2>1, StateOfLinksNext
  <2>3. \A w \in Requests \ {v} : LinkState'[w] = LinkState[w]
    BY <1>5, <1>6, StateOfLinks, StateOfLinksNext
  <2> QED
    BY <1>3, <2>2, <2>3, StateOfLinks, StateOfLinksNext
<1>8. /\ \A r \in Requests \ {c} : HasOpened(r)' <=> HasOpened(r)
      /\ HasOpened(c) /\ ~HasOpened(c)'
  BY <1>1 DEF HasOpened, Expired
<1>9. <<c, v>> \in LinkOpen /\ LinkOpen' = LinkOpen \ {<<c, v>>}
  BY <1>1, <1>b, <1>3, <1>8 DEF LinkOpen, Confirms
<1>10. LinkUsed' = LinkUsed \cup {<<c, v>>}
  BY <1>1, <1>b, <1>3 DEF LinkUsed, Confirms
<1>11. Link!Use(c, v)
  BY <1>7, <1>9, <1>10 DEF Link!Use
<1> QED
  BY <1>3, <1>11 DEF Link!Next

\* A step that neither issues a link nor opens or uses one lets some fade.
LEMMA OthersFade ==
  ASSUME IInv, IInv', Advances, Grows, NothingIssued, NoneOpens,
         \A c \in Requests : pc'[c] = "SUCCESS" => pc[c] = "SUCCESS"
  PROVE  Link!Next
<1> DEFINE vs == {v \in Requests : LinkState'[v] # LinkState[v]}
<1>1. \A v \in Requests : LinkState'[v] \in {LinkState[v], "dead"}
  <2> SUFFICES ASSUME NEW v \in Requests
               PROVE  LinkState'[v] \in {LinkState[v], "dead"}
    OBVIOUS
  <2>1. LiveLink(v)' => LiveLink(v)
    BY NoLinkIsBorn
  <2>2. ~Unissued(v) => ~Unissued(v)'
    BY IssuedStays
  <2>3. LiveLink(v) => ~Unissued(v)
    BY LiveIsDrawn
  <2> QED
    BY <2>1, <2>2, <2>3, StateOfLinks, StateOfLinksNext
<1>2. LinkState' = [v \in Requests |->
                      IF v \in vs THEN "dead" ELSE LinkState[v]]
  BY <1>1, StateOfLinksNext
<1>3. \A c \in Requests : pc[c] # "idle" => input'[c] = input[c]
  BY DEF IInv, Control, Advances
<1>4. LinkOpen' \subseteq LinkOpen
  BY <1>3 DEF LinkOpen, NoneOpens, HasOpened, Confirms
<1>5. LinkUsed' = LinkUsed
  <2>1. \A c \in Requests : pc'[c] = "SUCCESS" <=> pc[c] = "SUCCESS"
    BY DEF Advances, Ended, Answers
  <2> QED
    BY <1>3, <2>1 DEF LinkUsed, Confirms
<1> QED
  BY <1>2, <1>4, <1>5 DEF Link!Next, Link!Fade

\* A step issues one link, is a confirmation that opens or uses one, or lets
\* some fade.
LEMMA StepOfLinks ==
  IInv /\ IInv' /\ [Next]_vars => [Link!Next]_(Link!link)
<1> SUFFICES ASSUME IInv, IInv', [Next]_vars
             PROVE  [Link!Next]_(Link!link)
  OBVIOUS
<1>a. Advances /\ Grows
  BY StepAdvances, StepGrows
<1>1. ASSUME NEW r \in Requests, Issues(r), ~NothingIssued
      PROVE  Link!Next
  <2>1. /\ pc[r] \in BeforeIssue /\ LiveLink(r)'
        /\ pc'[r] \in {"createPasswordToken", "emitReset"}
        /\ UNCHANGED <<now, input, held>>
        /\ \A v \in Requests \ {r} :
             pc'[v] = pc[v] /\ (LiveLink(v)' <=> LiveLink(v))
    BY <1>1, IssueBearsOne
  <2>2. LinkState[r] = "unissued" /\ LinkState'[r] = "live"
    BY <2>1, LiveIsDrawn, StateOfLinks, StateOfLinksNext DEF Unissued
  <2>3. \A v \in Requests \ {r} : LinkState'[v] = LinkState[v]
    BY <2>1, StateOfLinks, StateOfLinksNext DEF Unissued, DrawsNoLink
  <2>4. LinkState' = [LinkState EXCEPT ![r] = "live"]
    BY <2>2, <2>3, StateOfLinks, StateOfLinksNext
  <2>5. \A c \in Requests : HasOpened(c)' <=> HasOpened(c)
    BY <2>1 DEF HasOpened, Expired, BeforeIssue
  <2>6. \A c \in Requests : pc'[c] = "SUCCESS" <=> pc[c] = "SUCCESS"
    BY <2>1 DEF BeforeIssue
  <2>7. LinkOpen' = LinkOpen /\ LinkUsed' = LinkUsed
    BY <2>1, <2>5, <2>6 DEF LinkOpen, LinkUsed, Confirms
  <2> QED
    BY <2>2, <2>4, <2>7 DEF Link!Next, Link!Issue
<1>2. ASSUME NEW c \in Requests, ReadsToken(c)
      PROVE  [Link!Next]_(Link!link)
  BY <1>2, ReadOpensLive
<1>3. ASSUME NEW c \in Requests, SpendsToken(c), pc'[c] = "SUCCESS"
      PROVE  [Link!Next]_(Link!link)
  BY <1>3, SuccessEndsLink
<1>4. ASSUME NothingIssued, ~\E c \in Requests : ReadsToken(c),
             \A c \in Requests : SpendsToken(c) => pc'[c] # "SUCCESS"
      PROVE  Link!Next
  <2>1. NoneOpens
    BY <1>4, OnlyReadsOpen
  <2>2. \A c \in Requests : pc'[c] = "SUCCESS" => pc[c] = "SUCCESS"
    BY <1>a, <1>4 DEF Advances, SpendsToken
  <2> QED
    BY <1>a, <1>4, <2>1, <2>2, OthersFade
<1> QED
  BY <1>1, <1>2, <1>3, <1>4, StepIssues

\* Links follow the abstract life cycle for any lifetime and number of
\* requests: their values become live at most once and never revive; only who
\* read a token while its link was live saves and succeeds; and once one has
\* succeeded, nobody who comes later does.
THEOREM LinksFollowLifecycle == Spec => ImplementsLinkLifecycle
<1>1. Init => Link!Init
  BY DEF Init, Link!Init, LinkState, LinkOpen, LinkUsed, HasOpened, LiveIn,
         Stored, BeforeIssue
<1> QED
  BY <1>1, Invariance, StepOfLinks, PTL
     DEF Spec, ImplementsLinkLifecycle, Link!Spec

-----------------------------------------------------------------------------
\* An account is being created only by a handler that has just inserted its
\* profile.
LEMMA CompletingBegins ==
  ASSUME IInv, [Next]_vars, NEW e \in Emails, Completing(e)'
  PROVE  Completing(e) \/ profiles[e] = None
<1>a. Advances
  BY StepAdvances
<1>1. PICK r \in Requests : /\ pc'[r] \in {"createUser", "createGoogleUser"}
                            /\ input'[r].email = e
  BY DEF Completing
<1>2. CASE pc'[r] = pc[r]
  BY <1>a, <1>1, <1>2 DEF Completing, Advances, IInv, Control
<1>3. CASE pc'[r] # pc[r]
  <2>1. CreateProfile(r) \/ CreateGoogleProfile(r)
    <3> USE DEF IInv, TypeOK
    <3>1. ASSUME NEW q \in Requests, Arrival(q) PROVE FALSE
      BY <1>1, <1>3, <3>1
         DEF Arrival, RegisterUser, HandleExistingUser, RefuseTerms,
             ConfirmRegistration, ResetPassword, ConfirmPasswordReset,
             LoginWithGoogle, GoogleNext, LoginWithoutEmail, Arrives
    <3>2. ASSUME NEW q \in Requests, PasswordStep(q) PROVE FALSE
      BY <1>1, <1>3, <3>2
         DEF PasswordStep, DeleteResetToken, CreateResetToken,
             CreatePasswordResetToken, EmitPasswordResetAttempt,
             EmitAndAnswer, FindResetUser, ReplacePassword, SaveUser,
             SpendResetToken, SpendAnswer, Goto, Answer
    <3>3. ASSUME NEW q \in Requests, RegistrationStep(q), ~CreateProfile(q)
          PROVE  FALSE
      <4>1. CASE \/ ClearRegistrationToken(q) \/ ClearPasswordToken(q)
                 \/ PurgeRegistrationToken(q) \/ PurgePasswordToken(q)
                 \/ IssueRegistrationToken(q) \/ IssuePlaceholderToken(q)
        BY <1>1, <1>3, <4>1
           DEF ClearRegistrationToken, ClearPasswordToken,
               PurgeRegistrationToken, PurgePasswordToken,
               DeleteRegistrationToken, DeletePasswordResetToken,
               IssueRegistrationToken, IssuePlaceholderToken,
               CreateRegistrationToken, CreatePasswordResetToken, Goto, Answer
      <4>2. CASE \/ FindRegistered(q) \/ UpdateProfile(q) \/ SavePassword(q)
                 \/ CreateRegisteredUser(q) \/ EmitUserRegistered(q)
        BY <1>1, <1>3, <4>2
           DEF FindRegistered, UpdateProfile, SavePassword, SaveUser,
               CreateRegisteredUser, CreateUser, EmitUserRegistered,
               EmitAndAnswer, Goto, Answer
      <4>3. CASE \/ FindRegistrant(q) \/ VerifyUser(q)
                 \/ SpendRegistrationToken(q)
        BY <1>1, <1>3, <4>3
           DEF FindRegistrant, VerifyUser, SaveUser, SpendRegistrationToken,
               SpendAnswer, Goto, Answer
      <4> QED
        BY <3>3, <4>1, <4>2, <4>3 DEF RegistrationStep
    <3>4. ASSUME NEW q \in Requests, GoogleStep(q), ~CreateGoogleProfile(q)
          PROVE  FALSE
      BY <1>1, <1>3, <3>4
         DEF GoogleStep, LinkGoogleId, CreateGoogleUser, CreateUser, Goto,
             Answer
    <3>5. ASSUME NEW q \in Requests,
                 CreateProfile(q) \/ CreateGoogleProfile(q)
          PROVE  q = r
      BY <1>3, <3>5
         DEF CreateProfile, CreateGoogleProfile, CreateUserProfile, Goto,
             Answer
    <3>6. ASSUME NEW q \in Requests, Abort(q) PROVE FALSE
      BY <1>1, <1>3, <3>6 DEF Abort
    <3>7. ASSUME NEW m \in mailQueue, SendMail(m) \/ MailRefused(m)
          PROVE  FALSE
      BY <1>3, <3>7 DEF SendMail, MailRefused, requests
    <3>8. CASE Crash \/ Tick \/ Finished \/ UNCHANGED vars
      BY <1>1, <1>3, <3>8 DEF Crash, Tick, Finished, vars, requests
    <3> QED
      BY <3>1, <3>2, <3>3, <3>4, <3>5, <3>6, <3>7, <3>8
         DEF Next, HandlerStep
  <2>2. pc'[r] # "500" /\ input' = input
    BY <1>1, <2>1
       DEF CreateProfile, CreateGoogleProfile, CreateUserProfile, Goto, Answer
  <2> QED
    BY <1>1, <2>1, <2>2
       DEF CreateProfile, CreateGoogleProfile, CreateUserProfile, UniqueEmail,
           Email, Goto, Answer, IInv, TypeOK
<1> QED
  BY <1>2, <1>3

\* Only a handler that is creating the account of an e-mail inserts its user.
LEMMA UserIsCompleted ==
  ASSUME IInv, [Next]_vars, NEW e \in Emails, ~Exists(e), Exists(e)'
  PROVE  Completing(e)
<1>1. PICK r \in Requests : WritesUser(r)
  BY StepWritesOrProves DEF ProvesOne, Exists
<1>2. CASE CreateRegisteredUser(r) \/ CreateGoogleUser(r)
  BY <1>2
     DEF CreateRegisteredUser, CreateGoogleUser, CreateUser, Exists, Completing,
         Email, IInv, TypeOK
<1>3. CASE SavePassword(r)
  BY <1>3 DEF SavePassword, SaveUser, Exists, Email, IInv, TypeOK, AccountsOK,
       AccountsKnown, UserKnown
<1>4. CASE VerifyUser(r) \/ ReplacePassword(r)
  BY <1>4 DEF VerifyUser, ReplacePassword, SaveUser, Exists, IInv, TypeOK,
       AccountsOK, AccountsKnown
<1>5. CASE LinkGoogleId(r)
  BY <1>5 DEF LinkGoogleId, Exists, IInv, TypeOK, AccountsOK, AccountsKnown,
       Verified
<1> QED
  BY <1>1, <1>2, <1>3, <1>4, <1>5 DEF WritesUser

\* A profile that was stranded between the two inserts of an account is never
\* claimed, whatever is registered or logs in with its e-mail.
THEOREM StrandedProfilesStay == Spec => StrandedProfileIsForever
<1>1. IInv /\ [Next]_vars =>
        [\A e \in Emails : Stranded(e) => Stranded(e)']_vars
  BY StepGrows, CompletingBegins, UserIsCompleted DEF Grows, Stranded
<1> QED
  BY <1>1, Invariance, PTL DEF Spec, StrandedProfileIsForever

-----------------------------------------------------------------------------

\* A registration of e that has promised an e-mail, or is about to.
Awaits(r, e) ==
  /\ Asked(r, "register") /\ input[r].email = e
  /\ pc[r] \in {"createPasswordToken", "emitRegistered",
                "AWAITING_EMAIL_VERIFICATION"}

\* A registration that will come to the creation of the token of e.
Refills(q, e) ==
  /\ input[q] # None /\ input[q].email = e /\ Exists(e)
  /\ pc[q] \in {"clearPasswordToken", "findRegistered", "updateProfile",
                "savePassword", "purgeRegistrationToken",
                "purgePasswordToken", "createRegistrationToken"}

HasOrGets(e) ==
  registrationTokens[e] # None \/ \E q \in Requests : Refills(q, e)

\* A registration is asked for an e-mail.
Addressed == \A r \in Requests : Asked(r, "register") => input[r].email \in Emails

AwaitedInv ==
  /\ Addressed
  /\ faults = 0 =>
       \A e \in Emails, r \in Requests : Awaits(r, e) => HasOrGets(e)

-----------------------------------------------------------------------------
\* A registration comes to its promise by creating a token.
LEMMA PromiseHasToken ==
  ASSUME IInv, [Next]_vars, NEW r \in Requests, NEW e \in Emails,
         Awaits(r, e)', ~Awaits(r, e)
  PROVE  registrationTokens'[e] # None
PROOF
<1> USE DEF IInv, TypeOK, Awaits, Asked
<1>a. Advances
  BY StepAdvances
<1>1. CASE pc'[r] = pc[r]
  BY <1>1, <1>a DEF Control, Advances
<1>2. CASE pc'[r] # pc[r] /\ IssueRegistrationToken(r)
  <2>1. /\ e = Email(r) /\ pc[r] = "createRegistrationToken"
        /\ registrationTokens' =
             [registrationTokens EXCEPT ![e] = RegistrationToken(r)]
    BY <1>2 DEF IssueRegistrationToken, CreateRegistrationToken, Goto, Answer,
         Email
  <2>2. RegistrationToken(r) \in Token
    BY BoundsAssumption DEF RegistrationToken, Token
  <2> QED
    BY <2>1, <2>2, NoneAssumption
<1>3. CASE pc'[r] # pc[r] /\ ~IssueRegistrationToken(r)
  <2>1. pc[r] \notin {"createPasswordToken", "emitRegistered"}
    <3>1. SUFFICES ASSUME pc[r] \in {"createPasswordToken", "emitRegistered"}
                   PROVE  FALSE
      OBVIOUS
    <3>2. Asked(r, "register") /\ input'[r] = input[r]
      BY <1>a, <3>1 DEF Control, RegisterLabels, Advances
    <3> QED
      BY <3>1, <3>2
  <2>2. ASSUME NEW q \in Requests, Arrival(q) PROVE FALSE
    BY <1>3, <2>2
       DEF Arrival, RegisterUser, HandleExistingUser, RefuseTerms,
           ConfirmRegistration, ResetPassword, ConfirmPasswordReset,
           LoginWithGoogle, GoogleNext, LoginWithoutEmail, Arrives
  <2>3. ASSUME NEW q \in Requests, RegistrationStep(q) PROVE FALSE
    <3>1. CASE \/ ClearRegistrationToken(q) \/ ClearPasswordToken(q)
               \/ PurgeRegistrationToken(q) \/ PurgePasswordToken(q)
               \/ FindRegistered(q) \/ UpdateProfile(q) \/ SavePassword(q)
      BY <1>3, <3>1
         DEF ClearRegistrationToken, ClearPasswordToken,
             PurgeRegistrationToken, PurgePasswordToken,
             DeleteRegistrationToken, DeletePasswordResetToken,
             FindRegistered, UpdateProfile, SavePassword, SaveUser, Goto
    <3>2. CASE \/ CreateProfile(q) \/ CreateRegisteredUser(q)
               \/ IssueRegistrationToken(q) \/ IssuePlaceholderToken(q)
               \/ EmitUserRegistered(q)
      BY <1>3, <2>1, <3>2
         DEF CreateProfile, CreateUserProfile, CreateRegisteredUser,
             CreateUser, IssueRegistrationToken, IssuePlaceholderToken,
             CreateRegistrationToken, CreatePasswordResetToken,
             EmitUserRegistered, EmitAndAnswer, Goto, Answer
    <3>3. CASE \/ FindRegistrant(q) \/ VerifyUser(q)
               \/ SpendRegistrationToken(q)
      BY <1>3, <3>3
         DEF FindRegistrant, VerifyUser, SaveUser, SpendRegistrationToken,
             SpendAnswer, Goto, Answer
    <3> QED
      BY <2>3, <3>1, <3>2, <3>3 DEF RegistrationStep
  <2>4. ASSUME NEW q \in Requests, PasswordStep(q) PROVE FALSE
    BY <1>3, <2>4
       DEF Control, PasswordStep, DeleteResetToken, CreateResetToken,
           CreatePasswordResetToken, EmitPasswordResetAttempt, EmitAndAnswer,
           ResetLabels, FindResetUser, ReplacePassword, SaveUser,
           SpendResetToken, SpendAnswer, Goto, Answer
  <2>5. ASSUME NEW q \in Requests, GoogleStep(q) PROVE FALSE
    BY <1>3, <2>5
       DEF GoogleStep, LinkGoogleId, CreateGoogleProfile, CreateUserProfile,
           CreateGoogleUser, CreateUser, Goto, Answer
  <2>6. ASSUME NEW q \in Requests, Abort(q) PROVE FALSE
    BY <1>3, <2>6 DEF Abort
  <2>7. ASSUME NEW m \in mailQueue, SendMail(m) \/ MailRefused(m)
        PROVE  FALSE
    BY <1>3, <2>7 DEF SendMail, MailRefused, requests
  <2>8. CASE Crash \/ Tick \/ Finished \/ UNCHANGED vars
    BY <1>3, <2>8 DEF Crash, Tick, Finished, vars, requests
  <2> QED
    BY <2>2, <2>3, <2>4, <2>5, <2>6, <2>7, <2>8 DEF Next, HandlerStep
<1> QED
  BY <1>1, <1>2, <1>3

\* Whoever deletes the token of an e-mail will create one.
LEMMA DeleterRefills ==
  ASSUME IInv, [Next]_vars, NEW e \in Emails, registrationTokens[e] # None
  PROVE  HasOrGets(e)'
PROOF
<1> USE DEF IInv, TypeOK
<1>1. Exists(e) /\ Exists(e)'
  BY StepGrows DEF TokensOK, RegistrationTokenOK, Grows
<1>2. ASSUME NEW q \in Requests,
             ClearRegistrationToken(q) \/ PurgeRegistrationToken(q)
      PROVE  HasOrGets(e)'
  <2>1. /\ Asked(q, "register") /\ input' = input
        /\ pc'[q] \in {"clearPasswordToken", "purgePasswordToken"}
        /\ registrationTokens' =
             [registrationTokens EXCEPT ![input[q].email] = None]
    BY <1>2 DEF Control, RegisterLabels, ClearRegistrationToken,
         PurgeRegistrationToken, DeleteRegistrationToken, Goto, Email
  <2>2. CASE input[q].email = e
    BY <1>1, <2>1, <2>2 DEF HasOrGets, Refills, Asked
  <2>3. CASE input[q].email # e
    BY <2>1, <2>3 DEF HasOrGets
  <2> QED
    BY <2>2, <2>3
<1>3. registrationTokens'[e] # None
        \/ \E q \in Requests :
             ClearRegistrationToken(q) \/ PurgeRegistrationToken(q)
  <2>1. UNCHANGED registrationTokens => registrationTokens'[e] # None
    OBVIOUS
  <2>2. ASSUME NEW q \in Requests, Arrival(q)
        PROVE  registrationTokens' = registrationTokens
    BY <2>2
       DEF Arrival, RegisterUser, RefuseTerms, ConfirmRegistration,
           ResetPassword, ConfirmPasswordReset, LoginWithGoogle,
           LoginWithoutEmail, tokens
  <2>3. ASSUME NEW q \in Requests, RegistrationStep(q),
               ~ClearRegistrationToken(q), ~PurgeRegistrationToken(q)
        PROVE  registrationTokens'[e] # None
    <3>1. CASE IssueRegistrationToken(q)
      <4>1. RegistrationToken(q) \in Token
        BY BoundsAssumption DEF RegistrationToken, Token
      <4> QED
        BY <3>1, <4>1, NoneAssumption
           DEF IssueRegistrationToken, CreateRegistrationToken
    <3>2. CASE SpendRegistrationToken(q)
      <4>1. CASE registrationTokens' = registrationTokens
        BY <4>1
      <4>2. ASSUME NEW d \in Emails, registrationTokens[d] # None,
                   registrationTokens' =
                     [registrationTokens EXCEPT ![d].expiryDate = now]
            PROVE  registrationTokens'[e] # None
        <5>1. [registrationTokens[d] EXCEPT !.expiryDate = now] \in Token
          BY <4>2 DEF Token
        <5> QED
          BY <4>2, <5>1, NoneAssumption
      <4>3. held[q].email \in Emails
        BY <3>2 DEF Control, ConfirmRegisterLabels, HeldToken,
             SpendRegistrationToken
      <4> QED
        BY <3>2, <4>1, <4>2, <4>3
           DEF SpendRegistrationToken, Spend, Stored, SpentExpiry
    <3>3. CASE ~IssueRegistrationToken(q) /\ ~SpendRegistrationToken(q)
      BY <2>3, <3>3
         DEF RegistrationStep, ClearPasswordToken, PurgePasswordToken,
             DeletePasswordResetToken, FindRegistered, UpdateProfile,
             SavePassword, SaveUser, CreateProfile, CreateUserProfile,
             CreateRegisteredUser, CreateUser, IssuePlaceholderToken,
             CreatePasswordResetToken, EmitUserRegistered, EmitAndAnswer,
             FindRegistrant, VerifyUser, tokens
    <3> QED
      BY <3>1, <3>2, <3>3
  <2>4. ASSUME NEW q \in Requests, PasswordStep(q) \/ GoogleStep(q) \/ Abort(q)
        PROVE  registrationTokens' = registrationTokens
    BY <2>4
       DEF PasswordStep, DeleteResetToken, CreateResetToken,
           CreatePasswordResetToken, EmitPasswordResetAttempt, EmitAndAnswer,
           FindResetUser, ReplacePassword, SaveUser, SpendResetToken,
           GoogleStep, LinkGoogleId, CreateGoogleProfile, CreateUserProfile,
           CreateGoogleUser, CreateUser, Abort, tokens
  <2>5. ASSUME NEW m \in mailQueue, SendMail(m) \/ MailRefused(m)
        PROVE  registrationTokens' = registrationTokens
    BY <2>5 DEF SendMail, MailRefused, tokens
  <2>6. CASE Crash \/ Tick \/ Finished \/ UNCHANGED vars
    BY <2>6 DEF Crash, Tick, Finished, vars, tokens
  <2> QED
    BY <2>1, <2>2, <2>3, <2>4, <2>5, <2>6 DEF Next, HandlerStep
<1> QED
  BY <1>2, <1>3 DEF HasOrGets

\* Without a fault, a registration that will create a token does.
LEMMA RefillerStays ==
  ASSUME IInv, [Next]_vars, faults' = 0,
         NEW e \in Emails, NEW q \in Requests, Refills(q, e)
  PROVE  HasOrGets(e)'
PROOF
<1> USE DEF IInv, TypeOK
<1>a. input'[q] = input[q] /\ Exists(e)'
  BY StepAdvances, StepGrows DEF Refills, Advances, Grows
<1>1. CASE pc'[q] = pc[q]
  BY <1>1, <1>a DEF Refills, HasOrGets
<1>2. CASE IssueRegistrationToken(q)
  <2>1. RegistrationToken(q) \in Token
    BY BoundsAssumption DEF RegistrationToken, Token
  <2> QED
    BY <1>2, <2>1, NoneAssumption
       DEF IssueRegistrationToken, CreateRegistrationToken, UniqueEmail,
           Refills, HasOrGets, Email
<1>3. CASE \/ ClearPasswordToken(q) \/ FindRegistered(q) \/ UpdateProfile(q)
           \/ SavePassword(q) \/ PurgeRegistrationToken(q)
           \/ PurgePasswordToken(q)
  <2>1. pc'[q] \in {"findRegistered", "updateProfile", "savePassword",
                    "purgeRegistrationToken", "purgePasswordToken",
                    "createRegistrationToken"}
    BY <1>3
       DEF ClearPasswordToken, FindRegistered, UpdateProfile, SavePassword,
           SaveUser, PurgeRegistrationToken, PurgePasswordToken,
           DeleteRegistrationToken, DeletePasswordResetToken, Goto, Refills,
           Exists, Email
  <2> QED
    BY <1>a, <2>1 DEF Refills, HasOrGets
<1>4. pc'[q] = pc[q] \/ RegistrationStep(q)
  <2>1. ASSUME NEW r \in Requests, RegistrationStep(r), r # q
        PROVE  pc'[q] = pc[q]
    <3>1. CASE \/ ClearRegistrationToken(r) \/ ClearPasswordToken(r)
               \/ PurgeRegistrationToken(r) \/ PurgePasswordToken(r)
               \/ FindRegistered(r) \/ UpdateProfile(r) \/ SavePassword(r)
      BY <2>1, <3>1
         DEF ClearRegistrationToken, ClearPasswordToken,
             PurgeRegistrationToken, PurgePasswordToken,
             DeleteRegistrationToken, DeletePasswordResetToken,
             FindRegistered, UpdateProfile, SavePassword, SaveUser, Goto
    <3>2. CASE \/ CreateProfile(r) \/ CreateRegisteredUser(r)
               \/ IssueRegistrationToken(r) \/ IssuePlaceholderToken(r)
               \/ EmitUserRegistered(r)
      BY <2>1, <3>2
         DEF CreateProfile, CreateUserProfile, CreateRegisteredUser,
             CreateUser, IssueRegistrationToken, IssuePlaceholderToken,
             CreateRegistrationToken, CreatePasswordResetToken,
             EmitUserRegistered, EmitAndAnswer, Goto, Answer
    <3>3. CASE \/ FindRegistrant(r) \/ VerifyUser(r)
               \/ SpendRegistrationToken(r)
      BY <2>1, <3>3
         DEF FindRegistrant, VerifyUser, SaveUser, SpendRegistrationToken,
             Goto, Answer
    <3> QED
      BY <2>1, <3>1, <3>2, <3>3 DEF RegistrationStep
  <2>2. ASSUME NEW r \in Requests, PasswordStep(r) PROVE pc'[q] = pc[q]
    BY <2>2
       DEF Refills, PasswordStep, DeleteResetToken, CreateResetToken,
           CreatePasswordResetToken, EmitPasswordResetAttempt, EmitAndAnswer,
           FindResetUser, ReplacePassword, SaveUser, SpendResetToken, Goto,
           Answer
  <2>3. ASSUME NEW r \in Requests, GoogleStep(r) PROVE pc'[q] = pc[q]
    BY <2>3
       DEF Refills, GoogleStep, LinkGoogleId, CreateGoogleProfile,
           CreateUserProfile, CreateGoogleUser, CreateUser, Goto, Answer
  <2>4. ASSUME NEW r \in Requests, Arrival(r) PROVE pc'[q] = pc[q]
    BY <2>4
       DEF Refills, Arrival, RegisterUser, RefuseTerms, ConfirmRegistration,
           ResetPassword, ConfirmPasswordReset, LoginWithGoogle,
           LoginWithoutEmail, Arrives
  <2>5. ASSUME NEW m \in mailQueue, SendMail(m) \/ MailRefused(m)
        PROVE  pc'[q] = pc[q]
    BY <2>5 DEF SendMail, MailRefused, requests
  <2>6. ASSUME NEW r \in Requests, Abort(r) \/ Crash PROVE FALSE
    BY <2>6 DEF Abort, Crash
  <2>7. CASE Tick \/ Finished \/ UNCHANGED vars
    BY <2>7 DEF Tick, Finished, vars, requests
  <2> QED
    BY <2>1, <2>2, <2>3, <2>4, <2>5, <2>6, <2>7 DEF Next, HandlerStep
<1>5. CASE RegistrationStep(q)
  BY <1>2, <1>3, <1>5
     DEF Refills, RegistrationStep, ClearRegistrationToken,
         DeleteRegistrationToken, CreateProfile, CreateUserProfile,
         CreateRegisteredUser, CreateUser, IssuePlaceholderToken,
         CreatePasswordResetToken, EmitUserRegistered, EmitAndAnswer,
         FindRegistrant, VerifyUser, SaveUser, SpendRegistrationToken
<1> QED
  BY <1>1, <1>4, <1>5

-----------------------------------------------------------------------------
\* A step is an arrival, or asks for nothing; no fault is forgotten.
LEMMA AsksOrFails ==
  ASSUME IInv, [Next]_vars
  PROVE  /\ input' = input \/ \E r \in Requests : Arrival(r)
         /\ faults' = 0 => faults = 0
PROOF
<1> USE DEF IInv, TypeOK
<1>1. ASSUME NEW r \in Requests, Arrival(r) PROVE faults' = faults
  BY <1>1
     DEF Arrival, RegisterUser, RefuseTerms, ConfirmRegistration,
         ResetPassword, ConfirmPasswordReset, LoginWithGoogle,
         LoginWithoutEmail
<1>2. ASSUME NEW r \in Requests, RegistrationStep(r)
      PROVE  input' = input /\ faults' = faults
  BY <1>2
     DEF RegistrationStep, ClearRegistrationToken, ClearPasswordToken,
         PurgeRegistrationToken, PurgePasswordToken, DeleteRegistrationToken,
         DeletePasswordResetToken, FindRegistered, UpdateProfile,
         SavePassword, SaveUser, CreateProfile, CreateUserProfile,
         CreateRegisteredUser, CreateUser, IssueRegistrationToken,
         IssuePlaceholderToken, CreateRegistrationToken,
         CreatePasswordResetToken, EmitUserRegistered, EmitAndAnswer,
         FindRegistrant, VerifyUser, SpendRegistrationToken, Goto, Answer
<1>3. ASSUME NEW r \in Requests, PasswordStep(r) \/ GoogleStep(r)
      PROVE  input' = input /\ faults' = faults
  BY <1>3
     DEF PasswordStep, DeleteResetToken, CreateResetToken,
         CreatePasswordResetToken, EmitPasswordResetAttempt, EmitAndAnswer,
         FindResetUser, ReplacePassword, SaveUser, SpendResetToken,
         GoogleStep, LinkGoogleId, CreateGoogleProfile, CreateUserProfile,
         CreateGoogleUser, CreateUser, Goto, Answer
<1>4. ASSUME NEW r \in Requests, Abort(r)
      PROVE  input' = input /\ faults' = faults + 1
  BY <1>4 DEF Abort
<1>5. ASSUME NEW m \in mailQueue, SendMail(m) \/ MailRefused(m)
      PROVE  input' = input /\ faults' \in {faults, faults + 1}
  BY <1>5 DEF SendMail, MailRefused, requests
<1>6. CASE Crash \/ Tick \/ Finished \/ UNCHANGED vars
  BY <1>6 DEF Crash, Tick, Finished, vars, requests
<1> QED
  BY <1>1, <1>2, <1>3, <1>4, <1>5, <1>6 DEF Next, HandlerStep

\* A registration has an e-mail from its arrival on.
LEMMA AddressedPreserved ==
  IInv /\ Addressed /\ [Next]_vars => Addressed'
PROOF
<1> SUFFICES ASSUME IInv, Addressed, NEW r \in Requests, Arrival(r)
             PROVE  Addressed'
  BY AsksOrFails DEF Addressed, Asked
<1> USE DEF IInv, TypeOK, Addressed, Asked, Arrives
<1>1. CASE RegisterUser(r) \/ RefuseTerms(r)
  BY <1>1, LowerAssumption DEF RegisterUser, RefuseTerms
<1>2. CASE ConfirmRegistration(r) \/ ConfirmPasswordReset(r)
  BY <1>2 DEF ConfirmRegistration, ConfirmPasswordReset
<1>3. CASE ResetPassword(r) \/ LoginWithGoogle(r) \/ LoginWithoutEmail(r)
  BY <1>3 DEF ResetPassword, LoginWithGoogle, LoginWithoutEmail
<1> QED
  BY <1>1, <1>2, <1>3 DEF Arrival

\* Every step keeps what is awaited there or on its way.
LEMMA AwaitedPreserved ==
  IInv /\ AwaitedInv /\ [Next]_vars => AwaitedInv'
PROOF
<1> SUFFICES ASSUME IInv, AwaitedInv, [Next]_vars, faults' = 0,
                    NEW e \in Emails, NEW r \in Requests, Awaits(r, e)'
             PROVE  HasOrGets(e)'
  BY AddressedPreserved DEF AwaitedInv
<1>1. faults = 0
  BY AsksOrFails
<1>2. CASE Awaits(r, e)
  BY <1>1, <1>2, DeleterRefills, RefillerStays DEF AwaitedInv, HasOrGets
<1>3. CASE ~Awaits(r, e)
  BY <1>3, PromiseHasToken DEF HasOrGets
<1> QED
  BY <1>2, <1>3

\* When everything has settled without a fault, a registration that promised
\* an e-mail has left a token for it, for any number of registrations.
THEOREM AwaitedRegistrations == Spec => []AwaitedRegistrationHasToken
<1>1. Init => AwaitedInv
  BY DEF Init, AwaitedInv, Addressed, Awaits, Asked
<1>2. IInv /\ AwaitedInv => AwaitedRegistrationHasToken
  <2> SUFFICES ASSUME IInv, AwaitedInv, Quiescent, faults = 0,
                      NEW r \in Requests, Asked(r, "register"),
                      pc[r] = "AWAITING_EMAIL_VERIFICATION"
               PROVE  registrationTokens[input[r].email] # None
    BY DEF AwaitedRegistrationHasToken
  <2>1. input[r].email \in Emails
    BY DEF AwaitedInv, Addressed
  <2>2. HasOrGets(input[r].email)
    BY <2>1 DEF AwaitedInv, Awaits
  <2> QED
    BY <2>2 DEF HasOrGets, Refills, Quiescent, Running, Labels, RegisterLabels
<1> QED
  BY <1>1, <1>2, Invariance, AwaitedPreserved, PTL DEF Spec

-----------------------------------------------------------------------------

\* The e-mail is queued or delivered.
AnyMail(kind, e, q) ==
  [kind |-> kind, to |-> e, value |-> q] \in mailQueue \cup mailbox

\* The link that request q causes is about to be sent to e, or was.
OnItsWay(q, e) ==
  /\ input[q] # None /\ input[q].email = e
  /\ \/ pc[q] \in {"emitRegistered", "emitReset"}
     \/ AnyMail("register", e, q) \/ AnyMail("reset", e, q)

\* Whoever promised a link, took the place of another, or has a reset token
\* stored, has a link on its way.
PromisesInv ==
  faults = 0 =>
    /\ \A e \in Emails : passwordResetTokens[e] # None =>
         OnItsWay(passwordResetTokens[e].value, e)
    /\ \A r \in Requests :
         /\ Asked(r, "register") /\ pc[r] = "AWAITING_EMAIL_VERIFICATION" =>
              AnyMail("register", input[r].email, r)
         /\ Asked(r, "reset") /\ pc[r] = "500" =>
              \E q \in Requests \ {r} : OnItsWay(q, input[r].email)

\* Without a fault, a request goes on by an action of its own.
LEMMA MovesItself ==
  ASSUME IInv, [Next]_vars, faults' = 0, NEW r \in Requests, pc'[r] # pc[r]
  PROVE  Arrival(r) \/ HandlerStep(r)
PROOF
<1> USE DEF IInv, TypeOK
<1>1. ASSUME NEW q \in Requests, Arrival(q), q # r PROVE FALSE
  BY <1>1
     DEF Arrival, RegisterUser, RefuseTerms, ConfirmRegistration,
         ResetPassword, ConfirmPasswordReset, LoginWithGoogle,
         LoginWithoutEmail, Arrives
<1>2. ASSUME NEW q \in Requests, RegistrationStep(q), q # r PROVE FALSE
  <2>1. CASE \/ ClearRegistrationToken(q) \/ ClearPasswordToken(q)
             \/ PurgeRegistrationToken(q) \/ PurgePasswordToken(q)
             \/ FindRegistered(q) \/ UpdateProfile(q) \/ SavePassword(q)
    BY <1>2, <2>1
       DEF ClearRegistrationToken, ClearPasswordToken,
           PurgeRegistrationToken, PurgePasswordToken,
           DeleteRegistrationToken, DeletePasswordResetToken,
           FindRegistered, UpdateProfile, SavePassword, SaveUser, Goto
  <2>2. CASE \/ CreateProfile(q) \/ CreateRegisteredUser(q)
             \/ IssueRegistrationToken(q) \/ IssuePlaceholderToken(q)
             \/ EmitUserRegistered(q)
    BY <1>2, <2>2
       DEF CreateProfile, CreateUserProfile, CreateRegisteredUser,
           CreateUser, IssueRegistrationToken, IssuePlaceholderToken,
           CreateRegistrationToken, CreatePasswordResetToken,
           EmitUserRegistered, EmitAndAnswer, Goto, Answer
  <2>3. CASE \/ FindRegistrant(q) \/ VerifyUser(q)
             \/ SpendRegistrationToken(q)
    BY <1>2, <2>3
       DEF FindRegistrant, VerifyUser, SaveUser, SpendRegistrationToken,
           Goto, Answer
  <2> QED
    BY <1>2, <2>1, <2>2, <2>3 DEF RegistrationStep
<1>3. ASSUME NEW q \in Requests, PasswordStep(q), q # r PROVE FALSE
  BY <1>3
     DEF PasswordStep, DeleteResetToken, CreateResetToken,
         CreatePasswordResetToken, EmitPasswordResetAttempt, EmitAndAnswer,
         FindResetUser, ReplacePassword, SaveUser, SpendResetToken, Goto,
         Answer
<1>4. ASSUME NEW q \in Requests, GoogleStep(q), q # r PROVE FALSE
  BY <1>4
     DEF GoogleStep, LinkGoogleId, CreateGoogleProfile, CreateUserProfile,
         CreateGoogleUser, CreateUser, Goto, Answer
<1>5. ASSUME NEW q \in Requests, Abort(q) \/ Crash PROVE FALSE
  BY <1>5 DEF Abort, Crash
<1>6. ASSUME NEW m \in mailQueue, SendMail(m) \/ MailRefused(m) PROVE FALSE
  BY <1>6 DEF SendMail, MailRefused, requests
<1>7. CASE Tick \/ Finished \/ UNCHANGED vars
  BY <1>7 DEF Tick, Finished, vars, requests
<1> QED
  BY <1>1, <1>2, <1>3, <1>4, <1>5, <1>6, <1>7 DEF Next, HandlerStep

\* An e-mail is queued or delivered, and stays so.
MailIsKept == mailQueue \cup mailbox \subseteq mailQueue' \cup mailbox'

\* Without a fault, no e-mail is lost between the queue and the mailbox.
LEMMA NoMailIsLost ==
  ASSUME IInv, [Next]_vars, faults' = 0
  PROVE  MailIsKept
PROOF
<1> USE DEF IInv, TypeOK
<1>a. UNCHANGED mail => MailIsKept
  BY DEF mail, MailIsKept
<1>1. ASSUME NEW q \in Requests, Arrival(q) PROVE UNCHANGED mail
  BY <1>1
     DEF Arrival, RegisterUser, RefuseTerms, ConfirmRegistration,
         ResetPassword, ConfirmPasswordReset, LoginWithGoogle,
         LoginWithoutEmail
<1>2. ASSUME NEW q \in Requests, RegistrationStep(q), ~EmitUserRegistered(q)
      PROVE  UNCHANGED mail
  BY <1>2
     DEF RegistrationStep, ClearRegistrationToken, ClearPasswordToken,
         PurgeRegistrationToken, PurgePasswordToken, DeleteRegistrationToken,
         DeletePasswordResetToken, FindRegistered, UpdateProfile,
         SavePassword, SaveUser, CreateProfile, CreateUserProfile,
         CreateRegisteredUser, CreateUser, IssueRegistrationToken,
         IssuePlaceholderToken, CreateRegistrationToken,
         CreatePasswordResetToken, FindRegistrant, VerifyUser,
         SpendRegistrationToken
<1>3. ASSUME NEW q \in Requests, PasswordStep(q) \/ GoogleStep(q),
             ~EmitPasswordResetAttempt(q)
      PROVE  UNCHANGED mail
  BY <1>3
     DEF PasswordStep, DeleteResetToken, CreateResetToken,
         CreatePasswordResetToken, FindResetUser, ReplacePassword, SaveUser,
         SpendResetToken, GoogleStep, LinkGoogleId, CreateGoogleProfile,
         CreateUserProfile, CreateGoogleUser, CreateUser
<1>4. ASSUME NEW q \in Requests,
             EmitUserRegistered(q) \/ EmitPasswordResetAttempt(q)
      PROVE  MailIsKept
  BY <1>4
     DEF EmitUserRegistered, EmitPasswordResetAttempt, EmitAndAnswer,
         MailIsKept
<1>5. Crash \/ (\E q \in Requests : Abort(q)) => FALSE
  BY DEF Abort, Crash
<1>6. ASSUME NEW m \in mailQueue, SendMail(m)
      PROVE  MailIsKept
  BY <1>6 DEF SendMail, MailIsKept
<1>7. ASSUME NEW m \in mailQueue, MailRefused(m) PROVE FALSE
  BY <1>7 DEF MailRefused
<1>8. ASSUME Tick \/ Finished \/ UNCHANGED vars PROVE UNCHANGED mail
  BY <1>8 DEF Tick, Finished, vars, mail
<1> QED
  BY <1>a, <1>1, <1>2, <1>3, <1>4, <1>5, <1>6, <1>7, <1>8
     DEF Next, HandlerStep

\* A link on its way stays so until it is sent, and then was.
LEMMA OnItsWayStays ==
  ASSUME IInv, [Next]_vars, faults' = 0,
         NEW q \in Requests, NEW e, OnItsWay(q, e)
  PROVE  OnItsWay(q, e)'
PROOF
<1>1. input'[q] = input[q]
  BY StepAdvances DEF OnItsWay, Advances
<1>2. CASE AnyMail("register", e, q) \/ AnyMail("reset", e, q)
  BY <1>1, <1>2, NoMailIsLost DEF OnItsWay, AnyMail, MailIsKept
<1>3. CASE pc[q] \in {"emitRegistered", "emitReset"} /\ pc'[q] = pc[q]
  BY <1>1, <1>3 DEF OnItsWay
<1>4. CASE pc[q] \in {"emitRegistered", "emitReset"} /\ pc'[q] # pc[q]
  <2>1. ~Arrival(q)
    BY <1>4
       DEF Arrival, RegisterUser, RefuseTerms, ConfirmRegistration,
           ResetPassword, ConfirmPasswordReset, LoginWithGoogle,
           LoginWithoutEmail, Arrives
  <2>2. EmitUserRegistered(q) \/ EmitPasswordResetAttempt(q)
    BY <1>4, <2>1, MovesItself
       DEF HandlerStep, RegistrationStep, ClearRegistrationToken,
           ClearPasswordToken, PurgeRegistrationToken, PurgePasswordToken,
           DeleteRegistrationToken, DeletePasswordResetToken, FindRegistered,
           UpdateProfile, SavePassword, SaveUser, CreateProfile,
           CreateUserProfile, CreateRegisteredUser, CreateUser,
           IssueRegistrationToken, IssuePlaceholderToken,
           CreateRegistrationToken, CreatePasswordResetToken, FindRegistrant,
           VerifyUser, SpendRegistrationToken, PasswordStep,
           DeleteResetToken, CreateResetToken, FindResetUser,
           ReplacePassword, SpendResetToken, GoogleStep, LinkGoogleId,
           CreateGoogleProfile, CreateGoogleUser
  <2>3. AnyMail("register", e, q)' \/ AnyMail("reset", e, q)'
    BY <2>2
       DEF OnItsWay, AnyMail, EmitUserRegistered, EmitPasswordResetAttempt,
           EmitAndAnswer, RegisterMail, ResetMail, Email
  <2> QED
    BY <1>1, <2>3 DEF OnItsWay
<1> QED
  BY <1>2, <1>3, <1>4 DEF OnItsWay

-----------------------------------------------------------------------------
\* A registration comes to its answer by sending its link.
LEMMA PromiseIsSent ==
  ASSUME IInv, [Next]_vars, faults' = 0, NEW r \in Requests,
         Asked(r, "register")', pc'[r] = "AWAITING_EMAIL_VERIFICATION",
         pc[r] # "AWAITING_EMAIL_VERIFICATION"
  PROVE  AnyMail("register", input[r].email, r)' /\ input'[r] = input[r]
PROOF
<1> USE DEF IInv, TypeOK
<1>1. ~Arrival(r)
  BY DEF Asked, Arrival, RegisterUser, HandleExistingUser, RefuseTerms,
         ConfirmRegistration, ResetPassword, ConfirmPasswordReset,
         LoginWithGoogle, GoogleNext, LoginWithoutEmail, Arrives
<1>2. EmitUserRegistered(r) \/ EmitPasswordResetAttempt(r)
  BY <1>1, MovesItself
     DEF HandlerStep, RegistrationStep, ClearRegistrationToken,
         ClearPasswordToken, PurgeRegistrationToken, PurgePasswordToken,
         DeleteRegistrationToken, DeletePasswordResetToken, FindRegistered,
         UpdateProfile, SavePassword, SaveUser, CreateProfile,
         CreateUserProfile, CreateRegisteredUser, CreateUser,
         IssueRegistrationToken, IssuePlaceholderToken,
         CreateRegistrationToken, CreatePasswordResetToken, FindRegistrant,
         VerifyUser, SpendRegistrationToken, SpendAnswer, PasswordStep,
         DeleteResetToken, CreateResetToken, FindResetUser, ReplacePassword,
         SpendResetToken, GoogleStep, LinkGoogleId, CreateGoogleProfile,
         CreateGoogleUser, Goto, Answer
<1>3. input' = input
  BY <1>2 DEF EmitUserRegistered, EmitPasswordResetAttempt, EmitAndAnswer,
              Answer
<1>4. ~EmitPasswordResetAttempt(r)
  BY <1>3 DEF EmitPasswordResetAttempt, EmitAndAnswer, Control, ResetLabels,
              Asked
<1> QED
  BY <1>2, <1>3, <1>4
     DEF EmitUserRegistered, EmitAndAnswer, RegisterMail, Email, AnyMail

\* Without a fault, a reset is refused only because its place is taken.
LEMMA RefusedResetLostPlace ==
  ASSUME IInv, [Next]_vars, faults' = 0, NEW r \in Requests,
         Asked(r, "reset")', pc'[r] = "500", pc[r] # "500"
  PROVE  /\ input'[r] = input[r] /\ input[r].email \in Emails
         /\ pc[r] \in BeforeIssue
         /\ passwordResetTokens[input[r].email] # None
PROOF
<1> USE DEF IInv, TypeOK
<1>1. ~Arrival(r)
  BY DEF Asked, Arrival, RegisterUser, RefuseTerms, ConfirmRegistration,
         ResetPassword, ConfirmPasswordReset, LoginWithGoogle,
         LoginWithoutEmail, Arrives
<1>2. pc[r] # "idle"
  BY <1>1, MovesItself
     DEF HandlerStep, RegistrationStep, ClearRegistrationToken,
         ClearPasswordToken, PurgeRegistrationToken, PurgePasswordToken,
         DeleteRegistrationToken, DeletePasswordResetToken, FindRegistered,
         UpdateProfile, SavePassword, SaveUser, CreateProfile,
         CreateUserProfile, CreateRegisteredUser, CreateUser,
         IssueRegistrationToken, IssuePlaceholderToken,
         CreateRegistrationToken, CreatePasswordResetToken,
         EmitUserRegistered, EmitAndAnswer, FindRegistrant, VerifyUser,
         SpendRegistrationToken, PasswordStep, DeleteResetToken,
         CreateResetToken, EmitPasswordResetAttempt, FindResetUser,
         ReplacePassword, SpendResetToken, GoogleStep, LinkGoogleId,
         CreateGoogleProfile, CreateGoogleUser
<1>3. input'[r] = input[r] /\ Asked(r, "reset")
  BY <1>2, StepAdvances DEF Advances, Control, Asked
<1>4. CreateResetToken(r)
  <2>1. pc[r] \notin RegisterLabels \cup ConfirmRegisterLabels
                       \cup ConfirmResetLabels \cup GoogleLabels
    BY <1>3 DEF Control, Asked
  <2>2. ~RegistrationStep(r) /\ ~GoogleStep(r)
    BY <2>1
       DEF RegisterLabels, ConfirmRegisterLabels, GoogleLabels,
           RegistrationStep, ClearRegistrationToken, ClearPasswordToken,
           PurgeRegistrationToken, PurgePasswordToken,
           DeleteRegistrationToken, DeletePasswordResetToken,
           FindRegistered, UpdateProfile, SavePassword, SaveUser,
           CreateProfile, CreateUserProfile, CreateRegisteredUser,
           CreateUser, IssueRegistrationToken, IssuePlaceholderToken,
           CreateRegistrationToken, CreatePasswordResetToken,
           EmitUserRegistered, EmitAndAnswer, FindRegistrant, VerifyUser,
           SpendRegistrationToken, GoogleStep, LinkGoogleId,
           CreateGoogleProfile, CreateGoogleUser
  <2>3. PasswordStep(r)
    BY <1>1, <2>2, MovesItself DEF HandlerStep
  <2> QED
    BY <2>1, <2>3
       DEF ConfirmResetLabels, PasswordStep, DeleteResetToken,
           EmitPasswordResetAttempt, EmitAndAnswer, FindResetUser,
           ReplacePassword, SaveUser, SpendResetToken, Answer
<1> QED
  BY <1>3, <1>4
     DEF CreateResetToken, CreatePasswordResetToken, UniqueEmail, Goto,
         Control, ResetLabels, BeforeIssue

\* The reset token of e was there before with its value.
WasStored(e) ==
  /\ passwordResetTokens[e] # None
  /\ passwordResetTokens'[e].value = passwordResetTokens[e].value

\* Request r creates the reset token of e, and will send a link.
CreatesFor(r, e) ==
  /\ input[r] # None /\ input[r].email = e /\ input'[r] = input[r]
  /\ pc'[r] \in {"emitRegistered", "emitReset"}
  /\ passwordResetTokens'[e].value = r

\* A reset token was there, or is created by a request that will send a link.
LEMMA ResetTokenComes ==
  ASSUME IInv, [Next]_vars, NEW e \in Emails, passwordResetTokens'[e] # None
  PROVE  WasStored(e) \/ \E r \in Requests : CreatesFor(r, e)
PROOF
<1> USE DEF IInv, TypeOK
<1>a. UNCHANGED passwordResetTokens => WasStored(e)
  BY DEF WasStored
<1>1. ASSUME NEW q \in Requests, Arrival(q)
      PROVE  UNCHANGED passwordResetTokens
  BY <1>1
     DEF Arrival, RegisterUser, RefuseTerms, ConfirmRegistration,
         ResetPassword, ConfirmPasswordReset, LoginWithGoogle,
         LoginWithoutEmail, tokens
<1>2. ASSUME NEW q \in Requests, NEW token \in Token, NEW email \in Emails,
             NEW from, NEW to \in {"emitRegistered", "emitReset"},
             input[q] # None, input[q].email = email, token.value = q,
             CreatePasswordResetToken(q, email, token, from, to)
      PROVE  WasStored(e) \/ CreatesFor(q, e)
  <2>1. CASE UNCHANGED passwordResetTokens
    BY <1>a, <2>1
  <2>2. CASE /\ passwordResetTokens' =
                  [passwordResetTokens EXCEPT ![email] = token]
             /\ Goto(q, to)
    BY <1>2, <2>2 DEF Goto, CreatesFor, WasStored
  <2> QED
    BY <1>2, <2>1, <2>2 DEF CreatePasswordResetToken
<1>3. ASSUME NEW q \in Requests,
             \/ ClearPasswordToken(q) \/ PurgePasswordToken(q)
             \/ DeleteResetToken(q)
      PROVE  WasStored(e)
  <2>1. passwordResetTokens'[e] = passwordResetTokens[e]
    BY <1>3 DEF ClearPasswordToken, PurgePasswordToken,
                DeletePasswordResetToken, DeleteResetToken
  <2> QED
    BY <2>1 DEF WasStored
<1>4. ASSUME NEW q \in Requests, IssuePlaceholderToken(q)
      PROVE  WasStored(e) \/ CreatesFor(q, e)
  <2>1. PlaceholderToken(q) \in Token /\ PlaceholderToken(q).value = q
    BY DEF PlaceholderToken, Token
  <2>2. input[q] # None /\ input[q].email \in Emails
    BY <1>4 DEF IssuePlaceholderToken, CreatePasswordResetToken, Control,
                RegisterLabels, Asked
  <2> QED
    BY <1>2, <1>4, <2>1, <2>2 DEF IssuePlaceholderToken, Email
<1>5. ASSUME NEW q \in Requests, CreateResetToken(q)
      PROVE  WasStored(e) \/ CreatesFor(q, e)
  <2>1. pc[q] = "createResetToken"
    BY <1>5 DEF CreateResetToken, CreatePasswordResetToken
  <2>2. /\ input[q] # None /\ input[q].email \in Emails
        /\ held[q] \in HeldToken
    BY <2>1 DEF Control, ResetLabels, Asked
  <2>3. ResetToken(q) \in Token /\ ResetToken(q).value = q
    BY <2>2 DEF ResetToken, Token, HeldToken
  <2> QED
    BY <1>2, <1>5, <2>2, <2>3 DEF CreateResetToken
<1>6. ASSUME NEW q \in Requests, SpendResetToken(q) PROVE WasStored(e)
  <2>1. CASE UNCHANGED passwordResetTokens
    BY <1>a, <2>1
  <2>2. ASSUME NEW d \in Emails, passwordResetTokens[d] # None,
               passwordResetTokens' =
                 [passwordResetTokens EXCEPT ![d].expiryDate = now]
        PROVE  WasStored(e)
    BY <2>2 DEF WasStored, Token
  <2>3. held[q].email \in Emails
    BY <1>6 DEF Control, ConfirmResetLabels, HeldToken, SpendResetToken
  <2> QED
    BY <1>6, <2>1, <2>2, <2>3
       DEF SpendResetToken, Spend, Stored, SpentExpiry
<1>7. ASSUME NEW q \in Requests, RegistrationStep(q)
      PROVE  WasStored(e) \/ CreatesFor(q, e)
  <2>1. CASE UNCHANGED passwordResetTokens
    BY <1>a, <2>1
  <2>2. CASE ~UNCHANGED passwordResetTokens
    <3>1. \/ ClearPasswordToken(q) \/ PurgePasswordToken(q)
          \/ IssuePlaceholderToken(q)
      BY <1>7, <2>2
         DEF RegistrationStep, ClearRegistrationToken,
             PurgeRegistrationToken, DeleteRegistrationToken, FindRegistered,
             UpdateProfile, SavePassword, SaveUser, CreateProfile,
             CreateUserProfile, CreateRegisteredUser, CreateUser,
             IssueRegistrationToken, CreateRegistrationToken,
             EmitUserRegistered, EmitAndAnswer, FindRegistrant, VerifyUser,
             SpendRegistrationToken, tokens
    <3> QED
      BY <1>3, <1>4, <3>1
  <2> QED
    BY <2>1, <2>2
<1>8. ASSUME NEW q \in Requests, PasswordStep(q)
      PROVE  WasStored(e) \/ CreatesFor(q, e)
  <2>1. CASE \/ EmitPasswordResetAttempt(q) \/ FindResetUser(q)
             \/ ReplacePassword(q)
    BY <1>a, <2>1
       DEF EmitPasswordResetAttempt, EmitAndAnswer, FindResetUser,
           ReplacePassword, SaveUser, tokens
  <2> QED
    BY <1>3, <1>5, <1>6, <1>8, <2>1 DEF PasswordStep
<1>9. ASSUME NEW q \in Requests, GoogleStep(q) \/ Abort(q)
      PROVE  UNCHANGED passwordResetTokens
  BY <1>9
     DEF GoogleStep, LinkGoogleId, CreateGoogleProfile, CreateUserProfile,
         CreateGoogleUser, CreateUser, Abort, tokens
<1>10. ASSUME NEW m \in mailQueue, SendMail(m) \/ MailRefused(m)
       PROVE  UNCHANGED passwordResetTokens
  BY <1>10 DEF SendMail, MailRefused, tokens
<1>11. Crash \/ Tick \/ Finished \/ UNCHANGED vars =>
         UNCHANGED passwordResetTokens
  BY DEF Crash, Tick, Finished, vars, tokens
<1> QED
  BY <1>a, <1>1, <1>7, <1>8, <1>9, <1>10, <1>11 DEF Next, HandlerStep

\* Every step keeps the links on their way.
LEMMA PromisesPreserved ==
  IInv /\ PromisesInv /\ [Next]_vars => PromisesInv'
PROOF
<1> SUFFICES ASSUME IInv, PromisesInv, [Next]_vars, faults' = 0
             PROVE  PromisesInv'
  BY DEF PromisesInv
<1>a. faults = 0
  BY AsksOrFails
<1>b. \A q \in Requests, e \in Emails : OnItsWay(q, e) => OnItsWay(q, e)'
  BY OnItsWayStays
<1>1. ASSUME NEW e \in Emails, passwordResetTokens'[e] # None
      PROVE  \A q \in Requests :
               q = passwordResetTokens'[e].value => OnItsWay(q, e)'
  <2> SUFFICES ASSUME NEW q \in Requests, q = passwordResetTokens'[e].value
               PROVE  OnItsWay(q, e)'
    OBVIOUS
  <2>1. CASE WasStored(e)
    BY <1>a, <1>b, <2>1 DEF WasStored, PromisesInv
  <2>2. ASSUME NEW r \in Requests, CreatesFor(r, e) PROVE OnItsWay(q, e)'
    BY <2>2 DEF CreatesFor, OnItsWay
  <2> QED
    BY <1>1, <2>1, <2>2, ResetTokenComes
<1>2. ASSUME NEW e \in Emails, passwordResetTokens'[e] # None
      PROVE  passwordResetTokens'[e].value \in Requests
  BY <1>2, TypingPreserved DEF TypeOK, Token
<1>3. ASSUME NEW r \in Requests, Asked(r, "register")',
             pc'[r] = "AWAITING_EMAIL_VERIFICATION"
      PROVE  AnyMail("register", input[r].email, r)'
  <2>1. CASE pc[r] # "AWAITING_EMAIL_VERIFICATION"
    BY <1>3, <2>1, PromiseIsSent DEF AnyMail
  <2>2. CASE pc[r] = "AWAITING_EMAIL_VERIFICATION"
    <3>1. input'[r] = input[r] /\ Asked(r, "register")
      BY <1>3, <2>2, StepAdvances DEF Advances, IInv, Control, Asked
    <3> QED
      BY <1>a, <2>2, <3>1, NoMailIsLost
         DEF PromisesInv, AnyMail, MailIsKept
  <2> QED
    BY <2>1, <2>2
<1>4. ASSUME NEW r \in Requests, Asked(r, "reset")', pc'[r] = "500"
      PROVE  \E q \in Requests \ {r} : OnItsWay(q, input[r].email)'
  <2>1. CASE pc[r] # "500"
    <3>1. /\ input'[r] = input[r] /\ input[r].email \in Emails
          /\ pc[r] \in BeforeIssue
          /\ passwordResetTokens[input[r].email] # None
      BY <1>4, <2>1, RefusedResetLostPlace
    <3>2. PICK q \in Requests : q = passwordResetTokens[input[r].email].value
      BY <3>1 DEF IInv, TypeOK, Token
    <3>3. q # r
      BY <3>1, <3>2 DEF IInv, TokensOK, PasswordResetTokenOK, Drawn
    <3>4. OnItsWay(q, input[r].email)
      BY <1>a, <3>1, <3>2 DEF PromisesInv
    <3> QED
      BY <1>b, <3>1, <3>3, <3>4 DEF OnItsWay, AnyMail
  <2>2. CASE pc[r] = "500"
    <3>1. input'[r] = input[r] /\ Asked(r, "reset")
      BY <1>4, <2>2, StepAdvances DEF Advances, IInv, Control, Asked
    <3>2. PICK q \in Requests \ {r} : OnItsWay(q, input[r].email)
      BY <1>a, <2>2, <3>1 DEF PromisesInv
    <3> QED
      BY <3>1, <3>2, OnItsWayStays DEF OnItsWay, AnyMail
  <2> QED
    BY <2>1, <2>2
<1> QED
  BY <1>1, <1>2, <1>3, <1>4 DEF PromisesInv

\* When everything has settled without a fault, whoever was promised a link has
\* it in the mailbox, and whoever was refused one has that of another request,
\* for any number of registrations and resets that replace each other's tokens.
THEOREM PromisesAreKept == Spec => []SettledPromisesAreKept
<1>1. Init => PromisesInv
  BY DEF Init, PromisesInv, Asked
<1>2. IInv /\ PromisesInv => SettledPromisesAreKept
  <2> SUFFICES ASSUME IInv, PromisesInv, Quiescent, faults = 0
               PROVE  SettledPromisesAreKept
    BY DEF SettledPromisesAreKept
  <2>1. ASSUME NEW q \in Requests, NEW e, OnItsWay(q, e)
        PROVE  \E kind \in {"reset", "register"} : Mailed(kind, e, q)
    BY <2>1 DEF OnItsWay, AnyMail, Mailed, Quiescent, Running, Labels,
                RegisterLabels, ResetLabels
  <2>2. ASSUME NEW r \in Requests, Asked(r, "register"),
               pc[r] = "AWAITING_EMAIL_VERIFICATION"
        PROVE  Delivered(r)
    BY <2>2 DEF PromisesInv, AnyMail, Delivered, Mailed, Quiescent
  <2>3. ASSUME NEW r \in Requests, Asked(r, "reset"), pc[r] = "500"
        PROVE  \E kind \in {"reset", "register"}, q \in Requests \ {r} :
                 LinkFor(r, kind, q)
    BY <2>1, <2>3 DEF PromisesInv, LinkFor, Asked
  <2>4. ASSUME NEW e \in Emails, passwordResetTokens[e] # None
        PROVE  \E kind \in {"reset", "register"} :
                 Mailed(kind, e, passwordResetTokens[e].value)
    BY <2>1, <2>4 DEF PromisesInv, IInv, TypeOK, Token
  <2> QED
    BY <2>2, <2>3, <2>4 DEF SettledPromisesAreKept
<1> QED
  BY <1>1, <1>2, Invariance, PromisesPreserved, PTL DEF Spec

-----------------------------------------------------------------------------

\* No two users have one googleId, and no two are without one.
GoogleIdsAreUnique ==
  \A d, e \in Emails :
    Exists(d) /\ Exists(e) /\ d # e => users[d].googleId # users[e].googleId

\* A step that leaves each googleId, or gives one user one nobody has, keeps
\* them unique.
LEMMA GoogleIdsPreserved ==
  IInv /\ GoogleIdsAreUnique /\ [Next]_vars => GoogleIdsAreUnique'
PROOF
<1> SUFFICES ASSUME IInv, GoogleIdsAreUnique, [Next]_vars
             PROVE  GoogleIdsAreUnique'
  OBVIOUS
<1> USE DEF IInv, TypeOK
<1>1. ASSUME NEW e \in Emails, NEW user \in User, Exists(e),
             user.googleId = users[e].googleId,
             users' = [users EXCEPT ![e] = user]
      PROVE  GoogleIdsAreUnique'
  BY <1>1, NoneAssumption DEF GoogleIdsAreUnique, Exists
<1>2. ASSUME NEW e \in Emails, NEW user \in User,
             \A d \in Emails \ {e} :
               Exists(d) => users[d].googleId # user.googleId,
             users' = [users EXCEPT ![e] = user]
      PROVE  GoogleIdsAreUnique'
  BY <1>2, NoneAssumption DEF GoogleIdsAreUnique, Exists
<1>3. CASE users' = users
  BY <1>3 DEF GoogleIdsAreUnique, Exists
<1>4. ASSUME NEW r \in Requests, CreateRegisteredUser(r) \/ CreateGoogleUser(r)
      PROVE  GoogleIdsAreUnique'
  <2>1. /\ input[r].email \in Emails
        /\ RegisteredUser(r) \in User
        /\ CreateGoogleUser(r) => GoogleUser(input[r].googleId) \in User
    BY <1>4
       DEF CreateRegisteredUser, CreateGoogleUser, CreateUser, Control,
           RegisterLabels, GoogleLabels, RegisteredUser, GoogleUser, User
  <2> QED
    BY <1>2, <1>3, <1>4, <2>1
       DEF CreateRegisteredUser, CreateGoogleUser, CreateUser, UniqueUser,
           Exists, Email
<1>5. ASSUME NEW r \in Requests, SavePassword(r) PROVE GoogleIdsAreUnique'
  BY <1>1, <1>5, SavedUserExists DEF SavePassword, SaveUser, Email, User
<1>6. ASSUME NEW r \in Requests, VerifyUser(r) \/ ReplacePassword(r)
      PROVE  GoogleIdsAreUnique'
  <2> DEFINE e == held[r].email
             verified == [users[e] EXCEPT !.isEmailVerified = TRUE]
             replaced == [users[e] EXCEPT !.password = r]
  <2>1. e \in Emails /\ Exists(e) /\ users[e] \in User
    BY <1>6, SavedUserExists DEF VerifyUser, ReplacePassword, SaveUser
  <2>2. /\ verified \in User /\ verified.googleId = users[e].googleId
        /\ replaced \in User /\ replaced.googleId = users[e].googleId
    BY <2>1 DEF User
  <2>3. \/ users' = [users EXCEPT ![e] = verified]
        \/ users' = [users EXCEPT ![e] = replaced]
    BY <1>6 DEF VerifyUser, ReplacePassword, SaveUser
  <2> HIDE DEF e, verified, replaced
  <2> QED
    BY <1>1, <2>1, <2>2, <2>3
<1>7. ASSUME NEW r \in Requests, LinkGoogleId(r) PROVE GoogleIdsAreUnique'
  <2>1. input[r].email \in Emails /\ input[r].googleId \in GoogleIds
    BY <1>7 DEF LinkGoogleId, Control, GoogleLabels
  <2>2. [users[input[r].email] EXCEPT !.googleId = input[r].googleId] \in User
    BY <1>7, <2>1, SavedUserExists DEF LinkGoogleId, User
  <2> QED
    BY <1>2, <1>3, <1>7, <2>1, <2>2, SavedUserExists
       DEF LinkGoogleId, GoogleIdFree, Exists, User
<1> QED
  BY <1>3, <1>4, <1>5, <1>6, <1>7, StepWritesOrProves
     DEF ProvesOne, WritesUser

\* The googleId index is not sparse, and holds null too: at most one user is
\* without a googleId, whatever the number of e-mails.  Until that user logs in
\* with Google, no registration creates another.
THEOREM OneUserWithoutGoogle == Spec => []GoogleIdsAreUnique
<1>1. Init => GoogleIdsAreUnique
  BY DEF Init, GoogleIdsAreUnique, Exists
<1> QED
  BY <1>1, Invariance, GoogleIdsPreserved, PTL DEF Spec

-----------------------------------------------------------------------------

\* The handler of a confirmation is running.
Confirming(r) == pc[r] \in ConfirmRegisterLabels \cup ConfirmResetLabels

\* The token that a confirmation read has its user until the confirmation ends.
HeldTokensHaveUser ==
  \A r \in Requests : Confirming(r) => Exists(held[r].email)

\* Who confirms goes on with the token it holds, or has just read one.
LEMMA ConfirmationHolds ==
  ASSUME IInv, [Next]_vars, NEW r \in Requests, Confirming(r)'
  PROVE  \/ Confirming(r) /\ held'[r] = held[r]
         \/ \E e \in Emails :
              /\ registrationTokens[e] # None \/ passwordResetTokens[e] # None
              /\ held'[r].email = e
PROOF
<1> DEFINE Goes == Confirming(r) /\ held'[r] = held[r]
           Reads == \E e \in Emails :
             /\ registrationTokens[e] # None \/ passwordResetTokens[e] # None
             /\ held'[r].email = e
<1> USE DEF IInv, TypeOK, Confirming, ConfirmRegisterLabels,
            ConfirmResetLabels
<1>a. UNCHANGED <<pc, held>> => Goes
  OBVIOUS
<1>1. ASSUME NEW q \in Requests, ConfirmRegistration(q) PROVE Goes \/ Reads
  BY <1>1 DEF ConfirmRegistration, Arrives, Holders, Stored, Held
<1>2. ASSUME NEW q \in Requests, ConfirmPasswordReset(q) PROVE Goes \/ Reads
  BY <1>2 DEF ConfirmPasswordReset, Arrives, Holders, Stored, Held
<1>3. ASSUME NEW q \in Requests,
             \/ RegisterUser(q) \/ RefuseTerms(q) \/ ResetPassword(q)
             \/ LoginWithGoogle(q) \/ LoginWithoutEmail(q)
      PROVE  Goes
  BY <1>3
     DEF RegisterUser, HandleExistingUser, RefuseTerms, ResetPassword,
         LoginWithGoogle, GoogleNext, LoginWithoutEmail, Arrives
<1>4. ASSUME NEW q \in Requests, RegistrationStep(q) PROVE Goes
  <2>1. CASE \/ ClearRegistrationToken(q) \/ ClearPasswordToken(q)
             \/ PurgeRegistrationToken(q) \/ PurgePasswordToken(q)
             \/ FindRegistered(q) \/ UpdateProfile(q) \/ SavePassword(q)
    BY <2>1
       DEF ClearRegistrationToken, ClearPasswordToken,
           PurgeRegistrationToken, PurgePasswordToken,
           DeleteRegistrationToken, DeletePasswordResetToken,
           FindRegistered, UpdateProfile, SavePassword, SaveUser, Goto
  <2>2. CASE \/ CreateProfile(q) \/ CreateRegisteredUser(q)
             \/ IssueRegistrationToken(q) \/ IssuePlaceholderToken(q)
             \/ EmitUserRegistered(q)
    BY <2>2
       DEF CreateProfile, CreateUserProfile, CreateRegisteredUser,
           CreateUser, IssueRegistrationToken, IssuePlaceholderToken,
           CreateRegistrationToken, CreatePasswordResetToken,
           EmitUserRegistered, EmitAndAnswer, Goto, Answer
  <2>3. CASE \/ FindRegistrant(q) \/ VerifyUser(q)
             \/ SpendRegistrationToken(q)
    BY <2>3
       DEF FindRegistrant, VerifyUser, SaveUser, SpendRegistrationToken,
           SpendAnswer, Goto, Answer
  <2> QED
    BY <1>4, <2>1, <2>2, <2>3 DEF RegistrationStep
<1>5. ASSUME NEW q \in Requests, PasswordStep(q) PROVE Goes
  <2>1. CASE DeleteResetToken(q) \/ CreateResetToken(q)
             \/ EmitPasswordResetAttempt(q)
    BY <2>1
       DEF DeleteResetToken, CreateResetToken, CreatePasswordResetToken,
           EmitPasswordResetAttempt, EmitAndAnswer, Goto, Answer
  <2>2. CASE FindResetUser(q) \/ ReplacePassword(q) \/ SpendResetToken(q)
    BY <2>2
       DEF FindResetUser, ReplacePassword, SaveUser, SpendResetToken,
           SpendAnswer, Goto, Answer
  <2> QED
    BY <1>5, <2>1, <2>2 DEF PasswordStep
<1>6. ASSUME NEW q \in Requests, GoogleStep(q) \/ Abort(q) PROVE Goes
  BY <1>6
     DEF GoogleStep, LinkGoogleId, CreateGoogleProfile, CreateUserProfile,
         CreateGoogleUser, CreateUser, Goto, Answer, Abort
<1>7. ASSUME NEW m \in mailQueue, SendMail(m) \/ MailRefused(m) PROVE Goes
  BY <1>7 DEF SendMail, MailRefused, requests
<1>8. ASSUME Crash PROVE FALSE
  BY <1>8 DEF Crash, Running, Labels
<1>9. CASE Tick \/ Finished \/ UNCHANGED vars
  BY <1>9 DEF Tick, Finished, vars, requests
<1> QED
  BY <1>1, <1>2, <1>3, <1>4, <1>5, <1>6, <1>7, <1>8, <1>9
     DEF Next, Arrival, HandlerStep

\* No confirmation finds a token without its user, whatever failed or crashed
\* before: the two errors for that case are never thrown.
THEOREM NoTokenLacksItsUser == Spec => []HeldTokensHaveUser
<1>1. Init => HeldTokensHaveUser
  BY DEF Init, HeldTokensHaveUser, Confirming, ConfirmRegisterLabels,
         ConfirmResetLabels
<1>2. IInv /\ HeldTokensHaveUser /\ [Next]_vars => HeldTokensHaveUser'
  <2> SUFFICES ASSUME IInv, HeldTokensHaveUser, [Next]_vars,
                      NEW r \in Requests, Confirming(r)'
               PROVE  Exists(held[r].email)'
    BY DEF HeldTokensHaveUser
  <2>1. CASE Confirming(r) /\ held'[r] = held[r]
    <3>1. held[r].email \in Emails /\ Exists(held[r].email)
      BY <2>1 DEF HeldTokensHaveUser, Confirming, IInv, TypeOK, Control,
                  HeldToken
    <3> QED
      BY <2>1, <3>1, StepGrows DEF Grows, Exists
  <2>2. ASSUME NEW e \in Emails,
               registrationTokens[e] # None \/ passwordResetTokens[e] # None,
               held'[r].email = e
        PROVE  Exists(held[r].email)'
    <3>1. Exists(e)
      BY <2>2 DEF IInv, TokensOK, RegistrationTokenOK, PasswordResetTokenOK
    <3> QED
      BY <2>2, <3>1, StepGrows DEF Grows, Exists
  <2> QED
    BY <2>1, <2>2, ConfirmationHolds
<1> QED
  BY <1>1, <1>2, Invariance, PTL DEF Spec

-----------------------------------------------------------------------------

\* How many awaits a handler has before it at most.
AwaitsLeft(label) ==
  CASE label \in {"emitRegistered", "emitReset", "spendRegistration",
                  "spendReset", "createGoogleUser", "linkGoogleId"} -> 1
    [] label \in {"createPasswordToken", "createResetToken", "verifyUser",
                  "replacePassword", "createGoogleProfile"} -> 2
    [] label \in {"createRegistrationToken", "deleteResetToken",
                  "findRegistrant", "findResetUser"} -> 3
    [] label = "purgePasswordToken" -> 4
    [] label = "purgeRegistrationToken" -> 5
    [] label \in {"savePassword", "createUser"} -> 6
    [] label \in {"updateProfile", "createProfile"} -> 7
    [] label = "findRegistered" -> 8
    [] label = "clearPasswordToken" -> 9
    [] label = "clearRegistrationToken" -> 10
    [] OTHER -> 0

\* A request that is being handled stays where it is, or comes closer to its
\* answer.
ComesCloser(r) ==
  Running(r) =>
    \/ pc'[r] = pc[r] \/ Ended(r)'
    \/ AwaitsLeft(pc'[r]) \in 1..(AwaitsLeft(pc[r]) - 1)

\* No handler goes back to an await it has passed.
LEMMA StepComesCloser ==
  ASSUME IInv, [Next]_vars, NEW r \in Requests
  PROVE  ComesCloser(r)
PROOF
<1> SUFFICES ASSUME Running(r), pc'[r] # pc[r], ~(Ended(r)')
             PROVE  AwaitsLeft(pc'[r]) \in 1..(AwaitsLeft(pc[r]) - 1)
  BY DEF ComesCloser
<1> DEFINE Closer == AwaitsLeft(pc'[r]) \in 1..(AwaitsLeft(pc[r]) - 1)
<1> USE DEF IInv, TypeOK, Ended, Answers
<1>1. ASSUME NEW q \in Requests, Arrival(q) PROVE FALSE
  BY <1>1
     DEF Running, Labels, RegisterLabels, ConfirmRegisterLabels, ResetLabels,
         ConfirmResetLabels, GoogleLabels, Arrival, RegisterUser, RefuseTerms,
         ConfirmRegistration, ResetPassword, ConfirmPasswordReset,
         LoginWithGoogle, LoginWithoutEmail, Arrives
<1>2. ASSUME NEW q \in Requests, RegistrationStep(q) PROVE Closer
  <2>1. CASE \/ ClearRegistrationToken(q) \/ ClearPasswordToken(q)
             \/ PurgeRegistrationToken(q) \/ PurgePasswordToken(q)
             \/ FindRegistered(q) \/ UpdateProfile(q) \/ SavePassword(q)
    BY <2>1
       DEF ClearRegistrationToken, ClearPasswordToken,
           PurgeRegistrationToken, PurgePasswordToken,
           DeleteRegistrationToken, DeletePasswordResetToken,
           FindRegistered, UpdateProfile, SavePassword, SaveUser, Goto,
           AwaitsLeft
  <2>2. CASE \/ CreateProfile(q) \/ CreateRegisteredUser(q)
             \/ IssueRegistrationToken(q) \/ IssuePlaceholderToken(q)
             \/ EmitUserRegistered(q)
    BY <2>2
       DEF CreateProfile, CreateUserProfile, CreateRegisteredUser,
           CreateUser, IssueRegistrationToken, IssuePlaceholderToken,
           CreateRegistrationToken, CreatePasswordResetToken,
           EmitUserRegistered, EmitAndAnswer, Goto, Answer, AwaitsLeft
  <2>3. CASE \/ FindRegistrant(q) \/ VerifyUser(q)
             \/ SpendRegistrationToken(q)
    BY <2>3
       DEF FindRegistrant, VerifyUser, SaveUser, SpendRegistrationToken,
           SpendAnswer, Goto, Answer, AwaitsLeft
  <2> QED
    BY <1>2, <2>1, <2>2, <2>3 DEF RegistrationStep
<1>3. ASSUME NEW q \in Requests, PasswordStep(q) PROVE Closer
  <2>1. CASE \/ DeleteResetToken(q) \/ CreateResetToken(q)
             \/ EmitPasswordResetAttempt(q)
    BY <2>1
       DEF DeleteResetToken, CreateResetToken, CreatePasswordResetToken,
           EmitPasswordResetAttempt, EmitAndAnswer, Goto, Answer, AwaitsLeft
  <2>2. CASE FindResetUser(q) \/ ReplacePassword(q) \/ SpendResetToken(q)
    BY <2>2
       DEF FindResetUser, ReplacePassword, SaveUser, SpendResetToken,
           SpendAnswer, Goto, Answer, AwaitsLeft
  <2> QED
    BY <1>3, <2>1, <2>2 DEF PasswordStep
<1>4. ASSUME NEW q \in Requests, GoogleStep(q) PROVE Closer
  BY <1>4
     DEF GoogleStep, LinkGoogleId, CreateGoogleProfile, CreateUserProfile,
         CreateGoogleUser, CreateUser, Goto, Answer, AwaitsLeft
<1>5. ASSUME NEW q \in Requests, Abort(q) \/ Crash PROVE FALSE
  BY <1>5 DEF Abort, Crash
<1>6. ASSUME NEW m \in mailQueue, SendMail(m) \/ MailRefused(m) PROVE FALSE
  BY <1>6 DEF SendMail, MailRefused, requests
<1>7. CASE Tick \/ Finished \/ UNCHANGED vars
  BY <1>7 DEF Tick, Finished, vars, requests
<1> QED
  BY <1>1, <1>2, <1>3, <1>4, <1>5, <1>6, <1>7 DEF Next, HandlerStep

\* Every step of a handler brings its request closer to the answer, so none
\* awaits more than ten times: what EveryRequestIsAnswered needs besides that
\* every await settles.
THEOREM HandlersAreBounded ==
  Spec => [][\A r \in Requests : ComesCloser(r)]_vars
<1>1. IInv /\ [Next]_vars => [\A r \in Requests : ComesCloser(r)]_vars
  BY StepComesCloser
<1> QED
  BY <1>1, Invariance, PTL DEF Spec

=============================================================================
