---------------------------- MODULE SessionProofs ----------------------------
(***************************************************************************)
(* The composition with sessions implements AuthSystem, so that everything *)
(* proved of it still holds, and its own safety properties for every       *)
(* instance.  The argument is the inductive invariant SessionIInv; a step  *)
(* of a call leaves AuthSystem alone, and a step of AuthSystem takes       *)
(* nothing back of what a call knows.                                      *)
(***************************************************************************)
EXTENDS SessionInvariant, AuthSystemProofs

\* A step of a call is a stutter of AuthSystem.
LEMMA CallStutters ==
  ASSUME NEW c \in Calls, CallStep(c)
  PROVE  UNCHANGED vars
BY DEF CallStep, Login, SignSession, GoogleAuthRedirect, PlaceTokenHold,
       GetTokenHold, GetProfile, GetUserProfile, CallFails

\* A step of the composition is a step of AuthSystem or a stutter of it.
LEMMA SessionStepIsStep == [SessionNext]_sessionVars => [Next]_vars
PROOF
<1> SUFFICES ASSUME [SessionNext]_sessionVars PROVE [Next]_vars
  OBVIOUS
<1>1. CASE AuthStep
  BY <1>1 DEF AuthStep, Next
<1>2. ASSUME NEW c \in Calls, CallStep(c) PROVE [Next]_vars
  BY <1>2, CallStutters
<1>3. CASE CrashAll
  BY <1>3 DEF CrashAll, Next
<1>4. CASE AllDone
  BY <1>4 DEF AllDone, Next
<1>5. CASE UNCHANGED sessionVars
  BY <1>5 DEF sessionVars
<1> QED
  BY <1>1, <1>2, <1>3, <1>4, <1>5 DEF SessionNext

\* Logins, redirects, exchanges and profile reads disturb nothing: seen without
\* its calls, the composition behaves as AuthSystem.
THEOREM SessionImplementsAuthSystem == SessionSpec => Spec
<1>1. SessionInit => Init
  BY DEF SessionInit
<1> QED
  BY <1>1, SessionStepIsStep, PTL DEF SessionSpec, Spec

-----------------------------------------------------------------------------

\* The provenance of a password is history: no step takes it back.
LEMMA ProvenanceStays ==
  ASSUME Advances, Grows, NEW p \in Requests, NEW e, PasswordFrom(p, e)
  PROVE  PasswordFrom(p, e)'
BY DEF Advances, Grows, PasswordFrom, Asked, Mailed

\* Nor what a call knows of an account.
LEMMA AccountStays ==
  ASSUME Grows, NEW e \in Emails
  PROVE  /\ Exists(e) => Exists(e)'
         /\ profiles[e] # None => profiles'[e] # None
         /\ Linked(e) => Linked(e)'
BY DEF Grows, Linked, Verified, Exists

\* A call that stays where it is still knows what it knew.
LEMMA CallStays ==
  ASSUME SessionIInv, Advances, Grows, NEW c \in Calls,
         at'[c] = at[c], call'[c] = call[c], signed'[c] = signed[c]
  PROVE  CallKnows(c)' /\ LoginKnows(c)'
PROOF
<1>1. CallKnows(c) /\ LoginKnows(c)
  BY DEF SessionIInv, CallsOK
<1>2. CallKnows(c)'
  BY <1>1, AccountStays
     DEF SessionIInv, SessionTypeOK, CallKnows, AccessToken
<1>3. LoginKnows(c)'
  BY <1>1, ProvenanceStays DEF LoginKnows
<1> QED
  BY <1>2, <1>3

\* The access tokens and holds that are there keep their accounts.
LEMMA TokensStay ==
  ASSUME SessionIInv, Grows, NEW t \in granted \cup Waiting
  PROVE  /\ Exists(t.email)'
         /\ profiles'[t.email] # None
         /\ t \in Waiting => Linked(t.email)'
PROOF
<1>1. t.email \in Emails
  BY DEF SessionIInv, SessionTypeOK, Waiting, TokenHold, AccessToken
<1>2. Exists(t.email) /\ profiles[t.email] # None
  BY DEF SessionIInv, TokensNameAccounts
<1>3. t \in Waiting => Linked(t.email)
  BY DEF SessionIInv, HoldIsForGoogleUser, Linked
<1> QED
  BY <1>1, <1>2, <1>3, AccountStays

-----------------------------------------------------------------------------

\* A user that was found is of an e-mail of the model.
LEMMA FoundUser ==
  ASSUME SessionIInv, NEW r \in LoggedIn
  PROVE  /\ input[r].email \in Emails
         /\ Linked(input[r].email)
BY DEF SessionIInv, IInv, Control, AccountsOK, AccountsKnown, LoggedIn, Linked

\* A token signed now is an access token.
LEMMA SignedType ==
  ASSUME SessionIInv, NEW e \in Emails
  PROVE  Signed(e) \in AccessToken
BY SessionAssumption DEF SessionIInv, IInv, TypeOK, Signed, AccessToken

\* Every step of the composition preserves its types.
LEMMA SessionTypingPreserved ==
  SessionIInv /\ [SessionNext]_sessionVars => SessionTypeOK'
PROOF
<1> SUFFICES ASSUME SessionIInv, [SessionNext]_sessionVars
             PROVE  SessionTypeOK'
  OBVIOUS
<1>a. SessionTypeOK
  BY DEF SessionIInv
<1>1. ASSUME NEW c \in Calls, Login(c) PROVE SessionTypeOK'
  BY <1>1, <1>a, LowerAssumption
     DEF SessionTypeOK, Login, Calling, Call, CallLabels, CallAnswers
<1>2. ASSUME NEW c \in Calls, SignSession(c) PROVE SessionTypeOK'
  <2>1. Signed(call[c].email) \in AccessToken
    BY <1>2, SignedType DEF SessionIInv, CallsOK, CallKnows, SignSession
  <2> QED
    BY <1>2, <1>a, <2>1 DEF SessionTypeOK, SignSession, Ends, CallAnswers
<1>3. ASSUME NEW c \in Calls, GoogleAuthRedirect(c) PROVE SessionTypeOK'
  <2>1. PICK r \in LoggedIn :
          /\ Calling(c, "redirect", input[r].email, r, "placeHold")
          /\ signed' = [signed EXCEPT ![c] = Signed(input[r].email)]
          /\ redirected' = redirected \cup {r}
    BY <1>3 DEF GoogleAuthRedirect
  <2>2. input[r].email \in Emails /\ Signed(input[r].email) \in AccessToken
    BY FoundUser, SignedType
  <2>3. r \in Requests
    BY DEF LoggedIn
  <2> QED
    BY <1>3, <1>a, <2>1, <2>2, <2>3
       DEF SessionTypeOK, GoogleAuthRedirect, Calling, Call, CallLabels
<1>4. ASSUME NEW c \in Calls, PlaceTokenHold(c) PROVE SessionTypeOK'
  <2>1. signed[c] \in AccessToken
    BY <1>4, <1>a
       DEF SessionTypeOK, SessionIInv, CallsOK, CallKnows, PlaceTokenHold
  <2>2. now + HoldTTL \in Nat
    BY SessionAssumption DEF SessionIInv, IInv, TypeOK
  <2> QED
    BY <1>4, <1>a, <2>1, <2>2
       DEF SessionTypeOK, PlaceTokenHold, TokenHold, Ends, CallAnswers
<1>5. ASSUME NEW c \in Calls, GetTokenHold(c) PROVE SessionTypeOK'
  BY <1>5, <1>a
     DEF SessionTypeOK, GetTokenHold, Calling, Call, CallAnswers, TokenHold,
         AccessToken
<1>6. ASSUME NEW c \in Calls, GetProfile(c) PROVE SessionTypeOK'
  BY <1>6, <1>a
     DEF SessionTypeOK, GetProfile, Calling, Call, CallLabels, CallAnswers,
         AccessToken
<1>7. ASSUME NEW c \in Calls, GetUserProfile(c) PROVE SessionTypeOK'
  BY <1>7, <1>a DEF SessionTypeOK, GetUserProfile, Ends, CallAnswers
<1>8. ASSUME NEW c \in Calls, CallFails(c) PROVE SessionTypeOK'
  BY <1>8, <1>a DEF SessionTypeOK, CallFails, Ends, CallAnswers
<1>9. CASE CrashAll
  BY <1>9, <1>a DEF SessionTypeOK, CrashAll, LoggedIn, CallAnswers
<1>10. CASE UNCHANGED session
  BY <1>10, <1>a DEF SessionTypeOK, session
<1> QED
  BY <1>1, <1>2, <1>3, <1>4, <1>5, <1>6, <1>7, <1>8, <1>9, <1>10
     DEF SessionNext, AuthStep, CallStep, AllDone, sessionVars

\* What every call knows survives every step.
LEMMA CallsPreserved ==
  SessionIInv /\ [SessionNext]_sessionVars => CallsOK'
PROOF
<1> SUFFICES ASSUME SessionIInv, [SessionNext]_sessionVars PROVE CallsOK'
  OBVIOUS
<1>a. Advances /\ Grows
  BY SessionStepIsStep, StepAdvances, StepGrows DEF SessionIInv
<1>b. SessionTypeOK
  BY DEF SessionIInv
<1>c. ASSUME NEW k \in Calls, at'[k] = at[k], call'[k] = call[k],
             signed'[k] = signed[k]
      PROVE  CallKnows(k)' /\ LoginKnows(k)'
  BY <1>a, <1>c, CallStays
<1>d. ASSUME NEW k \in Calls,
             at'[k] \in CallAnswers, at'[k] # "SESSION" \/ call'[k].op # "login"
      PROVE  CallKnows(k)' /\ LoginKnows(k)'
  BY <1>d DEF CallKnows, LoginKnows, CallAnswers
<1>1. ASSUME NEW c \in Calls, Login(c) PROVE CallsOK'
  <2>1. PICK e \in Emails, p \in Requests :
          Calling(c, "login", Lower[e], p,
                  IF Matches(users[Lower[e]], p) THEN "signSession" ELSE "401")
    BY <1>1 DEF Login
  <2>2. Lower[e] \in Emails
    BY LowerAssumption
  <2>3. call'[c] = [op |-> "login", email |-> Lower[e], by |-> p]
    BY <1>b, <2>1 DEF Calling, SessionTypeOK
  <2>4. CASE Matches(users[Lower[e]], p)
    <3>1. Exists(Lower[e]) /\ PasswordFrom(p, Lower[e])
      BY <2>2, <2>4
         DEF SessionIInv, IInv, PasswordProvenance, Matches, Exists
    <3>2. at'[c] = "signSession" /\ users' = users
      BY <1>1, <1>b, <2>1, <2>4
         DEF Calling, SessionTypeOK, Login, vars, accounts
    <3>3. PasswordFrom(p, Lower[e])'
      BY <1>a, <3>1, ProvenanceStays
    <3>4. Exists(Lower[e])'
      BY <1>a, <2>2, <3>1, AccountStays
    <3>5. call'[c] # None
      BY <1>1, <2>2, <2>3, NoneIsNoSession DEF Call
    <3> QED
      BY <2>2, <2>3, <3>2, <3>3, <3>4, <3>5, <1>c, <2>1, <1>b, <1>1
         DEF CallsOK, CallKnows, LoginKnows, Calling, SessionTypeOK, Login
  <2>5. CASE ~Matches(users[Lower[e]], p)
    <3>1. at'[c] = "401"
      BY <1>b, <2>1, <2>5 DEF Calling, SessionTypeOK
    <3> QED
      BY <3>1, <1>1, <1>b, <1>c, <1>d, <2>1
         DEF CallsOK, Calling, SessionTypeOK, Login, CallAnswers
  <2> QED
    BY <2>4, <2>5
<1>2. ASSUME NEW c \in Calls, SignSession(c) PROVE CallsOK'
  <2>1. at'[c] = "SESSION" /\ call'[c] = call[c]
    BY <1>2, <1>b DEF SignSession, Ends, SessionTypeOK
  <2>2. LoginKnows(c)'
    BY <1>2, <1>a, <2>1, ProvenanceStays
       DEF SessionIInv, CallsOK, LoginKnows, SignSession
  <2>3. CallKnows(c)'
    BY <2>1 DEF CallKnows
  <2> QED
    BY <1>2, <1>b, <1>c, <2>2, <2>3
       DEF CallsOK, SignSession, Ends, SessionTypeOK
<1>3. ASSUME NEW c \in Calls, GoogleAuthRedirect(c) PROVE CallsOK'
  <2>1. PICK r \in LoggedIn :
          /\ Calling(c, "redirect", input[r].email, r, "placeHold")
          /\ signed' = [signed EXCEPT ![c] = Signed(input[r].email)]
    BY <1>3 DEF GoogleAuthRedirect
  <2>2. PICK e \in Emails : e = input[r].email
    BY FoundUser
  <2>3. Linked(e)'
    BY <1>a, <2>2, FoundUser, AccountStays
  <2>4. /\ at'[c] = "placeHold"
        /\ signed'[c] = [email |-> e, expiry |-> now + AccessTTL]
        /\ signed'[c] # None
    BY <1>b, <2>1, <2>2, SignedType, NoneIsNoSession
       DEF Calling, SessionTypeOK, Signed
  <2>5. CallKnows(c)' /\ LoginKnows(c)'
    BY <2>3, <2>4 DEF CallKnows, LoginKnows
  <2> QED
    BY <1>b, <1>c, <2>1, <2>5 DEF CallsOK, Calling, SessionTypeOK
<1>4. ASSUME NEW c \in Calls, PlaceTokenHold(c) PROVE CallsOK'
  BY <1>4, <1>b, <1>c, <1>d
     DEF CallsOK, PlaceTokenHold, Ends, SessionTypeOK, CallAnswers
<1>5. ASSUME NEW c \in Calls, GetTokenHold(c) PROVE CallsOK'
  <2>1. at'[c] \in {"SESSION", "401"} /\ call'[c].op = "exchange"
    BY <1>5, <1>b DEF GetTokenHold, Calling, SessionTypeOK
  <2> QED
    BY <1>5, <1>b, <1>c, <1>d, <2>1
       DEF CallsOK, GetTokenHold, Calling, SessionTypeOK, CallAnswers
<1>6. ASSUME NEW c \in Calls, GetProfile(c) PROVE CallsOK'
  <2>1. PICK t \in granted :
          Calling(c, "profile", t.email, None,
                  IF Valid(t) /\ users[t.email] # None
                  THEN "findProfile" ELSE "401")
    BY <1>6 DEF GetProfile
  <2>2. /\ t.email \in Emails
        /\ call'[c] = [op |-> "profile", email |-> t.email, by |-> None]
        /\ at'[c] \in {"findProfile", "401"}
    BY <1>b, <2>1 DEF Calling, SessionTypeOK, AccessToken
  <2>3. Exists(t.email)'
    BY <1>a, TokensStay
  <2>4. call'[c] # None
    BY <2>2, NoneIsNoSession DEF Call
  <2>5. CallKnows(c)' /\ LoginKnows(c)'
    BY <2>2, <2>3, <2>4 DEF CallKnows, LoginKnows
  <2> QED
    BY <1>6, <1>b, <1>c, <2>1, <2>5
       DEF CallsOK, GetProfile, Calling, SessionTypeOK
<1>7. ASSUME NEW c \in Calls, GetUserProfile(c) PROVE CallsOK'
  BY <1>7, <1>b, <1>c, <1>d
     DEF CallsOK, GetUserProfile, Ends, SessionTypeOK, CallAnswers
<1>8. ASSUME NEW c \in Calls, CallFails(c) PROVE CallsOK'
  BY <1>8, <1>b, <1>c, <1>d
     DEF CallsOK, CallFails, Ends, SessionTypeOK, CallAnswers
<1>9. CASE CrashAll
  <2> SUFFICES ASSUME NEW k \in Calls
               PROVE  CallKnows(k)' /\ LoginKnows(k)'
    BY DEF CallsOK
  <2>1. CASE at[k] \in CallLabels
    BY <1>9, <1>b, <1>d, <2>1 DEF CrashAll, SessionTypeOK, CallAnswers
  <2>2. CASE at[k] \notin CallLabels
    <3>1. CallKnows(k)'
      BY <1>9, <1>b, <2>2
         DEF CrashAll, SessionTypeOK, CallKnows, CallLabels
    <3>2. LoginKnows(k)'
      BY <1>9, <1>a, <1>b, <2>2, ProvenanceStays
         DEF CrashAll, SessionTypeOK, SessionIInv, CallsOK, LoginKnows,
             CallLabels
    <3> QED
      BY <3>1, <3>2
  <2> QED
    BY <2>1, <2>2
<1>10. CASE UNCHANGED session
  BY <1>10, <1>c DEF CallsOK, session
<1> QED
  BY <1>1, <1>2, <1>3, <1>4, <1>5, <1>6, <1>7, <1>8, <1>9, <1>10
     DEF SessionNext, AuthStep, CallStep, AllDone, sessionVars

-----------------------------------------------------------------------------

\* Every access token given or waiting still names an account.
LEMMA TokensNamed ==
  SessionIInv /\ [SessionNext]_sessionVars =>
    TokensNameAccounts' /\ HoldIsForGoogleUser'
PROOF
<1> SUFFICES ASSUME SessionIInv, [SessionNext]_sessionVars
             PROVE  TokensNameAccounts' /\ HoldIsForGoogleUser'
  OBVIOUS
<1>a. Grows /\ IInv'
  BY SessionStepIsStep, StepGrows, NextIInv DEF SessionIInv
<1>b. SessionTypeOK /\ CallsOK
  BY DEF SessionIInv
\* Only the save of a hold adds one, of the token its redirect has signed.
<1>1. ASSUME NEW t \in Waiting' PROVE Linked(t.email)'
  <2>1. CASE tokenHolds' = tokenHolds
    BY <1>a, <1>1, <2>1, TokensStay DEF Waiting
  <2>2. ASSUME NEW c \in Calls, PlaceTokenHold(c) PROVE Linked(t.email)'
    <3>1. t \in Waiting \/ t = signed[c]
      BY <1>1, <2>2 DEF Waiting, PlaceTokenHold
    <3>2. ASSUME t = signed[c] PROVE Linked(t.email)'
      <4>1. t.email \in Emails /\ Linked(t.email)
        BY <1>b, <2>2, <3>2
           DEF CallsOK, CallKnows, PlaceTokenHold, SessionTypeOK, AccessToken
      <4> QED
        BY <1>a, <4>1, AccountStays
    <3> QED
      BY <1>a, <3>1, <3>2, TokensStay
  <2> QED
    BY <2>1, <2>2
       DEF SessionNext, sessionVars, session, AuthStep, AllDone, CrashAll,
           CallStep, Login, SignSession, GoogleAuthRedirect, GetTokenHold,
           GetProfile, GetUserProfile, CallFails
\* A client is given a token that has just been signed, or that was waiting.
<1>2. ASSUME NEW t \in granted' PROVE t.email \in Emails /\ Exists(t.email)'
  <2>1. ASSUME t \in granted \cup Waiting
        PROVE  t.email \in Emails /\ Exists(t.email)'
    BY <1>a, <1>b, <2>1, TokensStay
       DEF SessionTypeOK, Waiting, TokenHold, AccessToken
  <2>2. ASSUME NEW c \in Calls, SignSession(c), t \notin granted
        PROVE  t.email \in Emails /\ Exists(t.email)'
    <3>1. t.email = call[c].email
      BY <1>2, <2>2 DEF SignSession, Signed
    <3>2. t.email \in Emails /\ Exists(t.email)
      BY <1>b, <2>2, <3>1 DEF CallsOK, CallKnows, SignSession
    <3> QED
      BY <1>a, <3>2, AccountStays
  <2>3. t \in granted \cup Waiting \/ \E c \in Calls : SignSession(c)
    BY <1>2
       DEF SessionNext, sessionVars, session, AuthStep, AllDone, CrashAll,
           CallStep, Login, GoogleAuthRedirect, PlaceTokenHold, GetTokenHold,
           GetProfile, GetUserProfile, CallFails, Waiting
  <2> QED
    BY <2>1, <2>2, <2>3
<1>3. ASSUME NEW e \in Emails, Exists(e)' PROVE profiles'[e] # None
  BY <1>a, <1>3 DEF IInv, AccountsOK, UserHasProfile
<1>4. ASSUME NEW t \in Waiting' PROVE t.email \in Emails
  BY <1>4, SessionTypingPreserved
     DEF SessionTypeOK, Waiting, TokenHold, AccessToken
\* Whoever read its user finds its profile.
<1>5. ASSUME NEW c \in Calls PROVE at'[c] # "EMPTY"
  <2>1. at[c] # "EMPTY"
    BY DEF SessionIInv, TokensNameAccounts
  <2>2. ASSUME GetUserProfile(c) PROVE at'[c] # "EMPTY"
    <3>1. profiles[call[c].email] # None
      BY <1>b, <2>2
         DEF CallsOK, CallKnows, GetUserProfile, SessionIInv, IInv, AccountsOK,
             UserHasProfile
    <3> QED
      BY <1>b, <2>2, <3>1 DEF GetUserProfile, Ends, SessionTypeOK
  <2>3. ASSUME NEW k \in Calls, CallStep(k), ~GetUserProfile(k)
        PROVE  at'[c] # "EMPTY"
    BY <1>b, <2>1, <2>3
       DEF CallStep, Login, SignSession, GoogleAuthRedirect, PlaceTokenHold,
           GetTokenHold, GetProfile, CallFails, Calling, Ends, SessionTypeOK
  <2>4. ASSUME NEW k \in Calls, GetUserProfile(k), k # c
        PROVE  at'[c] # "EMPTY"
    BY <1>b, <2>1, <2>4 DEF GetUserProfile, Ends, SessionTypeOK
  <2>5. CASE CrashAll
    BY <2>1, <2>5 DEF CrashAll
  <2>6. CASE UNCHANGED session
    BY <2>1, <2>6 DEF session
  <2> QED
    BY <2>2, <2>3, <2>4, <2>5, <2>6
       DEF SessionNext, sessionVars, AuthStep, AllDone
<1>6. TokensNameAccounts'
  BY <1>1, <1>2, <1>3, <1>4, <1>5 DEF TokensNameAccounts, Linked, Verified, Exists
<1>7. HoldIsForGoogleUser'
  BY <1>1 DEF HoldIsForGoogleUser, Linked
<1> QED
  BY <1>6, <1>7

\* No account, no call and no hold: the invariant holds at first.
LEMMA InitSessionIInv == SessionInit => SessionIInv
PROOF
<1> SUFFICES ASSUME SessionInit PROVE SessionIInv
  OBVIOUS
<1>1. IInv
  BY InitIInv DEF SessionInit
<1>2. SessionTypeOK
  BY DEF SessionInit, SessionTypeOK
<1>3. CallsOK
  BY DEF SessionInit, CallsOK, CallKnows, LoginKnows
<1>4. TokensNameAccounts /\ HoldIsForGoogleUser
  BY DEF SessionInit, TokensNameAccounts, HoldIsForGoogleUser, Waiting
<1> QED
  BY <1>1, <1>2, <1>3, <1>4 DEF SessionIInv

\* Every step of the composition preserves the invariant.
LEMMA NextSessionIInv ==
  SessionIInv /\ [SessionNext]_sessionVars => SessionIInv'
BY SessionStepIsStep, NextIInv, SessionTypingPreserved, CallsPreserved,
   TokensNamed DEF SessionIInv

\* The invariant holds in every reachable state of the composition.
THEOREM SessionInvariance == SessionSpec => []SessionIInv
BY InitSessionIInv, NextSessionIInv, PTL DEF SessionSpec

\* Every variable of Session keeps its type.
THEOREM SessionTyping == SessionSpec => []SessionTypeOK
<1>1. SessionIInv => SessionTypeOK
  BY DEF SessionIInv
<1> QED
  BY SessionInvariance, <1>1, PTL

\* Every access token, given or waiting in a hold, names a user with a profile,
\* and GET /profile with a valid one finds both.
THEOREM AccessTokensNameAccounts == SessionSpec => []TokensNameAccounts
<1>1. SessionIInv => TokensNameAccounts
  BY DEF SessionIInv
<1> QED
  BY SessionInvariance, <1>1, PTL

\* A token hold opens the account of a verified user with a Google account.
THEOREM HoldsAreForGoogleUsers == SessionSpec => []HoldIsForGoogleUser
<1>1. SessionIInv => HoldIsForGoogleUser
  BY DEF SessionIInv
<1> QED
  BY SessionInvariance, <1>1, PTL

\* A login that gave a session had a password its own account was given.
THEOREM LoginsProvePasswords == SessionSpec => []LoginProvesPassword
<1>1. SessionIInv => LoginProvesPassword
  BY DEF SessionIInv, CallsOK, LoginKnows, LoginProvesPassword
<1> QED
  BY SessionInvariance, <1>1, PTL

=============================================================================
