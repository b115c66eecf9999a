----------------------- MODULE SessionLifecycleProofs -----------------------
(***************************************************************************)
(* Session implements SessionLifecycle: every step of a handler, of the    *)
(* clock or of a failing process is one step of the life of sessions, or   *)
(* none.                                                                   *)
(***************************************************************************)
EXTENDS SessionProofs

\* A redirect alone holds an access token across an await.
InHandOK == \A c \in Calls : at[c] # "placeHold" => signed[c] = None

LifeInv == SessionIInv /\ InHandOK

Sessions == granted \cup Waiting \cup InHand

-----------------------------------------------------------------------------
\* Only a redirect puts a token in hand, and its next step lets go of it.
LEMMA InHandPreserved == LifeInv /\ [SessionNext]_sessionVars => InHandOK'
<1> SUFFICES ASSUME LifeInv, [SessionNext]_sessionVars PROVE InHandOK'
  OBVIOUS
<1> USE DEF LifeInv, InHandOK
<1>a. SessionTypeOK
  BY DEF SessionIInv
<1>1. ASSUME NEW c \in Calls, CallStep(c) PROVE InHandOK'
  <2>1. \/ at' = [at EXCEPT ![c] = "placeHold"]
        \/ \E next : at' = [at EXCEPT ![c] = next] /\ signed'[c] = None
    BY <1>1, <1>a DEF SessionTypeOK, CallStep, Login, SignSession,
         GoogleAuthRedirect, PlaceTokenHold, GetTokenHold, GetProfile,
         GetUserProfile, CallFails, Calling, Ends
  <2>2. \A k \in Calls \ {c} : at'[k] = at[k] /\ signed'[k] = signed[k]
    BY <1>1, <1>a DEF SessionTypeOK, CallStep, Login, SignSession,
         GoogleAuthRedirect, PlaceTokenHold, GetTokenHold, GetProfile,
         GetUserProfile, CallFails, Calling, Ends
  <2> QED
    BY <1>a, <2>1, <2>2 DEF SessionTypeOK
<1>2. CASE CrashAll
  BY <1>2 DEF CrashAll
<1>3. CASE AuthStep \/ AllDone \/ UNCHANGED sessionVars
  BY <1>3 DEF AuthStep, AllDone, sessionVars, session
<1> QED
  BY <1>1, <1>2, <1>3 DEF SessionNext

\* The invariant behind the life of sessions.
LEMMA LifeInvariance == SessionSpec => []LifeInv
<1>1. SessionInit => InHandOK
  BY DEF SessionInit, InHandOK
<1>2. LifeInv /\ [SessionNext]_sessionVars => LifeInv'
  BY InHandPreserved, NextSessionIInv DEF LifeInv
<1> QED
  BY <1>1, <1>2, InitSessionIInv, PTL DEF SessionSpec, LifeInv

-----------------------------------------------------------------------------
\* A step of one request: the others stay where they are.
OnlyMoves(r) == now' = now /\ \A q \in Requests \ {r} : pc'[q] = pc[q]

\* An arrival moves its own request.
LEMMA ArrivalMovesOne ==
  ASSUME TypeOK, NEW r \in Requests, Arrival(r)
  PROVE  OnlyMoves(r)
BY DEF TypeOK, Arrival, RegisterUser, RefuseTerms, ConfirmRegistration,
       ResetPassword, ConfirmPasswordReset, LoginWithGoogle,
       LoginWithoutEmail, Arrives, OnlyMoves

\* A step of RegistrationService moves its own request.
LEMMA RegistrationMovesOne ==
  ASSUME TypeOK, NEW r \in Requests, RegistrationStep(r)
  PROVE  OnlyMoves(r)
<1> USE DEF TypeOK, OnlyMoves, Goto, Answer
<1>1. CASE ClearRegistrationToken(r) \/ ClearPasswordToken(r)
            \/ PurgeRegistrationToken(r) \/ PurgePasswordToken(r)
  BY <1>1 DEF ClearRegistrationToken, ClearPasswordToken,
       PurgeRegistrationToken, PurgePasswordToken, DeleteRegistrationToken,
       DeletePasswordResetToken
<1>2. CASE FindRegistered(r) \/ FindRegistrant(r)
  BY <1>2 DEF FindRegistered, FindRegistrant
<1>3. CASE UpdateProfile(r) \/ SavePassword(r) \/ VerifyUser(r)
  BY <1>3 DEF UpdateProfile, SavePassword, VerifyUser, SaveUser
<1>4. CASE CreateProfile(r) \/ CreateRegisteredUser(r)
  BY <1>4 DEF CreateProfile, CreateRegisteredUser, CreateUserProfile, CreateUser
<1>5. CASE IssueRegistrationToken(r) \/ IssuePlaceholderToken(r)
  BY <1>5 DEF IssueRegistrationToken, IssuePlaceholderToken,
       CreateRegistrationToken, CreatePasswordResetToken
<1>6. CASE EmitUserRegistered(r) \/ SpendRegistrationToken(r)
  BY <1>6 DEF EmitUserRegistered, EmitAndAnswer, SpendRegistrationToken
<1> QED
  BY <1>1, <1>2, <1>3, <1>4, <1>5, <1>6 DEF RegistrationStep

\* A step of PasswordService moves its own request.
LEMMA PasswordMovesOne ==
  ASSUME TypeOK, NEW r \in Requests, PasswordStep(r)
  PROVE  OnlyMoves(r)
BY DEF TypeOK, OnlyMoves, Goto, Answer, PasswordStep, DeleteResetToken,
       CreateResetToken, CreatePasswordResetToken, EmitPasswordResetAttempt,
       EmitAndAnswer, FindResetUser, ReplacePassword, SaveUser,
       SpendResetToken

\* A step of googleLogin moves its own request.
LEMMA GoogleMovesOne ==
  ASSUME TypeOK, NEW r \in Requests, GoogleStep(r)
  PROVE  OnlyMoves(r)
BY DEF TypeOK, OnlyMoves, Goto, Answer, GoogleStep, LinkGoogleId,
       CreateGoogleProfile, CreateUserProfile, CreateGoogleUser, CreateUser

\* A step of AuthSystem is the clock's, moves one request, or moves none.
LEMMA OneRequestMoves ==
  ASSUME TypeOK, AuthStep
  PROVE  \/ Tick
         \/ UNCHANGED <<now, requests>>
         \/ \E r \in Requests : OnlyMoves(r)
<1>1. ASSUME NEW r \in Requests, Arrival(r) \/ HandlerStep(r) \/ Abort(r)
      PROVE  OnlyMoves(r)
  <2>1. CASE Abort(r)
    BY <2>1 DEF Abort, TypeOK, OnlyMoves
  <2> QED
    BY <1>1, <2>1, ArrivalMovesOne, RegistrationMovesOne, PasswordMovesOne,
       GoogleMovesOne DEF HandlerStep
<1>2. ASSUME NEW m \in mailQueue, SendMail(m) \/ MailRefused(m)
      PROVE  UNCHANGED <<now, requests>>
  BY <1>2 DEF SendMail, MailRefused
<1> QED
  BY <1>1, <1>2 DEF AuthStep

-----------------------------------------------------------------------------
\* A step that adds no proof and no session, and gives none, loses some or none.
LEMMA Loses ==
  ASSUME UNCHANGED <<now, granted>>, Proofs' \subseteq Proofs,
         Sessions' \subseteq Sessions
  PROVE  Life!Next
BY DEF Sessions, Life!Next, Life!Lose

\* A step of AuthSystem proves an account, when it lets a Google login in, or
\* is the clock's, or shows nothing.
LEMMA AuthLives ==
  ASSUME LifeInv, LifeInv', AuthStep, Advances
  PROVE  Life!Next
<1>a. IInv /\ IInv' /\ TypeOK
  BY DEF LifeInv, SessionIInv, IInv
<1>b. /\ UNCHANGED <<call, at, signed, redirected, tokenHolds, granted>>
      /\ Sessions' = Sessions
  BY DEF AuthStep, session, Sessions, Waiting, InHand
<1>1. CASE Tick
  <2>1. Proofs' = Proofs
    BY <1>1, <1>b DEF Tick, requests, Proofs, LoggedIn
  <2> QED
    BY <1>1, <1>b, <2>1 DEF Tick, Sessions, Life!Next, Life!Pass
<1>2. CASE UNCHANGED <<now, requests>>
  <2>1. Proofs' = Proofs
    BY <1>2, <1>b DEF requests, Proofs, LoggedIn
  <2> QED
    BY <1>2, <1>b, <2>1, Loses
<1>3. ASSUME NEW r \in Requests, OnlyMoves(r) PROVE Life!Next
  <2> DEFINE p == ProofOf(r, input'[r].email)
  <2>1. \A q \in Requests : pc[q] = "LOGIN" =>
          pc'[q] = "LOGIN" /\ input'[q] = input[q]
    BY <1>a DEF Advances, IInv, Control, Ended, Answers, Asked
  <2>2. \A q \in Requests \ {r} : pc'[q] = "LOGIN" =>
          pc[q] = "LOGIN" /\ input'[q] = input[q]
    BY <1>3, <2>1 DEF OnlyMoves
  <2>3. Proofs \subseteq Proofs'
    BY <1>b, <2>1 DEF Proofs, LoggedIn
  <2>4. Proofs' \subseteq Proofs \cup {p}
    BY <1>b, <2>2 DEF Proofs, LoggedIn
  <2>5. CASE Proofs' = Proofs
    BY <1>3, <1>b, <2>5, Loses DEF OnlyMoves
  <2>6. CASE Proofs' # Proofs
    <3>1. p \notin Proofs /\ Proofs' = Proofs \cup {p}
      BY <2>3, <2>4, <2>6
    <3>2. pc'[r] = "LOGIN"
      BY <1>b, <2>2, <2>6, <2>3 DEF Proofs, LoggedIn
    <3>3. p \in Life!Proof
      BY <1>a, <3>2 DEF IInv, Control, ProofOf, Life!Proof
    <3> QED
      BY <1>3, <1>b, <3>1, <3>3
         DEF OnlyMoves, Sessions, Life!Next, Life!Prove
  <2> QED
    BY <2>5, <2>6
<1> QED
  BY <1>a, <1>1, <1>2, <1>3, OneRequestMoves

\* A login with a password: its proof, and the session it opens.
LEMMA LoginLives ==
  ASSUME LifeInv, NEW c \in Calls, Login(c) \/ SignSession(c)
  PROVE  Life!Next
<1>a. SessionTypeOK /\ now' = now
  BY DEF LifeInv, SessionIInv, Login, SignSession, vars
<1>1. CASE Login(c)
  <2>1. PICK e \in Emails, q \in Requests :
          Calling(c, "login", Lower[e], q,
                  IF Matches(users[Lower[e]], q) THEN "signSession" ELSE "401")
    BY <1>1 DEF Login
  <2> DEFINE p == ProofOf(c, Lower[e])
  <2>2. /\ at[c] = "idle"
        /\ call'[c].email = Lower[e]
        /\ \A k \in Calls \ {c} : at'[k] = at[k] /\ call'[k] = call[k]
    BY <1>a, <2>1 DEF Calling, SessionTypeOK
  <2>3. UNCHANGED <<pc, input, redirected, granted>> /\ Sessions' = Sessions
    BY <1>1 DEF Login, vars, requests, Sessions, Waiting, InHand
  <2>4. Proofs \subseteq Proofs' /\ Proofs' \subseteq Proofs \cup {p}
    BY <2>2, <2>3 DEF Proofs, LoggedIn
  <2>5. p \in Life!Proof
    BY LowerAssumption DEF ProofOf, Life!Proof
  <2>6. CASE Proofs' = Proofs
    BY <1>a, <2>3, <2>6, Loses
  <2>7. CASE p \notin Proofs /\ Proofs' = Proofs \cup {p}
    BY <1>a, <2>3, <2>5, <2>7 DEF Sessions, Life!Next, Life!Prove
  <2> QED
    BY <2>4, <2>6, <2>7
<1>2. CASE SignSession(c)
  <2> DEFINE p == ProofOf(c, call[c].email)
             s == Signed(call[c].email)
  <2>1. /\ at[c] = "signSession" /\ at'[c] = "SESSION"
        /\ \A k \in Calls \ {c} : at'[k] = at[k]
        /\ UNCHANGED <<pc, input, redirected, tokenHolds, call>>
        /\ granted' = granted \cup {s}
    BY <1>a, <1>2 DEF SignSession, Ends, SessionTypeOK, vars, requests
  <2>2. signed' = signed
    BY <1>a, <1>2, <2>1
       DEF SignSession, Ends, SessionTypeOK, LifeInv, InHandOK
  <2>3. p \in Proofs /\ p \in Life!Proof
    BY <2>1 DEF Proofs, ProofOf, Life!Proof, LifeInv, SessionIInv, CallsOK,
         CallKnows
  <2>4. Proofs' = Proofs \ {p}
    <3>1. \A k \in Calls \ {c} : ProofOf(k, call[k].email) # p
      BY DEF ProofOf
    <3>2. \A r \in Requests : ProofOf(r, input[r].email) # p
      BY SessionAssumption DEF ProofOf
    <3> QED
      BY <2>1, <3>1, <3>2 DEF Proofs, LoggedIn
  <2>5. Sessions' = Sessions \cup {s}
    BY <2>1, <2>2 DEF Sessions, Waiting, InHand
  <2>6. s = Life!Opened(p)
    BY DEF Signed, ProofOf, Life!Opened
  <2> QED
    BY <1>a, <2>1, <2>3, <2>4, <2>5, <2>6
       DEF Sessions, Life!Next, Life!Open
<1> QED
  BY <1>1, <1>2

\* The redirect of a Google login opens a session nobody has yet.
LEMMA RedirectLives ==
  ASSUME LifeInv, NEW c \in Calls, GoogleAuthRedirect(c)
  PROVE  Life!Next
<1>a. SessionTypeOK /\ now' = now
  BY DEF LifeInv, SessionIInv, GoogleAuthRedirect, vars
<1>1. PICK r \in LoggedIn :
        /\ Calling(c, "redirect", input[r].email, r, "placeHold")
        /\ signed' = [signed EXCEPT ![c] = Signed(input[r].email)]
        /\ redirected' = redirected \cup {r}
  BY DEF GoogleAuthRedirect
<1> DEFINE p == ProofOf(r, input[r].email)
           s == Signed(input[r].email)
<1>2. r \in Requests \ redirected /\ pc[r] = "LOGIN"
  BY DEF LoggedIn
<1>3. p \in Proofs /\ p \in Life!Proof
  BY <1>2, FoundUser DEF Proofs, ProofOf, Life!Proof, LifeInv
<1>4. /\ at[c] = "idle" /\ at'[c] = "placeHold"
      /\ \A k \in Calls \ {c} : at'[k] = at[k] /\ call'[k] = call[k]
      /\ UNCHANGED <<pc, input, tokenHolds, granted>>
  BY <1>a, <1>1 DEF Calling, SessionTypeOK, GoogleAuthRedirect, vars, requests
<1>5. Proofs' = Proofs \ {p}
  <2>1. \A k \in Calls : ProofOf(k, call[k].email) # p
    BY <1>2, SessionAssumption DEF ProofOf
  <2>2. \A q \in Requests \ {r} : ProofOf(q, input[q].email) # p
    BY DEF ProofOf
  <2> QED
    BY <1>1, <1>2, <1>4, <2>1, <2>2 DEF Proofs, LoggedIn
<1>6. Sessions' = Sessions \cup {s}
  <2>1. signed[c] = None
    BY <1>4 DEF LifeInv, InHandOK
  <2>2. s # None
    BY FoundUser, SignedType, NoneIsNoSession DEF LifeInv
  <2>3. signed'[c] = s /\ \A k \in Calls \ {c} : signed'[k] = signed[k]
    BY <1>a, <1>1 DEF SessionTypeOK
  <2> QED
    BY <1>4, <2>1, <2>2, <2>3 DEF Sessions, Waiting, InHand
<1>7. s = Life!Opened(p)
  BY DEF Signed, ProofOf, Life!Opened
<1> QED
  BY <1>a, <1>3, <1>4, <1>5, <1>6, <1>7 DEF Sessions, Life!Next, Life!Open

\* The exchange of a code gives the session its hold keeps.
LEMMA ExchangeLives ==
  ASSUME LifeInv, NEW c \in Calls, GetTokenHold(c)
  PROVE  Life!Next
<1>a. SessionTypeOK /\ now' = now
  BY DEF LifeInv, SessionIInv, GetTokenHold, vars
<1>1. /\ at[c] = "idle" /\ at'[c] # "signSession"
      /\ \A k \in Calls \ {c} : at'[k] = at[k] /\ call'[k] = call[k]
      /\ UNCHANGED <<pc, input, redirected, signed, tokenHolds>>
  BY <1>a DEF Calling, SessionTypeOK, GetTokenHold, vars, requests
<1>2. Proofs' = Proofs
  BY <1>1 DEF Proofs, LoggedIn
<1>3. CASE granted' = granted
  BY <1>a, <1>1, <1>2, <1>3, Loses DEF Sessions, Waiting, InHand
<1>4. ASSUME NEW hold \in tokenHolds, granted' = granted \cup {hold.token}
      PROVE  Life!Next
  <2>1. hold.token \in Sessions /\ Sessions' = Sessions
    BY <1>1, <1>4 DEF Sessions, Waiting, InHand
  <2> QED
    BY <1>a, <1>2, <1>4, <2>1 DEF Sessions, Life!Next, Life!Give
<1> QED
  BY <1>3, <1>4 DEF GetTokenHold

\* The save of a hold keeps what it was given; a read of a profile and a call
\* that fails show nothing new.
LEMMA RestLives ==
  ASSUME LifeInv, NEW c \in Calls,
         \/ PlaceTokenHold(c) \/ GetProfile(c) \/ GetUserProfile(c)
         \/ CallFails(c)
  PROVE  Life!Next
<1>a. SessionTypeOK
  BY DEF LifeInv, SessionIInv
<1>1. /\ at'[c] # "signSession"
      /\ \A k \in Calls \ {c} :
           /\ at'[k] = at[k] /\ call'[k] = call[k]
           /\ signed'[k] = signed[k]
      /\ signed'[c] \in {signed[c], None}
      /\ UNCHANGED <<now, pc, input, redirected, granted>>
  BY <1>a DEF Calling, Ends, SessionTypeOK, PlaceTokenHold, GetProfile,
       GetUserProfile, CallFails, vars, requests
<1>2. Proofs' \subseteq Proofs
  BY <1>1 DEF Proofs, LoggedIn
<1>3. Waiting' \subseteq Waiting \cup InHand
  <2>1. CASE PlaceTokenHold(c)
    <3>1. signed[c] # None
      BY <2>1 DEF PlaceTokenHold, LifeInv, SessionIInv, CallsOK, CallKnows
    <3> QED
      BY <2>1, <3>1 DEF PlaceTokenHold, Waiting, InHand
  <2>2. CASE tokenHolds' = tokenHolds
    BY <2>2 DEF Waiting
  <2> QED
    BY <2>1, <2>2 DEF GetProfile, GetUserProfile, CallFails
<1>4. InHand' \subseteq InHand
  BY <1>1 DEF InHand
<1> QED
  BY <1>1, <1>2, <1>3, <1>4, Loses DEF Sessions

\* A process that dies takes the proofs and the sessions in its memory along.
LEMMA CrashLives ==
  ASSUME LifeInv, CrashAll
  PROVE  Life!Next
<1>a. SessionTypeOK /\ TypeOK
  BY DEF LifeInv, SessionIInv, IInv
<1>1. /\ \A k \in Calls : at'[k] # "signSession" /\ signed'[k] = None
      /\ \A r \in Requests : pc'[r] = "LOGIN" => pc[r] = "LOGIN"
      /\ redirected' = redirected \cup LoggedIn
      /\ UNCHANGED <<now, tokenHolds, granted>>
  BY <1>a DEF CrashAll, Crash, SessionTypeOK, TypeOK, CallLabels
<1>2. Proofs' = {}
  BY <1>1 DEF Proofs, LoggedIn
<1>3. InHand' = {}
  BY <1>1 DEF InHand
<1> QED
  BY <1>1, <1>2, <1>3, Loses DEF Sessions, Waiting

\* Every step of the composition is a step of the life of sessions.
LEMMA StepLives ==
  LifeInv /\ LifeInv' /\ [SessionNext]_sessionVars =>
    [Life!Next]_(Life!lifecycle)
<1> SUFFICES ASSUME LifeInv, LifeInv', [SessionNext]_sessionVars
             PROVE  Life!Next
  OBVIOUS
<1>1. CASE AuthStep
  BY <1>1, AuthLives, SessionStepIsStep, StepAdvances DEF LifeInv, SessionIInv
<1>2. ASSUME NEW c \in Calls, CallStep(c) PROVE Life!Next
  BY <1>2, LoginLives, RedirectLives, ExchangeLives, RestLives DEF CallStep
<1>3. CASE CrashAll
  BY <1>3, CrashLives
<1>4. CASE AllDone \/ UNCHANGED sessionVars
  <2>1. UNCHANGED <<vars, session>>
    BY <1>4 DEF AllDone, Finished, sessionVars
  <2> QED
    BY <2>1, Loses
       DEF vars, requests, session, Proofs, LoggedIn, Sessions, Waiting, InHand
<1> QED
  BY <1>1, <1>2, <1>3, <1>4 DEF SessionNext

\* Sessions follow the abstract life cycle, for any number of calls, requests
\* and faults: each proof of identity opens at most one session, of the account
\* proven, and what a client is handed, however late or often, is that session.
THEOREM SessionsFollowLifecycle == SessionSpec => ImplementsSessionLifecycle
<1>1. SessionInit => Life!Init
  BY DEF SessionInit, Init, Life!Init, Proofs, LoggedIn, Waiting, InHand
<1> QED
  BY <1>1, LifeInvariance, StepLives, PTL
     DEF SessionSpec, ImplementsSessionLifecycle, Life!Spec

=============================================================================
