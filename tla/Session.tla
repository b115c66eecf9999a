------------------------------- MODULE Session -------------------------------
(***************************************************************************)
(* What a user gets out of an account: AuthService.login behind a password *)
(* or a Google login, the token hold that carries the session of a Google  *)
(* login to the front end, the exchange of its code, and GET /profile      *)
(* behind the JWT strategy.  These handlers read the users and profiles    *)
(* that the handlers of AuthSystem write, and write only token holds.      *)
(*                                                                         *)
(* A call is a request of its own, except the redirect of a Google login,  *)
(* which goes on where googleLogin ended.  An access token is its payload. *)
(***************************************************************************)
EXTENDS AuthSystem

CONSTANTS
  Calls,       \* Calls of these routes; also the codes of token holds.
  AccessTTL,   \* The hour an access token is valid, in ticks.
  HoldTTL      \* The 30 seconds of a token hold, in ticks.

ASSUME SessionAssumption ==
  /\ AccessTTL \in Nat \ {0}
  /\ HoldTTL \in Nat
  /\ Calls \cap Requests = {}

VARIABLES
  call,         \* what each call is about
  at,           \* where its handler is, or its answer
  signed,       \* the access token a redirect holds across its await
  redirected,   \* Google logins whose redirect has begun, or died before
  tokenHolds,   \* tokenholds collection
  granted       \* access tokens the clients were given

session == <<call, at, signed, redirected, tokenHolds, granted>>
sessionVars == <<vars, session>>

AccessToken == [email : Emails, expiry : Nat]
TokenHold == [code : Calls, token : AccessToken, expiryDate : Nat]
Call == [op : {"login", "redirect", "exchange", "profile"},
         email : Emails \cup {None},
         by : Requests \cup {None}]
CallLabels == {"signSession", "placeHold", "findProfile"}
CallAnswers == {"SESSION", "REDIRECT", "PROFILE", "EMPTY",
                "401", "500", "lost"}

ASSUME NoneIsNoSession == None \notin Call \cup AccessToken \cup Calls

SessionTypeOK ==
  /\ call \in [Calls -> Call \cup {None}]
  /\ at \in [Calls -> CallLabels \cup CallAnswers \cup {"idle"}]
  /\ signed \in [Calls -> AccessToken \cup {None}]
  /\ redirected \in SUBSET Requests
  /\ tokenHolds \in SUBSET TokenHold
  /\ granted \in SUBSET AccessToken

SessionInit ==
  /\ Init
  /\ call = [c \in Calls |-> None]
  /\ at = [c \in Calls |-> "idle"]
  /\ signed = [c \in Calls |-> None]
  /\ redirected = {}
  /\ tokenHolds = {}
  /\ granted = {}

-----------------------------------------------------------------------------

\* A client calls a route about the account of email; by is the password it
\* gives, or the Google login it comes from.
Calling(c, op, email, by, next) ==
  /\ at[c] = "idle"
  /\ call' = [call EXCEPT ![c] = [op |-> op, email |-> email, by |-> by]]
  /\ at' = [at EXCEPT ![c] = next]

Ends(c, answer) ==
  /\ at' = [at EXCEPT ![c] = answer]
  /\ signed' = [signed EXCEPT ![c] = None]
  /\ UNCHANGED call

\* Mutation: expiresIn is not set.
Endless(email) == [email |-> email, expiry |-> None]

\* JwtService.signAsync with expiresIn 1h, and its verification.
Signed(email) == [email |-> email, expiry |-> now + AccessTTL]
Valid(token) == now < token.expiry

\* Mutations: the password of any account opens it; a user who is not there
\* does.
SomeonesPassword(user, password) ==
  user # None /\ \E e \in Emails : users[e] # None
                                  /\ users[e].password = password
NobodyMatches(user, password) ==
  user # None => user.password # None /\ user.password = password

\* validateUser: bcrypt.compare with the hash as it was read.  A user who
\* never verified the e-mail may log in.
Matches(user, password) ==
  user # None /\ user.password # None /\ user.password = password

\* POST /login.  LoginRequestDto has put the e-mail in lower case.
Login(c) ==
  /\ \E e \in Emails, p \in Requests :
       Calling(c, "login", Lower[e], p,
               IF Matches(users[Lower[e]], p) THEN "signSession" ELSE "401")
  /\ UNCHANGED <<vars, signed, redirected, tokenHolds, granted>>

SignSession(c) ==
  /\ at[c] = "signSession"
  /\ granted' = granted \cup {Signed(call[c].email)}
  /\ Ends(c, "SESSION")
  /\ UNCHANGED <<vars, redirected, tokenHolds>>

\* Mutation: the redirect does not ask for a user.
AnyGoogleLogin ==
  {r \in Requests \ redirected :
     Asked(r, "google") /\ Ended(r) /\ input[r].email # None}

\* The Google logins that put a user in the request.
LoggedIn == {r \in Requests \ redirected : pc[r] = "LOGIN"}

\* googleAuthRedirect: the access token is signed first and kept while the
\* code of its hold is drawn.
GoogleAuthRedirect(c) ==
  /\ \E r \in LoggedIn :
       /\ Calling(c, "redirect", input[r].email, r, "placeHold")
       /\ signed' = [signed EXCEPT ![c] = Signed(input[r].email)]
       /\ redirected' = redirected \cup {r}
  /\ UNCHANGED <<vars, tokenHolds, granted>>

PlaceTokenHold(c) ==
  /\ at[c] = "placeHold"
  /\ tokenHolds' = tokenHolds \cup
       {[code |-> c, token |-> signed[c], expiryDate |-> now + HoldTTL]}
  /\ Ends(c, "REDIRECT")
  /\ UNCHANGED <<vars, redirected, granted>>

\* Mutation: the token of the hold is signed anew.
SignAgain(c) ==
  /\ \E code \in {k \in Calls : at[k] = "REDIRECT"} \cup {None} :
       \/ \E hold \in tokenHolds :
            /\ hold.code = code
            /\ Calling(c, "exchange", hold.token.email, None, "SESSION")
            /\ granted' = granted \cup {Signed(hold.token.email)}
       \/ /\ \A hold \in tokenHolds : hold.code # code
          /\ Calling(c, "exchange", None, None, "401")
          /\ UNCHANGED granted
  /\ UNCHANGED <<vars, signed, redirected, tokenHolds>>

\* POST /token-code.  The hold is read, never checked for expiry, never
\* deleted: its code can be exchanged again.
GetTokenHold(c) ==
  /\ \E code \in {k \in Calls : at[k] = "REDIRECT"} \cup {None} :
       \/ \E hold \in tokenHolds :
            /\ hold.code = code
            /\ Calling(c, "exchange", hold.token.email, None, "SESSION")
            /\ granted' = granted \cup {hold.token}
       \/ /\ \A hold \in tokenHolds : hold.code # code
          /\ Calling(c, "exchange", None, None, "401")
          /\ UNCHANGED granted
  /\ UNCHANGED <<vars, signed, redirected, tokenHolds>>

\* GET /profile: the JWT strategy verifies the token and finds its user.
GetProfile(c) ==
  /\ \E t \in granted :
       Calling(c, "profile", t.email, None,
               IF Valid(t) /\ users[t.email] # None
               THEN "findProfile" ELSE "401")
  /\ UNCHANGED <<vars, signed, redirected, tokenHolds, granted>>

GetUserProfile(c) ==
  /\ at[c] = "findProfile"
  /\ Ends(c, IF profiles[call[c].email] = None THEN "EMPTY" ELSE "PROFILE")
  /\ UNCHANGED <<vars, redirected, tokenHolds, granted>>

\* A database operation or a signature fails.
CallFails(c) ==
  /\ at[c] \in CallLabels
  /\ Ends(c, "500")
  /\ UNCHANGED <<vars, redirected, tokenHolds, granted>>

CallStep(c) ==
  \/ Login(c) \/ SignSession(c)
  \/ GoogleAuthRedirect(c) \/ PlaceTokenHold(c)
  \/ GetTokenHold(c)
  \/ GetProfile(c) \/ GetUserProfile(c)
  \/ CallFails(c)

\* The process dies: its calls too.  Token holds and access tokens survive.
CrashAll ==
  /\ Crash
  /\ at' = [c \in Calls |-> IF at[c] \in CallLabels THEN "lost" ELSE at[c]]
  /\ signed' = [c \in Calls |-> None]
  /\ redirected' = redirected \cup LoggedIn
  /\ UNCHANGED <<call, tokenHolds, granted>>

\* A step of AuthSystem that is not a crash.
AuthStep ==
  /\ \/ \E r \in Requests : Arrival(r) \/ HandlerStep(r) \/ Abort(r)
     \/ \E m \in mailQueue : SendMail(m) \/ MailRefused(m)
     \/ Tick
  /\ UNCHANGED session

AllDone ==
  /\ \A c \in Calls : at[c] \in CallAnswers
  /\ Finished
  /\ UNCHANGED session

SessionNext ==
  \/ AuthStep
  \/ \E c \in Calls : CallStep(c)
  \/ CrashAll
  \/ AllDone

SessionSpec == SessionInit /\ [][SessionNext]_sessionVars

-----------------------------------------------------------------------------

Waiting == {hold.token : hold \in tokenHolds}

\* Every access token, given to a client or waiting in a hold, names a user
\* with a profile: GET /profile with a valid token neither loses its user nor
\* dereferences a profile that is not there, whatever failed between the
\* inserts of the account.
TokensNameAccounts ==
  /\ \A t \in granted \cup Waiting :
       Exists(t.email) /\ profiles[t.email] # None
  /\ \A c \in Calls : at[c] # "EMPTY"

\* A hold opens the account of a user Google vouched for: still verified and
\* still linked to a Google account, whatever registered, linked or reset it
\* between the login, the hold and the exchange of its code.
HoldIsForGoogleUser ==
  \A t \in Waiting : Verified(t.email) /\ users[t.email].googleId # None

\* A login that gave a session had a password its own account was given, by a
\* registration of that e-mail or through a link mailed to it - not that of
\* another account - also when a reset replaces the password while bcrypt runs.
LoginProvesPassword ==
  \A c \in Calls :
    at[c] = "SESSION" /\ call[c].op = "login" =>
      PasswordFrom(call[c].by, call[c].email)

-----------------------------------------------------------------------------

\* A password that matched, or a Google login, before its session is signed.
ProofOf(by, e) == [by |-> by, account |-> e]

Proofs ==
  {ProofOf(c, call[c].email) : c \in {k \in Calls : at[k] = "signSession"}}
    \cup {ProofOf(r, input[r].email) : r \in LoggedIn}

InHand == {signed[c] : c \in Calls} \ {None}

Life == INSTANCE SessionLifecycle
          WITH Accounts <- Emails, Occasions <- Calls \cup Requests,
               Lifetime <- AccessTTL, time <- now, proofs <- Proofs,
               opened <- granted \cup Waiting \cup InHand, given <- granted

\* Sessions follow the abstract life cycle: a login opens one, and a code that
\* is exchanged late or again, long after its hold expired, hands over that
\* very session and gives it no more time.
ImplementsSessionLifecycle == Life!Spec

=============================================================================
