------------------------------ MODULE AuthStore ------------------------------
(***************************************************************************)
(* The state every authentication handler of the API shares: the MongoDB  *)
(* collections with their unique indexes, the clock, and the control       *)
(* state of the HTTP requests in progress.  A handler is an async          *)
(* function; each of its awaits on the database is a step of its own, so   *)
(* the handlers of two requests interleave between any two of them.        *)
(*                                                                         *)
(* The random values a request draws and the bcrypt hash it computes are   *)
(* named after the request.  A request is used once, so distinct draws are *)
(* distinct, which is what 64 random bytes give.                           *)
(***************************************************************************)
EXTENDS Naturals

CONSTANTS
  Emails,       \* E-mail addresses, as the client spells them.
  Lower,        \* String.toLowerCase() on Emails.
  GoogleIds,    \* Google account identifiers.
  Requests,     \* HTTP requests; also the random values and hashes they draw.
  Operations,   \* The routes the clients of this instance call.
  None,         \* A missing document or an undefined field.
  TokenTTL,     \* The 15 minutes a mailed link is valid, in ticks.
  MaxTime,      \* Bound on the clock.
  MaxFaults     \* Bound on database errors, refused mails and crashes.

ASSUME LowerAssumption ==
  /\ Lower \in [Emails -> Emails]
  /\ \A e \in Emails : Lower[Lower[e]] = Lower[e]

ASSUME BoundsAssumption ==
  /\ TokenTTL \in Nat \ {0}
  /\ MaxTime \in Nat
  /\ MaxFaults \in Nat

VARIABLES
  users,                \* users collection, by e-mail
  profiles,             \* userprofiles collection, by e-mail
  registrationTokens,   \* registrationtokens collection, by e-mail
  passwordResetTokens,  \* passwordresettokens collection, by e-mail
  now,                  \* DateTime.now()
  input,                \* what each request asked, kept as history
  pc,                   \* where the handler of each request is, or its answer
  held,                 \* the token document a handler holds across its awaits
  mailQueue,            \* e-mails an emitted event asks for, not sent yet
  mailbox,              \* e-mails the transporter accepted
  faults                \* faults so far

accounts == <<users, profiles>>
tokens == <<registrationTokens, passwordResetTokens>>
mail == <<mailQueue, mailbox>>
requests == <<input, pc, held>>
vars == <<accounts, tokens, now, requests, mail, faults>>

-----------------------------------------------------------------------------

Routes == {"register", "confirmRegister", "reset", "confirmReset", "google"}

\* The value a handler ends with: a status, an HTTP error, a Google login, or
\* nothing at all when the process died under it.
Answers == {"AWAITING_EMAIL_VERIFICATION", "SUCCESS", "LOGIN",
            "400", "409", "500", "lost"}

RegisterLabels ==
  {"clearRegistrationToken", "clearPasswordToken", "findRegistered",
   "updateProfile", "savePassword", "createProfile", "createUser",
   "purgeRegistrationToken", "purgePasswordToken",
   "createRegistrationToken", "createPasswordToken", "emitRegistered"}
ConfirmRegisterLabels == {"findRegistrant", "verifyUser", "spendRegistration"}
ResetLabels == {"deleteResetToken", "createResetToken", "emitReset"}
ConfirmResetLabels == {"findResetUser", "replacePassword", "spendReset"}
GoogleLabels == {"linkGoogleId", "createGoogleProfile", "createGoogleUser"}

Labels == RegisterLabels \cup ConfirmRegisterLabels \cup ResetLabels
            \cup ConfirmResetLabels \cup GoogleLabels

User == [isEmailVerified : BOOLEAN,
         googleId : GoogleIds \cup {None},
         password : Requests \cup {None}]
Token == [value : Requests, expiryDate : Nat]
HeldToken == [email : Emails, expiryDate : Nat]
Input == [op : Routes,
          email : Emails \cup {None},
          googleId : GoogleIds \cup {None},
          value : Requests \cup {None}]
Mail == [kind : {"register", "reset"}, to : Emails, value : Requests]

ASSUME NoneAssumption ==
  /\ None \notin Emails
  /\ None \notin GoogleIds
  /\ None \notin Requests
  /\ None \notin User
  /\ None \notin Token
  /\ None \notin HeldToken
  /\ None \notin Input

ASSUME OperationsAssumption == Operations \subseteq Routes

TypeOK ==
  /\ users \in [Emails -> User \cup {None}]
  /\ profiles \in [Emails -> Requests \cup {None}]
  /\ registrationTokens \in [Emails -> Token \cup {None}]
  /\ passwordResetTokens \in [Emails -> Token \cup {None}]
  /\ now \in Nat
  /\ input \in [Requests -> Input \cup {None}]
  /\ pc \in [Requests -> Labels \cup Answers \cup {"idle"}]
  /\ held \in [Requests -> HeldToken \cup {None}]
  /\ mailQueue \in SUBSET Mail
  /\ mailbox \in SUBSET Mail
  /\ faults \in Nat

\* A fresh deployment: empty collections, no request yet.
Init ==
  /\ users = [e \in Emails |-> None]
  /\ profiles = [e \in Emails |-> None]
  /\ registrationTokens = [e \in Emails |-> None]
  /\ passwordResetTokens = [e \in Emails |-> None]
  /\ now = 0
  /\ input = [r \in Requests |-> None]
  /\ pc = [r \in Requests |-> "idle"]
  /\ held = [r \in Requests |-> None]
  /\ mailQueue = {}
  /\ mailbox = {}
  /\ faults = 0

-----------------------------------------------------------------------------

Running(r) == pc[r] \in Labels
Ended(r) == pc[r] \in Answers

\* A client calls route op; its handler runs on to `next`.
Arrives(r, op, email, googleId, value, next) ==
  /\ pc[r] = "idle"
  /\ op \in Operations
  /\ input' = [input EXCEPT ![r] = [op |-> op, email |-> email,
                                    googleId |-> googleId, value |-> value]]
  /\ pc' = [pc EXCEPT ![r] = next]

\* The handler of r goes on from one await to the next.
Goto(r, to) ==
  /\ pc' = [pc EXCEPT ![r] = to]
  /\ UNCHANGED <<input, held>>

\* The handler of r ends.
Answer(r, answer) ==
  /\ pc' = [pc EXCEPT ![r] = answer]
  /\ held' = [held EXCEPT ![r] = None]
  /\ UNCHANGED input

Expired(expiryDate) == now >= expiryDate

\* The unique indexes of users: e-mail, and googleId.  The googleId index is
\* not sparse, so it holds the users without one under the same null key.
UniqueUser(email, googleId) ==
  /\ users[email] = None
  /\ \A e \in Emails : users[e] # None => users[e].googleId # googleId

\* Mutation: the index is missing.
NoIndex(collection, email) == email \in DOMAIN collection

\* The unique index on e-mail of a token collection or of the profiles.  The
\* value index of the tokens never bites: values are drawn once.
UniqueEmail(collection, email) == collection[email] = None

\* A database operation of a running handler fails; the error filter (or the
\* catch of googleLogin) answers 500 and the steps already done stay done.
Abort(r) ==
  /\ Running(r)
  /\ faults < MaxFaults
  /\ faults' = faults + 1
  /\ pc' = [pc EXCEPT ![r] = "500"]
  /\ held' = [held EXCEPT ![r] = None]
  /\ UNCHANGED <<accounts, tokens, now, input, mail>>

\* The process dies and is started again: the handlers in progress and the
\* events not handled yet are gone, the database is as they left it.
Crash ==
  /\ faults < MaxFaults
  /\ faults' = faults + 1
  /\ pc' = [r \in Requests |-> IF Running(r) THEN "lost" ELSE pc[r]]
  /\ held' = [r \in Requests |-> None]
  /\ mailQueue' = {}
  /\ UNCHANGED <<accounts, tokens, now, input, mailbox>>

Tick ==
  /\ now < MaxTime
  /\ now' = now + 1
  /\ UNCHANGED <<accounts, tokens, requests, mail, faults>>

=============================================================================
