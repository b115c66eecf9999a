# jenkify-api: a TLA+ model of the API

jenkify-api is a NestJS server over MongoDB. Its own logic is the life of an
account: registration confirmed by e-mail, login with Google, linking the two,
password reset, and the sessions that come out of them. Every handler is an
async function that reads and writes five collections without a transaction,
so what a request checked may be different by the time it acts on it. That is
what most of these modules are about; the others model what stands around the
handlers: the start of the process, the guard and the validation in front of
them, and the conversion of a job queue.

Paths below are relative to `src/app/` of the repository.

## 1. The system

| component | state | operations | interacts with |
|---|---|---|---|
| registration (`auth/services/registration`) | none of its own | `registerUser`, `handleExistingUser`, `registerWith(No)ExistingGoogleUser`, `confirmRegistration` | users, profiles, tokens; emits `UserRegisteredEvent` |
| tokens (`auth/services/token`, two models) | `registrationtokens`, `passwordresettokens`: one document per e-mail | create two, delete two, find by value, save | called by registration and password |
| password reset (`auth/services/password`) | none | `resetPassword`, `confirmPasswordReset` | users, reset tokens; emits `PasswordResetAttemptEvent` |
| Google login (`auth/services/auth`, passport strategy) | none | `googleLogin` | users, profiles |
| users (`users/`) | `users`, `userprofiles`, with unique indexes | create user, create profile, find, save | every other component |
| mail (`mail/`) | events not handled yet | two listeners, `sendEmail` | the SMTP server |
| sessions (`auth/controllers/auth`, JWT strategy, token hold) | `tokenholds` | `login`, `googleAuthRedirect`, `getTokenHold`, `getProfile` | users, profiles |
| random ids (`random/`), request validation (`data/`, DTOs) | none | `generateRandomId`; transform and validate a body | every route with a body |
| throttling (`throttling/`, `app.module`) | hits and timers, in memory | count a hit, refuse, discount, restart | the three controllers of `auth/` |
| bootstrap, configuration, logging (`main.ts`, `config/`) | environment, how far it came | create, connect, enable CORS, log, listen; look-ups of handlers | MongoDB, the operator, mail and redirect |
| Jenkins client, job queue (`client/`, `queue/`) | none | `getJobs`, `getBuildData`; `convertQueueToYAML` | a Jenkins server, the front end |

What is hard:

* **Interleaving and stale checks.** `registerUser` checks a user, deletes
  tokens, looks the user up again, hashes a password and then saves. Two
  requests of one e-mail overlap at any of these awaits.
* **Partial failure and crashes.** A registration is up to eight writes. The
  process may die, or MongoDB may refuse, between any two of them.
* **Unique indexes** are the only mutual exclusion, and they decide which of
  two racing requests gets a 500.
* **Time.** Tokens live 15 minutes and are checked an await or two before they
  are used; `expiryDate = now` is how one is made or ended dead.
* **E-mails** are sent after the answer, once, with a token that a newer
  request may have replaced.
* **Sliding windows**: the throttler gives each hit a timer of its own, counts
  refused hits too, and timers fire late.
* **Order inside the pipeline**: a body is transformed before it is validated,
  and the lengths that validators want are those random ids happen to have.
* **A start that fails half-way**: `bootstrap()` is neither awaited nor caught.

What makes each component correct:

* tokens: a token always has its user; the value of a link becomes live at most
  once and never comes back; a link is opened only while it is live, and after
  it was used once nobody who comes later uses it; the placeholder of a
  registration is never usable.
* registration: no registration that promised an e-mail is left without a
  token; a verified user has proven the e-mail.
* password reset: a password comes only from its own e-mail's requests.
* Google login and users: accounts are created once, never deleted, never
  unverified; a user has a profile; a Google user is verified.
* mail: without faults the promised link arrives, of a registration and of
  racing resets.
* sessions: an access token names an account with a profile, and was given for
  a password of that account, not of another, or a Google login; each proof of identity opens one
  session at most, and a code exchanged late or twice hands over that one.
* validation: a handler is only called with input it can work on, and no value
  that was mailed is refused as malformed.
* throttling: no window holds more than the limit, a client is refused for its
  own hits alone, and is let in again once it stops.
* bootstrap: the process listens only with what its handlers will look up, ends
  for a reason, and does one or the other.
* job queue: a YAML that can be read keeps every job under its host; unless a
  text of the queue breaks the document, host and `urlEnd` are the url again.

## 2. The modules

| module | models |
|---|---|
| `AuthStore` | constants with their assumptions, the collections, the control state of requests, unique indexes, faults, clock |
| `UsersService` | inserts and saves of users and profiles |
| `TokenService` | the two token collections |
| `MailService` | events and e-mails |
| `Registration`, `PasswordReset`, `GoogleLogin` | the handlers, one action per step |
| `AuthSystem` | the composition, fairness, and the properties |
| `AccountLifecycle`, `LinkLifecycle` | abstract specifications that `AuthSystem` implements |
| `DocumentedClaims` | what comments, messages and tests say and the code does not do |
| `Session` | logins, token holds and profile reads over `AuthSystem` |
| `SessionLifecycle` | the abstract specification that `Session` implements |
| `Throttling` | the guard of the auth controllers over the storage of the library |
| `Validation` | random ids and the six DTOs |
| `Gateway` | guard, pipe and handler of a request, over both |
| `Bootstrap` | `main.ts` from the start of the process to listening or its end |
| `JobQueue` | listing jobs, reading a build, and converting a queue to YAML |
| `MCAuthSystem`, `MCSession`, `MCGateway`, `MCBootstrap`, `MCJobQueue` | instances for TLC |
| `MCReregister` | an instance that remembers which user a registration met, for the run `reregister` |

| module | proves, from |
|---|---|
| `AuthSystemProofs` | the invariants of `AuthSystem`, from `AuthInvariant` |
| `LifecycleProofs` | the two life cycles, that a stranded profile stays, that a promise is kept when all has settled, and what the `googleId` index admits |
| `SessionProofs` | the invariants of `Session`, from `SessionInvariant` |
| `SessionLifecycleProofs` | the life cycle of sessions |
| `GatewayProofs` | throttling, validation, and the types of the pipeline |
| `BootstrapProofs` | bootstrap |
| `JobQueueProofs` | the conversion of a queue |
| `FoldLemmas` | what a fold of the community modules computes; used by the last and by `GatewayProofs` |

### From code to actions

* A handler runs without interruption between two awaits on the database, so
  **each such await is one action**. The label in `pc[r]` names the operation
  request `r` does next. A handler's first action takes the request and the
  answer of its first `findOne`. `deleteTokensForEmail` and
  `generateTokensForNewUser` are two awaits each and so two actions.
* Awaits on bcrypt, random bytes and JWT signing touch no shared state. They
  are merged with the next write, except where something is computed before
  them: `resetPassword` fixes the expiry of the new token when the old one is
  deleted (`held`), `googleAuthRedirect` signs before it places the hold.
* **What is read before an await and used after it is kept**: `held` is the token
  document a confirmation found. The expiry check reads `held`, not the
  collection. A user document needs no copy: mongoose's `save()` writes only
  the fields that were assigned (one), and users are never deleted.
* Saving a token that has been deleted meanwhile rejects with
  `DocumentNotFoundError`; a refused insert rejects with a duplicate key. Both
  answer 500 and undo nothing.
* `users[e] = None` is an absent document. Collections are functions of the
  e-mail because every one has a unique index on it. The `googleId` index is
  not sparse, so `None` takes part in it: at most one user is without one.
* Random values and hashes are named after the request that draws them; 64
  random bytes make them distinct. The names in a profile are the request
  that wrote them.
* `Abort` is any rejected database operation; with `Crash` and `MailRefused` it
  spends the budget `MaxFaults`. An operation that was done but reported as
  failed is `Abort` at the following label. `Crash` loses the running handlers
  and the events not handled; the database stays.
* `Finished` is a server at rest, so a deadlock reported by TLC is a real one.
* In `Session` the redirect of a Google login goes on from a request that
  ended in `LOGIN`; a crash ends those that had not gone on (`redirected`).

`Gateway` is what Nest does before a handler runs; the handlers themselves are
the actions of the modules above, which take e-mails in lower case and tokens as
values because `HandlersReceiveValidInput` holds.

* A value of a body is its kind (an e-mail, one with capitals, another text,
  absent, `true`, anything else) and its length, which is all that the
  decorators look at. A body has at most `MaxChanged` properties that are not as
  the front end sends them.
* `class-transformer` runs first, on the properties the body has:
  `toLowerCase` of a value that is no text throws, and the answer is 500.
* The storage of `@nestjs/throttler` is external and modelled as the guard uses
  it. Time is what is left of each timer; a tick shortens every one and a timer
  at 0 may fire now or later. The hit is counted before the guard looks, so a
  refused one counts. The key is client and handler. `Restart` forgets all.
* `admitted` and `sent` are history: hits let in, beside the timers, and hits
  made. Both belong to one life of the process, as does what the guard promises.

`Bootstrap` stands alone. A variable is set or not. `Create` stands for the
providers in whatever order Nest makes them, and asks for every variable their
factories do; `ConnectFails` repeats as mongoose does. A rejection anywhere ends
the process. `Handle` is what the mail listener and the Google redirect look up
later. `Get` takes the environment before the parsed configuration, so the
parsed port counts only when `PORT` is not set.

`JobQueue` stands alone. A text is a sequence of parts, because what matters is
where `replace` finds a host in a url. Two kinds of text survive `stringify(...)`
only in the double quotes that `replaceAll` then deletes from the whole document.
`Altered` ones (`12`, `true`, the empty one) read back as another value, written
`None`. `Breaking` ones (`{x`, `a: b`, `- x`) are no YAML without them, and one
name or `urlEnd` of that kind makes the answer `Unreadable`, with every job in
it. A host keeps the single quotes the code gives it, and with them no key is a
number, so the keys of the object stay in insertion order.

The body of `POST /as-yaml` is not validated. Any field of a job may be missing:
without a url the handler throws (500), as it does when the body is no list or a
job no object; a name that is missing is left out of its entry; jobs without a
host are grouped under the text `undefined`, which is also what `replace` looks
for in their urls. A body with both that group and a host literally called
`undefined` would lose the first of them; `QueueAssumption` excludes such a host,
and hosts hold no quotes. A Jenkins server may fail, or not know a build.

The definitions marked "Mutation" are slips the code could have contained. None
is part of the specification; each shows that a property depends on the
definition it stands in for, which it precedes.

## 3. What is checked

| run | instance | shows |
|---|---|---|
| `accounts` | 2 e-mails, 2 Google accounts, 3 requests of any route, 2 ticks, 1 fault | `TypeOK`, `IssuedTokensHaveUser`, `SpentLinkIsDead`, `AwaitedRegistrationHasToken`, `LiveResetTokenIsForVerifiedUser`, `GoogleUserIsVerified`, `VerifiedEmailIsProven`, `UserHasProfile`, `SettledPromisesAreKept`, `ImplementsLinkLifecycle`, `ImplementsAccountLifecycle`, `StrandedProfileIsForever` |
| `passwords` | 2 e-mails, 2 Google accounts, 4 requests, google, reset, confirm, 1 call, 1 tick, 1 fault, with sessions | `SpentLinkIsDead`, `PasswordProvenance`, `LoginProvesPassword`, `ImplementsLinkLifecycle` |
| `liveness` | 1 e-mail, 3 requests of any route, no tick, no fault, `FairSpec` | `EveryRequestIsAnswered`, `RegistrationIsMailed`, `ResetIsMailed` |
| `sessions` | 1 e-mail, 2 requests, 3 calls, google and register, 1 tick, 1 fault | `SessionTypeOK`, `TokensNameAccounts`, `HoldIsForGoogleUser`, `ImplementsSessionLifecycle` |
| `gateway` | 2 clients, 2 handlers, 1 request at a time, limit 2, 4 hits, 1 wrong property, `FairGatewaySpec` | `GatewayTypeOK`, `HandlersReceiveValidInput`, `DrawnTokensAreAccepted`, `WindowWithinLimit`, `RefusedForOwnHits`, `RefusalIsTemporary` |
| `boot` | every environment that lacks up to 3 of the variables, 2 retries, any number of starts | `BootTypeOK`, `HandlersFindConfiguration`, `RefusalNamesMissing`, `BootEnds` |
| `jobs` | 2 servers, 3 names, 3 urls, jobs that lack fields, lists of 2, queues of 3 | `JobQueueTypeOK`, `YamlIsQueueByHost`, `YamlRebuildsJobs` |

Five runs refute what the repository says of itself:

| run | what is said | what happens |
|---|---|---|
| `reregister` | a user who is neither verified nor linked is deleted (registration.service.ts:67, :90) | only its tokens are; the registration that met it finds it again and goes on to update it as if it were a Google user (:115) |
| `second_user` | a new e-mail registers (registration.service.spec.ts:309) | the non-sparse unique `googleId` admits one user without it: the second answers 500 |
| `spelling` | accounts are linked (error.constants.ts:2) | an e-mail with a capital letter gets two accounts |
| `conflict` | a Google user with a password is a conflict (registration.service.ts:68) | two concurrent registrations both pass the check; the second replaces the password |
| `unknown_link` | 400 when expired, 500 when the user is missing (registration.service.ts:203) | an unknown value dereferences null: 500 |

**Links.** A value that is live at most once is not yet a link that is used at
most once: a handler reads the token and acts on it two awaits later. So
`LinkLifecycle` speaks of three things: the state of a value, which confirmations
have opened it, and which have succeeded. Two that open a link while it is live
may both succeed, for a reset with two passwords of which the later save wins,
and one may succeed after the link expired or was replaced. The code allows
this, in both services, and so does the specification. What it does not allow is
to open a link that is not live, to succeed without having opened it, and to
revive it: after one success every confirmation that arrives is refused.

`StrandedProfileIsForever` holds, and is bad news: a registration that fails
between its two inserts leaves an address that can never have an account.

### Bounds

* Requests are used once, so their number bounds the behaviours. Three are
  enough for the races looked for: two that interfere and one that issued the
  link or created the user both work on. `passwords` needs four: a Google login
  that makes the user verified, a reset, and two confirmations; or two accounts
  and a reset for one of them. Its one call is a password login of either
  account: with the password of the other it is refused, and a reset replaces
  the right one while bcrypt runs.
* Two e-mails and two Google accounts in `accounts` and `passwords` have both
  kinds of race: requests of one e-mail, and of two that meet in the `googleId`
  index or could receive each other's password. The other passing runs use one.
* `TokenTTL = 1` with `MaxTime = 2` has a token alive, expired, and a newer one
  alive while a handler holds the older. One tick suffices where only
  "alive, then expired" matters; `liveness` has none, because placeholders and
  spent tokens are expired at once.
* One fault at any point of any handler. Faults change no
  control state other than ending handlers, and the theorems cover any number.
* `gateway` has two handlers with a property of every rule between them, and one
  more hit than a client needs to be refused and then to compete with the other.
  With `TTL = 1` a timer is running, due, and late. Only the storage is shared,
  so one request at a time leaves out no interference; the theorems cover any
  number of each, and any `TTL` and `Limit`.
* `boot` lacks three variables at once, one of each stage, and starts again.
* `jobs` has one server whose address begins with the other's, a url that holds
  the address twice and one that is the address, a name of each kind, and jobs
  without a host and name, without a url, or no object at all; queues of three
  interleave two hosts with one that has none.
* Requests are interchangeable, so the safety runs use them as a symmetry set
  (calls too in `sessions`). The runs with a liveness property use none.

### Fairness

`Fairness` is weak fairness of each running handler and of each listener: the
event loop resumes a handler whose await has settled, and the MongoDB driver and
SMTP client settle every operation, if only by an error. Nothing is assumed of
clients, the clock or faults. `RegistrationIsMailed` and `ResetIsMailed` need
the fault-free instance: no code retries an e-mail.

`TimersFire` in `Gateway` is weak fairness of the clock and of the timers of
each key: Node runs a timer that is due, sooner or later. `BootSpec` has weak
fairness of `BootStep`: the driver settles a connection attempt, and Nest goes
on. Starting or killing a process is never assumed.

## 4. What is proved

`AuthSystemProofs` proves for every instance - any sets of e-mails, Google
accounts and requests, any `TokenTTL`, and no bound on time or faults other than
that they are natural numbers - that `IInv` is an invariant of `Spec`. From it:
`Typing`, `TokensHaveUser`, `UsersHaveProfiles`, `GoogleUsersAreVerified`,
`VerifiedEmailsAreProven`, `LiveResetTokens`, `SpentLinksAreDead` and
`PasswordsHaveProvenance`. `NothingIsForgotten` is an action property: no step
loses a user, a profile, a verification, a Google link or a delivered e-mail.

`SessionProofs` proves `SessionImplementsAuthSystem`, that `SessionSpec` implies
`Spec`, so every theorem above holds of the composition too. It then proves
`SessionIInv` invariant, for any set of calls and any lifetime of an access token
or a hold: `SessionTyping`, `AccessTokensNameAccounts`, `HoldsAreForGoogleUsers`
and `LoginsProvePasswords`.

`LifecycleProofs` and `SessionLifecycleProofs` add what needs more than one state
or more than `IInv`; `GatewayProofs`, `BootstrapProofs` and `JobQueueProofs` prove
the modules around the handlers. Their arguments follow below.

Assumptions, each stated in the module that declares the constant and evaluated
by TLC in the runs: `Lower` is idempotent; `TokenTTL`, `AccessTTL`, `Limit` and
`TTL` are positive; calls are not requests (`SessionAssumption`); handlers have a
DTO (`HandlersHaveDtos`); the length of a token is positive and even
(`LengthsAreEven`: it is 128, and an odd one would be drawn a digit short);
`Variables` holds what is looked up (`VariablesAssumption`); the storage has
finitely many keys (`KeysAreFinite`: they are those of clients that have come);
hosts and urls are texts, jobs in a body are jobs, and no host is called
`undefined` (`QueueAssumption`); and
`None` is not a value of another type (`NoneIsNoInput` says it of requests and
bodies).

The properties are not inductive alone. They speak of documents and answers; a
handler in the middle relies on what it did earlier. `IInv` adds:

* `Control`: a label implies the route, and that the fields it uses are there;
* `AccountsKnown`: what an earlier await found still holds, for example that a
  user exists at `savePassword`, because nothing deletes users, or that a Google
  login that ended has its user, which the redirect counts on;
* `TokensOK`: a token names the request that drew it, past its creation, so
  its value cannot be issued a second time;
* `LinksOK`: a confirmation with a known value follows an e-mail to the address
  whose token it holds.

The argument runs in layers: each conjunct is preserved by a step given the ones
before it, with one proof step per action. Two lemmas on steps carry most of the
rest: `StepGrows` (nothing is lost) and `StepRevivesNothing` (a token whose
request has ended is only ever kept, removed or expired), from which
`SpentLinkIsDead` follows, because a spent value belongs to an ended request.

`SessionIInv` adds to `IInv` what a call knows at each await: that its account
exists or is linked, and, for a login, whose password was compared
(`CallsOK`). A step of a call leaves `AuthSystem` alone; a step of `AuthSystem`
takes none of this back, by `StepGrows`.

**A promised registration** (`AwaitedRegistrations`). Deleting and creating a
token are two awaits, so between them another registration's promise has no
token. `AwaitedInv` says that then some request is on its way to create one
(`Refills`). Whoever deletes is on such a path, and no refusal lies on it once
the user exists; so only a fault leaves the promise empty, and with `Quiescent`
nobody is on the way any more.

**Promised links** (`PromisesAreKept`). `SettledPromisesAreKept` is the safety half of
`RegistrationIsMailed` and `ResetIsMailed`, which TLC checks on one e-mail only.
`PromisesInv` says that whoever promised a link, or has a reset token stored, has
its e-mail on its way (`OnItsWay`): about to be emitted, queued, or delivered.
Without a fault nothing is taken off that way (`NoMailIsLost`, `MovesItself`). A
reset is refused only by the token of another request (`RefusedResetLostPlace`),
which is then on its way too. What remains for fairness is that all settles.

**Two facts behind the findings.** `OneUserWithoutGoogle`: the index on `googleId`
never admits two users without one, so what the run `second_user` shows of two
e-mails holds of any number. `NoTokenLacksItsUser`: no confirmation reads a token
without its user, so the errors written for that case are never thrown, and the
500 that `unknown_link` shows is never the documented one.

**Running down.** `HandlersAreBounded` and `BootRunsDown` are the other halves of
liveness that a prover reaches: every step of a handler lowers `AwaitsLeft`, every
step of `bootstrap()`, a failed attempt to connect too, lowers `StepsLeft`. With
weak fairness, and a step enabled as long as either is running, that is
`EveryRequestIsAnswered` and `BootEnds`; TLC checks those two whole.

**The life cycles.** The refinement mapping names what the collections show of
an account, a link or a session. Most steps show nothing; the lemmas single out
the few that do. For accounts: a step writes one user or proves one e-mail, and
never both. For links: only two awaits issue (`StepIssues`), each the value of
its own request, which nobody had before; only the first step of a confirmation
opens a link, and only when its token is live (`ReadOpensLive`); only saving the
token it holds ends in success, which ends the link (`SuccessEndsLink`); whatever
else happens lets links fade (`OthersFade`). `StrandedProfilesStay` adds that only a
handler that inserted the profile inserts the user. For sessions there is a
lemma for each action of `Session`, an invariant that only a redirect holds a
token across its await (`InHandOK`), and a lemma that a step of `AuthSystem`
moves one request at most, so that it proves one account at most.

**Throttling.** The storage counts timers, the property speaks of hits let in.
`ThrottlingInv` lays one beside the other, from the newest on: a timer lasts at
least as long as the hit beside it, and hits older than all timers are over
(`Covered`). A refused hit pushes a timer in between, which lasts longer still.
A hit is let in only when there are fewer than `Limit` timers, so the hit `Limit`
before it has no timer beside it and is over.

**Validation.** `Decided` says of each request what the pipe has decided, and on
which body. `ValidIsEnough` goes through the rules once: what the validators say
of an instance is what its handler counts on. `UsualIsValid` is the converse for
bodies as the front end sends them.

**Bootstrap.** The environment is not written while the process lives, so
`LookedUp` remembers for each stage which look-ups have succeeded.

**Types of the pipeline.** `GatewayTypeOK` bounds the hits of each key by
`MaxHits`, while a hit is guarded by the sum over all keys; `SumIsBound` says that
no single count exceeds the sum. `StagesInv` says of each request what it has at
its stage.

**Folds.** The community modules define their folds by a recursive function on
sets, or on indices, chosen with `CHOOSE`: nothing follows from such a definition
until a function that solves the equation is known to exist. The library's
induction theorems take an operator, but well-foundedness has a form over sets
(`WFMin`), and that is enough: `NatSetInduction` says that a set of numbers with 0
and every successor has all of them. From it `FoldExists` builds the solution one
cardinality at a time, `FoldIsLoop` turns a fold over the indices of a sequence
into a loop `H[m] = step(m, H[m - 1])`, and `FilterLoop` says of a loop that
appends the entries of some indices that its result lists exactly those, in
their order (`Lists`).

**The job queue.** `QueueInv` keeps the YAML beside the queue it was made of. Both
folds of `convertQueueToYAML` are such loops (`UniqueHostsLoop`, `JobsOfLoop`):
the hosts are those of the indices where one is first met, the jobs of a host
those of its indices. Then the place of a job - its group and its position in
that group - and its index in the queue determine each other, which is the
bijection of `YamlIsQueueByHost`, and the order follows from both lists being
increasing. All this is of a YAML that is there and that nothing breaks
(`Grouped`), which one that can be read is. `YamlsRebuildJobs` needs in addition that `replace` finds a host that
begins the url at its beginning (`PrefixRemoval`), though the host may occur in
it again.

So every invariant and every action property of the passing runs, and all three
refinements, are theorems. Model-checked only are the five liveness properties,
`EveryRequestIsAnswered`, `RegistrationIsMailed`, `ResetIsMailed`,
`RefusalIsTemporary` and `BootEnds` (fairness and ENABLED are out of the prover's
reach), that nothing deadlocks, and the five claims that are refuted.

## 5. Not modelled

* bcrypt, JWT signatures, OAuth with Google, SMTP, HTTP to Jenkins: external, used
  as the code relies on them.
* Helmet, CORS headers, Swagger, URI versioning, routes and log lines: wiring
  that keeps no state and decides nothing the models tell apart.
* Refresh tokens: generated, returned and never read.
* A JSON array as a body, which the library validates item by item.
* What `dotenv` does with files and `expandVariables`: `env` is the outcome.
* Wording and layout of e-mails and answers.

Some code is followed by the model though no property is about it, because the
repository says nothing to hold it to: an e-mail that is no text answers 500
before `@IsString()` is asked; the schema of the environment is never applied;
`PORT` from the environment wins over the number parsed from it; the expiry of a
token hold is stored and never read, nor is the hold deleted when its code is
exchanged.

## 6. Plan

The modules were written in this order: the store and the handlers, their
composition, sessions, the job queue, the pipeline, the start of the process; and
their proofs in the same order. What is left:

1. A measure for `RefusalIsTemporary`, the one liveness property of which no half
   is a theorem: a sum over the timers of a key.
2. Liveness of sessions; and the life cycle of sessions with two e-mails, of
   which TLC checks password logins only (`passwords`).
