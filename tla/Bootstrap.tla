------------------------------ MODULE Bootstrap ------------------------------
(***************************************************************************)
(* The start of the process, main.ts and the providers NestFactory.create  *)
(* makes, and what handlers ask of the configuration once it listens.      *)
(* getOrThrow throws on a variable that is not set: in bootstrap() this    *)
(* ends the process, in a handler only what it was doing.                  *)
(***************************************************************************)
EXTENDS Naturals, FiniteSetsExt

CONSTANTS
  Variables,   \* The names in EnvironmentVariables.
  MaxMissing,  \* Bound on the variables that are not set.
  MaxRetries,  \* Attempts mongoose repeats before it gives up.
  None

ASSUME BootstrapAssumption ==
  /\ MaxMissing \in Nat
  /\ MaxRetries \in Nat

VARIABLES
  env,       \* the environment of the process, files included
  phase,     \* how far bootstrap() has come
  attempts,  \* connections to MongoDB that failed
  cause,     \* why the process ended
  port,      \* what it listens on
  missed     \* variables a handler asked for in vain

bootVars == <<env, phase, attempts, cause, port, missed>>

\* Where a value comes from; None, when it has none.
Setting == {"environment", "default", None}
Booting == {"creating", "created", "corsEnabled", "announced"}

Environments ==
  {[v \in Variables |-> IF v \in missing THEN None ELSE "environment"] :
     missing \in UNION {kSubset(k, Variables) : k \in 0..MaxMissing}}

BootInit ==
  /\ env = [v \in Variables |-> None]
  /\ phase = "off"
  /\ attempts = 0
  /\ cause = None
  /\ port = None
  /\ missed = {}

-----------------------------------------------------------------------------
\* The loaded configuration: parseInt(PORT) || 3000, and nothing else.
Loaded(v) ==
  IF v # "PORT" THEN None
  ELSE IF env[v] = None THEN "default" ELSE "environment"

\* Mutation: the configuration is not loaded.
EnvironmentOnly(v) == env[v]

\* ConfigService.get: the environment before the loaded configuration.
Get(v) == IF env[v] # None THEN env[v] ELSE Loaded(v)
Found(v) == Get(v) # None

\* Mutation: the rejection of bootstrap() is caught, and the process stays.
LogError(why) ==
  /\ cause' = why
  /\ port' = None
  /\ UNCHANGED <<env, phase, attempts, missed>>

\* Nobody catches the rejection of bootstrap(): the process ends.
Exit(why) ==
  /\ phase' = "exited"
  /\ cause' = why
  /\ port' = None
  /\ UNCHANGED <<env, attempts, missed>>

Proceed(next) ==
  /\ phase' = next
  /\ UNCHANGED <<env, attempts, cause, port, missed>>

\* The operator starts the process, anew or again, in any environment.
Start ==
  /\ phase \in {"off", "exited"}
  /\ env' \in Environments
  /\ phase' = "creating"
  /\ attempts' = 0
  /\ cause' = None
  /\ missed' = {}
  /\ UNCHANGED port

\* What the factories and constructors of the providers ask for.
DatabaseReads ==
  {"DATABASE_URL", "DATABASE_USER", "DATABASE_PASSWORD", "DATABASE_NAME"}
JwtReads == {"JWT_SECRET"}
TransporterReads == {"EMAIL_USER", "EMAIL_PASSWORD"}
GoogleReads ==
  {"GOOGLE_CLIENT_ID", "GOOGLE_CLIENT_SECRET", "GOOGLE_CALLBACK_URL"}

ModuleReads == DatabaseReads \cup JwtReads \cup TransporterReads \cup GoogleReads

\* NestFactory.create awaits every provider, the connection to MongoDB too.
Create ==
  /\ phase = "creating"
  /\ \A v \in ModuleReads : Found(v)
  /\ Proceed("created")

CreateFails ==
  /\ phase = "creating"
  /\ \E v \in ModuleReads : ~Found(v)
  /\ Exit("variable")

\* Mutation: no bound on the attempts; after the last they start over.
KeepConnecting ==
  /\ phase = "creating"
  /\ attempts' = IF attempts < MaxRetries THEN attempts + 1 ELSE 0
  /\ UNCHANGED <<env, phase, cause, port, missed>>

ConnectFails ==
  /\ phase = "creating"
  /\ IF attempts < MaxRetries
       THEN /\ attempts' = attempts + 1
            /\ UNCHANGED <<env, phase, cause, port, missed>>
       ELSE Exit("database")

EnableCors ==
  /\ phase = "created"
  /\ IF Found("FRONT_END_URL") THEN Proceed("corsEnabled")
                               ELSE Exit("variable")

\* Mutation: the line that logs NODE_ENV is not there.
SkipNodeEnv ==
  /\ phase = "corsEnabled"
  /\ Proceed("announced")

LogNodeEnv ==
  /\ phase = "corsEnabled"
  /\ IF Found("NODE_ENV") THEN Proceed("announced")
                          ELSE Exit("variable")

Listen ==
  /\ phase = "announced"
  /\ IF Found("PORT")
       THEN /\ phase' = "listening"
            /\ port' = Get("PORT")
            /\ UNCHANGED <<env, attempts, cause, missed>>
       ELSE Exit("variable")

\* The port is taken, or is none.
ListenFails ==
  /\ phase = "announced"
  /\ Exit("port")

\* The process is killed, at any time.
Kill ==
  /\ phase \in Booting \cup {"listening"}
  /\ Exit("killed")

-----------------------------------------------------------------------------
\* What the handlers of requests and of events ask for.
RedirectReads == {"FRONT_END_URL"}
FromNameReads == {"NODE_ENV"}
SendEmailReads == FromNameReads \cup {"EMAIL_USER"}
MailReads == {"FRONT_END_URL"} \cup SendEmailReads

Handle(reads) ==
  /\ phase = "listening"
  /\ missed' = missed \cup {v \in reads : ~Found(v)}
  /\ UNCHANGED <<env, phase, attempts, cause, port>>

BootStep ==
  \/ Create \/ CreateFails \/ ConnectFails
  \/ EnableCors \/ LogNodeEnv
  \/ Listen \/ ListenFails

BootNext ==
  \/ Start
  \/ BootStep
  \/ Kill
  \/ Handle(RedirectReads) \/ Handle(MailReads)

BootSpec == BootInit /\ [][BootNext]_bootVars /\ WF_bootVars(BootStep)

\* EnvironmentVariables names what is asked for.
ASSUME VariablesAssumption ==
  ModuleReads \cup MailReads \cup {"PORT"} \subseteq Variables

ASSUME NoneIsNoSetting ==
  None \notin {"environment", "default",
               "variable", "database", "port", "killed"}

-----------------------------------------------------------------------------
BootTypeOK ==
  /\ env \in [Variables -> Setting]
  /\ phase \in Booting \cup {"off", "listening", "exited"}
  /\ attempts \in 0..MaxRetries
  /\ cause \in {None, "variable", "database", "port", "killed"}
  /\ (cause # None) <=> (phase = "exited")
  /\ port \in Setting \cup {"default"}
  /\ (port # None) <=> (phase = "listening")
  /\ missed \subseteq Variables

\* A process that listens has what its handlers will ask getOrThrow for: the
\* mail listener and the Google redirect answer for no variable bootstrap()
\* did not look up first.
HandlersFindConfiguration == missed = {}

\* bootstrap() gives up over a variable only when one without a default is not
\* set; PORT has one, and DATADOG_API_KEY is never looked up.
RefusalNamesMissing ==
  cause = "variable" =>
    \E v \in Variables \ {"PORT", "DATADOG_API_KEY"} : env[v] = None

\* A process that was started comes to listen or ends: main.ts waits for
\* MongoDB a bounded number of times and for nothing else.
BootEnds == phase \in Booting ~> phase \in {"listening", "exited"}

=============================================================================
