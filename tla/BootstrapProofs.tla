--------------------------- MODULE BootstrapProofs ---------------------------
(***************************************************************************)
(* The configuration a listening process has, in any environment, for any  *)
(* set of variables and any number of attempts.  What main.ts looks up is  *)
(* never written again, so it is enough to remember how far it came.       *)
(***************************************************************************)
EXTENDS Bootstrap, TLAPS

\* What is known of the environment at each stage of bootstrap().
LookedUp ==
  /\ phase \in {"created", "corsEnabled", "announced", "listening"} =>
       \A v \in ModuleReads : Found(v)
  /\ phase \in {"corsEnabled", "announced", "listening"} =>
       Found("FRONT_END_URL")
  /\ phase \in {"announced", "listening"} => Found("NODE_ENV")

BootInv ==
  /\ phase \in Booting \cup {"off", "listening", "exited"}
  /\ LookedUp
  /\ HandlersFindConfiguration
  /\ RefusalNamesMissing

\* No step takes a variable away or asks for one that is not there.
LEMMA BootStepOK == BootInv /\ [BootNext]_bootVars => BootInv'
PROOF
<1> SUFFICES ASSUME BootInv, [BootNext]_bootVars PROVE BootInv'
  OBVIOUS
<1> USE DEF BootInv, LookedUp, HandlersFindConfiguration, Booting
<1>a. \A v \in {"FRONT_END_URL", "NODE_ENV"} \cup ModuleReads :
        ~Found(v) => v \in Variables \ {"PORT", "DATADOG_API_KEY"}
                     /\ env[v] = None
  BY VariablesAssumption
     DEF Found, Get, Loaded, ModuleReads, DatabaseReads, JwtReads,
         TransporterReads, GoogleReads, MailReads, SendEmailReads,
         FromNameReads
<1>b. Found("PORT")
  BY NoneIsNoSetting DEF Found, Get, Loaded
<1>1. CASE Start
  BY <1>1, NoneIsNoSetting DEF Start, RefusalNamesMissing
<1>2. CASE Create \/ CreateFails
  BY <1>2, <1>a DEF Create, CreateFails, Proceed, Exit, Found, Get, Loaded,
       RefusalNamesMissing
<1>3. CASE ConnectFails \/ ListenFails \/ Kill
  BY <1>3, NoneIsNoSetting DEF ConnectFails, ListenFails, Kill, Exit, Found, Get, Loaded,
       RefusalNamesMissing
<1>4. CASE EnableCors \/ LogNodeEnv
  BY <1>4, <1>a DEF EnableCors, LogNodeEnv, Proceed, Exit, Found, Get, Loaded,
       RefusalNamesMissing
<1>5. CASE Listen
  BY <1>5, <1>b DEF Listen, Found, Get, Loaded, RefusalNamesMissing
<1>6. CASE Handle(RedirectReads) \/ Handle(MailReads)
  <2>1. \A v \in RedirectReads \cup MailReads : phase = "listening" => Found(v)
    BY DEF RedirectReads, MailReads, SendEmailReads, FromNameReads,
         ModuleReads, TransporterReads
  <2> QED
    BY <1>6, <2>1 DEF Handle, Found, Get, Loaded, RefusalNamesMissing
<1>7. CASE UNCHANGED bootVars
  BY <1>7 DEF bootVars, Found, Get, Loaded, RefusalNamesMissing
<1> QED
  BY <1>1, <1>2, <1>3, <1>4, <1>5, <1>6, <1>7 DEF BootNext, BootStep

\* What bootstrap() has looked up is there as long as the process lives.
THEOREM BootInvariance == BootSpec => []BootInv
<1>1. BootInit => BootInv
  BY NoneIsNoSetting
     DEF BootInit, BootInv, LookedUp, HandlersFindConfiguration,
         RefusalNamesMissing
<1> QED
  BY <1>1, BootStepOK, PTL DEF BootSpec

\* No handler of a process that listens asks for a variable that is not set.
THEOREM HandlersAreConfigured == BootSpec => []HandlersFindConfiguration
<1>1. BootInv => HandlersFindConfiguration
  BY DEF BootInv
<1> QED
  BY BootInvariance, <1>1, PTL

\* bootstrap() gives up over a variable only when one it needs is not set.
THEOREM RefusalsNameMissing == BootSpec => []RefusalNamesMissing
<1>1. BootInv => RefusalNamesMissing
  BY DEF BootInv
<1> QED
  BY BootInvariance, <1>1, PTL

\* Every variable of Bootstrap keeps its type; a cause is known when the
\* process has ended, and a port when it listens.
THEOREM BootTyping == BootSpec => []BootTypeOK
<1> USE NoneIsNoSetting DEF BootTypeOK, Booting, Setting
<1>1. BootInit => BootTypeOK
  BY BootstrapAssumption DEF BootInit
<1>2. BootTypeOK /\ [BootNext]_bootVars => BootTypeOK'
  <2> SUFFICES ASSUME BootTypeOK, [BootNext]_bootVars PROVE BootTypeOK'
    OBVIOUS
  <2>1. CASE Start
    BY <2>1, BootstrapAssumption DEF Start, Environments
  <2>2. CASE Create \/ CreateFails \/ EnableCors \/ LogNodeEnv
    BY <2>2 DEF Create, CreateFails, EnableCors, LogNodeEnv, Proceed, Exit
  <2>3. CASE ConnectFails \/ ListenFails \/ Kill
    BY <2>3, BootstrapAssumption DEF ConnectFails, ListenFails, Kill, Exit
  <2>4. CASE Listen
    BY <2>4, VariablesAssumption DEF Listen, Exit, Found, Get, Loaded
  <2>5. CASE Handle(RedirectReads) \/ Handle(MailReads)
    BY <2>5, VariablesAssumption DEF Handle, RedirectReads, MailReads
  <2>6. CASE UNCHANGED bootVars
    BY <2>6 DEF bootVars
  <2> QED
    BY <2>1, <2>2, <2>3, <2>4, <2>5, <2>6 DEF BootNext, BootStep
<1> QED
  BY <1>1, <1>2, PTL DEF BootSpec

-----------------------------------------------------------------------------
\* How many steps bootstrap() has before it at most: its stages, and before them
\* the attempts to connect that are left.
StepsLeft ==
  CASE phase = "creating" -> 4 + (MaxRetries - attempts)
    [] phase = "created" -> 3
    [] phase = "corsEnabled" -> 2
    [] phase = "announced" -> 1
    [] OTHER -> 0

\* Every step of bootstrap(), a failed attempt to connect too, leaves fewer, so
\* a start takes a bounded number: what BootEnds needs besides that every
\* attempt settles.
THEOREM BootRunsDown ==
  BootSpec => [][BootStep => StepsLeft \in Nat /\ StepsLeft' < StepsLeft]_bootVars
<1>1. BootTypeOK /\ BootStep => StepsLeft \in Nat /\ StepsLeft' < StepsLeft
  <2> SUFFICES ASSUME BootTypeOK, BootStep
               PROVE  StepsLeft \in Nat /\ StepsLeft' < StepsLeft
    OBVIOUS
  <2>1. attempts \in Nat /\ MaxRetries \in Nat /\ attempts <= MaxRetries
    BY BootstrapAssumption DEF BootTypeOK
  <2>2. CASE Create \/ CreateFails \/ ConnectFails
    BY <2>1, <2>2 DEF StepsLeft, Create, CreateFails,
                      ConnectFails, Proceed, Exit
  <2>3. CASE EnableCors \/ LogNodeEnv \/ Listen \/ ListenFails
    BY <2>3 DEF StepsLeft, EnableCors, LogNodeEnv, Listen, ListenFails,
                Proceed, Exit
  <2> QED
    BY <2>2, <2>3 DEF BootStep
<1> QED
  BY <1>1, BootTyping, PTL

=============================================================================
