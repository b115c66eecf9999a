------------------------------ MODULE Throttling ------------------------------
(***************************************************************************)
(* ThrottlerGuard over the storage of @nestjs/throttler: a hit counts for  *)
(* its client and handler from when it is made, refused or not, until a    *)
(* timer of its own fires, ttl later or late.  Nothing of it is persisted. *)
(*                                                                         *)
(* Time is what is left of each timer: a tick shortens every one.          *)
(***************************************************************************)
EXTENDS Naturals, FiniteSets, SequencesExt, Functions

CONSTANTS
  Clients,    \* IP addresses of callers
  Handlers,   \* handlers of the controllers that use ThrottlerGuard
  Limit,      \* ThrottlingLevels.LONG: hits a client may have counting
  TTL,        \* and how long one counts, in ticks
  MaxHits     \* bound on the hits in one life of the process

ASSUME ThrottlingAssumption ==
  /\ Limit \in Nat \ {0}
  /\ TTL \in Nat \ {0}
  /\ MaxHits \in Nat

Keys == Clients \X Handlers

ASSUME KeysAreFinite == IsFiniteSet(Keys)

VARIABLES
  timers,     \* storage: for each key the hits that count, oldest first
  admitted,   \* the hits let in, oldest first, with what is left of their TTL
  sent        \* hits of each client for each handler

throttling == <<timers, admitted, sent>>

ThrottlingTypeOK ==
  /\ timers \in [Keys -> Seq(0..TTL)]
  /\ admitted \in [Keys -> Seq(0..TTL)]
  /\ sent \in [Keys -> 0..MaxHits]

Quiet == [k \in Keys |-> <<>>]

ThrottlingInit ==
  /\ timers = Quiet
  /\ admitted = Quiet
  /\ sent = [k \in Keys |-> 0]

-----------------------------------------------------------------------------
\* Mutation: a hit is stored for the handler, whoever calls it.
HandlerKey(client, handler) == <<CHOOSE c \in Clients : TRUE, handler>>

\* ThrottlerGuard.generateKey: the tracker is the IP of the request.
GenerateKey(client, handler) == <<client, handler>>

\* totalHits > limit throws; the hit itself is in the total.
Admits(k) == Len(timers[k]) < Limit

\* A hit of client for handler; the storage counts it before the guard looks.
Hit(client, handler) ==
  LET k == GenerateKey(client, handler) own == <<client, handler>>
  IN  /\ SumFunction(sent) < MaxHits
      /\ timers' = [timers EXCEPT ![k] = Append(@, TTL)]
      /\ admitted' = IF Admits(k)
                       THEN [admitted EXCEPT ![own] = Append(@, TTL)]
                       ELSE admitted
      /\ sent' = [sent EXCEPT ![own] = @ + 1]

\* Mutations: one timer for the window, as a counter that is reset; a counter
\* that only grows.
ResetWindow(hits) == <<>>
KeepCounting(hits) == hits

\* Only the hit of the timer stops counting.
Discounted(hits) == Tail(hits)

Fire(k) ==
  /\ timers[k] # <<>>
  /\ Head(timers[k]) = 0
  /\ timers' = [timers EXCEPT ![k] = Discounted(@)]
  /\ UNCHANGED <<admitted, sent>>

Shortened(hits) ==
  [i \in DOMAIN hits |-> IF hits[i] = 0 THEN 0 ELSE hits[i] - 1]

ThrottlingTick ==
  /\ timers # Quiet
  /\ timers' = [k \in Keys |-> Shortened(timers[k])]
  /\ admitted' = [k \in Keys |-> Shortened(admitted[k])]
  /\ UNCHANGED sent

\* A new process has an empty storage; what the old one let in is not its
\* account.
Forget ==
  /\ timers' = Quiet
  /\ admitted' = Quiet
  /\ sent' = [k \in Keys |-> 0]

-----------------------------------------------------------------------------
\* Within any TTL of one life of the process no handler runs more than Limit
\* times for one client, wherever that TTL begins and however late timers fire:
\* of any Limit + 1 that were let in, the first is over when the last comes.
WindowWithinLimit ==
  \A k \in Keys :
    Len(admitted[k]) > Limit => admitted[k][Len(admitted[k]) - Limit] = 0

\* A client refused for its hits is let in again once it stops: every hit that
\* was counted, a refused one too, is discounted.
RefusalIsTemporary == \A k \in Keys : ~Admits(k) ~> Admits(k)

=============================================================================
