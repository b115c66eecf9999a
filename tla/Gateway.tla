------------------------------- MODULE Gateway -------------------------------
(***************************************************************************)
(* What Nest does with a request before its handler runs: ThrottlerGuard   *)
(* of the three controllers of auth/, the logging interceptor, and the     *)
(* ValidationPipe of main.ts.  The handlers are those of AuthSystem and    *)
(* Session, which take their input as it leaves the pipe.  The other       *)
(* controllers have neither a guard nor a DTO.                             *)
(***************************************************************************)
EXTENDS Throttling, Validation

CONSTANTS
  Requests,     \* requests that may be under way at once
  MaxChanged,   \* bound on the properties of a body that are not the usual
  None

ASSUME HandlersHaveDtos == Handlers \subseteq DOMAIN Dtos

VARIABLES
  request,   \* what each request is
  stage,     \* how far it has come, or the status it was refused with
  received   \* what its handler was called with

gateway == <<request, stage, received>>
gatewayVars == <<throttling, gateway>>

Refusals == {"400", "429", "500"}

\* A property as the front end sends it, and others.
Usual == [email |-> Text("Email", 6), text |-> Text("word", 8),
          newPassword |-> Text("word", 8), match |-> Text("word", 8),
          token |-> DrawnToken, terms |-> True]

Unusual == {Absent, Odd, True, Text("email", 6),
            Text("word", 0), Text("word", 7), Text("other word", 8),
            Text("word", TokenLength - 1), Text("word", TokenLength + 1)}

Bodies(handler) ==
  LET rules == Dtos[handler]
  IN  UNION {{[f \in DOMAIN rules |->
                 IF f \in changed THEN how[f] ELSE Usual[rules[f]]] :
              how \in [changed -> Unusual]} :
             changed \in {s \in SUBSET DOMAIN rules :
                            Cardinality(s) <= MaxChanged}}

ASSUME NoneIsNoInput ==
  \A h \in Handlers : \A body \in Bodies(h) :
    /\ PlainToInstance(h, body) # None
    /\ \A c \in Clients : [client |-> c, handler |-> h, body |-> body] # None

GatewayInit ==
  /\ ThrottlingInit
  /\ request = [r \in Requests |-> None]
  /\ stage = [r \in Requests |-> "idle"]
  /\ received = [r \in Requests |-> None]

-----------------------------------------------------------------------------
Reaches(r, next) == stage' = [stage EXCEPT ![r] = next]

\* ThrottlerGuard, the first of the pipeline.
CanActivate(r) ==
  /\ stage[r] = "idle"
  /\ \E c \in Clients, h \in Handlers : \E body \in Bodies(h) :
       /\ Hit(c, h)
       /\ request' = [request EXCEPT
                        ![r] = [client |-> c, handler |-> h, body |-> body]]
       /\ Reaches(r, IF Admits(GenerateKey(c, h)) THEN "pipe" ELSE "429")
  /\ UNCHANGED received

\* Mutation: a pipe without transform: true, which validates a copy.
Unchanged(handler, body) == body

\* With transform: true the handler is called with the instance.
Transform(handler, body) == PlainToInstance(handler, body)

ValidationPipe(r) ==
  /\ stage[r] = "pipe"
  /\ LET h == request[r].handler
         body == request[r].body
         dto == PlainToInstance(h, body)
     IN  IF TransformThrows(h, body)
           THEN /\ Reaches(r, "500")
                /\ UNCHANGED received
         ELSE IF ~Valid(h, dto)
           THEN /\ Reaches(r, "400")
                /\ UNCHANGED received
         ELSE /\ Reaches(r, "handler")
              /\ received' = [received EXCEPT ![r] = Transform(h, body)]
  /\ UNCHANGED <<request, throttling>>

\* The client has its answer, from the pipeline or the handler.
Responds(r) ==
  /\ stage[r] \in Refusals \cup {"handler"}
  /\ Reaches(r, "idle")
  /\ request' = [request EXCEPT ![r] = None]
  /\ received' = [received EXCEPT ![r] = None]
  /\ UNCHANGED throttling

\* The process is restarted.
Restart ==
  /\ Forget
  /\ request' = [r \in Requests |-> None]
  /\ stage' = [r \in Requests |-> "idle"]
  /\ received' = [r \in Requests |-> None]

StorageStep ==
  /\ ThrottlingTick \/ \E k \in Keys : Fire(k)
  /\ UNCHANGED gateway

GatewayNext ==
  \/ \E r \in Requests : CanActivate(r) \/ ValidationPipe(r) \/ Responds(r)
  \/ StorageStep
  \/ Restart

GatewaySpec == GatewayInit /\ [][GatewayNext]_gatewayVars

\* The clock goes on, and a timer that is due fires.
TimersFire ==
  /\ WF_gatewayVars(ThrottlingTick /\ UNCHANGED gateway)
  /\ \A k \in Keys : WF_gatewayVars(Fire(k) /\ UNCHANGED gateway)

FairGatewaySpec == GatewaySpec /\ TimersFire

-----------------------------------------------------------------------------
GatewayTypeOK ==
  /\ ThrottlingTypeOK
  /\ \A r \in Requests :
       /\ stage[r] \in Refusals \cup {"idle", "pipe", "handler"}
       /\ stage[r] = "idle" <=> request[r] = None
       /\ stage[r] = "handler" <=> received[r] # None
       /\ request[r] # None =>
            /\ request[r].client \in Clients
            /\ request[r].handler \in Handlers
            /\ DOMAIN request[r].body = DOMAIN Dtos[request[r].handler]
       /\ received[r] # None =>
            \A f \in DOMAIN received[r] :
              received[r][f] \in Texts \cup {True, False}

\* What the handlers of AuthSystem and Session count on: an e-mail is one and
\* in lower case, whatever its route and spelling, so that accounts are found
\* again; a new password was typed twice; the terms are a yes or a no; a token
\* can be one that was drawn.
HandlersReceiveValidInput ==
  \A r \in Requests : stage[r] = "handler" =>
    LET rules == Dtos[request[r].handler] dto == received[r]
    IN  \A f \in DOMAIN rules :
          /\ rules[f] = "email" => dto[f].is = "email"
          /\ rules[f] = "match" => dto[f] = dto.password
          /\ rules[f] = "terms" => dto[f] \in {True, False}
          /\ rules[f] # "terms" => IsNotEmptyText(dto[f])
          /\ rules[f] = "token" => dto[f].length = DrawnToken.length

\* The value of a link or a redirect comes back through the DTO of its route:
\* none that RandomService drew is refused as malformed.
DrawnTokensAreAccepted ==
  \A r \in Requests :
    request[r] # None /\ stage[r] = "400" =>
      \E f \in DOMAIN request[r].body :
        request[r].body[f] # Usual[Dtos[request[r].handler][f]]

\* A client is refused for its own hits of that handler alone: neither another
\* client nor another handler uses up what it may send.
RefusedForOwnHits ==
  \A r \in Requests : stage[r] = "429" =>
    sent[<<request[r].client, request[r].handler>>] > Limit

=============================================================================
