SPECIFICATION FairGatewaySpec
CONSTANTS
  c1 = c1  c2 = c2  r1 = r1
  None = None
  TokenLength = 128
  IdLength = 32
  Clients = {c1, c2}
  Handlers <- TwoHandlers
  Requests = {r1}
  Limit = 2
  TTL = 1
  MaxHits = 4
  MaxChanged = 1
INVARIANTS
  GatewayTypeOK
  HandlersReceiveValidInput
  DrawnTokensAreAccepted
  WindowWithinLimit
  RefusedForOwnHits
PROPERTIES
  RefusalIsTemporary
