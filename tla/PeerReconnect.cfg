SPECIFICATION Spec
CONSTANTS
  s1 = s1 s2 = s2
  p1 = p1 p2 = p2
  Sessions <- MCSessions
  Pcs <- MCPcs
  NoSession = NoSession
  NoPc = NoPc
  Freshness = {TRUE}
  MaxReconnectAttempts = 3
PROPERTY ConnectedIsKept
