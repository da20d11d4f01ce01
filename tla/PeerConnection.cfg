SPECIFICATION FairSpec
CONSTANTS
  s1 = s1 s2 = s2
  p1 = p1 p2 = p2
  Sessions <- MCSessions
  Pcs <- MCPcs
  NoSession = NoSession
  NoPc = NoPc
  Freshness = {TRUE, FALSE}
  MaxReconnectAttempts = 3
INVARIANT PeerTypeOK
INVARIANT OnlyCurrentOpen
INVARIANT SentIsCurrent
INVARIANT ReconnectsAreBounded
INVARIANT RetryMatchesFailure
PROPERTY FailureIsRetried
PROPERTY OfferIsAnswered
