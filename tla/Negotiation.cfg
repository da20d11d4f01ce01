SPECIFICATION FairSpec
CONSTANTS
  s1 = s1 s2 = s2
  Sessions <- MCSessions
  NoPc = NoPc
  NoSession = NoSession
  MaxClosing = 1
INVARIANT NegotiationTypeOK
INVARIANT ControlHasItsEnds
INVARIANT ControlIsCurrent
INVARIANT NothingIsLeft
PROPERTY EachOfferIsAnswered
PROPERTY ControlEnds
