SPECIFICATION Spec
CONSTANTS
  c1 = c1
  c2 = c2
  c3 = c3
  ch = ch
  k1 = k1
  Conns = {c1, c2, c3}
  Publishers = {c1, c2}
  Players = {c2, c3}
  Channels = {ch}
  Keys = {k1}
  NoKey = NoKey
  NoPubsub = NoPubsub
  MaxPublications = 2
  MaxEvents = 5
  Modulus = 16
INVARIANTS TypeOK PublishedHasPublisher NoGap UpToDate KeyFirst ClockForward
PROPERTIES RemovesOwn
CHECK_DEADLOCK FALSE
