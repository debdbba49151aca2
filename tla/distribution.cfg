SPECIFICATION MCSpec
CONSTANTS
  a = a
  b = b
  x = x
  c1 = c1
  c2 = c2
  c3 = c3
  Node <- Nodes
  Issuer <- Issuers
  MaxSeq = 2
  MaxIssuers = 1
  Call = {c1,c2,c3}
  Home <- HomeOf
  Allowed <- Scenes
  Noise <- Heard
  MaxOps = 4
  Reported = {d1, d2, d3}
  Reporter = {me, e1, e2, k1}
  Me = me
  Editors = {e1, e2}
  MaxTrustedCids = 1
  MaxOtherCids = 2
  MaxReporters = 1
  MaxReports = 6
  NoIssuer = NoIssuer
  NoAvatar = NoAvatar
INVARIANTS FeedTypeOK SentIsAccepted BookBounded TiersMatchKeys SignedMeansOneThing
PROPERTIES NothingLostForNothing BannedStaysOut ImplementsNewest CatchesUp KeptOnOffer
CHECK_DEADLOCK FALSE
