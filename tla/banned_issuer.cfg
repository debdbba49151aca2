SPECIFICATION Spec
CONSTANTS
    alice = alice
    bob = bob
    m1 = m1
    m2 = m2
    s1 = s1
    x = x
    s2 = s2
    v1 = v1
    v2 = v2
    u1 = u1
    u2 = u2
    NoCid = NoCid
    NoIssuer = NoIssuer
    Issuer = {alice, bob}
    Self = bob
    Manifest = {m1, m2}
    Bare = {}
    Segment = {s1, s2}
    Segments <- OneSegment
    Size <- UnitSize
    Own = {}
    Feeds <- FeedsOfBoth
    Lists <- OnlyKeyList
    Quotas = {4}
    Repl <- ReplOne
    Unreliable = {}
    Viewer = {}
    Purger = {u1}
    NowCapacity = 1
    MaxOps = 4
    Allowed = {"subscribe", "feed", "restart", "denylist"}
PROPERTIES BannedArePurged
CHECK_DEADLOCK FALSE
