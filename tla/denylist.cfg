SPECIFICATION NodeSpec
CONSTANTS
    project = project
    friend = friend
    here = here
    peer = peer
    t1 = t1
    t2 = t2
    follower = follower
    NoEditor = NoEditor
    Editor = {project, friend}
    Project = {project}
    MaxSeq = 2
    Storer = {here, peer}
    Here = here
    Found <- FoundOrNot
    Task = {t1}
    Loop = follower
    MaxOps = 3
    Allowed = {"list", "unfollow", "fetch", "follow", "put", "expire", "republish", "restart", "fail"}
    u1 = u1
    u2 = u2
    follow = follow
    keeping = keeping
    nobody = nobody
    p1 = p1
    c1 = c1
    c2 = c2
    v = v
    w = w
    User = {u1, u2}
    FollowLoop = follow
    MaintenanceLoop = keeping
    UserOps = {"listen", "block"}
    FollowOps = {"find"}
    Capacity = 1
    Id = {1, 2, 3}
    Peer = {p1}
    MaxCalls = 2
    Nobody = nobody
    Caller = {c1, c2}
    Item = {1, 2}
    Compulsory = {1}
    Value = {v, w}
    Default = v
    MaxBoots = 1
    MaxChanges = 2
    Changer = {1, 2}
    Subject = {1, 2}
    Retained = 1
    MaxTicks = 2
INVARIANTS TypeOK  AnswersAreOwn OneMaintenance ChangesLast FrontIsCurrent
PROPERTIES ProjectHolds Converges EveryCallReturns StopsWhenDropped
CHECK_DEADLOCK FALSE
