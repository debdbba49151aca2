SPECIFICATION Spec
CONSTANTS
    project = project
    friend = friend
    here = here
    peer = peer
    t1 = t1
    t2 = t2
    follower = follower
    NoEditor = NoEditor
    Editor = {friend}
    Project = {}
    MaxSeq = 2
    Storer = {here, peer}
    Here = here
    Found <- FirstLists
    Task = {t1}
    Loop = follower
    MaxOps = 2
    Allowed = {"follow", "unfollow"}
INVARIANT ForgottenAtRest
CHECK_DEADLOCK FALSE
