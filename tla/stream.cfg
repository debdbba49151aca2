SPECIFICATION FairSpec
CONSTANTS
    player = player
    seeker = seeker
    Reader = {player, seeker}
    Total = 2
    Duration <- OneWindow
    LookaheadSecs = 1
    MaxInflight = 1
    Policies = {"Seed", "Stream"}
    Listable = {1}
    Reachable = {0}
    ColdEnabled = TRUE
    InitialStores <- Stores
    MaxFaults = 1
    MaxAsks = 2
    None = None
    MaxLength = 4
INVARIANTS TypeOK SlotsAreTasks NobodyWaitsInVain ForbiddenIsFinal PresentIsReadable ListedNeverArrives SliceIsWhatWasAsked
PROPERTIES ImplementsDelivery PlayheadArrives DemandIsTaken
CHECK_DEADLOCK FALSE
