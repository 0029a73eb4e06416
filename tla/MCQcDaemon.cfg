CONSTANTS
    Pids = {1, 2, 3, 4, 5}
    Commands = {"start", "stop", "client"}
    MaxEvents = 3
SPECIFICATION FairSpec
CHECK_DEADLOCK FALSE
INVARIANTS
    OneDaemon
PROPERTY
    CommandsEnd
