SPECIFICATION FairSpec
CONSTANTS
    Left = Left
    Right = Right
    Leaves = {Left, Right}
    OpenPeers <- Others
    LockPeers <- Others
    DoubleDoor <- Others
    Transparent = {}
    Handled = {Left}
    AutoClose = {Right}
    OpenOnUnlock = TRUE
    MaxInputs = 4
CHECK_DEADLOCK FALSE
INVARIANTS RequestMeansClosed PortalFollows
PROPERTIES KeyLocks
