SPECIFICATION FairSpec
CONSTANTS
    MaxDownloads = 2
    NumUrls <- TwoUrls
    Checksummed = {"mission"}
    Full = Full
    PackOnly = PackOnly
    Missions = {Full, PackOnly}
    HasMission = {Full}
    HasPack = {Full, PackOnly}
INVARIANTS
    ResultIsTrue
    InstalledIsChecked
    DestroyedLeavesNothing
PROPERTIES
    QueueDrains
