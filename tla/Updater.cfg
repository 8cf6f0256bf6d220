SPECIFICATION Spec
CONSTANTS
    x = x
    y = y
    f = f
    u = u
    v = v
    p = p
    q = q
    a1 = a1
    a2 = a2
    b = b
    Zips = {x, y}
    Foreign = {f}
    Urls = {u, v}
    Names = {p, q}
    Hashes = {a1, a2, b}
    contentsOf <- Contents2
    levelOf <- Levels
    Remote <- Server
    relOf <- ServerOf
    Targets <- Versions
    Starts <- Installations
    Torn = Torn
    MaxTroubles = 2
INVARIANTS PlanHolds NothingLost OutputIsRight CrashRecovered
