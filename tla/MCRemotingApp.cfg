CONSTANTS
    None = None
    MaxHostPlugins = 2
    MaxTimers = 2
    MaxAttempts = 2
    Lifetime = 2
    MaxOverrun = 1
    MaxSessions = 2
    MaxClientPlugins = 2
    PluginVersionOk = {TRUE, FALSE}
    PluginLoaded = {TRUE, FALSE}
    Accounts = {u1}
    EmailLookupOk = {TRUE, FALSE}
    MaxLoads = 1
    MaxCrashes = 1
    DoubleClicks = {"share"}
SPECIFICATION Spec
PROPERTIES
    CountdownEnds
INVARIANTS
    SharedOnlyWhileConnected
    PluginsBelongToSession
    InSessionOnlyWhileConnected
CHECK_DEADLOCK FALSE
