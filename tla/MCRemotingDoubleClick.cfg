CONSTANTS
    None = None
    MaxHostPlugins = 0
    MaxTimers = 0
    MaxAttempts = 2
    Lifetime = 2
    MaxOverrun = 1
    MaxSessions = 2
    MaxClientPlugins = 2
    PluginVersionOk = {TRUE}
    PluginLoaded = {TRUE}
    Accounts = {u1, u2}
    EmailLookupOk = {TRUE, FALSE}
    MaxLoads = 1
    MaxCrashes = 0
    DoubleClicks = {"share", "connect"}
SPECIFICATION Spec
INVARIANT PluginsBelongToSession
CHECK_DEADLOCK FALSE
