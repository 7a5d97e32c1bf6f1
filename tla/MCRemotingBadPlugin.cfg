CONSTANTS
    None = None
    MaxHostPlugins = 0
    MaxTimers = 0
    MaxAttempts = 2
    Lifetime = 2
    MaxOverrun = 1
    MaxSessions = 1
    MaxClientPlugins = 1
    PluginVersionOk = {TRUE, FALSE}
    PluginLoaded = {TRUE}
    Accounts = {u1, u2}
    EmailLookupOk = {TRUE, FALSE}
    MaxLoads = 1
    MaxCrashes = 0
    DoubleClicks = {}
SPECIFICATION Spec
PROPERTY CancelConnectGoesHome
CHECK_DEADLOCK FALSE
