CONSTANTS
    None = None
    MaxHostPlugins = 1
    MaxTimers = 1
    MaxAttempts = 2
    Lifetime = 2
    MaxOverrun = 1
    MaxSessions = 1
    MaxClientPlugins = 1
    PluginVersionOk = {TRUE}
    PluginLoaded = {TRUE}
    Accounts = {u1, u2}
    EmailLookupOk = {TRUE, FALSE}
    MaxLoads = 1
    MaxCrashes = 0
    DoubleClicks = {}
SPECIFICATION Spec
PROPERTY CallbacksKeepToTheirSide
CHECK_DEADLOCK FALSE
