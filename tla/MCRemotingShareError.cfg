CONSTANTS
    None = None
    MaxHostPlugins = 2
    MaxTimers = 2
    MaxAttempts = 2
    Lifetime = 2
    MaxOverrun = 1
    MaxSessions = 0
    MaxClientPlugins = 0
    PluginVersionOk = {TRUE}
    PluginLoaded = {TRUE}
    Accounts = {u1, u2}
    EmailLookupOk = {TRUE, FALSE}
    MaxLoads = 1
    MaxCrashes = 0
    DoubleClicks = {}
SPECIFICATION Spec
PROPERTY ShareErrorNotHiddenByPlugin
CHECK_DEADLOCK FALSE
