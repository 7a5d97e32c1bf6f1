CONSTANTS
    None = None
    MaxHostPlugins = 1
    MaxTimers = 1
    MaxAttempts = 2
    Lifetime = 2
    MaxOverrun = 1
    MaxSessions = 0
    MaxClientPlugins = 0
    PluginVersionOk = {TRUE}
    PluginLoaded = {TRUE}
    Accounts = {u1, u2}
    EmailLookupOk = {TRUE, FALSE}
    MaxLoads = 1
    MaxCrashes = 0
    DoubleClicks = {}
SPECIFICATION Spec
INVARIANT CountdownNeedsPlugin
CHECK_DEADLOCK FALSE
