CONSTANTS
    None = None
    MaxHostPlugins = 2
    MaxTimers = 2
    MaxAttempts = 2
    Lifetime = 2
    MaxOverrun = 1
    MaxSessions = 2
    MaxClientPlugins = 2
    PluginVersionOk = {TRUE, FALSE}
    PluginLoaded = {TRUE, FALSE}
    Accounts = {u1, u2}
    EmailLookupOk = {TRUE, FALSE}
    MaxLoads = 1
    MaxCrashes = 0
    DoubleClicks = {"share"}
SPECIFICATION Spec
PROPERTY EmailOfSignedInAccount
CHECK_DEADLOCK FALSE
