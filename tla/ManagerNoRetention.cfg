\* Both hooks are configured, so no start retains interception.
CONSTANTS
    tproxy = tproxy
    tun = tun
    sysproxy = sysproxy
    closed = closed
    NoSetting = NoSetting
    Settings = {tproxy, tun, closed}
    TransparentClose = {closed}
    TransparentType <- MCType
    Lite = FALSE
    TransparentHook = TRUE
    CoreHook = TRUE
    Preserve = {TRUE}
    Callers = {"stop", "shutdown", "latency_test"}
    StoreFails = FALSE
    MaxGeneration = 2
SPECIFICATION Spec
INVARIANTS HostMutationByOwner InterceptionFollowsCore
PROPERTIES ImplementsHostInterception CrashIsReal
