\* The service is killed with its interception installed.
CONSTANTS
    tproxy = tproxy
    tun = tun
    sysproxy = sysproxy
    closed = closed
    NoSetting = NoSetting
    Settings = {tproxy}
    TransparentClose = {}
    TransparentType <- MCType
    Lite = FALSE
    TransparentHook = FALSE
    CoreHook = FALSE
    Preserve = {FALSE}
    Callers = {}
    StoreFails = FALSE
    MaxGeneration = 2
    MaxBoots = 2
SPECIFICATION LifecycleSpec
INVARIANT BootRepairsHost
CHECK_DEADLOCK FALSE
