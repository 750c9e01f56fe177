\* Two boots, two starts per boot, no retention.
CONSTANTS
    tproxy = tproxy
    tun = tun
    sysproxy = sysproxy
    closed = closed
    NoSetting = NoSetting
    Settings = {tproxy, tun}
    TransparentClose = {}
    TransparentType <- MCType
    Lite = FALSE
    TransparentHook = FALSE
    CoreHook = TRUE
    Preserve = {FALSE}
    Callers = {}
    StoreFails = FALSE
    MaxGeneration = 2
    MaxBoots = 2
SPECIFICATION LifecycleSpec
INVARIANTS KillIsRecoverable
PROPERTIES QuitLeavesNoRules RestoresWhatRan
CHECK_DEADLOCK FALSE
