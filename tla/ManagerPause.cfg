\* A reload that retains interception, and a monitor that pauses it.
CONSTANTS
    tproxy = tproxy
    tun = tun
    sysproxy = sysproxy
    closed = closed
    NoSetting = NoSetting
    Settings = {tproxy}
    TransparentClose = {}
    TransparentType <- MCType
    Lite = FALSE
    TransparentHook = FALSE
    CoreHook = FALSE
    Preserve = {TRUE, FALSE}
    Callers = {"stop"}
    StoreFails = FALSE
    MaxGeneration = 2
SPECIFICATION Spec
INVARIANT CommittedCoreIntercepts
