\* A reload that retains interception, and a core that may exit at any moment.
CONSTANTS
    tproxy = tproxy
    tun = tun
    sysproxy = sysproxy
    closed = closed
    NoSetting = NoSetting
    Settings = {tproxy}
    TransparentClose = {}
    TransparentType <- MCType
    Lite = FALSE
    TransparentHook = FALSE
    CoreHook = FALSE
    Preserve = {TRUE, FALSE}
    Callers = {"stop"}
    StoreFails = FALSE
    MaxGeneration = 2
SPECIFICATION Spec
INVARIANT NoOrphanedInterception
