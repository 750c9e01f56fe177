------------------------ MODULE MCCoreProcessManager ------------------------
(* Model values for CoreProcessManager.                                    *)
EXTENDS CoreProcessManager

CONSTANTS tproxy, tun, sysproxy, closed

MCType ==
    [s \in Settings |-> IF s = tun THEN "tun"
                        ELSE IF s = sysproxy THEN "system_proxy" ELSE "netfilter"]
=============================================================================
