------------------------- MODULE MCServiceLifecycle -------------------------
(* Model values for ServiceLifecycle.                                      *)
EXTENDS ServiceLifecycle

CONSTANTS tproxy, tun, sysproxy, closed

MCType ==
    [s \in Settings |-> IF s = tun THEN "tun"
                        ELSE IF s = sysproxy THEN "system_proxy" ELSE "netfilter"]
=============================================================================
