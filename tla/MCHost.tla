------------------------------- MODULE MCHost -------------------------------
(***************************************************************************)
(* The four ways the service changes the host, side by side: the packet     *)
(* filter, resolv.conf, the system proxy and the tun device's routes.  They *)
(* share no state, so a behaviour follows one of them (unit) while the      *)
(* others stay where they began, and the state spaces add up.               *)
(***************************************************************************)
EXTENDS Netfilter, ResolvHijack, SystemProxy, TunDevice

VARIABLE unit

\* Both backends, with and without IPv6, excluded interfaces and a whitelist.
Host(nft, ipv6, excluded, white, ipset) ==
    [nft |-> nft, ipv6 |-> ipv6, excluded |-> excluded, white |-> white, ipset |-> ipset]
Plain == Host(TRUE, FALSE, FALSE, FALSE, FALSE)
MCNfHosts == {Host(FALSE, TRUE, TRUE, FALSE, FALSE), Host(FALSE, FALSE, FALSE, TRUE, TRUE),
              Host(FALSE, FALSE, FALSE, FALSE, FALSE), Host(FALSE, FALSE, TRUE, TRUE, FALSE),
              Host(TRUE, TRUE, TRUE, TRUE, FALSE), Plain}
MCNetFamily == [lan |-> "4"]

HostInit ==
    /\ unit \in {"netfilter", "resolver", "proxy", "tun"}
    /\ (unit # "netfilter" => nfhost = Plain) /\ NetfilterInit
    /\ (unit # "resolver" => rfile = "dhcp") /\ ResolvInit
    /\ (unit # "proxy" => pxos = "linux" /\ pxthere = {} /\ pxsys = [t \in Targets |-> "off"]) /\ ProxyInit
    /\ (unit # "tun" => tnos = "linux" /\ tnv6 = FALSE /\ tndefault = {}) /\ TunInit

HostNext ==
    /\ UNCHANGED unit
    /\ \/ /\ unit = "netfilter" /\ NetfilterNext
          /\ UNCHANGED <<resolvVars, proxyVars, tunVars>>
       \/ /\ unit = "resolver" /\ ResolvNext
          /\ UNCHANGED <<netfilterVars, proxyVars, tunVars>>
       \/ /\ unit = "proxy" /\ ProxyNext
          /\ UNCHANGED <<netfilterVars, resolvVars, tunVars>>
       \/ /\ unit = "tun" /\ TunNext
          /\ UNCHANGED <<netfilterVars, resolvVars, proxyVars>>

HostSpec == HostInit /\ [][HostNext]_<<unit, netfilterVars, resolvVars, proxyVars, tunVars>>
=============================================================================
