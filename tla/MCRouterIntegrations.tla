----------------------- MODULE MCRouterIntegrations -----------------------
(* Two devices, two addresses, a rule index of its own for each device.    *)
EXTENDS RouterIntegrations, TLC

CONSTANTS d1, d2, a1, a2

const_Home == d1 :> a1 @@ d2 :> a2
const_Slots == d1 :> 1 @@ d2 :> 2
\* Methods that a plugin implements by another one are taken once.
Common == {"changeDNS", "blockMAC", "unblockMAC"}
Rules_ == {"pauseDevice", "resumeDevice"}
const_Scope ==
    [id \in PluginIds |->
        CASE id \in {"openwrt", "mikrotik"} -> Common \cup Rules_ \cup {"disconnectClient", "logout"}
          [] id \in {"edgerouter", "draytek", "linksys"} -> Common \cup Rules_
          [] id = "unifi" -> Common \cup Rules \cup {"disconnectClient", "logout"}
          [] id = "tplink_omada" -> Common \cup {"disconnectClient"}
          [] id = "fritzbox" -> Common \cup Rules_
          [] OTHER -> Common \cup {"health"}]
const_OneSlot == d1 :> 1 @@ d2 :> 1
=============================================================================
