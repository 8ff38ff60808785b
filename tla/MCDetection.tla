---------------------------- MODULE MCDetection ----------------------------
(* One device; three boxes that may be or become the router.               *)
EXTENDS Detection

CONSTANT d1

const_Flows ==
    {Sighting("udp", "warp", 2408, 1), Sighting("tcp", "site", 443, 1), Sighting("tcp", "site", 443, 2),
     Sighting("tcp", "resolver", 853, 3), Sighting("dns", "vpn provider", 53, 4)}
\* Three peers on one port of no signature; three flows to one VPN provider.
const_Peers ==
    {Sighting("udp", peer, 40000, 1) : peer \in {"p", "q", "r"}}
    \cup {Sighting("udp", "server", 51820, sport) : sport \in 1..3}
const_Vpn == {{"enableVpnBlock"}}
const_Configs == {{"enableVpnBlock", "enableDnsSniff"}, {"enableDohBlock"}, {"enableRouterDetection"}}

\* A router that answers everything, one that only its hardware address and
\* mDNS tell, and a neighbour that answers for somebody else.
const_Box == {"fritz", "plain", "access point"}
const_Ssdp == "fritz" :> {"AVM"} @@ "plain" :> {} @@ "access point" :> {"Ubiquiti"}
const_Pages == "fritz" :> <<{}, {}, {"AVM"}>> @@ "plain" :> <<{}, {}, {}>>
                @@ "access point" :> <<{"OpenWrt"}, {}, {"ASUS", "OpenWrt"}>>
const_Mdns == "fritz" :> {"AVM", "Cisco"} @@ "plain" :> {"TP-Link"} @@ "access point" :> {"Synology"}
const_Oui == "fritz" :> "AVM" @@ "plain" :> "TP-Link" @@ "access point" :> Unknown
=============================================================================
