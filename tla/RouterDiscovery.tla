-------------------------- MODULE RouterDiscovery --------------------------
(***************************************************************************)
(* How the agent finds out whose router it sits behind                     *)
(* (router-discovery.js): it asks by SSDP, HTTP and mDNS in turn and takes *)
(* the first answer of the default gateway that names a vendor; the last   *)
(* resort is the prefix of the gateway's hardware address.  Each exchange  *)
(* is a step: the box at the gateway's address may be replaced in between, *)
(* and whatever box is in the network may answer a multicast.              *)
(***************************************************************************)
EXTENDS Integers, Sequences, FiniteSetsExt

CONSTANTS
    Box,        \* the boxes of the network that answer multicasts
    Ssdp,       \* [Box -> set of vendors]: those its SSDP header mentions
    Pages,      \* [Box -> seq of such sets]: server and authentication headers, page
    Mdns,       \* [Box -> set of vendors]
    Oui,        \* [Box -> the vendor of its hardware address, or Unknown]
    Unknown

VARIABLES
    holder,     \* the box at the address of the default gateway
    disc,       \* the discovery at work: its step, OUI vendor and result
    held        \* ghost: the boxes that held the address during the discovery

discVars == <<holder, disc, held>>

\* The vendors in the order their patterns are tried in.
VendorOrder == <<"AVM", "MikroTik", "OpenWrt", "Ubiquiti", "GL.iNet", "DrayTek", "Keenetic",
    "Linksys", "TP-Link", "ASUS", "Netgear", "D-Link", "Belkin", "Synology", "Zyxel", "Cisco",
    "Buffalo", "Mercusys", "Tenda", "Xiaomi", "Huawei", "TOTOLINK", "Sercomm", "Actiontec",
    "Hitron", "Comtrend", "Nokia", "Sagemcom", "Technicolor", "Arris", "Arcadyan">>

identifyVendorFromText(mentioned) ==
    LET hits == {i \in DOMAIN VendorOrder : VendorOrder[i] \in mentioned}
    IN IF hits = {} THEN Unknown ELSE VendorOrder[Min(hits)]

\* The first text that names a vendor.
FirstVendor(texts) ==
    LET hits == {i \in DOMAIN texts : identifyVendorFromText(texts[i]) # Unknown}
    IN IF hits = {} THEN Unknown ELSE identifyVendorFromText(texts[Min(hits)])

Result(vendor, confidence) == [vendor |-> vendor, confidence |-> confidence]
EMPTY_RESULT == Result(Unknown, 0)
Quiet == [step |-> "none", oui |-> Unknown, result |-> EMPTY_RESULT]

DiscInit == holder \in Box /\ disc = Quiet /\ held = {}

\* getDefaultGatewayIp and getGatewayMac: without a default route there is
\* nothing to ask, without a neighbour entry no hardware address.
GatewayFound(route, neighbour) ==
    /\ held' = {holder}
    /\ disc' = IF ~route THEN [Quiet EXCEPT !.step = "done"]
               ELSE [Quiet EXCEPT !.step = "ssdp",
                                  !.oui = IF neighbour THEN Oui[holder] ELSE Unknown]
    /\ UNCHANGED holder

\* A vendor ends the discovery, otherwise the next signal is tried.
Take(vendor, confidence, next) ==
    disc' = IF vendor # Unknown
            THEN [disc EXCEPT !.step = "done", !.result = Result(vendor, confidence)]
            ELSE [disc EXCEPT !.step = next]

\* Mutant: whoever answers is taken for the gateway.
AnySender(answering) == answering

\* Only datagrams from the gateway's address are looked at.
Accepted(answering) == answering \cap {holder}

\* The first accepted datagram that names a vendor.
Named(texts, answering) ==
    {v \in {identifyVendorFromText(texts[b]) : b \in Accepted(answering)} : v # Unknown}
Multicast(texts, confidence, next) ==
    \E answering \in SUBSET Box :
        LET vendors == Named(texts, answering)
        IN \E v \in IF vendors = {} THEN {Unknown} ELSE vendors : Take(v, confidence, next)

ssdpDiscover == disc.step = "ssdp" /\ Multicast(Ssdp, 90, "http") /\ UNCHANGED <<holder, held>>

\* The page of the gateway, or no answer.
httpHeaderProbe ==
    /\ disc.step = "http"
    /\ \E texts \in {Pages[holder], <<>>} : Take(FirstVendor(texts), 70, "mdns")
    /\ UNCHANGED <<holder, held>>

mdnsProbe == disc.step = "mdns" /\ Multicast(Mdns, 60, "oui") /\ UNCHANGED <<holder, held>>

OuiLookup ==
    /\ disc.step = "oui"
    /\ disc' = [disc EXCEPT !.step = "done",
                    !.result = IF disc.oui # Unknown THEN Result(disc.oui, 40) ELSE EMPTY_RESULT]
    /\ UNCHANGED <<holder, held>>

discoverRouter == ssdpDiscover \/ httpHeaderProbe \/ mdnsProbe \/ OuiLookup

\* The household puts another router in the old one's place.
Replace ==
    /\ \E b \in Box \ {holder} : holder' = b
    /\ held' = IF held = {} THEN held ELSE held \cup {holder'}
    /\ UNCHANGED disc

\* All a box can be taken for.
Names(b) ==
    {identifyVendorFromText(Ssdp[b]), FirstVendor(Pages[b]), identifyVendorFromText(Mdns[b]), Oui[b]}
=============================================================================
