---------------------------- MODULE VpnDetector ----------------------------
(***************************************************************************)
(* What one look at one device tells of a VPN (vpn-detector.js with        *)
(* vpn-patterns.js, tls-fingerprint-detector.js, dns-sniff-controller.js). *)
(*                                                                         *)
(* An address or a domain is the class its pattern puts it in.  Conntrack  *)
(* lists an entry once, so the rows of a look form a set.                  *)
(***************************************************************************)
EXTENDS Integers, FiniteSets, FiniteSetsExt, TLC

\* What a look at a device lists: a flow has a transport, a class of
\* destination, a port there and a source port; a DNS query and a TLS
\* handshake have a class only.
Sighting(protocol, dst, dport, sport) ==
    [protocol |-> protocol, dst |-> dst, dport |-> dport, sport |-> sport]
Udp(flows) == {f \in flows : f.protocol = "udp"}
Tcp(flows) == {f \in flows : f.protocol = "tcp"}
Queries(flows) == {f \in flows : f.protocol = "dns"}
Handshakes(flows) == {f \in flows : f.protocol = "tls"}

Weighs(signatures, weight) == [s \in signatures |-> weight]

VPN_PORT_SIGNATURES ==
    Weighs({<<"udp", 51820>>, <<"udp", 1194>>}, 90)
    @@ Weighs({<<"tcp", 1194>>, <<"udp", 41641>>, <<"udp", 9993>>}, 85)
    @@ Weighs({<<"udp", 2408>>, <<"tcp", 1723>>}, 80)
    @@ Weighs({<<"udp", 500>>, <<"udp", 4500>>, <<"tcp", 992>>}, 75)
    @@ Weighs({<<"udp", 1701>>}, 70) @@ Weighs({<<"tcp", 5555>>}, 60)
    @@ Weighs({<<"udp", 41194>>}, 55)

\* Ports shared with ordinary services: reported, never blocked.
VPN_DETECTION_ONLY_PORT_SIGNATURES ==
    <<"tcp", 1080>> :> 30 @@ <<"tcp", 3128>> :> 25 @@ <<"tcp", 8080>> :> 20

VPN_IP_RANGES == "warp" :> 85 @@ "tailscale" :> 70
VPN_DNS_PATTERNS == "vpn provider" :> 85 @@ "warp" :> 80

COMMON_MULTI_DEST_UDP_PORTS == {53, 67, 68, 123, 443, 5353}
FLOW_HEURISTIC_MIN_PEERS == 3
FLOW_HEURISTIC_WEIGHT == 25
JA3_CONFIDENCE == 90

Row(method, flow, confidence) == [method |-> method, flow |-> flow, confidence |-> confidence]
NoFlow == [none |-> TRUE]

\* The rows of the flows that a table of weights knows by a key.
Matches(method, key, weights) ==
    {Row(method, f, weights[key[f]]) : f \in {g \in DOMAIN key : key[g] \in DOMAIN weights}}

Port(flows) == [f \in flows |-> <<f.protocol, f.dport>>]
Dst(flows) == [f \in flows |-> f.dst]

\* Several destinations on one uncommon port.
detectFlowAnomaly(flows) ==
    IF \E port \in {f.dport : f \in flows} \ COMMON_MULTI_DEST_UDP_PORTS :
            Cardinality({f.dst : f \in {g \in flows : g.dport = port}}) >= FLOW_HEURISTIC_MIN_PEERS
    THEN {Row("flow-heuristic", NoFlow, FLOW_HEURISTIC_WEIGHT)} ELSE {}

\* _detectForTarget, from the entries listed.
VpnDetections(flows, ja3Hashes) ==
    Matches("ip-range", Dst(Udp(flows)), VPN_IP_RANGES)
    \cup Matches("port-signature", Port(Udp(flows) \cup Tcp(flows)), VPN_PORT_SIGNATURES)
    \cup detectFlowAnomaly(Udp(flows))
    \cup Matches("port-signature-low-confidence", Port(Tcp(flows)),
                 VPN_DETECTION_ONLY_PORT_SIGNATURES)
    \cup Matches("dns-pattern", Dst(Queries(flows)), VPN_DNS_PATTERNS)
    \cup {Row("tls-ja3-signature", f, JA3_CONFIDENCE) :
            f \in {g \in Handshakes(flows) : g.dst \in ja3Hashes}}

\* Mutant: the weights are added up.
SumOfWeights(rows) == FoldSet(LAMBDA row, sum : row.confidence + sum, 0, rows)

\* Noisy-OR of the weights, all multiples of five, rounded to the nearest
\* whole number: 100 - 100 * miss with miss = hits / 20^n.
Power20[n \in 0..5] == IF n = 0 THEN 1 ELSE 20 * Power20[n - 1]
computeConfidence(rows) ==
    LET whole == Power20[Cardinality(rows)]
        hits == FoldSet(LAMBDA row, product : product * (20 - row.confidence \div 5), 1, rows)
    IN IF rows = {} THEN 0 ELSE 100 + (whole - 200 * hits) \div (2 * whole)
=============================================================================
