----------------------- MODULE MCFirewallController ------------------------
(***************************************************************************)
(* Instances of FirewallController for TLC.                                *)
(***************************************************************************)
EXTENDS FirewallController

CONSTANT tablet

Entry(action, ip6, quic) ==
    [deviceId |-> tablet, action |-> action, ip |-> <<tablet, 4>>, ip6 |-> ip6,
     mac |-> None, vpn |-> FALSE, quic |-> quic]

\* The tablet blocked; the tablet allowed but for QUIC, its v6 address known.
MCPolicies ==
    {{Entry("BLOCK", None, FALSE)}, {Entry("ALLOW", <<tablet, 6>>, TRUE)}}

MCTarget == UNION MCPolicies

\* Both families with their redirects.
MCConfigs ==
    {[dns |-> TRUE, doh |-> FALSE, quicGlobal |-> FALSE, ipv6 |-> TRUE, dns6 |-> TRUE]}
=============================================================================
