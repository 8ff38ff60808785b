--------------------------- MODULE FirewallPolicy ---------------------------
(***************************************************************************)
(* What both firewall backends of the gateway agent are given: the targets *)
(* main.js has resolved, and the part of .env that decides which rules     *)
(* they ask for (iptables-controller.js, nftables-controller.js).          *)
(***************************************************************************)
CONSTANTS
    Target,     \* resolved policy entries: records, see TargetAssumption
    Policies,   \* the policies the backend can send: sets of targets
    Configs,    \* the .env configurations the agent can be started with
    None,       \* null
    Faults      \* kinds of failure in scope, a subset of AllFaults

AllFaults == {"command", "save", "restore", "crash", "reboot"}

Actions == {"ALLOW", "THROTTLE", "BLOCK"}

ASSUME TargetAssumption ==
    \A t \in Target :
        /\ DOMAIN t = {"deviceId", "action", "ip", "ip6", "mac", "vpn", "quic"}
        /\ t.action \in Actions
        /\ t.vpn \in BOOLEAN
        /\ t.quic \in BOOLEAN
ASSUME PolicyAssumption == Policies \subseteq SUBSET Target
ASSUME ConfigAssumption ==
    Configs \subseteq [dns : BOOLEAN, doh : BOOLEAN, quicGlobal : BOOLEAN,
                       ipv6 : BOOLEAN, dns6 : BOOLEAN]
ASSUME FaultAssumption == Faults \subseteq AllFaults

\* A rule of a chain, or the chain itself (its jump, its table).
Item(chain, rule, on) == [chain |-> chain, rule |-> rule, on |-> on]
=============================================================================
