----------------------------- MODULE RulePlugins ----------------------------
(***************************************************************************)
(* The plugins that block with firewall rules of their own: OpenWrt (and   *)
(* GL.iNet, which is the same) and MikroTik.  Adding never looks for a     *)
(* rule that is there; removing takes away one.                            *)
(***************************************************************************)
EXTENDS RouterPlugin

ByMac == {"blockMAC", "unblockMAC"}
Name == <<IF call.method \in ByMac THEN "mac" ELSE "rule", call.device>>
Ip == IF call.method \in ByMac THEN None ELSE call.ip

----------------------------------------------------------------------------
\* OpenWrt.  A change is committed first and in force once the firewall has
\* been reloaded; a list that cannot be read may count as an empty one.

openwrtLogin ==
    /\ At("openwrt", Blocks \cup Lifts \cup {"disconnectClient", "changeDNS"}, "login")
    /\ Read(Goto("go"), {Throws})

\* uci add, set and commit: what was not committed does not remain.
uciSetAndCommit ==
    /\ At("openwrt", Blocks, "go")
    /\ Send([router EXCEPT !.rules = @ \cup
                {[id |-> calls, name |-> Name, ip |-> Ip, mac |-> call.device]}],
            Goto("reload"))

\* Its failure is ignored.
reloadService(next) == Attempt([router EXCEPT !.running = router.rules], "reload", next)

openwrtReload == At("openwrt", Blocks, "reload") /\ reloadService(Goto("verify"))

findFirewallRuleSection == {r \in router.rules : r.name = Name}

\* A rule of this name is the proof, an older one included.
openwrtVerify ==
    /\ At("openwrt", Blocks, "verify")
    /\ Read(IF findFirewallRuleSection = {} THEN Goto("rollback") ELSE Return("ok"),
            {Goto("rollback"), Throws})

\* The section just committed is deleted; the firewall is not reloaded.
openwrtRollback ==
    /\ At("openwrt", Blocks, "rollback")
    /\ Attempt([router EXCEPT !.rules = {r \in @ : r.id # calls}], "unrestored",
               Return("unverified"))

openwrtFind ==
    /\ At("openwrt", Lifts, "go")
    /\ Read(IF findFirewallRuleSection = {} THEN Return("ok") ELSE Goto("delete"),
            {Return("ok"), Throws})

\* The first rule of the name; what uci answers is not looked at.
removeUciSection ==
    /\ At("openwrt", Lifts, "delete")
    /\ Send([router EXCEPT !.rules = @ \ {First(findFirewallRuleSection)}], Goto("reload"))

openwrtReloadRemoved == At("openwrt", Lifts, "reload") /\ reloadService(Return("ok"))

\* Every radio is asked to drop the client.
openwrtDisconnect ==
    /\ At("openwrt", {"disconnectClient"}, "go")
    /\ Send(Kick(call.device),
            Return(IF call.device \in router.online THEN "ok" ELSE "failed"))

openwrtChangeDNS == RestoringDns("openwrt")

OpenWrt ==
    \/ openwrtLogin \/ uciSetAndCommit \/ openwrtReload \/ openwrtVerify \/ openwrtRollback
    \/ openwrtFind \/ removeUciSection \/ openwrtReloadRemoved
    \/ openwrtDisconnect \/ openwrtChangeDNS

----------------------------------------------------------------------------
\* MikroTik.  A rule drops the address, an access-list entry rejects the MAC.

\* The rules of ours for the address, whichever device they were made for; the
\* entries for the MAC, ours or not.
findFirewallRule == {r \in router.rules : r.name[1] = "rule" /\ r.ip = call.ip}
findAccessListEntry ==
    {r \in router.rules : r.name[1] \in {"mac", "hand"} /\ r.mac = call.device}
Found == IF call.method \in ByMac THEN findAccessListEntry ELSE findFirewallRule

mikrotikAdd ==
    /\ At("mikrotik", Blocks, "go")
    /\ Send(AddRule(Name, Ip, IF call.method \in ByMac THEN call.device ELSE None),
            Goto("verify"))

\* Mutant of mikrotikVerify: the answer to the request is taken for the proof.
MikroTikTrusts == At("mikrotik", Blocks, "verify") /\ Read(Return("ok"), {Throws})

\* An answer that is no list counts as an empty one.
NotFound == IF call.method \in ByMac THEN Return("unverified") ELSE Goto("rollback")

mikrotikVerify ==
    /\ At("mikrotik", Blocks, "verify")
    /\ Read(IF Found # {} THEN Return("ok") ELSE NotFound, {Throws, NotFound})

mikrotikRollback ==
    /\ At("mikrotik", Blocks, "rollback")
    /\ Attempt(WithRules({r \in router.rules : r.id # calls}), "unrestored",
               Return("unverified"))

mikrotikFind ==
    /\ At("mikrotik", Lifts, "go")
    /\ Read(IF Found = {} THEN Return("ok") ELSE Goto("delete"), {Throws, Return("ok")})

mikrotikDelete ==
    /\ At("mikrotik", Lifts, "delete")
    /\ Send(WithRules(router.rules \ {First(Found)}), Return("ok"))

mikrotikDisconnect ==
    \/ /\ At("mikrotik", {"disconnectClient"}, "go")
       /\ Read(IF call.device \in router.online THEN Goto("kick") ELSE Return("failed"), {Throws})
    \/ /\ At("mikrotik", {"disconnectClient"}, "kick")
       /\ Send(Kick(call.device), Return("ok"))

mikrotikChangeDNS == RestoringDns("mikrotik")

MikroTik ==
    \/ mikrotikAdd \/ mikrotikVerify \/ mikrotikRollback \/ mikrotikFind \/ mikrotikDelete
    \/ mikrotikDisconnect \/ mikrotikChangeDNS
=============================================================================
