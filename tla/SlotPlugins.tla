----------------------------- MODULE SlotPlugins ----------------------------
(***************************************************************************)
(* The plugins that write one rule per device at an index computed from    *)
(* its id: EdgeRouter and DrayTek, over SSH.  Two devices whose ids hash   *)
(* to the same index share the rule, and so do the address rule and the    *)
(* MAC rule of one device.  Output that does not show the rule, an answer  *)
(* to something else included, counts as no rule.                          *)
(***************************************************************************)
EXTENDS RouterPlugin

ruleIndexFor == <<"slot", SlotOf[call.device]>>
InSlot == {r \in router.rules : r.name = ruleIndexFor}

\* Mutant of Fill: the MAC is written where the address belongs.
FillSwapped(ip, mac) ==
    WithRules((router.rules \ InSlot) \cup
        {[id |-> 0, name |-> ruleIndexFor, ip |-> mac, mac |-> ip]})

\* The rule of the slot replaced by one that matches these.
Fill(ip, mac) ==
    WithRules((router.rules \ InSlot) \cup
        {[id |-> 0, name |-> ruleIndexFor, ip |-> ip, mac |-> mac]})
Empty == WithRules(router.rules \ InSlot)

\* A field of the rule in the slot, or None.
Of(f) == IF InSlot = {} THEN None ELSE (CHOOSE r \in InSlot : TRUE)[f]

----------------------------------------------------------------------------
\* EdgeRouter: `set' keeps the fields of the rule it does not name.

runVyattaCommands(after, next) == Send(after, next)

edgerouterApply ==
    /\ At("edgerouter", {"pauseDevice", "applyFirewallRule"}, "go")
    /\ runVyattaCommands(Fill(call.ip, Of("mac")), Goto("verify"))

edgerouterBlockMAC ==
    /\ At("edgerouter", {"blockMAC"}, "go")
    /\ runVyattaCommands(Fill(Of("ip"), call.device), Goto("verify"))

\* A drop rule at the index, whatever it matches.
edgerouterVerify ==
    /\ At("edgerouter", Blocks, "verify")
    /\ Read(Return(IF InSlot = {} THEN "unverified" ELSE "ok"), {Throws, Return("unverified")})

edgerouterRemove ==
    \/ /\ At("edgerouter", Lifts, "go")
       /\ Read(IF InSlot = {} THEN Return("ok") ELSE Goto("delete"), {Throws, Return("ok")})
    \/ /\ At("edgerouter", Lifts, "delete")
       /\ runVyattaCommands(Empty, Return("ok"))

edgerouterChangeDNS ==
    \/ Dns("edgerouter", "go") /\ Send([router EXCEPT !.dns = "new"], Goto("verify"))
    \/ DnsVerify("edgerouter", Return("unverified"), Throws)

EdgeRouter == edgerouterApply \/ edgerouterBlockMAC \/ edgerouterVerify \/ edgerouterRemove
                \/ edgerouterChangeDNS

----------------------------------------------------------------------------
\* DrayTek: the rule is written whole, and disabled rather than deleted.

draytekApply ==
    /\ At("draytek", {"pauseDevice", "applyFirewallRule"}, "go")
    /\ Send(Fill(call.ip, None), Goto("verify"))

draytekBlockMAC ==
    /\ At("draytek", {"blockMAC"}, "go")
    /\ Send(Fill(None, call.device), Goto("verify"))

draytekVerify ==
    /\ At("draytek", Blocks, "verify")
    /\ Read(Return(IF InSlot = {} THEN "unverified" ELSE "ok"), {Throws, Return("unverified")})

draytekRemove ==
    \/ /\ At("draytek", Lifts, "go")
       /\ Read(IF InSlot = {} THEN Return("ok") ELSE Goto("disable"), {Throws, Return("ok")})
    \/ /\ At("draytek", Lifts, "disable")
       /\ Send(Empty, Return("ok"))

draytekChangeDNS ==
    \/ Dns("draytek", "go") /\ Send([router EXCEPT !.dns = "new"], Goto("verify"))
    \/ DnsVerify("draytek", Return("unverified"), Throws)

DrayTek == draytekApply \/ draytekBlockMAC \/ draytekVerify \/ draytekRemove \/ draytekChangeDNS
=============================================================================
