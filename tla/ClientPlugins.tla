---------------------------- MODULE ClientPlugins ---------------------------
(***************************************************************************)
(* The plugins that block a client the router knows: UniFi, Omada,         *)
(* Keenetic and FRITZ!Box set a flag of the client's; Linksys reads a list *)
(* of clients and writes the whole list back.                              *)
(***************************************************************************)
EXTENDS RouterPlugin

Client == call.device
Rules == {"applyFirewallRule", "removeFirewallRule"}

\* The controllers list the clients that are associated.
Listed(d) == d \in router.online

----------------------------------------------------------------------------
\* UniFi.  A list that cannot be read counts as empty.

unifiLogin ==
    /\ At("unifi", Blocks \cup Lifts \cup {"disconnectClient", "changeDNS"}, "login")
    /\ Read(Goto("go"), {Throws})

\* A client that is not listed counts as blocked, and as unblocked.
unifiBlockMAC ==
    \/ /\ At("unifi", Blocks \ Rules, "go")
       /\ Send(Bar(Client), Goto("verify"))
    \/ /\ At("unifi", Blocks \ Rules, "verify")
       /\ Read(Return(IF Listed(Client) /\ Client \notin router.barred
                      THEN "unverified" ELSE "ok"), {Return("ok")})

unifiUnblockMAC ==
    \/ /\ At("unifi", Lifts \ Rules, "go")
       /\ Send(Unbar(Client), Goto("verify"))
    \/ /\ At("unifi", Lifts \ Rules, "verify")
       /\ Read(Return(IF Listed(Client) /\ Client \in router.barred
                      THEN "unverified" ELSE "ok"), {Return("ok")})

unifiFindRule == {r \in router.rules : r.name[1] = "rule" /\ r.ip = call.ip}

unifiApplyFirewallRule ==
    \/ /\ At("unifi", {"applyFirewallRule"}, "go")
       /\ Send(AddRule(<<"rule", Client>>, call.ip, None), Goto("verify"))
    \/ /\ At("unifi", {"applyFirewallRule"}, "verify")
       /\ Read(Return(IF unifiFindRule = {} THEN "unverified" ELSE "ok"), {Return("unverified")})

unifiRemoveFirewallRule ==
    \/ /\ At("unifi", {"removeFirewallRule"}, "go")
       /\ Read(IF unifiFindRule = {} THEN Return("ok") ELSE Goto("delete"), {Return("ok")})
    \/ /\ At("unifi", {"removeFirewallRule"}, "delete")
       /\ Send(WithRules(router.rules \ {First(unifiFindRule)}), Return("ok"))

unifiDisconnect ==
    \/ /\ At("unifi", {"disconnectClient"}, "go")
       /\ Read(IF Listed(Client) THEN Goto("kick") ELSE Return("failed"), {Return("failed")})
    \/ /\ At("unifi", {"disconnectClient"}, "kick")
       /\ Send(Kick(Client), Return("ok"))

\* The setting's id comes with its value: without it there is nothing to write.
unifiChangeDNS ==
    \/ DnsBefore("unifi", Return("failed")) \/ DnsSet("unifi")
    \/ DnsVerify("unifi", Return("unverified"), Return("unverified"))

UniFi == unifiLogin \/ unifiBlockMAC \/ unifiUnblockMAC \/ unifiApplyFirewallRule
            \/ unifiRemoveFirewallRule \/ unifiDisconnect \/ unifiChangeDNS

----------------------------------------------------------------------------
\* Omada.  A list that cannot be read is a failure.

omadaLogin ==
    /\ At("tplink_omada", Blocks \cup Lifts \cup {"disconnectClient"}, "login")
    /\ Read(Goto("go"), {Throws})

omadaBlockMAC ==
    \/ /\ At("tplink_omada", Blocks, "go")
       /\ Send(Bar(Client), Goto("verify"))
    \/ /\ At("tplink_omada", Blocks, "verify")
       /\ Read(Return(IF Listed(Client) /\ Client \notin router.barred
                      THEN "unverified" ELSE "ok"), {Throws})

omadaUnblockMAC ==
    \/ /\ At("tplink_omada", Lifts, "go")
       /\ Send(Unbar(Client), Goto("verify"))
    \/ /\ At("tplink_omada", Lifts, "verify")
       /\ Read(Return(IF Listed(Client) /\ Client \in router.barred
                      THEN "unverified" ELSE "ok"), {Throws})

omadaDisconnect ==
    \/ /\ At("tplink_omada", {"disconnectClient"}, "go")
       /\ Read(IF Listed(Client) THEN Goto("kick") ELSE Return("failed"), {Throws})
    \/ /\ At("tplink_omada", {"disconnectClient"}, "kick")
       /\ Send(Kick(Client), Return("ok"))

Omada == omadaLogin \/ omadaBlockMAC \/ omadaUnblockMAC \/ omadaDisconnect

----------------------------------------------------------------------------
\* Keenetic.  The entry of the host itself is read back.

keeneticBlockMAC ==
    \/ /\ At("keenetic", Blocks, "go")
       /\ Send(Deny(Client), Goto("verify"))
    \/ /\ At("keenetic", Blocks, "verify")
       /\ Read(Return(IF Client \in router.barred THEN "ok" ELSE "unverified"),
               {Return("unverified")})

keeneticUnblockMAC ==
    \/ /\ At("keenetic", Lifts, "go")
       /\ Send(Unbar(Client), Goto("verify"))
    \/ /\ At("keenetic", Lifts, "verify")
       /\ Read(Return(IF Client \in router.barred THEN "unverified" ELSE "ok"), {Return("ok")})

keeneticChangeDNS == RestoringDns("keenetic")

Keenetic == keeneticBlockMAC \/ keeneticUnblockMAC \/ keeneticChangeDNS

----------------------------------------------------------------------------
\* FRITZ!Box.  The host at the address is told to stay off the Internet; what
\* it answers is the result.

\* An address is taken as it was given; without one the MAC is looked up.
AddressGiven == call.ip # None /\ call.method \notin {"blockMAC", "unblockMAC"}
Host == {d \in Device : IF AddressGiven THEN addr[d] = call.ip ELSE d = Client}

fritzResolve ==
    /\ At("fritzbox", Blocks \cup Lifts, "go")
    /\ IF AddressGiven
       THEN Read(Goto("set"), {})
       ELSE Read(Goto("set"), {Throws})

fritzApplyFirewallRule ==
    /\ At("fritzbox", Blocks, "set")
    /\ Send([router EXCEPT !.barred = @ \cup Host], Return("ok"))

fritzRemoveFirewallRule ==
    /\ At("fritzbox", Lifts, "set")
    /\ Send([router EXCEPT !.barred = @ \ Host], Return("ok"))

fritzChangeDNS == RestoringDns("fritzbox")

FritzBox == fritzResolve \/ fritzApplyFirewallRule \/ fritzRemoveFirewallRule \/ fritzChangeDNS

----------------------------------------------------------------------------
\* Linksys.  A list that cannot be read counts as empty, the one that is about
\* to be written back included.

Paused == {"pauseDevice", "resumeDevice"}
List == IF call.method \in Paused THEN router.paused ELSE router.barred
WithList(l) == IF call.method \in Paused THEN [router EXCEPT !.paused = l]
                                         ELSE [router EXCEPT !.barred = l]

\* A device that is paused already, or is not in the list it shall leave, is
\* done; blockMAC writes in any case.
Done(list) == IF call.method \in Lifts THEN Client \notin list
                                       ELSE call.method = "pauseDevice" /\ Client \in list
Got(list) == IF Done(list) THEN Return("ok")
                           ELSE Remember(list, "set")

linksysGet ==
    /\ At("linksys", Blocks \cup Lifts, "go")
    /\ Read(Got(List), {Got({})})

linksysSet ==
    /\ At("linksys", Blocks \cup Lifts, "set")
    /\ Send(WithList(IF call.method \in Blocks THEN call.seen \cup {Client}
                                               ELSE call.seen \ {Client}),
            Goto("verify"))

\* Mutant of Shows: only an addition is verified.
ShowsAdded(list) ==
    Return(IF call.method \in Blocks => Client \in list THEN "ok" ELSE "unverified")

Shows(list) ==
    Return(IF (call.method \in Blocks) = (Client \in list) THEN "ok" ELSE "unverified")

linksysVerify ==
    /\ At("linksys", Blocks \cup Lifts, "verify")
    /\ Read(Shows(List), {Shows({})})

linksysChangeDNS == RestoringDns("linksys")

Linksys == linksysGet \/ linksysSet \/ linksysVerify \/ linksysChangeDNS
=============================================================================
