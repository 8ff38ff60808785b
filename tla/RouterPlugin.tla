---------------------------- MODULE RouterPlugin ----------------------------
(***************************************************************************)
(* What the router plugins of the agent have in common                     *)
(* (router-integrations/plugin-interface.js, loader.js, guide-only.js): a  *)
(* method is a short sequence of requests to the router, one after the     *)
(* other, that ends in a result.  A request may be refused, may lose its   *)
(* answer after it took effect, or may be acknowledged and not carried     *)
(* out; meanwhile the household uses the router's own pages, devices come, *)
(* go and change addresses, and the agent may be restarted.                *)
(*                                                                         *)
(* The plugins proper are in RulePlugins, SlotPlugins and ClientPlugins.   *)
(***************************************************************************)
EXTENDS Naturals

CONSTANTS
    Device,         \* a device stands for its MAC address
    Address,
    Home,           \* the address each device starts with
    None,
    PluginIds,      \* the routers in scope
    Scope,          \* the methods in scope for each
    SlotOf,         \* the rule index the hash gives a device
    MaxCalls,       \* bound: methods called
    MaxFaults,      \* bound: disturbances of any kind
    MaxEvents,      \* bound: methods and disturbances together
    Faults          \* kinds of disturbance in scope

AllFaults == {"refused", "unanswered", "ignored", "unread", "unrestored", "reload",
              "restart", "move", "hand", "overlap", "roam"}

RequiredMethods == {"detect", "login", "testConnection", "changeDNS", "pauseDevice",
    "disconnectClient", "resumeDevice", "applyFirewallRule", "removeFirewallRule",
    "blockMAC", "unblockMAC"}
OptionalMethods == {"logout", "health"}

ASSUME PluginAssumption ==
    /\ Home \in [Device -> Address]
    /\ \A d, e \in Device : Home[d] = Home[e] => d = e
    /\ None \notin Device \cup Address
    /\ Scope \in [PluginIds -> SUBSET (RequiredMethods \cup OptionalMethods)]
    /\ SlotOf \in [Device -> Nat]
    /\ MaxCalls \in Nat /\ MaxFaults \in Nat /\ MaxEvents \in Nat
    /\ Faults \subseteq AllFaults

VARIABLES
    pluginId,   \* routerConnection.pluginId
    dryRun,     \* config.dryRun
    router,     \* what the router holds
    addr,       \* the address of each device
    call,       \* the method that runs
    calls,      \* methods called so far
    faults,     \* disturbances so far
    kinds,      \* and their kinds
    held,       \* ghost: devices blocked with success and by no order since freed
    owed        \* ghost: block orders that were not answered by a successful removal

world == <<pluginId, dryRun, addr>>
ghosts == <<held, owed>>
vars == <<world, router, call, calls, faults, kinds, ghosts>>

\* A rule of the router's: the call that made it, its name, and what it matches.
Rule == [id : 0..MaxCalls, name : {"rule", "mac", "hand"} \X Device \cup {"slot"} \X Nat,
         ip : Address \cup {None}, mac : Device \cup {None}]

\* rules as configured and as the firewall has loaded them; the clients barred
\* and paused, those associated, and the DNS server as configured (the reload
\* OpenWrt tries once it has verified is not told apart).
EmptyRouter == [rules |-> {}, running |-> {}, barred |-> {}, paused |-> {},
                online |-> Device, dns |-> "old"]
RouterState == [rules : SUBSET Rule, running : SUBSET Rule, barred : SUBSET Device,
                paused : SUBSET Device, online : SUBSET Device, dns : {"old", "new"}]

Matches(r, d) == r.ip \in {None, addr[d]} /\ r.mac \in {None, d}

Blocked(d) ==
    \/ d \in router.barred \cup router.paused
    \/ \E r \in router.running : Matches(r, d)

----------------------------------------------------------------------------
\* The loader and the interface.

\* GL.iNet routers are OpenWrt routers; no plugin for an id is the guide.
loadPlugin(id) ==
    CASE id = "glinet" -> "openwrt"
      [] id \in {"fritzbox", "mikrotik", "openwrt", "unifi", "edgerouter", "linksys",
                 "draytek", "tplink_omada", "zyxel_nebula", "keenetic"} -> id
      [] OTHER -> "guide"

Plugin == loadPlugin(pluginId)

Probes == {"detect", "login", "testConnection"} \cup OptionalMethods

Blocks == {"pauseDevice", "applyFirewallRule", "blockMAC"}
Lifts == {"resumeDevice", "removeFirewallRule", "unblockMAC"}

\* Nothing is done for these: the vendor's API cannot do it, or there is none.
guideOnly == RequiredMethods \cup {"health"}
zyxelUnsupported == RequiredMethods \ Probes
Unsupported ==
    [p \in {"guide", "zyxel_nebula", "tplink_omada", "fritzbox", "linksys", "draytek",
            "edgerouter", "keenetic", "openwrt", "mikrotik", "unifi"} |->
        CASE p = "guide" -> guideOnly
          [] p = "zyxel_nebula" -> zyxelUnsupported
          [] p = "tplink_omada" -> {"changeDNS"}
          [] p \in {"fritzbox", "linksys", "draytek", "edgerouter", "keenetic"} ->
                {"disconnectClient"}
          [] OTHER -> {}]

\* logout asks the router only where a session is held; health, where a plugin
\* has none, is its testConnection.
defaultLogout == {"openwrt", "unifi"}
Asks(method) == method = "logout" => Plugin \in defaultLogout

----------------------------------------------------------------------------
\* Requests.

Idle == [method |-> "none", device |-> None, ip |-> None, pc |-> "idle",
         seen |-> {}, result |-> "none"]

Steps == {"idle", "probe", "login", "go", "reload", "set", "verify", "rollback", "restore",
          "delete", "disable", "kick", "returned"}
Results == {"none", "ok", "failed", "unverified"}
CallState(method) ==
    [method : {method}, device : Device \cup {None}, ip : Address \cup {None}, pc : Steps,
     seen : SUBSET IF method = "changeDNS" THEN {"old", "new"} ELSE Device, result : Results]

At(plugin, methods, pc) == Plugin = plugin /\ call.method \in methods /\ call.pc = pc

\* What becomes of the call.
Goto(pc) == [call EXCEPT !.pc = pc]
Remember(seen, pc) == [call EXCEPT !.pc = pc, !.seen = seen]
Return(result) == [call EXCEPT !.pc = "returned", !.result = result]
Throws == Return("failed")

Disturb(kind) ==
    /\ kind \in Faults /\ faults < MaxFaults /\ calls + faults < MaxEvents
    /\ faults' = faults + 1 /\ kinds' = kinds \cup {kind}
Quiet == UNCHANGED <<faults, kinds>>

\* A request that changes the router: one that throws ends the method.
Send(after, next) ==
    /\ \/ router' = after /\ call' = next /\ Quiet
       \/ router' = router /\ call' = Throws /\ Disturb("refused")
       \/ router' = after /\ call' = Throws /\ Disturb("unanswered")
       \/ router' = router /\ call' = next /\ Disturb("ignored")
    /\ UNCHANGED <<world, calls, ghosts>>

\* The same for a request whose failure the code ignores.
Attempt(after, kind, next) ==
    /\ \/ router' = after /\ Quiet
       \/ router' = router /\ Disturb(kind)
    /\ call' = next
    /\ UNCHANGED <<world, calls, ghosts>>

\* A request that reads, and what may become of the call when it fails.
Read(next, failed) ==
    /\ (call' = next /\ Quiet) \/ (call' \in failed /\ Disturb("unread"))
    /\ UNCHANGED <<world, router, calls, ghosts>>

\* Changes of the configuration that are in force at once.
WithRules(rules) == [router EXCEPT !.rules = rules, !.running = rules]
AddRule(name, ip, mac) ==
    WithRules(router.rules \cup {[id |-> calls, name |-> name, ip |-> ip, mac |-> mac]})
First(rules) == CHOOSE r \in rules : \A s \in rules : r.id <= s.id

----------------------------------------------------------------------------
\* changeDNS, as most plugins have it: the value before is remembered if it can
\* be read, and put back when the new one does not show.

Dns(plugin, pc) == At(plugin, {"changeDNS"}, pc)

DnsBefore(plugin, unread) ==
    /\ Dns(plugin, "go")
    /\ Read(Remember({router.dns}, "set"), {unread})

DnsSet(plugin) == Dns(plugin, "set") /\ Send([router EXCEPT !.dns = "new"], Goto("verify"))

DnsVerify(plugin, differs, unread) ==
    /\ Dns(plugin, "verify")
    /\ Read(IF router.dns = "new" THEN Return("ok") ELSE differs, {unread, differs})

\* Mutant of PutBack: a change that does not show is left as it is.
PutBackNever == Return("unverified")

PutBack == IF call.seen = {} THEN Return("unverified") ELSE Goto("restore")

DnsRestore(plugin) ==
    /\ Dns(plugin, "restore")
    /\ \E dns \in call.seen :
        Attempt([router EXCEPT !.dns = dns], "unrestored", Return("unverified"))

RestoringDns(plugin) ==
    \/ DnsBefore(plugin, Goto("set"))
    \/ DnsSet(plugin)
    \/ DnsVerify(plugin, PutBack, PutBack)
    \/ DnsRestore(plugin)

----------------------------------------------------------------------------
\* Clients: barred and thrown off the network, barred only, let in again, kicked.

Bar(d) == [router EXCEPT !.barred = @ \cup {d}, !.online = @ \ {d}]
Deny(d) == [router EXCEPT !.barred = @ \cup {d}]
Unbar(d) == [router EXCEPT !.barred = @ \ {d}]
Kick(d) == [router EXCEPT !.online = @ \ {d}]
=============================================================================
