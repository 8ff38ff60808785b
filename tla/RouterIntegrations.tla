------------------------- MODULE RouterIntegrations -------------------------
(***************************************************************************)
(* The router plugins of the agent at work: the executor calls one method  *)
(* after the other on the plugin of the gateway's router                   *)
(* (router-command-executor.js, executeSingleAction), while the household  *)
(* uses the router's own pages and devices change addresses.               *)
(***************************************************************************)
EXTENDS RulePlugins, SlotPlugins, ClientPlugins

\* Plugins that ask which clients are associated; the controllers take the
\* answer for the proof of a block.
Controllers == {"unifi", "tplink_omada"}
LooksAtClients == Controllers \cup {"openwrt", "mikrotik"}

Init ==
    /\ pluginId \in PluginIds /\ dryRun \in BOOLEAN
    /\ \E clients \in IF Plugin \in Controllers THEN SUBSET Device ELSE {Device} :
        router = [EmptyRouter EXCEPT !.online = clients]
    /\ addr = Home
    /\ call = Idle /\ calls = 0 /\ faults = 0 /\ kinds = {}
    /\ held = {} /\ owed = [d \in Device |-> {}]

----------------------------------------------------------------------------
\* The executor.

\* Plugins whose methods ask for the address of the device.
NeedsAddress(method) ==
    \/ Plugin \in {"mikrotik", "edgerouter", "draytek"}
            /\ method \in (Blocks \cup Lifts) \ ByMac
    \/ Plugin = "unifi" /\ method \in Rules

LogsIn == {"openwrt", "unifi", "tplink_omada"}

\* What the methods do before their first request.
Begin(method, ip) ==
    CASE method \in Unsupported[Plugin] -> [pc |-> "returned", result |-> "failed"]
      [] method \in Probes -> [pc |-> "probe", result |-> "none"]
      [] dryRun -> [pc |-> "returned", result |-> "ok"]
      [] ip = None /\ NeedsAddress(method) -> [pc |-> "returned", result |-> "failed"]
      [] OTHER -> [pc |-> IF Plugin \in LogsIn THEN "login" ELSE "go", result |-> "none"]
Called(method, d, ip) ==
    [method |-> method, device |-> d, ip |-> ip, pc |-> Begin(method, ip).pc,
     seen |-> {}, result |-> Begin(method, ip).result]

\* The entry of the router's a block makes and a removal takes away.
Entry(method) ==
    CASE Plugin \in {"openwrt", "mikrotik"} -> IF method \in ByMac THEN "mac" ELSE "rule"
      [] Plugin = "unifi" -> IF method \in Rules THEN "rule" ELSE "mac"
      [] Plugin = "linksys" -> IF method \in Paused THEN "paused" ELSE "mac"
      [] OTHER -> "any"

\* buildTarget: a device and the address the payload has had since the command
\* was queued, if any: once devices have moved it may be a former one.  Only what
\* the method looks at.
Targets(method) == IF method \in Probes \cup {"changeDNS"} THEN {None} ELSE Device
Addresses(method, d) ==
    IF method \in Blocks \cup Lifts
        /\ Plugin \in {"openwrt", "mikrotik", "unifi", "edgerouter", "draytek", "fritzbox"}
    THEN {None} \cup IF "move" \in kinds THEN {Home[e] : e \in Device} ELSE {addr[d]}
    ELSE {None}

executeSingleAction ==
    /\ call.pc = "idle" /\ calls < MaxCalls /\ calls + faults < MaxEvents /\ calls' = calls + 1
    /\ \E method \in Scope[pluginId] : \E d \in Targets(method) : \E ip \in Addresses(method, d) :
            /\ call' = Called(method, d, ip)
            /\ IF dryRun \/ method \notin Blocks \cup Lifts THEN UNCHANGED ghosts
               ELSE /\ held' = IF method \in Lifts THEN held \ {d} ELSE held
                    /\ owed' = IF method \in Blocks
                               THEN [owed EXCEPT ![d] = @ \cup {<<Entry(method), calls'>>}]
                               ELSE owed
    /\ UNCHANGED <<world, router, faults, kinds>>

\* detect, login, testConnection, health and logout ask and change nothing.
Probe ==
    /\ call.pc = "probe"
    /\ IF Asks(call.method) THEN Read(Return("ok"), {Throws})
                            ELSE Read(Return("ok"), {})

\* A block order stands until it is answered: where every order adds a rule of
\* its own, a removal answers one of them.
Answered(entry) ==
    LET orders == {o \in owed[call.device] : o[1] = entry} IN
    IF Plugin \in {"openwrt", "mikrotik"} \/ (Plugin = "unifi" /\ entry = "rule")
    THEN {o \in orders : \A p \in orders : o[2] <= p[2]} ELSE orders

\* The result goes back to the executor.
Report ==
    /\ call.pc = "returned" /\ call' = Idle
    /\ IF dryRun \/ call.result # "ok" THEN UNCHANGED ghosts
       ELSE /\ held' = IF call.method \in Blocks THEN held \cup {call.device} ELSE held
            /\ owed' = IF call.method \in Lifts
                       THEN [owed EXCEPT ![call.device] = @ \ Answered(Entry(call.method))]
                       ELSE owed
    /\ UNCHANGED <<world, router, calls, faults, kinds>>

\* The agent is restarted; nobody learns of the result.
Restart ==
    /\ call.pc # "idle" /\ Disturb("restart") /\ call' = Idle
    /\ UNCHANGED <<world, router, calls, ghosts>>

Methods_ == OpenWrt \/ MikroTik \/ EdgeRouter \/ DrayTek \/ UniFi \/ Omada \/ Keenetic
                \/ FritzBox \/ Linksys

----------------------------------------------------------------------------
\* The household.

\* A device is blocked by hand; the entry bears no name of ours.
HandBlock ==
    /\ \E d \in Device :
        /\ router' = IF Plugin \in {"openwrt", "mikrotik", "edgerouter", "draytek"}
                     THEN WithRules(router.rules \cup
                            {[id |-> 0, name |-> <<"hand", d>>, ip |-> None, mac |-> d]})
                     ELSE Deny(d)
        /\ held' = IF call.method \in Lifts /\ call.device = d THEN held ELSE held \cup {d}
        /\ owed' = [owed EXCEPT ![d] = @ \cup {<<"hand", 0>>}]
    /\ Disturb(IF call.pc = "idle" THEN "hand" ELSE "overlap")
    /\ UNCHANGED <<world, call, calls>>

\* Two devices change addresses, between two commands.
Move ==
    /\ call.pc = "idle" /\ Disturb("move")
    /\ \E d, e \in Device :
        d # e /\ addr' = [addr EXCEPT ![d] = addr[e], ![e] = addr[d]]
    /\ UNCHANGED <<pluginId, dryRun, router, call, calls, ghosts>>

\* A device joins or leaves the network, where a plugin looks at that; a barred
\* one does not join.
Roam ==
    /\ Plugin \in LooksAtClients /\ Disturb("roam")
    /\ \E d \in Device :
        \/ d \notin router.barred \cup router.online
                /\ router' = [router EXCEPT !.online = @ \cup {d}]
        \/ d \in router.online /\ router' = Kick(d)
    /\ UNCHANGED <<world, call, calls, ghosts>>

Next == executeSingleAction \/ Probe \/ Report \/ Restart \/ Methods_ \/ HandBlock \/ Move
            \/ Roam

Spec == Init /\ [][Next]_vars

----------------------------------------------------------------------------
TypeOK ==
    /\ pluginId \in PluginIds /\ dryRun \in BOOLEAN
    /\ router \in RouterState
    /\ addr \in [Device -> Address]
    /\ call.method \in Scope[pluginId] \cup {"none"} /\ call \in CallState(call.method)
    /\ call.pc = "returned" <=> call.result # "none"
    /\ calls \in 0..MaxCalls /\ faults \in 0..MaxFaults /\ kinds \subseteq Faults
    /\ held \subseteq Device
    /\ owed \in [Device -> SUBSET ({"any", "mac", "rule", "paused", "hand"} \X (0..MaxCalls))]

\* What each plugin's verification does not see, for a block.
BlockSpoilers ==
    CASE Plugin = "openwrt" -> {"reload", "move"}
      [] Plugin \in {"mikrotik", "edgerouter", "draytek"} -> {"move"}
      [] Plugin \in {"unifi", "fritzbox"} -> {"ignored", "move"}
      [] Plugin = "tplink_omada" -> {"ignored"}
      [] Plugin = "linksys" -> {"unread", "overlap"}
      [] OTHER -> {}

LiftSpoilers ==
    CASE Plugin = "openwrt" -> {"unanswered", "ignored", "unread", "reload", "restart"}
      [] Plugin \in {"unifi", "mikrotik", "edgerouter", "draytek"} -> {"unread", "ignored", "move"}
      [] Plugin = "fritzbox" -> {"ignored", "move"}
      [] Plugin = "linksys" -> {"unread"}
      [] OTHER -> {"ignored"}

\* A device that was blocked with success, or by hand, is blocked until a
\* command for this device removes a block: nothing another command does,
\* fails to do, or does halfway lifts it.  Exempt is a device whose rule index
\* is another's too.
SharesSlot(d) ==
    Plugin \in {"edgerouter", "draytek"} /\ \E e \in Device \ {d} : SlotOf[e] = SlotOf[d]
BlockInForce ==
    kinds \cap BlockSpoilers = {} => \A d \in held : Blocked(d) \/ SharesSlot(d)

\* A device whose block orders have all been answered by a successful removal,
\* or that was never ordered blocked, is not blocked: failed and interrupted
\* orders count, and a dry run blocks nobody.
UnblockLifts ==
    kinds \cap LiftSpoilers = {} => \A d \in Device : owed[d] = {} => ~Blocked(d)

Restoring == {"openwrt", "mikrotik", "fritzbox", "keenetic", "linksys"}

\* changeDNS reports success only with the new server in place.  A change that
\* did not verify is put back by the plugins that read the server before, unless
\* that reading or the writing back failed; their message `restored previous
\* value' is sent in these cases too.
DnsHonest ==
    call.method = "changeDNS" /\ call.pc = "returned" /\ ~dryRun =>
        /\ call.result = "ok" => router.dns = "new"
        /\ call.result = "unverified" /\ Plugin \in Restoring =>
            \/ router.dns \in call.seen
            \/ call.seen = {} /\ "unread" \in kinds
            \/ "unrestored" \in kinds

----------------------------------------------------------------------------
\* What the documentation says and the code does not do.

\* plugin-interface.js:17: success means verified, not just attempted.
SuccessIsVerified ==
    call.pc = "returned" /\ call.result = "ok" /\ call.method \in Blocks /\ ~dryRun
        => Blocked(call.device)

\* openwrt/index.js:194: `DNS change did not verify -- restored previous value'.
RestoredAsSaid ==
    call.method = "changeDNS" /\ call.result = "unverified" /\ Plugin \in Restoring
        => router.dns \in call.seen
=============================================================================
