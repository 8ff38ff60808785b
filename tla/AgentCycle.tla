----------------------------- MODULE AgentCycle -----------------------------
(***************************************************************************)
(* One cycle of the gateway agent's main loop (main.js) with the state its *)
(* stages leave behind: the management guard, discovery and the resolution *)
(* of a policy to addresses, the connection killer's memory, the firewall  *)
(* and the shaper, against a LAN whose devices come, go, change address    *)
(* and open connections between any two stages.                            *)
(*                                                                         *)
(* The firewall is its abstraction: sync() installs exactly the drop rules *)
(* of its targets or throws and leaves the rules as they were.  IPv6 is    *)
(* the one address a device record may carry; it does not change.  The     *)
(* neighbour table keeps the entries of devices that have left until they  *)
(* age or somebody else is heard at their address.                         *)
(***************************************************************************)
EXTENDS FiniteSets, Naturals

CONSTANTS
    Device,         \* the devices of the policy
    Addr,           \* IPv4 addresses of the LAN
    Address6,       \* the IPv6 address the backend has for each device, or None
    Own6,           \* the gateway's own IPv6 address
    Actions,        \* the actions the backend uses, a subset of AllActions
    None,
    MaxMoves,       \* bound: address changes of devices and gateway together
    Faults          \* kinds of failure in scope, a subset of AllFaults

AllActions == {"ALLOW", "THROTTLE", "BLOCK", "absent"}
AllFaults == {"guard", "discovery", "report", "policies", "kill", "firewall",
              "qos", "shaping", "restart"}

ASSUME CycleAssumption ==
    /\ None \notin Addr
    /\ \A x \in AllActions, a \in Addr \cup {None} : None # [action |-> x, ip |-> a]
    /\ \A d \in Device : Address6[d] \notin Addr
    /\ Actions \subseteq AllActions
    /\ MaxMoves \in Nat
    /\ Faults \subseteq AllFaults

VARIABLES
    action,     \* the backend's action for each device, "absent" if not listed
    known,      \* the address the backend has stored for each device
    macs,       \* the devices whose policy carries a MAC address
    addr,       \* the address each device has now, None when it is offline
    own,        \* the gateway's own IPv4 address
    moves,      \* address changes so far
    neigh,      \* the neighbour table: the device last heard at each address
    flows,      \* conntrack entries: device, address, there for the next kill?
    stage,      \* the stage of syncOnce to run next
    seen,       \* discoverDevices' answer of this cycle
    targets,    \* the resolved and filtered targets of this cycle
    detected,   \* the guard's detectedIp
    settled,    \* nothing moved, and detection worked, since the guard refreshed
    previous,   \* the killer's previousStates, None for no entry
    rules,      \* the drop rules installed: device and address or MAC
    shaped,     \* the addresses the shaper throttles
    verdict     \* lastSyncOk of the heartbeat: "none", "ok" or "fail"

lan == <<addr, own, moves, neigh>>
backend == <<action, known, macs>>
kernel == <<flows, rules, shaped>>
cycle == <<seen, targets>>
vars == <<backend, lan, kernel, stage, cycle, detected, settled, previous, verdict>>

Stages == {"idle", "discover", "policies", "kill", "remember", "firewall", "qos", "end"}

Rule(d, kind, on) == [device |-> d, kind |-> kind, on |-> on]
Flow(d, a, early) == [device |-> d, at |-> a, early |-> early]

\* The killer believes device d is blocked already.
Remembered(d) == previous[d] # None /\ previous[d].action = "BLOCK"

Init ==
    /\ action \in [Device -> Actions]
    /\ known = [d \in Device |-> None]
    /\ macs \in SUBSET Device
    /\ neigh = [a \in Addr |-> None]
    /\ addr = [d \in Device |-> None]
    /\ own \in Addr
    /\ moves = 0
    /\ flows = {} /\ rules = {} /\ shaped = {}
    /\ stage = "idle"
    /\ seen = [d \in Device |-> None] /\ targets = {}
    /\ detected = None /\ settled = FALSE
    /\ previous = [d \in Device |-> None]
    /\ verdict = "none"

----------------------------------------------------------------------------
\* The LAN and the backend.

Taken == {addr[d] : d \in Device} \cup {own}

\* DHCP gives a device an address nobody uses, or the device goes offline; its
\* connections die with its old address, its neighbour entry, if it was heard
\* there, does not.
Move(d) ==
    /\ moves < MaxMoves
    /\ addr' \in {[addr EXCEPT ![d] = a] : a \in (Addr \ Taken) \cup {None}}
    /\ addr' # addr
    /\ neigh' \in {neigh} \cup {[neigh EXCEPT ![a] = d] : a \in {addr[d]} \ {None}}
    /\ moves' = moves + 1
    /\ flows' = {x \in flows : x.device # d}
    /\ settled' = FALSE
    /\ UNCHANGED <<backend, own, rules, shaped, stage, cycle, detected,
                   previous, verdict>>

\* The gateway's uplink gets another address.
Readdress ==
    /\ moves < MaxMoves
    /\ own' \in Addr \ Taken
    /\ moves' = moves + 1
    /\ settled' = FALSE
    /\ UNCHANGED <<backend, addr, neigh, kernel, stage, cycle, detected, previous,
                   verdict>>

Dropped(d) ==
    \E r \in rules : \/ r.kind = "mac" /\ r.device = d
                     \/ r.kind = "ip" /\ r.on = addr[d]

\* The killer has deleted the connections of device d in this cycle, though it
\* does not remember so yet.
KilledNow(d) ==
    stage = "remember" /\ \E t \in targets : t.device = d /\ t.action = "BLOCK"

\* A device opens a connection the firewall lets through.
Connect(d) ==
    /\ addr[d] # None
    /\ ~Dropped(d)
    /\ flows' = flows \cup {Flow(d, addr[d], ~(Remembered(d) \/ KilledNow(d)))}
    /\ UNCHANGED <<backend, lan, rules, shaped, stage, cycle, detected, settled,
                   previous, verdict>>

SetAction(d) ==
    /\ \E x \in Actions \ {action[d]} : action' = [action EXCEPT ![d] = x]
    /\ UNCHANGED <<known, macs, lan, kernel, stage, cycle, detected, settled,
                   previous, verdict>>

\* The backend learns the address of a device it has no MAC address of from
\* somewhere else than the agent's reports (ipAddress or dnsSourceIp).
Record(d) ==
    /\ d \notin macs /\ addr[d] # None
    /\ known' = [known EXCEPT ![d] = addr[d]]
    /\ UNCHANGED <<action, macs, lan, kernel, stage, cycle, detected, settled,
                   previous, verdict>>

----------------------------------------------------------------------------
\* The stages of syncOnce.

\* managementGuard.refresh: detection may fail and then keeps what it had.
Refresh ==
    /\ stage = "idle"
    /\ \/ detected' = own /\ settled' = TRUE
       \/ "guard" \in Faults /\ UNCHANGED detected /\ settled' = FALSE
    /\ stage' = "discover"
    /\ UNCHANGED <<backend, lan, kernel, cycle, previous, verdict>>

\* mergeByMac keeps the first entry of a device, wherever the table has it.
mergeByMac(d, table) ==
    LET entries == {a \in Addr : table[a] = d}
    IN  IF entries = {} THEN {None} ELSE entries

\* discoverDevices and reportDiscovery: an entry of the neighbour table is of
\* the device last heard at the address, which may have left it, and may be
\* missing; both readings of the table may fail.  A report that fails is only
\* logged; the backend matches it by MAC address.
Discover ==
    /\ stage = "discover"
    /\ \/ /\ neigh' \in [Addr -> Device \cup {None}]
          /\ \A a \in Addr :
                neigh'[a] \in {neigh[a], None} \cup {d \in Device : addr[d] = a}
          /\ seen' \in [Device -> Addr \cup {None}]
          /\ \A d \in Device : seen'[d] \in mergeByMac(d, neigh')
       \/ /\ "discovery" \in Faults
          /\ seen' = [d \in Device |-> None] /\ UNCHANGED neigh
    /\ \/ known' = [d \in Device |->
                       IF d \in macs /\ seen'[d] # None THEN seen'[d] ELSE known[d]]
       \/ "report" \in Faults /\ UNCHANGED known
    /\ stage' = "policies"
    /\ UNCHANGED <<action, macs, addr, own, moves, kernel, targets, detected,
                   settled, previous, verdict>>

\* Mutant of resolvePolicyTarget: the address seen is not looked up.
StoredAddress(d) ==
    [device |-> d, action |-> action[d], ip |-> known[d], ip6 |-> Address6[d]]

\* resolvePolicyTarget: the address seen under the policy's MAC, else the one
\* the backend has stored; a policy without a MAC has only the latter.
resolvePolicyTarget(d) ==
    [device |-> d, action |-> action[d],
     ip |-> IF d \in macs /\ seen[d] # None THEN seen[d] ELSE known[d],
     ip6 |-> Address6[d]]

isProtectedIp(a) == a # None /\ a = detected

\* Mutant of filterTargets: the choke point in syncOnce is gone.
FilterNothing(ts) == ts

\* ManagementGuard.filterTargets looks at the IPv4 address only.
filterTargets(ts) == {t \in ts : ~isProtectedIp(t.ip)}

Listed == {d \in Device : action[d] # "absent"}

GetPolicies ==
    /\ stage = "policies"
    /\ targets' = filterTargets({resolvePolicyTarget(d) : d \in Listed})
    /\ stage' = "kill"
    /\ UNCHANGED <<backend, lan, kernel, seen, detected, settled, previous, verdict>>

Known(t) == previous[t.device]

\* Mutant of shouldRun: the address is not compared.
RunOnActionOnly(t) ==
    /\ t.action = "BLOCK"
    /\ t.ip # None \/ t.ip6 # None
    /\ Known(t) # None => Known(t).action # "BLOCK"

\* ConnectionKiller._shouldRun: a transition into BLOCK, or another address.
shouldRun(t) ==
    /\ t.action = "BLOCK"
    /\ t.ip # None \/ t.ip6 # None
    /\ \/ Known(t) = None
       \/ /\ Known(t) # None
          /\ Known(t).action # "BLOCK" \/ Known(t).ip # t.ip

\* _rememberStates: every target, killed or not, and nothing else.
rememberStates ==
    previous' = [d \in Device |->
        LET own_ == {t \in targets : t.device = d} IN
        IF own_ = {} THEN None
        ELSE LET t == CHOOSE t \in own_ : TRUE IN
             [action |-> t.action, ip |-> t.ip]]

\* ConnectionKiller.sync up to its await: conntrack deletes what it finds at
\* each address; a delete that fails is ignored, so the target counts as killed
\* all the same.
Kill ==
    /\ stage = "kill"
    /\ LET killed == {t.ip : t \in {u \in filterTargets(targets) : shouldRun(u)}}
       IN  \E missed \in SUBSET (IF "kill" \in Faults THEN killed ELSE {}) :
              flows' = {x \in flows : x.at \notin killed \ missed}
    /\ stage' = "remember"
    /\ UNCHANGED <<backend, lan, rules, shaped, cycle, detected, settled, previous,
                   verdict>>

\* After conntrack and the TCP resets of every target: _rememberStates.
Remember ==
    /\ stage = "remember"
    /\ rememberStates
    /\ stage' = "firewall"
    /\ UNCHANGED <<backend, lan, kernel, cycle, detected, settled, verdict>>

\* addBlockRules: by MAC where the policy has one, by address where it has one.
BlockRules(t) ==
    {Rule(d, "mac", None) : d \in {t.device} \cap macs}
        \cup {Rule(t.device, "ip", a) : a \in {t.ip, t.ip6} \ {None}}

\* Mutant of Firewall: the rules of earlier cycles stay.
FirewallAdds ==
    /\ stage = "firewall"
    /\ rules' = rules \cup
                   (UNION {BlockRules(t) : t \in {u \in targets : u.action = "BLOCK"}})
    /\ stage' = "qos"
    /\ UNCHANGED <<backend, lan, flows, shaped, cycle, detected, settled,
                   previous, verdict>>

\* firewall.sync succeeds.
Firewall ==
    /\ stage = "firewall"
    /\ rules' = UNION {BlockRules(t) : t \in {u \in targets : u.action = "BLOCK"}}
    /\ stage' = "qos"
    /\ UNCHANGED <<backend, lan, flows, shaped, cycle, detected, settled,
                   previous, verdict>>

\* Mutant of Throttled: a target without an address is shaped too.
ThrottledWithoutAddress == {t.ip : t \in {u \in targets : u.action = "THROTTLE"}}

Throttled == {t.ip : t \in {u \in targets : u.action = "THROTTLE"}} \ {None}

\* qos.sync: filters are cleared and added again; a bandwidth rule that fails
\* removes the interface's whole tree, and the stage still returns normally.
Qos ==
    /\ stage = "qos"
    /\ \/ shaped' = Throttled
       \/ "shaping" \in Faults /\ shaped' = {}
    /\ stage' = "end"
    /\ UNCHANGED <<backend, lan, flows, rules, cycle, detected, settled,
                   previous, verdict>>

\* The detectors and the router commands follow; their failures are caught.
Finish ==
    /\ stage = "end"
    /\ stage' = "idle" /\ verdict' = "ok"
    /\ UNCHANGED <<backend, lan, kernel, cycle, detected, settled, previous>>

\* getPolicies, firewall.sync or qos.sync throws: the rest of the cycle is
\* dropped.  A shaper that throws has cleared some of its filters.
Throw ==
    /\ \/ stage = "policies" /\ "policies" \in Faults /\ UNCHANGED shaped
       \/ stage = "firewall" /\ "firewall" \in Faults /\ UNCHANGED shaped
       \/ stage = "qos" /\ "qos" \in Faults /\ shaped' \in SUBSET Throttled
    /\ stage' = "idle" /\ verdict' = "fail"
    /\ UNCHANGED <<backend, lan, flows, rules, cycle, detected, settled, previous>>

\* The agent is restarted: kernel state stays, memory does not.
Restart ==
    /\ "restart" \in Faults
    /\ stage' = "idle" /\ verdict' = "none"
    /\ seen' = [d \in Device |-> None] /\ targets' = {}
    /\ detected' = None /\ settled' = FALSE
    /\ previous' = [d \in Device |-> None]
    /\ UNCHANGED <<backend, lan, kernel>>

Stage == Refresh \/ Discover \/ GetPolicies \/ Kill \/ Remember \/ Firewall \/ Qos \/ Finish

Environment ==
    \/ \E d \in Device : Move(d) \/ Connect(d) \/ SetAction(d) \/ Record(d)
    \/ Readdress

Next == Stage \/ Throw \/ Restart \/ Environment

Spec == Init /\ [][Next]_vars

\* The loop runs on (every child process has a timeout), and a stage that can
\* fail is not assumed to fail for ever.
FairSpec ==
    /\ Spec
    /\ WF_vars(Stage \/ Throw)
    /\ SF_vars(GetPolicies) /\ SF_vars(Firewall) /\ SF_vars(Qos /\ shaped' = Throttled)

----------------------------------------------------------------------------
TypeOK ==
    /\ action \in [Device -> Actions]
    /\ known \in [Device -> Addr \cup {None}]
    /\ macs \subseteq Device
    /\ addr \in [Device -> Addr \cup {None}]
    /\ neigh \in [Addr -> Device \cup {None}]
    /\ own \in Addr
    /\ moves \in 0..MaxMoves
    /\ \A x \in flows : x.device \in Device /\ x.at \in Addr /\ x.early \in BOOLEAN
    /\ stage \in Stages
    /\ seen \in [Device -> Addr \cup {None}]
    /\ \A t \in targets : t.device \in Device /\ t.ip \in Addr \cup {None}
    /\ detected \in Addr \cup {None}
    /\ \A d \in Device : previous[d] # None => previous[d].action \in Actions
    /\ shaped \subseteq Addr
    /\ verdict \in {"none", "ok", "fail"}

CycleOk == stage = "idle" /\ verdict = "ok"

\* A connection a device had when the cycle that blocks it deleted connections
\* does not outlive that cycle, though the LAN moves, stages throw and the agent
\* restarts before the kill is remembered (connection-killer.js runs on every
\* transition into BLOCK it can observe).  One opened after the delete and before
\* the rules is not meant: nothing deletes it.
NoEarlyFlowSurvives ==
    CycleOk => \A t \in targets, x \in flows :
        /\ t.action = "BLOCK" /\ t.ip # None
        /\ x.device = t.device /\ x.at = t.ip
        => ~x.early

\* No drop rule names the gateway's own IPv4 address at the end of a cycle that
\* detected it (management-guard.js, the filter in syncOnce).
GatewayNeverDropped ==
    CycleOk /\ settled => \A r \in rules : r.on # own

\* At the end of a cycle an allowed device that was seen where it is now is not
\* dropped, unless another one is recorded at its address that was not seen or
\* that has no MAC address to be seen by.
NoCollateralOfSeen ==
    CycleOk =>
        \A t \in targets :
            /\ t.action = "ALLOW"
            /\ addr[t.device] # None /\ seen[t.device] = addr[t.device]
            /\ Dropped(t.device)
            => \E u \in targets :
                  /\ u.device # t.device /\ u.ip = addr[t.device]
                  /\ seen[u.device] = None \/ u.device \notin macs

\* A stage gets by with less than it needed: no or a wrong own address, a
\* neighbour entry missing or out of date, a bandwidth rule that failed.
FallsShort ==
    \/ Refresh /\ detected' # own
    \/ Discover /\ seen' # addr
    \/ Qos /\ shaped' # Throttled

\* Once the LAN and the backend settle and discovery sees what is there, every
\* blocked device ends up dropped and stays so, and every throttled one shaped
\* after each good cycle, though the stages that throw may go on doing so now
\* and then (main.js starts a new cycle whatever the last one ended in).  A
\* device without a MAC address counts where the backend has its address.
Settles ==
    <>[][~(Restart \/ Environment \/ FallsShort)]_vars =>
        <>[](\A d \in Device : addr[d] # None /\ (d \in macs \/ known[d] = addr[d]) =>
                /\ action[d] = "BLOCK" => Dropped(d)
                /\ CycleOk /\ action[d] = "THROTTLE" => addr[d] \in shaped)

----------------------------------------------------------------------------
\* What the documentation says and the code does not do.

\* connection-killer.js, its header: connections are terminated at once when a
\* device transitions into BLOCK.
BlockEndsConnections ==
    CycleOk => \A t \in targets, x \in flows :
        ~(t.action = "BLOCK" /\ t.ip # None /\ x.device = t.device /\ x.at = t.ip)

\* management-guard.js: enforcement can never be applied against the address
\* the agent itself uses, in either family.
GatewayNeverDropped6 ==
    CycleOk => \A r \in rules : r.on # Own6

\* README of the agent: with a MAC assigned, a DHCP change does not make the
\* rule of one device hit another.
MacAssignmentIsSafe ==
    CycleOk /\ settled =>
        \A t \in targets :
            t.action = "ALLOW" /\ seen[t.device] # None => ~Dropped(t.device)
=============================================================================
