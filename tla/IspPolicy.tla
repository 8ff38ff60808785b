------------------------------ MODULE IspPolicy ------------------------------
(***************************************************************************)
(* The ISP adapter (isp-adapter): its tables of RADIUS sessions, DHCP      *)
(* leases, policies and BNG states, and what the commands it builds do to  *)
(* the provider's network, while subscribers connect, move to another      *)
(* address or BNG and leave, which RADIUS reports in requests of its own.  *)
(* Every table belongs to one tenant, so one tenant is modelled.  A        *)
(* request is handled without interruption.                                *)
(***************************************************************************)
EXTENDS FiniteSets, Naturals, Sequences

CONSTANTS
    Subscriber,
    AccessIp,       \* addresses RADIUS assigns
    LanIp,          \* addresses DHCP leases inside homes
    Mac,
    Bng,
    DefaultBng,     \* config.defaultBngId
    None,
    MaxMoves,       \* bound: connections
    MaxRequests,    \* bound: leases and requests for a policy
    Faults          \* kinds of failure in scope, a subset of AllFaults

AllFaults == {"lost", "again", "restart"}
Action == {"BLOCK", "ALLOW", "THROTTLE"}

ASSUME IspAssumption ==
    /\ DefaultBng \in Bng
    /\ None \notin AccessIp \cup LanIp \cup Bng \cup Subscriber
    /\ AccessIp \cap LanIp = {}
    /\ \A ip \in AccessIp \cup LanIp, bng \in Bng : None # [ip |-> ip, bng |-> bng]
    /\ MaxMoves \in Nat /\ MaxRequests \in Nat
    /\ Faults \subseteq AllFaults

VARIABLES
    online,     \* each subscriber's connection: address and BNG, or None
    moves,      \* connections so far
    requests,   \* leases and requests for a policy so far
    reports,    \* what RADIUS has to report of subscribers, in any order
    session,    \* radiusSessions: what the adapter knows of it
    leases,     \* dhcpLeasesByMac
    devices,    \* each subscriber's devices, in the order they were first seen
    policy,     \* policies: action and BNG it was resolved to, or None
    bngState,   \* bngState by BNG and subscriber: the recorded action, or None
    routes,     \* blackhole routes of the BNGs
    profile,    \* each subscriber's RADIUS filter and QoS profile
    applied,    \* ghost: the policy was applied under the present connection
    stray       \* ghost: places a request was enforced at that was wrong of its subscriber

world == <<online, moves, reports>>
bounds == <<moves, requests>>
tables == <<session, leases, devices, policy, bngState>>
network == <<routes, profile>>
ghosts == <<applied, stray>>
vars == <<world, requests, tables, network, ghosts>>

At(ip, bng) == [ip |-> ip, bng |-> bng]
Where == [ip : AccessIp, bng : Bng]
Report == [subscriber : Subscriber, at : Where \cup {None}]
Lease == [mac : Mac, ip : LanIp, subscriber : Subscriber]

Empty(x) == [s \in Subscriber |-> x]

Init ==
    /\ online = Empty(None) /\ reports = {}
    /\ moves = 0 /\ requests = 0
    /\ session = Empty(None)
    /\ leases = [m \in Mac |-> None]
    /\ devices = Empty(<<>>)
    /\ policy = Empty(None)
    /\ bngState = [k \in Bng \X Subscriber |-> None]
    /\ routes = {}
    /\ profile = Empty([filter |-> "default", qos |-> "default"])
    /\ applied = Empty(FALSE) /\ stray = {}

----------------------------------------------------------------------------
\* Subscribers.

\* A subscriber connects, or again with another address or BNG, where nobody
\* else is, or leaves; RADIUS will report it.
Moves(s, w) ==
    /\ online' = [online EXCEPT ![s] = w]
    /\ reports' = reports \cup {[subscriber |-> s, at |-> w]}
    /\ applied' = [applied EXCEPT ![s] = FALSE]
    /\ UNCHANGED <<requests, tables, network, stray>>

Connect(s) ==
    /\ moves < MaxMoves /\ moves' = moves + 1
    /\ \E w \in Where :
        /\ w # online[s]
        /\ \A t \in Subscriber \ {s} : online[t] # None => online[t].ip # w.ip
        /\ Moves(s, w)

Disconnect(s) == online[s] # None /\ Moves(s, None) /\ UNCHANGED moves

\* The report comes, after others or again, or never.
Reported(r) ==
    /\ \/ reports' = reports \ {r}
       \/ "again" \in Faults /\ UNCHANGED reports
    /\ UNCHANGED <<online, bounds, leases, devices, policy, bngState, network, ghosts>>

\* A report that names no BNG means the default one.
upsertSession(r) ==
    /\ r.at # None
    /\ \E bng \in {r.at.bng, DefaultBng} :
        session' = [session EXCEPT ![r.subscriber] = At(r.at.ip, bng)]
    /\ Reported(r)

stopSession(r) ==
    /\ r.at = None
    /\ session' = [session EXCEPT ![r.subscriber] = None]
    /\ Reported(r)

LoseReport(r) ==
    /\ "lost" \in Faults
    /\ reports' = reports \ {r}
    /\ UNCHANGED <<online, bounds, tables, network, ghosts>>

Asks == requests < MaxRequests /\ requests' = requests + 1

\* A Map keeps the place of a key it has.
Filed(list, lease) ==
    LET known == {k \in DOMAIN list : list[k].mac = lease.mac} IN
    IF known = {} THEN Append(list, lease)
    ELSE [k \in DOMAIN list |-> IF k \in known THEN lease ELSE list[k]]

\* Mutant of UpsertLease: the lease of a known MAC is filed under its old
\* subscriber.
UpsertLeaseUnderOwner(s, m) ==
    /\ Asks
    /\ \E ip \in LanIp :
        LET lease == [mac |-> m, ip |-> ip, subscriber |-> s]
            owner == IF leases[m] = None THEN s ELSE leases[m].subscriber
        IN  /\ leases' = [leases EXCEPT ![m] = lease]
            /\ devices' = [devices EXCEPT ![owner] = Filed(@, lease)]
    /\ UNCHANGED <<world, session, policy, bngState, network, ghosts>>

\* upsertLease: the lease is filed under its MAC and under its subscriber; the
\* subscriber that had the MAC before is not told.
UpsertLease(s, m) ==
    /\ Asks
    /\ \E ip \in LanIp :
        LET lease == [mac |-> m, ip |-> ip, subscriber |-> s]
        IN  /\ leases' = [leases EXCEPT ![m] = lease]
            /\ devices' = [devices EXCEPT ![s] = Filed(@, lease)]
    /\ UNCHANGED <<world, session, policy, bngState, network, ghosts>>

----------------------------------------------------------------------------
\* Policies.

\* What a request for a policy may carry beside its subscriber and its action.
Request == [assignedIp : AccessIp \cup {None}, bngId : Bng \cup {None}]

\* Mutant of enforcementIp: the address of the request comes first.
RequestedIp(s, input) ==
    IF input.assignedIp # None THEN input.assignedIp
    ELSE IF session[s] # None THEN session[s].ip
    ELSE IF devices[s] # <<>> THEN devices[s][1].ip ELSE None

\* SubscriberResolver.resolve: the session's address, else the one of the request,
\* else that of the device seen first.
enforcementIp(s, input) ==
    IF session[s] # None THEN session[s].ip
    ELSE IF input.assignedIp # None THEN input.assignedIp
    ELSE IF devices[s] # <<>> THEN devices[s][1].ip ELSE None

bngOf(s, input) ==
    IF session[s] # None THEN session[s].bng
    ELSE IF input.bngId # None THEN input.bngId ELSE DefaultBng

\* A request names its subscriber, or a MAC of one.
Named == Subscriber \cup ({leases[m].subscriber : m \in {n \in Mac : leases[n] # None}})

\* buildVendorCommands, the routes: a BLOCK adds one, an ALLOW removes the one
\* of the address the subscriber resolves to now, a THROTTLE does neither.
Routes(action, where) ==
    CASE action = "BLOCK" -> routes \cup {where}
      [] action = "ALLOW" -> routes \ {where}
      [] action = "THROTTLE" -> routes

\* buildVendorCommands, the subscriber's profile.
Profile(action, old) ==
    CASE action = "BLOCK" -> [old EXCEPT !.filter = "guardtime-block"]
      [] action = "ALLOW" -> [filter |-> "default", qos |-> "default"]
      [] action = "THROTTLE" -> [old EXCEPT !.qos = "guardtime-1kbit"]

\* Mutant of stateKey: the state is filed under the default BNG.
DefaultKey(s, input) == <<DefaultBng, s>>

stateKey(s, input) == <<bngOf(s, input), s>>

\* Is what a request resolves to true of its subscriber: the session in the table,
\* or, without one, the address it carries?
Mistaken(s, input) ==
    IF session[s] # None THEN session[s] # online[s]
    ELSE input.assignedIp # None /\ (online[s] = None \/ input.assignedIp # online[s].ip)

\* PolicyEngine.apply and BngController.applyPolicy; without an address the
\* request is refused.
Apply(s, action, input) ==
    /\ Asks
    /\ enforcementIp(s, input) # None
    /\ LET where == At(enforcementIp(s, input), bngOf(s, input)) IN
        /\ routes' = Routes(action, where)
        /\ profile' = [profile EXCEPT ![s] = Profile(action, @)]
        /\ bngState' = [bngState EXCEPT ![stateKey(s, input)] = action]
        /\ policy' = [policy EXCEPT ![s] = [action |-> action, bng |-> where.bng]]
        /\ applied' = [applied EXCEPT ![s] = online[s] # None /\ online[s] = where]
        /\ stray' = IF Mistaken(s, input) THEN stray \cup {where} ELSE stray \ {where}
    /\ UNCHANGED <<world, session, leases, devices>>

\* A restart loses every table; the network keeps what it was told.
Restart ==
    /\ "restart" \in Faults
    /\ session' = Empty(None)
    /\ leases' = [m \in Mac |-> None]
    /\ devices' = Empty(<<>>)
    /\ policy' = Empty(None)
    /\ bngState' = [k \in Bng \X Subscriber |-> None]
    /\ applied' = Empty(FALSE)
    /\ UNCHANGED <<world, requests, network, stray>>

Next ==
    \/ \E s \in Subscriber : Connect(s) \/ Disconnect(s)
    \/ \E s \in Subscriber, m \in Mac : UpsertLease(s, m)
    \/ \E r \in reports : upsertSession(r) \/ stopSession(r) \/ LoseReport(r)
    \/ \E s \in Named, a \in Action, input \in Request : Apply(s, a, input)
    \/ Restart

Spec == Init /\ [][Next]_vars

----------------------------------------------------------------------------
TypeOK ==
    /\ \A s \in Subscriber : online[s] # None => online[s] \in Where
    /\ moves \in 0..MaxMoves /\ requests \in 0..MaxRequests /\ reports \subseteq Report
    /\ \A s \in Subscriber : session[s] # None => session[s] \in Where
    /\ \A m \in Mac : leases[m] # None => leases[m] \in Lease
    /\ \A s \in Subscriber : devices[s] \in Seq(Lease) /\ Len(devices[s]) <= Cardinality(Mac)
    /\ \A s \in Subscriber : policy[s] # None => policy[s].action \in Action
    /\ \A k \in Bng \X Subscriber : bngState[k] # None => bngState[k] \in Action
    /\ \A r \in routes : r.ip \in AccessIp \cup LanIp /\ r.bng \in Bng
    /\ applied \in [Subscriber -> BOOLEAN]
    /\ \A p \in stray : p.ip \in AccessIp \cup LanIp /\ p.bng \in Bng

Blackholed(s) == online[s] # None /\ online[s] \in routes

\* A policy that was enforced where its subscriber is connected stays in force as
\* long as that connection lasts: a block blackholes it and an allow does not,
\* whatever the policies, moves and leases of the others, however late, lost or
\* out of order the reports of RADIUS are - unless some request was enforced at
\* that place that was wrong of its own subscriber: the session table was behind,
\* or, without a session, the request carried an address its subscriber does not
\* have (Pause Internet, README of the adapter; subscriber-resolver.js:33).
AppliedIsInForce ==
    \A s \in Subscriber : applied[s] /\ online[s] \notin stray =>
        /\ policy[s].action = "BLOCK" => Blackholed(s)
        /\ policy[s].action = "ALLOW" => ~Blackholed(s)

\* The MAC table and the subscribers' device lists agree: the subscriber a MAC
\* resolves to has that very lease (dhcp.service.js, policies by device).
LeaseIsFiled ==
    \A m \in Mac : leases[m] # None =>
        \E k \in DOMAIN devices[leases[m].subscriber] :
            devices[leases[m].subscriber][k] = leases[m]

\* The BNG state of the BNG a policy was resolved to is that policy's.
StateIsPolicy ==
    \A s \in Subscriber : policy[s] # None =>
        bngState[policy[s].bng, s] = policy[s].action

----------------------------------------------------------------------------
\* What the documentation says and the code does not do.

\* README of the adapter: THROTTLE assigns a QoS profile; the BNG state says
\* that the subscriber is not blackholed.
ThrottleIsNotBlock ==
    \A s \in Subscriber : applied[s] /\ policy[s].action = "THROTTLE" => ~Blackholed(s)

\* README of the adapter: the enforcement target is the subscriber's assigned
\* address; nobody who was never blocked is blackholed where every request was
\* enforced at its own subscriber's place.
OnlyBlockedBlackholed ==
    \A s \in Subscriber : policy[s] = None /\ online[s] \notin stray => ~Blackholed(s)
=============================================================================
