--------------------------- MODULE IspPolicyProofs ---------------------------
(***************************************************************************)
(* Proofs about IspPolicy, for every number of subscribers, addresses,     *)
(* BNGs and connections.                                                   *)
(***************************************************************************)
EXTENDS IspPolicy, TLAPS

----------------------------------------------------------------------------
\* The inductive invariants.

\* The tables are functions on their keys.
Tables ==
    /\ online \in [Subscriber -> Where \cup {None}]
    /\ reports \subseteq Report
    /\ session \in [Subscriber -> Where \cup {None}]
    /\ leases \in [Mac -> Lease \cup {None}]
    /\ \A m \in Mac : leases[m] # None => leases[m].mac = m
    /\ devices \in [Subscriber -> Seq(Lease)]
    /\ DOMAIN policy = Subscriber
    /\ \A s \in Subscriber : policy[s] # None => policy[s].bng \in Bng
    /\ DOMAIN bngState = Bng \X Subscriber
    /\ applied \in [Subscriber -> BOOLEAN]

\* No two subscribers are connected with one address.
AddressesUnique ==
    \A s, t \in Subscriber :
        s # t /\ online[s] # None /\ online[t] # None => online[s].ip # online[t].ip

\* A policy applied under the present connection is in force there, unless a
\* mistaken request was enforced at that place since.
InForce ==
    \A s \in Subscriber : applied[s] =>
        /\ online[s] # None
        /\ online[s] \notin stray =>
            /\ policy[s].action = "BLOCK" => online[s] \in routes
            /\ policy[s].action = "ALLOW" => online[s] \notin routes

Enforced == Tables /\ AddressesUnique /\ InForce

----------------------------------------------------------------------------
\* The place a policy is enforced.

\* Where a request for a subscriber resolves to.
Resolved(s, input) == At(enforcementIp(s, input), bngOf(s, input))

\* A subscriber that a request names is one.
LEMMA NamedSubscriber ==
    ASSUME Tables, NEW s \in Named
    PROVE  s \in Subscriber
BY DEF Named, Tables, Lease

\* A request resolves to a BNG.
LEMMA ResolvedBng ==
    ASSUME Tables, NEW s \in Subscriber, NEW input \in Request
    PROVE  bngOf(s, input) \in Bng
BY IspAssumption DEF bngOf, Tables, Where, Request, IspAssumption

\* A request that is not mistaken and resolves to the place of a connected
\* subscriber is a request for that subscriber: what it resolves to is true,
\* addresses are unique, and an address inside a home is no access address.
LEMMA ResolvedIsOwn ==
    ASSUME Tables, AddressesUnique,
           NEW s \in Subscriber, NEW t \in Subscriber, NEW input \in Request,
           ~Mistaken(s, input), enforcementIp(s, input) # None,
           online[t] # None, Resolved(s, input) = online[t]
    PROVE  s = t
<1>1. Resolved(s, input).ip = enforcementIp(s, input) /\ enforcementIp(s, input) = online[t].ip
  BY DEF Resolved, At
<1>2. online[t].ip \in AccessIp
  BY DEF Tables, Where
<1>3. CASE session[s] # None
  BY <1>1, <1>3 DEF enforcementIp, Mistaken, AddressesUnique
<1>4. CASE session[s] = None /\ input.assignedIp # None
  BY <1>1, <1>4 DEF enforcementIp, Mistaken, AddressesUnique
<1>5. CASE session[s] = None /\ input.assignedIp = None
  <2>1. devices[s] # << >> /\ enforcementIp(s, input) = devices[s][1].ip
    BY <1>5 DEF enforcementIp
  <2>2. devices[s][1] \in Lease
    BY <2>1 DEF Tables
  <2>3. enforcementIp(s, input) \in LanIp
    BY <2>1, <2>2 DEF Lease
  <2>4. QED BY <1>1, <1>2, <2>3, IspAssumption DEF IspAssumption
<1>6. QED BY <1>3, <1>4, <1>5

\* Filing a lease gives a list of leases that holds it.
LEMMA FiledLease ==
    ASSUME NEW list \in Seq(Lease), NEW lease \in Lease
    PROVE  /\ Filed(list, lease) \in Seq(Lease)
           /\ \E k \in DOMAIN Filed(list, lease) : Filed(list, lease)[k] = lease
<1> DEFINE known == {k \in DOMAIN list : list[k].mac = lease.mac}
<1>1. CASE known = {}
  <2>1. Filed(list, lease) = Append(list, lease)
    BY <1>1 DEF Filed
  <2>2. Append(list, lease) \in Seq(Lease)
    OBVIOUS
  <2>3. Len(list) + 1 \in DOMAIN Append(list, lease)
    OBVIOUS
  <2>4. Append(list, lease)[Len(list) + 1] = lease
    OBVIOUS
  <2>5. QED BY <2>1, <2>2, <2>3, <2>4
<1>2. CASE known # {}
  <2>1. Filed(list, lease) = [k \in 1..Len(list) |-> IF k \in known THEN lease ELSE list[k]]
    BY <1>2 DEF Filed
  <2>2. Filed(list, lease) \in Seq(Lease)
    BY <2>1
  <2>3. PICK k \in known : TRUE
    BY <1>2
  <2>4. k \in DOMAIN Filed(list, lease) /\ Filed(list, lease)[k] = lease
    BY <2>1, <2>3
  <2>5. QED BY <2>2, <2>4
<1>3. QED BY <1>1, <1>2

\* Filing a lease keeps the leases of other devices.
LEMMA FiledKeeps ==
    ASSUME NEW list \in Seq(Lease), NEW lease \in Lease, NEW other \in Lease,
           other.mac # lease.mac, \E k \in DOMAIN list : list[k] = other
    PROVE  \E k \in DOMAIN Filed(list, lease) : Filed(list, lease)[k] = other
<1> DEFINE known == {k \in DOMAIN list : list[k].mac = lease.mac}
<1>1. PICK k \in DOMAIN list : list[k] = other
  OBVIOUS
<1>2. k \notin known
  BY <1>1
<1>3. CASE known = {}
  <2>1. Filed(list, lease) = Append(list, lease)
    BY <1>3 DEF Filed
  <2>2. k \in DOMAIN Append(list, lease) /\ Append(list, lease)[k] = list[k]
    OBVIOUS
  <2>3. QED BY <1>1, <2>1, <2>2
<1>4. CASE known # {}
  <2>1. Filed(list, lease) = [j \in DOMAIN list |-> IF j \in known THEN lease ELSE list[j]]
    BY <1>4 DEF Filed
  <2>2. QED BY <1>1, <1>2, <2>1
<1>5. QED BY <1>3, <1>4

----------------------------------------------------------------------------
\* Type correctness of the tables.

LEMMA InitTables == Init => Tables
BY IspAssumption DEF Init, Tables, Empty

LEMMA NextTables == Tables /\ [Next]_vars => Tables'
<1> SUFFICES ASSUME Tables, [Next]_vars PROVE Tables'
  OBVIOUS
<1>1. ASSUME NEW s \in Subscriber, NEW w \in Where \cup {None}, Moves(s, w) PROVE Tables'
  <2>1. [subscriber |-> s, at |-> w] \in Report
    BY DEF Report
  <2>2. QED BY <1>1, <2>1 DEF Moves, Tables, tables, network
<1>2. ASSUME NEW r \in reports, upsertSession(r) \/ stopSession(r) \/ LoseReport(r) PROVE Tables'
  <2>1. r.subscriber \in Subscriber /\ r.at \in Where \cup {None}
    BY DEF Tables, Report
  <2>2. reports' \subseteq Report
    BY <1>2 DEF upsertSession, stopSession, LoseReport, Reported, Tables
  <2>3. session' \in [Subscriber -> Where \cup {None}]
    <3>1. CASE upsertSession(r)
      <4>1. PICK bng \in {r.at.bng, DefaultBng} :
              session' = [session EXCEPT ![r.subscriber] = At(r.at.ip, bng)]
        BY <3>1 DEF upsertSession
      <4>2. At(r.at.ip, bng) \in Where
        BY <2>1, <3>1, <4>1, IspAssumption DEF upsertSession, At, Where, IspAssumption
      <4>3. QED BY <4>1, <4>2 DEF Tables
    <3>2. CASE stopSession(r) \/ LoseReport(r)
      BY <3>2 DEF stopSession, LoseReport, tables, Tables
    <3>3. QED BY <1>2, <3>1, <3>2
  <2>4. UNCHANGED <<online, leases, devices, policy, bngState, applied>>
    BY <1>2 DEF upsertSession, stopSession, LoseReport, Reported, tables, ghosts
  <2>5. QED BY <2>2, <2>3, <2>4 DEF Tables
<1>3. ASSUME NEW s \in Subscriber, NEW m \in Mac, UpsertLease(s, m) PROVE Tables'
  <2>1. PICK ip \in LanIp :
          LET lease == [mac |-> m, ip |-> ip, subscriber |-> s]
          IN  /\ leases' = [leases EXCEPT ![m] = lease]
              /\ devices' = [devices EXCEPT ![s] = Filed(@, lease)]
    BY <1>3 DEF UpsertLease
  <2> DEFINE lease == [mac |-> m, ip |-> ip, subscriber |-> s]
  <2>2. lease \in Lease
    BY DEF Lease
  <2>3. Filed(devices[s], lease) \in Seq(Lease)
    BY <2>2, FiledLease DEF Tables
  <2>4. leases' \in [Mac -> Lease \cup {None}]
    BY <2>1, <2>2 DEF Tables
  <2>5. devices' \in [Subscriber -> Seq(Lease)]
    BY <2>1, <2>3 DEF Tables
  <2>6. \A n \in Mac : leases'[n] # None => leases'[n].mac = n
    BY <2>1 DEF Tables
  <2>7. QED BY <1>3, <2>4, <2>5, <2>6 DEF UpsertLease, Tables, world, network, ghosts
<1>4. ASSUME NEW s \in Named, NEW a \in Action, NEW input \in Request, Apply(s, a, input)
      PROVE  Tables'
  <2>1. applied' \in [Subscriber -> BOOLEAN]
    BY <1>4 DEF Apply, Tables
  <2>2. s \in Subscriber /\ bngOf(s, input) \in Bng
    BY NamedSubscriber, ResolvedBng
  <2>3. \A t \in Subscriber : policy'[t] # None => policy'[t].bng \in Bng
    BY <1>4, <2>2 DEF Apply, At, Tables
  <2>4. QED BY <1>4, <2>1, <2>3 DEF Apply, Tables, world
<1>5. CASE Restart
  BY <1>5 DEF Restart, Tables, Empty, world, network
<1>6. CASE UNCHANGED vars
  BY <1>6 DEF vars, world, tables, network, ghosts, Tables
<1>7. QED BY <1>1, <1>2, <1>3, <1>4, <1>5, <1>6 DEF Next, Connect, Disconnect

----------------------------------------------------------------------------
\* The tables agree.

LEMMA NextAgree ==
    Tables /\ LeaseIsFiled /\ StateIsPolicy /\ [Next]_vars
        => LeaseIsFiled' /\ StateIsPolicy'
<1> SUFFICES ASSUME Tables, LeaseIsFiled, StateIsPolicy, [Next]_vars
             PROVE  LeaseIsFiled' /\ StateIsPolicy'
  OBVIOUS
<1>1. ASSUME leases' = leases, devices' = devices PROVE LeaseIsFiled'
  BY <1>1 DEF LeaseIsFiled
<1>2. ASSUME policy' = policy, bngState' = bngState PROVE StateIsPolicy'
  BY <1>2 DEF StateIsPolicy
<1>3. ASSUME NEW s \in Subscriber, Connect(s) \/ Disconnect(s)
      PROVE  LeaseIsFiled' /\ StateIsPolicy'
  BY <1>1, <1>2, <1>3 DEF Connect, Disconnect, Moves, tables
<1>9. ASSUME NEW r \in reports, upsertSession(r) \/ stopSession(r) \/ LoseReport(r)
      PROVE  LeaseIsFiled' /\ StateIsPolicy'
  BY <1>1, <1>2, <1>9 DEF upsertSession, stopSession, LoseReport, Reported, tables
<1>4. ASSUME NEW s \in Subscriber, NEW m \in Mac, UpsertLease(s, m)
      PROVE  LeaseIsFiled' /\ StateIsPolicy'
  <2>1. PICK ip \in LanIp :
          LET lease == [mac |-> m, ip |-> ip, subscriber |-> s]
          IN  /\ leases' = [leases EXCEPT ![m] = lease]
              /\ devices' = [devices EXCEPT ![s] = Filed(@, lease)]
    BY <1>4 DEF UpsertLease
  <2> DEFINE lease == [mac |-> m, ip |-> ip, subscriber |-> s]
  <2>2. lease \in Lease /\ lease.mac = m /\ lease.subscriber = s
    BY DEF Lease
  <2>3. devices[s] \in Seq(Lease) /\ devices'[s] = Filed(devices[s], lease)
    BY <2>1 DEF Tables
  <2>4. leases'[m] = lease
    BY <2>1 DEF Tables
  <2> HIDE DEF lease
  <2>5. \E k \in DOMAIN devices'[s] : devices'[s][k] = lease
    BY <2>2, <2>3, FiledLease
  <2>6. ASSUME NEW n \in Mac, n # m, leases[n] # None
        PROVE  \E k \in DOMAIN devices'[leases[n].subscriber] :
                  devices'[leases[n].subscriber][k] = leases[n]
    <3>1. leases[n] \in Lease /\ leases[n].subscriber \in Subscriber
      BY <2>6 DEF Tables, Lease
    <3>2. \E k \in DOMAIN devices[leases[n].subscriber] :
             devices[leases[n].subscriber][k] = leases[n]
      BY <2>6 DEF LeaseIsFiled
    <3>3. CASE leases[n].subscriber # s
      BY <2>1, <3>1, <3>2, <3>3 DEF Tables
    <3>4. CASE leases[n].subscriber = s
      <4>1. leases[n].mac # m
        BY <2>6 DEF Tables
      <4>2. QED BY <2>2, <2>3, <3>1, <3>2, <3>4, <4>1, FiledKeeps
    <3>5. QED BY <3>3, <3>4
  <2>7. \A n \in Mac : n # m => leases'[n] = leases[n]
    BY <2>1 DEF Tables
  <2>8. LeaseIsFiled'
    BY <2>2, <2>4, <2>5, <2>6, <2>7 DEF LeaseIsFiled
  <2>9. QED BY <1>2, <1>4, <2>8 DEF UpsertLease
<1>5. ASSUME NEW s \in Named, NEW a \in Action, NEW input \in Request, Apply(s, a, input)
      PROVE  LeaseIsFiled' /\ StateIsPolicy'
  <2>1. s \in Subscriber
    BY NamedSubscriber
  <2>2. bngOf(s, input) \in Bng
    BY <2>1, ResolvedBng
  <2>3. /\ policy'[s].bng = bngOf(s, input) /\ policy'[s].action = a
        /\ \A t \in Subscriber \ {s} : policy'[t] = policy[t]
    BY <1>5, <2>1 DEF Apply, At, Tables
  <2>4. bngState' = [bngState EXCEPT ![stateKey(s, input)] = a]
    BY <1>5 DEF Apply
  <2>5. ASSUME NEW t \in Subscriber, policy'[t] # None
        PROVE  bngState'[policy'[t].bng, t] = policy'[t].action
    <3> DEFINE key == <<policy'[t].bng, t>>
    <3>1. stateKey(s, input) = <<bngOf(s, input), s>> /\ stateKey(s, input) \in Bng \X Subscriber
      BY <2>1, <2>2 DEF stateKey
    <3>2. CASE t = s
      <4>1. key = stateKey(s, input)
        BY <2>3, <3>1, <3>2
      <4>2. bngState'[stateKey(s, input)] = a
        BY <2>4, <3>1 DEF Tables
      <4>3. QED BY <2>3, <3>2, <4>1, <4>2
    <3>3. CASE t # s
      <4>1. policy'[t] = policy[t]
        BY <2>3, <3>3
      <4>2. key \in Bng \X Subscriber /\ key # stateKey(s, input)
        BY <2>5, <3>1, <3>3, <4>1 DEF Tables
      <4>3. bngState'[key] = bngState[key]
        BY <2>4, <4>2 DEF Tables
      <4>4. bngState[policy[t].bng, t] = policy[t].action
        BY <2>5, <4>1 DEF StateIsPolicy
      <4>5. QED BY <4>1, <4>3, <4>4
    <3>4. QED BY <3>2, <3>3
  <2>6. StateIsPolicy'
    BY <2>5 DEF StateIsPolicy
  <2>7. QED BY <1>1, <1>5, <2>6 DEF Apply
<1>6. CASE Restart
  BY <1>6 DEF Restart, Empty, LeaseIsFiled, StateIsPolicy
<1>7. CASE UNCHANGED vars
  BY <1>1, <1>2, <1>7 DEF vars, tables
<1>8. QED BY <1>3, <1>4, <1>5, <1>6, <1>7, <1>9 DEF Next

----------------------------------------------------------------------------
\* Policies are in force.

LEMMA InitForce == Init => Enforced
BY InitTables DEF Init, Enforced, AddressesUnique, InForce, Empty

LEMMA NextForce == Enforced /\ [Next]_vars => Enforced'
<1> SUFFICES ASSUME Enforced, [Next]_vars PROVE AddressesUnique' /\ InForce'
  BY NextTables DEF Enforced
<1> USE DEF Enforced
<1>1. ASSUME NEW s \in Subscriber, NEW w \in Where \cup {None}, Moves(s, w),
             w # None => \A t \in Subscriber \ {s} : online[t] # None => online[t].ip # w.ip
      PROVE  AddressesUnique' /\ InForce'
  <2>1. online'[s] = w /\ \A t \in Subscriber \ {s} : online'[t] = online[t]
    BY <1>1 DEF Moves, Tables
  <2>2. policy' = policy /\ routes' = routes /\ stray' = stray
    BY <1>1 DEF Moves, tables, network
  <2>3. ~applied'[s] /\ \A t \in Subscriber \ {s} : applied'[t] = applied[t]
    BY <1>1 DEF Moves, Tables
  <2>4. AddressesUnique'
    BY <1>1, <2>1 DEF AddressesUnique
  <2>5. InForce'
    BY <2>1, <2>2, <2>3 DEF InForce
  <2>6. QED BY <2>4, <2>5
<1>2. ASSUME NEW s \in Subscriber, Connect(s) \/ Disconnect(s)
      PROVE  AddressesUnique' /\ InForce'
  BY <1>1, <1>2 DEF Connect, Disconnect
<1>3. ASSUME UNCHANGED <<online, policy, routes, applied, stray>>
      PROVE  AddressesUnique' /\ InForce'
  BY <1>3 DEF AddressesUnique, InForce
<1>4. ASSUME NEW r \in reports, upsertSession(r) \/ stopSession(r) \/ LoseReport(r)
      PROVE  AddressesUnique' /\ InForce'
  BY <1>3, <1>4 DEF upsertSession, stopSession, LoseReport, Reported, tables, network, ghosts
<1>5. ASSUME NEW s \in Subscriber, NEW m \in Mac, UpsertLease(s, m)
      PROVE  AddressesUnique' /\ InForce'
  BY <1>3, <1>5 DEF UpsertLease, world, network, ghosts
<1>6. ASSUME NEW s \in Named, NEW a \in Action, NEW input \in Request, Apply(s, a, input)
      PROVE  AddressesUnique' /\ InForce'
  <2> DEFINE where == Resolved(s, input)
  <2>1. s \in Subscriber
    BY NamedSubscriber
  <2>2. /\ enforcementIp(s, input) # None
        /\ routes' = Routes(a, where)
        /\ online' = online
        /\ stray' = IF Mistaken(s, input) THEN stray \cup {where} ELSE stray \ {where}
    BY <1>6 DEF Apply, Resolved, world
  <2>3. /\ policy'[s].action = a
        /\ applied'[s] = (online[s] # None /\ online[s] = where)
    BY <1>6, <2>1 DEF Apply, Resolved, Tables
  <2>4. \A t \in Subscriber \ {s} : policy'[t] = policy[t] /\ applied'[t] = applied[t]
    BY <1>6, <2>1 DEF Apply, Tables
  <2>5. AddressesUnique'
    BY <2>2 DEF AddressesUnique
  <2>6. ASSUME NEW t \in Subscriber, applied'[t]
        PROVE  /\ online'[t] # None
               /\ online'[t] \notin stray' =>
                    /\ policy'[t].action = "BLOCK" => online'[t] \in routes'
                    /\ policy'[t].action = "ALLOW" => online'[t] \notin routes'
    <3>1. CASE t = s
      BY <2>2, <2>3, <2>6, <3>1 DEF Routes
    <3>2. CASE t # s
      <4>1. /\ online[t] # None
            /\ online[t] \notin stray =>
                /\ policy[t].action = "BLOCK" => online[t] \in routes
                /\ policy[t].action = "ALLOW" => online[t] \notin routes
        BY <2>2, <2>4, <2>6, <3>2 DEF InForce
      <4>2. CASE where = online[t]
        <5>1. Mistaken(s, input)
          BY <2>1, <2>2, <3>2, <4>1, <4>2, ResolvedIsOwn
        <5>2. QED BY <2>2, <4>1, <4>2, <5>1
      <4>3. CASE where # online[t]
        <5>1. online[t] \in routes' <=> online[t] \in routes
          BY <2>2, <4>3 DEF Routes, Action
        <5>2. online[t] \in stray' <=> online[t] \in stray
          BY <2>2, <4>3
        <5>3. QED BY <2>2, <2>4, <3>2, <4>1, <5>1, <5>2
      <4>4. QED BY <4>2, <4>3
    <3>3. QED BY <3>1, <3>2
  <2>7. QED BY <2>5, <2>6 DEF InForce
<1>7. CASE Restart
  BY <1>7 DEF Restart, Empty, world, network, AddressesUnique, InForce
<1>8. CASE UNCHANGED vars
  BY <1>3, <1>8 DEF vars, world, tables, network, ghosts
<1>9. QED BY <1>2, <1>4, <1>5, <1>6, <1>7, <1>8 DEF Next

----------------------------------------------------------------------------
\* The theorems.

LEMMA TablesHold == Spec => []Tables
<1>1. Init => Tables
  BY InitTables
<1>2. Tables /\ [Next]_vars => Tables'
  BY NextTables
<1>3. QED BY <1>1, <1>2, PTL DEF Spec

LEMMA TablesAgree == Spec => [](LeaseIsFiled /\ StateIsPolicy)
<1>1. Init => LeaseIsFiled /\ StateIsPolicy
  BY DEF Init, LeaseIsFiled, StateIsPolicy, Empty
<1>2. Tables /\ LeaseIsFiled /\ StateIsPolicy /\ [Next]_vars
        => LeaseIsFiled' /\ StateIsPolicy'
  BY NextAgree
<1>3. QED BY <1>1, <1>2, TablesHold, PTL DEF Spec

\* The lease a MAC address resolves to is in the device list of its subscriber
\* (dhcp.service.js, upsertLease).
THEOREM LeasesFiled == Spec => []LeaseIsFiled
BY TablesAgree, PTL

\* The state recorded for the BNG of a policy is that policy's (policy-engine.js
\* and bng-controller.js resolve the BNG in the same request).
THEOREM StatesFollowPolicies == Spec => []StateIsPolicy
BY TablesAgree, PTL

\* A block or an allow enforced where its subscriber is connected stays in force
\* there whatever happens to the others and to the reports of RADIUS, unless some
\* request was enforced at that place that was mistaken about its own subscriber
\* (bng-controller.js, subscriber-resolver.js).
THEOREM PoliciesInForce == Spec => []AppliedIsInForce
<1>1. Init => Enforced
  BY InitForce
<1>2. Enforced /\ [Next]_vars => Enforced'
  BY NextForce
<1>3. Enforced => AppliedIsInForce
  BY DEF Enforced, InForce, AppliedIsInForce, Blackholed
<1>4. QED BY <1>1, <1>2, <1>3, PTL DEF Spec
=============================================================================
