-------------------------- MODULE AgentCycleProofs --------------------------
(***************************************************************************)
(* Proofs about the agent's main loop, for every number of devices and     *)
(* addresses and every combination of failures: the stages that enforce    *)
(* (AgentCycle), the token the requests are signed with (TokenRotation),   *)
(* for every number of rotations, and the discovery of the router          *)
(* (Detection), for every network.  The three share no state; each has its *)
(* own invariant.                                                          *)
(***************************************************************************)
EXTENDS AgentCycle, TokenRotation, Detection, TLAPS

----------------------------------------------------------------------------
\* The stages that enforce: the inductive invariant.

\* Targets are resolved from the policy, one for each device.
TargetsResolved ==
    /\ \A t \in targets : /\ t.device \in Device /\ t.action \in Actions
                          /\ t.ip \in Addr \cup {None}
                          /\ t.ip6 = Address6[t.device]
    /\ \A t, u \in targets : t.device = u.device => t = u

\* The guard's address is the gateway's while nothing moved since it refreshed.
GuardCurrent == settled => detected = own

\* The filter ran when the targets were resolved, with the guard's address.
TargetsFiltered ==
    stage \in {"kill", "remember", "firewall"} => \A t \in targets : ~isProtectedIp(t.ip)

\* The firewall's rules of this cycle spare the gateway.
RulesSpareGateway ==
    stage \in {"qos", "end"} \/ CycleOk =>
        (settled => \A r \in rules : r.on # own)

\* What the killer remembers once it ran in this cycle.
KillerRemembers ==
    stage \in {"firewall", "qos", "end"} \/ CycleOk =>
        \A t \in targets : previous[t.device] = [action |-> t.action, ip |-> t.ip]

\* A device the killer believes blocked has no early connection at the address
\* the killer remembers.
RememberedIsClean ==
    \A x \in flows :
        Remembered(x.device) /\ previous[x.device].ip = x.at => ~x.early

\* Between the delete and the memory of it, a blocked target has no early
\* connection at its address.
KilledIsClean ==
    stage = "remember" =>
        \A t \in targets, x \in flows :
            t.action = "BLOCK" /\ t.ip # None /\ x.device = t.device /\ x.at = t.ip
                => ~x.early

FlowsClean == RememberedIsClean /\ KilledIsClean

IInv ==
    /\ TypeOK
    /\ TargetsResolved
    /\ GuardCurrent
    /\ TargetsFiltered
    /\ RulesSpareGateway
    /\ KillerRemembers

----------------------------------------------------------------------------
\* Lemmas about the operators.

\* A target that resolves from the policy is well formed.
LEMMA ResolvedTarget ==
    ASSUME TypeOK, NEW d \in Listed
    PROVE  LET t == resolvePolicyTarget(d) IN
           /\ t.device = d /\ t.device \in Device /\ t.action \in Actions
           /\ t.ip \in Addr \cup {None} /\ t.ip6 = Address6[t.device]
BY DEF TypeOK, Listed, resolvePolicyTarget

\* A rule that blocks a target names nothing but the target's addresses.
LEMMA BlockedAddresses ==
    ASSUME NEW t, NEW r \in BlockRules(t)
    PROVE  r.on \in {None, t.ip, t.ip6}
BY DEF BlockRules, Rule

\* The entry rememberStates leaves for the device of a target.
LEMMA RememberedTarget ==
    ASSUME TargetsResolved, rememberStates, NEW t \in targets
    PROVE  previous'[t.device] = [action |-> t.action, ip |-> t.ip]
<1> DEFINE own_ == {u \in targets : u.device = t.device}
<1>1. own_ = {t}
  BY DEF TargetsResolved
<1>2. (CHOOSE u \in own_ : TRUE) = t
  BY <1>1
<1>3. t.device \in Device
  BY DEF TargetsResolved
<1> HIDE DEF own_
<1>4. previous'[t.device] =
        IF own_ = {} THEN None
        ELSE LET u == CHOOSE u \in own_ : TRUE IN [action |-> u.action, ip |-> u.ip]
  BY <1>3 DEF rememberStates, own_
<1>5. QED BY <1>1, <1>2, <1>4

\* A device without a target is forgotten.
LEMMA ForgottenDevice ==
    ASSUME rememberStates, NEW d \in Device, \A t \in targets : t.device # d
    PROVE  previous'[d] = None
<1>1. {u \in targets : u.device = d} = {}
  OBVIOUS
<1>2. QED BY <1>1 DEF rememberStates

\* rememberStates leaves actions of the policy.
LEMMA RememberedActions ==
    ASSUME TargetsResolved, rememberStates, NEW d \in Device, previous'[d] # None
    PROVE  previous'[d].action \in Actions
<1>1. PICK t \in targets : t.device = d
  BY ForgottenDevice
<1>2. previous'[t.device] = [action |-> t.action, ip |-> t.ip]
  BY RememberedTarget
<1>3. QED BY <1>1, <1>2 DEF TargetsResolved

----------------------------------------------------------------------------
\* The invariant holds initially and is preserved.

LEMMA InitIInv == Init => IInv /\ FlowsClean
<1> SUFFICES ASSUME Init PROVE IInv /\ FlowsClean
  OBVIOUS
<1>1. moves \in 0..MaxMoves
  BY CycleAssumption DEF CycleAssumption, Init
<1>2. TypeOK
  BY <1>1 DEF Init, TypeOK, Stages
<1>3. QED
  BY <1>2 DEF Init, IInv, TargetsResolved, GuardCurrent, TargetsFiltered,
              RulesSpareGateway, KillerRemembers, FlowsClean, RememberedIsClean,
              KilledIsClean, CycleOk

LEMMA NextIInv == IInv /\ [Next]_vars => IInv'
<1> SUFFICES ASSUME IInv, [Next]_vars PROVE IInv'
  OBVIOUS
<1>t. TypeOK /\ TargetsResolved
  BY DEF IInv
<1> USE DEF GuardCurrent, TargetsFiltered, RulesSpareGateway, KillerRemembers,
            CycleOk, isProtectedIp
<1>1. ASSUME NEW d \in Device, Move(d) PROVE IInv'
  <2>1. TypeOK'
    BY <1>1, <1>t, CycleAssumption DEF Move, TypeOK, CycleAssumption, backend, cycle
  <2>2. QED
    BY <1>1, <2>1 DEF Move, IInv, TargetsResolved, backend, cycle
<1>2. ASSUME NEW d \in Device, Connect(d) PROVE IInv'
  <2> DEFINE x == Flow(d, addr[d], ~(Remembered(d) \/ KilledNow(d)))
  <2>1. TypeOK'
    <3>1. x.device \in Device
      BY DEF Flow
    <3>2. x.at \in Addr
      BY <1>2, <1>t DEF Connect, Flow, TypeOK
    <3>3. x.early \in BOOLEAN
      BY DEF Flow, Remembered, KilledNow
    <3>4. QED
      BY <1>2, <1>t, <3>1, <3>2, <3>3 DEF Connect, TypeOK, backend, lan, cycle
  <2>2. QED
    BY <1>2, <2>1 DEF Connect, IInv, TargetsResolved, backend, lan, cycle
<1>3. ASSUME NEW d \in Device, SetAction(d) PROVE IInv'
  <2>1. TypeOK'
    BY <1>3, <1>t DEF SetAction, TypeOK, lan, kernel, cycle
  <2>2. QED
    BY <1>3, <2>1 DEF SetAction, IInv, TargetsResolved, lan, kernel, cycle
<1>3a. ASSUME NEW d \in Device, Record(d) PROVE IInv'
  <2>1. TypeOK'
    BY <1>3a, <1>t DEF Record, TypeOK, lan, kernel, cycle
  <2>2. QED
    BY <1>3a, <2>1 DEF Record, IInv, TargetsResolved, lan, kernel, cycle
<1>4. CASE Readdress
  <2>1. TypeOK'
    BY <1>4, <1>t, CycleAssumption
       DEF Readdress, TypeOK, CycleAssumption, backend, kernel, cycle
  <2>2. QED
    BY <1>4, <2>1 DEF Readdress, IInv, TargetsResolved, backend, kernel, cycle
<1>5. CASE Refresh
  <2>1. TypeOK'
    BY <1>5, <1>t DEF Refresh, TypeOK, Stages, backend, lan, kernel, cycle
  <2>2. QED
    BY <1>5, <2>1 DEF Refresh, IInv, TargetsResolved, backend, lan, kernel, cycle
<1>6. CASE Discover
  <2>1. TypeOK'
    BY <1>6, <1>t DEF Discover, TypeOK, Stages, lan, kernel
  <2>2. QED
    BY <1>6, <2>1 DEF Discover, IInv, TargetsResolved, lan, kernel
<1>7. CASE GetPolicies
  <2>1. \A t \in targets' : \E d \in Listed : t = resolvePolicyTarget(d)
    BY <1>7 DEF GetPolicies, filterTargets
  <2>2. TargetsResolved'
    <3>1. ASSUME NEW t \in targets'
          PROVE  /\ t.device \in Device /\ t.action \in Actions
                 /\ t.ip \in Addr \cup {None} /\ t.ip6 = Address6[t.device]
      BY <1>t, <2>1, ResolvedTarget
    <3>2. ASSUME NEW t \in targets', NEW u \in targets', t.device = u.device
          PROVE  t = u
      <4>1. PICK d \in Listed : t = resolvePolicyTarget(d)
        BY <2>1
      <4>2. PICK e \in Listed : u = resolvePolicyTarget(e)
        BY <2>1
      <4>3. d = e
        BY <1>t, <3>2, <4>1, <4>2, ResolvedTarget
      <4>4. QED BY <4>1, <4>2, <4>3
    <3>3. QED BY <3>1, <3>2 DEF TargetsResolved
  <2>3. TypeOK'
    BY <1>7, <1>t, <2>2
       DEF GetPolicies, TypeOK, TargetsResolved, Stages, backend, lan, kernel
  <2>4. \A t \in targets' : ~isProtectedIp(t.ip)
    BY <1>7 DEF GetPolicies, filterTargets
  <2>5. QED
    BY <1>7, <2>2, <2>3, <2>4 DEF GetPolicies, IInv, lan, kernel
<1>8. CASE Kill
  <2>1. \A x \in flows' : x \in flows
    BY <1>8 DEF Kill
  <2>2. TypeOK'
    BY <1>8, <1>t, <2>1 DEF Kill, TypeOK, Stages, backend, lan, cycle
  <2>3. QED
    BY <1>8, <2>2 DEF Kill, IInv, TargetsResolved, backend, lan, cycle
<1>8a. CASE Remember
  <2>1. rememberStates
    BY <1>8a DEF Remember
  <2>2. \A d \in Device : previous'[d] # None => previous'[d].action \in Actions
    BY <1>t, <2>1, RememberedActions
  <2>3. TypeOK'
    BY <1>8a, <1>t, <2>2 DEF Remember, TypeOK, Stages, backend, lan, kernel, cycle
  <2>4. \A t \in targets : previous'[t.device] = [action |-> t.action, ip |-> t.ip]
    BY <1>t, <2>1, RememberedTarget
  <2>5. QED
    BY <1>8a, <2>3, <2>4 DEF Remember, IInv, TargetsResolved, backend, lan, kernel, cycle
<1>9. CASE Firewall
  <2>1. TypeOK'
    BY <1>9, <1>t DEF Firewall, TypeOK, Stages, backend, lan, cycle
  <2>2. settled => \A r \in rules' : r.on # own
    <3> SUFFICES ASSUME settled, NEW r \in rules' PROVE r.on # own
      OBVIOUS
    <3>1. PICK t \in targets : r \in BlockRules(t)
      BY <1>9 DEF Firewall
    <3>2. t.ip # own
      BY <1>9, CycleAssumption, <1>t
         DEF Firewall, IInv, CycleAssumption, TypeOK
    <3>3. t.ip6 # own /\ own # None
      BY <1>t, CycleAssumption DEF TargetsResolved, CycleAssumption, TypeOK
    <3>4. QED BY <3>1, <3>2, <3>3, BlockedAddresses
  <2>3. QED
    BY <1>9, <2>1, <2>2 DEF Firewall, IInv, TargetsResolved, backend, lan, cycle
<1>10. CASE Qos
  <2>1. Throttled \subseteq Addr
    BY <1>t DEF Throttled, TargetsResolved
  <2>2. TypeOK'
    BY <1>10, <1>t, <2>1 DEF Qos, TypeOK, Stages, backend, lan, cycle
  <2>3. QED
    BY <1>10, <2>2 DEF Qos, IInv, TargetsResolved, backend, lan, cycle
<1>11. CASE Finish
  <2>1. TypeOK'
    BY <1>11, <1>t DEF Finish, TypeOK, Stages, backend, lan, kernel, cycle
  <2>2. QED
    BY <1>11, <2>1 DEF Finish, IInv, TargetsResolved, backend, lan, kernel, cycle
<1>12. CASE Throw
  <2>1. Throttled \subseteq Addr
    BY <1>t DEF Throttled, TargetsResolved
  <2>2. shaped' \subseteq Addr
    BY <1>12, <1>t, <2>1 DEF Throw, TypeOK
  <2>3. TypeOK'
    BY <1>12, <1>t, <2>2 DEF Throw, TypeOK, Stages, backend, lan, cycle
  <2>4. QED
    BY <1>12, <2>3 DEF Throw, IInv, TargetsResolved, backend, lan, cycle
<1>13. CASE Restart
  <2>1. TypeOK'
    BY <1>13, <1>t DEF Restart, TypeOK, Stages, backend, lan, kernel
  <2>2. QED
    BY <1>13, <2>1 DEF Restart, IInv, TargetsResolved, backend, lan, kernel
<1>14. CASE UNCHANGED vars
  BY <1>14 DEF vars, IInv, TypeOK, TargetsResolved, backend, lan, kernel, cycle
<1>15. QED
  BY <1>1, <1>2, <1>3, <1>3a, <1>4, <1>5, <1>6, <1>7, <1>8, <1>8a, <1>9, <1>10,
     <1>11, <1>12, <1>13, <1>14
     DEF Next, Stage, Environment

\* The delete leaves no early connection at the address of a blocked target: a
\* target it does not run for was blocked at the same address before.
LEMMA KillCleans ==
    ASSUME "kill" \notin Faults, IInv, FlowsClean, Kill
    PROVE  FlowsClean'
<1> DEFINE killed == {t.ip : t \in {u \in filterTargets(targets) : shouldRun(u)}}
<1>1. /\ \A x \in flows' : x \in flows /\ x.at \notin killed
      /\ previous' = previous /\ targets' = targets
  BY DEF Kill, cycle
<1>2. RememberedIsClean'
  BY <1>1 DEF FlowsClean, RememberedIsClean, Remembered
<1>3. ASSUME NEW t \in targets, NEW x \in flows',
             t.action = "BLOCK", t.ip # None, x.device = t.device, x.at = t.ip
      PROVE  ~x.early
  <2>1. t \in filterTargets(targets)
    BY DEF filterTargets, Kill, IInv, TargetsFiltered
  <2>2. ~shouldRun(t)
    BY <1>1, <1>3, <2>1
  <2>3. Remembered(x.device) /\ previous[x.device].ip = x.at
    BY <1>3, <2>2 DEF shouldRun, Known, Remembered
  <2>4. QED BY <1>1, <2>3 DEF FlowsClean, RememberedIsClean
<1>4. QED BY <1>1, <1>2, <1>3 DEF FlowsClean, KilledIsClean

\* What the killer then remembers as blocked is what the delete cleaned.
LEMMA RememberCleans ==
    ASSUME IInv, FlowsClean, Remember
    PROVE  FlowsClean'
<1>1. /\ flows' = flows /\ stage' = "firewall" /\ rememberStates
      /\ TargetsResolved /\ stage = "remember"
  BY DEF Remember, kernel, IInv
<1>2. ASSUME NEW x \in flows, Remembered(x.device)', previous'[x.device].ip = x.at
      PROVE  ~x.early
  <2>1. x.device \in Device /\ x.at \in Addr
    BY DEF IInv, TypeOK
  <2>2. PICK t \in targets : t.device = x.device
    BY <1>1, <1>2, <2>1, ForgottenDevice DEF Remembered
  <2>3. previous'[t.device] = [action |-> t.action, ip |-> t.ip]
    BY <1>1, RememberedTarget
  <2>4. t.action = "BLOCK" /\ t.ip = x.at /\ t.ip # None
    BY <1>2, <2>1, <2>2, <2>3, CycleAssumption DEF Remembered, CycleAssumption
  <2>5. QED BY <1>1, <2>2, <2>4 DEF FlowsClean, KilledIsClean
<1>3. QED BY <1>1, <1>2 DEF FlowsClean, RememberedIsClean, KilledIsClean

\* A connection opened now is early only if a kill of it is still to come.
LEMMA ConnectKeepsClean ==
    ASSUME IInv, FlowsClean, NEW d \in Device, Connect(d)
    PROVE  FlowsClean'
<1> DEFINE new == Flow(d, addr[d], ~(Remembered(d) \/ KilledNow(d)))
<1>1. /\ \A x \in flows' : x \in flows \/ x = new
      /\ previous' = previous /\ targets' = targets /\ stage' = stage
  BY DEF Connect, cycle
<1>2. new.device = d /\ (new.early => ~Remembered(d) /\ ~KilledNow(d))
  BY DEF Flow
<1> HIDE DEF new
<1>3. ASSUME NEW x \in flows', Remembered(x.device)', previous'[x.device].ip = x.at
      PROVE  ~x.early
  <2>1. Remembered(x.device)
    BY <1>1, <1>3 DEF Remembered
  <2>2. CASE x \in flows
    BY <1>1, <1>3, <2>1, <2>2 DEF FlowsClean, RememberedIsClean
  <2>3. CASE x = new
    BY <1>2, <2>1, <2>3
  <2>4. QED BY <1>1, <2>2, <2>3
<1>4. ASSUME stage = "remember", NEW t \in targets, NEW x \in flows',
             t.action = "BLOCK", t.ip # None, x.device = t.device, x.at = t.ip
      PROVE  ~x.early
  <2>1. CASE x \in flows
    BY <1>4, <2>1 DEF FlowsClean, KilledIsClean
  <2>2. CASE x = new
    BY <1>2, <1>4, <2>2 DEF KilledNow
  <2>3. QED BY <1>1, <2>1, <2>2
<1>5. QED BY <1>1, <1>3, <1>4 DEF FlowsClean, RememberedIsClean, KilledIsClean

LEMMA NextFlowsClean ==
    ASSUME "kill" \notin Faults
    PROVE  IInv /\ FlowsClean /\ [Next]_vars => FlowsClean'
<1> SUFFICES ASSUME IInv, FlowsClean, [Next]_vars PROVE FlowsClean'
  OBVIOUS
<1>1. CASE Kill
  BY <1>1, KillCleans
<1>2. CASE Remember
  BY <1>2, RememberCleans
<1>3. ASSUME NEW d \in Device, Connect(d) PROVE FlowsClean'
  BY <1>3, ConnectKeepsClean
<1> USE DEF FlowsClean, RememberedIsClean, KilledIsClean, Remembered
<1>4. ASSUME NEW d \in Device, Move(d) PROVE FlowsClean'
  BY <1>4 DEF Move, cycle
<1>5. CASE Restart
  BY <1>5 DEF Restart, kernel, IInv, TypeOK
<1>6. ASSUME flows' = flows, previous' = previous,
             stage' # "remember" \/ (stage' = stage /\ targets' = targets)
      PROVE  FlowsClean'
  BY <1>6
<1>7. ASSUME NEW d \in Device, SetAction(d) \/ Record(d) PROVE FlowsClean'
  BY <1>6, <1>7 DEF SetAction, Record, kernel, cycle
<1>8. CASE Readdress \/ UNCHANGED vars
  BY <1>6, <1>8 DEF Readdress, vars, kernel, cycle
<1>9. CASE Refresh \/ Discover \/ GetPolicies \/ Firewall \/ Qos \/ Finish \/ Throw
  BY <1>6, <1>9 DEF Refresh, Discover, GetPolicies, Firewall, Qos, Finish, Throw, kernel
<1>10. QED
  BY <1>1, <1>2, <1>3, <1>4, <1>5, <1>7, <1>8, <1>9 DEF Next, Stage, Environment

----------------------------------------------------------------------------
LEMMA InvariantHolds == Spec => []IInv
BY InitIInv, NextIInv, PTL DEF Spec

\* Every variable of the cycle keeps its type, whichever stages fail.
THEOREM CycleTypeCorrect == Spec => []TypeOK
<1>1. IInv => TypeOK
  BY DEF IInv
<1>2. QED BY <1>1, InvariantHolds, PTL

\* At the end of a cycle that detected the gateway's address, and while it has
\* not moved since, no drop rule names it: the filter in syncOnce stands between
\* every source of a target and every enforcer (management-guard.js).
THEOREM GatewaySpared == Spec => []GatewayNeverDropped
<1>1. IInv => GatewayNeverDropped
  BY DEF IInv, RulesSpareGateway, GatewayNeverDropped
<1>2. QED BY <1>1, InvariantHolds, PTL

\* However addresses move, stages throw and the agent restarts, also between the
\* delete and the memory of it, a connection that was there when the cycle of a
\* block deleted them is gone at the end of it, provided conntrack deletes what
\* it is told to (connection-killer.js).
THEOREM EarlyFlowsKilled ==
    ASSUME "kill" \notin Faults
    PROVE  Spec => []NoEarlyFlowSurvives
<1>1. Init => FlowsClean
  BY InitIInv
<1>2. IInv /\ FlowsClean /\ [Next]_vars => FlowsClean'
  BY NextFlowsClean
<1>3. IInv /\ FlowsClean => NoEarlyFlowSurvives
  <2> SUFFICES ASSUME IInv, FlowsClean, CycleOk,
                      NEW t \in targets, NEW x \in flows,
                      t.action = "BLOCK", t.ip # None,
                      x.device = t.device, x.at = t.ip
               PROVE  ~x.early
    BY DEF NoEarlyFlowSurvives
  <2>1. previous[t.device] = [action |-> t.action, ip |-> t.ip]
    BY DEF IInv, KillerRemembers
  <2>2. Remembered(x.device)
    <3>1. t.action \in AllActions /\ t.ip \in Addr \cup {None}
      BY CycleAssumption DEF CycleAssumption, IInv, TargetsResolved
    <3>2. previous[t.device] # None
      BY <2>1, <3>1, CycleAssumption DEF CycleAssumption
    <3>3. QED BY <2>1, <3>2 DEF Remembered
  <2>3. QED BY <2>1, <2>2 DEF FlowsClean, RememberedIsClean
<1>4. QED BY <1>1, <1>2, <1>3, InvariantHolds, PTL DEF Spec

----------------------------------------------------------------------------
\* Whom the drop rules of a cycle hit.

\* The neighbour table has one device at an address, so no two are seen at one,
\* however old its entries are.
SeenDistinct == \A d, e \in Device : seen[d] # None /\ seen[d] = seen[e] => d = e

\* A target whose device was seen under its MAC is where it was seen.
TargetsSeen ==
    stage \in {"kill", "remember", "firewall", "qos", "end"} \/ CycleOk =>
        \A t \in targets : t.device \in macs /\ seen[t.device] # None => t.ip = seen[t.device]

\* The firewall's rules are those of the blocked targets, and no others.
RulesAreBlocks ==
    stage \in {"qos", "end"} \/ CycleOk =>
        \A r \in rules : \E t \in targets : t.action = "BLOCK" /\ r \in BlockRules(t)

WhoIsHit == SeenDistinct /\ TargetsSeen /\ RulesAreBlocks

LEMMA InitWhoIsHit == Init => WhoIsHit
BY DEF Init, WhoIsHit, SeenDistinct, TargetsSeen, RulesAreBlocks, CycleOk

\* mergeByMac sees two devices nowhere at one address.
LEMMA DiscoverKeepsDistinct ==
    ASSUME IInv, Discover
    PROVE  SeenDistinct'
<1>1. CASE seen' = [d \in Device |-> None]
  BY <1>1 DEF SeenDistinct
<1>2. CASE /\ \A d \in Device : seen'[d] \in mergeByMac(d, neigh')
  <2>1. ASSUME NEW d \in Device, seen'[d] # None PROVE neigh'[seen'[d]] = d
    BY <1>2, <2>1 DEF mergeByMac
  <2>2. QED BY <2>1 DEF SeenDistinct
<1>3. QED BY <1>1, <1>2 DEF Discover

\* Who has a MAC address never changes.
LEMMA SameMacs == [Next]_vars => macs' = macs
BY DEF Next, Stage, Environment, Move, Connect, SetAction, Record, Readdress, Refresh,
       Discover, GetPolicies, Kill, Remember, Firewall, Qos, Finish, Throw, Restart,
       vars, backend

LEMMA NextWhoIsHit == IInv /\ WhoIsHit /\ [Next]_vars => WhoIsHit'
<1> SUFFICES ASSUME IInv, WhoIsHit, [Next]_vars PROVE WhoIsHit'
  OBVIOUS
<1>m. macs' = macs
  BY SameMacs
<1> USE <1>m DEF WhoIsHit, SeenDistinct, TargetsSeen, RulesAreBlocks, CycleOk, BlockRules
<1>1. ASSUME NEW d \in Device, Move(d) \/ Connect(d) \/ SetAction(d) \/ Record(d)
      PROVE  WhoIsHit'
  BY <1>1 DEF Move, Connect, SetAction, Record, lan, kernel, cycle
<1>2. CASE Readdress \/ Refresh
  BY <1>2 DEF Readdress, Refresh, kernel, cycle
<1>3. CASE Discover
  BY <1>3, DiscoverKeepsDistinct DEF Discover, kernel
<1>4. CASE GetPolicies
  <2>1. ASSUME NEW t \in targets', t.device \in macs, seen[t.device] # None
        PROVE  t.ip = seen[t.device]
    <3>1. PICK d \in Listed : t = resolvePolicyTarget(d)
      BY <1>4 DEF GetPolicies, filterTargets
    <3>2. QED BY <2>1, <3>1 DEF resolvePolicyTarget
  <2>2. QED BY <1>4, <2>1 DEF GetPolicies, kernel
<1>5. CASE Kill \/ Remember
  BY <1>5 DEF Kill, Remember, kernel, cycle
<1>6. CASE Firewall
  <2>1. \A r \in rules' : \E t \in targets : t.action = "BLOCK" /\ r \in BlockRules(t)
    BY <1>6 DEF Firewall
  <2>2. QED BY <1>6, <2>1 DEF Firewall, cycle
<1>7. CASE Qos \/ Finish \/ Throw
  BY <1>7 DEF Qos, Finish, Throw, kernel, cycle
<1>8. CASE Restart
  BY <1>8 DEF Restart, kernel
<1>9. CASE UNCHANGED vars
  BY <1>9 DEF vars, kernel, cycle
<1>10. QED
  BY <1>1, <1>2, <1>3, <1>4, <1>5, <1>6, <1>7, <1>8, <1>9 DEF Next, Stage, Environment

\* A rule that drops an allowed device is there for its address, and the device
\* it is meant for is recorded at that address without having been seen there.
LEMMA HitByUnseenOnly ==
    ASSUME IInv, WhoIsHit, CycleOk, NEW t \in targets, t.action = "ALLOW",
           addr[t.device] # None, seen[t.device] = addr[t.device], Dropped(t.device)
    PROVE  \E u \in targets : /\ u.device # t.device /\ u.ip = addr[t.device]
                              /\ seen[u.device] = None \/ u.device \notin macs
<1>1. TypeOK /\ TargetsResolved /\ t.device \in Device
  BY DEF IInv, TargetsResolved
<1>2. addr[t.device] \in Addr
  BY <1>1 DEF TypeOK
<1>3. PICK r \in rules : \/ r.kind = "mac" /\ r.device = t.device
                         \/ r.kind = "ip" /\ r.on = addr[t.device]
  BY DEF Dropped
<1>4. PICK u \in targets : u.action = "BLOCK" /\ r \in BlockRules(u)
  BY DEF WhoIsHit, RulesAreBlocks
<1>5. u.device # t.device
  BY <1>1, <1>4 DEF TargetsResolved
<1>6. r.device = u.device
  BY <1>4 DEF BlockRules, Rule
<1>7. r.on = addr[t.device]
  BY <1>3, <1>5, <1>6
<1>8. u.ip = addr[t.device]
  <2>1. u.ip6 # addr[t.device]
    BY <1>1, <1>2, CycleAssumption DEF TargetsResolved, CycleAssumption
  <2>2. QED BY <1>2, <1>4, <1>7, <2>1, CycleAssumption, BlockedAddresses DEF CycleAssumption
<1>9. seen[u.device] = None \/ u.device \notin macs
  <2> SUFFICES ASSUME seen[u.device] # None, u.device \in macs PROVE FALSE
    OBVIOUS
  <2>1. u.device \in Device /\ u.ip = seen[u.device]
    BY <1>1 DEF TargetsResolved, WhoIsHit, TargetsSeen
  <2>2. QED BY <1>1, <1>5, <1>8, <2>1 DEF WhoIsHit, SeenDistinct
<1>10. QED BY <1>5, <1>8, <1>9

\* At the end of a cycle an allowed device that was seen where it is now is
\* dropped only where another one is recorded at its address that was not seen,
\* or has no MAC address to be seen by (mergeByMac and resolvePolicyTarget of
\* device-discovery.js, the order of the stages in main.js).
THEOREM AllowedSpared == Spec => []NoCollateralOfSeen
<1>1. IInv /\ WhoIsHit => NoCollateralOfSeen
  BY HitByUnseenOnly DEF NoCollateralOfSeen
<1>2. QED BY <1>1, InitWhoIsHit, NextWhoIsHit, InvariantHolds, PTL DEF Spec

----------------------------------------------------------------------------
\* The gateway token: the inductive invariant.

\* The grace period spans the switch: from the moment the agent holds the new
\* token until .env does, the backend still accepts the one .env had.
GraceSpansSwitch ==
    tokenStage \in {"switched", "truncated"} => memory = current /\ previousToken # 0

\* An agent that has an answer since the last rotation holds the last token.
HeardIsCurrent == heard /\ tokenStage = "idle" => memory = current

\* Where the file is while no write of it was lost.
FileFollows ==
    ~lost =>
        /\ tokenStage = "idle" => file = memory /\ memory \in AcceptedTokens
        /\ tokenStage = "switched" => file = previousToken
        /\ tokenStage = "down" => file \in AcceptedTokens

TokenInv == TokenTypeOK /\ GraceSpansSwitch /\ HeardIsCurrent /\ FileFollows

----------------------------------------------------------------------------
\* The initial state satisfies it.
LEMMA TokenInvInit == TokenInit => TokenInv
<1> SUFFICES ASSUME TokenInit PROVE TokenInv
  OBVIOUS
<1>1. 1 \in Token /\ 0 \in 0..MaxRotations
  BY RotationAssumption DEF RotationAssumption, Token
<1>2. TokenTypeOK
  BY <1>1 DEF TokenInit, TokenTypeOK
<1>3. QED
  BY <1>2 DEF TokenInit, TokenInv, AcceptedTokens, GraceSpansSwitch, HeardIsCurrent, FileFollows

\* Type correctness alone is inductive: no step takes a variable out of its
\* type, with a token in the environment or without.
LEMMA TokenTypeStep == TokenTypeOK /\ [TokenNext]_tokenVars => TokenTypeOK'
<1> SUFFICES ASSUME TokenTypeOK, [TokenNext]_tokenVars PROVE TokenTypeOK'
  OBVIOUS
<1> USE RotationAssumption DEF RotationAssumption, TokenTypeOK, Token
<1>1. CASE Rotate
  <2>1. current' \in Token /\ previousToken' \in 0..MaxRotations
    BY <1>1 DEF Rotate
  <2>2. QED BY <1>1, <2>1 DEF Rotate
<1>2. CASE GraceEnds
  BY <1>2 DEF GraceEnds
<1>3. CASE PollToken
  BY <1>3 DEF PollToken, tokens
<1>4. CASE PollTokenFails
  BY <1>4 DEF PollTokenFails, tokenVars, tokens
<1>5. CASE Truncate
  BY <1>5 DEF Truncate, tokens
<1>6. CASE Write
  BY <1>6 DEF Write, tokens
<1>7. CASE PersistFails
  BY <1>7 DEF PersistFails, tokens
<1>8. CASE Crash
  BY <1>8 DEF Crash, tokens
<1>9. CASE Start
  <2>1. loadedToken \in {0} \cup Token
    BY DEF loadedToken
  <2>2. QED BY <1>9, <2>1 DEF Start, tokens
<1>10. CASE StartFails
  BY <1>10 DEF StartFails, tokenVars, tokens
<1>11. CASE UNCHANGED tokenVars
  BY <1>11 DEF tokenVars, tokens
<1>12. QED
  BY <1>1, <1>2, <1>3, <1>4, <1>5, <1>6, <1>7, <1>8, <1>9, <1>10, <1>11 DEF TokenNext

\* Every step preserves the rest, provided a restart reads .env.
LEMMA TokenInvStep ==
    ASSUME ~Pinned
    PROVE  TokenInv /\ [TokenNext]_tokenVars => TokenInv'
<1> SUFFICES ASSUME TokenInv, [TokenNext]_tokenVars PROVE TokenInv'
  OBVIOUS
<1>t. TokenTypeOK /\ TokenTypeOK'
  BY TokenTypeStep DEF TokenInv
<1> USE DEF GraceSpansSwitch, HeardIsCurrent, FileFollows, AcceptedTokens
<1>1. CASE Rotate
  \* A rotation waits for the grace period, and the agent at rest holds the
  \* token that becomes the previous one.
  <2>1. tokenStage \notin {"switched", "truncated"}
    BY <1>1 DEF TokenInv, Rotate, Idle
  <2>2. previousToken' = current /\ previousToken' # 0 /\ ~heard'
    BY <1>1, <1>t DEF Rotate, TokenTypeOK, Token
  <2>3. tokenStage = "idle" /\ ~lost => memory = current
    BY <1>1, <1>t DEF TokenInv, Rotate, Idle
  <2>4. tokenStage = "down" /\ ~lost => file = current
    BY <1>1, <1>t DEF TokenInv, Rotate, Idle
  <2>5. QED
    BY <1>1, <1>t, <2>1, <2>2, <2>3, <2>4 DEF TokenInv, Rotate
<1>2. CASE GraceEnds
  BY <1>2, <1>t DEF TokenInv, GraceEnds, Idle, TokenTypeOK, Token
<1>3. CASE PollToken
  <2>1. CASE memory = current
    BY <1>3, <1>t, <2>1 DEF TokenInv, PollToken, tokens
  <2>2. CASE memory # current
    <3>1. memory = previousToken /\ previousToken # 0
      BY <1>3, <2>2 DEF PollToken
    <3>2. QED
      BY <1>3, <1>t, <2>2, <3>1 DEF TokenInv, PollToken, tokens
  <2>3. QED BY <2>1, <2>2
<1>4. CASE PollTokenFails
  BY <1>4, <1>t DEF TokenInv, PollTokenFails, tokenVars, tokens
<1>5. CASE Truncate
  BY <1>5, <1>t DEF TokenInv, Truncate, tokens
<1>6. CASE Write
  BY <1>6, <1>t DEF TokenInv, Write, tokens, TokenTypeOK, Token
<1>7. CASE PersistFails
  BY <1>7, <1>t DEF TokenInv, PersistFails, tokens
<1>8. CASE Crash
  <2>1. tokenStage = "idle" /\ ~lost => file \in AcceptedTokens
    BY DEF TokenInv
  <2>2. tokenStage = "switched" /\ ~lost => file \in AcceptedTokens
    BY DEF TokenInv
  <2>3. QED
    BY <1>8, <1>t, <2>1, <2>2 DEF TokenInv, Crash, tokens, TokenTypeOK
<1>9. CASE Start
  BY <1>9, <1>t DEF TokenInv, Start, loadedToken, tokens
<1>10. CASE StartFails
  BY <1>10, <1>t DEF TokenInv, StartFails, tokenVars, tokens
<1>11. CASE UNCHANGED tokenVars
  BY <1>11, <1>t DEF TokenInv, tokenVars, tokens
<1>12. QED
  BY <1>1, <1>2, <1>3, <1>4, <1>5, <1>6, <1>7, <1>8, <1>9, <1>10, <1>11 DEF TokenNext

\* The invariant is strong enough.
LEMMA TokenInvNoLockOut == TokenInv => NoLockOut
<1> SUFFICES ASSUME TokenInv, ~lost PROVE NoLockOut
  BY DEF NoLockOut
<1>1. tokenStage = "truncated" => memory \in AcceptedTokens
  BY DEF TokenInv, TokenTypeOK, Token, GraceSpansSwitch, AcceptedTokens
<1>2. tokenStage = "switched" => memory \in AcceptedTokens /\ file \in AcceptedTokens
  BY DEF TokenInv, TokenTypeOK, Token, GraceSpansSwitch, FileFollows, AcceptedTokens
<1>3. tokenStage = "idle" => memory \in AcceptedTokens /\ file \in AcceptedTokens
  BY DEF TokenInv, FileFollows
<1>4. tokenStage = "down" => file \in AcceptedTokens
  BY DEF TokenInv, FileFollows
<1>5. QED BY <1>1, <1>2, <1>3, <1>4 DEF NoLockOut, TokenInv, TokenTypeOK

----------------------------------------------------------------------------
\* Every variable of the token model keeps its type.
THEOREM TokenTypeCorrect == TokenSpec => []TokenTypeOK
<1>1. TokenInit => TokenTypeOK
  BY TokenInvInit DEF TokenInv
<1>2. QED BY <1>1, TokenTypeStep, PTL DEF TokenSpec

\* Whatever rotations, lost answers and crashes do, the agent can authenticate,
\* and so could one started now, unless a write of .env failed or was cut short
\* (applyRotatedToken switches memory first and .env second); it takes the
\* token not to be in the process environment (loadDotEnv).
THEOREM NeverLockedOut ==
    ASSUME ~Pinned
    PROVE  TokenSpec => []NoLockOut
<1>1. TokenInv /\ [TokenNext]_tokenVars => TokenInv'
  BY TokenInvStep
<1>2. QED BY <1>1, TokenInvInit, TokenInvNoLockOut, PTL DEF TokenSpec

----------------------------------------------------------------------------
\* The discovery of the router: the inductive invariant.

\* Whoever is at the gateway's address while a discovery runs has been noted,
\* and what is known so far came from a box that was there.
AskedTheRouter ==
    /\ disc = [step |-> disc.step, oui |-> disc.oui, result |-> disc.result]
    /\ disc.step # "none" => holder \in held
    /\ disc.oui # Unknown => \E b \in held : disc.oui = Oui[b]
    /\ disc.result # EMPTY_RESULT => \E b \in held : disc.result.vendor \in Names(b)

\* A result is a vendor of a box that was there, or the discovery goes on.
LEMMA TakenIsNamed ==
    ASSUME AskedTheRouter, disc.step # "none", UNCHANGED <<holder, held>>,
           NEW vendor, NEW confidence, NEW next, Take(vendor, confidence, next),
           vendor # Unknown => vendor \in Names(holder)
    PROVE  AskedTheRouter'
<1>1. CASE vendor # Unknown
  <2>1. disc' = [disc EXCEPT !.step = "done", !.result = Result(vendor, confidence)]
    BY <1>1 DEF Take
  <2>2. /\ disc' = [step |-> "done", oui |-> disc.oui, result |-> Result(vendor, confidence)]
        /\ holder \in held /\ Result(vendor, confidence).vendor = vendor
    BY <2>1 DEF AskedTheRouter, Result
  <2>3. disc'.result.vendor \in Names(holder) /\ disc'.oui = disc.oui
    BY <1>1, <2>2
  <2>4. \E b \in held : disc'.result.vendor \in Names(b)
    BY <2>2, <2>3
  <2>5. disc' = [step |-> disc'.step, oui |-> disc'.oui, result |-> disc'.result]
    BY <2>2
  <2>6. QED BY <2>2, <2>3, <2>4, <2>5 DEF AskedTheRouter, Names
<1>2. CASE vendor = Unknown
  <2>1. disc' = [disc EXCEPT !.step = next]
    BY <1>2 DEF Take
  <2>2. disc' = [step |-> next, oui |-> disc.oui, result |-> disc.result] /\ holder \in held
    BY <2>1 DEF AskedTheRouter
  <2>3. QED BY <2>2 DEF AskedTheRouter, Names
<1>3. QED BY <1>1, <1>2

\* Of a multicast's answers only the router's own are looked at.
LEMMA OwnAnswerTaken ==
    ASSUME AskedTheRouter, disc.step # "none", UNCHANGED <<holder, held>>,
           NEW texts, NEW confidence, NEW next, Multicast(texts, confidence, next),
           texts = Ssdp \/ texts = Mdns
    PROVE  AskedTheRouter'
<1>1. PICK answering \in SUBSET Box :
        LET vendors == Named(texts, answering)
        IN \E v \in IF vendors = {} THEN {Unknown} ELSE vendors : Take(v, confidence, next)
  BY DEF Multicast
<1>2. PICK v : /\ v = Unknown \/ v \in Named(texts, answering)
               /\ Take(v, confidence, next)
  BY <1>1
<1>3. v # Unknown => v = identifyVendorFromText(texts[holder])
  BY <1>2 DEF Named, Accepted
<1>4. v # Unknown => v \in Names(holder)
  BY <1>3 DEF Names
<1>5. QED BY <1>2, <1>4, TakenIsNamed

\* Nothing but the discovery writes what it knows.
LEMMA DiscoveryUntouched ==
    AskedTheRouter /\ UNCHANGED discVars => AskedTheRouter'
BY DEF AskedTheRouter, discVars, Names

\* A discovery that has not begun, and one that is over or forgotten.
LEMMA NothingAsked ==
    ASSUME disc' = Quiet
    PROVE  AskedTheRouter'
BY DEF AskedTheRouter, Quiet

LEMMA AskedInit == DetectionInit => AskedTheRouter
BY DEF DetectionInit, DiscInit, Quiet, AskedTheRouter

LEMMA AskedStep == AskedTheRouter /\ [DetectionNext]_detectionVars => AskedTheRouter'
<1> SUFFICES ASSUME AskedTheRouter, [DetectionNext]_detectionVars PROVE AskedTheRouter'
  OBVIOUS
<1>1. CASE Poll \/ DetectForTarget \/ Delivered \/ Lost \/ FlowsChange
  <2>1. UNCHANGED discVars
    BY <1>1 DEF Poll, DetectForTarget, Delivered, Lost, EndStage, FlowsChange
  <2>2. QED BY <2>1, DiscoveryUntouched
<1>2. CASE MaybeRunDetection
  <2>1. PICK route \in BOOLEAN, neighbour \in BOOLEAN : GatewayFound(route, neighbour)
    BY <1>2 DEF MaybeRunDetection
  <2>2. held' = {holder} /\ holder' = holder
    BY <2>1 DEF GatewayFound
  <2>3. CASE ~route
    <3>1. disc' = [step |-> "done", oui |-> Unknown, result |-> EMPTY_RESULT]
      BY <2>1, <2>3 DEF GatewayFound, Quiet
    <3>2. QED BY <2>2, <3>1 DEF AskedTheRouter
  <2>4. CASE route
    <3>1. disc' = [step |-> "ssdp", oui |-> IF neighbour THEN Oui[holder] ELSE Unknown,
                   result |-> EMPTY_RESULT]
      BY <2>1, <2>4 DEF GatewayFound, Quiet
    <3>2. QED BY <2>2, <3>1 DEF AskedTheRouter
  <2>5. QED BY <2>3, <2>4
<1>3. CASE AskRouter
  <2>1. CASE ssdpDiscover
    BY <2>1, OwnAnswerTaken DEF ssdpDiscover
  <2>2. CASE httpHeaderProbe
    <3>1. PICK texts \in {Pages[holder], <<>>} : Take(FirstVendor(texts), 70, "mdns")
      BY <2>2 DEF httpHeaderProbe
    <3>2. FirstVendor(<<>>) = Unknown
      BY DEF FirstVendor
    <3>3. FirstVendor(texts) # Unknown => FirstVendor(texts) \in Names(holder)
      BY <3>1, <3>2 DEF Names
    <3>4. disc.step # "none" /\ UNCHANGED <<holder, held>>
      BY <2>2 DEF httpHeaderProbe
    <3>5. QED BY <3>1, <3>3, <3>4, TakenIsNamed
  <2>3. CASE mdnsProbe
    BY <2>3, OwnAnswerTaken DEF mdnsProbe
  <2>4. CASE OuiLookup
    <3>1. disc' = [step |-> "done", oui |-> disc.oui,
                   result |-> IF disc.oui # Unknown THEN Result(disc.oui, 40) ELSE EMPTY_RESULT]
      BY <2>4 DEF OuiLookup, AskedTheRouter
    <3>2. holder \in held /\ UNCHANGED <<holder, held>>
      BY <2>4 DEF OuiLookup, AskedTheRouter
    <3>3. disc.oui # Unknown => \E b \in held : disc.oui \in Names(b)
      BY DEF AskedTheRouter, Names
    <3>4. Result(disc.oui, 40).vendor = disc.oui
      BY DEF Result
    <3>5. disc'.result # EMPTY_RESULT => \E b \in held : disc'.result.vendor \in Names(b)
      BY <3>1, <3>3, <3>4
    <3>6. QED BY <3>1, <3>2, <3>5 DEF AskedTheRouter, Names
  <2>5. QED BY <1>3, <2>1, <2>2, <2>3, <2>4 DEF AskRouter, discoverRouter
<1>4. CASE RouterDelivered \/ RouterLost \/ RestartDetection
  <2>1. disc' = Quiet
    BY <1>4 DEF RouterDelivered, RouterLost, EndDiscovery, RestartDetection
  <2>2. QED BY <2>1, NothingAsked
<1>5. CASE RouterReplaced
  <2>1. /\ UNCHANGED disc
        /\ held' = IF held = {} THEN held ELSE held \cup {holder'}
    BY <1>5 DEF RouterReplaced, Replace
  <2>2. held \subseteq held' /\ (holder \in held => holder' \in held')
    BY <2>1
  <2>3. QED BY <2>1, <2>2 DEF AskedTheRouter, Names
<1>6. CASE UNCHANGED detectionVars
  BY <1>6, DiscoveryUntouched DEF detectionVars
<1>7. QED BY <1>1, <1>2, <1>3, <1>4, <1>5, <1>6 DEF DetectionNext, Cycle

\* NamesTheRouter: for any boxes in the network and whatever each of them
\* answers, the vendor reported is one that a box at the gateway's address gave
\* (router-discovery.js, the sender filters of ssdpDiscover and mdnsProbe).
THEOREM RouterIsNamed == DetectionSpec => []NamesTheRouter
<1>1. AskedTheRouter => NamesTheRouter
  <2>1. EMPTY_RESULT.confidence = 0 /\ ~(0 > 0)
    BY DEF EMPTY_RESULT, Result
  <2>2. disc.result.confidence > 0 => disc.result # EMPTY_RESULT
    BY <2>1
  <2>3. QED BY <2>2 DEF AskedTheRouter, NamesTheRouter
<1>2. QED BY <1>1, AskedInit, AskedStep, PTL DEF DetectionSpec
=============================================================================
