---------------------- MODULE RouterIntegrationsProofs ----------------------
(***************************************************************************)
(* Proofs about RouterIntegrations, for every set of devices and routers   *)
(* and every number of commands and disturbances.                          *)
(***************************************************************************)
EXTENDS RouterIntegrations, WellFoundedInduction, TLAPS

----------------------------------------------------------------------------
\* The inductive invariant: what a rule and a call look like.

SlotRouters == {"edgerouter", "draytek"}
RuleRouters == {"openwrt", "mikrotik"} \cup SlotRouters
AllRules == router.rules \cup router.running
Still == "move" \notin kinds

\* The rules made for a device.
Owner(r, d) ==
    r.name \in {<<"rule", d>>, <<"mac", d>>, <<"hand", d>>, <<"slot", SlotOf[d]>>}

\* What the rule of an index matches: a device that has this index.
SlotMac(mac, slot) == mac # None => mac \in Device /\ SlotOf[mac] = slot
SlotIp(ip, slot) ==
    Still /\ ip # None => \E d \in Device : SlotOf[d] = slot /\ ip = addr[d]

\* What a rule matches, by the way it came about.
GoodRule(r) ==
    /\ r.id <= calls
    /\ r.name[1] = "hand" => /\ Plugin \in RuleRouters
                             /\ r.id = 0 /\ r.ip = None /\ r.mac = r.name[2]
    /\ r.name[1] = "mac" => /\ Plugin \in {"openwrt", "mikrotik"}
                            /\ r.id > 0 /\ r.ip = None /\ r.mac = r.name[2]
    /\ r.name[1] = "rule" =>
        /\ Plugin \in {"openwrt", "mikrotik", "unifi"} /\ r.id > 0
        /\ r.mac = IF Plugin = "openwrt" THEN r.name[2] ELSE None
        /\ Plugin # "openwrt" => r.ip # None
        /\ Still => r.ip \in {None, addr[r.name[2]]}
    /\ r.name[1] = "slot" =>
        /\ Plugin \in SlotRouters /\ r.id = 0
        /\ ~(r.ip = None /\ r.mac = None)
        /\ SlotMac(r.mac, r.name[2]) /\ SlotIp(r.ip, r.name[2])
RuleShape == \A r \in AllRules : GoodRule(r)

\* A call makes one rule at most, and after it logged in.
RuleIds ==
    /\ \A r, s \in AllRules : r.id = s.id /\ r.id > 0 => r = s
    /\ call.pc \in {"login", "go"} => \A r \in AllRules : r.id < calls
    /\ call.pc # "idle" => \A r \in AllRules : r.id = calls =>
            call.method \in Blocks /\ r.name = <<Entry(call.method), call.device>>
                /\ r.ip = IF call.method \in ByMac THEN None ELSE call.ip

\* Flags and rules are of the routers that have them, and only OpenWrt tells
\* what is configured from what is in force.
RouterShape ==
    /\ Plugin # "openwrt" => router.running = router.rules
    /\ Plugin \in RuleRouters => router.barred = {}
    /\ Plugin # "linksys" => router.paused = {}

\* A method that got beyond its first checks.
CallShape ==
    /\ call.pc = "idle" => call.method = "none"
    /\ call.pc # "idle" => calls >= 1
    /\ call.method \in Blocks \cup Lifts => call.device \in Device
    /\ call.pc \notin {"idle", "probe", "returned"} =>
            /\ ~dryRun
            /\ NeedsAddress(call.method) => call.ip # None
            /\ call.method \notin Unsupported[Plugin]
    /\ Still /\ call.method \in Blocks \cup Lifts => call.ip \in {None, addr[call.device]}
    /\ call.pc = "login" => Plugin \in LogsIn
    /\ call.pc = "probe" => call.method \in Probes

\* Between finding a rule and deleting it the agent deletes no other.
FoundStays ==
    call.pc = "delete" =>
        /\ Plugin = "openwrt" => findFirewallRuleSection # {}
        /\ Plugin = "mikrotik" => Found # {}
        /\ Plugin = "unifi" => unifiFindRule # {}

\* Where nothing moved, a device's address is its own, and what the household
\* swaps stays apart.
AddressesApart == \A d, e \in Device : addr[d] = addr[e] => d = e

Shape ==
    TypeOK /\ RuleShape /\ RuleIds /\ RouterShape /\ CallShape /\ FoundStays /\ AddressesApart

----------------------------------------------------------------------------
\* The inductive invariant: what is blocked.

Unspoiled == kinds \cap BlockSpoilers = {}

\* Barred, or matched by a rule that neither a reload nor the end of this call
\* takes away.
Secured(d) ==
    \/ d \in router.barred \cup router.paused
    \/ \E r \in router.rules \cap router.running :
            Owner(r, d) /\ (call.pc = "idle" \/ r.id # calls)
Sharing == {d \in Device : SharesSlot(d)}
HeldSecured == Unspoiled => \A d \in held \ Sharing : Secured(d)

\* A success that is on its way to the executor.
OkSecured ==
    Unspoiled /\ ~dryRun /\ call.method \in Blocks /\ call.result = "ok" =>
        \/ call.device \in router.barred \cup router.paused
        \/ \E r \in router.rules \cap router.running : Owner(r, call.device)

\* A device that is being freed does not count as held.
LiftedNotHeld == ~dryRun /\ call.method \in Lifts => call.device \notin held

\* What a method that blocks has achieved when it comes to verify.
BlockProgress ==
    Unspoiled =>
        /\ Plugin = "openwrt" /\ call.method \in Blocks /\ call.pc = "verify" =>
                router.running = router.rules
        /\ Plugin = "unifi" /\ call.method \in Blocks \ Rules /\ call.pc = "verify" =>
                call.device \in router.barred
        /\ Plugin = "tplink_omada" /\ call.method \in Blocks /\ call.pc = "verify" =>
                call.device \in router.barred
        /\ Plugin = "linksys" /\ call.method \in Blocks \cup Lifts /\ call.pc = "set" =>
                call.seen = List

InForce == HeldSecured /\ OkSecured /\ LiftedNotHeld /\ BlockProgress

----------------------------------------------------------------------------
\* The inductive invariant: what is owed.

Undisturbed == kinds \cap LiftSpoilers = {}

ByHand(d) == <<"hand", 0>> \in owed[d]
Ordered(d, entry) == \E n \in 0..MaxCalls : <<entry, n>> \in owed[d]

\* Whatever blocks a device has an order that stands: each rule its own.
Owes(d) ==
    \/ ByHand(d)
    \/ /\ d \in router.barred => Ordered(d, Entry("blockMAC"))
       /\ d \in router.paused => Ordered(d, "paused")
       /\ \A r \in AllRules : Owner(r, d) =>
            IF r.name[1] = "slot" THEN r.mac = d \/ r.ip = addr[d] => Ordered(d, "any")
                                  ELSE <<r.name[1], r.id>> \in owed[d]
BlocksOwed == Undisturbed => \A d \in Device : Owes(d)

\* The order of the call that runs.
OrderStands ==
    ~dryRun /\ call.method \in Blocks => <<Entry(call.method), calls>> \in owed[call.device]

\* A list that is about to be written back.
ListOwed ==
    Undisturbed /\ Plugin = "linksys" /\ call.pc = "set" /\ call.method \in Blocks \cup Lifts =>
        \A d \in call.seen : ByHand(d) \/ Ordered(d, Entry(call.method))

\* What OpenWrt has configured is in force but for a reload that comes.
OpenWrtLoaded ==
    Undisturbed /\ Plugin = "openwrt" =>
        /\ call.pc # "reload" => router.running = router.rules
        /\ call.pc = "reload" /\ call.method \in Blocks => router.running \subseteq router.rules
        /\ call.method \in Blocks /\ call.pc \in {"reload", "verify"} =>
                findFirewallRuleSection # {}
        /\ call.pc # "rollback"

\* What a removal leaves behind is covered by orders it does not answer.
RuleEach == Plugin \in {"openwrt", "mikrotik"} \/ (Plugin = "unifi" /\ call.method \in Rules)
Flagged ==
    \/ Plugin \in {"tplink_omada", "keenetic", "fritzbox", "zyxel_nebula", "guide"}
    \/ Plugin = "unifi" /\ call.method \notin Rules
RulesSettled ==
    RuleEach => \A r \in router.rules : r.name = <<Entry(call.method), call.device>> =>
        \E n \in 0..MaxCalls : n < r.id /\ <<Entry(call.method), n>> \in owed[call.device]
Settled ==
    \/ ByHand(call.device)
    \/ /\ RulesSettled
       /\ Plugin \in SlotRouters => \A r \in router.rules : r.name # ruleIndexFor
       /\ Plugin = "linksys" => call.device \notin List
       /\ Flagged => call.device \notin router.barred
RemovalSettled ==
    Undisturbed /\ ~dryRun /\ call.method \in Lifts =>
        /\ call.result = "ok" => Settled
        /\ Plugin = "openwrt" /\ call.pc = "reload" => Settled
        /\ Plugin \in {"unifi", "tplink_omada", "keenetic"} /\ call.pc = "verify" => Settled

Accounted == BlocksOwed /\ OrderStands /\ ListOwed /\ OpenWrtLoaded /\ RemovalSettled
----------------------------------------------------------------------------
\* Lemmas about the operators.

LEMMA PluginKnown ==
    Plugin \in {"openwrt", "fritzbox", "mikrotik", "unifi", "edgerouter", "linksys",
                "draytek", "tplink_omada", "zyxel_nebula", "keenetic", "guide"}
BY DEF Plugin, loadPlugin

LEMMA Bounds == MaxCalls \in Nat /\ MaxFaults \in Nat /\ None \notin Device \cup Address
BY PluginAssumption DEF PluginAssumption

LEMMA PluginStays == ASSUME pluginId' = pluginId PROVE Plugin' = Plugin
BY DEF Plugin, loadPlugin

\* The call as a step of its method leaves it.
NextCall(c) ==
    /\ c \in CallState(call.method) /\ c.device = call.device /\ c.ip = call.ip
    /\ c.pc \notin {"idle", "login", "probe"} /\ (c.pc = "returned" <=> c.result # "none")

LEMMA GotoCall ==
    ASSUME TypeOK, call.result = "none", NEW pc \in Steps \ {"returned", "idle", "login", "probe"}
    PROVE  /\ NextCall(Goto(pc))
           /\ Goto(pc).pc = pc /\ Goto(pc).seen = call.seen /\ Goto(pc).result = "none"
<1>1. Goto(pc) \in CallState(call.method)
  BY DEF TypeOK, Goto, CallState
<1>2. QED BY <1>1 DEF TypeOK, Goto, NextCall, CallState

LEMMA ReturnCall ==
    ASSUME TypeOK, NEW result \in Results \ {"none"}
    PROVE  /\ NextCall(Return(result))
           /\ Return(result).pc = "returned" /\ Return(result).result = result
           /\ Return(result).seen = call.seen
<1>1. Return(result) \in CallState(call.method)
  BY DEF TypeOK, Return, CallState, Steps, Results
<1>2. QED BY <1>1 DEF TypeOK, Return, NextCall, CallState

LEMMA RememberCall ==
    ASSUME TypeOK, call.result = "none",
           NEW pc \in Steps \ {"returned", "idle", "login", "probe"},
           NEW seen \in SUBSET IF call.method = "changeDNS" THEN {"old", "new"} ELSE Device
    PROVE  /\ NextCall(Remember(seen, pc))
           /\ Remember(seen, pc).pc = pc /\ Remember(seen, pc).seen = seen
           /\ Remember(seen, pc).result = "none"
<1>1. Remember(seen, pc) \in CallState(call.method)
  BY DEF TypeOK, Remember, CallState
<1>2. QED BY <1>1 DEF TypeOK, Remember, NextCall, CallState

LEMMA RouterFields ==
    ASSUME TypeOK
    PROVE  /\ \A R : /\ WithRules(R).rules = R /\ WithRules(R).running = R
                     /\ WithRules(R).barred = router.barred
                     /\ WithRules(R).paused = router.paused
                     /\ WithRules(R).dns = router.dns
           /\ \A R : LET new == [router EXCEPT !.rules = R] IN
                     /\ new.rules = R /\ new.running = router.running
                     /\ new.barred = router.barred /\ new.paused = router.paused
                     /\ new.dns = router.dns
BY DEF TypeOK, RouterState, WithRules

LEMMA RouterTypes ==
    ASSUME TypeOK
    PROVE  /\ \A R \in SUBSET Rule : WithRules(R) \in RouterState
           /\ \A R \in SUBSET Rule : [router EXCEPT !.rules = R] \in RouterState
           /\ \A R \in SUBSET Rule : [router EXCEPT !.running = R] \in RouterState
           /\ \A d \in Device : Bar(d) \in RouterState /\ Deny(d) \in RouterState
           /\ \A d : Unbar(d) \in RouterState /\ Kick(d) \in RouterState
           /\ \A dns \in {"old", "new"} : [router EXCEPT !.dns = dns] \in RouterState
           /\ \A l \in SUBSET Device : /\ [router EXCEPT !.paused = l] \in RouterState
                                       /\ [router EXCEPT !.barred = l] \in RouterState
BY DEF TypeOK, RouterState, WithRules, Bar, Deny, Unbar, Kick

\* What a step of a method leaves alone.
Frame ==
    /\ UNCHANGED <<pluginId, dryRun, addr, calls, held, owed>>
    /\ kinds \subseteq kinds'
    /\ kinds' \ kinds \subseteq
            {"refused", "unanswered", "ignored", "unread", "unrestored", "reload"}
    /\ call'.method = call.method /\ call'.device = call.device /\ call'.ip = call.ip
    /\ call.pc \notin {"idle", "probe", "returned"} /\ call'.pc \notin {"idle", "login", "probe"}
    /\ call.result = "none"

LEMMA StepType ==
    ASSUME TypeOK, call.pc \notin {"idle", "probe", "returned"},
           router' \in RouterState, NextCall(call'),
           Quiet \/ \E kind \in {"refused", "unanswered", "ignored", "unread", "unrestored", "reload"} :
                        Disturb(kind),
           UNCHANGED <<world, calls, ghosts>>
    PROVE  TypeOK' /\ Frame
<1>1. /\ call'.method = call.method /\ call'.device = call.device /\ call'.ip = call.ip
      /\ call' \in CallState(call'.method)
  BY DEF NextCall, CallState
<1> DEFINE Disturbances ==
        /\ faults' \in 0..MaxFaults /\ kinds' \subseteq Faults /\ kinds \subseteq kinds'
        /\ kinds' \ kinds \subseteq
                {"refused", "unanswered", "ignored", "unread", "unrestored", "reload"}
<1>2. Disturbances
  <2>1. CASE Quiet
    BY <2>1 DEF Quiet, TypeOK
  <2>2. ASSUME NEW kind \in {"refused", "unanswered", "ignored", "unread", "unrestored", "reload"},
               Disturb(kind)
        PROVE  Disturbances
    <3>1. faults' \in 0..MaxFaults
      BY <2>2, Bounds DEF Disturb, TypeOK
    <3>2. kinds' = kinds \cup {kind} /\ kind \in Faults /\ kinds \subseteq Faults
      BY <2>2 DEF Disturb, TypeOK
    <3>3. kinds' \ kinds \subseteq {kind} /\ kinds' \subseteq Faults /\ kinds \subseteq kinds'
      BY <3>2
    <3>4. QED BY <3>1, <3>3
  <2>3. QED BY <2>1, <2>2
<1>3. call.result = "none" /\ call'.pc \notin {"idle", "login", "probe"}
  BY DEF TypeOK, NextCall, CallState
<1>4. call'.pc = "returned" <=> call'.result # "none"
  BY DEF NextCall
<1>5. UNCHANGED <<pluginId, dryRun, addr, calls, held, owed>>
  BY DEF world, ghosts
<1>6. TypeOK'
  BY <1>1, <1>2, <1>4, <1>5 DEF TypeOK
<1>7. QED BY <1>1, <1>2, <1>3, <1>5, <1>6 DEF Frame

LEMMA SendType ==
    ASSUME TypeOK, call.pc \notin {"idle", "probe", "returned"},
           NEW after \in RouterState, NEW next, NextCall(next), Send(after, next)
    PROVE  TypeOK' /\ Frame
<1>1. router' \in RouterState /\ NextCall(call')
  BY ReturnCall DEF Send, Throws, TypeOK, Results
<1>2. QED BY <1>1, StepType DEF Send

LEMMA AttemptType ==
    ASSUME TypeOK, call.pc \notin {"idle", "probe", "returned"},
           NEW after \in RouterState, NEW next, NextCall(next),
           NEW kind \in {"unrestored", "reload"}, Attempt(after, kind, next)
    PROVE  TypeOK' /\ Frame
BY StepType DEF Attempt, TypeOK

LEMMA ReadType ==
    ASSUME TypeOK, call.pc \notin {"idle", "probe", "returned"},
           NEW next, NextCall(next), NEW failed, \A c \in failed : NextCall(c),
           Read(next, failed)
    PROVE  TypeOK' /\ Frame /\ router' = router
<1>1. router' = router /\ router' \in RouterState /\ NextCall(call')
  BY DEF Read, TypeOK
<1>2. QED BY <1>1, StepType DEF Read

\* The rule an agent removes is there, and none has a smaller id.
LEMMA FirstIsLeast ==
    ASSUME NEW R, R # {}, \A r \in R : r.id \in Nat
    PROVE  First(R) \in R /\ \A s \in R : First(R).id <= s.id
<1> DEFINE Ids == {r.id : r \in R}
           Less == {ss \in Nat \X Nat : ss[1] < ss[2]}
<1>1. IsWellFoundedOn(Less, Nat)
  <2>1. OpToRel(<, Nat) = Less
    BY DEF OpToRel
  <2> HIDE DEF Less
  <2> QED BY <2>1, NatLessThanWellFounded
<1>2. Ids \subseteq Nat /\ Ids # {}
  OBVIOUS
<1>3. PICK x \in Ids : \A y \in Ids : <<y, x>> \notin Less
  <2> HIDE DEF Ids, Less
  <2> QED BY <1>1, <1>2, WFMin
<1>4. ASSUME NEW y \in Ids PROVE x <= y
  <2>1. x \in Nat /\ y \in Nat
    BY <1>2
  <2>2. ~(y < x)
    <3>1. y < x => <<y, x>> \in Less
      BY <2>1
    <3>2. QED BY <1>3, <3>1
  <2>3. QED BY <2>1, <2>2
<1>5. \E r \in R : \A s \in R : r.id <= s.id
  BY <1>4
<1>6. QED BY <1>5 DEF First

----------------------------------------------------------------------------
\* Every step of a method keeps the types and leaves the rest alone.

LEMMA DnsType ==
    ASSUME TypeOK, NEW p, RestoringDns(p)
    PROVE  TypeOK' /\ Frame /\ call.method = "changeDNS"
<1>1. /\ call.method = "changeDNS" /\ call.pc \notin {"idle", "probe", "returned"}
      /\ call.result = "none"
  BY DEF RestoringDns, DnsBefore, DnsSet, DnsVerify, DnsRestore, Dns, At, TypeOK
<1> USE <1>1
<1>2. NextCall(Remember({router.dns}, "set")) /\ NextCall(Goto("set")) /\ NextCall(Goto("verify"))
      /\ NextCall(PutBack) /\ NextCall(Return("ok")) /\ NextCall(Return("unverified"))
  <2>1. router.dns \in {"old", "new"}
    BY DEF TypeOK, RouterState
  <2>2. QED BY <2>1, GotoCall, ReturnCall, RememberCall DEF PutBack, Steps, Results
<1>3. CASE DnsBefore(p, Goto("set"))
  BY <1>2, <1>3, ReadType DEF DnsBefore
<1>4. CASE DnsSet(p)
  BY <1>2, <1>4, SendType, RouterTypes DEF DnsSet
<1>5. CASE DnsVerify(p, PutBack, PutBack)
  BY <1>2, <1>5, ReadType DEF DnsVerify
<1>6. CASE DnsRestore(p)
  <2>1. call.seen \subseteq {"old", "new"}
    BY DEF TypeOK, CallState
  <2>2. QED BY <1>2, <1>6, <2>1, AttemptType, RouterTypes DEF DnsRestore
<1>7. QED BY <1>3, <1>4, <1>5, <1>6 DEF RestoringDns

LEMMA OpenWrtType ==
    ASSUME TypeOK, CallShape, OpenWrt PROVE TypeOK' /\ Frame
<1> USE DEF At, Steps, Results, Throws
<1>1. call.result = "none" /\ call.pc \notin {"idle", "probe", "returned"}
  <2>1. CASE openwrtChangeDNS
    BY <2>1, DnsType DEF openwrtChangeDNS, Frame
  <2>2. QED BY <2>1 DEF OpenWrt, openwrtLogin, uciSetAndCommit, openwrtReload, openwrtVerify,
            openwrtRollback, openwrtFind, removeUciSection, openwrtReloadRemoved,
            openwrtDisconnect, TypeOK
<1>2. /\ \A pc \in {"go", "reload", "verify", "rollback", "delete"} : NextCall(Goto(pc))
      /\ \A result \in {"ok", "failed", "unverified"} : NextCall(Return(result))
  BY <1>1, GotoCall, ReturnCall
<1>3. CASE openwrtLogin
  BY <1>1, <1>2, <1>3, ReadType DEF openwrtLogin
<1>4. CASE uciSetAndCommit
  <2>1. [id |-> calls, name |-> Name, ip |-> Ip, mac |-> call.device] \in Rule
    <3>1. call.device \in Device /\ call.ip \in Address \cup {None} /\ calls \in 0..MaxCalls
      BY <1>4 DEF uciSetAndCommit, CallShape, TypeOK, CallState
    <3>2. QED BY <3>1 DEF Rule, Name, Ip
  <2>2. [router EXCEPT !.rules = @ \cup
            {[id |-> calls, name |-> Name, ip |-> Ip, mac |-> call.device]}] \in RouterState
    BY <2>1 DEF TypeOK, RouterState
  <2>3. QED BY <1>1, <1>2, <1>4, <2>2, SendType DEF uciSetAndCommit
<1>5. CASE openwrtReload \/ openwrtReloadRemoved
  <2>1. [router EXCEPT !.running = router.rules] \in RouterState
    BY RouterTypes DEF TypeOK, RouterState
  <2>2. QED BY <1>1, <1>2, <1>5, <2>1, AttemptType
            DEF openwrtReload, openwrtReloadRemoved, reloadService
<1>6. CASE openwrtVerify
  BY <1>1, <1>2, <1>6, ReadType DEF openwrtVerify
<1>7. CASE openwrtRollback
  <2>1. [router EXCEPT !.rules = {r \in @ : r.id # calls}] \in RouterState
    BY DEF TypeOK, RouterState
  <2>2. QED BY <1>1, <1>2, <1>7, <2>1, AttemptType DEF openwrtRollback
<1>8. CASE openwrtFind
  BY <1>1, <1>2, <1>8, ReadType DEF openwrtFind
<1>9. CASE removeUciSection
  <2>1. [router EXCEPT !.rules = @ \ {First(findFirewallRuleSection)}] \in RouterState
    BY DEF TypeOK, RouterState
  <2>2. QED BY <1>1, <1>2, <1>9, <2>1, SendType DEF removeUciSection
<1>10. CASE openwrtDisconnect
  BY <1>1, <1>2, <1>10, SendType, RouterTypes DEF openwrtDisconnect
<1>11. CASE openwrtChangeDNS
  BY <1>11, DnsType DEF openwrtChangeDNS
<1>12. QED BY <1>3, <1>4, <1>5, <1>6, <1>7, <1>8, <1>9, <1>10, <1>11 DEF OpenWrt

LEMMA AddRuleType ==
    ASSUME TypeOK, NEW name, NEW ip, NEW mac,
           [id |-> calls, name |-> name, ip |-> ip, mac |-> mac] \in Rule
    PROVE  AddRule(name, ip, mac) \in RouterState
<1>1. router.rules \cup {[id |-> calls, name |-> name, ip |-> ip, mac |-> mac]} \in SUBSET Rule
  BY DEF TypeOK, RouterState
<1>2. QED BY <1>1, RouterTypes DEF AddRule

LEMMA MikroTikType ==
    ASSUME TypeOK, CallShape, MikroTik PROVE TypeOK' /\ Frame
<1> USE DEF At, Steps, Results, Throws
<1>1. call.result = "none" /\ call.pc \notin {"idle", "probe", "returned"}
  <2>1. CASE mikrotikChangeDNS
    BY <2>1, DnsType DEF mikrotikChangeDNS, Frame
  <2>2. QED BY <2>1 DEF MikroTik, mikrotikAdd, mikrotikVerify, mikrotikRollback, mikrotikFind,
            mikrotikDelete, mikrotikDisconnect, TypeOK
<1>2. /\ \A pc \in {"verify", "rollback", "delete", "kick"} : NextCall(Goto(pc))
      /\ \A result \in {"ok", "failed", "unverified"} : NextCall(Return(result))
  BY <1>1, GotoCall, ReturnCall
<1>3. CASE mikrotikAdd
  <2> DEFINE mac == IF call.method \in ByMac THEN call.device ELSE None
  <2>1. [id |-> calls, name |-> Name, ip |-> Ip, mac |-> mac] \in Rule
    <3>1. call.device \in Device /\ call.ip \in Address \cup {None} /\ calls \in 0..MaxCalls
      BY <1>3 DEF mikrotikAdd, CallShape, TypeOK, CallState
    <3>2. QED BY <3>1 DEF Rule, Name, Ip
  <2>2. QED BY <1>1, <1>2, <1>3, <2>1, AddRuleType, SendType DEF mikrotikAdd
<1>4. CASE mikrotikVerify
  BY <1>1, <1>2, <1>4, ReadType DEF mikrotikVerify, NotFound
<1>5. CASE mikrotikRollback
  <2>1. {r \in router.rules : r.id # calls} \in SUBSET Rule
    BY DEF TypeOK, RouterState
  <2>2. QED BY <1>1, <1>2, <1>5, <2>1, AttemptType, RouterTypes DEF mikrotikRollback
<1>6. CASE mikrotikFind
  BY <1>1, <1>2, <1>6, ReadType DEF mikrotikFind
<1>7. CASE mikrotikDelete
  <2>1. router.rules \ {First(Found)} \in SUBSET Rule
    BY DEF TypeOK, RouterState
  <2>2. QED BY <1>1, <1>2, <1>7, <2>1, SendType, RouterTypes DEF mikrotikDelete
<1>8. CASE mikrotikDisconnect
  BY <1>1, <1>2, <1>8, ReadType, SendType, RouterTypes DEF mikrotikDisconnect
<1>9. CASE mikrotikChangeDNS
  BY <1>9, DnsType DEF mikrotikChangeDNS
<1>10. QED BY <1>3, <1>4, <1>5, <1>6, <1>7, <1>8, <1>9 DEF MikroTik

\* The field of a rule that is there, or None.
LEMMA FieldOfSlot ==
    ASSUME TypeOK
    PROVE  /\ Of("ip") \in Address \cup {None} /\ Of("mac") \in Device \cup {None}
           /\ InSlot # {} => \E r \in InSlot : Of("ip") = r.ip /\ Of("mac") = r.mac
           /\ InSlot = {} => Of("ip") = None /\ Of("mac") = None
<1>1. CASE InSlot = {}
  BY <1>1 DEF Of
<1>2. CASE InSlot # {}
  <2> DEFINE r == CHOOSE r \in InSlot : TRUE
  <2>1. r \in InSlot /\ Of("ip") = r.ip /\ Of("mac") = r.mac
    BY <1>2 DEF Of
  <2>2. r \in Rule
    BY <2>1 DEF InSlot, TypeOK, RouterState
  <2>3. QED BY <1>2, <2>1, <2>2 DEF Rule
<1>3. QED BY <1>1, <1>2

LEMMA FillType ==
    ASSUME TypeOK, call.device \in Device,
           NEW ip \in Address \cup {None}, NEW mac \in Device \cup {None}
    PROVE  Fill(ip, mac) \in RouterState
<1>1. ruleIndexFor \in {"slot"} \X Nat
  BY PluginAssumption DEF PluginAssumption, ruleIndexFor
<1>2. [id |-> 0, name |-> ruleIndexFor, ip |-> ip, mac |-> mac] \in Rule
  BY <1>1, Bounds DEF Rule
<1>3. (router.rules \ InSlot) \cup
            {[id |-> 0, name |-> ruleIndexFor, ip |-> ip, mac |-> mac]} \in SUBSET Rule
  BY <1>2 DEF TypeOK, RouterState
<1>4. QED BY <1>3, RouterTypes DEF Fill

LEMMA EdgeRouterType ==
    ASSUME TypeOK, CallShape, EdgeRouter PROVE TypeOK' /\ Frame
<1> USE DEF At, Steps, Results, Throws, runVyattaCommands
<1>1. call.result = "none" /\ call.pc \notin {"idle", "probe", "returned"}
  BY DEF EdgeRouter, edgerouterApply, edgerouterBlockMAC, edgerouterVerify, edgerouterRemove,
         edgerouterChangeDNS, DnsVerify, Dns, TypeOK
<1>2. /\ \A pc \in {"verify", "delete"} : NextCall(Goto(pc))
      /\ \A result \in {"ok", "failed", "unverified"} : NextCall(Return(result))
  BY <1>1, GotoCall, ReturnCall
<1>3. CASE edgerouterApply \/ edgerouterBlockMAC
  <2>1. call.device \in Device /\ call.ip \in Address \cup {None}
    BY <1>3 DEF edgerouterApply, edgerouterBlockMAC, CallShape, Blocks, TypeOK, CallState
  <2>2. Fill(call.ip, Of("mac")) \in RouterState /\ Fill(Of("ip"), call.device) \in RouterState
    BY <2>1, FillType, FieldOfSlot
  <2>3. QED BY <1>1, <1>2, <1>3, <2>2, SendType DEF edgerouterApply, edgerouterBlockMAC
<1>4. CASE edgerouterVerify
  BY <1>1, <1>2, <1>4, ReadType DEF edgerouterVerify
<1>5. CASE edgerouterRemove
  <2>1. Empty \in RouterState
    BY RouterTypes DEF Empty, TypeOK, RouterState
  <2>2. QED BY <1>1, <1>2, <1>5, <2>1, ReadType, SendType DEF edgerouterRemove
<1>6. CASE edgerouterChangeDNS
  BY <1>1, <1>2, <1>6, ReadType, SendType, RouterTypes DEF edgerouterChangeDNS, Dns, DnsVerify
<1>7. QED BY <1>3, <1>4, <1>5, <1>6 DEF EdgeRouter

LEMMA DrayTekType ==
    ASSUME TypeOK, CallShape, DrayTek PROVE TypeOK' /\ Frame
<1> USE DEF At, Steps, Results, Throws
<1>1. call.result = "none" /\ call.pc \notin {"idle", "probe", "returned"}
  BY DEF DrayTek, draytekApply, draytekBlockMAC, draytekVerify, draytekRemove,
         draytekChangeDNS, DnsVerify, Dns, TypeOK
<1>2. /\ \A pc \in {"verify", "disable"} : NextCall(Goto(pc))
      /\ \A result \in {"ok", "failed", "unverified"} : NextCall(Return(result))
  BY <1>1, GotoCall, ReturnCall
<1>3. CASE draytekApply \/ draytekBlockMAC
  <2>1. call.device \in Device /\ call.ip \in Address \cup {None}
    BY <1>3 DEF draytekApply, draytekBlockMAC, CallShape, Blocks, TypeOK, CallState
  <2>2. Fill(call.ip, None) \in RouterState /\ Fill(None, call.device) \in RouterState
    BY <2>1, FillType
  <2>3. QED BY <1>1, <1>2, <1>3, <2>2, SendType DEF draytekApply, draytekBlockMAC
<1>4. CASE draytekVerify
  BY <1>1, <1>2, <1>4, ReadType DEF draytekVerify
<1>5. CASE draytekRemove
  <2>1. Empty \in RouterState
    BY RouterTypes DEF Empty, TypeOK, RouterState
  <2>2. QED BY <1>1, <1>2, <1>5, <2>1, ReadType, SendType DEF draytekRemove
<1>6. CASE draytekChangeDNS
  BY <1>1, <1>2, <1>6, ReadType, SendType, RouterTypes DEF draytekChangeDNS, Dns, DnsVerify
<1>7. QED BY <1>3, <1>4, <1>5, <1>6 DEF DrayTek

LEMMA UniFiType ==
    ASSUME TypeOK, CallShape, UniFi PROVE TypeOK' /\ Frame
<1> USE DEF At, Steps, Results, Throws
<1>1. call.result = "none" /\ call.pc \notin {"idle", "probe", "returned"}
  BY DEF UniFi, unifiLogin, unifiBlockMAC, unifiUnblockMAC, unifiApplyFirewallRule,
         unifiRemoveFirewallRule, unifiDisconnect, unifiChangeDNS, DnsBefore, DnsSet, DnsVerify,
         Dns, TypeOK
<1>2. /\ \A pc \in {"go", "verify", "delete", "kick"} : NextCall(Goto(pc))
      /\ \A result \in {"ok", "failed", "unverified"} : NextCall(Return(result))
  BY <1>1, GotoCall, ReturnCall
<1>3. CASE unifiLogin
  BY <1>1, <1>2, <1>3, ReadType DEF unifiLogin
<1>4. CASE unifiBlockMAC
  <2>1. Client \in Device
    BY <1>4 DEF unifiBlockMAC, CallShape, Client
  <2>2. QED BY <1>1, <1>2, <1>4, <2>1, ReadType, SendType, RouterTypes DEF unifiBlockMAC
<1>5. CASE unifiUnblockMAC
  BY <1>1, <1>2, <1>5, ReadType, SendType, RouterTypes DEF unifiUnblockMAC
<1>6. CASE unifiApplyFirewallRule
  <2>1. [id |-> calls, name |-> <<"rule", Client>>, ip |-> call.ip, mac |-> None] \in Rule
    <3>1. call.device \in Device /\ call.ip \in Address \cup {None} /\ calls \in 0..MaxCalls
      BY <1>6 DEF unifiApplyFirewallRule, CallShape, Blocks, TypeOK, CallState
    <3>2. QED BY <3>1 DEF Rule, Client
  <2>2. QED BY <1>1, <1>2, <1>6, <2>1, AddRuleType, SendType, ReadType DEF unifiApplyFirewallRule
<1>7. CASE unifiRemoveFirewallRule
  <2>1. router.rules \ {First(unifiFindRule)} \in SUBSET Rule
    BY DEF TypeOK, RouterState
  <2>2. QED BY <1>1, <1>2, <1>7, <2>1, SendType, ReadType, RouterTypes
            DEF unifiRemoveFirewallRule
<1>8. CASE unifiDisconnect
  BY <1>1, <1>2, <1>8, ReadType, SendType, RouterTypes DEF unifiDisconnect
<1>9. CASE unifiChangeDNS
  <2>1. call.method = "changeDNS" /\ router.dns \in {"old", "new"}
    BY <1>9 DEF unifiChangeDNS, DnsBefore, DnsSet, DnsVerify, Dns, TypeOK, RouterState
  <2>2. NextCall(Remember({router.dns}, "set"))
    BY <1>1, <2>1, RememberCall
  <2>3. QED BY <1>1, <1>2, <1>9, <2>2, ReadType, SendType, RouterTypes
            DEF unifiChangeDNS, DnsBefore, DnsSet, DnsVerify, Dns
<1>10. QED BY <1>3, <1>4, <1>5, <1>6, <1>7, <1>8, <1>9 DEF UniFi

LEMMA OmadaType ==
    ASSUME TypeOK, CallShape, Omada PROVE TypeOK' /\ Frame
<1> USE DEF At, Steps, Results, Throws
<1>1. call.result = "none" /\ call.pc \notin {"idle", "probe", "returned"}
  BY DEF Omada, omadaLogin, omadaBlockMAC, omadaUnblockMAC, omadaDisconnect, TypeOK
<1>2. /\ \A pc \in {"go", "verify", "kick"} : NextCall(Goto(pc))
      /\ \A result \in {"ok", "failed", "unverified"} : NextCall(Return(result))
  BY <1>1, GotoCall, ReturnCall
<1>3. CASE omadaLogin
  BY <1>1, <1>2, <1>3, ReadType DEF omadaLogin
<1>4. CASE omadaBlockMAC
  <2>1. Client \in Device
    BY <1>4 DEF omadaBlockMAC, CallShape, Client
  <2>2. QED BY <1>1, <1>2, <1>4, <2>1, ReadType, SendType, RouterTypes DEF omadaBlockMAC
<1>5. CASE omadaUnblockMAC
  BY <1>1, <1>2, <1>5, ReadType, SendType, RouterTypes DEF omadaUnblockMAC
<1>6. CASE omadaDisconnect
  BY <1>1, <1>2, <1>6, ReadType, SendType, RouterTypes DEF omadaDisconnect
<1>7. QED BY <1>3, <1>4, <1>5, <1>6 DEF Omada

LEMMA KeeneticType ==
    ASSUME TypeOK, CallShape, Keenetic PROVE TypeOK' /\ Frame
<1> USE DEF At, Steps, Results, Throws
<1>1. CASE keeneticChangeDNS
  BY <1>1, DnsType DEF keeneticChangeDNS
<1>2. CASE keeneticBlockMAC \/ keeneticUnblockMAC
  <2>1. call.result = "none" /\ call.pc \notin {"idle", "probe", "returned"}
    BY <1>2 DEF keeneticBlockMAC, keeneticUnblockMAC, TypeOK
  <2>2. /\ NextCall(Goto("verify"))
        /\ \A result \in {"ok", "failed", "unverified"} : NextCall(Return(result))
    BY <2>1, GotoCall, ReturnCall
  <2>3. Client \in Device
    BY <1>2 DEF keeneticBlockMAC, keeneticUnblockMAC, CallShape, Client
  <2>4. QED BY <1>2, <2>1, <2>2, <2>3, ReadType, SendType, RouterTypes
            DEF keeneticBlockMAC, keeneticUnblockMAC
<1>3. QED BY <1>1, <1>2 DEF Keenetic

LEMMA FritzBoxType ==
    ASSUME TypeOK, CallShape, FritzBox PROVE TypeOK' /\ Frame
<1> USE DEF At, Steps, Results, Throws
<1>1. CASE fritzChangeDNS
  BY <1>1, DnsType DEF fritzChangeDNS
<1>2. CASE fritzResolve \/ fritzApplyFirewallRule \/ fritzRemoveFirewallRule
  <2>1. call.result = "none" /\ call.pc \notin {"idle", "probe", "returned"}
    BY <1>2 DEF fritzResolve, fritzApplyFirewallRule, fritzRemoveFirewallRule, TypeOK
  <2>2. /\ NextCall(Goto("set"))
        /\ \A result \in {"ok", "failed", "unverified"} : NextCall(Return(result))
    BY <2>1, GotoCall, ReturnCall
  <2>3. /\ [router EXCEPT !.barred = @ \cup Host] \in RouterState
        /\ [router EXCEPT !.barred = @ \ Host] \in RouterState
    BY DEF Host, TypeOK, RouterState
  <2>4. QED BY <1>2, <2>1, <2>2, <2>3, ReadType, SendType, RouterTypes
            DEF fritzResolve, fritzApplyFirewallRule, fritzRemoveFirewallRule
<1>3. QED BY <1>1, <1>2 DEF FritzBox

LEMMA LinksysType ==
    ASSUME TypeOK, CallShape, Linksys PROVE TypeOK' /\ Frame
<1> USE DEF At, Steps, Results, Throws
<1>1. CASE linksysChangeDNS
  BY <1>1, DnsType DEF linksysChangeDNS
<1>2. CASE linksysGet \/ linksysSet \/ linksysVerify
  <2>1. call.result = "none" /\ call.pc \notin {"idle", "probe", "returned"}
    BY <1>2 DEF linksysGet, linksysSet, linksysVerify, TypeOK
  <2>2. Client \in Device /\ call.method # "changeDNS"
    BY <1>2 DEF linksysGet, linksysSet, linksysVerify, CallShape, Client, Blocks, Lifts
  <2>3. List \subseteq Device /\ call.seen \subseteq Device
    BY <2>2 DEF List, TypeOK, RouterState, CallState
  <2>4. /\ NextCall(Goto("verify")) /\ NextCall(Got(List)) /\ NextCall(Got({}))
        /\ NextCall(Shows(List)) /\ NextCall(Shows({}))
        /\ \A result \in {"ok", "failed", "unverified"} : NextCall(Return(result))
    BY <2>1, <2>2, <2>3, GotoCall, ReturnCall, RememberCall DEF Got, Shows
  <2>5. /\ WithList(call.seen \cup {Client}) \in RouterState
        /\ WithList(call.seen \ {Client}) \in RouterState
    BY <2>2, <2>3, RouterTypes DEF WithList
  <2>6. QED BY <1>2, <2>1, <2>4, <2>5, ReadType, SendType
            DEF linksysGet, linksysSet, linksysVerify
<1>3. QED BY <1>1, <1>2 DEF Linksys

LEMMA MethodType ==
    ASSUME TypeOK, CallShape, Methods_ PROVE TypeOK' /\ Frame
BY OpenWrtType, MikroTikType, EdgeRouterType, DrayTekType, UniFiType, OmadaType, KeeneticType,
   FritzBoxType, LinksysType DEF Methods_

----------------------------------------------------------------------------
\* A step of a method keeps the shape of rules and call.

LEMMA GoodStays == ASSUME Frame, NEW r, GoodRule(r) PROVE GoodRule(r)'
<1>1. Plugin' = Plugin /\ (Still' => Still) /\ calls' = calls /\ addr' = addr
  BY PluginStays DEF Frame, Still
<1>2. QED BY <1>1 DEF GoodRule, SlotMac, SlotIp

\* No rule more than before.
LEMMA ShrinkShape ==
    ASSUME Shape, TypeOK', Frame, AllRules' \subseteq AllRules, RouterShape',
           call'.pc = "go" => call.pc = "login", FoundStays'
    PROVE  Shape'
<1>1. Plugin' = Plugin /\ (Still' => Still) /\ calls' = calls /\ addr' = addr /\ dryRun' = dryRun
  BY PluginStays DEF Frame, Still
<1>2. RuleShape'
  BY GoodStays DEF Shape, RuleShape
<1>3. RuleIds'
  BY <1>1 DEF Shape, RuleIds, Frame, Entry
<1>4. CallShape'
  BY <1>1 DEF Shape, CallShape, Frame, NeedsAddress
<1>5. AddressesApart'
  BY <1>1 DEF Shape, AddressesApart
<1>6. QED BY <1>2, <1>3, <1>4, <1>5 DEF Shape

\* One rule more: the call's own, or that of a slot.
LEMMA GrowShape ==
    ASSUME Shape, TypeOK', Frame, NEW n, AllRules' \subseteq AllRules \cup {n}, GoodRule(n),
           \/ n.id = 0
           \/ /\ call.pc = "go" /\ call.method \in Blocks
              /\ n.id = calls /\ n.name = <<Entry(call.method), call.device>>
              /\ n.ip = IF call.method \in ByMac THEN None ELSE call.ip,
           RouterShape', call'.pc \notin {"go", "delete"}
    PROVE  Shape'
<1>1. Plugin' = Plugin /\ (Still' => Still) /\ calls' = calls /\ addr' = addr /\ dryRun' = dryRun
  BY PluginStays DEF Frame, Still
<1>2. RuleShape'
  BY GoodStays DEF Shape, RuleShape
<1>3. RuleIds'
  <2>1. /\ calls >= 1 /\ calls \in Nat /\ \A r \in AllRules : r.id \in Nat
        /\ call.pc # "idle"
    BY Bounds DEF Shape, CallShape, Frame, TypeOK, AllRules, RouterState, Rule
  <2>2. \A r, s \in AllRules' : r.id = s.id /\ r.id > 0 => r = s
    BY <2>1 DEF Shape, RuleIds
  <2>3. \A r \in AllRules' : r.id = calls =>
            call.method \in Blocks /\ r.name = <<Entry(call.method), call.device>>
                /\ r.ip = IF call.method \in ByMac THEN None ELSE call.ip
    BY <2>1 DEF Shape, RuleIds
  <2>4. QED BY <1>1, <2>2, <2>3 DEF RuleIds, Frame, Entry
<1>4. CallShape'
  BY <1>1 DEF Shape, CallShape, Frame, NeedsAddress
<1>5. AddressesApart'
  BY <1>1 DEF Shape, AddressesApart
<1>6. FoundStays'
  BY DEF FoundStays
<1>7. QED BY <1>2, <1>3, <1>4, <1>5, <1>6 DEF Shape

----------------------------------------------------------------------------
\* What a step of a method has to show for the rest of the invariant.

IInv == Shape /\ InForce /\ Accounted

Kept ==
    /\ router'.rules = router.rules /\ router'.running = router.running
    /\ router'.barred = router.barred /\ router'.paused = router.paused

LEMMA CallFields ==
    ASSUME TypeOK
    PROVE  /\ \A pc : /\ Goto(pc).pc = pc /\ Goto(pc).seen = call.seen
                      /\ Goto(pc).result = call.result
           /\ \A result : /\ Return(result).pc = "returned" /\ Return(result).seen = call.seen
                          /\ Return(result).result = result
           /\ \A seen, pc : /\ Remember(seen, pc).pc = pc /\ Remember(seen, pc).seen = seen
                            /\ Remember(seen, pc).result = call.result
BY DEF TypeOK, CallState, Goto, Return, Remember

LEMMA KeptShape ==
    ASSUME Shape, TypeOK', Frame, Kept,
           call'.pc = "go" => call.pc = "login", call'.pc = "delete" => FoundStays'
    PROVE  Shape'
<1>1. AllRules' = AllRules /\ RouterShape'
  BY PluginStays DEF Kept, AllRules, Shape, RouterShape, Frame
<1>2. FoundStays'
  BY DEF FoundStays
<1>3. QED BY <1>1, <1>2, ShrinkShape

\* The names of what a step leaves alone.
LEMMA FrameFacts ==
    ASSUME Shape, InForce, Accounted, Frame
    PROVE  /\ Plugin' = Plugin /\ (Unspoiled' => Unspoiled) /\ (Undisturbed' => Undisturbed)
           /\ BlockSpoilers' = BlockSpoilers /\ LiftSpoilers' = LiftSpoilers
           /\ ~dryRun /\ ~dryRun' /\ call.pc # "idle" /\ call'.pc # "idle" /\ calls >= 1
           /\ call.method \in Lifts => call.device \notin held
           /\ call.method \in Blocks => <<Entry(call.method), calls>> \in owed[call.device]
<1>1. Plugin' = Plugin /\ call.pc # "idle" /\ call'.pc # "idle" /\ kinds \subseteq kinds'
  BY PluginStays DEF Frame
<1>2. BlockSpoilers' = BlockSpoilers /\ LiftSpoilers' = LiftSpoilers
  BY <1>1 DEF BlockSpoilers, LiftSpoilers
<1>3. ~dryRun /\ ~dryRun' /\ calls >= 1
  BY <1>1 DEF Frame, Shape, CallShape
<1>4. QED BY <1>1, <1>2, <1>3
          DEF Unspoiled, Undisturbed, InForce, LiftedNotHeld, Accounted, OrderStands

LEMMA SecureStep ==
    ASSUME Shape, InForce, Accounted, Frame,
           Unspoiled' => \A d \in held \ Sharing : Secured(d) => Secured(d)',
           OkSecured', BlockProgress'
    PROVE  InForce'
<1>1. HeldSecured'
  <2>1. Sharing' = Sharing
    BY PluginStays DEF Sharing, SharesSlot, Frame
  <2>2. QED BY <2>1, FrameFacts DEF HeldSecured, InForce, Frame
<1>2. LiftedNotHeld'
  BY DEF InForce, LiftedNotHeld, Frame
<1>3. QED BY <1>1, <1>2 DEF InForce

LEMMA KeptSecures == ASSUME Frame, Kept, NEW d, Secured(d) PROVE Secured(d)'
BY DEF Frame, Kept, Secured, Owner

LEMMA OweStep ==
    ASSUME Shape, InForce, Accounted, Frame,
           Undisturbed' => \A d \in Device : Owes(d) => Owes(d)',
           ListOwed', OpenWrtLoaded', RemovalSettled'
    PROVE  Accounted'
<1>1. BlocksOwed'
  BY FrameFacts DEF BlocksOwed, Accounted
<1>2. OrderStands'
  BY FrameFacts DEF Accounted, OrderStands, Frame, Entry
<1>3. QED BY <1>1, <1>2 DEF Accounted

\* Fewer rules and fewer flags need no more orders.
LEMMA ShrinkOwes ==
    ASSUME Frame, router'.barred \subseteq router.barred, router'.paused \subseteq router.paused,
           AllRules' \subseteq AllRules, NEW d \in Device, Owes(d)
    PROVE  Owes(d)'
<1>1. Plugin' = Plugin /\ owed' = owed /\ addr' = addr
  BY PluginStays DEF Frame
<1>2. Entry("blockMAC")' = Entry("blockMAC")
  BY <1>1 DEF Entry
<1>3. QED BY <1>1, <1>2 DEF Owes, ByHand, Ordered, Owner

\* A step of a method that neither blocks nor lifts.
LEMMA OtherStep ==
    ASSUME Shape, InForce, Accounted, TypeOK', Frame, Kept,
           call.method \notin Blocks \cup Lifts,
           call'.pc = "go" => call.pc = "login", call'.pc \notin {"delete", "reload", "rollback"},
           call.pc # "reload"
    PROVE  Shape' /\ InForce' /\ Accounted'
<1>1. Shape'
  BY KeptShape
<1>2. Plugin' = Plugin /\ call'.method \notin Blocks \cup Lifts
  BY FrameFacts DEF Frame
<1>3. InForce'
  <2>1. OkSecured' /\ BlockProgress'
    BY <1>2 DEF OkSecured, BlockProgress
  <2>2. QED BY <2>1, SecureStep, KeptSecures
<1>4. Accounted'
  <2>1. \A d \in Device : Owes(d) => Owes(d)'
    BY ShrinkOwes DEF Kept, AllRules
  <2>2. ListOwed' /\ RemovalSettled'
    BY <1>2 DEF ListOwed, RemovalSettled
  <2>3. OpenWrtLoaded'
    BY <1>2, FrameFacts DEF OpenWrtLoaded, Kept, Accounted
  <2>4. QED BY <2>1, <2>2, <2>3, OweStep
<1>5. QED BY <1>1, <1>3, <1>4

LEMMA DnsEffect ==
    ASSUME TypeOK, NEW p, RestoringDns(p)
    PROVE  /\ Kept /\ call.method = "changeDNS" /\ call.pc # "reload"
           /\ call'.pc \in {"set", "verify", "restore", "returned"}
<1> USE DEF Dns, At, Kept
<1>2. CASE DnsBefore(p, Goto("set"))
  BY <1>2, CallFields DEF DnsBefore, Read
<1>3. CASE DnsSet(p)
  <2>1. router' = router \/ router' = [router EXCEPT !.dns = "new"]
    BY <1>3 DEF DnsSet, Send
  <2>2. Kept
    BY <2>1 DEF TypeOK, RouterState
  <2>3. QED BY <1>3, <2>2, CallFields DEF DnsSet, Send, Throws
<1>4. CASE DnsVerify(p, PutBack, PutBack)
  BY <1>4, CallFields DEF DnsVerify, Read, PutBack
<1>5. CASE DnsRestore(p)
  <2>1. PICK dns \in call.seen :
            Attempt([router EXCEPT !.dns = dns], "unrestored", Return("unverified"))
    BY <1>5 DEF DnsRestore
  <2>2. router' = router \/ router' = [router EXCEPT !.dns = dns]
    BY <2>1 DEF Attempt
  <2>3. Kept
    BY <2>2 DEF TypeOK, RouterState
  <2>4. QED BY <1>5, <2>1, <2>3, CallFields DEF DnsRestore, Attempt
<1>6. QED BY <1>2, <1>3, <1>4, <1>5 DEF RestoringDns

LEMMA DnsStep ==
    ASSUME Shape, InForce, Accounted, NEW p, RestoringDns(p)
    PROVE  Shape' /\ InForce' /\ Accounted'
<1>1. TypeOK' /\ Frame
  BY DnsType DEF Shape
<1>2. QED BY <1>1, DnsEffect, OtherStep DEF Shape, Blocks, Lifts

LEMMA Spoilers ==
    /\ Plugin = "openwrt" => /\ BlockSpoilers = {"reload", "move"}
                             /\ LiftSpoilers = {"unanswered", "ignored", "unread", "reload", "restart"}
    /\ Plugin \in {"mikrotik", "edgerouter", "draytek"} =>
            BlockSpoilers = {"move"} /\ LiftSpoilers = {"unread", "ignored", "move"}
    /\ Plugin = "unifi" => /\ BlockSpoilers = {"ignored", "move"}
                           /\ LiftSpoilers = {"unread", "ignored", "move"}
    /\ Plugin = "tplink_omada" => BlockSpoilers = {"ignored"} /\ LiftSpoilers = {"ignored"}
    /\ Plugin = "fritzbox" =>
            BlockSpoilers = {"ignored", "move"} /\ LiftSpoilers = {"ignored", "move"}
    /\ Plugin = "linksys" => BlockSpoilers = {"unread", "overlap"} /\ LiftSpoilers = {"unread"}
    /\ Plugin = "keenetic" => BlockSpoilers = {} /\ LiftSpoilers = {"ignored"}
BY DEF BlockSpoilers, LiftSpoilers

\* A step that changes nothing at the router and claims nothing.
LEMMA PlainStep ==
    ASSUME Shape, InForce, Accounted, TypeOK', Frame, Kept, call'.result # "ok",
           call'.pc = "go" => call.pc = "login", call'.pc = "delete" => FoundStays',
           call'.pc \notin {"verify", "rollback", "reload"}, call.pc # "reload",
           call'.pc = "set" => Plugin # "linksys"
    PROVE  Shape' /\ InForce' /\ Accounted'
<1>1. Shape'
  BY KeptShape
<1>2. InForce'
  <2>1. OkSecured' /\ BlockProgress'
    BY FrameFacts DEF OkSecured, BlockProgress
  <2>2. QED BY <2>1, SecureStep, KeptSecures
<1>3. Accounted'
  <2>1. \A d \in Device : Owes(d) => Owes(d)'
    BY ShrinkOwes DEF Kept, AllRules
  <2>2. ListOwed' /\ RemovalSettled'
    BY FrameFacts DEF ListOwed, RemovalSettled
  <2>3. OpenWrtLoaded'
    BY FrameFacts DEF OpenWrtLoaded, Kept, Accounted
  <2>4. QED BY <2>1, <2>2, <2>3, OweStep
<1>4. QED BY <1>1, <1>2, <1>3

LEMMA GrowSecures ==
    ASSUME Frame, router.barred \cup router.paused \subseteq router'.barred \cup router'.paused,
           router.rules \cap router.running \subseteq router'.rules \cap router'.running,
           NEW d, Secured(d)
    PROVE  Secured(d)'
BY DEF Frame, Secured, Owner

LEMMA OwnerOf ==
    ASSUME NEW r, NEW e \in {"rule", "mac"}, NEW c, r.name = <<e, c>>, NEW d, Owner(r, d)
    PROVE  d = c
BY DEF Owner

LEMMA NamedOwner ==
    ASSUME NEW r, NEW e \in {"rule", "mac"}, NEW d, r.name = <<e, d>>
    PROVE  Owner(r, d) /\ r.name[1] = e
BY DEF Owner

\* The rule of an order that stands.
LEMMA GrowOwes ==
    ASSUME Frame, router'.barred \subseteq router.barred, router'.paused \subseteq router.paused,
           NEW n, AllRules' \subseteq AllRules \cup {n}, NEW e \in {"rule", "mac"},
           n.name = <<e, call.device>>, <<e, n.id>> \in owed[call.device],
           NEW d \in Device, Owes(d)
    PROVE  Owes(d)'
<1>1. Plugin' = Plugin /\ owed' = owed /\ addr' = addr
  BY PluginStays DEF Frame
<1>2. Entry("blockMAC")' = Entry("blockMAC")
  BY <1>1 DEF Entry
<1>3. Owner(n, d) => n.name[1] = e /\ d = call.device
  BY OwnerOf
<1>4. QED BY <1>1, <1>2, <1>3 DEF Owes, ByHand, Ordered, Owner

LEMMA SettledStays ==
    ASSUME Frame, router'.rules = router.rules, router'.barred = router.barred,
           router'.paused = router.paused, Settled
    PROVE  Settled'
<1>1. Plugin' = Plugin /\ owed' = owed
  BY PluginStays DEF Frame
<1>2. Entry(call.method)' = Entry(call.method) /\ ruleIndexFor' = ruleIndexFor /\ List' = List
  BY <1>1 DEF Entry, ruleIndexFor, List, Frame
<1>3. RuleEach' = RuleEach /\ Flagged' = Flagged /\ ByHand(call.device)' = ByHand(call.device)
  BY <1>1 DEF RuleEach, Flagged, Frame, ByHand
<1>4. RulesSettled => RulesSettled'
  BY <1>1, <1>2, <1>3 DEF RulesSettled, Frame
<1>5. QED BY <1>1, <1>2, <1>3, <1>4 DEF Settled, Frame

\* The first rule of a name is deleted: those that remain are covered by its order.
LEMMA DeleteSettles ==
    ASSUME Shape, Frame, Owes(call.device), NEW e \in {"rule", "mac"},
           NEW R, R \subseteq router.rules, R # {}, First(R).name = <<e, call.device>>,
           \A r \in router.rules : r.name = <<e, call.device>> => r \in R,
           router'.rules = router.rules \ {First(R)}
    PROVE  \/ ByHand(call.device)
           \/ \A r \in router'.rules : r.name = <<e, call.device>> =>
                \E n \in 0..MaxCalls : n < r.id /\ <<e, n>> \in owed[call.device]
<1>1. \A r \in R : /\ r.id \in 0..MaxCalls /\ r.id \in Nat /\ r \in AllRules
                   /\ r.name[1] = e => r.id > 0
  BY Bounds DEF Shape, TypeOK, RouterState, Rule, RuleShape, GoodRule, AllRules
<1>2. First(R) \in R /\ \A s \in R : First(R).id <= s.id
  BY <1>1, FirstIsLeast
<1>3. Owner(First(R), call.device) /\ First(R).name[1] = e
  BY NamedOwner
<1>4. ByHand(call.device) \/ <<e, First(R).id>> \in owed[call.device]
  BY <1>1, <1>2, <1>3 DEF Owes
<1>5. ASSUME NEW r \in router'.rules, r.name = <<e, call.device>>
      PROVE  First(R).id < r.id
  <2>1. r \in R /\ r # First(R)
    BY <1>5
  <2>2. First(R).id # r.id
    BY <1>1, <1>2, <1>3, <2>1 DEF Shape, RuleIds
  <2>3. First(R).id <= r.id /\ First(R).id \in Nat /\ r.id \in Nat
    BY <1>1, <1>2, <2>1
  <2>4. QED BY <2>2, <2>3
<1>6. QED BY <1>1, <1>2, <1>4, <1>5

----------------------------------------------------------------------------
\* The steps of OpenWrt.

LEMMA OpenWrtStep ==
    ASSUME Shape, InForce, Accounted, OpenWrt
    PROVE  Shape' /\ InForce' /\ Accounted'
<1>1. TypeOK /\ CallShape
  BY DEF Shape
<1>2. TypeOK' /\ Frame
  BY <1>1, OpenWrtType
<1>3. call.result = "none" /\ ~dryRun
  BY <1>2 DEF Frame, Shape, CallShape
<1> USE <1>1, <1>2, <1>3 DEF At, Throws
<1>4. CASE openwrtLogin
  <2>1. /\ Kept /\ call'.result # "ok" /\ call'.pc \in {"go", "returned"} /\ call.pc = "login"
    BY <1>4, CallFields DEF openwrtLogin, Read, Kept
  <2>2. QED BY <2>1, PlainStep
<1>5. CASE uciSetAndCommit
  <2> DEFINE n == [id |-> calls, name |-> Name, ip |-> Ip, mac |-> call.device]
             e == IF call.method \in ByMac THEN "mac" ELSE "rule"
  <2>1. /\ Plugin = "openwrt" /\ call.method \in Blocks /\ call.pc = "go"
        /\ call'.pc \in {"reload", "returned"} /\ call'.result # "ok"
    BY <1>5, CallFields DEF uciSetAndCommit, Send
  <2>2. /\ router'.running = router.running /\ router'.barred = router.barred
        /\ router'.paused = router.paused
        /\ \/ router'.rules = router.rules \cup {n}
           \/ /\ router'.rules = router.rules
              /\ call'.pc = "returned" \/ "ignored" \in kinds'
        /\ call'.pc = "returned" => router'.rules = router.rules \/ "unanswered" \in kinds'
    BY <1>5, CallFields DEF uciSetAndCommit, Send, Disturb, TypeOK, RouterState
  <2>3. AllRules' \subseteq AllRules \cup {n}
    BY <2>2 DEF AllRules
  <2>4. /\ n.id = calls /\ n.name = <<e, call.device>> /\ Entry(call.method) = e
        /\ n.ip = (IF call.method \in ByMac THEN None ELSE call.ip) /\ n.mac = call.device
    BY <2>1 DEF Name, Ip, Entry
  <2>5. GoodRule(n)
    BY <2>1, <2>4, Bounds DEF GoodRule, CallShape, TypeOK
  <2>6. RouterShape'
    BY <2>1, <2>2, FrameFacts DEF RouterShape, Shape
  <2>7. Shape'
    <3> HIDE DEF n, e
    <3> QED BY <2>1, <2>3, <2>4, <2>5, <2>6, GrowShape
  <2>8. InForce'
    <3>1. OkSecured' /\ BlockProgress'
      BY <2>1, FrameFacts DEF OkSecured, BlockProgress
    <3>2. \A d \in held : Secured(d) => Secured(d)'
      BY <2>2, GrowSecures
    <3>3. QED BY <3>1, <3>2, SecureStep
  <2>9. Accounted'
    <3>1. \A d \in Device : Owes(d) => Owes(d)'
      <4>1. <<e, calls>> \in owed[call.device]
        BY <2>1, <2>4, FrameFacts
      <4> HIDE DEF n, e
      <4>2. e \in {"rule", "mac"}
        BY DEF e
      <4>3. QED BY <2>2, <2>3, <2>4, <4>1, <4>2, GrowOwes
    <3>2. ListOwed' /\ RemovalSettled'
      BY <2>1, FrameFacts DEF ListOwed, RemovalSettled, Frame, Blocks, Lifts
    <3>3. OpenWrtLoaded'
      <4>1. Undisturbed' => "ignored" \notin kinds' /\ "unanswered" \notin kinds'
        BY <2>1, FrameFacts, Spoilers DEF Undisturbed
      <4>2. Undisturbed' => router.running = router.rules
        BY <2>1, FrameFacts DEF OpenWrtLoaded, Accounted
      <4>3. n.name = Name' /\ findFirewallRuleSection' = {r \in router'.rules : r.name = Name'}
        BY DEF findFirewallRuleSection, Name, Frame
      <4>4. Undisturbed' /\ call'.pc = "reload" => n \in router'.rules
        BY <2>2, <4>1
      <4> HIDE DEF n
      <4>5. QED BY <2>1, <2>2, <4>1, <4>2, <4>3, <4>4 DEF OpenWrtLoaded
    <3>4. QED BY <3>1, <3>2, <3>3, OweStep
  <2>10. QED BY <2>7, <2>8, <2>9
<1>6. CASE openwrtReload
  <2>1. /\ Plugin = "openwrt" /\ call.method \in Blocks /\ call.pc = "reload"
        /\ call'.pc = "verify" /\ call'.result # "ok"
    BY <1>6, CallFields DEF openwrtReload, reloadService, Attempt
  <2>2. /\ router'.rules = router.rules /\ router'.barred = router.barred
        /\ router'.paused = router.paused
        /\ \/ router'.running = router.rules
           \/ router'.running = router.running /\ "reload" \in kinds'
    BY <1>6 DEF openwrtReload, reloadService, Attempt, Disturb, TypeOK, RouterState
  <2>3. Shape'
    BY <2>1, <2>2, ShrinkShape, FrameFacts DEF AllRules, RouterShape, Shape, FoundStays
  <2>4. InForce'
    <3>1. Unspoiled' => router'.running = router'.rules
      BY <2>1, <2>2, FrameFacts, Spoilers DEF Unspoiled
    <3>2. OkSecured' /\ BlockProgress'
      BY <2>1, <3>1, FrameFacts DEF OkSecured, BlockProgress
    <3>3. \A d \in held : Secured(d) => Secured(d)'
      BY <2>2, GrowSecures
    <3>4. QED BY <3>2, <3>3, SecureStep
  <2>5. Accounted'
    <3>1. \A d \in Device : Owes(d) => Owes(d)'
      BY <2>2, ShrinkOwes DEF AllRules
    <3>2. ListOwed' /\ RemovalSettled'
      BY <2>1, FrameFacts DEF ListOwed, RemovalSettled, Frame, Blocks, Lifts
    <3>3. Undisturbed' => router'.running = router'.rules /\ findFirewallRuleSection # {}
      BY <2>1, <2>2, FrameFacts, Spoilers DEF Undisturbed, Accounted, OpenWrtLoaded
    <3>4. findFirewallRuleSection' = findFirewallRuleSection
      BY <2>2 DEF findFirewallRuleSection, Name, Frame
    <3>5. OpenWrtLoaded'
      BY <2>1, <3>3, <3>4 DEF OpenWrtLoaded
    <3>6. QED BY <3>1, <3>2, <3>5, OweStep
  <2>6. QED BY <2>3, <2>4, <2>5
<1>7. CASE openwrtVerify
  <2>1. /\ Plugin = "openwrt" /\ call.method \in Blocks /\ call.pc = "verify" /\ Kept
        /\ call'.pc \in {"rollback", "returned"}
        /\ call'.result = "ok" => findFirewallRuleSection # {}
        /\ call'.pc = "rollback" => findFirewallRuleSection = {} \/ "unread" \in kinds'
    BY <1>7, CallFields DEF openwrtVerify, Read, Kept, Disturb
  <2>2. Shape'
    BY <2>1, KeptShape
  <2>3. InForce'
    <3>1. OkSecured'
      <4> SUFFICES ASSUME Unspoiled', call'.result = "ok"
                   PROVE  \E r \in router.rules \cap router.running : Owner(r, call.device)
        BY <2>1 DEF OkSecured, Kept, Frame, Owner
      <4>1. router.running = router.rules
        BY <2>1, FrameFacts DEF InForce, BlockProgress
      <4>2. PICK r \in router.rules : r.name = Name
        BY <2>1 DEF findFirewallRuleSection
      <4>3. QED BY <4>1, <4>2 DEF Owner, Name
    <3>2. BlockProgress'
      BY <2>1, FrameFacts DEF BlockProgress
    <3>3. QED BY <2>1, <3>1, <3>2, SecureStep, KeptSecures
  <2>4. Accounted'
    <3>1. \A d \in Device : Owes(d) => Owes(d)'
      BY <2>1, ShrinkOwes DEF AllRules, Kept
    <3>2. ListOwed' /\ RemovalSettled'
      BY <2>1, FrameFacts DEF ListOwed, RemovalSettled, Frame, Blocks, Lifts
    <3>3. OpenWrtLoaded'
      BY <2>1, FrameFacts, Spoilers DEF OpenWrtLoaded, Accounted, Kept, Undisturbed
    <3>4. QED BY <3>1, <3>2, <3>3, OweStep
  <2>5. QED BY <2>2, <2>3, <2>4
<1>8. CASE openwrtRollback
  <2>1. /\ Plugin = "openwrt" /\ call.method \in Blocks /\ call.pc = "rollback"
        /\ call'.pc = "returned" /\ call'.result = "unverified"
    BY <1>8, CallFields DEF openwrtRollback, Attempt
  <2>2. /\ router'.running = router.running /\ router'.barred = router.barred
        /\ router'.paused = router.paused /\ router'.rules \subseteq router.rules
        /\ \A r \in router.rules : r.id # calls => r \in router'.rules
    BY <1>8 DEF openwrtRollback, Attempt, TypeOK, RouterState
  <2>3. Shape'
    BY <2>1, <2>2, ShrinkShape, FrameFacts DEF AllRules, RouterShape, Shape, FoundStays
  <2>4. InForce'
    <3>1. OkSecured' /\ BlockProgress'
      BY <2>1, FrameFacts DEF OkSecured, BlockProgress
    <3>2. \A d \in held : Secured(d) => Secured(d)'
      BY <2>1, <2>2, FrameFacts DEF Secured, Owner, Frame
    <3>3. QED BY <3>1, <3>2, SecureStep
  <2>5. Accounted'
    <3>1. \A d \in Device : Owes(d) => Owes(d)'
      BY <2>2, ShrinkOwes DEF AllRules
    <3>2. ListOwed' /\ RemovalSettled'
      BY <2>1, FrameFacts DEF ListOwed, RemovalSettled, Frame, Blocks, Lifts
    <3>3. OpenWrtLoaded'
      BY <2>1, FrameFacts DEF OpenWrtLoaded, Accounted
    <3>4. QED BY <3>1, <3>2, <3>3, OweStep
  <2>6. QED BY <2>3, <2>4, <2>5
<1>9. CASE openwrtFind
  <2>1. /\ Plugin = "openwrt" /\ call.method \in Lifts /\ call.pc = "go" /\ Kept
        /\ \/ call'.pc = "returned" /\ (call'.result = "failed" \/ findFirewallRuleSection = {})
           \/ call'.pc = "returned" /\ "unread" \in kinds'
           \/ call'.pc = "delete" /\ findFirewallRuleSection # {}
    BY <1>9, CallFields DEF openwrtFind, Read, Kept, Disturb
  <2>2. Shape'
    <3>1. findFirewallRuleSection' = findFirewallRuleSection
      BY <2>1 DEF findFirewallRuleSection, Name, Frame, Kept
    <3>2. QED BY <2>1, <3>1, KeptShape, FrameFacts DEF FoundStays
  <2>3. InForce'
    <3>1. OkSecured' /\ BlockProgress'
      BY <2>1, FrameFacts DEF OkSecured, BlockProgress, Frame, Blocks, Lifts
    <3>2. QED BY <2>1, <3>1, SecureStep, KeptSecures
  <2>4. Accounted'
    <3>1. \A d \in Device : Owes(d) => Owes(d)'
      BY <2>1, ShrinkOwes DEF AllRules, Kept
    <3>2. ListOwed' /\ OpenWrtLoaded'
      BY <2>1, FrameFacts DEF ListOwed, OpenWrtLoaded, Accounted, Kept, Frame, Blocks, Lifts
    <3>3. RemovalSettled'
      <4>1. Entry(call.method) = IF call.method \in ByMac THEN "mac" ELSE "rule"
        BY <2>1 DEF Entry
      <4>2. findFirewallRuleSection = {} => Settled
        BY <2>1, <4>1
           DEF Settled, findFirewallRuleSection, Name, RulesSettled, Flagged, SlotRouters
      <4>3. Undisturbed' /\ call'.result = "ok" => Settled'
        BY <2>1, <4>2, SettledStays, FrameFacts, Spoilers DEF Undisturbed, Kept, TypeOK
      <4>4. QED BY <2>1, <4>3, FrameFacts DEF RemovalSettled
    <3>4. QED BY <3>1, <3>2, <3>3, OweStep
  <2>5. QED BY <2>2, <2>3, <2>4
<1>10. CASE removeUciSection
  <2> DEFINE e == IF call.method \in ByMac THEN "mac" ELSE "rule"
             R == findFirewallRuleSection
  <2>1. /\ Plugin = "openwrt" /\ call.method \in Lifts /\ call.pc = "delete"
        /\ call'.pc \in {"reload", "returned"} /\ call'.result # "ok"
    BY <1>10, CallFields DEF removeUciSection, Send
  <2>2. /\ router'.running = router.running /\ router'.barred = router.barred
        /\ router'.paused = router.paused
        /\ \/ router'.rules = router.rules \ {First(R)}
           \/ /\ router'.rules = router.rules
              /\ call'.pc = "returned" \/ "ignored" \in kinds'
        /\ call'.pc = "returned" => router'.rules = router.rules \/ "unanswered" \in kinds'
    BY <1>10, CallFields DEF removeUciSection, Send, Disturb, TypeOK, RouterState
  <2>3. /\ Name = <<e, call.device>> /\ Entry(call.method) = e /\ e \in {"rule", "mac"}
        /\ R = {r \in router.rules : r.name = <<e, call.device>>} /\ R # {}
    BY <2>1 DEF Name, Entry, Shape, FoundStays, findFirewallRuleSection
  <2> HIDE DEF e, R
  <2>4. First(R) \in R
    <3>1. \A r \in R : r.id \in Nat
      BY <2>3, Bounds DEF TypeOK, RouterState, Rule
    <3>2. QED BY <2>3, <3>1, FirstIsLeast
  <2>5. Shape'
    BY <2>1, <2>2, ShrinkShape, FrameFacts DEF AllRules, RouterShape, Shape, FoundStays
  <2>6. InForce'
    <3>1. OkSecured' /\ BlockProgress'
      BY <2>1, FrameFacts DEF OkSecured, BlockProgress
    <3>2. \A d \in held : Secured(d) => Secured(d)'
      <4> SUFFICES ASSUME NEW d \in held, Secured(d) PROVE Secured(d)'
        OBVIOUS
      <4>1. d # call.device
        BY <2>1, FrameFacts
      <4>2. ~Owner(First(R), d)
        BY <2>3, <2>4, <4>1, OwnerOf
      <4>3. QED BY <2>2, <4>2, FrameFacts DEF Secured, Frame, Owner
    <3>3. QED BY <3>1, <3>2, SecureStep
  <2>7. Accounted'
    <3>1. \A d \in Device : Owes(d) => Owes(d)'
      BY <2>2, ShrinkOwes DEF AllRules
    <3>2. Undisturbed' => Undisturbed /\ "ignored" \notin kinds' /\ "unanswered" \notin kinds'
      BY <2>1, FrameFacts, Spoilers DEF Undisturbed
    <3>3. ListOwed' /\ OpenWrtLoaded'
      BY <2>1, <2>2, <3>2, FrameFacts
         DEF ListOwed, OpenWrtLoaded, Accounted, Frame, Blocks, Lifts
    <3>4. RemovalSettled'
      <4> SUFFICES ASSUME Undisturbed', call'.pc = "reload" PROVE Settled'
        BY <2>1, FrameFacts DEF RemovalSettled
      <4>1. router'.rules = router.rules \ {First(R)} /\ Owes(call.device)
        BY <2>1, <2>2, <3>2 DEF Accounted, BlocksOwed, CallShape
      <4>5. /\ First(R).name = <<e, call.device>> /\ R \subseteq router.rules
            /\ \A r \in router.rules : r.name = <<e, call.device>> => r \in R
        BY <2>3, <2>4
      <4>2. \/ ByHand(call.device)
            \/ \A r \in router'.rules : r.name = <<e, call.device>> =>
                \E n \in 0..MaxCalls : n < r.id /\ <<e, n>> \in owed[call.device]
        BY <2>3, <4>1, <4>5, DeleteSettles
      <4>3. Plugin' = "openwrt" /\ Entry(call.method)' = e /\ owed' = owed
            /\ call'.device = call.device
        BY <2>1, <2>3, FrameFacts DEF Entry, Frame
      <4>4. ByHand(call.device)' \/ RulesSettled'
        BY <4>2, <4>3 DEF RulesSettled, ByHand
      <4>6. QED BY <4>3, <4>4 DEF Settled, Flagged, SlotRouters, ByHand
    <3>5. QED BY <3>1, <3>3, <3>4, OweStep
  <2>8. QED BY <2>5, <2>6, <2>7
<1>11. CASE openwrtReloadRemoved
  <2>1. /\ Plugin = "openwrt" /\ call.method \in Lifts /\ call.pc = "reload"
        /\ call'.pc = "returned"
    BY <1>11, CallFields DEF openwrtReloadRemoved, reloadService, Attempt
  <2>2. /\ router'.rules = router.rules /\ router'.barred = router.barred
        /\ router'.paused = router.paused
        /\ \/ router'.running = router.rules
           \/ router'.running = router.running /\ "reload" \in kinds'
    BY <1>11 DEF openwrtReloadRemoved, reloadService, Attempt, Disturb, TypeOK, RouterState
  <2>3. Shape'
    BY <2>1, <2>2, ShrinkShape, FrameFacts DEF AllRules, RouterShape, Shape, FoundStays
  <2>4. InForce'
    <3>1. OkSecured' /\ BlockProgress'
      BY <2>1, FrameFacts DEF OkSecured, BlockProgress, Frame, Blocks, Lifts
    <3>2. \A d \in held : Secured(d) => Secured(d)'
      BY <2>2, GrowSecures
    <3>3. QED BY <3>1, <3>2, SecureStep
  <2>5. Accounted'
    <3>1. \A d \in Device : Owes(d) => Owes(d)'
      BY <2>2, ShrinkOwes DEF AllRules
    <3>2. ListOwed' /\ OpenWrtLoaded'
      BY <2>1, <2>2, FrameFacts, Spoilers
         DEF ListOwed, OpenWrtLoaded, Undisturbed, Accounted, Frame, Blocks, Lifts
    <3>3. RemovalSettled'
      <4>1. Undisturbed' => Settled
        BY <2>1, FrameFacts DEF Accounted, RemovalSettled
      <4>2. QED BY <2>2, <4>1, SettledStays DEF RemovalSettled
    <3>4. QED BY <3>1, <3>2, <3>3, OweStep
  <2>6. QED BY <2>3, <2>4, <2>5
<1>12. CASE openwrtDisconnect
  <2>1. /\ call.method = "disconnectClient" /\ call.pc = "go" /\ call'.pc = "returned"
    BY <1>12, CallFields DEF openwrtDisconnect, Send
  <2>2. Kept
    BY <1>12 DEF openwrtDisconnect, Send, Kick, Kept, TypeOK, RouterState
  <2>3. QED BY <2>1, <2>2, OtherStep DEF Blocks, Lifts
<1>13. CASE openwrtChangeDNS
  BY <1>13, DnsStep DEF openwrtChangeDNS
<1>14. QED
  BY <1>4, <1>5, <1>6, <1>7, <1>8, <1>9, <1>10, <1>11, <1>12, <1>13 DEF OpenWrt

----------------------------------------------------------------------------
\* The steps of the plugins that set a flag of the client's.

FlagRouters == {"unifi", "tplink_omada", "keenetic", "fritzbox"}

LEMMA FlagBlockStep ==
    ASSUME Shape, InForce, Accounted, TypeOK', Frame, Plugin \in FlagRouters,
           call.method \in Blocks, Plugin = "unifi" => call.method \notin Rules,
           call'.pc \in {"verify", "returned"},
           UNCHANGED <<router.rules, router.running, router.paused>>,
           router.barred \subseteq router'.barred,
           Undisturbed' => router'.barred \subseteq router.barred \cup {call.device},
           Unspoiled' /\ (call'.result = "ok" \/ (call'.pc = "verify" /\ Plugin \in Controllers))
                => call.device \in router'.barred
    PROVE  Shape' /\ InForce' /\ Accounted'
<1>1. Plugin' = Plugin /\ call'.method = call.method /\ call'.device = call.device
  BY FrameFacts DEF Frame
<1>2. Plugin \notin RuleRouters \cup {"linksys"}
  BY DEF FlagRouters, RuleRouters, SlotRouters
<1>3. Shape'
  BY <1>1, <1>2, ShrinkShape DEF AllRules, RouterShape, Shape, FoundStays
<1>4. InForce'
  <2>1. OkSecured' /\ BlockProgress'
    BY <1>1, <1>2 DEF OkSecured, BlockProgress, Controllers, RuleRouters
  <2>2. \A d \in held : Secured(d) => Secured(d)'
    BY GrowSecures
  <2>3. QED BY <2>1, <2>2, SecureStep
<1>5. Accounted'
  <2>1. ASSUME Undisturbed', NEW d \in Device, Owes(d) PROVE Owes(d)'
    <3>1. Entry("blockMAC")' = Entry("blockMAC") /\ Entry(call.method) = Entry("blockMAC")
          /\ owed' = owed /\ addr' = addr
      BY <1>1 DEF Entry, Frame, FlagRouters, Rules
    <3>2. calls \in 0..MaxCalls /\ <<Entry(call.method), calls>> \in owed[call.device]
      BY FrameFacts DEF Shape, TypeOK
    <3>3. QED BY <2>1, <3>1, <3>2 DEF Owes, ByHand, Ordered, Owner, AllRules
  <2>2. ListOwed' /\ RemovalSettled' /\ OpenWrtLoaded'
    BY <1>1, <1>2 DEF ListOwed, RemovalSettled, OpenWrtLoaded, Blocks, Lifts, RuleRouters
  <2>3. QED BY <2>1, <2>2, OweStep
<1>6. QED BY <1>3, <1>4, <1>5

LEMMA FlagLiftStep ==
    ASSUME Shape, InForce, Accounted, TypeOK', Frame, Plugin \in FlagRouters,
           call.method \in Lifts, Plugin = "unifi" => call.method \notin Rules,
           call'.pc \in {"verify", "returned"},
           UNCHANGED <<router.rules, router.running, router.paused>>,
           router'.barred \subseteq router.barred,
           Unspoiled' => router.barred \ {call.device} \subseteq router'.barred,
           Undisturbed' /\ (call'.result = "ok" \/ call'.pc = "verify") =>
                ByHand(call.device) \/ call.device \notin router'.barred
    PROVE  Shape' /\ InForce' /\ Accounted'
<1>1. Plugin' = Plugin /\ call'.method = call.method /\ call'.device = call.device
      /\ owed' = owed
  BY FrameFacts DEF Frame
<1>2. Plugin \notin RuleRouters \cup {"linksys"} /\ call.method \notin Blocks
  BY DEF FlagRouters, RuleRouters, SlotRouters, Blocks, Lifts
<1>3. Shape'
  BY <1>1, <1>2, ShrinkShape DEF AllRules, RouterShape, Shape, FoundStays
<1>4. InForce'
  <2>1. OkSecured' /\ BlockProgress'
    BY <1>1, <1>2 DEF OkSecured, BlockProgress, Controllers, RuleRouters
  <2>2. Unspoiled' => \A d \in held : Secured(d) => Secured(d)'
    BY FrameFacts DEF Secured, Owner, Frame
  <2>3. QED BY <2>1, <2>2, SecureStep
<1>5. Accounted'
  <2>1. \A d \in Device : Owes(d) => Owes(d)'
    BY ShrinkOwes DEF AllRules
  <2>2. ListOwed' /\ OpenWrtLoaded'
    BY <1>1, <1>2 DEF ListOwed, OpenWrtLoaded, RuleRouters
  <2>3. RemovalSettled'
    <3>1. RulesSettled' /\ Plugin' \notin SlotRouters \cup {"linksys"}
          /\ ByHand(call.device)' = ByHand(call.device)
      BY <1>1, <1>2 DEF RulesSettled, RuleEach, RuleRouters, ByHand
    <3>2. ByHand(call.device) \/ call.device \notin router'.barred => Settled'
      BY <1>1, <3>1 DEF Settled, Flagged
    <3>3. QED BY <1>1, <1>2, <3>2 DEF RemovalSettled, RuleRouters
  <2>4. QED BY <2>1, <2>2, <2>3, OweStep
<1>6. QED BY <1>3, <1>4, <1>5

\* What a removal of a flag has achieved when it comes to verify.
LEMMA FlagLifted ==
    ASSUME Shape, InForce, Accounted, Frame, Plugin \in FlagRouters \ {"fritzbox"},
           call.method \in Lifts, Plugin = "unifi" => call.method \notin Rules,
           call.pc = "verify", Undisturbed'
    PROVE  ByHand(call.device) \/ call.device \notin router.barred
<1>1. Settled
  BY FrameFacts DEF Accounted, RemovalSettled, FlagRouters
<1>2. Flagged
  BY DEF Flagged, FlagRouters
<1>3. QED BY <1>1, <1>2 DEF Settled

\* The router after a request about a flag.
LEMMA FlagFields ==
    ASSUME TypeOK
    PROVE  \A d : /\ Bar(d).rules = router.rules /\ Bar(d).running = router.running
                  /\ Bar(d).paused = router.paused /\ Bar(d).barred = router.barred \cup {d}
                  /\ Deny(d).rules = router.rules /\ Deny(d).running = router.running
                  /\ Deny(d).paused = router.paused /\ Deny(d).barred = router.barred \cup {d}
                  /\ Unbar(d).rules = router.rules /\ Unbar(d).running = router.running
                  /\ Unbar(d).paused = router.paused /\ Unbar(d).barred = router.barred \ {d}
                  /\ Kick(d).rules = router.rules /\ Kick(d).running = router.running
                  /\ Kick(d).paused = router.paused /\ Kick(d).barred = router.barred
BY DEF TypeOK, RouterState, Bar, Deny, Unbar, Kick

LEMMA OmadaStep ==
    ASSUME Shape, InForce, Accounted, Omada
    PROVE  Shape' /\ InForce' /\ Accounted'
<1>1. TypeOK /\ CallShape
  BY DEF Shape
<1>2. TypeOK' /\ Frame
  BY <1>1, OmadaType
<1>3. Plugin = "tplink_omada" /\ call.result = "none"
  BY <1>2 DEF Omada, omadaLogin, omadaBlockMAC, omadaUnblockMAC, omadaDisconnect, At, Frame
<1>4. BlockSpoilers = {"ignored"} /\ LiftSpoilers = {"ignored"} /\ UNCHANGED <<BlockSpoilers, LiftSpoilers>>
  BY <1>2, <1>3, Spoilers, FrameFacts
<1> USE <1>1, <1>2, <1>3 DEF At, Throws, Client
<1>5. CASE omadaLogin
  <2>1. /\ Kept /\ call'.result # "ok" /\ call'.pc \in {"go", "returned"} /\ call.pc = "login"
    BY <1>5, CallFields DEF omadaLogin, Read, Kept
  <2>2. QED BY <2>1, PlainStep
<1>6. CASE omadaBlockMAC
  <2>1. /\ call.method \in Blocks /\ call'.pc \in {"verify", "returned"}
        /\ UNCHANGED <<router.rules, router.running, router.paused>>
        /\ router'.barred \in {router.barred, router.barred \cup {call.device}}
    BY <1>6, CallFields, FlagFields DEF omadaBlockMAC, Read, Send
  <2>2. Unspoiled' /\ (call'.result = "ok" \/ call'.pc = "verify") => call.device \in router'.barred
    <3> SUFFICES ASSUME Unspoiled', call'.result = "ok" \/ call'.pc = "verify"
                 PROVE  call.device \in router'.barred
      OBVIOUS
    <3>1. "ignored" \notin kinds'
      BY <1>4 DEF Unspoiled
    <3>2. CASE call.pc = "go"
      BY <1>6, <3>1, <3>2, CallFields, FlagFields DEF omadaBlockMAC, Send, Disturb
    <3>3. CASE call.pc = "verify"
      <4>1. call.device \in router.barred
        BY <2>1, <3>3, FrameFacts DEF InForce, BlockProgress
      <4>2. QED BY <1>6, <3>3, <4>1 DEF omadaBlockMAC, Read
    <3>4. QED BY <1>6, <3>2, <3>3 DEF omadaBlockMAC
  <2>3. QED BY <2>1, <2>2, FlagBlockStep DEF FlagRouters
<1>7. CASE omadaUnblockMAC
  <2>1. /\ call.method \in Lifts /\ call'.pc \in {"verify", "returned"}
        /\ UNCHANGED <<router.rules, router.running, router.paused>>
        /\ router'.barred \in {router.barred, router.barred \ {call.device}}
    BY <1>7, CallFields, FlagFields DEF omadaUnblockMAC, Read, Send
  <2>2. ASSUME Undisturbed', call'.result = "ok" \/ call'.pc = "verify"
        PROVE  ByHand(call.device) \/ call.device \notin router'.barred
    <3>1. "ignored" \notin kinds'
      BY <1>4, <2>2 DEF Undisturbed
    <3>2. CASE call.pc = "go"
      BY <1>7, <2>2, <3>1, <3>2, CallFields, FlagFields DEF omadaUnblockMAC, Send, Disturb
    <3>3. CASE call.pc = "verify"
      BY <1>7, <2>1, <2>2, <3>3, FlagLifted DEF omadaUnblockMAC, Read, FlagRouters
    <3>4. QED BY <1>7, <3>2, <3>3 DEF omadaUnblockMAC
  <2>3. QED BY <2>1, <2>2, FlagLiftStep DEF FlagRouters
<1>8. CASE omadaDisconnect
  <2>1. /\ call.method = "disconnectClient" /\ call.pc \in {"go", "kick"}
        /\ call'.pc \in {"kick", "returned"} /\ Kept
    BY <1>8, CallFields, FlagFields DEF omadaDisconnect, Read, Send, Kept
  <2>2. QED BY <2>1, OtherStep DEF Blocks, Lifts
<1>9. QED BY <1>5, <1>6, <1>7, <1>8 DEF Omada

LEMMA KeeneticStep ==
    ASSUME Shape, InForce, Accounted, Keenetic
    PROVE  Shape' /\ InForce' /\ Accounted'
<1>1. TypeOK /\ CallShape
  BY DEF Shape
<1>2. TypeOK' /\ Frame
  BY <1>1, KeeneticType
<1>3. CASE keeneticChangeDNS
  BY <1>3, DnsStep DEF keeneticChangeDNS
<1>4. CASE keeneticBlockMAC
  <2> USE <1>1, <1>2 DEF At, Throws, Client
  <2>1. /\ call.method \in Blocks /\ call'.pc \in {"verify", "returned"}
        /\ UNCHANGED <<router.rules, router.running, router.paused>>
        /\ router'.barred \in {router.barred, router.barred \cup {call.device}}
        /\ Plugin = "keenetic"
    BY <1>4, CallFields, FlagFields DEF keeneticBlockMAC, Read, Send
  <2>2. call'.result = "ok" => call.device \in router'.barred
    BY <1>4, CallFields DEF keeneticBlockMAC, Read, Send, Frame
  <2>3. QED BY <2>1, <2>2, FlagBlockStep DEF FlagRouters, Controllers
<1>5. CASE keeneticUnblockMAC
  <2> USE <1>1, <1>2 DEF At, Throws, Client
  <2>1. /\ call.method \in Lifts /\ call'.pc \in {"verify", "returned"}
        /\ UNCHANGED <<router.rules, router.running, router.paused>>
        /\ router'.barred \in {router.barred, router.barred \ {call.device}}
        /\ Plugin = "keenetic"
    BY <1>5, CallFields, FlagFields DEF keeneticUnblockMAC, Read, Send
  <2>2. ASSUME Undisturbed', call'.result = "ok" \/ call'.pc = "verify"
        PROVE  ByHand(call.device) \/ call.device \notin router'.barred
    <3>1. "ignored" \notin kinds'
      BY <2>1, <2>2, Spoilers, FrameFacts DEF Undisturbed
    <3>2. CASE call.pc = "go"
      BY <1>5, <2>2, <3>1, <3>2, CallFields, FlagFields DEF keeneticUnblockMAC, Send, Disturb, Frame
    <3>3. CASE call.pc = "verify"
      BY <1>5, <2>1, <2>2, <3>3, FlagLifted DEF keeneticUnblockMAC, Read, FlagRouters
    <3>4. QED BY <1>5, <3>2, <3>3 DEF keeneticUnblockMAC
  <2>3. QED BY <2>1, <2>2, FlagLiftStep DEF FlagRouters
<1>6. QED BY <1>3, <1>4, <1>5 DEF Keenetic

\* Where nothing moved, the host at the address is the device of the call.
LEMMA HostIsClient ==
    ASSUME Shape, Still, call.method \in Blocks \cup Lifts PROVE Host = {call.device}
<1>1. call.device \in Device /\ call.ip \in {None, addr[call.device]}
  BY DEF Shape, CallShape
<1>2. QED BY <1>1 DEF Host, AddressGiven, Client, Shape, AddressesApart

LEMMA FritzBoxStep ==
    ASSUME Shape, InForce, Accounted, FritzBox
    PROVE  Shape' /\ InForce' /\ Accounted'
<1>1. TypeOK /\ CallShape
  BY DEF Shape
<1>2. TypeOK' /\ Frame
  BY <1>1, FritzBoxType
<1>3. CASE fritzChangeDNS
  BY <1>3, DnsStep DEF fritzChangeDNS
<1>4. CASE fritzResolve
  <2>1. /\ Kept /\ call'.result # "ok" /\ call'.pc \in {"set", "returned"} /\ call.pc = "go"
        /\ Plugin = "fritzbox"
    BY <1>1, <1>2, <1>4, CallFields DEF fritzResolve, Read, Kept, At, Throws, Frame
  <2>2. QED BY <1>2, <2>1, PlainStep
<1>5. CASE fritzApplyFirewallRule
  <2> USE <1>1, <1>2 DEF At, Throws, Client
  <2>1. /\ call.method \in Blocks /\ call'.pc = "returned"
        /\ UNCHANGED <<router.rules, router.running, router.paused>>
        /\ router'.barred \in {router.barred, router.barred \cup Host}
        /\ call'.result = "ok" => router'.barred = router.barred \cup Host \/ "ignored" \in kinds'
        /\ Plugin = "fritzbox"
    BY <1>5, CallFields DEF fritzApplyFirewallRule, Send, Disturb, TypeOK, RouterState
  <2>2. Unspoiled' /\ call'.result = "ok" => call.device \in router'.barred
    <3>1. Unspoiled' => "ignored" \notin kinds' /\ Still
      BY <2>1, Spoilers, FrameFacts DEF Unspoiled, Still
    <3>2. QED BY <2>1, <3>1, HostIsClient
  <2>3. Undisturbed' => router'.barred \subseteq router.barred \cup {call.device}
    <3>1. Undisturbed' => Still
      BY <2>1, Spoilers, FrameFacts DEF Undisturbed, Still
    <3>2. QED BY <2>1, <3>1, HostIsClient
  <2>4. QED BY <2>1, <2>2, <2>3, FlagBlockStep DEF FlagRouters, Controllers
<1>6. CASE fritzRemoveFirewallRule
  <2> USE <1>1, <1>2 DEF At, Throws, Client
  <2>1. /\ call.method \in Lifts /\ call'.pc = "returned"
        /\ UNCHANGED <<router.rules, router.running, router.paused>>
        /\ router'.barred \in {router.barred, router.barred \ Host}
        /\ call'.result = "ok" => router'.barred = router.barred \ Host \/ "ignored" \in kinds'
        /\ Plugin = "fritzbox"
    BY <1>6, CallFields DEF fritzRemoveFirewallRule, Send, Disturb, TypeOK, RouterState
  <2>2. Undisturbed' /\ call'.result = "ok" => call.device \notin router'.barred
    <3>1. Undisturbed' => "ignored" \notin kinds' /\ Still
      BY <2>1, Spoilers, FrameFacts DEF Undisturbed, Still
    <3>2. QED BY <2>1, <3>1, HostIsClient
  <2>3. Unspoiled' => router.barred \ {call.device} \subseteq router'.barred
    <3>1. Unspoiled' => Still
      BY <2>1, Spoilers, FrameFacts DEF Unspoiled, Still
    <3>2. QED BY <2>1, <3>1, HostIsClient
  <2>4. QED BY <2>1, <2>2, <2>3, FlagLiftStep DEF FlagRouters
<1>7. QED BY <1>3, <1>4, <1>5, <1>6 DEF FritzBox

----------------------------------------------------------------------------
\* The steps of the plugins that add a rule of their own: MikroTik and UniFi.

\* A rule is a pair of a kind and the device or the index it is for.
LEMMA NamePair ==
    ASSUME TypeOK, NEW r \in AllRules
    PROVE  r.name = <<r.name[1], r.name[2]>> /\ r.id \in Nat
BY Bounds DEF TypeOK, AllRules, RouterState, Rule

\* Where nothing moved, the rules for the address are those of the device that
\* has it, and all of them are found.
LEMMA RulesOfAddress ==
    ASSUME Shape, Still, Plugin \in {"mikrotik", "unifi"}, call.method \in Blocks \cup Lifts,
           call.ip # None, NEW r \in AllRules
    PROVE  r.name[1] = "rule" /\ r.ip = call.ip <=> r.name = <<"rule", call.device>>
<1>1. call.ip = addr[call.device] /\ call.device \in Device
  BY DEF Shape, CallShape
<1>2. r.name = <<r.name[1], r.name[2]>> /\ GoodRule(r)
  BY NamePair DEF Shape, RuleShape
<1>3. ASSUME r.name[1] = "rule"
      PROVE  r.ip = addr[r.name[2]] /\ r.name[2] \in Device
  <2>1. r.name \in {"rule", "mac", "hand"} \X Device
    BY <1>3 DEF Shape, TypeOK, AllRules, RouterState, Rule
  <2>2. QED BY <1>2, <1>3, <2>1 DEF GoodRule
<1>4. ASSUME r.name[1] = "rule", r.ip = call.ip PROVE r.name = <<"rule", call.device>>
  <2>1. r.name[2] = call.device
    BY <1>1, <1>3, <1>4 DEF Shape, AddressesApart
  <2>2. QED BY <1>2, <1>4, <2>1
<1>5. ASSUME r.name = <<"rule", call.device>> PROVE r.name[1] = "rule" /\ r.ip = call.ip
  BY <1>1, <1>3, <1>5
<1>6. QED BY <1>4, <1>5

LEMMA EntriesOfMac ==
    ASSUME Shape, Plugin = "mikrotik", NEW r \in AllRules
    PROVE  r.name[1] \in {"mac", "hand"} /\ r.mac = call.device
                <=> r.name \in {<<"mac", call.device>>, <<"hand", call.device>>}
<1>1. r.name = <<r.name[1], r.name[2]>> /\ GoodRule(r)
  BY NamePair DEF Shape, RuleShape
<1>2. ASSUME r.name[1] \in {"mac", "hand"} PROVE r.mac = r.name[2]
  BY <1>1, <1>2 DEF GoodRule
<1>3. QED BY <1>1, <1>2

LEMMA RuleAddStep ==
    ASSUME Shape, InForce, Accounted, TypeOK', Frame, Plugin \in {"mikrotik", "unifi"},
           call.pc = "go", call.method \in Blocks, Plugin = "unifi" => call.method \in Rules,
           call'.pc \in {"verify", "returned"}, call'.result # "ok",
           NEW n, GoodRule(n), n.id = calls, n.name = <<Entry(call.method), call.device>>,
           n.ip = IF call.method \in ByMac THEN None ELSE call.ip,
           router'.rules \in {router.rules, router.rules \cup {n}},
           router'.running = router'.rules, UNCHANGED <<router.barred, router.paused>>
    PROVE  Shape' /\ InForce' /\ Accounted'
<1>1. Plugin' = Plugin /\ call'.method = call.method /\ router.running = router.rules
  BY FrameFacts DEF Frame, Shape, RouterShape
<1>2. AllRules' \subseteq AllRules \cup {n}
  BY <1>1 DEF AllRules
<1>3. Shape'
  <2>1. RouterShape'
    BY <1>1 DEF RouterShape, Shape
  <2>2. QED BY <1>2, <2>1, GrowShape
<1>4. InForce'
  <2>1. OkSecured' /\ BlockProgress'
    BY <1>1 DEF OkSecured, BlockProgress
  <2>2. \A d \in held : Secured(d) => Secured(d)'
    BY <1>1, GrowSecures
  <2>3. QED BY <2>1, <2>2, SecureStep
<1>5. Accounted'
  <2>1. \A d \in Device : Owes(d) => Owes(d)'
    <3>1. <<Entry(call.method), calls>> \in owed[call.device]
      BY FrameFacts
    <3>2. Entry(call.method) \in {"rule", "mac"}
      BY DEF Entry
    <3>3. QED BY <1>2, <3>1, <3>2, GrowOwes
  <2>2. ListOwed' /\ RemovalSettled' /\ OpenWrtLoaded'
    BY <1>1 DEF ListOwed, RemovalSettled, OpenWrtLoaded, Blocks, Lifts
  <2>3. QED BY <2>1, <2>2, OweStep
<1>6. QED BY <1>3, <1>4, <1>5

\* A removal that deletes a rule of the device's, or none.
LEMMA RuleLiftStep ==
    ASSUME Shape, InForce, Accounted, TypeOK', Frame, Plugin \in {"mikrotik", "unifi"},
           call.method \in Lifts, Plugin = "unifi" => call.method \in Rules,
           call'.pc \in {"delete", "returned"}, call'.pc = "delete" => FoundStays',
           router'.rules \subseteq router.rules,
           router'.running = router'.rules, UNCHANGED <<router.barred, router.paused>>,
           Still' => \A r \in router.rules \ router'.rules :
                r.name \in {<<"rule", call.device>>, <<"mac", call.device>>,
                            <<"hand", call.device>>},
           Undisturbed' /\ call'.result = "ok" => ByHand(call.device) \/ RulesSettled'
    PROVE  Shape' /\ InForce' /\ Accounted'
<1>1. Plugin' = Plugin /\ call'.method = call.method /\ call'.device = call.device
      /\ router.running = router.rules /\ owed' = owed /\ call.method \notin Blocks
  BY FrameFacts DEF Frame, Shape, RouterShape, Blocks, Lifts
<1>2. AllRules' \subseteq AllRules
  BY <1>1 DEF AllRules
<1>3. Shape'
  <2>1. RouterShape'
    BY <1>1 DEF RouterShape, Shape
  <2>2. FoundStays'
    BY DEF FoundStays
  <2>3. QED BY <1>2, <2>1, <2>2, ShrinkShape
<1>4. InForce'
  <2>1. OkSecured' /\ BlockProgress'
    BY <1>1 DEF OkSecured, BlockProgress
  <2>2. ASSUME Unspoiled', NEW d \in held, Secured(d) PROVE Secured(d)'
    <3>1. d # call.device
      BY FrameFacts
    <3>2. Still'
      BY <1>1, <2>2, Spoilers, FrameFacts DEF Unspoiled, Still
    <3>3. \A r \in router.rules \ router'.rules : ~Owner(r, d)
      BY <3>1, <3>2 DEF Owner
    <3>4. QED BY <1>1, <2>2, <3>3 DEF Secured, Owner, Frame
  <2>3. QED BY <2>1, <2>2, SecureStep
<1>5. Accounted'
  <2>1. \A d \in Device : Owes(d) => Owes(d)'
    BY <1>2, ShrinkOwes
  <2>2. ListOwed' /\ OpenWrtLoaded'
    BY <1>1 DEF ListOwed, OpenWrtLoaded
  <2>3. RemovalSettled'
    <3>1. ByHand(call.device) \/ RulesSettled' => Settled'
      BY <1>1 DEF Settled, ByHand, Flagged, SlotRouters
    <3>2. QED BY <1>1, <3>1 DEF RemovalSettled
  <2>4. QED BY <2>1, <2>2, <2>3, OweStep
<1>6. QED BY <1>3, <1>4, <1>5

\* A verification or a last request of a method that blocks.
LEMMA RuleProof ==
    ASSUME Shape, InForce, Accounted, TypeOK', Frame, Plugin \in {"mikrotik", "unifi"},
           call.method \in Blocks, Plugin = "unifi" => call.method \in Rules,
           call'.pc \in {"rollback", "returned"},
           router'.rules \subseteq router.rules,
           \A r \in router.rules : r.id # calls => r \in router'.rules,
           router'.running = router'.rules, UNCHANGED <<router.barred, router.paused>>,
           Unspoiled' /\ call'.result = "ok" =>
                \E r \in router'.rules : Owner(r, call.device)
    PROVE  Shape' /\ InForce' /\ Accounted'
<1>1. Plugin' = Plugin /\ call'.method = call.method /\ call'.device = call.device
      /\ router.running = router.rules /\ call.method \notin Lifts
  BY FrameFacts DEF Frame, Shape, RouterShape, Blocks, Lifts
<1>2. AllRules' \subseteq AllRules
  BY <1>1 DEF AllRules
<1>3. Shape'
  <2>1. RouterShape' /\ FoundStays'
    BY <1>1 DEF RouterShape, Shape, FoundStays
  <2>2. QED BY <1>2, <2>1, ShrinkShape
<1>4. InForce'
  <2>1. OkSecured' /\ BlockProgress'
    BY <1>1 DEF OkSecured, BlockProgress, Owner
  <2>2. \A d \in held : Secured(d) => Secured(d)'
    BY <1>1, FrameFacts DEF Secured, Owner, Frame
  <2>3. QED BY <2>1, <2>2, SecureStep
<1>5. Accounted'
  <2>1. \A d \in Device : Owes(d) => Owes(d)'
    BY <1>2, ShrinkOwes
  <2>2. ListOwed' /\ OpenWrtLoaded' /\ RemovalSettled'
    BY <1>1 DEF ListOwed, OpenWrtLoaded, RemovalSettled
  <2>3. QED BY <2>1, <2>2, OweStep
<1>6. QED BY <1>3, <1>4, <1>5

LEMMA MikroTikStep ==
    ASSUME Shape, InForce, Accounted, MikroTik
    PROVE  Shape' /\ InForce' /\ Accounted'
<1>1. TypeOK /\ CallShape
  BY DEF Shape
<1>2. TypeOK' /\ Frame
  BY <1>1, MikroTikType
<1>3. call.result = "none"
  BY <1>2 DEF Frame
<1> USE <1>1, <1>2, <1>3 DEF At, Throws
<1>4. CASE mikrotikAdd
  <2> DEFINE mac == IF call.method \in ByMac THEN call.device ELSE None
             n == [id |-> calls, name |-> Name, ip |-> Ip, mac |-> mac]
  <2>1. /\ Plugin = "mikrotik" /\ call.method \in Blocks /\ call.pc = "go"
        /\ call'.pc \in {"verify", "returned"} /\ call'.result # "ok"
    BY <1>4, CallFields DEF mikrotikAdd, Send
  <2>2. router.running = router.rules
    BY <2>1 DEF Shape, RouterShape
  <2>3. /\ router'.rules \in {router.rules, router.rules \cup {n}}
        /\ router'.running = router'.rules /\ UNCHANGED <<router.barred, router.paused>>
    BY <1>4, <2>2, RouterFields DEF mikrotikAdd, Send, AddRule
  <2>4. /\ n.id = calls /\ n.name = <<Entry(call.method), call.device>>
        /\ n.ip = (IF call.method \in ByMac THEN None ELSE call.ip)
        /\ n.mac = (IF call.method \in ByMac THEN call.device ELSE None)
        /\ Entry(call.method) = IF call.method \in ByMac THEN "mac" ELSE "rule"
    BY <2>1 DEF Name, Ip, Entry
  <2>5. GoodRule(n)
    <3> HIDE DEF n
    <3>1. /\ n.name[1] = (IF call.method \in ByMac THEN "mac" ELSE "rule")
          /\ n.name[2] = call.device /\ n.id > 0 /\ n.id <= calls
      BY <2>4, FrameFacts, Bounds DEF TypeOK
    <3>2. call.method \notin ByMac => call.ip # None
      BY <2>1 DEF CallShape, NeedsAddress
    <3>3. Still => call.ip \in {None, addr[call.device]}
      BY <2>1 DEF CallShape
    <3>4. QED BY <2>1, <2>4, <3>1, <3>2, <3>3 DEF GoodRule
  <2> HIDE DEF n
  <2>6. QED BY <2>1, <2>3, <2>4, <2>5, RuleAddStep
<1>5. CASE mikrotikVerify
  <2>1. /\ Plugin = "mikrotik" /\ call.method \in Blocks /\ call.pc = "verify" /\ Kept
        /\ call'.pc \in {"rollback", "returned"} /\ (call'.result = "ok" => Found # {})
    BY <1>5, CallFields DEF mikrotikVerify, NotFound, Read, Kept
  <2>2. router.running = router.rules
    BY <2>1 DEF Shape, RouterShape
  <2>3. ASSUME Unspoiled', call'.result = "ok"
        PROVE  \E r \in router.rules : Owner(r, call.device)
    <3>1. Still
      BY <2>1, <2>3, Spoilers, FrameFacts DEF Unspoiled, Still
    <3>2. PICK r \in Found : TRUE
      BY <2>1, <2>3
    <3>3. r \in router.rules /\ r \in AllRules
      BY DEF Found, findFirewallRule, findAccessListEntry, AllRules
    <3>4. CASE call.method \in ByMac
      BY <2>1, <3>3, <3>4, EntriesOfMac DEF Found, findAccessListEntry, Owner
    <3>5. CASE call.method \notin ByMac
      <4>1. call.ip # None
        BY <2>1, <3>5 DEF CallShape, NeedsAddress
      <4>2. r.name = <<"rule", call.device>>
        BY <2>1, <3>1, <3>3, <3>5, <4>1, RulesOfAddress DEF Found, findFirewallRule
      <4>3. QED BY <3>3, <4>2 DEF Owner
    <3>6. QED BY <3>4, <3>5
  <2>4. QED BY <2>1, <2>2, <2>3, RuleProof DEF Kept
<1>6. CASE mikrotikRollback
  <2>1. /\ Plugin = "mikrotik" /\ call.method \in Blocks /\ call'.pc = "returned"
        /\ call'.result = "unverified"
    BY <1>6, CallFields DEF mikrotikRollback, Attempt
  <2>2. router.running = router.rules
    BY <2>1 DEF Shape, RouterShape
  <2>3. /\ router'.rules \subseteq router.rules
        /\ \A r \in router.rules : r.id # calls => r \in router'.rules
        /\ router'.running = router'.rules /\ UNCHANGED <<router.barred, router.paused>>
    BY <1>6, <2>2, RouterFields DEF mikrotikRollback, Attempt
  <2>4. QED BY <2>1, <2>3, RuleProof
<1>7. ASSUME call.method \in Lifts, Plugin = "mikrotik", call.pc \in {"go", "delete"}, Still,
             NEW r \in AllRules
      PROVE  /\ r \in Found => r.name \in {<<"rule", call.device>>, <<"mac", call.device>>,
                                           <<"hand", call.device>>}
             /\ r \in router.rules /\ r.name = <<Entry(call.method), call.device>> => r \in Found
             /\ r \in Found => r.name \in {<<Entry(call.method), call.device>>,
                                           <<"hand", call.device>>}
  <2>1. Entry(call.method) = IF call.method \in ByMac THEN "mac" ELSE "rule"
    BY <1>7 DEF Entry
  <2>2. CASE call.method \in ByMac
    BY <1>7, <2>1, <2>2, EntriesOfMac DEF Found, findAccessListEntry
  <2>3. CASE call.method \notin ByMac
    <3>1. call.ip # None
      BY <1>7, <2>3 DEF CallShape, NeedsAddress
    <3>2. QED BY <1>7, <2>1, <2>3, <3>1, RulesOfAddress DEF Found, findFirewallRule
  <2>4. QED BY <2>2, <2>3
<1>8. CASE mikrotikFind
  <2>1. /\ Plugin = "mikrotik" /\ call.method \in Lifts /\ call.pc = "go" /\ Kept
        /\ call'.pc \in {"delete", "returned"}
        /\ call'.pc = "delete" => Found # {}
        /\ call'.result = "ok" => Found = {} \/ "unread" \in kinds'
    BY <1>8, CallFields DEF mikrotikFind, Read, Kept, Disturb
  <2>2. router.running = router.rules
    BY <2>1 DEF Shape, RouterShape
  <2>3. FoundStays' \/ call'.pc # "delete"
    <3>1. Found' = Found
      BY <2>1 DEF Found, findFirewallRule, findAccessListEntry, Kept, Frame
    <3>2. QED BY <2>1, <3>1, FrameFacts DEF FoundStays
  <2>4. ASSUME Undisturbed', call'.result = "ok" PROVE RulesSettled'
    <3>1. Still /\ "unread" \notin kinds'
      BY <2>1, <2>4, Spoilers, FrameFacts DEF Undisturbed, Still
    <3>2. \A r \in router'.rules : r.name # <<Entry(call.method), call.device>>
      BY <1>7, <2>1, <2>4, <3>1 DEF Kept, AllRules
    <3>3. Entry(call.method)' = Entry(call.method) /\ call'.device = call.device
      BY FrameFacts DEF Entry, Frame
    <3>4. QED BY <3>2, <3>3 DEF RulesSettled
  <2>5. QED BY <2>1, <2>2, <2>3, <2>4, RuleLiftStep DEF Kept
<1>9. CASE mikrotikDelete
  <2>1. /\ Plugin = "mikrotik" /\ call.method \in Lifts /\ call.pc = "delete"
        /\ call'.pc = "returned" /\ Found # {}
    BY <1>9, CallFields DEF mikrotikDelete, Send, Shape, FoundStays
  <2>2. router.running = router.rules
    BY <2>1 DEF Shape, RouterShape
  <2>3. /\ router'.rules \in {router.rules, router.rules \ {First(Found)}}
        /\ router'.running = router'.rules /\ UNCHANGED <<router.barred, router.paused>>
        /\ call'.result = "ok" /\ "ignored" \notin kinds' =>
                router'.rules = router.rules \ {First(Found)}
    BY <1>9, <2>2, RouterFields, CallFields DEF mikrotikDelete, Send, Disturb
  <2>4. First(Found) \in Found /\ Found \subseteq router.rules /\ Found \subseteq AllRules
    <3>1. Found \subseteq router.rules /\ Found \subseteq AllRules
      BY DEF Found, findFirewallRule, findAccessListEntry, AllRules
    <3>2. QED BY <2>1, <3>1, NamePair, FirstIsLeast
  <2>5. Still' => \A r \in router.rules \ router'.rules :
            r.name \in {<<"rule", call.device>>, <<"mac", call.device>>, <<"hand", call.device>>}
    BY <1>7, <2>1, <2>3, <2>4 DEF Still, Frame
  <2>6. ASSUME Undisturbed', call'.result = "ok" PROVE ByHand(call.device) \/ RulesSettled'
    <3>1. Still /\ "ignored" \notin kinds' /\ Owes(call.device) /\ call.device \in Device
      BY <2>1, <2>6, Spoilers, FrameFacts
         DEF Undisturbed, Still, Accounted, BlocksOwed, CallShape
    <3>2. CASE First(Found).name = <<"hand", call.device>>
      <4>1. First(Found) \in AllRules /\ Owner(First(Found), call.device)
            /\ First(Found).name[1] = "hand" /\ GoodRule(First(Found))
        BY <2>4, <3>2 DEF Owner, Shape, RuleShape
      <4>2. QED BY <3>1, <4>1 DEF Owes, GoodRule, ByHand
    <3>3. CASE First(Found).name = <<Entry(call.method), call.device>>
      <4>1. Entry(call.method) \in {"rule", "mac"}
        BY <2>1 DEF Entry
      <4>2. router'.rules = router.rules \ {First(Found)}
        BY <2>3, <2>6, <3>1
      <4>3. \A r \in router.rules : r.name = <<Entry(call.method), call.device>> => r \in Found
        BY <1>7, <2>1, <3>1 DEF AllRules
      <4>4. \/ ByHand(call.device)
            \/ \A r \in router'.rules : r.name = <<Entry(call.method), call.device>> =>
                \E n \in 0..MaxCalls :
                    n < r.id /\ <<Entry(call.method), n>> \in owed[call.device]
        BY <2>1, <2>4, <3>1, <3>3, <4>1, <4>2, <4>3, DeleteSettles
      <4>5. Entry(call.method)' = Entry(call.method) /\ owed' = owed
            /\ call'.device = call.device
        BY FrameFacts DEF Entry, Frame
      <4>6. QED BY <4>4, <4>5 DEF RulesSettled
    <3>4. QED BY <1>7, <2>1, <2>4, <3>1, <3>2, <3>3
  <2>7. QED BY <2>1, <2>3, <2>5, <2>6, RuleLiftStep
<1>10. CASE mikrotikDisconnect
  <2>1. /\ call.method = "disconnectClient" /\ call.pc \in {"go", "kick"}
        /\ call'.pc \in {"kick", "returned"} /\ Kept
    BY <1>10, CallFields, FlagFields DEF mikrotikDisconnect, Read, Send, Kept
  <2>2. QED BY <2>1, OtherStep DEF Blocks, Lifts
<1>11. CASE mikrotikChangeDNS
  BY <1>11, DnsStep DEF mikrotikChangeDNS
<1>12. QED BY <1>4, <1>5, <1>6, <1>8, <1>9, <1>10, <1>11 DEF MikroTik

LEMMA UniFiStep ==
    ASSUME Shape, InForce, Accounted, UniFi
    PROVE  Shape' /\ InForce' /\ Accounted'
<1>1. TypeOK /\ CallShape
  BY DEF Shape
<1>2. TypeOK' /\ Frame
  BY <1>1, UniFiType
<1>3. CASE unifiChangeDNS
  <2>1. /\ call.method = "changeDNS" /\ call.pc # "reload" /\ Plugin = "unifi"
        /\ call'.pc \in {"set", "verify", "returned"}
    BY <1>1, <1>3, CallFields
       DEF unifiChangeDNS, DnsBefore, DnsSet, DnsVerify, Dns, At, Read, Send, Throws
  <2>2. Kept
    BY <1>1, <1>3 DEF unifiChangeDNS, DnsBefore, DnsSet, DnsVerify, Read, Send, Kept,
            TypeOK, RouterState
  <2>3. QED BY <1>1, <1>2, <2>1, <2>2, OtherStep DEF Blocks, Lifts
<1>4. call.result = "none" /\ call.device = call'.device
  BY <1>2 DEF Frame
<1> USE <1>1, <1>2, <1>4 DEF At, Throws, Client
<1>5. CASE unifiLogin
  <2>1. /\ Kept /\ call'.result # "ok" /\ call'.pc \in {"go", "returned"} /\ call.pc = "login"
    BY <1>5, CallFields DEF unifiLogin, Read, Kept
  <2>2. QED BY <2>1, PlainStep
<1>6. CASE unifiBlockMAC
  <2>1. /\ call.method \in Blocks \ Rules /\ call'.pc \in {"verify", "returned"}
        /\ UNCHANGED <<router.rules, router.running, router.paused>> /\ Plugin = "unifi"
        /\ router'.barred \in {router.barred, router.barred \cup {call.device}}
    BY <1>6, CallFields, FlagFields DEF unifiBlockMAC, Read, Send
  <2>2. Unspoiled' /\ (call'.result = "ok" \/ call'.pc = "verify") => call.device \in router'.barred
    <3> SUFFICES ASSUME Unspoiled', call'.result = "ok" \/ call'.pc = "verify"
                 PROVE  call.device \in router'.barred
      OBVIOUS
    <3>1. "ignored" \notin kinds'
      BY <2>1, Spoilers, FrameFacts DEF Unspoiled
    <3>2. CASE call.pc = "go"
      BY <1>6, <3>1, <3>2, CallFields, FlagFields DEF unifiBlockMAC, Send, Disturb
    <3>3. CASE call.pc = "verify"
      <4>1. call.device \in router.barred
        BY <2>1, <3>3, FrameFacts DEF InForce, BlockProgress
      <4>2. QED BY <1>6, <3>3, <4>1 DEF unifiBlockMAC, Read
    <3>4. QED BY <1>6, <3>2, <3>3 DEF unifiBlockMAC
  <2>3. QED BY <2>1, <2>2, FlagBlockStep DEF FlagRouters
<1>7. CASE unifiUnblockMAC
  <2>1. /\ call.method \in Lifts \ Rules /\ call'.pc \in {"verify", "returned"}
        /\ UNCHANGED <<router.rules, router.running, router.paused>> /\ Plugin = "unifi"
        /\ router'.barred \in {router.barred, router.barred \ {call.device}}
    BY <1>7, CallFields, FlagFields DEF unifiUnblockMAC, Read, Send
  <2>2. ASSUME Undisturbed', call'.result = "ok" \/ call'.pc = "verify"
        PROVE  ByHand(call.device) \/ call.device \notin router'.barred
    <3>1. "ignored" \notin kinds'
      BY <2>1, <2>2, Spoilers, FrameFacts DEF Undisturbed
    <3>2. CASE call.pc = "go"
      BY <1>7, <2>2, <3>1, <3>2, CallFields, FlagFields DEF unifiUnblockMAC, Send, Disturb
    <3>3. CASE call.pc = "verify"
      BY <1>7, <2>1, <2>2, <3>3, FlagLifted DEF unifiUnblockMAC, Read, FlagRouters
    <3>4. QED BY <1>7, <3>2, <3>3 DEF unifiUnblockMAC
  <2>3. QED BY <2>1, <2>2, FlagLiftStep DEF FlagRouters
<1>8. ASSUME Plugin = "unifi", call.method \in Rules, call.pc \in {"go", "verify", "delete"}
      PROVE  /\ call.method \in Blocks \cup Lifts /\ call.ip # None
             /\ Entry(call.method) = "rule" /\ call.method \notin ByMac
             /\ router.running = router.rules
             /\ unifiFindRule \subseteq router.rules /\ unifiFindRule \subseteq AllRules
             /\ Still => \A r \in router.rules :
                    r \in unifiFindRule <=> r.name = <<"rule", call.device>>
  <2>1. call.method \in Blocks \cup Lifts /\ Entry(call.method) = "rule"
        /\ call.method \notin ByMac
    BY <1>8 DEF Rules, Blocks, Lifts, Entry, ByMac
  <2>2. call.ip # None /\ router.running = router.rules
    BY <1>8 DEF CallShape, NeedsAddress, Shape, RouterShape
  <2>3. ASSUME Still, NEW r \in router.rules
        PROVE  r \in unifiFindRule <=> r.name = <<"rule", call.device>>
    BY <1>8, <2>1, <2>2, <2>3, RulesOfAddress DEF unifiFindRule, AllRules
  <2>4. QED BY <2>1, <2>2, <2>3 DEF unifiFindRule, AllRules
<1>9. CASE unifiApplyFirewallRule /\ call.pc = "go"
  <2> DEFINE n == [id |-> calls, name |-> <<"rule", Client>>, ip |-> call.ip, mac |-> None]
  <2>1. /\ Plugin = "unifi" /\ call.method \in Blocks /\ call.method \in Rules
        /\ call'.pc \in {"verify", "returned"} /\ call'.result # "ok"
    BY <1>9, CallFields DEF unifiApplyFirewallRule, Send, Blocks, Rules
  <2>2. /\ router'.rules \in {router.rules, router.rules \cup {n}}
        /\ router'.running = router'.rules /\ UNCHANGED <<router.barred, router.paused>>
    BY <1>8, <1>9, <2>1, RouterFields DEF unifiApplyFirewallRule, Send, AddRule
  <2>3. /\ n.id = calls /\ n.name = <<"rule", call.device>> /\ n.ip = call.ip /\ n.mac = None
        /\ n.name[1] = "rule" /\ n.name[2] = call.device /\ n.id > 0 /\ n.id <= calls
    BY FrameFacts, Bounds DEF TypeOK
  <2> HIDE DEF n
  <2>4. GoodRule(n)
    <3>1. Still => call.ip \in {None, addr[call.device]}
      BY <2>1 DEF CallShape
    <3>2. QED BY <1>8, <1>9, <2>1, <2>3, <3>1 DEF GoodRule
  <2>5. n.name = <<Entry(call.method), call.device>>
        /\ n.ip = IF call.method \in ByMac THEN None ELSE call.ip
    BY <1>8, <1>9, <2>1, <2>3
  <2>6. QED BY <1>9, <2>1, <2>2, <2>3, <2>4, <2>5, RuleAddStep
<1>10. CASE unifiApplyFirewallRule /\ call.pc = "verify"
  <2>1. /\ Plugin = "unifi" /\ call.method \in Blocks /\ call.method \in Rules
        /\ Kept /\ call'.pc = "returned" /\ (call'.result = "ok" => unifiFindRule # {})
    BY <1>10, CallFields DEF unifiApplyFirewallRule, Read, Kept, Blocks, Rules
  <2>2. ASSUME Unspoiled', call'.result = "ok"
        PROVE  \E r \in router.rules : Owner(r, call.device)
    <3>1. Still
      BY <2>1, <2>2, Spoilers, FrameFacts DEF Unspoiled, Still
    <3>2. PICK r \in unifiFindRule : TRUE
      BY <2>1, <2>2
    <3>3. r \in router.rules /\ r.name = <<"rule", call.device>>
      BY <1>8, <1>10, <2>1, <3>1, <3>2
    <3>4. QED BY <3>3 DEF Owner
  <2>3. QED BY <1>8, <1>10, <2>1, <2>2, RuleProof DEF Kept
<1>11. CASE unifiRemoveFirewallRule /\ call.pc = "go"
  <2>1. /\ Plugin = "unifi" /\ call.method \in Lifts /\ call.method \in Rules /\ Kept
        /\ call'.pc \in {"delete", "returned"}
        /\ call'.pc = "delete" => unifiFindRule # {}
        /\ call'.result = "ok" => unifiFindRule = {} \/ "unread" \in kinds'
    BY <1>11, CallFields DEF unifiRemoveFirewallRule, Read, Kept, Disturb, Lifts, Rules
  <2>2. FoundStays' \/ call'.pc # "delete"
    <3>1. unifiFindRule' = unifiFindRule
      BY <2>1 DEF unifiFindRule, Kept, Frame
    <3>2. QED BY <2>1, <3>1, FrameFacts DEF FoundStays
  <2>3. ASSUME Undisturbed', call'.result = "ok" PROVE RulesSettled'
    <3>1. Still /\ "unread" \notin kinds'
      BY <2>1, <2>3, Spoilers, FrameFacts DEF Undisturbed, Still
    <3>2. \A r \in router'.rules : r.name # <<"rule", call.device>>
      BY <1>8, <1>11, <2>1, <2>3, <3>1 DEF Kept
    <3>3. Entry(call.method)' = "rule"
      BY <1>8, <1>11, <2>1, FrameFacts DEF Entry, Frame
    <3>4. QED BY <3>2, <3>3 DEF RulesSettled
  <2>4. QED BY <1>8, <1>11, <2>1, <2>2, <2>3, RuleLiftStep DEF Kept
<1>12. CASE unifiRemoveFirewallRule /\ call.pc = "delete"
  <2>1. /\ Plugin = "unifi" /\ call.method \in Lifts /\ call.method \in Rules
        /\ call'.pc = "returned" /\ unifiFindRule # {}
    BY <1>12, CallFields
       DEF unifiRemoveFirewallRule, Send, Shape, FoundStays, Lifts, Rules
  <2>2. /\ router'.rules \in {router.rules, router.rules \ {First(unifiFindRule)}}
        /\ router'.running = router'.rules /\ UNCHANGED <<router.barred, router.paused>>
        /\ call'.result = "ok" /\ "ignored" \notin kinds' =>
                router'.rules = router.rules \ {First(unifiFindRule)}
    BY <1>8, <1>12, <2>1, RouterFields, CallFields DEF unifiRemoveFirewallRule, Send, Disturb
  <2>3. First(unifiFindRule) \in unifiFindRule
    BY <1>8, <1>12, <2>1, NamePair, FirstIsLeast
  <2>4. Still' => \A r \in router.rules \ router'.rules : r.name = <<"rule", call.device>>
    BY <1>8, <1>12, <2>1, <2>2, <2>3 DEF Still, Frame
  <2>5. ASSUME Undisturbed', call'.result = "ok" PROVE ByHand(call.device) \/ RulesSettled'
    <3>1. Still /\ "ignored" \notin kinds' /\ Owes(call.device)
      BY <2>1, <2>5, Spoilers, FrameFacts
         DEF Undisturbed, Still, Accounted, BlocksOwed, CallShape
    <3>2. /\ router'.rules = router.rules \ {First(unifiFindRule)}
          /\ First(unifiFindRule).name = <<"rule", call.device>>
          /\ \A r \in router.rules : r.name = <<"rule", call.device>> => r \in unifiFindRule
          /\ unifiFindRule \subseteq router.rules
      BY <1>8, <1>12, <2>1, <2>2, <2>3, <2>5, <3>1
    <3>3. \/ ByHand(call.device)
          \/ \A r \in router'.rules : r.name = <<"rule", call.device>> =>
              \E n \in 0..MaxCalls : n < r.id /\ <<"rule", n>> \in owed[call.device]
      BY <2>1, <3>1, <3>2, DeleteSettles
    <3>4. Entry(call.method)' = "rule" /\ owed' = owed
      BY <1>8, <1>12, <2>1, FrameFacts DEF Entry, Frame
    <3>5. QED BY <3>3, <3>4 DEF RulesSettled
  <2>6. QED BY <2>1, <2>2, <2>4, <2>5, RuleLiftStep
<1>13. CASE unifiDisconnect
  <2>1. /\ call.method = "disconnectClient" /\ call.pc \in {"go", "kick"}
        /\ call'.pc \in {"kick", "returned"} /\ Kept
    BY <1>13, CallFields, FlagFields DEF unifiDisconnect, Read, Send, Kept
  <2>2. QED BY <2>1, OtherStep DEF Blocks, Lifts
<1>14. QED
  BY <1>3, <1>5, <1>6, <1>7, <1>9, <1>10, <1>11, <1>12, <1>13
     DEF UniFi, unifiApplyFirewallRule, unifiRemoveFirewallRule

----------------------------------------------------------------------------
\* The steps of the plugins with a rule index per device.

LEMMA SlotOwner ==
    ASSUME Plugin \in SlotRouters, NEW d \in Device \ Sharing, NEW r \in AllRules,
           call.device \in Device, r.name = ruleIndexFor, Owner(r, d)
    PROVE  d = call.device
<1>1. SlotOf[d] = SlotOf[call.device]
  BY DEF ruleIndexFor, Owner
<1>2. QED BY <1>1 DEF Sharing, SharesSlot, SlotRouters

\* The rule of a slot is written whole.
LEMMA FillStep ==
    ASSUME Shape, InForce, Accounted, TypeOK', Frame, Plugin \in SlotRouters,
           call.method \in Blocks, call'.pc \in {"verify", "returned"}, call'.result # "ok",
           NEW n, n.id = 0, n.name = ruleIndexFor, GoodRule(n),
           Undisturbed' => \A d \in Device :
                n.mac = d \/ n.ip = addr[d] => ByHand(d) \/ Ordered(d, "any"),
           router'.rules \in {router.rules, (router.rules \ InSlot) \cup {n}},
           router'.running = router'.rules, UNCHANGED <<router.barred, router.paused>>
    PROVE  Shape' /\ InForce' /\ Accounted'
<1>1. /\ Plugin' = Plugin /\ call'.method = call.method /\ router.running = router.rules
      /\ call.method \notin Lifts /\ call.device \in Device /\ owed' = owed
      /\ router.barred = {} /\ router.paused = {}
  BY FrameFacts DEF Frame, Shape, RouterShape, SlotRouters, RuleRouters, CallShape, Blocks, Lifts
<1>2. AllRules' \subseteq AllRules \cup {n}
  BY <1>1 DEF AllRules
<1>3. Shape'
  <2>1. RouterShape'
    BY <1>1 DEF RouterShape
  <2>2. QED BY <1>2, <2>1, GrowShape
<1>4. InForce'
  <2>1. OkSecured' /\ BlockProgress'
    BY <1>1 DEF OkSecured, BlockProgress, SlotRouters
  <2>2. ASSUME NEW d \in held, Secured(d) PROVE Secured(d)'
    <3>1. PICK r \in router.rules : Owner(r, d) /\ (call.pc = "idle" \/ r.id # calls)
      BY <1>1, <2>2 DEF Secured
    <3>2. CASE r \in router'.rules
      BY <1>1, <3>1, <3>2, FrameFacts DEF Secured, Owner, Frame
    <3>3. CASE r \notin router'.rules
      <4>1. r.name = ruleIndexFor /\ n \in router'.rules
        BY <3>1, <3>3 DEF InSlot
      <4>2. Owner(n, d)
        BY <3>1, <4>1 DEF Owner
      <4>3. n.id # calls /\ n \in router'.rules \cap router'.running
        BY <4>1, FrameFacts, Bounds DEF Shape, TypeOK
      <4>4. QED BY <4>2, <4>3, FrameFacts DEF Secured, Owner, Frame
    <3>4. QED BY <3>2, <3>3
  <2>3. QED BY <2>1, <2>2, SecureStep
<1>5. Accounted'
  <2>1. ASSUME Undisturbed', NEW d \in Device, Owes(d) PROVE Owes(d)'
    <3>1. n.name[1] = "slot"
      BY DEF ruleIndexFor
    <3>2. \A r \in AllRules' : Owner(r, d) =>
            \/ ByHand(d)
            \/ IF r.name[1] = "slot" THEN r.mac = d \/ r.ip = addr[d] => Ordered(d, "any")
                                     ELSE <<r.name[1], r.id>> \in owed[d]
      BY <1>2, <2>1, <3>1 DEF Owes
    <3>3. router'.barred = {} /\ router'.paused = {} /\ addr' = addr
      BY <1>1 DEF Frame
    <3>4. QED BY <1>1, <3>2, <3>3 DEF Owes, ByHand, Ordered, Owner
  <2>2. ListOwed' /\ RemovalSettled' /\ OpenWrtLoaded'
    BY <1>1 DEF ListOwed, RemovalSettled, OpenWrtLoaded, SlotRouters
  <2>3. QED BY <2>1, <2>2, OweStep
<1>6. QED BY <1>3, <1>4, <1>5

\* A verification: whatever the slot holds is the device's.
LEMMA SlotVerifyStep ==
    ASSUME Shape, InForce, Accounted, TypeOK', Frame, Plugin \in SlotRouters, Kept,
           call.method \in Blocks, call'.pc = "returned", call'.result = "ok" => InSlot # {}
    PROVE  Shape' /\ InForce' /\ Accounted'
<1>1. /\ Plugin' = Plugin /\ call'.method = call.method /\ call'.device = call.device
      /\ router.running = router.rules /\ call.method \notin Lifts
  BY FrameFacts DEF Frame, Shape, RouterShape, SlotRouters, Blocks, Lifts
<1>2. Shape'
  BY KeptShape
<1>3. InForce'
  <2>1. InSlot # {} => \E r \in router.rules : Owner(r, call.device)
    BY DEF InSlot, ruleIndexFor, Owner
  <2>2. OkSecured' /\ BlockProgress'
    BY <1>1, <2>1 DEF OkSecured, BlockProgress, Kept, Owner
  <2>3. QED BY <2>2, SecureStep, KeptSecures
<1>4. Accounted'
  <2>1. \A d \in Device : Owes(d) => Owes(d)'
    BY ShrinkOwes DEF Kept, AllRules
  <2>2. ListOwed' /\ RemovalSettled' /\ OpenWrtLoaded'
    BY <1>1 DEF ListOwed, RemovalSettled, OpenWrtLoaded, SlotRouters
  <2>3. QED BY <2>1, <2>2, OweStep
<1>5. QED BY <1>2, <1>3, <1>4

\* A removal: the slot is emptied, or found empty.
LEMMA EmptyStep ==
    ASSUME Shape, InForce, Accounted, TypeOK', Frame, Plugin \in SlotRouters,
           call.method \in Lifts, call'.pc \in {"delete", "disable", "returned"},
           router'.rules \in {router.rules, router.rules \ InSlot},
           router'.running = router'.rules, UNCHANGED <<router.barred, router.paused>>,
           Undisturbed' /\ call'.result = "ok" => router'.rules \cap InSlot = {}
    PROVE  Shape' /\ InForce' /\ Accounted'
<1>1. /\ Plugin' = Plugin /\ call'.method = call.method /\ call'.device = call.device
      /\ router.running = router.rules /\ call.method \notin Blocks /\ call.device \in Device
      /\ router.barred = {} /\ router.paused = {}
  BY FrameFacts DEF Frame, Shape, RouterShape, SlotRouters, RuleRouters, CallShape, Blocks, Lifts
<1>2. AllRules' \subseteq AllRules
  BY <1>1 DEF AllRules
<1>3. Shape'
  <2>1. RouterShape' /\ FoundStays'
    BY <1>1 DEF RouterShape, FoundStays, SlotRouters
  <2>2. QED BY <1>2, <2>1, ShrinkShape
<1>4. InForce'
  <2>1. OkSecured' /\ BlockProgress'
    BY <1>1 DEF OkSecured, BlockProgress, SlotRouters
  <2>2. ASSUME NEW d \in held \ Sharing, Secured(d) PROVE Secured(d)'
    <3>1. PICK r \in router.rules : Owner(r, d) /\ (call.pc = "idle" \/ r.id # calls)
      BY <1>1, <2>2 DEF Secured
    <3>2. d # call.device /\ d \in Device \ Sharing
      BY <1>1, FrameFacts DEF Shape, TypeOK
    <3>3. r \notin InSlot
      BY <1>1, <3>1, <3>2, SlotOwner DEF InSlot, AllRules
    <3>4. QED BY <1>1, <3>1, <3>3, FrameFacts DEF Secured, Owner, Frame
  <2>3. QED BY <2>1, <2>2, SecureStep
<1>5. Accounted'
  <2>1. \A d \in Device : Owes(d) => Owes(d)'
    BY <1>2, ShrinkOwes
  <2>2. ListOwed' /\ OpenWrtLoaded'
    BY <1>1 DEF ListOwed, OpenWrtLoaded, SlotRouters
  <2>3. RemovalSettled'
    <3>1. RulesSettled' /\ ~Flagged' /\ Plugin' # "linksys" /\ ruleIndexFor' = ruleIndexFor
      BY <1>1 DEF RulesSettled, RuleEach, Flagged, SlotRouters, ruleIndexFor
    <3>2. router'.rules \cap InSlot = {} => Settled'
      BY <1>1, <3>1 DEF Settled, InSlot
    <3>3. QED BY <1>1, <3>2 DEF RemovalSettled, SlotRouters
  <2>4. QED BY <2>1, <2>2, <2>3, OweStep
<1>6. QED BY <1>3, <1>4, <1>5

\* What may stand in the fields of a rule at the index: devices that have the
\* index, ordered blocked.
SlotField(ip, mac) ==
    /\ SlotMac(mac, SlotOf[call.device]) /\ SlotIp(ip, SlotOf[call.device])
    /\ Undisturbed /\ Still => \A d \in Device :
            mac = d \/ ip = addr[d] => ByHand(d) \/ Ordered(d, "any")

\* The fields an older rule of the slot leaves to the new one.
LEMMA OfSlot ==
    ASSUME Shape, Accounted, call.device \in Device
    PROVE  SlotField(Of("ip"), Of("mac"))
<1>1. CASE InSlot = {}
  <2>1. Of("ip") = None /\ Of("mac") = None
    BY <1>1 DEF Of
  <2>2. \A d \in Device : d # None /\ addr[d] # None
    BY Bounds DEF Shape, TypeOK
  <2>3. QED BY <2>1, <2>2 DEF SlotField, SlotMac, SlotIp
<1>2. CASE InSlot # {}
  <2> DEFINE r == CHOOSE r \in InSlot : TRUE
  <2>1. r \in InSlot
    BY <1>2
  <2>2. Of("mac") = r.mac /\ Of("ip") = r.ip
    BY <1>2 DEF Of
  <2> HIDE DEF r
  <2>3. r \in router.rules /\ r.name = <<"slot", SlotOf[call.device]>> /\ r.name[1] = "slot"
        /\ r.name[2] = SlotOf[call.device] /\ GoodRule(r)
    BY <2>1 DEF InSlot, ruleIndexFor, Shape, RuleShape, AllRules
  <2>4. SlotMac(r.mac, SlotOf[call.device]) /\ SlotIp(r.ip, SlotOf[call.device])
    BY <2>3 DEF GoodRule
  <2>5. ASSUME Undisturbed, Still, NEW d \in Device, r.mac = d \/ r.ip = addr[d]
        PROVE  ByHand(d) \/ Ordered(d, "any")
    <3>1. d # None /\ addr[d] # None
      BY Bounds DEF Shape, TypeOK
    <3>2. SlotOf[d] = SlotOf[call.device]
      BY <2>4, <2>5, <3>1 DEF SlotMac, SlotIp, Shape, AddressesApart
    <3>3. Owner(r, d)
      BY <2>3, <3>2 DEF Owner
    <3>4. r \in AllRules /\ Owes(d)
      BY <2>3, <2>5 DEF AllRules, Accounted, BlocksOwed
    <3>5. QED BY <2>3, <2>5, <3>3, <3>4 DEF Owes
  <2>6. QED BY <2>2, <2>4, <2>5 DEF SlotField
<1>3. QED BY <1>1, <1>2

\* What a plugin may write at the index.
LEMMA SlotRule ==
    ASSUME Shape, Plugin \in SlotRouters, call.device \in Device,
           NEW ip, NEW mac, ~(ip = None /\ mac = None), SlotField(ip, mac)
    PROVE  \A n : n = [id |-> 0, name |-> ruleIndexFor, ip |-> ip, mac |-> mac] =>
                    n.id = 0 /\ n.name = ruleIndexFor /\ GoodRule(n)
<1> SUFFICES ASSUME NEW n, n = [id |-> 0, name |-> ruleIndexFor, ip |-> ip, mac |-> mac]
             PROVE  n.id = 0 /\ n.name = ruleIndexFor /\ GoodRule(n)
  OBVIOUS
<1>1. n.id = 0 /\ n.name = ruleIndexFor /\ n.ip = ip /\ n.mac = mac
  OBVIOUS
<1>2. n.name[1] = "slot" /\ n.name[2] = SlotOf[call.device] /\ calls \in Nat
  BY <1>1, Bounds DEF ruleIndexFor, Shape, TypeOK
<1>3. QED BY <1>1, <1>2 DEF GoodRule, SlotField

\* The device of the call may stand there, too.
LEMMA OwnFields ==
    ASSUME Shape, Accounted, Plugin \in SlotRouters, call.method \in Blocks, ~dryRun
    PROVE  /\ SlotField(call.ip, None) /\ SlotField(None, call.device)
           /\ \A ip, mac : SlotField(ip, mac) =>
                SlotField(call.ip, mac) /\ SlotField(ip, call.device)
<1>1. /\ call.device \in Device /\ addr \in [Device -> Address]
      /\ Still => call.ip \in {None, addr[call.device]}
      /\ \A d \in Device : d # None /\ addr[d] # None
  BY Bounds DEF Shape, TypeOK, CallShape
<1>2. Ordered(call.device, "any")
  <2>1. <<"any", calls>> \in owed[call.device] /\ calls \in 0..MaxCalls
    BY DEF Accounted, OrderStands, Entry, SlotRouters, Shape, TypeOK
  <2>2. QED BY <2>1 DEF Ordered
<1>3. /\ SlotMac(call.device, SlotOf[call.device]) /\ SlotIp(call.ip, SlotOf[call.device])
      /\ SlotMac(None, SlotOf[call.device]) /\ SlotIp(None, SlotOf[call.device])
  BY <1>1 DEF SlotMac, SlotIp
<1>4. \A d \in Device : Still /\ call.ip = addr[d] => d = call.device
  BY <1>1 DEF Shape, AddressesApart
<1>5. QED BY <1>1, <1>2, <1>3, <1>4 DEF SlotField

LEMMA SlotDns ==
    ASSUME Shape, InForce, Accounted, TypeOK', Frame, Dns(Plugin, call.pc),
           \/ Send([router EXCEPT !.dns = "new"], Goto("verify"))
           \/ Read(IF router.dns = "new" THEN Return("ok") ELSE Return("unverified"),
                   {Throws, Return("unverified")}),
           call.pc # "reload"
    PROVE  Shape' /\ InForce' /\ Accounted'
<1>1. TypeOK
  BY DEF Shape
<1>2. Kept /\ call'.pc \in {"verify", "returned"}
  BY <1>1, CallFields DEF Read, Send, Throws, Kept, TypeOK, RouterState
<1>3. QED BY <1>2, OtherStep DEF Dns, At, Blocks, Lifts

\* A request that writes the rule of the slot.
LEMMA FillSend ==
    ASSUME Shape, InForce, Accounted, TypeOK', Frame, Plugin \in SlotRouters,
           call.method \in Blocks, call.pc # "verify",
           NEW ip, NEW mac, ~(ip = None /\ mac = None), SlotField(ip, mac),
           Send(Fill(ip, mac), Goto("verify"))
    PROVE  Shape' /\ InForce' /\ Accounted'
<1> DEFINE n == [id |-> 0, name |-> ruleIndexFor, ip |-> ip, mac |-> mac]
<1>1. TypeOK /\ call.device \in Device /\ call.result = "none" /\ router.running = router.rules
  BY DEF Shape, CallShape, Frame, RouterShape, SlotRouters
<1>2. n.id = 0 /\ n.name = ruleIndexFor /\ GoodRule(n)
  BY <1>1, SlotRule
<1>3. /\ router'.rules \in {router.rules, (router.rules \ InSlot) \cup {n}}
      /\ router'.running = router'.rules /\ UNCHANGED <<router.barred, router.paused>>
      /\ call'.pc \in {"verify", "returned"} /\ call'.result # "ok"
  BY <1>1, RouterFields, CallFields DEF Send, Fill, Throws
<1>4. Undisturbed' => \A d \in Device :
            n.mac = d \/ n.ip = addr[d] => ByHand(d) \/ Ordered(d, "any")
  <2>1. Undisturbed' => Undisturbed /\ Still
    BY Spoilers, FrameFacts DEF Undisturbed, Still, SlotRouters
  <2>2. QED BY <2>1 DEF SlotField
<1> HIDE DEF n
<1>5. QED BY <1>2, <1>3, <1>4, FillStep

\* A request that empties it.
LEMMA EmptySend ==
    ASSUME Shape, InForce, Accounted, TypeOK', Frame, Plugin \in SlotRouters,
           call.method \in Lifts, Send(Empty, Return("ok"))
    PROVE  Shape' /\ InForce' /\ Accounted'
<1>1. TypeOK /\ router.running = router.rules
  BY DEF Shape, RouterShape, SlotRouters
<1>2. /\ router'.rules \in {router.rules, router.rules \ InSlot}
      /\ router'.running = router'.rules /\ UNCHANGED <<router.barred, router.paused>>
      /\ call'.pc = "returned"
      /\ call'.result = "ok" /\ "ignored" \notin kinds' => router'.rules = router.rules \ InSlot
  BY <1>1, RouterFields, CallFields DEF Send, Empty, Throws, Disturb
<1>3. Undisturbed' => "ignored" \notin kinds'
  BY Spoilers, FrameFacts DEF Undisturbed, SlotRouters
<1>4. QED BY <1>2, <1>3, EmptyStep

\* A request that looks for the rule first.
LEMMA SlotFind ==
    ASSUME Shape, InForce, Accounted, TypeOK', Frame, Plugin \in SlotRouters,
           call.method \in Lifts, NEW pc \in {"delete", "disable"},
           Read(IF InSlot = {} THEN Return("ok") ELSE Goto(pc), {Throws, Return("ok")})
    PROVE  Shape' /\ InForce' /\ Accounted'
<1>1. TypeOK /\ router.running = router.rules /\ call.result = "none"
  BY DEF Shape, RouterShape, SlotRouters, Frame
<1>2. /\ router' = router /\ call'.pc \in {"delete", "disable", "returned"}
      /\ call'.result = "ok" => InSlot = {} \/ "unread" \in kinds'
  BY <1>1, CallFields DEF Read, Throws, Disturb
<1>3. Undisturbed' => "unread" \notin kinds'
  BY Spoilers, FrameFacts DEF Undisturbed, SlotRouters
<1>4. QED BY <1>1, <1>2, <1>3, EmptyStep

LEMMA EdgeRouterStep ==
    ASSUME Shape, InForce, Accounted, EdgeRouter
    PROVE  Shape' /\ InForce' /\ Accounted'
<1>1. TypeOK /\ CallShape
  BY DEF Shape
<1>2. TypeOK' /\ Frame
  BY <1>1, EdgeRouterType
<1>3. Plugin = "edgerouter" /\ call.pc # "reload"
  BY DEF EdgeRouter, edgerouterApply, edgerouterBlockMAC, edgerouterVerify, edgerouterRemove,
         edgerouterChangeDNS, DnsVerify, Dns, At
<1>4. Plugin \in SlotRouters
  BY <1>3 DEF SlotRouters
<1>5. CASE edgerouterApply
  <2>1. call.method \in Blocks /\ call.method \notin ByMac /\ call.pc = "go"
        /\ call.device \in Device
    BY <1>1, <1>5 DEF edgerouterApply, At, Blocks, ByMac, CallShape
  <2>2. call.ip # None /\ ~dryRun
    BY <1>1, <1>3, <2>1 DEF CallShape, NeedsAddress
  <2>3. SlotField(call.ip, Of("mac"))
    BY <1>4, <2>1, <2>2, OfSlot, OwnFields
  <2>4. QED
    BY <1>2, <1>4, <1>5, <2>1, <2>2, <2>3, FillSend DEF edgerouterApply, runVyattaCommands
<1>6. CASE edgerouterBlockMAC
  <2>1. call.method \in Blocks /\ call.pc = "go" /\ call.device \in Device
    BY <1>1, <1>6 DEF edgerouterBlockMAC, At, Blocks, CallShape
  <2>2. call.device # None /\ ~dryRun
    BY <1>1, <2>1, Bounds DEF CallShape
  <2>3. SlotField(Of("ip"), call.device)
    BY <1>4, <2>1, <2>2, OfSlot, OwnFields
  <2>4. QED
    BY <1>2, <1>4, <1>6, <2>1, <2>2, <2>3, FillSend DEF edgerouterBlockMAC, runVyattaCommands
<1>7. CASE edgerouterVerify
  <2>1. /\ call.method \in Blocks /\ call'.pc = "returned" /\ Kept
        /\ call'.result = "ok" => InSlot # {}
    BY <1>1, <1>7, CallFields DEF edgerouterVerify, At, Read, Kept, Throws
  <2>2. QED BY <1>2, <1>4, <2>1, SlotVerifyStep
<1>8. CASE edgerouterRemove
  <2>1. CASE Read(IF InSlot = {} THEN Return("ok") ELSE Goto("delete"), {Throws, Return("ok")})
    BY <1>2, <1>4, <1>8, <2>1, SlotFind DEF edgerouterRemove, At
  <2>2. CASE Send(Empty, Return("ok"))
    BY <1>2, <1>4, <1>8, <2>2, EmptySend DEF edgerouterRemove, At
  <2>3. QED BY <1>8, <2>1, <2>2 DEF edgerouterRemove, runVyattaCommands
<1>9. CASE edgerouterChangeDNS
  BY <1>2, <1>3, <1>9, SlotDns DEF edgerouterChangeDNS, DnsVerify, Dns, At
<1>10. QED BY <1>5, <1>6, <1>7, <1>8, <1>9 DEF EdgeRouter

LEMMA DrayTekStep ==
    ASSUME Shape, InForce, Accounted, DrayTek
    PROVE  Shape' /\ InForce' /\ Accounted'
<1>1. TypeOK /\ CallShape
  BY DEF Shape
<1>2. TypeOK' /\ Frame
  BY <1>1, DrayTekType
<1>3. Plugin = "draytek" /\ call.pc # "reload"
  BY DEF DrayTek, draytekApply, draytekBlockMAC, draytekVerify, draytekRemove,
         draytekChangeDNS, DnsVerify, Dns, At
<1>4. Plugin \in SlotRouters
  BY <1>3 DEF SlotRouters
<1>5. CASE draytekApply
  <2>1. call.method \in Blocks /\ call.method \notin ByMac /\ call.pc = "go"
        /\ call.device \in Device
    BY <1>1, <1>5 DEF draytekApply, At, Blocks, ByMac, CallShape
  <2>2. call.ip # None /\ ~dryRun
    BY <1>1, <1>3, <2>1 DEF CallShape, NeedsAddress
  <2>3. QED
    BY <1>2, <1>4, <1>5, <2>1, <2>2, OwnFields, FillSend DEF draytekApply
<1>6. CASE draytekBlockMAC
  <2>1. call.method \in Blocks /\ call.pc = "go" /\ call.device \in Device
    BY <1>1, <1>6 DEF draytekBlockMAC, At, Blocks, CallShape
  <2>2. call.device # None /\ ~dryRun
    BY <1>1, <2>1, Bounds DEF CallShape
  <2>3. QED
    BY <1>2, <1>4, <1>6, <2>1, <2>2, OwnFields, FillSend DEF draytekBlockMAC
<1>7. CASE draytekVerify
  <2>1. /\ call.method \in Blocks /\ call'.pc = "returned" /\ Kept
        /\ call'.result = "ok" => InSlot # {}
    BY <1>1, <1>7, CallFields DEF draytekVerify, At, Read, Kept, Throws
  <2>2. QED BY <1>2, <1>4, <2>1, SlotVerifyStep
<1>8. CASE draytekRemove
  <2>1. CASE Read(IF InSlot = {} THEN Return("ok") ELSE Goto("disable"), {Throws, Return("ok")})
    BY <1>2, <1>4, <1>8, <2>1, SlotFind DEF draytekRemove, At
  <2>2. CASE Send(Empty, Return("ok"))
    BY <1>2, <1>4, <1>8, <2>2, EmptySend DEF draytekRemove, At
  <2>3. QED BY <1>8, <2>1, <2>2 DEF draytekRemove
<1>9. CASE draytekChangeDNS
  BY <1>2, <1>3, <1>9, SlotDns DEF draytekChangeDNS, DnsVerify, Dns, At
<1>10. QED BY <1>5, <1>6, <1>7, <1>8, <1>9 DEF DrayTek

----------------------------------------------------------------------------
\* The steps of Linksys.

\* A list: read, about to be written, written.
LEMMA ListStep ==
    ASSUME Shape, InForce, Accounted, TypeOK', Frame, Plugin = "linksys",
           call.method \in Blocks \cup Lifts, call'.pc \in {"set", "verify", "returned"},
           UNCHANGED <<router.rules, router.running>>,
           Unspoiled' => \A d \in held : Secured(d) => Secured(d)',
           Unspoiled' /\ call.method \in Blocks /\ call'.result = "ok" =>
                call.device \in List',
           Unspoiled' /\ call'.pc = "set" => call'.seen = List',
           Undisturbed' => \A d \in Device : Owes(d) => Owes(d)',
           Undisturbed' /\ call'.pc = "set" =>
                \A d \in call'.seen : ByHand(d) \/ Ordered(d, Entry(call.method)),
           Undisturbed' /\ call.method \in Lifts /\ call'.result = "ok" =>
                call.device \notin List'
    PROVE  Shape' /\ InForce' /\ Accounted'
<1>1. /\ Plugin' = Plugin /\ call'.method = call.method /\ call'.device = call.device
      /\ router.running = router.rules /\ owed' = owed
      /\ Entry(call.method)' = Entry(call.method)
  BY FrameFacts DEF Frame, Shape, RouterShape, Entry
<1>2. Shape'
  <2>1. RouterShape' /\ FoundStays' /\ AllRules' = AllRules
    BY <1>1 DEF RouterShape, FoundStays, RuleRouters, SlotRouters, AllRules
  <2>2. QED BY <2>1, ShrinkShape
<1>3. InForce'
  <2>1. List' \subseteq router'.barred \cup router'.paused
    BY DEF List
  <2>2. OkSecured' /\ BlockProgress'
    BY <1>1, <2>1 DEF OkSecured, BlockProgress, Owner
  <2>3. QED BY <2>2, SecureStep
<1>4. Accounted'
  <2>1. ListOwed'
    BY <1>1 DEF ListOwed, ByHand, Ordered
  <2>2. OpenWrtLoaded'
    BY <1>1 DEF OpenWrtLoaded
  <2>3. RemovalSettled'
    <3>1. RulesSettled' /\ ~Flagged' /\ Plugin' \notin SlotRouters
      BY <1>1 DEF RulesSettled, RuleEach, Flagged, SlotRouters
    <3>2. call.device \notin List' => Settled'
      BY <1>1, <3>1 DEF Settled
    <3>3. QED BY <1>1, <3>2 DEF RemovalSettled
  <2>4. QED BY <2>1, <2>2, <2>3, OweStep
<1>5. QED BY <1>2, <1>3, <1>4

LEMMA LinksysStep ==
    ASSUME Shape, InForce, Accounted, Linksys
    PROVE  Shape' /\ InForce' /\ Accounted'
<1>1. TypeOK /\ CallShape
  BY DEF Shape
<1>2. TypeOK' /\ Frame
  BY <1>1, LinksysType
<1>3. CASE linksysChangeDNS
  BY <1>3, DnsStep DEF linksysChangeDNS
<1>4. ASSUME call.method \in Blocks \cup Lifts, Plugin = "linksys"
      PROVE  /\ call.result = "none" /\ call.device \in Device
             /\ call.method \in Blocks <=> call.method \notin Lifts
             /\ Unspoiled' => "unread" \notin kinds'
             /\ Undisturbed' => "unread" \notin kinds'
             /\ call'.method = call.method /\ call'.device = call.device
             /\ List \subseteq Device /\ call.seen \subseteq Device /\ owed' = owed
  <2>1. List \subseteq Device /\ call.seen \subseteq Device
    BY <1>1, <1>4 DEF List, TypeOK, RouterState, CallState, Blocks, Lifts
  <2>2. QED BY <1>1, <1>2, <1>4, <2>1, Spoilers, FrameFacts
            DEF Frame, CallShape, Unspoiled, Undisturbed, Blocks, Lifts
<1>5. CASE linksysGet
  <2>1. /\ Plugin = "linksys" /\ call.method \in Blocks \cup Lifts /\ call.pc = "go" /\ Kept
        /\ call'.pc \in {"set", "returned"}
        /\ "unread" \notin kinds' =>
            /\ call'.result = "ok" => Done(List)
            /\ call'.pc = "set" => call'.seen = List
    BY <1>1, <1>5, <1>4, CallFields DEF linksysGet, At, Read, Got, Kept, Disturb
  <2>2. List' = List
    BY <1>4, <2>1 DEF Kept, List
  <2>3. Undisturbed' => \A d \in List : ByHand(d) \/ Ordered(d, Entry(call.method))
    <3>1. Undisturbed' => \A d \in List : Owes(d)
      BY <1>2, <1>4, <2>1, FrameFacts DEF Accounted, BlocksOwed
    <3>2. CASE call.method \in Paused
      BY <2>1, <3>1, <3>2 DEF Owes, List, Entry
    <3>3. CASE call.method \notin Paused
      BY <2>1, <3>1, <3>3 DEF Owes, List, Entry, Paused
    <3>4. QED BY <3>2, <3>3
  <2>4. /\ Done(List) /\ call.method \in Blocks => call.device \in List
        /\ Done(List) /\ call.method \in Lifts => call.device \notin List
    BY <1>4, <2>1 DEF Done, Client
  <2>5. /\ \A d \in held : Secured(d) => Secured(d)'
        /\ \A d \in Device : Owes(d) => Owes(d)'
    BY <1>2, <2>1, KeptSecures, ShrinkOwes DEF Kept, AllRules
  <2>6. QED BY <1>2, <1>4, <2>1, <2>2, <2>3, <2>4, <2>5, ListStep DEF Kept
<1>6. CASE linksysSet
  <2> DEFINE list == IF call.method \in Blocks THEN call.seen \cup {Client}
                                               ELSE call.seen \ {Client}
  <2>1. /\ Plugin = "linksys" /\ call.method \in Blocks \cup Lifts /\ call.pc = "set"
        /\ call'.pc \in {"verify", "returned"} /\ (call'.result = "ok" => FALSE)
    BY <1>1, <1>6, <1>4, CallFields DEF linksysSet, At, Send, Throws
  <2>2. /\ router'.rules = router.rules /\ router'.running = router.running
        /\ List' \in {List, list}
        /\ call.method \in Paused => router'.barred = router.barred /\ List' = router'.paused
                                        /\ List = router.paused
        /\ call.method \notin Paused => router'.paused = router.paused /\ List' = router'.barred
                                        /\ List = router.barred
    <3>1. router' = router \/ router' = WithList(list)
      BY <1>6 DEF linksysSet, Send
    <3>2. QED BY <1>1, <1>4, <2>1, <3>1 DEF WithList, List, TypeOK, RouterState
  <2> HIDE DEF list
  <2>3. ASSUME Unspoiled', NEW d \in held, Secured(d) PROVE Secured(d)'
    <3>1. call.seen = List
      BY <1>2, <2>1, <2>3, FrameFacts DEF InForce, BlockProgress
    <3>2. call.method \in Lifts => d # call.device
      BY <1>2, FrameFacts
    <3>3. d \in List => d \in List'
      BY <1>4, <2>1, <2>2, <3>1, <3>2 DEF list, Client
    <3>4. CASE d \in router.barred \cup router.paused
      <4>1. d \in router'.barred \cup router'.paused
        BY <2>2, <3>3, <3>4
      <4>2. QED BY <4>1 DEF Secured
    <3>5. CASE d \notin router.barred \cup router.paused
      BY <1>2, <2>2, <2>3, <3>5, FrameFacts DEF Secured, Owner, Frame
    <3>6. QED BY <3>4, <3>5
  <2>4. ASSUME Undisturbed', NEW d \in Device, Owes(d) PROVE Owes(d)'
    <3>1. Entry("blockMAC") = "mac" /\ Entry("blockMAC")' = "mac"
          /\ Entry(call.method) = IF call.method \in Paused THEN "paused" ELSE "mac"
      BY <1>2, <2>1, FrameFacts DEF Entry, Paused
    <3>2. d \in list => ByHand(d) \/ Ordered(d, Entry(call.method))
      <4>1. CASE d \in call.seen
        BY <1>2, <2>1, <2>4, <4>1, FrameFacts DEF Accounted, ListOwed
      <4>2. CASE d \notin call.seen /\ d \in list
        <5>1. d = call.device /\ call.method \in Blocks
          BY <4>2 DEF list, Client
        <5>2. <<Entry(call.method), calls>> \in owed[call.device] /\ calls \in 0..MaxCalls
          BY <1>1, <1>2, <5>1, FrameFacts DEF TypeOK
        <5>3. QED BY <5>1, <5>2 DEF Ordered
      <4>3. QED BY <4>1, <4>2
    <3>3. d \in List => ByHand(d) \/ Ordered(d, Entry(call.method))
      BY <2>2, <2>4, <3>1 DEF Owes
    <3>4. d \in List' => ByHand(d) \/ Ordered(d, Entry(call.method))
      BY <2>2, <3>2, <3>3
    <3>5. \/ ByHand(d)
          \/ /\ d \in router'.barred => Ordered(d, "mac")
             /\ d \in router'.paused => Ordered(d, "paused")
      BY <2>2, <2>4, <3>1, <3>4 DEF Owes
    <3>6. AllRules' = AllRules /\ addr' = addr
      BY <1>2, <2>2 DEF AllRules, Frame
    <3>7. QED BY <1>4, <2>1, <2>4, <3>1, <3>5, <3>6 DEF Owes, ByHand, Ordered, Owner
  <2>5. QED BY <1>2, <1>4, <2>1, <2>2, <2>3, <2>4, ListStep
<1>7. CASE linksysVerify
  <2>1. /\ Plugin = "linksys" /\ call.method \in Blocks \cup Lifts /\ Kept
        /\ call'.pc = "returned"
        /\ "unread" \notin kinds' /\ call'.result = "ok" =>
                (call.method \in Blocks <=> call.device \in List)
    BY <1>1, <1>7, CallFields DEF linksysVerify, At, Read, Shows, Kept, Disturb, Client
  <2>2. List' = List
    BY <1>4, <2>1 DEF Kept, List
  <2>3. /\ \A d \in held : Secured(d) => Secured(d)'
        /\ \A d \in Device : Owes(d) => Owes(d)'
    BY <1>2, <2>1, KeptSecures, ShrinkOwes DEF Kept, AllRules
  <2>4. QED BY <1>2, <1>4, <2>1, <2>2, <2>3, ListStep DEF Kept
<1>8. QED BY <1>3, <1>5, <1>6, <1>7 DEF Linksys

LEMMA MethodStep ==
    ASSUME Shape, InForce, Accounted, Methods_
    PROVE  Shape' /\ InForce' /\ Accounted'
BY OpenWrtStep, MikroTikStep, EdgeRouterStep, DrayTekStep, UniFiStep, OmadaStep, KeeneticStep,
   FritzBoxStep, LinksysStep DEF Methods_

----------------------------------------------------------------------------
\* The executor and the household keep the types.

LEMMA BeginCases ==
    ASSUME NEW method, NEW ip
    PROVE  /\ Begin(method, ip).pc \in {"returned", "probe", "login", "go"}
           /\ Begin(method, ip).result \in {"none", "ok", "failed"}
           /\ Begin(method, ip).pc = "returned" <=> Begin(method, ip).result # "none"
           /\ Begin(method, ip).result = "ok" => dryRun
           /\ Begin(method, ip).pc = "probe" => method \in Probes
           /\ Begin(method, ip).pc = "login" => Plugin \in LogsIn
           /\ Begin(method, ip).pc \in {"login", "go"} =>
                /\ ~dryRun /\ method \notin Unsupported[Plugin]
                /\ NeedsAddress(method) => ip # None
BY DEF Begin

\* What a new call brings.
NewCall(method, d, ip) ==
    /\ method \in Scope[pluginId] /\ d \in Targets(method) /\ ip \in Addresses(method, d)
    /\ call' = Called(method, d, ip)
    /\ IF dryRun \/ method \notin Blocks \cup Lifts THEN UNCHANGED ghosts
       ELSE /\ held' = IF method \in Lifts THEN held \ {d} ELSE held
            /\ owed' = IF method \in Blocks
                       THEN [owed EXCEPT ![d] = @ \cup {<<Entry(method), calls'>>}] ELSE owed

LEMMA CallMade ==
    ASSUME TypeOK, executeSingleAction
    PROVE  /\ calls' = calls + 1 /\ calls < MaxCalls /\ UNCHANGED <<world, router, faults, kinds>>
           /\ call.pc = "idle" /\ \E method, d, ip : NewCall(method, d, ip)
BY DEF executeSingleAction, NewCall

LEMMA NewCallShape ==
    ASSUME TypeOK, CallShape, executeSingleAction, NEW method, NEW d, NEW ip, NewCall(method, d, ip)
    PROVE  TypeOK' /\ CallShape' /\ call'.method = method /\ call'.device = d
           /\ call'.pc \in {"returned", "probe", "login", "go"}
           /\ (call'.result = "ok" => dryRun) /\ (method \in Blocks \cup Lifts => d \in Device)
           /\ Plugin' = Plugin
<1> DEFINE b == Begin(method, ip)
<1>1. /\ b.pc \in {"returned", "probe", "login", "go"} /\ b.result \in {"none", "ok", "failed"}
      /\ b.pc = "returned" <=> b.result # "none"
      /\ b.result = "ok" => dryRun
      /\ b.pc = "probe" => method \in Probes
      /\ b.pc = "login" => Plugin \in LogsIn
      /\ b.pc \in {"login", "go"} => /\ ~dryRun /\ method \notin Unsupported[Plugin]
                                     /\ NeedsAddress(method) => ip # None
  BY BeginCases
<1>2. /\ call'.method = method /\ call'.device = d /\ call'.ip = ip /\ call'.pc = b.pc
      /\ call'.result = b.result /\ call'.seen = {}
      /\ call' = [method |-> method, device |-> d, ip |-> ip, pc |-> b.pc,
                  seen |-> {}, result |-> b.result]
  BY DEF NewCall, Called
<1> HIDE DEF b
<1>3. calls' = calls + 1 /\ calls < MaxCalls /\ calls \in Nat /\ calls' \in 1..MaxCalls
      /\ UNCHANGED <<world, router, faults, kinds>>
  BY CallMade, Bounds DEF TypeOK
<1>4. Plugin' = Plugin /\ addr' = addr /\ dryRun' = dryRun /\ pluginId' = pluginId
  BY <1>3, PluginStays DEF world
<1>5. /\ method \in Blocks \cup Lifts => d \in Device
      /\ method \in Blocks \cup Lifts /\ Still => ip \in {addr[d], None}
  BY DEF NewCall, Targets, Addresses, Blocks, Lifts, Probes, OptionalMethods, Still
<1>6. d \in Device \cup {None} /\ ip \in Address \cup {None}
  <2>1. ip \in Address \cup {None}
    BY <1>5, PluginAssumption DEF NewCall, Addresses, TypeOK, PluginAssumption
  <2>2. QED BY <2>1 DEF NewCall, Targets
<1>7. call' \in CallState(method)
  BY <1>1, <1>2, <1>6 DEF CallState, Steps, Results
<1>8. owed' \in [Device -> SUBSET ({"any", "mac", "rule", "paused", "hand"} \X (0..MaxCalls))]
      /\ held' \subseteq Device
  <2>1. Entry(method) \in {"any", "mac", "rule", "paused"}
    BY DEF Entry
  <2>2. <<Entry(method), calls'>> \in {"any", "mac", "rule", "paused", "hand"} \X (0..MaxCalls)
    BY <1>3, <2>1
  <2>3. QED BY <1>5, <2>2 DEF NewCall, ghosts, TypeOK
<1>9. TypeOK'
  <2>1. method \in Scope[pluginId]
    BY DEF NewCall
  <2>2. QED BY <1>1, <1>2, <1>3, <1>4, <1>7, <1>8, <2>1 DEF TypeOK
<1>10. CallShape'
  <2>1. Still' = Still /\ NeedsAddress(method)' = NeedsAddress(method)
    BY <1>3, <1>4 DEF Still, NeedsAddress
  <2>2. QED BY <1>1, <1>2, <1>3, <1>4, <1>5, <2>1 DEF CallShape, NeedsAddress
<1>11. QED BY <1>1, <1>2, <1>4, <1>5, <1>9, <1>10

\* The call of a step of a method.
LEMMA CallStays ==
    ASSUME CallShape, Frame PROVE CallShape'
<1>1. Plugin' = Plugin /\ (Still' => Still) /\ calls' = calls /\ addr' = addr /\ dryRun' = dryRun
  BY PluginStays DEF Frame, Still
<1>2. QED BY <1>1 DEF CallShape, Frame, NeedsAddress

\* A disturbance.
LEMMA Disturbed ==
    ASSUME TypeOK, NEW kind, Disturb(kind)
    PROVE  faults' \in 0..MaxFaults /\ kinds' = kinds \cup {kind} /\ kinds' \subseteq Faults
BY Bounds DEF TypeOK, Disturb

\* The household, and an agent that is restarted, leave the call as it is or end it.
LEMMA HouseholdType ==
    ASSUME TypeOK, CallShape, HandBlock \/ Move \/ Roam \/ Restart
    PROVE  TypeOK' /\ CallShape' /\ UNCHANGED <<pluginId, dryRun, calls>>
           /\ Plugin' = Plugin /\ kinds \subseteq kinds'
<1>1. UNCHANGED <<pluginId, dryRun, calls>> /\ kinds \subseteq kinds'
      /\ faults' \in 0..MaxFaults /\ kinds' \subseteq Faults
  BY Disturbed DEF HandBlock, Move, Roam, Restart, world
<1>2. Plugin' = Plugin
  BY <1>1, PluginStays
<1> USE <1>1, <1>2
<1>3. call' = call \/ call' = Idle
  BY DEF HandBlock, Move, Roam, Restart
<1>4. call'.method \in Scope[pluginId] \cup {"none"} /\ call' \in CallState(call'.method)
      /\ (call'.pc = "returned" <=> call'.result # "none")
  BY <1>3, Bounds DEF TypeOK, Idle, CallState, Steps, Results
<1>5. addr' \in [Device -> Address] /\ (Still' => addr' = addr)
  <2>1. CASE Move
    <3>1. "move" \in kinds'
      BY <2>1, Disturbed DEF Move
    <3>2. QED BY <2>1, <3>1 DEF Move, TypeOK, Still
  <2>2. CASE HandBlock \/ Roam \/ Restart
    BY <2>2 DEF HandBlock, Roam, Restart, TypeOK, world
  <2>3. QED BY <2>1, <2>2
<1>6. router' \in RouterState
  <2>1. CASE HandBlock
    <3>1. PICK d \in Device :
            router' = IF Plugin \in {"openwrt", "mikrotik", "edgerouter", "draytek"}
                      THEN WithRules(router.rules \cup
                             {[id |-> 0, name |-> <<"hand", d>>, ip |-> None, mac |-> d]})
                      ELSE Deny(d)
      BY <2>1 DEF HandBlock
    <3>2. [id |-> 0, name |-> <<"hand", d>>, ip |-> None, mac |-> d] \in Rule
      BY Bounds DEF Rule
    <3>3. router.rules \cup {[id |-> 0, name |-> <<"hand", d>>, ip |-> None, mac |-> d]}
            \in SUBSET Rule
      BY <3>2 DEF TypeOK, RouterState
    <3>4. QED BY <3>1, <3>3, RouterTypes
  <2>2. CASE Roam
    <3>1. \A d \in Device : [router EXCEPT !.online = @ \cup {d}] \in RouterState
      BY DEF TypeOK, RouterState
    <3>2. QED BY <2>2, <3>1, RouterTypes DEF Roam
  <2>3. CASE Move \/ Restart
    BY <2>3 DEF Move, Restart, TypeOK
  <2>4. QED BY <2>1, <2>2, <2>3
<1>7. held' \subseteq Device
      /\ owed' \in [Device -> SUBSET ({"any", "mac", "rule", "paused", "hand"} \X (0..MaxCalls))]
  <2>1. CASE HandBlock
    <3>1. PICK d \in Device :
            /\ held' \in {held, held \cup {d}}
            /\ owed' = [owed EXCEPT ![d] = @ \cup {<<"hand", 0>>}]
      BY <2>1 DEF HandBlock
    <3>2. <<"hand", 0>> \in {"any", "mac", "rule", "paused", "hand"} \X (0..MaxCalls)
      BY Bounds
    <3>3. QED BY <3>1, <3>2 DEF TypeOK
  <2>2. CASE Move \/ Roam \/ Restart
    BY <2>2 DEF Move, Roam, Restart, ghosts, TypeOK
  <2>3. QED BY <2>1, <2>2
<1>8. TypeOK'
  BY <1>4, <1>5, <1>6, <1>7 DEF TypeOK
<1>9. CallShape'
  <2>1. Still' => Still
    BY DEF Still
  <2>2. CASE call' = call
    BY <1>5, <2>1, <2>2 DEF CallShape, NeedsAddress
  <2>3. CASE call' = Idle
    BY <2>3 DEF CallShape, Idle, Blocks, Lifts
  <2>4. QED BY <1>3, <2>2, <2>3
<1>10. QED BY <1>8, <1>9

LEMMA ProbeType ==
    ASSUME TypeOK, CallShape, Probe
    PROVE  TypeOK' /\ CallShape' /\ Kept /\ UNCHANGED <<world, calls, ghosts>>
           /\ call'.method = call.method /\ call'.device = call.device
           /\ call.method \in Probes /\ call.pc = "probe" /\ call'.pc = "returned"
           /\ kinds \subseteq kinds' /\ kinds' \subseteq kinds \cup {"unread"} /\ Plugin' = Plugin
<1>1. PICK result \in {"ok", "failed"} : call' = Return(result)
  BY DEF Probe, Read, Throws
<1>2. NextCall(Return(result))
  BY ReturnCall DEF Results
<1>3. /\ faults' \in 0..MaxFaults /\ kinds' \subseteq Faults
      /\ kinds \subseteq kinds' /\ kinds' \subseteq kinds \cup {"unread"}
  BY Disturbed DEF Probe, Read, Quiet, TypeOK
<1>4. router' = router /\ UNCHANGED <<world, calls, ghosts>> /\ call.pc = "probe"
  BY DEF Probe, Read
<1>5. Plugin' = Plugin
  BY <1>4, PluginStays DEF world
<1>6. call'.pc = "returned" /\ call'.result = result /\ call'.method = call.method
      /\ call'.device = call.device /\ call'.ip = call.ip /\ call' \in CallState(call.method)
  BY <1>1, <1>2, ReturnCall DEF Results, NextCall, CallState
<1>7. TypeOK'
  BY <1>3, <1>4, <1>6 DEF TypeOK, world, ghosts
<1>8. CallShape'
  BY <1>3, <1>4, <1>5, <1>6 DEF CallShape, Still, world, NeedsAddress
<1>9. call.method \in Probes
  BY <1>4 DEF CallShape
<1>10. QED BY <1>3, <1>4, <1>5, <1>6, <1>7, <1>8, <1>9 DEF Kept

LEMMA ReportType ==
    ASSUME TypeOK, CallShape, Report
    PROVE  TypeOK' /\ CallShape' /\ call.pc = "returned" /\ call' = Idle
           /\ UNCHANGED <<world, router, calls, kinds>> /\ Plugin' = Plugin
<1>1. UNCHANGED <<world, router, calls, faults, kinds>> /\ call' = Idle /\ call.pc = "returned"
  BY DEF Report
<1>2. Plugin' = Plugin /\ pluginId' = pluginId
  BY <1>1, PluginStays DEF world
<1>3. call'.method \in Scope[pluginId] \cup {"none"} /\ call' \in CallState(call'.method)
      /\ (call'.pc = "returned" <=> call'.result # "none")
  BY <1>1, Bounds DEF Idle, CallState, Steps, Results
<1>4. held' \subseteq Device
      /\ owed' \in [Device -> SUBSET ({"any", "mac", "rule", "paused", "hand"} \X (0..MaxCalls))]
  BY DEF Report, ghosts, TypeOK, CallShape
<1>5. TypeOK'
  BY <1>1, <1>2, <1>3, <1>4 DEF TypeOK, world
<1>6. CallShape'
  BY <1>1 DEF CallShape, Idle, Blocks, Lifts
<1>7. QED BY <1>1, <1>2, <1>5, <1>6

----------------------------------------------------------------------------
\* Every step keeps the types and what a call looks like.
LEMMA TypedStep == TypeOK /\ CallShape /\ [Next]_vars => (TypeOK /\ CallShape)'
<1> SUFFICES ASSUME TypeOK, CallShape, [Next]_vars PROVE TypeOK' /\ CallShape'
  OBVIOUS
<1>1. CASE executeSingleAction
  BY <1>1, CallMade, NewCallShape
<1>2. CASE Probe
  BY <1>2, ProbeType
<1>3. CASE Report
  BY <1>3, ReportType
<1>4. CASE Methods_
  BY <1>4, MethodType, CallStays
<1>5. CASE HandBlock \/ Move \/ Roam \/ Restart
  BY <1>5, HouseholdType
<1>6. CASE UNCHANGED vars
  <2>1. Plugin' = Plugin /\ pluginId' = pluginId
    BY <1>6, PluginStays DEF vars, world
  <2>2. QED BY <1>6, <2>1 DEF vars, world, ghosts, TypeOK, CallShape, Still, NeedsAddress
<1>7. QED BY <1>1, <1>2, <1>3, <1>4, <1>5, <1>6 DEF Next

LEMMA TypedInit == Init => TypeOK /\ CallShape
<1> SUFFICES ASSUME Init PROVE TypeOK /\ CallShape
  OBVIOUS
<1>1. router \in RouterState
  <2>1. PICK clients \in SUBSET Device : router = [EmptyRouter EXCEPT !.online = clients]
    BY DEF Init
  <2>2. QED BY <2>1 DEF EmptyRouter, RouterState
<1>2. call.method = "none" /\ call \in CallState(call.method)
      /\ (call.pc = "returned" <=> call.result # "none")
  BY Bounds DEF Init, Idle, CallState, Steps, Results
<1>3. TypeOK
  BY <1>1, <1>2, PluginAssumption, Bounds DEF Init, TypeOK, PluginAssumption
<1>4. CallShape
  BY DEF Init, Idle, CallShape, Blocks, Lifts
<1>5. QED BY <1>3, <1>4

\* TypeOK: the variables of the router, the call and the ledgers keep their
\* types with every plugin, whatever the household and the network do meanwhile.
THEOREM PluginTypeCorrect == Spec => []TypeOK
<1>1. TypeOK /\ CallShape => TypeOK
  OBVIOUS
<1>2. QED BY <1>1, TypedInit, TypedStep, PTL DEF Spec

----------------------------------------------------------------------------
\* The executor and the household keep the rest of the invariant.

\* Orders are only added, and rules are those there were.
LEMMA MoreOwed ==
    ASSUME Shape, Plugin' = Plugin, \A d \in Device : owed[d] \subseteq owed'[d], Kept,
           Plugin \in SlotRouters => addr' = addr, NEW d \in Device, Owes(d)
    PROVE  Owes(d)'
<1>1. Entry("blockMAC")' = Entry("blockMAC") /\ AllRules' = AllRules
  BY DEF Entry, AllRules, Kept
<1>2. \A r \in AllRules : r.name[1] = "slot" => addr' = addr
  BY DEF Shape, RuleShape, GoodRule
<1>3. QED BY <1>1, <1>2 DEF Owes, ByHand, Ordered, Owner, Kept

LEMMA SharingStays == ASSUME Plugin' = Plugin PROVE Sharing' = Sharing
BY DEF Sharing, SharesSlot

LEMMA CallStep ==
    ASSUME IInv, executeSingleAction PROVE IInv'
<1>1. TypeOK /\ CallShape /\ Shape /\ InForce /\ Accounted
  BY DEF IInv, Shape
<1>2. /\ calls' = calls + 1 /\ call.pc = "idle" /\ UNCHANGED <<world, router, faults, kinds>>
      /\ calls \in Nat
  BY <1>1, CallMade, Bounds DEF TypeOK
<1>3. PICK method, d, ip : NewCall(method, d, ip)
  BY <1>1, CallMade
<1>4. /\ TypeOK' /\ CallShape' /\ call'.method = method /\ call'.device = d
      /\ call'.pc \in {"returned", "probe", "login", "go"}
      /\ call'.result = "ok" => dryRun
      /\ method \in Blocks \cup Lifts => d \in Device
      /\ Plugin' = Plugin
  BY <1>1, <1>3, NewCallShape
<1>5. /\ Kept /\ AllRules' = AllRules /\ dryRun' = dryRun /\ addr' = addr /\ Still' = Still
      /\ BlockSpoilers' = BlockSpoilers /\ LiftSpoilers' = LiftSpoilers
      /\ Unspoiled' = Unspoiled /\ Undisturbed' = Undisturbed
      /\ Entry(method)' = Entry(method)
  BY <1>2, <1>4 DEF Kept, AllRules, world, Still, BlockSpoilers, LiftSpoilers, Unspoiled,
        Undisturbed, Entry
<1>6. \A r \in AllRules : r.id \in Nat /\ r.id < calls' /\ r.id # calls'
  BY <1>1, <1>2, NamePair DEF Shape, RuleShape, GoodRule
<1>7. Shape'
  <2>1. RuleShape'
    BY <1>1, <1>2, <1>4, <1>5, <1>6 DEF Shape, RuleShape, GoodRule, SlotMac, SlotIp
  <2>2. RuleIds'
    BY <1>1, <1>5, <1>6 DEF Shape, RuleIds
  <2>3. RouterShape' /\ FoundStays' /\ AddressesApart'
    BY <1>1, <1>4, <1>5 DEF Shape, RouterShape, FoundStays, AddressesApart, Kept
  <2>4. QED BY <1>4, <2>1, <2>2, <2>3 DEF Shape
<1>8. InForce'
  <2>1. held' \subseteq held /\ (~dryRun /\ method \in Lifts => d \notin held')
    BY <1>3 DEF NewCall, ghosts, Blocks, Lifts
  <2>2. \A e : Secured(e) => Secured(e)'
    BY <1>5, <1>6 DEF Secured, Owner, Kept, AllRules
  <2>3. HeldSecured'
    BY <1>1, <1>4, <1>5, <2>1, <2>2, SharingStays DEF InForce, HeldSecured
  <2>4. OkSecured' /\ BlockProgress' /\ LiftedNotHeld'
    BY <1>4, <1>5, <2>1 DEF OkSecured, BlockProgress, LiftedNotHeld
  <2>5. QED BY <2>3, <2>4 DEF InForce
<1>9. Accounted'
  <2>1. /\ \A e \in Device : owed[e] \subseteq owed'[e]
        /\ ~dryRun /\ method \in Blocks => <<Entry(method), calls'>> \in owed'[d]
    BY <1>1, <1>3, <1>4 DEF NewCall, ghosts, TypeOK
  <2>2. BlocksOwed'
    BY <1>1, <1>4, <1>5, <2>1, MoreOwed DEF Accounted, BlocksOwed
  <2>3. OrderStands'
    BY <1>4, <1>5, <2>1 DEF OrderStands
  <2>4. ListOwed' /\ OpenWrtLoaded' /\ RemovalSettled'
    BY <1>1, <1>2, <1>4, <1>5
       DEF ListOwed, OpenWrtLoaded, RemovalSettled, Accounted, Kept
  <2>5. QED BY <2>2, <2>3, <2>4 DEF Accounted
<1>10. QED BY <1>7, <1>8, <1>9 DEF IInv

\* Steps that leave the rules, the flags and the ledgers as they are, and the
\* call of the same device and method or ended.
LEMMA CalmStep ==
    ASSUME IInv, TypeOK', CallShape', AddressesApart', Kept, Plugin' = Plugin,
           UNCHANGED <<dryRun, calls, held, owed>>, kinds \subseteq kinds',
           Still' => addr' = addr,
           \/ call' = call
           \/ call' = Idle /\ (Undisturbed' /\ Plugin = "openwrt" => call.pc # "reload")
    PROVE  IInv'
<1>1. Shape /\ InForce /\ Accounted /\ AllRules' = AllRules
  BY DEF IInv, Kept, AllRules
<1>2. /\ BlockSpoilers' = BlockSpoilers /\ LiftSpoilers' = LiftSpoilers
      /\ Unspoiled' => Unspoiled
      /\ Undisturbed' => Undisturbed
      /\ Still' => Still
  BY DEF BlockSpoilers, LiftSpoilers, Unspoiled, Undisturbed, Still
<1>3. call' # call => /\ call'.pc = "idle" /\ call'.result = "none"
                      /\ call'.method \notin Blocks \cup Lifts
  BY DEF Idle, Blocks, Lifts
<1>4. Shape'
  <2>1. RuleShape'
    BY <1>1, <1>2 DEF Shape, RuleShape, GoodRule, SlotMac, SlotIp
  <2>2. RuleIds'
    BY <1>1, <1>3 DEF Shape, RuleIds, Entry
  <2>3. RouterShape'
    BY <1>1 DEF Shape, RouterShape, Kept
  <2>4. FoundStays'
    BY <1>1, <1>3 DEF Shape, FoundStays, Kept, findFirewallRuleSection, Name, Found,
        findFirewallRule, findAccessListEntry, unifiFindRule
  <2>5. QED BY <2>1, <2>2, <2>3, <2>4 DEF Shape
<1>5. InForce'
  <2>1. \A d : Secured(d) => Secured(d)'
    BY <1>3 DEF Secured, Owner, Kept
  <2>2. HeldSecured'
    BY <1>1, <1>2, <2>1, SharingStays DEF InForce, HeldSecured
  <2>3. OkSecured' /\ LiftedNotHeld'
    BY <1>1, <1>2, <1>3 DEF InForce, OkSecured, LiftedNotHeld, Kept, Owner
  <2>4. BlockProgress'
    BY <1>1, <1>2, <1>3 DEF InForce, BlockProgress, Kept, List
  <2>5. QED BY <2>2, <2>3, <2>4 DEF InForce
<1>6. Accounted'
  <2>1. ASSUME Undisturbed', NEW d \in Device PROVE Owes(d)'
    <3>1. Plugin \in SlotRouters => Still'
      BY <1>2, <2>1, Spoilers DEF Undisturbed, Still, SlotRouters
    <3>2. \A e \in Device : owed[e] \subseteq owed'[e]
      OBVIOUS
    <3>3. Owes(d)
      BY <1>1, <1>2, <2>1 DEF Accounted, BlocksOwed
    <3>4. QED BY <1>1, <3>1, <3>2, <3>3, MoreOwed
  <2>2. OrderStands'
    BY <1>1, <1>3 DEF Accounted, OrderStands, Entry
  <2>3. ListOwed'
    BY <1>1, <1>2, <1>3 DEF Accounted, ListOwed, Entry, ByHand, Ordered
  <2>4. OpenWrtLoaded'
    BY <1>1, <1>2, <1>3 DEF Accounted, OpenWrtLoaded, Kept, findFirewallRuleSection, Name
  <2>5. RemovalSettled'
    <3>1. call' = call /\ Settled => Settled'
      BY DEF Settled, ByHand, RulesSettled, RuleEach, Flagged, Entry, Kept, ruleIndexFor, List
    <3>2. QED BY <1>1, <1>2, <1>3, <3>1 DEF Accounted, RemovalSettled
  <2>6. QED BY <2>1, <2>2, <2>3, <2>4, <2>5 DEF Accounted, BlocksOwed
<1>7. QED BY <1>4, <1>5, <1>6 DEF IInv

LEMMA ProbeStep == ASSUME IInv, Probe PROVE IInv'
<1>1. /\ TypeOK' /\ CallShape' /\ Kept /\ UNCHANGED <<world, calls, ghosts>>
      /\ call'.method = call.method /\ call'.device = call.device
      /\ call.method \in Probes /\ call.pc = "probe" /\ call'.pc = "returned"
      /\ kinds \subseteq kinds' /\ kinds' \subseteq kinds \cup {"unread"} /\ Plugin' = Plugin
  BY ProbeType DEF IInv, Shape
<1>2. Shape /\ InForce /\ Accounted /\ AllRules' = AllRules /\ UNCHANGED <<dryRun, addr, held, owed>>
  BY <1>1 DEF IInv, Kept, AllRules, world, ghosts
<1>3. /\ (Unspoiled' => Unspoiled) /\ (Undisturbed' => Undisturbed) /\ (Still' => Still)
      /\ call.method \notin Blocks \cup Lifts
  BY <1>1 DEF BlockSpoilers, LiftSpoilers, Unspoiled, Undisturbed, Still, Probes, Blocks, Lifts,
        OptionalMethods
<1>4. Shape'
  BY <1>1, <1>2, <1>3 DEF Shape, RuleShape, GoodRule, SlotMac, SlotIp, RuleIds, RouterShape,
        FoundStays, AddressesApart, Kept, Entry
<1>5. InForce'
  <2>1. \A d : Secured(d) => Secured(d)'
    BY <1>1 DEF Secured, Owner, Kept
  <2>2. QED BY <1>1, <1>2, <1>3, <2>1, SharingStays
            DEF InForce, HeldSecured, OkSecured, LiftedNotHeld, BlockProgress
<1>6. Accounted'
  <2>1. BlocksOwed'
    BY <1>1, <1>2, <1>3, MoreOwed DEF Accounted, BlocksOwed
  <2>2. OpenWrtLoaded'
    BY <1>1, <1>2, <1>3 DEF Accounted, OpenWrtLoaded, Kept
  <2>3. QED BY <1>1, <1>3, <2>1, <2>2 DEF Accounted, OrderStands, ListOwed, RemovalSettled
<1>7. QED BY <1>4, <1>5, <1>6 DEF IInv

LEMMA RestartMoveRoamStep == ASSUME IInv, Restart \/ Move \/ Roam PROVE IInv'
<1>1. /\ TypeOK' /\ CallShape' /\ UNCHANGED <<pluginId, dryRun, calls>>
      /\ Plugin' = Plugin /\ kinds \subseteq kinds' /\ TypeOK
  BY HouseholdType DEF IInv, Shape
<1>2. UNCHANGED <<held, owed>> /\ Kept
  <2>1. CASE Roam
    <3>1. PICK d \in Device : router' = [router EXCEPT !.online = @ \cup {d}] \/ router' = Kick(d)
      BY <2>1 DEF Roam
    <3>2. Kept
      BY <1>1, <3>1 DEF Kept, Kick, TypeOK, RouterState
    <3>3. QED BY <2>1, <3>2 DEF Roam, ghosts
  <2>2. QED BY <2>1 DEF Restart, Move, Kept, ghosts
<1>3. AddressesApart' /\ (Still' => addr' = addr)
  <2>1. CASE Move
    <3>1. PICK d \in Device, e \in Device : addr' = [addr EXCEPT ![d] = addr[e], ![e] = addr[d]]
      BY <2>1 DEF Move
    <3>2. "move" \in kinds'
      BY <2>1 DEF Move, Disturb
    <3>3. AddressesApart'
      <4>1. AddressesApart /\ addr \in [Device -> Address]
        BY <1>1 DEF IInv, Shape, TypeOK
      <4>2. \A f \in Device : addr'[f] = IF f = e THEN addr[d] ELSE IF f = d THEN addr[e] ELSE addr[f]
        BY <3>1, <4>1
      <4>3. QED BY <4>1, <4>2 DEF AddressesApart
    <3>4. QED BY <3>2, <3>3 DEF Still
  <2>2. CASE Restart \/ Roam
    BY <2>2 DEF Restart, Roam, world, AddressesApart, IInv, Shape
  <2>3. QED BY <2>1, <2>2
<1>4. \/ call' = call
      \/ call' = Idle /\ (Undisturbed' /\ Plugin = "openwrt" => call.pc # "reload")
  <2>1. CASE Restart
    <3>1. "restart" \in kinds' /\ call' = Idle
      BY <2>1 DEF Restart, Disturb
    <3>2. Plugin = "openwrt" => ~Undisturbed'
      BY <1>1, <3>1 DEF Undisturbed, LiftSpoilers
    <3>3. QED BY <3>1, <3>2
  <2>2. QED BY <2>1 DEF Move, Roam
<1>5. QED BY <1>1, <1>2, <1>3, <1>4, CalmStep

LEMMA StutterStep == ASSUME IInv, UNCHANGED vars PROVE IInv'
<1>1. Plugin' = Plugin
  BY PluginStays DEF vars, world
<1>2. TypeOK' /\ CallShape' /\ AddressesApart'
  BY <1>1 DEF IInv, Shape, TypeOK, CallShape, AddressesApart, vars, world, ghosts, Still, NeedsAddress
<1>3. QED BY <1>1, <1>2, CalmStep DEF vars, world, ghosts, Kept

\* The household adds a rule or bars a client.
LEMMA HandBlockStep == ASSUME IInv, HandBlock PROVE IInv'
<1>1. /\ TypeOK' /\ CallShape' /\ UNCHANGED <<pluginId, dryRun, calls>>
      /\ Plugin' = Plugin /\ kinds \subseteq kinds' /\ TypeOK
  BY HouseholdType DEF IInv, Shape
<1>2. PICK d \in Device :
        /\ router' = IF Plugin \in RuleRouters
                     THEN WithRules(router.rules \cup
                            {[id |-> 0, name |-> <<"hand", d>>, ip |-> None, mac |-> d]})
                     ELSE Deny(d)
        /\ held' = IF call.method \in Lifts /\ call.device = d THEN held ELSE held \cup {d}
        /\ owed' = [owed EXCEPT ![d] = @ \cup {<<"hand", 0>>}]
  BY DEF HandBlock, RuleRouters, SlotRouters
<1> DEFINE n == [id |-> 0, name |-> <<"hand", d>>, ip |-> None, mac |-> d]
<1>3. n.id = 0 /\ n.name = <<"hand", d>> /\ n.name[1] = "hand" /\ n.name[2] = d
      /\ n.ip = None /\ n.mac = d
  OBVIOUS
<1>4. /\ Plugin \in RuleRouters => /\ router'.rules = router.rules \cup {n}
                                   /\ router'.running = router.rules \cup {n}
                                   /\ UNCHANGED <<router.barred, router.paused>>
      /\ Plugin \notin RuleRouters => /\ UNCHANGED <<router.rules, router.running, router.paused>>
                                      /\ router'.barred = router.barred \cup {d}
  BY <1>1, <1>2, RouterFields, FlagFields
<1>5. /\ \A e \in Device : owed[e] \subseteq owed'[e]
      /\ <<"hand", 0>> \in owed'[d]
      /\ held \subseteq held' /\ held' \subseteq held \cup {d}
  BY <1>1, <1>2 DEF TypeOK
<1> HIDE DEF n
<1>6. call' = call /\ addr' = addr /\ (call.pc # "idle" => "overlap" \in kinds')
  BY DEF HandBlock, world, Disturb
<1>7. /\ BlockSpoilers' = BlockSpoilers /\ LiftSpoilers' = LiftSpoilers
      /\ Unspoiled' => Unspoiled
      /\ Undisturbed' => Undisturbed
      /\ Still' => Still
  BY <1>1 DEF BlockSpoilers, LiftSpoilers, Unspoiled, Undisturbed, Still
<1>8. Shape /\ InForce /\ Accounted
  BY DEF IInv
<1>9. /\ AllRules' \subseteq AllRules \cup {n} /\ (n \in AllRules' => Plugin \in RuleRouters \/ n \in AllRules)
      /\ router.rules \subseteq router'.rules
      /\ router.rules \cap router.running \subseteq router'.rules \cap router'.running
      /\ router.barred \cup router.paused \subseteq router'.barred \cup router'.paused
      /\ Plugin \in RuleRouters => n \in router'.rules \cap router'.running
  BY <1>4 DEF AllRules
<1>10. Shape'
  <2>1. \A r : GoodRule(r) => GoodRule(r)'
    BY <1>1, <1>6, <1>7 DEF GoodRule, SlotMac, SlotIp
  <2>2. Plugin \in RuleRouters => GoodRule(n)
    <3>1. calls \in Nat
      BY <1>1, Bounds DEF TypeOK
    <3>2. QED BY <1>3, <3>1 DEF GoodRule
  <2>3. RuleShape'
    BY <1>8, <1>9, <2>1, <2>2 DEF Shape, RuleShape
  <2>4. RuleIds'
    <3>1. (call.pc # "idle" => calls >= 1) /\ calls \in Nat
      BY <1>1, <1>8, Bounds DEF Shape, CallShape, TypeOK
    <3>2. \A r \in AllRules : r.id \in Nat
      BY <1>1, NamePair
    <3>3. Entry(call.method)' = Entry(call.method)
      BY <1>1, <1>6 DEF Entry
    <3>4. \A r, s \in AllRules' : r.id = s.id /\ r.id > 0 => r = s
      BY <1>3, <1>8, <1>9, <3>2 DEF Shape, RuleIds
    <3>5. call.pc \in {"login", "go"} => \A r \in AllRules' : r.id < calls
      BY <1>3, <1>8, <1>9, <3>1 DEF Shape, RuleIds
    <3>6. call.pc # "idle" => \A r \in AllRules' : r.id = calls => r \in AllRules
      BY <1>3, <1>9, <3>1
    <3>7. QED BY <1>1, <1>6, <1>8, <3>3, <3>4, <3>5, <3>6 DEF Shape, RuleIds
  <2>5. RouterShape'
    BY <1>1, <1>4, <1>8 DEF Shape, RouterShape, RuleRouters, SlotRouters
  <2>6. FoundStays'
    <3>1. /\ findFirewallRuleSection \subseteq findFirewallRuleSection'
          /\ Found \subseteq Found' /\ unifiFindRule \subseteq unifiFindRule'
      BY <1>6, <1>9 DEF findFirewallRuleSection, Name, Found, findFirewallRule,
            findAccessListEntry, unifiFindRule
    <3>2. QED BY <1>1, <1>6, <1>8, <3>1 DEF Shape, FoundStays
  <2>7. QED BY <1>1, <1>6, <1>8, <2>3, <2>4, <2>5, <2>6 DEF Shape, AddressesApart
<1>11. InForce'
  <2>1. \A e : Secured(e) => Secured(e)'
    BY <1>1, <1>6, <1>9 DEF Secured, Owner
  <2>2. Secured(d)'
    <3>1. call.pc = "idle" \/ n.id # calls
      BY <1>1, <1>3, <1>8, Bounds DEF Shape, CallShape, TypeOK
    <3>2. CASE Plugin \in RuleRouters
      BY <1>1, <1>3, <1>6, <1>9, <3>1, <3>2 DEF Secured, Owner
    <3>3. CASE Plugin \notin RuleRouters
      BY <1>4, <3>3 DEF Secured
    <3>4. QED BY <3>2, <3>3
  <2>3. HeldSecured'
    BY <1>1, <1>5, <1>7, <1>8, <2>1, <2>2, SharingStays DEF InForce, HeldSecured
  <2>4. OkSecured'
    BY <1>1, <1>6, <1>7, <1>8, <1>9 DEF InForce, OkSecured, Owner
  <2>5. LiftedNotHeld'
    BY <1>1, <1>2, <1>6, <1>8 DEF InForce, LiftedNotHeld
  <2>6. BlockProgress'
    <3>1. Plugin = "linksys" /\ Unspoiled' => call.pc = "idle"
      BY <1>1, <1>6, Spoilers, <1>7 DEF Unspoiled
    <3>2. Plugin = "openwrt" => router'.running = router'.rules
      BY <1>4 DEF RuleRouters
    <3>3. router.barred \subseteq router'.barred
      BY <1>4
    <3>4. QED BY <1>1, <1>6, <1>7, <1>8, <3>1, <3>2, <3>3 DEF InForce, BlockProgress
  <2>7. QED BY <2>3, <2>4, <2>5, <2>6 DEF InForce
<1>12. Accounted'
  <2>1. ASSUME NEW e \in Device, Owes(e) PROVE Owes(e)'
    <3>1. CASE e = d
      BY <1>5, <3>1 DEF Owes, ByHand
    <3>2. CASE e # d
      <4>1. ~Owner(n, e)
        BY <1>3, <3>2 DEF Owner
      <4>2. Entry("blockMAC")' = Entry("blockMAC")
        BY <1>1 DEF Entry
      <4>3. (e \in router'.barred => e \in router.barred)
            /\ (e \in router'.paused => e \in router.paused)
        BY <1>4, <3>2
      <4>4. owed'[e] = owed[e]
        BY <1>1, <1>2, <3>2 DEF TypeOK
      <4>5. QED BY <1>6, <1>9, <2>1, <4>1, <4>2, <4>3, <4>4 DEF Owes, ByHand, Ordered, Owner
    <3>3. QED BY <3>1, <3>2
  <2>2. BlocksOwed'
    BY <1>7, <1>8, <2>1 DEF Accounted, BlocksOwed
  <2>3. Entry(call.method)' = Entry(call.method)
    BY <1>1, <1>6 DEF Entry
  <2>4. OrderStands'
    <3>1. call.method \in Blocks => call.device \in Device
      BY <1>8 DEF Shape, CallShape
    <3>2. QED BY <1>1, <1>5, <1>6, <1>8, <2>3, <3>1 DEF Accounted, OrderStands
  <2>5. ListOwed'
    <3>1. call.method \in Blocks \cup Lifts => call.seen \subseteq Device
      BY <1>1 DEF TypeOK, CallState, Blocks, Lifts
    <3>2. QED BY <1>1, <1>5, <1>6, <1>7, <1>8, <2>3, <3>1
              DEF Accounted, ListOwed, ByHand, Ordered
  <2>6. OpenWrtLoaded'
    <3>1. findFirewallRuleSection \subseteq findFirewallRuleSection'
      BY <1>6, <1>9 DEF findFirewallRuleSection, Name
    <3>2. Plugin = "openwrt" => router'.running = router'.rules
      BY <1>4 DEF RuleRouters
    <3>3. QED BY <1>1, <1>6, <1>7, <1>8, <3>1, <3>2 DEF Accounted, OpenWrtLoaded
  <2>7. RemovalSettled'
    <3>1. ASSUME Settled, call.method \in Lifts PROVE Settled'
      <4>1. call.device \in Device
        BY <1>8, <3>1 DEF Shape, CallShape
      <4>2. CASE call.device = d
        BY <1>5, <1>6, <4>2 DEF Settled, ByHand
      <4>3. CASE call.device # d
        <5>1. owed'[call.device] = owed[call.device]
          BY <1>1, <1>2, <4>1, <4>3 DEF TypeOK
        <5>2. n.name # <<Entry(call.method), call.device>> /\ n.name # ruleIndexFor
          BY <1>3, <4>3 DEF ruleIndexFor
        <5>3. \A r \in router'.rules : r \in router.rules \/ r = n
          BY <1>4
        <5>4. /\ call.device \in router'.barred => call.device \in router.barred
              /\ call.device \in router'.paused => call.device \in router.paused
          BY <1>4, <4>3
        <5>5. RuleEach' = RuleEach /\ Flagged' = Flagged /\ ruleIndexFor' = ruleIndexFor
          BY <1>1, <1>6 DEF RuleEach, Flagged, ruleIndexFor
        <5>6. RulesSettled => RulesSettled'
          BY <1>6, <2>3, <5>1, <5>2, <5>3, <5>5 DEF RulesSettled
        <5>7. call.device \in List' => call.device \in List
          BY <1>6, <5>4 DEF List
        <5>8. QED
          BY <1>1, <1>6, <3>1, <5>1, <5>2, <5>3, <5>4, <5>5, <5>6, <5>7 DEF Settled, ByHand
      <4>4. QED BY <4>2, <4>3
    <3>2. QED BY <1>1, <1>6, <1>7, <1>8, <3>1 DEF Accounted, RemovalSettled
  <2>8. QED BY <2>2, <2>4, <2>5, <2>6, <2>7 DEF Accounted
<1>13. QED BY <1>10, <1>11, <1>12 DEF IInv

\* The orders that are left after a removal still cover what it left behind.
LEMMA AnswerOwes ==
    ASSUME IInv, call.method \in Lifts, call.pc = "returned", Undisturbed, Settled,
           owed' = [owed EXCEPT ![call.device] = @ \ Answered(Entry(call.method))],
           NEW d \in Device, Owes(d), Kept, Plugin' = Plugin, addr' = addr
    PROVE  Owes(d)'
<1>1. TypeOK /\ call.device \in Device /\ Shape /\ Accounted
  BY DEF IInv, Shape, CallShape
<1> DEFINE e == Entry(call.method)
<1>2. /\ AllRules' = AllRules /\ Entry("blockMAC")' = Entry("blockMAC")
      /\ e \in {"any", "mac", "rule", "paused"}
  BY DEF Kept, AllRules, Entry
<1>3. /\ \A o \in owed[d] : o[1] # e => o \in owed'[d]
      /\ d # call.device => owed'[d] = owed[d]
  BY <1>1 DEF TypeOK, Answered
<1>4. CASE d # call.device
  BY <1>2, <1>3, <1>4 DEF Owes, ByHand, Ordered, Owner, Kept
<1>5. CASE ByHand(d)
  <2>1. <<"hand", 0>>[1] # e
    BY <1>2
  <2>2. QED BY <1>3, <1>5, <2>1 DEF Owes, ByHand
<1>6. CASE d = call.device /\ ~ByHand(d)
  <2>1. /\ RulesSettled
        /\ Plugin \in SlotRouters => \A r \in router.rules : r.name # ruleIndexFor
        /\ Plugin = "linksys" => call.device \notin List
        /\ Flagged => call.device \notin router.barred
    BY <1>6 DEF Settled
  <2>2. /\ d \in router.barred => Ordered(d, Entry("blockMAC"))
        /\ d \in router.paused => Ordered(d, "paused")
        /\ \A r \in AllRules : Owner(r, d) =>
            r.name[1] = "slot" \/ <<r.name[1], r.id>> \in owed[d]
    BY <1>6 DEF Owes
  <2>3. AllRules = router.rules
    <3>1. Undisturbed /\ Plugin = "openwrt" => router.running = router.rules
      BY <1>1 DEF Accounted, OpenWrtLoaded
    <3>2. QED BY <1>1, <3>1 DEF Shape, RouterShape, AllRules
  <2>4. \A k : k # e /\ Ordered(d, k) => Ordered(d, k)'
    BY <1>3 DEF Ordered
  <2>5. d \in router.barred => Ordered(d, Entry("blockMAC"))'
    <3> SUFFICES ASSUME d \in router.barred PROVE Ordered(d, Entry("blockMAC"))'
      OBVIOUS
    <3>1. Plugin \notin RuleRouters /\ ~Flagged
      BY <1>1, <1>6, <2>1 DEF Shape, RouterShape
    <3>2. (Plugin = "unifi" /\ call.method \in Rules) \/ Plugin = "linksys"
      BY <3>1, PluginKnown DEF RuleRouters, SlotRouters, Flagged
    <3>3. CASE Plugin = "unifi" /\ call.method \in Rules
      <4>1. e = "rule" /\ Entry("blockMAC") = "mac"
        BY <3>3 DEF Entry, Rules
      <4>2. QED BY <1>2, <2>2, <2>4, <4>1
    <3>4. CASE Plugin = "linksys"
      <4>1. call.method \in Paused
        BY <1>6, <2>1, <3>4 DEF List
      <4>2. e = "paused" /\ Entry("blockMAC") = "mac"
        BY <3>4, <4>1 DEF Entry, Paused
      <4>3. QED BY <1>2, <2>2, <2>4, <4>2
    <3>5. QED BY <3>2, <3>3, <3>4
  <2>6. d \in router.paused => Ordered(d, "paused")'
    <3> SUFFICES ASSUME d \in router.paused PROVE Ordered(d, "paused")'
      OBVIOUS
    <3>1. Plugin = "linksys" /\ call.method \notin Paused
      BY <1>1, <1>6, <2>1 DEF Shape, RouterShape, List
    <3>2. e = "mac"
      BY <3>1 DEF Entry
    <3>3. QED BY <2>2, <2>4, <3>2
  <2>7. ASSUME NEW r \in AllRules, Owner(r, d)
        PROVE  IF r.name[1] = "slot" THEN Ordered(d, "any")' ELSE <<r.name[1], r.id>> \in owed'[d]
    <3>1. GoodRule(r) /\ r.name = <<r.name[1], r.name[2]>> /\ r.id \in Nat
      BY <1>1, NamePair DEF Shape, RuleShape
    <3>2. CASE r.name[1] = "slot"
      <4>1. Plugin \in SlotRouters
        BY <3>1, <3>2 DEF GoodRule
      <4>2. r.name = <<"slot", SlotOf[d]>>
        BY <2>7, <3>2 DEF Owner
      <4>3. QED BY <1>6, <2>1, <2>3, <4>1, <4>2 DEF ruleIndexFor
    <3>3. CASE r.name[1] \in {"rule", "mac"} /\ r.name[1] # e
      BY <1>3, <2>2, <2>7, <3>3
    <3>4. CASE r.name[1] \in {"rule", "mac"} /\ r.name[1] = e
      <4>1. r.name = <<e, call.device>>
        BY <1>6, <2>7, <3>1, <3>4 DEF Owner
      <4>2. RuleEach
        BY <3>1, <3>4 DEF GoodRule, RuleEach, Entry, ByMac
      <4>3. PICK m \in 0..MaxCalls : m < r.id /\ <<e, m>> \in owed[d]
        BY <1>6, <2>1, <2>3, <4>1, <4>2 DEF RulesSettled
      <4>4. <<e, r.id>> \in owed[d] /\ ~(r.id <= m)
        BY <2>2, <2>7, <3>1, <3>4, <4>3, Bounds
      <4>5. <<e, r.id>> \notin Answered(e)
        <5>1. Plugin \in {"openwrt", "mikrotik"} \/ (Plugin = "unifi" /\ e = "rule")
          BY <4>2 DEF RuleEach, Entry
        <5>2. <<e, m>>[1] = e /\ <<e, m>>[2] = m /\ <<e, r.id>>[2] = r.id
          OBVIOUS
        <5> HIDE DEF e
        <5>3. QED BY <1>6, <4>3, <4>4, <5>1, <5>2 DEF Answered
      <4>6. owed'[d] = owed[d] \ Answered(e)
        BY <1>1, <1>6 DEF TypeOK
      <4>7. QED BY <3>4, <4>4, <4>5, <4>6
    <3>5. CASE r.name[1] = "hand"
      <4>1. r.id = 0
        BY <3>1, <3>5 DEF GoodRule
      <4>2. QED BY <1>6, <2>2, <2>7, <3>5, <4>1 DEF ByHand
    <3>6. r.name[1] \in {"rule", "mac", "hand", "slot"}
      BY <2>7 DEF Owner
    <3>7. QED BY <3>2, <3>3, <3>4, <3>5, <3>6
  <2> HIDE DEF e
  <2>8. QED BY <1>2, <2>5, <2>6, <2>7 DEF Owes, Kept, Owner
<1>7. QED BY <1>4, <1>5, <1>6

LEMMA ReportStep == ASSUME IInv, Report PROVE IInv'
<1>1. /\ TypeOK' /\ CallShape' /\ call.pc = "returned" /\ call' = Idle /\ TypeOK /\ CallShape
      /\ UNCHANGED <<world, router, calls, kinds>> /\ Plugin' = Plugin
  BY ReportType DEF IInv, Shape
<1>2. /\ Shape /\ InForce /\ Accounted /\ Kept /\ AllRules' = AllRules
      /\ UNCHANGED <<dryRun, addr>>
      /\ Unspoiled' = Unspoiled /\ Undisturbed' = Undisturbed /\ Still' = Still
  BY <1>1 DEF IInv, Kept, AllRules, world, Unspoiled, Undisturbed, Still, BlockSpoilers,
        LiftSpoilers
<1>3. call'.pc = "idle" /\ call'.method \notin Blocks \cup Lifts /\ call'.result = "none"
  BY <1>1 DEF Idle, Blocks, Lifts
<1>4. Shape'
  BY <1>1, <1>2, <1>3 DEF Shape, RuleShape, GoodRule, SlotMac, SlotIp, RuleIds, RouterShape,
        FoundStays, AddressesApart, Kept
<1>5. InForce'
  <2>1. \A d : Secured(d) => Secured(d)'
    BY <1>2, <1>3 DEF Secured, Owner, Kept
  <2>2. ASSUME Unspoiled', NEW d \in held' \ Sharing PROVE Secured(d)'
    <3>1. CASE d \in held
      BY <1>2, <2>1, <2>2, <3>1 DEF InForce, HeldSecured
    <3>2. CASE d \notin held
      <4>1. d = call.device /\ ~dryRun /\ call.result = "ok" /\ call.method \in Blocks
        BY <2>2, <3>2 DEF Report, ghosts
      <4>2. \/ d \in router.barred \cup router.paused
            \/ \E r \in router.rules \cap router.running : Owner(r, d)
        BY <1>2, <2>2, <4>1 DEF InForce, OkSecured
      <4>3. QED BY <1>2, <1>3, <4>2 DEF Secured, Owner, Kept
    <3>3. QED BY <3>1, <3>2
  <2>3. HeldSecured'
    BY <1>1, <2>2, SharingStays DEF HeldSecured
  <2>4. QED BY <1>3, <2>3 DEF InForce, OkSecured, LiftedNotHeld, BlockProgress
<1>6. Accounted'
  <2>1. ASSUME Undisturbed', NEW d \in Device PROVE Owes(d)'
    <3>1. Owes(d) /\ Undisturbed
      BY <1>2, <2>1 DEF Accounted, BlocksOwed
    <3>2. CASE owed' = owed
      BY <1>1, <1>2, <3>1, <3>2, MoreOwed
    <3>3. CASE owed' # owed
      <4>1. /\ ~dryRun /\ call.result = "ok" /\ call.method \in Lifts
            /\ owed' = [owed EXCEPT ![call.device] = @ \ Answered(Entry(call.method))]
        BY <3>3 DEF Report, ghosts
      <4>2. Settled
        BY <1>2, <3>1, <4>1 DEF Accounted, RemovalSettled
      <4>3. QED BY <1>1, <1>2, <3>1, <4>1, <4>2, AnswerOwes
    <3>4. QED BY <3>2, <3>3
  <2>2. OpenWrtLoaded'
    BY <1>1, <1>2, <1>3 DEF Accounted, OpenWrtLoaded, Kept
  <2>3. QED BY <1>3, <2>1, <2>2 DEF Accounted, BlocksOwed, OrderStands, ListOwed, RemovalSettled
<1>7. QED BY <1>4, <1>5, <1>6 DEF IInv

LEMMA InvariantInit == Init => IInv
<1> SUFFICES ASSUME Init PROVE IInv
  OBVIOUS
<1>1. TypeOK /\ CallShape
  BY TypedInit
<1>2. /\ router.rules = {} /\ router.running = {} /\ router.barred = {} /\ router.paused = {}
      /\ call = Idle /\ held = {} /\ \A d \in Device : owed[d] = {}
  BY DEF Init, EmptyRouter
<1>3. call.pc = "idle" /\ call.result = "none" /\ call.method \notin Blocks \cup Lifts
  BY <1>2 DEF Idle, Blocks, Lifts
<1>4. Shape
  <2>1. AddressesApart
    BY PluginAssumption DEF Init, AddressesApart, PluginAssumption
  <2>2. QED BY <1>1, <1>2, <1>3, <2>1 DEF Shape, RuleShape, AllRules, RuleIds, RouterShape, FoundStays
<1>5. InForce
  BY <1>2, <1>3 DEF InForce, HeldSecured, OkSecured, LiftedNotHeld, BlockProgress
<1>6. Accounted
  BY <1>2, <1>3 DEF Accounted, BlocksOwed, Owes, AllRules, OrderStands, ListOwed, OpenWrtLoaded,
        RemovalSettled
<1>7. QED BY <1>4, <1>5, <1>6 DEF IInv

LEMMA InvariantStep == IInv /\ [Next]_vars => IInv'
<1> SUFFICES ASSUME IInv, [Next]_vars PROVE IInv'
  OBVIOUS
<1>1. CASE executeSingleAction
  BY <1>1, CallStep
<1>2. CASE Probe
  BY <1>2, ProbeStep
<1>3. CASE Report
  BY <1>3, ReportStep
<1>4. CASE Methods_
  BY <1>4, MethodStep DEF IInv
<1>5. CASE HandBlock
  BY <1>5, HandBlockStep
<1>6. CASE Restart \/ Move \/ Roam
  BY <1>6, RestartMoveRoamStep
<1>7. CASE UNCHANGED vars
  BY <1>7, StutterStep
<1>8. QED BY <1>1, <1>2, <1>3, <1>4, <1>5, <1>6, <1>7 DEF Next

----------------------------------------------------------------------------
\* What the invariant says of the devices that are blocked.

LEMMA OwnedMatches ==
    ASSUME Shape, Still, NEW r \in AllRules, NEW d \in Device \ Sharing, Owner(r, d)
    PROVE  Matches(r, d)
<1>1. GoodRule(r)
  BY DEF Shape, RuleShape
<1>2. CASE r.name = <<"slot", SlotOf[d]>>
  <2>1. r.name[1] = "slot" /\ r.name[2] = SlotOf[d]
    BY <1>2
  <2>2. SlotMac(r.mac, SlotOf[d]) /\ SlotIp(r.ip, SlotOf[d]) /\ Plugin \in SlotRouters
    BY <1>1, <2>1 DEF GoodRule
  <2>3. \A e \in Device : SlotOf[e] = SlotOf[d] => e = d
    BY <2>2 DEF Sharing, SharesSlot, SlotRouters
  <2>4. QED BY <2>2, <2>3 DEF Matches, SlotMac, SlotIp
<1>3. CASE r.name \in {<<"rule", d>>, <<"mac", d>>, <<"hand", d>>}
  <2>1. r.name[1] \in {"rule", "mac", "hand"} /\ r.name[2] = d
    BY <1>3
  <2>2. QED BY <1>1, <2>1 DEF GoodRule, Matches
<1>4. QED BY <1>2, <1>3 DEF Owner

LEMMA MatchOwned ==
    ASSUME Shape, Still \/ Plugin = "openwrt", NEW r \in AllRules, NEW d \in Device, Matches(r, d)
    PROVE  Owner(r, d)
<1>1. GoodRule(r) /\ r.name = <<r.name[1], r.name[2]>> /\ TypeOK
  BY NamePair DEF Shape, RuleShape
<1>2. r.name \in {"rule", "mac", "hand"} \X Device \cup {"slot"} \X Nat
  BY <1>1 DEF TypeOK, AllRules, RouterState, Rule
<1>3. CASE r.name[1] = "slot"
  <2>1. Still
    BY <1>1, <1>3 DEF GoodRule, SlotRouters
  <2>2. /\ SlotMac(r.mac, r.name[2]) /\ SlotIp(r.ip, r.name[2])
        /\ ~(r.ip = None /\ r.mac = None)
    BY <1>1, <1>3 DEF GoodRule
  <2>3. SlotOf[d] = r.name[2]
    BY <2>1, <2>2 DEF Matches, SlotMac, SlotIp, Shape, AddressesApart
  <2>4. QED BY <1>1, <1>3, <2>3 DEF Owner
<1>4. CASE r.name[1] \in {"mac", "hand"}
  <2>1. r.name[2] \in Device /\ r.mac = r.name[2]
    BY <1>1, <1>2, <1>4 DEF GoodRule
  <2>2. r.name[2] = d
    BY <2>1, Bounds DEF Matches
  <2>3. QED BY <1>1, <1>4, <2>2 DEF Owner
<1>5. CASE r.name[1] = "rule"
  <2>1. r.name[2] \in Device
    BY <1>2, <1>5
  <2>2. CASE Plugin = "openwrt"
    <3>1. r.mac = r.name[2]
      BY <1>1, <1>5, <2>2 DEF GoodRule
    <3>2. r.name[2] = d
      BY <2>1, <3>1, Bounds DEF Matches
    <3>3. QED BY <1>1, <1>5, <3>2 DEF Owner
  <2>3. CASE Plugin # "openwrt"
    <3>1. r.ip = addr[r.name[2]] /\ r.ip # None
      BY <1>1, <1>5, <2>3 DEF GoodRule
    <3>2. r.name[2] = d
      BY <2>1, <3>1 DEF Matches, Shape, AddressesApart
    <3>3. QED BY <1>1, <1>5, <3>2 DEF Owner
  <2>4. QED BY <2>2, <2>3
<1>6. QED BY <1>2, <1>3, <1>4, <1>5

\* Only the routers whose rules a moved address can spoil have rules.
LEMMA RulesOf ==
    ASSUME Shape, NEW r \in AllRules
    PROVE  Plugin \in {"openwrt", "mikrotik", "unifi"} \cup SlotRouters
<1>1. GoodRule(r) /\ r.name \in {"rule", "mac", "hand"} \X Device \cup {"slot"} \X Nat
  BY DEF Shape, RuleShape, TypeOK, AllRules, RouterState, Rule
<1>2. r.name[1] \in {"rule", "mac", "hand", "slot"}
  BY <1>1
<1>3. QED BY <1>1, <1>2 DEF GoodRule, RuleRouters

LEMMA InForceBlocks == ASSUME IInv PROVE BlockInForce
<1> SUFFICES ASSUME kinds \cap BlockSpoilers = {}, NEW d \in held, ~SharesSlot(d)
             PROVE  Blocked(d)
  BY DEF BlockInForce
<1>1. Shape /\ TypeOK /\ d \in Device \ Sharing /\ Secured(d)
  BY DEF IInv, Shape, TypeOK, InForce, HeldSecured, Unspoiled, Sharing
<1>2. CASE d \in router.barred \cup router.paused
  BY <1>2 DEF Blocked
<1>3. ASSUME NEW r \in router.rules \cap router.running, Owner(r, d) PROVE Blocked(d)
  <2>1. r \in AllRules
    BY DEF AllRules
  <2>2. Still
    BY <1>1, <2>1, RulesOf, Spoilers DEF Still, SlotRouters
  <2>3. QED BY <1>1, <1>3, <2>1, <2>2, OwnedMatches DEF Blocked
<1>4. QED BY <1>1, <1>2, <1>3 DEF Secured

LEMMA OwedLifts == ASSUME IInv PROVE UnblockLifts
<1> SUFFICES ASSUME kinds \cap LiftSpoilers = {}, NEW d \in Device, owed[d] = {}, Blocked(d)
             PROVE  FALSE
  BY DEF UnblockLifts
<1>1. Shape /\ TypeOK /\ Owes(d)
  BY DEF IInv, Shape, Accounted, BlocksOwed, Undisturbed
<1>2. ~ByHand(d) /\ \A e : ~Ordered(d, e)
  BY DEF ByHand, Ordered
<1>3. PICK r \in router.running : Matches(r, d)
  BY <1>1, <1>2 DEF Owes, Blocked
<1>4. r \in AllRules
  BY DEF AllRules
<1>5. Still \/ Plugin = "openwrt"
  BY <1>1, <1>4, RulesOf, Spoilers DEF Still, SlotRouters
<1>6. Owner(r, d)
  BY <1>1, <1>3, <1>4, <1>5, MatchOwned
<1>7. GoodRule(r) /\ d # None
  BY <1>1, <1>4, Bounds DEF Shape, RuleShape
<1>8. r.name[1] = "slot" => r.mac = d \/ r.ip = addr[d]
  BY <1>3, <1>7 DEF GoodRule, Matches
<1>9. QED BY <1>1, <1>2, <1>4, <1>6, <1>8 DEF Owes

\* BlockInForce: while nothing happens that the plugin's own verification cannot
\* see, a device blocked with success stays blocked until a command for this
\* device lifts it, whatever else runs, fails or is interrupted, addresses frozen
\* in queued commands included; with EdgeRouter and DrayTek the devices whose
\* rule index the hash gives to no other.
THEOREM BlocksStayInForce == Spec => []BlockInForce
<1>1. IInv => BlockInForce
  BY InForceBlocks
<1>2. IInv /\ [Next]_vars => IInv'
  BY InvariantStep
<1>3. QED BY <1>1, <1>2, InvariantInit, PTL DEF Spec

\* UnblockLifts: a device is blocked only while an order to block it stands that
\* no successful removal has answered, orders that failed or were cut short
\* included, and devices that share a rule index, too; while no answer was
\* unreadable that the plugin takes for an empty one.
THEOREM RemovalsLift == Spec => []UnblockLifts
<1>1. IInv => UnblockLifts
  BY OwedLifts
<1>2. IInv /\ [Next]_vars => IInv'
  BY InvariantStep
<1>3. QED BY <1>1, <1>2, InvariantInit, PTL DEF Spec

----------------------------------------------------------------------------
\* What the plugins say of the DNS server.

LEMMA DnsKept ==
    ASSUME DnsHonest, router'.dns = router.dns, UNCHANGED <<dryRun, call>>, Plugin' = Plugin,
           kinds \subseteq kinds'
    PROVE  DnsHonest'
BY DEF DnsHonest

\* A change that is under way is one of the plugin's.
LEMMA DnsMethods ==
    ASSUME TypeOK, Methods_, call.method = "changeDNS"
    PROVE  \/ RestoringDns(Plugin)
           \/ unifiChangeDNS \/ edgerouterChangeDNS \/ draytekChangeDNS
           \/ call'.pc = "go" \/ call'.result = "failed"
<1> USE DEF At, Blocks, Lifts
<1>1. CASE OpenWrt
  BY <1>1, CallFields DEF OpenWrt, openwrtLogin, uciSetAndCommit, openwrtReload, openwrtVerify,
     openwrtRollback, openwrtFind, removeUciSection, openwrtReloadRemoved, openwrtDisconnect,
     openwrtChangeDNS, Read, Throws, RestoringDns, DnsBefore, DnsSet, DnsVerify, DnsRestore, Dns
<1>2. CASE MikroTik
  BY <1>2 DEF MikroTik, mikrotikAdd, mikrotikVerify, mikrotikRollback, mikrotikFind,
     mikrotikDelete, mikrotikDisconnect, mikrotikChangeDNS, RestoringDns, DnsBefore, DnsSet,
     DnsVerify, DnsRestore, Dns
<1>3. CASE EdgeRouter
  BY <1>3 DEF EdgeRouter, edgerouterApply, edgerouterBlockMAC, edgerouterVerify, edgerouterRemove
<1>4. CASE DrayTek
  BY <1>4 DEF DrayTek, draytekApply, draytekBlockMAC, draytekVerify, draytekRemove
<1>5. CASE UniFi
  BY <1>5, CallFields DEF UniFi, unifiLogin, unifiBlockMAC, unifiUnblockMAC,
     unifiApplyFirewallRule, unifiRemoveFirewallRule, unifiDisconnect, Read, Throws
<1>6. CASE Omada
  BY <1>6 DEF Omada, omadaLogin, omadaBlockMAC, omadaUnblockMAC, omadaDisconnect
<1>7. CASE Keenetic
  BY <1>7 DEF Keenetic, keeneticBlockMAC, keeneticUnblockMAC, keeneticChangeDNS, RestoringDns,
     DnsBefore, DnsSet, DnsVerify, DnsRestore, Dns
<1>8. CASE FritzBox
  BY <1>8 DEF FritzBox, fritzResolve, fritzApplyFirewallRule, fritzRemoveFirewallRule,
     fritzChangeDNS, RestoringDns, DnsBefore, DnsSet, DnsVerify, DnsRestore, Dns
<1>9. CASE Linksys
  BY <1>9 DEF Linksys, linksysGet, linksysSet, linksysVerify, linksysChangeDNS, RestoringDns,
     DnsBefore, DnsSet, DnsVerify, DnsRestore, Dns
<1>10. QED
  BY <1>1, <1>2, <1>3, <1>4, <1>5, <1>6, <1>7, <1>8, <1>9 DEF Methods_

\* A plugin that restores has read the server before, or failed to.
DnsSeen ==
    call.method = "changeDNS" /\ call.pc \in {"set", "verify"} /\ Plugin \in Restoring
        /\ call.seen = {} => "unread" \in kinds

\* A change that a step of the plugin's ends.
LEMMA DnsEnds ==
    ASSUME TypeOK, CallShape, DnsSeen, Methods_ PROVE DnsHonest'
<1>1. TypeOK' /\ Frame
  BY MethodType
<1>2. Plugin' = Plugin
  BY <1>1, PluginStays DEF Frame
<1> SUFFICES ASSUME call.method = "changeDNS", call'.pc = "returned", call'.result # "failed"
             PROVE  /\ call'.result = "ok" => router'.dns = "new"
                    /\ call'.result = "unverified" /\ Plugin \in Restoring =>
                        \/ router'.dns \in call'.seen
                        \/ call'.seen = {} /\ "unread" \in kinds'
                        \/ "unrestored" \in kinds'
  BY <1>1, <1>2 DEF DnsHonest, Frame
<1> USE <1>1 DEF Frame
<1>3. CASE RestoringDns(Plugin)
  <2>1. CASE DnsBefore(Plugin, Goto("set"))
    BY <2>1, CallFields DEF DnsBefore, Read
  <2>2. CASE DnsSet(Plugin)
    BY <2>2, CallFields DEF DnsSet, Send, Throws
  <2>3. CASE DnsVerify(Plugin, PutBack, PutBack)
    <3>1. Plugin \in Restoring /\ call.seen = {} => "unread" \in kinds'
      BY <2>3 DEF DnsVerify, Dns, At, DnsSeen
    <3>2. QED BY <2>3, <3>1, CallFields DEF DnsVerify, Read, PutBack
  <2>4. CASE DnsRestore(Plugin)
    <3>1. PICK dns \in call.seen :
            Attempt([router EXCEPT !.dns = dns], "unrestored", Return("unverified"))
      BY <2>4 DEF DnsRestore
    <3>2. call'.result = "unverified" /\ call'.seen = call.seen
      BY <3>1, CallFields DEF Attempt
    <3>3. router'.dns = dns \/ "unrestored" \in kinds'
      BY <3>1 DEF Attempt, Disturb, TypeOK, RouterState
    <3>4. QED BY <3>2, <3>3
  <2>5. QED BY <1>3, <2>1, <2>2, <2>3, <2>4 DEF RestoringDns
<1>4. CASE unifiChangeDNS \/ edgerouterChangeDNS \/ draytekChangeDNS
  <2>1. Plugin \notin Restoring
    BY <1>4 DEF unifiChangeDNS, edgerouterChangeDNS, draytekChangeDNS, DnsBefore, DnsSet,
        DnsVerify, Dns, At, Restoring
  <2>2. call'.result = "ok" => router'.dns = "new"
    BY <1>4, CallFields DEF unifiChangeDNS, edgerouterChangeDNS, draytekChangeDNS, DnsBefore,
        DnsSet, DnsVerify, Read, Send, Throws
  <2>3. QED BY <2>1, <2>2
<1>5. QED BY <1>3, <1>4, DnsMethods

LEMMA DnsSeenStep ==
    ASSUME TypeOK, CallShape, DnsSeen, [Next]_vars PROVE DnsSeen'
<1>1. CASE executeSingleAction
  <2>1. \E method, d, ip : NewCall(method, d, ip)
    BY <1>1, CallMade
  <2>2. call'.pc \notin {"set", "verify"}
    BY <1>1, <2>1, NewCallShape
  <2>3. QED BY <2>2 DEF DnsSeen
<1>2. CASE Probe
  BY <1>2, ProbeType DEF DnsSeen
<1>3. CASE Report \/ Restart
  BY <1>3, ReportType DEF Restart, Idle, DnsSeen
<1>4. CASE Methods_
  <2>1. Frame /\ Plugin' = Plugin
    BY <1>4, MethodType, PluginStays DEF Frame
  <2> SUFFICES ASSUME call.method = "changeDNS", call'.pc \in {"set", "verify"},
                      Plugin \in Restoring, call'.seen = {}
               PROVE  "unread" \in kinds'
    BY <2>1 DEF DnsSeen, Frame
  <2>2. RestoringDns(Plugin)
    <3>1. call'.pc # "go" /\ call'.result # "failed"
      BY <1>4, MethodType DEF TypeOK
    <3>2. ~(unifiChangeDNS \/ edgerouterChangeDNS \/ draytekChangeDNS)
      BY DEF unifiChangeDNS, edgerouterChangeDNS, draytekChangeDNS, DnsBefore, DnsSet,
          DnsVerify, Dns, At, Restoring
    <3>3. QED BY <1>4, <3>1, <3>2, DnsMethods
  <2>3. CASE DnsBefore(Plugin, Goto("set"))
    BY <2>3, CallFields DEF DnsBefore, Read, Disturb
  <2>4. CASE DnsSet(Plugin)
    <3>1. call.pc = "set" /\ call.seen = call'.seen
      BY <2>4, CallFields DEF DnsSet, Dns, At, Send, Throws
    <3>2. QED BY <2>1, <3>1 DEF DnsSeen, Frame
  <2>5. CASE DnsVerify(Plugin, PutBack, PutBack) \/ DnsRestore(Plugin)
    BY <2>5, CallFields DEF DnsVerify, DnsRestore, Read, Attempt, PutBack
  <2>6. QED BY <2>2, <2>3, <2>4, <2>5 DEF RestoringDns
<1>5. CASE HandBlock \/ Move \/ Roam
  <2>1. call' = call
    BY <1>5 DEF HandBlock, Move, Roam
  <2>2. QED BY <1>5, <2>1, HouseholdType DEF DnsSeen
<1>6. CASE UNCHANGED vars
  <2>1. Plugin' = Plugin
    BY <1>6, PluginStays DEF vars, world
  <2>2. QED BY <1>6, <2>1 DEF vars, DnsSeen
<1>7. QED BY <1>1, <1>2, <1>3, <1>4, <1>5, <1>6 DEF Next

LEMMA DnsHonestStep ==
    TypeOK /\ CallShape /\ DnsSeen /\ DnsHonest /\ [Next]_vars => DnsHonest'
<1> SUFFICES ASSUME TypeOK, CallShape, DnsSeen, DnsHonest, [Next]_vars PROVE DnsHonest'
  OBVIOUS
<1>1. CASE executeSingleAction
  <2>1. dryRun' = dryRun /\ \E method, d, ip : NewCall(method, d, ip)
    BY <1>1, CallMade DEF world
  <2>2. call'.result = "ok" => dryRun'
    BY <1>1, <2>1, NewCallShape
  <2>3. call'.result # "unverified"
    BY <2>1, BeginCases DEF NewCall, Called
  <2>4. QED BY <2>2, <2>3 DEF DnsHonest
<1>2. CASE Probe
  BY <1>2, ProbeType DEF DnsHonest, Probes, OptionalMethods
<1>3. CASE Report
  BY <1>3, ReportType DEF DnsHonest, Idle
<1>4. CASE Methods_
  BY <1>4, DnsEnds
<1>5. CASE Restart
  BY <1>5 DEF Restart, Idle, DnsHonest
<1>6. CASE HandBlock \/ Move \/ Roam
  <2>1. call' = call /\ router'.dns = router.dns
    <3>1. \A d : Deny(d).dns = router.dns /\ Kick(d).dns = router.dns
                /\ [router EXCEPT !.online = @ \cup {d}].dns = router.dns
      BY DEF Deny, Kick, TypeOK, RouterState
    <3>2. CASE HandBlock
      BY <3>1, <3>2, RouterFields DEF HandBlock
    <3>3. CASE Roam
      BY <3>1, <3>3 DEF Roam
    <3>4. QED BY <1>6, <3>2, <3>3 DEF Move
  <2>2. QED BY <1>6, <2>1, HouseholdType, DnsKept
<1>7. CASE UNCHANGED vars
  <2>1. Plugin' = Plugin
    BY <1>7, PluginStays DEF vars, world
  <2>2. QED BY <1>7, <2>1, DnsKept DEF vars, world
<1>8. QED BY <1>1, <1>2, <1>3, <1>4, <1>5, <1>6, <1>7 DEF Next

\* DnsHonest: changeDNS says success only with the new server in place.  After a
\* change that did not verify, a plugin that read the server before has put back
\* what it read, unless that reading or the writing back failed; the message
\* `restored previous value' (openwrt/index.js:194) is sent in those cases too.
THEOREM DnsIsHonest == Spec => []DnsHonest
<1>1. Init => DnsHonest /\ DnsSeen
  BY DEF Init, Idle, DnsHonest, DnsSeen
<1>2. TypeOK /\ CallShape /\ DnsSeen /\ [Next]_vars => DnsSeen'
  BY DnsSeenStep
<1>3. QED BY <1>1, <1>2, TypedInit, TypedStep, DnsHonestStep, PTL DEF Spec
=============================================================================
