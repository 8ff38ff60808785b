---------------------- MODULE FirewallControllerProofs ----------------------
(***************************************************************************)
(* Proofs about the agent's firewall, for every set of policies and        *)
(* configurations and every combination of failures: the iptables backend  *)
(* keeps its own promises (FirewallSync) and implements FirewallContract,  *)
(* and the nftables backend keeps its promises (NftSync).                  *)
(***************************************************************************)
EXTENDS FirewallController, TLAPS

----------------------------------------------------------------------------
\* The iptables backend: its inductive invariant.

\* Where the pass is: v6 only follows v4 within a call, only a call in
\* progress has a policy to install, and the filter chain comes first.
Control ==
    /\ at = "idle" => fam = "v4"
    /\ at # "idle" => targets \in Policies
    /\ at = "open" => chain # "filter" /\ todo = {}
    /\ at \in {"idle", "check", "ensure", "flush"} => chain = "filter"

\* The chains filled before the one in progress.
Earlier == CASE chain = "filter" -> {}
             [] chain = "doh" -> {"filter"}
             [] chain = "dns" -> {"filter", "doh"}

Holds(k, ch) == ChainOf(k, ch) = Wanted(targets, config, fam, ch)

\* How far the rebuild has got: earlier chains are complete, and the chain in
\* progress is complete but for the appends still to be made.
Progress ==
    /\ at = "flush" => Jump("filter") \in kernel[fam]
    /\ at \in {"open", "append"} =>
          \A ch \in Earlier : Enabled(config, fam, ch) => Holds(kernel[fam], ch)
    /\ at = "append" =>
          IF Enabled(config, fam, chain)
          THEN ChainOf(kernel[fam], chain) \cup todo
                  = Wanted(targets, config, fam, chain)
          ELSE todo = {}

\* The snapshot a rebuild would roll back to is as truthful as the ruleset was.
SnapshotTruthful ==
    Rebuilding(fam) /\ fam \notin tainted /\ snapshot # None =>
        \A ts \in Policies :
            Signature(ts, config, fam) \in sigs[fam] =>
                Matches(snapshot, ts, config, fam)

\* While v6 is worked on, v4 enforces the policy of the call.
V4BeforeV6 ==
    fam = "v6" /\ "v4" \notin tainted => Matches(kernel["v4"], targets, config, "v4")

IInv ==
    /\ TypeOK
    /\ Control
    /\ Progress
    /\ SnapshotTruthful
    /\ SignatureTruthful
    /\ V4BeforeV6
    /\ OkMeansEnforced

----------------------------------------------------------------------------
\* Lemmas about the rules of a policy.

\* The rules of a policy all belong to the filter chain.
LEMMA FilterRulesChain ==
    ASSUME NEW ts, NEW c, NEW f, NEW i \in FilterRules(ts, c, f)
    PROVE  i.chain = "filter"
BY DEF FilterRules, TargetRules, addBlockRules, addVpnBlockRules,
       addQuicBlockRule, Item

\* Every item wanted in a chain belongs to that chain.
LEMMA WantedChain ==
    ASSUME NEW ts, NEW c, NEW f, NEW ch \in Chains, NEW i \in Wanted(ts, c, f, ch)
    PROVE  i.chain = ch
<1>1. CASE ch = "filter"
  BY <1>1, FilterRulesChain DEF Wanted, Jump, Item
<1>2. CASE ch = "doh"
  BY <1>2 DEF Wanted, ensureDohDotBlock, Jump, Item
<1>3. CASE ch = "dns"
  BY <1>3 DEF Wanted, ensureDnsRedirect, Jump, Item
<1>4. QED BY <1>1, <1>2, <1>3 DEF Chains

\* The jump into a chain is among the items wanted there.
LEMMA WantedJump ==
    ASSUME NEW ts, NEW c, NEW f, NEW ch \in Chains
    PROVE  Jump(ch) \in Wanted(ts, c, f, ch)
BY DEF Chains, Wanted, ensureDohDotBlock, ensureDnsRedirect

\* What a call can put into a chain is in the universe of items.
LEMMA FilterRulesItems ==
    ASSUME NEW ts \in Policies \cup {{}}, NEW c \in Configs, NEW f \in Families
    PROVE  FilterRules(ts, c, f) \subseteq Items
<1>1. CASE ts \in Policies
  <2>. SUFFICES ASSUME NEW t \in ts PROVE TargetRules(t, c, f) \subseteq FilterItems
    BY DEF FilterRules, Items
  <2>1. ({t.ip, t.ip6, t.mac} \ {None}) \subseteq Keys
    BY <1>1 DEF Keys
  <2>2. Addresses(t, f) \subseteq Keys
    BY <2>1 DEF Addresses, Address
  <2>3. addBlockRules(t, f) \subseteq FilterItems
    BY <2>1, <2>2 DEF addBlockRules, FilterItems, Item
  <2>4. addVpnBlockRules(t, f) \subseteq FilterItems
    BY <2>2 DEF addVpnBlockRules, FilterItems, Item
  <2>5. addQuicBlockRule(t, f) \subseteq FilterItems
    BY <2>2 DEF addQuicBlockRule, FilterItems, Item
  <2>6. QED BY <2>3, <2>4, <2>5 DEF TargetRules
<1>2. CASE ts = {}
  BY <1>2 DEF FilterRules
<1>3. QED BY <1>1, <1>2

LEMMA WantedItems ==
    ASSUME NEW ts \in Policies \cup {{}}, NEW c \in Configs, NEW f \in Families,
           NEW ch \in Chains
    PROVE  Wanted(ts, c, f, ch) \subseteq Items
<1>1. CASE ch = "filter"
  BY <1>1, FilterRulesItems DEF Wanted, Items, Chains
<1>2. CASE ch = "doh"
  BY <1>2 DEF Wanted, Items
<1>3. CASE ch = "dns"
  BY <1>3 DEF Wanted, Items
<1>4. QED BY <1>1, <1>2, <1>3 DEF Chains

\* A signature determines the rules: policies with equal signatures install
\* the same items in every chain (buildFirewallSyncSignature leaves out
\* nothing the rules depend on).
LEMMA SignatureDetermines ==
    ASSUME NEW ts \in Policies, NEW us \in Policies, NEW c, NEW f, NEW ch \in Chains,
           Signature(ts, c, f) = Signature(us, c, f)
    PROVE  Wanted(ts, c, f, ch) = Wanted(us, c, f, ch)
<1> DEFINE Sig(t) == <<t.deviceId, t.action, t.ip, t.ip6, t.mac, t.vpn, t.quic>>
<1>1. {Sig(t) : t \in ts} = {Sig(t) : t \in us}
  BY DEF Signature
<1>2. ASSUME NEW t, NEW u, Sig(t) = Sig(u)
      PROVE  TargetRules(t, c, f) = TargetRules(u, c, f)
  <2>1. /\ t.action = u.action /\ t.ip = u.ip /\ t.ip6 = u.ip6 /\ t.mac = u.mac
        /\ t.vpn = u.vpn /\ t.quic = u.quic
    BY <1>2
  <2>2. Address(t, f) = Address(u, f)
    BY <2>1 DEF Address
  <2>3. QED
    BY <2>1, <2>2 DEF TargetRules, addBlockRules, addVpnBlockRules,
                      addQuicBlockRule, Addresses
<1>3. FilterRules(ts, c, f) = FilterRules(us, c, f)
  <2>1. ASSUME NEW t \in ts
        PROVE  \E u \in us : TargetRules(t, c, f) = TargetRules(u, c, f)
    <3> HIDE DEF Sig
    <3>1. PICK u \in us : Sig(t) = Sig(u)
      BY <1>1
    <3>2. QED BY <3>1, <1>2
  <2>2. ASSUME NEW u \in us
        PROVE  \E t \in ts : TargetRules(t, c, f) = TargetRules(u, c, f)
    <3> HIDE DEF Sig
    <3>1. PICK t \in ts : Sig(t) = Sig(u)
      BY <1>1
    <3>2. QED BY <3>1, <1>2
  <2>3. QED BY <2>1, <2>2 DEF FilterRules
<1>4. QED BY <1>3 DEF Wanted, Chains

LEMMA SignatureMatches ==
    ASSUME NEW ts \in Policies, NEW us \in Policies, NEW c, NEW f, NEW k,
           Signature(ts, c, f) = Signature(us, c, f), Matches(k, us, c, f)
    PROVE  Matches(k, ts, c, f)
BY SignatureDetermines DEF Matches

LEMMA SignatureType ==
    ASSUME NEW ts \in Policies \cup {{}}, NEW c, NEW f \in Families
    PROVE  Signature(ts, c, f) \in Signatures(c)
BY DEF Signatures

----------------------------------------------------------------------------
\* Type correctness.

LEMMA TypeInit == Init => TypeOK
BY PolicyAssumption, ConfigAssumption DEF Init, TypeOK, Families, Chains

LEMMA TypeStep == TypeOK /\ [Next]_vars => TypeOK'
<1> SUFFICES ASSUME TypeOK, [Next]_vars PROVE TypeOK'
  OBVIOUS
<1> USE DEF TypeOK, control, verdict
<1>1. CASE PolicyChange
  BY <1>1 DEF PolicyChange
<1>2. CASE Sync
  BY <1>2 DEF Sync
<1>3. CASE Skip
  BY <1>3 DEF Skip, Return, Families, Chains
<1>4. CASE snapshotRuleset
  BY <1>4 DEF snapshotRuleset
<1>5. CASE ensureFilterChain
  BY <1>5 DEF ensureFilterChain, Items, Chains
<1>6. CASE flushFilterChain
  BY <1>6, FilterRulesItems DEF flushFilterChain
<1>7. CASE Append
  BY <1>7 DEF Append
<1>8. CASE NextChain
  BY <1>8 DEF NextChain, Chains
<1>9. CASE OpenChain
  BY <1>9, WantedItems DEF OpenChain
<1>10. CASE Commit
  <2>1. Signature(targets, config, fam) \in Signatures(config)
    BY SignatureType
  <2>2. sigs' \in [Families -> SUBSET Signatures(config)]
    BY <1>10, <2>1 DEF Commit
  <2>3. UNCHANGED <<config, desired, targets, kernel>>
    BY <1>10 DEF Commit
  <2>4. Return(TRUE) /\ tainted' \in SUBSET Families
    BY <1>10 DEF Commit
  <2>5. QED BY <2>2, <2>3, <2>4 DEF Return, Families, Chains
<1>11. CASE CommandFails
  <2>1. Effects \subseteq SUBSET Items
    BY DEF Effects, Items, Chains
  <2>2. QED BY <1>11, <2>1 DEF CommandFails
<1>12. CASE restoreRuleset
  BY <1>12 DEF restoreRuleset, Return, Families, Chains
<1>13. CASE RestoreFails
  BY <1>13 DEF RestoreFails, Return, Families, Chains
<1>14. CASE Crash
  BY <1>14 DEF Crash, Restart, Families, Chains
<1>15. CASE Reboot
  BY <1>15 DEF Reboot, Restart, Families, Chains
<1>16. CASE UNCHANGED vars
  BY <1>16 DEF vars
<1>17. QED
  BY <1>1, <1>2, <1>3, <1>4, <1>5, <1>6, <1>7, <1>8, <1>9, <1>10, <1>11,
     <1>12, <1>13, <1>14, <1>15, <1>16 DEF Next, Step

\* Every variable keeps its type, whatever fails (the whole component).
THEOREM TypeCorrect == Spec => []TypeOK
BY TypeInit, TypeStep, PTL DEF Spec

----------------------------------------------------------------------------
\* The inductive invariant.  Each action is taken on its own; what an action
\* does to one family leaves the other family's part as it is.

LEMMA MatchesIf ==
    ASSUME NEW k, NEW ts, NEW c, NEW f,
           \A ch \in Chains : Enabled(c, f, ch) => ChainOf(k, ch) = Wanted(ts, c, f, ch)
    PROVE  Matches(k, ts, c, f)
BY DEF Matches

LEMMA IInvInit == Init => IInv
<1> SUFFICES ASSUME Init PROVE IInv
  OBVIOUS
<1>1. TypeOK
  BY TypeInit
<1>2. Control /\ Progress
  BY DEF Init, Control, Progress
<1>3. SnapshotTruthful /\ V4BeforeV6
  BY DEF Init, SnapshotTruthful, V4BeforeV6, Rebuilding
<1>4. SignatureTruthful /\ OkMeansEnforced
  BY DEF Init, SignatureTruthful, OkMeansEnforced
<1>5. QED BY <1>1, <1>2, <1>3, <1>4 DEF IInv

\* A command in the middle of a rebuild disturbs no promise but those of the
\* family being rebuilt, which makes none.
LEMMA RebuildStep ==
    ASSUME IInv, TypeOK',
           UNCHANGED <<config, targets, sigs, fam, snapshot, verdict>>,
           at \notin {"idle", "check"}, at' \notin {"idle", "check"},
           \A f \in Families \ {fam} : kernel'[f] = kernel[f]
    PROVE  SnapshotTruthful' /\ SignatureTruthful' /\ V4BeforeV6' /\ OkMeansEnforced'
<1> USE DEF IInv, verdict, Rebuilding
<1>1. SnapshotTruthful'
  BY DEF SnapshotTruthful
<1>2. SignatureTruthful'
  BY DEF SignatureTruthful
<1>3. V4BeforeV6'
  BY DEF V4BeforeV6, Families
<1>4. OkMeansEnforced'
  BY DEF OkMeansEnforced
<1>5. QED BY <1>1, <1>2, <1>3, <1>4

\* The end of a pass: what the family's ruleset and signature must satisfy for
\* every promise to hold again.
LEMMA ReturnStep ==
    ASSUME IInv, TypeOK', NEW ok \in BOOLEAN, Return(ok),
           at # "idle", UNCHANGED <<config, desired, targets>>,
           \A f \in Families \ {fam} : kernel'[f] = kernel[f] /\ sigs'[f] = sigs[f]
                                       /\ (f \in tainted' <=> f \in tainted),
           fam \notin tainted' =>
              \A ts \in Policies : Signature(ts, config, fam) \in sigs'[fam] =>
                                     Matches(kernel'[fam], ts, config, fam),
           ok /\ fam \notin tainted' => Matches(kernel'[fam], targets, config, fam)
    PROVE  IInv'
<1> USE DEF IInv, Rebuilding
<1>1. Control'
  BY DEF Return, Control
<1>2. Progress'
  BY DEF Return, Progress
<1>3. SnapshotTruthful'
  BY DEF Return, SnapshotTruthful
<1>4. SignatureTruthful'
  <2>1. ASSUME NEW f \in Families, NEW ts \in Policies, f # fam,
               Signature(ts, config, f) \in sigs[f], f \notin tainted
        PROVE  Matches(kernel[f], ts, config, f)
    BY <2>1 DEF SignatureTruthful
  <2>2. QED BY <2>1 DEF SignatureTruthful
<1>5. V4BeforeV6'
  BY DEF Return, V4BeforeV6, Families, TypeOK
<1>6. OkMeansEnforced'
  BY DEF Return, OkMeansEnforced, V4BeforeV6, Families, TypeOK
<1>7. QED BY <1>1, <1>2, <1>3, <1>4, <1>5, <1>6

\* Completing the chain in progress extends the chains that are complete.
LEMMA CompleteChain ==
    ASSUME IInv, at = "append", todo = {}, NEW ch \in Earlier \cup {chain},
           Enabled(config, fam, ch)
    PROVE  Holds(kernel[fam], ch)
BY DEF IInv, Progress, Holds

LEMMA IInvStep == IInv /\ [Next]_vars => IInv'
<1> SUFFICES ASSUME IInv, [Next]_vars PROVE IInv'
  OBVIOUS
<1>0. TypeOK /\ TypeOK'
  BY TypeStep DEF IInv
<1> USE DEF control, verdict
<1>1. CASE PolicyChange
  BY <1>0, <1>1 DEF PolicyChange, IInv, Control, Progress, Earlier, Holds,
     SnapshotTruthful, SignatureTruthful, V4BeforeV6, OkMeansEnforced, Rebuilding
<1>2. CASE Sync
  BY <1>0, <1>2 DEF Sync, TypeOK, IInv, Control, Progress, Earlier, Holds,
     SnapshotTruthful, SignatureTruthful, V4BeforeV6, OkMeansEnforced, Rebuilding
<1>3. CASE Skip
  <2>1. targets \in Policies
    BY <1>3 DEF Skip, IInv, Control
  <2>2. ASSUME NEW ts \in Policies, fam \notin tainted,
               Signature(ts, config, fam) \in sigs[fam]
        PROVE  Matches(kernel[fam], ts, config, fam)
    BY <1>0, <1>3, <2>2 DEF Skip, IInv, SignatureTruthful, Rebuilding, TypeOK
  <2>3. QED
    BY <1>0, <1>3, <2>1, <2>2, ReturnStep DEF Skip
<1>4. CASE snapshotRuleset
  BY <1>0, <1>4 DEF snapshotRuleset, TypeOK, IInv, Control, Progress, Earlier,
     Holds, SnapshotTruthful, SignatureTruthful, V4BeforeV6, OkMeansEnforced,
     Rebuilding
<1>5. CASE ensureFilterChain
  <2>1. Control' /\ Progress'
    BY <1>0, <1>5 DEF ensureFilterChain, IInv, Control, Progress, TypeOK
  <2>2. QED
    BY <1>0, <1>5, <2>1, RebuildStep DEF ensureFilterChain, IInv, TypeOK
<1>6. CASE flushFilterChain
  <2>1. Control'
    BY <1>6 DEF flushFilterChain, IInv, Control
  <2>2. chain = "filter" /\ Jump("filter") \in kernel[fam]
    BY <1>6 DEF flushFilterChain, IInv, Control, Progress
  <2>3. ChainOf(kernel'[fam], "filter") = {Jump("filter")}
    BY <1>0, <1>6, <2>2 DEF flushFilterChain, TypeOK, ChainOf, RulesOf, Jump, Item
  <2>4. Progress'
    BY <1>6, <2>2, <2>3 DEF flushFilterChain, Progress, Earlier, Enabled, Wanted
  <2>5. QED
    BY <1>0, <1>6, <2>1, <2>4, RebuildStep DEF flushFilterChain, IInv, TypeOK
<1>7. CASE Append
  <2>1. PICK i \in todo : kernel' = [kernel EXCEPT ![fam] = @ \cup {i}]
                           /\ todo' = todo \ {i}
    BY <1>7 DEF Append
  <2>2. Control'
    BY <1>7 DEF Append, IInv, Control
  <2>3. Enabled(config, fam, chain) /\ i \in Wanted(targets, config, fam, chain)
    BY <1>7, <2>1 DEF Append, IInv, Progress
  <2>4. i.chain = chain
    BY <1>0, <2>3, WantedChain DEF TypeOK
  <2>5. ASSUME NEW ch \in Chains, ch # chain
        PROVE  ChainOf(kernel'[fam], ch) = ChainOf(kernel[fam], ch)
    BY <1>0, <2>1, <2>4, <2>5 DEF ChainOf, TypeOK
  <2>6. ChainOf(kernel'[fam], chain) = ChainOf(kernel[fam], chain) \cup {i}
    BY <1>0, <2>1, <2>4 DEF ChainOf, TypeOK
  <2>7. Earlier \subseteq Chains \ {chain}
    BY <1>0 DEF Earlier, Chains, TypeOK
  <2>8. Progress'
    BY <1>7, <2>1, <2>3, <2>5, <2>6, <2>7 DEF Append, IInv, Progress, Earlier, Holds
  <2>9. QED
    BY <1>0, <1>7, <2>1, <2>2, <2>8, RebuildStep DEF Append, IInv, TypeOK
<1>8. CASE NextChain
  <2>1. Control'
    BY <1>8 DEF NextChain, IInv, Control
  <2>2. Earlier' = Earlier \cup {chain}
    BY <1>8 DEF NextChain, Earlier
  <2>3. Progress'
    BY <1>8, <2>2, CompleteChain DEF NextChain, Progress, Holds
  <2>4. QED
    BY <1>0, <1>8, <2>1, <2>3, RebuildStep DEF NextChain, IInv
<1>9. CASE OpenChain
  <2>1. Control'
    BY <1>9 DEF OpenChain, IInv, Control
  <2>2. \A ch \in Earlier : ch \in Chains \ {chain}
    BY <1>0 DEF Earlier, Chains, TypeOK
  <2>3. Progress'
    <3>1. CASE ~Enabled(config, fam, chain)
      BY <1>9, <3>1 DEF OpenChain, IInv, Control, Progress, Earlier, Holds
    <3>2. CASE Enabled(config, fam, chain)
      <4>1. kernel'[fam] = kernel[fam] \ RulesOf(kernel[fam], chain)
        BY <1>0, <1>9, <3>2 DEF OpenChain, TypeOK
      <4>2. ChainOf(kernel'[fam], chain) \subseteq {Jump(chain)}
        BY <4>1 DEF ChainOf, RulesOf
      <4>3. Jump(chain) \in Wanted(targets, config, fam, chain)
        BY <1>0, WantedJump DEF TypeOK
      <4>4. \A i \in Wanted(targets, config, fam, chain) : i.chain = chain
        BY <1>0, WantedChain DEF TypeOK
      <4>5. todo' = Wanted(targets, config, fam, chain) \ kernel'[fam]
        BY <1>9, <3>2 DEF OpenChain
      <4>6. ChainOf(kernel'[fam], chain) \cup todo'
               = Wanted(targets, config, fam, chain)
        BY <4>2, <4>3, <4>4, <4>5 DEF ChainOf
      <4>7. ASSUME NEW ch \in Earlier
            PROVE  ChainOf(kernel'[fam], ch) = ChainOf(kernel[fam], ch)
        BY <2>2, <4>1 DEF ChainOf, RulesOf
      <4>8. QED
        BY <1>9, <3>2, <4>6, <4>7 DEF OpenChain, IInv, Progress, Earlier, Holds
    <3>3. QED BY <3>1, <3>2
  <2>4. \A f \in Families \ {fam} : kernel'[f] = kernel[f]
    BY <1>0, <1>9 DEF OpenChain, TypeOK
  <2>5. QED
    BY <1>0, <1>9, <2>1, <2>3, <2>4, RebuildStep DEF OpenChain, IInv
<1>10. CASE Commit
  <2>1. targets \in Policies
    BY <1>10 DEF Commit, IInv, Control
  <2>2. \A ch \in Chains : ch \in Earlier \cup {chain}
    BY <1>10 DEF Commit, Earlier, Chains
  <2>3. Matches(kernel[fam], targets, config, fam)
    BY <1>10, <2>2, CompleteChain DEF Commit, Matches, Holds
  <2>4. ASSUME NEW ts \in Policies, Signature(ts, config, fam) \in sigs'[fam]
        PROVE  Matches(kernel[fam], ts, config, fam)
    <3>1. Signature(ts, config, fam) = Signature(targets, config, fam)
      BY <1>0, <1>10, <2>4 DEF Commit, TypeOK
    <3>2. QED BY <2>1, <2>3, <3>1, SignatureMatches
  <2>5. \A f \in Families \ {fam} : sigs'[f] = sigs[f]
    BY <1>0, <1>10 DEF Commit, TypeOK
  <2>6. QED
    BY <1>0, <1>10, <2>3, <2>4, <2>5, ReturnStep DEF Commit
<1>11. CASE CommandFails
  <2>1. at \notin {"idle", "check"}
    BY <1>11 DEF CommandFails, Effects
  <2>2. Control' /\ Progress'
    BY <1>11, <2>1 DEF CommandFails, IInv, Control, Progress
  <2>3. QED
    BY <1>0, <1>11, <2>1, <2>2, RebuildStep DEF CommandFails, IInv, TypeOK
<1>12. CASE restoreRuleset
  <2>1. ASSUME NEW ts \in Policies, Signature(ts, config, fam) \in sigs[fam],
               fam \notin tainted
        PROVE  Matches(kernel'[fam], ts, config, fam)
    BY <1>0, <1>12, <2>1 DEF restoreRuleset, IInv, SnapshotTruthful, Rebuilding, TypeOK
  <2>2. \A f \in Families \ {fam} : kernel'[f] = kernel[f]
    BY <1>0, <1>12 DEF restoreRuleset, TypeOK
  <2>3. QED
    BY <1>0, <1>12, <2>1, <2>2, ReturnStep DEF restoreRuleset
<1>13. CASE RestoreFails
  BY <1>0, <1>13, ReturnStep DEF RestoreFails
<1>14. CASE Restart
  BY <1>0, <1>14 DEF Restart, TypeOK, IInv, Control, Progress, SnapshotTruthful,
     SignatureTruthful, V4BeforeV6, OkMeansEnforced, Rebuilding
<1>15. CASE UNCHANGED vars
  BY <1>0, <1>15 DEF vars, IInv, Control, Progress, Earlier, Holds,
     SnapshotTruthful, SignatureTruthful, V4BeforeV6, OkMeansEnforced, Rebuilding
<1>16. QED
  BY <1>1, <1>2, <1>3, <1>4, <1>5, <1>6, <1>7, <1>8, <1>9, <1>10, <1>11,
     <1>12, <1>13, <1>14, <1>15 DEF Next, Step, Crash, Reboot

\* A pass is only ever skipped over a ruleset that enforces the policy, unless
\* a rollback of that family failed (syncFamily's early return).
THEOREM SkippingIsSound == Spec => []SignatureTruthful
<1>1. IInv => SignatureTruthful
  BY DEF IInv
<1>2. QED BY IInvInit, IInvStep, <1>1, PTL DEF Spec

\* A sync() that returns normally leaves its policy enforced in both families
\* (sync and syncFamily), unless a rollback failed.
THEOREM NormalReturnEnforces == Spec => []OkMeansEnforced
<1>1. IInv => OkMeansEnforced
  BY DEF IInv
<1>2. QED BY IInvInit, IInvStep, <1>1, PTL DEF Spec

----------------------------------------------------------------------------
\* The iptables backend as an implementation of the contract: what its invariant
\* needs beside.

\* While a pass can be undone, what is in force comes from the snapshot or from
\* the policy of the call.
Mixed ==
    Rebuilding(fam) /\ snapshot # None =>
        InForce(kernel[fam], fam) \subseteq
            InForce(snapshot, fam) \cup Ruleset(targets, fam, config)

\* The iptables backend does not run beside the other one.
Dormant ==
    /\ at = "idle" /\ outcome = "none"
    /\ targets = {} /\ tainted = {} /\ failed = {}

CInv ==
    \/ backend = "iptables" /\ IInv /\ Mixed
    \/ backend = "nftables" /\ Dormant

----------------------------------------------------------------------------
\* Lemmas about the rules in force.

LEMMA ItemsChain == \A i \in Items : i.chain \in Chains
BY DEF Items, Jump, Item, Chains, FilterItems, ensureDohDotBlock, ensureDnsRedirect

\* What is wanted in a chain in use is asked for.
LEMMA WantedAsked ==
    ASSUME NEW ch \in Chains, Enabled(config, fam, ch)
    PROVE  Wanted(targets, config, fam, ch) \subseteq Ruleset(targets, fam, config)
BY DEF Ruleset

\* A ruleset that enforces a policy has exactly the policy's rules in force.
LEMMA MatchesInForce ==
    ASSUME NEW k \in SUBSET Items, NEW ts, NEW f, Matches(k, ts, config, f)
    PROVE  InForce(k, f) = Ruleset(ts, f, config)
<1>1. ASSUME NEW i \in InForce(k, f) PROVE i \in Ruleset(ts, f, config)
  <2>1. i \in k /\ i.chain \in Chains /\ Enabled(config, f, i.chain)
    BY ItemsChain DEF InForce
  <2>2. i \in Wanted(ts, config, f, i.chain)
    BY <2>1 DEF Matches, ChainOf
  <2>3. QED BY <2>1, <2>2 DEF Ruleset
<1>2. ASSUME NEW i \in Ruleset(ts, f, config) PROVE i \in InForce(k, f)
  <2>1. PICK ch \in Chains : Enabled(config, f, ch) /\ i \in Wanted(ts, config, f, ch)
    BY DEF Ruleset
  <2>2. i \in ChainOf(k, ch)
    BY <2>1 DEF Matches
  <2>3. QED BY <2>1, <2>2 DEF ChainOf, InForce
<1>3. QED BY <1>1, <1>2

----------------------------------------------------------------------------
\* The commands of a rebuild.

Rebuild ==
    \/ ensureFilterChain \/ flushFilterChain \/ Append \/ NextChain \/ OpenChain
    \/ CommandFails

\* What a command may add.
Effect(k) == k \subseteq kernel[fam] \cup Ruleset(targets, fam, config)

LEMMA DueIsAsked ==
    ASSUME IInv, at = "append"
    PROVE  todo \subseteq Ruleset(targets, fam, config)
<1>1. chain \in Chains
  BY DEF IInv, TypeOK
<1>2. CASE Enabled(config, fam, chain)
  BY <1>1, <1>2, WantedAsked DEF IInv, Progress
<1>3. CASE ~Enabled(config, fam, chain)
  BY <1>3 DEF IInv, Progress
<1>4. QED BY <1>2, <1>3

LEMMA JumpIsAsked == Jump("filter") \in Ruleset(targets, fam, config)
BY WantedJump, WantedAsked DEF Enabled, Chains

\* A command of a rebuild adds nothing the policy does not ask for, and touches
\* its own family only.
LEMMA RebuildAdds ==
    ASSUME IInv, Rebuild
    PROVE  /\ at \notin {"idle", "check"} /\ at' \notin {"idle", "check"}
           /\ UNCHANGED <<config, targets, fam, snapshot, outcome, failed, tainted>>
           /\ \A f \in Families \ {fam} : kernel'[f] = kernel[f]
           /\ Effect(kernel'[fam])
<1>0. kernel \in [Families -> SUBSET Items] /\ fam \in Families
  BY DEF IInv, TypeOK
<1> USE DEF verdict
<1>1. CASE ensureFilterChain
  BY <1>0, <1>1, JumpIsAsked DEF ensureFilterChain, Effect
<1>2. CASE flushFilterChain
  BY <1>0, <1>2 DEF flushFilterChain, Effect
<1>3. CASE Append
  BY <1>0, <1>3, DueIsAsked DEF Append, Effect
<1>4. CASE NextChain
  BY <1>4 DEF NextChain, Effect
<1>5. CASE OpenChain
  BY <1>0, <1>5 DEF OpenChain, Effect
<1>6. CASE CommandFails
  <2>1. \A k \in Effects : Effect(k)
    <3>1. CASE at = "ensure"
      BY <3>1, JumpIsAsked DEF Effects, Effect
    <3>2. CASE at = "flush"
      BY <3>2 DEF Effects, Effect
    <3>3. CASE at = "open"
      BY <3>3 DEF Effects, Effect
    <3>4. CASE at = "append"
      BY <3>4, DueIsAsked DEF Effects, Effect
    <3>5. CASE at \notin {"ensure", "flush", "open", "append"}
      BY <3>5 DEF Effects
    <3>6. QED BY <3>1, <3>2, <3>3, <3>4, <3>5
  <2>2. at \notin {"idle", "check"}
    BY <1>6 DEF CommandFails, Effects
  <2>3. PICK k \in Effects \cup {kernel[fam]} : kernel' = [kernel EXCEPT ![fam] = k]
    BY <1>6 DEF CommandFails
  <2>4. Effect(kernel'[fam]) /\ \A f \in Families \ {fam} : kernel'[f] = kernel[f]
    BY <1>0, <2>1, <2>3 DEF Effect
  <2>5. QED BY <1>6, <2>2, <2>4 DEF CommandFails
<1>7. QED BY <1>1, <1>2, <1>3, <1>4, <1>5, <1>6 DEF Rebuild

LEMMA NextMixed == IInv /\ Mixed /\ [Next]_vars => Mixed'
<1> SUFFICES ASSUME IInv, Mixed, [Next]_vars PROVE Mixed'
  OBVIOUS
<1> USE DEF Mixed, Rebuilding, InForce, Ruleset
<1>1. CASE Rebuild
  BY <1>1, RebuildAdds DEF Effect
<1>2. CASE snapshotRuleset
  BY <1>2 DEF snapshotRuleset
<1>3. CASE PolicyChange \/ UNCHANGED vars
  BY <1>3 DEF PolicyChange, control, vars
<1>4. CASE Sync \/ Skip \/ Commit \/ restoreRuleset \/ RestoreFails \/ Restart
  BY <1>4 DEF Sync, Skip, Commit, restoreRuleset, RestoreFails, Return, Restart
<1>5. QED
  BY <1>1, <1>2, <1>3, <1>4 DEF Next, Step, Rebuild, Crash, Reboot

----------------------------------------------------------------------------
\* The steps of the backend as steps of the contract.

LEMMA SyncCalls ==
    ASSUME IInv, Sync
    PROVE  Contract!Call
<1>1. Installed' = Installed /\ Broken' = Broken
  BY DEF Sync, Installed, Broken, Rebuilding, InForce, verdict
<1>2. Result # "busy" /\ Result' = "busy" /\ targets' \in Policies
  BY DEF Sync, Result, IInv, TypeOK
<1>3. QED BY <1>1, <1>2 DEF Contract!Call, Sync, verdict

\* The end of a pass, seen from the main loop.
LEMMA ReturnResult ==
    ASSUME TypeOK, at # "idle", NEW ok \in BOOLEAN, Return(ok), UNCHANGED config
    PROVE  /\ Result = "busy"
           /\ ok => failed' = failed \ {fam} /\ Result' \in {"busy", "ok"}
           /\ ~ok => /\ failed' = failed \cup {fam}
                     /\ Result' = IF fam = "v4" THEN "throw" ELSE "ok"
           /\ \A f \in Families : ~Rebuilding(f)'
BY DEF Return, Result, Rebuilding

LEMMA SkipKeeps ==
    ASSUME IInv, Skip
    PROVE  Contract!Keep(fam)
<1>1. /\ Result = "busy" /\ failed' = failed \ {fam} /\ Result' \in {"busy", "ok"}
      /\ \A f \in Families : ~Rebuilding(f)'
  BY ReturnResult DEF IInv, Skip
<1>2. \A f \in Families : ~Rebuilding(f)
  BY DEF Skip, Rebuilding
<1>3. Installed' = Installed /\ Broken' = Broken
  BY <1>1, <1>2 DEF Skip, Installed, Broken, InForce
<1>4. QED BY <1>1, <1>3 DEF Contract!Keep, Skip

LEMMA CommitInstalls ==
    ASSUME IInv, Commit
    PROVE  Contract!Install(fam)
<1>1. /\ Result = "busy" /\ failed' = failed \ {fam} /\ Result' \in {"busy", "ok"}
      /\ \A f \in Families : ~Rebuilding(f)'
  BY ReturnResult DEF IInv, Commit
<1>2. Matches(kernel[fam], targets, config, fam)
  <2>1. \A ch \in Chains : ch \in Earlier \cup {chain}
    BY DEF Commit, Earlier, Chains
  <2>2. QED BY <2>1, CompleteChain DEF Commit, Matches, Holds
<1>3. fam \in Families /\ kernel \in [Families -> SUBSET Items] /\ tainted \in SUBSET Families
  BY DEF IInv, TypeOK
<1>4. InForce(kernel[fam], fam) = Ruleset(targets, fam, config)
  BY <1>2, <1>3, MatchesInForce
<1>5. \A f \in Families : Rebuilding(f) => f = fam
  BY DEF Rebuilding
<1>6. Installed' = [f \in Families |-> InForce(kernel[f], f)]
  BY <1>1 DEF Commit, Installed, InForce
<1>7. Installed' = [Installed EXCEPT ![fam] = Ruleset(targets, fam, config)]
  BY <1>3, <1>4, <1>5, <1>6 DEF Installed
<1>8. Broken' = Broken \ {fam}
  BY <1>1, <1>3, <1>5 DEF Commit, Broken
<1>9. QED BY <1>1, <1>7, <1>8 DEF Contract!Install, Commit

\* A rollback makes what the pass has done undone.
LEMMA RestoreRefuses ==
    ASSUME IInv, restoreRuleset
    PROVE  Contract!Refuse(fam)
<1>1. /\ Result = "busy" /\ failed' = failed \cup {fam}
      /\ Result' = IF fam = "v4" THEN "throw" ELSE "ok"
      /\ \A f \in Families : ~Rebuilding(f)'
  BY ReturnResult DEF IInv, restoreRuleset
<1>2. fam \in Families /\ kernel \in [Families -> SUBSET Items]
  BY DEF IInv, TypeOK
<1>3. Rebuilding(fam) /\ snapshot # None /\ \A f \in Families : Rebuilding(f) => f = fam
  BY DEF Rebuilding, restoreRuleset
<1>4. Installed' = [f \in Families |-> InForce(kernel'[f], f)]
  BY <1>1 DEF restoreRuleset, Installed, InForce
<1>5. kernel' = [kernel EXCEPT ![fam] = snapshot]
  BY DEF restoreRuleset
<1>6. Installed' = Installed
  BY <1>2, <1>3, <1>4, <1>5 DEF Installed
<1>7. Broken' = Broken
  BY <1>1, <1>3 DEF restoreRuleset, Broken
<1>8. QED BY <1>1, <1>6, <1>7 DEF Contract!Refuse, restoreRuleset

\* A rollback that fails leaves a mixture.
LEMMA RestoreBreaks ==
    ASSUME IInv, Mixed, RestoreFails
    PROVE  Contract!Break(fam)
<1>1. /\ Result = "busy" /\ failed' = failed \cup {fam}
      /\ Result' = IF fam = "v4" THEN "throw" ELSE "ok"
      /\ \A f \in Families : ~Rebuilding(f)'
  BY ReturnResult DEF IInv, RestoreFails
<1>2. fam \in Families /\ kernel \in [Families -> SUBSET Items]
  BY DEF IInv, TypeOK
<1>3. Rebuilding(fam) /\ \A f \in Families : Rebuilding(f) => f = fam
  BY DEF Rebuilding, RestoreFails
<1>4. Installed' = [f \in Families |-> InForce(kernel[f], f)]
  BY <1>1 DEF RestoreFails, Installed, InForce
<1>5. \A f \in Families \ {fam} : Installed'[f] = Installed[f]
  BY <1>3, <1>4 DEF Installed
<1>6. Installed' = [Installed EXCEPT ![fam] = Installed'[fam]]
  BY <1>2, <1>4, <1>5 DEF Installed
<1>7. Installed'[fam] \subseteq Installed[fam] \cup Ruleset(targets, fam, config)
  <2>1. Installed'[fam] = InForce(kernel[fam], fam)
    BY <1>2, <1>4
  <2>2. CASE snapshot = None
    BY <1>2, <2>1, <2>2 DEF Installed
  <2>3. CASE snapshot # None
    <3>1. Installed[fam] = InForce(snapshot, fam)
      BY <1>2, <1>3, <2>3 DEF Installed
    <3>2. QED BY <1>3, <2>1, <2>3, <3>1 DEF Mixed
  <2>4. QED BY <2>2, <2>3
<1>8. Broken' = Broken \cup {fam}
  BY <1>1, <1>3 DEF RestoreFails, Broken
<1>9. QED BY <1>1, <1>6, <1>7, <1>8 DEF Contract!Break, RestoreFails

\* A command of a rebuild is invisible, unless it cannot be undone.
LEMMA RebuildHidden ==
    ASSUME IInv, Rebuild
    PROVE  Contract!Break(fam) \/ UNCHANGED Contract!vars
<1>1. fam \in Families /\ kernel \in [Families -> SUBSET Items]
  BY DEF IInv, TypeOK
<1>2. /\ Rebuilding(fam) /\ Rebuilding(fam)'
      /\ \A f \in Families : (Rebuilding(f) => f = fam) /\ (Rebuilding(f)' => f = fam)
  BY RebuildAdds DEF Rebuilding
<1>3. Result = "busy" /\ Result' = "busy" /\ UNCHANGED <<config, targets, failed>>
  BY RebuildAdds DEF Result
<1>4. Broken' = Broken
  BY <1>2, RebuildAdds DEF Broken
<1>5. \A f \in Families \ {fam} : Installed'[f] = Installed[f]
  BY <1>2, RebuildAdds DEF Installed, InForce
<1>6. CASE snapshot # None
  <2>1. Installed'[fam] = Installed[fam]
    BY <1>1, <1>2, <1>6, RebuildAdds DEF Installed, InForce
  <2>2. Installed' = Installed
    BY <1>1, <1>5, <2>1 DEF Installed
  <2>3. QED BY <1>3, <1>4, <2>2 DEF Contract!vars
<1>7. CASE snapshot = None
  <2>1. /\ Installed[fam] = {i \in kernel[fam] : Enabled(config, fam, i.chain)}
        /\ Installed'[fam] = {i \in kernel'[fam] : Enabled(config, fam, i.chain)}
    BY <1>1, <1>7, RebuildAdds DEF Installed, InForce
  <2>2. Installed'[fam] \subseteq Installed[fam] \cup Ruleset(targets, fam, config)
    <3>1. Effect(kernel'[fam])
      BY RebuildAdds
    <3>2. QED BY <2>1, <3>1 DEF Effect
  <2>3. Installed' = [Installed EXCEPT ![fam] = Installed'[fam]]
    BY <1>1, <1>5 DEF Installed
  <2>4. Broken' = Broken \cup {fam}
    BY <1>1, <1>2, <1>4, <1>7 DEF Broken
  <2>5. QED BY <1>3, <2>2, <2>3, <2>4 DEF Contract!Break
<1>8. QED BY <1>6, <1>7

\* Saving the ruleset is invisible; going on without a copy is a mixture begun.
LEMMA SnapshotHidden ==
    ASSUME IInv, snapshotRuleset
    PROVE  Contract!Break(fam) \/ UNCHANGED Contract!vars
<1>1. fam \in Families /\ kernel \in [Families -> SUBSET Items]
  BY DEF IInv, TypeOK
<1>2. /\ \A f \in Families : ~Rebuilding(f)
      /\ Rebuilding(fam)' /\ \A f \in Families : Rebuilding(f)' => f = fam
      /\ UNCHANGED <<config, targets, kernel, fam, failed, tainted>>
      /\ Result = "busy" /\ Result' = "busy"
  BY DEF snapshotRuleset, Rebuilding, Result, verdict
<1>3. snapshot' \in {kernel[fam], None}
  BY DEF snapshotRuleset
<1>4. Installed' = Installed
  BY <1>1, <1>2, <1>3 DEF Installed, InForce
<1>5. CASE snapshot' # None
  BY <1>2, <1>4, <1>5 DEF Broken, Contract!vars
<1>6. CASE snapshot' = None
  <2>1. Broken' = Broken \cup {fam}
    BY <1>1, <1>2, <1>6 DEF Broken
  <2>2. Installed = [Installed EXCEPT ![fam] = Installed[fam]]
    BY DEF Installed
  <2>3. QED BY <1>2, <1>4, <2>1, <2>2 DEF Contract!Break
<1>7. QED BY <1>5, <1>6

\* A new process, or a host started anew, has promised nothing.
LEMMA RestartStops ==
    ASSUME Restart
    PROVE  Contract!Stop
BY DEF Restart, Contract!Stop, Broken, Rebuilding, Result

LEMMA DormantStops ==
    ASSUME Dormant, UNCHANGED ownIp
    PROVE  Dormant' /\ Contract!Stop
BY DEF Dormant, ownIp, control, verdict, Contract!Stop, Broken, Rebuilding, Result

\* A call that ended well has installed its policy.
LEMMA OkIsInstalled ==
    ASSUME IInv
    PROVE  Contract!OkMeansInstalled
<1> SUFFICES ASSUME Result = "ok", NEW f \in Families \ (Broken \cup failed), Uses(config, f)
             PROVE  Installed[f] = Ruleset(targets, f, config)
  BY DEF Contract!OkMeansInstalled
<1>1. at = "idle" /\ outcome = "ok"
  BY DEF Result
<1>2. f \notin tainted /\ ~Rebuilding(f)
  BY <1>1 DEF Broken, Rebuilding
<1>3. kernel[f] \in SUBSET Items
  BY DEF IInv, TypeOK
<1>4. Matches(kernel[f], targets, config, f)
  BY <1>1, <1>2 DEF IInv, OkMeansEnforced, Families, Uses
<1>5. Installed[f] = InForce(kernel[f], f)
  BY <1>2 DEF Installed
<1>6. QED BY <1>3, <1>4, <1>5, MatchesInForce

----------------------------------------------------------------------------
\* The refinement.

LEMMA CInit == createFirewallController => CInv /\ Contract!Init
<1> SUFFICES ASSUME createFirewallController PROVE CInv /\ Contract!Init
  OBVIOUS
<1>1. Init /\ backend \in {"iptables", "nftables"}
  BY DEF createFirewallController
<1>2. IInv
  BY <1>1, IInvInit
<1>3. CInv
  BY <1>1, <1>2 DEF CInv, Mixed, Rebuilding, Dormant, Init
<1>4. Contract!Init
  BY <1>1 DEF Init, Contract!Init, Installed, InForce, Broken, Rebuilding, Result
<1>5. QED BY <1>3, <1>4

LEMMA CStep ==
    CInv /\ [IptablesNext \/ NftablesNext]_allVars => CInv' /\ [Contract!Next]_(Contract!vars)
<1> SUFFICES ASSUME CInv, [IptablesNext \/ NftablesNext]_allVars
             PROVE  CInv' /\ [Contract!Next]_(Contract!vars)
  OBVIOUS
<1>1. CASE backend = "nftables"
  <2>1. Dormant /\ UNCHANGED <<backend, ownIp>>
    BY <1>1 DEF CInv, IptablesNext, NftablesNext, allVars, vars, ownIp
  <2>2. QED BY <1>1, <2>1, DormantStops DEF CInv, Contract!Next
<1>2. CASE backend = "iptables"
  <2>1. IInv /\ Mixed /\ [Next]_vars /\ UNCHANGED backend
    BY <1>2 DEF CInv, IptablesNext, NftablesNext, allVars
  <2>2. CInv'
    BY <1>2, <2>1, IInvStep, NextMixed DEF CInv
  <2>3. fam \in Families
    BY <2>1 DEF IInv, TypeOK
  <2>4. CASE UNCHANGED vars \/ PolicyChange
    <3>1. UNCHANGED <<config, targets, kernel, at, fam, snapshot, outcome, failed, tainted>>
      BY <2>4 DEF vars, PolicyChange, control, verdict
    <3>2. UNCHANGED <<Installed, Broken, Result>>
      BY <3>1 DEF Installed, InForce, Broken, Rebuilding, Result
    <3>3. QED BY <2>2, <3>1, <3>2 DEF Contract!vars
  <2>5. CASE Crash \/ Reboot
    BY <2>2, <2>5, RestartStops DEF Crash, Reboot, Contract!Next
  <2>6. CASE Sync
    BY <2>1, <2>2, <2>6, SyncCalls DEF Contract!Next
  <2>7. CASE Skip \/ Commit
    BY <2>1, <2>2, <2>3, <2>7, SkipKeeps, CommitInstalls DEF Contract!Next
  <2>8. CASE restoreRuleset \/ RestoreFails
    BY <2>1, <2>2, <2>3, <2>8, RestoreRefuses, RestoreBreaks DEF Contract!Next
  <2>9. CASE Rebuild \/ snapshotRuleset
    BY <2>1, <2>2, <2>3, <2>9, RebuildHidden, SnapshotHidden DEF Contract!Next
  <2>10. QED
    BY <2>1, <2>4, <2>5, <2>6, <2>7, <2>8, <2>9 DEF Next, Step, Rebuild
<1>3. QED BY <1>1, <1>2 DEF CInv

LEMMA CInvOk == CInv => Contract!OkMeansInstalled
<1>1. IInv => Contract!OkMeansInstalled
  BY OkIsInstalled
<1>2. Dormant => Contract!OkMeansInstalled
  BY DEF Dormant, Contract!OkMeansInstalled, Result
<1>3. QED BY <1>1, <1>2 DEF CInv

\* Whatever is asked of it and whatever fails, the iptables backend changes the
\* rules of a family only from one policy's to another's, says so when it has
\* not, and leaves anything else only where a rollback could not be done
\* (IptablesController.sync).
THEOREM BackendKeepsContract == ControllerSpec => KeepsContract
<1>1. ControllerSpec => createFirewallController /\ [][IptablesNext \/ NftablesNext]_allVars
  BY PTL DEF ControllerSpec
<1>2. QED
  BY <1>1, CInit, CStep, CInvOk, PTL DEF KeepsContract, Contract!Spec

----------------------------------------------------------------------------
\* The nftables backend: its inductive invariant.

\* A pass is under way.
NftWorking == nftAt \notin {"idle", "check"}

\* The chains filled before the one in progress.
NftBefore == CASE nftChain = "block" -> {}
               [] nftChain = "nat" -> {"block"}
               [] nftChain = "nat6" -> {"block", "nat"}

\* Where the pass is: in a chain that is in use, the redirect of IPv6 being the
\* one that has no rollback.
NftControl ==
    /\ nftAt # "idle" => nftTargets \in Policies
    /\ ~NftWorking => nftChain = "block"
    /\ NftWorking => Nft!Enabled(config, nftChain)
    /\ nftAt = "redirect-failed" => nftChain = "nat6"
    /\ nftAt = "restore" => nftChain # "nat6"

\* How far the pass has got: the chains before are complete, and the one in
\* progress is complete but for the rules still to be added.
NftProgress ==
    nftAt \in {"ensure", "flush", "add", "redirect-failed"} =>
        /\ \A ch \in NftBefore : Nft!Matches(nftKernel, nftTargets, ch)
        /\ nftAt = "add" => Nft!ChainOf(nftKernel, nftChain) \cup nftTodo
                            = {Nft!Base(nftChain)} \cup Nft!Rules(nftTargets, config, nftChain)

\* A remembered signature tells the truth, unless a pass after it failed.
NftTruthful ==
    ~NftWorking => \A ts \in Policies : Nft!Signature(ts, config) \in nftSig =>
        nftBehind # {} \/ \A ch \in Nft!Chains : Nft!Matches(nftKernel, ts, ch)

\* A pass is made, and fails, only for another policy than the remembered one.
NftBehindIsOther ==
    /\ nftBehind \cap nftSig = {}
    /\ NftWorking => Nft!Signature(nftTargets, config) \notin nftSig

\* The ruleset k has every rule of the remembered policy.
NftKeeps(k) ==
    \A ts \in Policies, ch \in Nft!Chains :
        Nft!Signature(ts, config) \in nftSig /\ Nft!Enabled(config, ch)
            => Nft!Rules(ts, config, ch) \subseteq k

\* What a rollback would load has them, unless they were given up before.
NftSnapshotKeeps ==
    NftWorking /\ ~nftLost /\ nftSnapshot # None => NftKeeps(nftSnapshot)

NftInv ==
    /\ Nft!TypeOK
    /\ NftControl
    /\ NftProgress
    /\ NftTruthful
    /\ NftBehindIsOther
    /\ NftSnapshotKeeps
    /\ Nft!OkMeansEnforced
    /\ Nft!RollbackKeepsRules

----------------------------------------------------------------------------
\* Lemmas about the rules of a policy under nftables.

\* Every rule belongs to the chain it is written for.
LEMMA NftTargetChain ==
    ASSUME NEW t, NEW c, NEW i \in Nft!TargetRules(t, c)
    PROVE  i.chain = "block"
BY DEF Nft!TargetRules, Nft!addBlockRules, Nft!addVpnBlockRules, Nft!addQuicBlockRule,
       Nft!Item

LEMMA NftRulesChain ==
    ASSUME NEW ts, NEW c, NEW ch, NEW i \in Nft!Rules(ts, c, ch)
    PROVE  i.chain = ch
<1>1. CASE ch = "block"
  <2>1. i \in Nft!BlockChain(ts, c)
    BY <1>1 DEF Nft!Rules
  <2>2. CASE i \in Nft!addDohDotBlockRules
    BY <1>1, <2>2 DEF Nft!addDohDotBlockRules, Nft!Item
  <2>3. CASE i \notin Nft!addDohDotBlockRules
    <3>1. PICK t \in ts : i \in Nft!TargetRules(t, c)
      BY <2>1, <2>3 DEF Nft!BlockChain
    <3>2. QED BY <1>1, <3>1, NftTargetChain
  <2>4. QED BY <2>2, <2>3
<1>2. CASE ch # "block"
  BY <1>2 DEF Nft!Rules, Nft!Redirect, Nft!Item
<1>3. QED BY <1>1, <1>2

LEMMA NftBase == \A ch : Nft!Base(ch).chain = ch
BY DEF Nft!Base, Nft!Item

LEMMA NftRulesItems ==
    ASSUME NEW ts \in Policies, NEW c \in Configs, NEW ch \in Nft!Chains
    PROVE  Nft!Rules(ts, c, ch) \subseteq Nft!Items /\ Nft!Base(ch) \in Nft!Items
BY DEF Nft!Items

\* The signature covers everything the rules depend on.
LEMMA NftSignatureDetermines ==
    ASSUME NEW ts, NEW us, NEW c, NEW ch, Nft!Signature(ts, c) = Nft!Signature(us, c)
    PROVE  Nft!Rules(ts, c, ch) = Nft!Rules(us, c, ch)
<1> DEFINE Sig(t) == <<t.deviceId, t.action, t.ip, t.ip6, t.mac, t.vpn, t.quic>>
<1>1. {Sig(t) : t \in ts} = {Sig(t) : t \in us}
  BY DEF Nft!Signature
<1>2. ASSUME NEW t, NEW u, Sig(t) = Sig(u)
      PROVE  Nft!TargetRules(t, c) = Nft!TargetRules(u, c)
  <2>1. /\ t.action = u.action /\ t.ip = u.ip /\ t.ip6 = u.ip6 /\ t.mac = u.mac
        /\ t.vpn = u.vpn /\ t.quic = u.quic
    BY <1>2
  <2>2. Nft!Sources(t, c) = Nft!Sources(u, c)
    BY <2>1 DEF Nft!Sources
  <2>3. QED
    BY <2>1, <2>2 DEF Nft!TargetRules, Nft!addBlockRules, Nft!addVpnBlockRules,
                      Nft!addQuicBlockRule
<1>3. (UNION {Nft!TargetRules(t, c) : t \in ts}) = UNION {Nft!TargetRules(t, c) : t \in us}
  <2> HIDE DEF Sig
  <2>1. ASSUME NEW t \in ts
        PROVE  \E u \in us : Nft!TargetRules(t, c) = Nft!TargetRules(u, c)
    <3>1. PICK u \in us : Sig(t) = Sig(u)
      BY <1>1
    <3>2. QED BY <3>1, <1>2
  <2>2. ASSUME NEW u \in us
        PROVE  \E t \in ts : Nft!TargetRules(t, c) = Nft!TargetRules(u, c)
    <3>1. PICK t \in ts : Sig(t) = Sig(u)
      BY <1>1
    <3>2. QED BY <3>1, <1>2
  <2>3. QED BY <2>1, <2>2
<1>4. QED BY <1>3 DEF Nft!Rules, Nft!BlockChain

----------------------------------------------------------------------------
\* Every step of the nftables backend preserves the parts of the invariant.

LEMMA NftTypeStep == Nft!TypeOK /\ NftControl /\ [Nft!Next]_(Nft!vars) => Nft!TypeOK'
<1> SUFFICES ASSUME Nft!TypeOK, NftControl, [Nft!Next]_(Nft!vars) PROVE Nft!TypeOK'
  OBVIOUS
<1> USE DEF Nft!TypeOK, Nft!verdict
<1>1. CASE Nft!Sync \/ Nft!PolicyChange \/ UNCHANGED Nft!vars
  BY <1>1 DEF Nft!Sync, Nft!PolicyChange, Nft!vars, Nft!Signatures
<1>2. CASE Nft!Skip
  BY <1>2 DEF Nft!Skip, Nft!Return, Nft!Chains, Nft!Signatures
<1>3. CASE Nft!snapshotRuleset
  BY <1>3 DEF Nft!snapshotRuleset, Nft!Signatures
<1>4. CASE Nft!ensureTable
  BY <1>4, NftRulesItems DEF Nft!ensureTable, NftControl, Nft!Signatures
<1>5. CASE Nft!flushChain
  BY <1>5, NftRulesItems DEF Nft!flushChain, NftControl, Nft!Signatures
<1>6. CASE Nft!NoSuchChain
  BY <1>6 DEF Nft!NoSuchChain, Nft!Failed, Nft!Signatures
<1>7. CASE Nft!AddRule
  BY <1>7 DEF Nft!AddRule, Nft!Signatures
<1>8. CASE Nft!NextChain
  BY <1>8 DEF Nft!NextChain, Nft!Chains, Nft!Signatures
<1>9. CASE Nft!Commit
  <2>1. Nft!Signature(nftTargets, config) \in Nft!Signatures
    BY <1>9 DEF Nft!Commit, NftControl, Nft!Signatures
  <2>2. Nft!Signatures' = Nft!Signatures
    BY <1>9 DEF Nft!Commit, Nft!Signatures
  <2>3. QED BY <1>9, <2>1, <2>2 DEF Nft!Commit, Nft!Return, Nft!Chains
<1>10. CASE Nft!V6RedirectFailed
  <2>1. Nft!Signature(nftTargets, config) \in Nft!Signatures
    BY <1>10 DEF Nft!V6RedirectFailed, NftControl, Nft!Signatures
  <2>2. Nft!Signatures' = Nft!Signatures
    BY <1>10 DEF Nft!V6RedirectFailed, Nft!Signatures
  <2>3. QED BY <1>10, <2>1, <2>2 DEF Nft!V6RedirectFailed, Nft!Return, Nft!Chains
<1>11. CASE Nft!restoreRuleset \/ Nft!RestoreFails
  <2>1. Nft!Signature(nftTargets, config) \in Nft!Signatures
    BY <1>11 DEF Nft!restoreRuleset, Nft!RestoreFails, NftControl, Nft!Signatures
  <2>2. Nft!Signatures' = Nft!Signatures
    BY <1>11 DEF Nft!restoreRuleset, Nft!RestoreFails, Nft!Signatures
  <2>3. QED BY <1>11, <2>1, <2>2 DEF Nft!restoreRuleset, Nft!RestoreFails, Nft!Return,
                                     Nft!Chains
<1>12. CASE Nft!CommandFails
  BY <1>12 DEF Nft!CommandFails, Nft!Effects, Nft!Failed, Nft!Signatures
<1>13. CASE Nft!Crash \/ Nft!Reboot
  BY <1>13 DEF Nft!Crash, Nft!Reboot, Nft!Restart, Nft!Chains
<1>14. QED
  BY <1>1, <1>2, <1>3, <1>4, <1>5, <1>6, <1>7, <1>8, <1>9, <1>10, <1>11, <1>12, <1>13
     DEF Nft!Next, Nft!Step

LEMMA NftControlStep == Nft!TypeOK /\ NftControl /\ [Nft!Next]_(Nft!vars) => NftControl'
<1> SUFFICES ASSUME Nft!TypeOK, NftControl, [Nft!Next]_(Nft!vars) PROVE NftControl'
  OBVIOUS
<1> USE DEF NftControl, NftWorking, Nft!verdict
<1>1. CASE Nft!Sync \/ Nft!PolicyChange \/ UNCHANGED Nft!vars
  BY <1>1 DEF Nft!TypeOK, Nft!Sync, Nft!PolicyChange, Nft!vars
<1>2. CASE \/ Nft!Skip \/ Nft!Commit \/ Nft!V6RedirectFailed
           \/ Nft!restoreRuleset \/ Nft!RestoreFails
  BY <1>2 DEF Nft!Skip, Nft!Commit, Nft!V6RedirectFailed, Nft!restoreRuleset,
              Nft!RestoreFails, Nft!Return
<1>3. CASE Nft!snapshotRuleset
  BY <1>3 DEF Nft!snapshotRuleset, Nft!Enabled
<1>4. CASE Nft!ensureTable \/ Nft!flushChain \/ Nft!AddRule
  BY <1>4 DEF Nft!ensureTable, Nft!flushChain, Nft!AddRule
<1>5. CASE Nft!NoSuchChain
  BY <1>5 DEF Nft!NoSuchChain, Nft!Failed
<1>6. CASE Nft!NextChain
  BY <1>6 DEF Nft!NextChain
<1>7. CASE Nft!CommandFails
  BY <1>7 DEF Nft!CommandFails, Nft!Effects, Nft!Failed
<1>8. CASE Nft!Crash \/ Nft!Reboot
  BY <1>8 DEF Nft!Crash, Nft!Reboot, Nft!Restart
<1>9. QED
  BY <1>1, <1>2, <1>3, <1>4, <1>5, <1>6, <1>7, <1>8 DEF Nft!Next, Nft!Step

LEMMA NftProgressStep ==
    Nft!TypeOK /\ NftControl /\ NftProgress /\ [Nft!Next]_(Nft!vars) => NftProgress'
<1> SUFFICES ASSUME Nft!TypeOK, NftControl, NftProgress, [Nft!Next]_(Nft!vars)
             PROVE  NftProgress'
  OBVIOUS
<1> USE DEF Nft!verdict
<1>1. CASE Nft!Sync \/ Nft!PolicyChange \/ UNCHANGED Nft!vars
  BY <1>1 DEF NftProgress, Nft!Sync, Nft!PolicyChange, Nft!vars, NftBefore, Nft!Matches
<1>2. CASE \/ Nft!Skip \/ Nft!Commit \/ Nft!V6RedirectFailed
           \/ Nft!restoreRuleset \/ Nft!RestoreFails
  BY <1>2 DEF NftProgress, Nft!Skip, Nft!Commit, Nft!V6RedirectFailed, Nft!restoreRuleset,
              Nft!RestoreFails, Nft!Return
<1>3. CASE Nft!snapshotRuleset
  BY <1>3 DEF NftProgress, NftControl, NftWorking, Nft!snapshotRuleset, NftBefore
<1>4. nftChain \in Nft!Chains /\ nftChain \notin NftBefore
  BY DEF NftBefore, Nft!TypeOK, Nft!Chains
<1>a. ASSUME UNCHANGED <<config, nftTargets, nftChain>>, nftAt \in {"ensure", "flush", "add"},
             \A i : i.chain # nftChain => (i \in nftKernel' <=> i \in nftKernel)
      PROVE  \A ch \in NftBefore' : Nft!Matches(nftKernel, nftTargets, ch)'
  <2> SUFFICES ASSUME NEW ch \in NftBefore PROVE Nft!Matches(nftKernel, nftTargets, ch)'
    BY <1>a DEF NftBefore
  <2>1. ch # nftChain /\ Nft!Matches(nftKernel, nftTargets, ch)
    BY <1>4, <1>a DEF NftProgress
  <2>2. Nft!ChainOf(nftKernel', ch) = Nft!ChainOf(nftKernel, ch)
    BY <1>a, <2>1 DEF Nft!ChainOf
  <2>3. QED BY <1>a, <2>1, <2>2 DEF Nft!Matches
<1>5. CASE Nft!ensureTable
  <2>1. \A i : i.chain # nftChain => (i \in nftKernel' <=> i \in nftKernel)
    BY <1>5, NftBase DEF Nft!ensureTable
  <2>2. QED BY <1>5, <1>a, <2>1 DEF Nft!ensureTable, NftProgress
<1>6. CASE Nft!flushChain
  <2>1. Nft!ChainOf(nftKernel', nftChain) = {Nft!Base(nftChain)}
    BY <1>6, NftBase DEF Nft!flushChain, Nft!ChainOf, Nft!RulesOf
  <2>2. \A i : i.chain # nftChain => (i \in nftKernel' <=> i \in nftKernel)
    BY <1>6 DEF Nft!flushChain, Nft!RulesOf, Nft!ChainOf
  <2>3. QED BY <1>6, <1>a, <2>1, <2>2 DEF Nft!flushChain, NftProgress
<1>7. CASE Nft!AddRule
  <2>1. PICK i \in nftTodo : nftKernel' = nftKernel \cup {i} /\ nftTodo' = nftTodo \ {i}
    BY <1>7 DEF Nft!AddRule
  <2>2. Nft!ChainOf(nftKernel, nftChain) \cup nftTodo
            = {Nft!Base(nftChain)} \cup Nft!Rules(nftTargets, config, nftChain)
    BY <1>7 DEF Nft!AddRule, NftProgress
  <2>3. i.chain = nftChain
    BY <2>1, <2>2, NftRulesChain, NftBase
  <2>4. Nft!ChainOf(nftKernel', nftChain) = Nft!ChainOf(nftKernel, nftChain) \cup {i}
    BY <2>1, <2>3 DEF Nft!ChainOf
  <2>5. \A j : j.chain # nftChain => (j \in nftKernel' <=> j \in nftKernel)
    BY <2>1, <2>3
  <2>6. QED BY <1>7, <1>a, <2>1, <2>2, <2>4, <2>5 DEF Nft!AddRule, NftProgress
<1>8. CASE Nft!NextChain
  <2>1. \A ch \in NftBefore : Nft!Matches(nftKernel, nftTargets, ch)
    BY <1>8 DEF Nft!NextChain, NftProgress
  <2>2. Nft!Matches(nftKernel, nftTargets, nftChain)
    BY <1>8 DEF Nft!NextChain, NftProgress, Nft!Matches
  <2>3. \A ch \in NftBefore' :
            \/ ch \in NftBefore \cup {nftChain}
            \/ ch = "nat" /\ ~Nft!Enabled(config, "nat")
    BY <1>4, <1>8 DEF Nft!NextChain, NftBefore, Nft!Chains
  <2>4. QED BY <1>8, <2>1, <2>2, <2>3 DEF Nft!NextChain, NftProgress, Nft!Matches
<1>9. CASE Nft!NoSuchChain
  BY <1>9 DEF Nft!NoSuchChain, Nft!Failed, NftProgress, Nft!Matches, NftBefore
<1>10. CASE Nft!CommandFails
  <2>1. CASE nftAt = "ensure"
    BY <1>10, <2>1 DEF Nft!CommandFails, Nft!Effects, Nft!Failed, NftProgress,
                       Nft!Matches, NftBefore
  <2>2. CASE nftAt # "ensure"
    <3>1. /\ nftAt \in {"flush", "add"} /\ nftAt' \in {"restore", "redirect-failed"}
          /\ UNCHANGED <<config, nftTargets, nftChain>>
          /\ nftKernel' \in Nft!Effects \cup {nftKernel}
      BY <1>10, <2>2 DEF Nft!CommandFails, Nft!Effects, Nft!Failed
    <3>2. \A i : i.chain # nftChain => (i \in nftKernel' <=> i \in nftKernel)
      <4>1. CASE nftAt = "flush"
        BY <3>1, <4>1 DEF Nft!Effects, Nft!RulesOf, Nft!ChainOf
      <4>2. CASE nftAt = "add"
        <5>1. \A i \in nftTodo : i.chain = nftChain
          BY <4>2, NftRulesChain, NftBase DEF NftProgress
        <5>2. QED BY <3>1, <4>2, <5>1 DEF Nft!Effects
      <4>3. QED BY <3>1, <4>1, <4>2
    <3>3. QED BY <3>1, <3>2, <1>a DEF NftProgress
  <2>3. QED BY <2>1, <2>2
<1>11. CASE Nft!Crash \/ Nft!Reboot
  BY <1>11 DEF Nft!Crash, Nft!Reboot, Nft!Restart, NftProgress
<1>12. QED
  BY <1>1, <1>2, <1>3, <1>5, <1>6, <1>7, <1>8, <1>9, <1>10, <1>11 DEF Nft!Next, Nft!Step

----------------------------------------------------------------------------
\* A command of a pass touches none of the promises of the state between passes.
LEMMA NftWorkStep ==
    ASSUME NftInv, NftWorking, NftWorking',
           UNCHANGED <<config, nftTargets, nftSig, nftSnapshot, nftOutcome, nftBehind, nftLost>>
    PROVE  /\ NftTruthful' /\ NftBehindIsOther' /\ NftSnapshotKeeps'
           /\ Nft!OkMeansEnforced' /\ Nft!RollbackKeepsRules'
BY DEF NftInv, NftTruthful, NftBehindIsOther, NftSnapshotKeeps, Nft!OkMeansEnforced,
       Nft!RollbackKeepsRules, NftWorking, NftKeeps

\* The chains filled in a pass that has come to its end are all there are.
LEMMA NftAllChains ==
    ASSUME Nft!TypeOK, NftProgress, nftAt = "add", nftTodo = {}, nftChain = Nft!LastChain
    PROVE  \A ch \in Nft!Chains : Nft!Matches(nftKernel, nftTargets, ch)
<1>1. nftChain \in Nft!Chains
  BY DEF Nft!TypeOK
<1>2. Nft!Matches(nftKernel, nftTargets, nftChain)
  BY DEF NftProgress, Nft!Matches
<1>3. /\ Nft!Enabled(config, "nat6") => nftChain = "nat6"
      /\ Nft!Enabled(config, "nat") /\ ~Nft!Enabled(config, "nat6") => nftChain = "nat"
  <2>1. \E ch \in Nft!Chains :
          /\ Nft!Enabled(config, ch)
          /\ Nft!Enabled(config, "nat6") => ch = "nat6"
          /\ Nft!Enabled(config, "nat") /\ ~Nft!Enabled(config, "nat6") => ch = "nat"
    <3>1. "block" \in Nft!Chains /\ "nat" \in Nft!Chains /\ "nat6" \in Nft!Chains
      BY DEF Nft!Chains
    <3>2. Nft!Enabled(config, "block")
      BY DEF Nft!Enabled
    <3>3. QED BY <3>1, <3>2
  <2>2. QED BY <2>1 DEF Nft!LastChain
<1>4. \A ch \in Nft!Chains : ch = nftChain \/ ch \in NftBefore \/ ~Nft!Enabled(config, ch)
  BY <1>1, <1>3 DEF Nft!Chains, NftBefore
<1>5. QED BY <1>2, <1>4 DEF NftProgress, Nft!Matches

\* What is known of a policy is known of every policy with its signature.
LEMMA NftSameMatches ==
    ASSUME NEW ts, NEW us, NEW k, NEW ch, Nft!Signature(ts, config) = Nft!Signature(us, config),
           Nft!Matches(k, us, ch)
    PROVE  Nft!Matches(k, ts, ch)
BY NftSignatureDetermines DEF Nft!Matches

LEMMA NftMatchesKeeps ==
    ASSUME NEW ts, NEW k, NEW ch, Nft!Matches(k, ts, ch), Nft!Enabled(config, ch)
    PROVE  Nft!Rules(ts, config, ch) \subseteq k
BY DEF Nft!Matches, Nft!ChainOf

LEMMA NftPromisesStep ==
    NftInv /\ [Nft!Next]_(Nft!vars) =>
        /\ NftTruthful' /\ NftBehindIsOther' /\ NftSnapshotKeeps'
        /\ Nft!OkMeansEnforced' /\ Nft!RollbackKeepsRules'
<1> SUFFICES ASSUME NftInv, [Nft!Next]_(Nft!vars)
             PROVE  /\ NftTruthful' /\ NftBehindIsOther' /\ NftSnapshotKeeps'
                    /\ Nft!OkMeansEnforced' /\ Nft!RollbackKeepsRules'
  OBVIOUS
<1> USE DEF Nft!verdict
<1> DEFINE Promises == /\ NftTruthful' /\ NftBehindIsOther' /\ NftSnapshotKeeps'
                       /\ Nft!OkMeansEnforced' /\ Nft!RollbackKeepsRules'
<1>1. CASE Nft!Sync \/ Nft!PolicyChange \/ UNCHANGED Nft!vars
  <2>1. UNCHANGED <<config, nftKernel, nftSig, nftSnapshot, nftOutcome, nftBehind, nftLost>>
    BY <1>1 DEF Nft!Sync, Nft!PolicyChange, Nft!vars
  <2>2. CASE Nft!Sync
    BY <2>1, <2>2 DEF Nft!Sync, NftInv, NftTruthful, NftBehindIsOther, NftSnapshotKeeps,
                      Nft!OkMeansEnforced, Nft!RollbackKeepsRules, Nft!Matches, NftWorking
  <2>3. CASE Nft!PolicyChange \/ UNCHANGED Nft!vars
    <3>1. UNCHANGED <<nftTargets, nftAt>>
      BY <2>3 DEF Nft!PolicyChange, Nft!vars
    <3>2. QED
      BY <2>1, <3>1 DEF NftInv, NftTruthful, NftBehindIsOther, NftSnapshotKeeps,
                        Nft!OkMeansEnforced, Nft!RollbackKeepsRules, Nft!Matches,
                        NftWorking, NftKeeps, Nft!Stale
  <2>4. QED BY <1>1, <2>2, <2>3
<1>2. CASE Nft!Skip
  <2>1. /\ UNCHANGED <<config, nftTargets, nftKernel, nftSig, nftBehind, nftLost>>
        /\ nftAt' = "idle" /\ nftOutcome' = "ok"
    BY <1>2 DEF Nft!Skip, Nft!Return
  <2>2. /\ nftTargets \in Policies /\ nftAt = "check"
        /\ Nft!Signature(nftTargets, config) \in nftSig
    BY <1>2 DEF Nft!Skip, NftInv, NftControl
  <2>3. Nft!Stale(nftTargets) \/ \A ch \in Nft!Chains : Nft!Matches(nftKernel, nftTargets, ch)
    BY <2>2 DEF NftInv, NftTruthful, NftBehindIsOther, NftWorking, Nft!Stale
  <2>4. Nft!OkMeansEnforced'
    BY <2>1, <2>3 DEF Nft!OkMeansEnforced, Nft!Stale, Nft!Matches
  <2>5. NftTruthful' /\ NftBehindIsOther' /\ NftSnapshotKeeps' /\ Nft!RollbackKeepsRules'
    BY <2>1, <2>2 DEF NftInv, NftTruthful, NftBehindIsOther, NftSnapshotKeeps,
                      Nft!RollbackKeepsRules, Nft!Matches, NftWorking
  <2>6. QED BY <2>4, <2>5
<1>3. CASE Nft!snapshotRuleset
  <2>1. /\ UNCHANGED <<config, nftTargets, nftSig, nftOutcome, nftBehind, nftLost>>
        /\ nftAt = "check" /\ nftAt' = "ensure" /\ nftSnapshot' \in {nftKernel, None}
        /\ Nft!Signature(nftTargets, config) \notin nftSig
    BY <1>3 DEF Nft!snapshotRuleset
  <2>2. NftSnapshotKeeps'
    BY <2>1 DEF NftInv, NftSnapshotKeeps, Nft!RollbackKeepsRules, NftKeeps, NftWorking
  <2>3. NftTruthful' /\ NftBehindIsOther' /\ Nft!OkMeansEnforced' /\ Nft!RollbackKeepsRules'
    BY <2>1 DEF NftInv, NftTruthful, NftBehindIsOther, Nft!OkMeansEnforced,
                Nft!RollbackKeepsRules, NftWorking
  <2>4. QED BY <2>2, <2>3
<1>4. CASE \/ Nft!ensureTable \/ Nft!flushChain \/ Nft!NoSuchChain
           \/ Nft!AddRule \/ Nft!NextChain \/ Nft!CommandFails
  <2>1. /\ NftWorking /\ NftWorking'
        /\ UNCHANGED <<config, nftTargets, nftSig, nftSnapshot, nftOutcome, nftBehind, nftLost>>
    BY <1>4 DEF Nft!ensureTable, Nft!flushChain, Nft!NoSuchChain, Nft!AddRule,
                Nft!NextChain, Nft!CommandFails, Nft!Effects, Nft!Failed, NftWorking
  <2>2. QED BY <2>1, NftWorkStep
<1>5. CASE Nft!Commit
  <2>1. /\ UNCHANGED <<config, nftTargets, nftKernel>> /\ nftAt' = "idle" /\ nftOutcome' = "ok"
        /\ nftSig' = {Nft!Signature(nftTargets, config)} /\ nftBehind' = {}
    BY <1>5 DEF Nft!Commit, Nft!Return
  <2>2. \A ch \in Nft!Chains : Nft!Matches(nftKernel, nftTargets, ch)
    BY <1>5, NftAllChains DEF Nft!Commit, NftInv
  <2>3. ASSUME NEW ts, Nft!Signature(ts, config) \in nftSig', NEW ch \in Nft!Chains
        PROVE  Nft!Matches(nftKernel, ts, ch)
    BY <2>1, <2>2, <2>3, NftSameMatches
  <2>4. NftTruthful'
    BY <2>1, <2>3 DEF NftTruthful, Nft!Matches
  <2>5. Nft!RollbackKeepsRules'
    BY <2>1, <2>3, NftMatchesKeeps DEF Nft!RollbackKeepsRules
  <2>6. Nft!OkMeansEnforced'
    BY <2>1, <2>2 DEF Nft!OkMeansEnforced, Nft!Matches
  <2>7. NftBehindIsOther' /\ NftSnapshotKeeps'
    BY <2>1 DEF NftBehindIsOther, NftSnapshotKeeps, NftWorking
  <2>8. QED BY <2>4, <2>5, <2>6, <2>7
<1>6. CASE Nft!V6RedirectFailed \/ Nft!restoreRuleset \/ Nft!RestoreFails
  <2>1. /\ UNCHANGED <<config, nftTargets, nftSig>> /\ nftAt' = "idle" /\ NftWorking
        /\ nftBehind' = {Nft!Signature(nftTargets, config)}
    BY <1>6 DEF Nft!V6RedirectFailed, Nft!restoreRuleset, Nft!RestoreFails, Nft!Return,
                NftWorking
  <2>2. NftTruthful' /\ NftSnapshotKeeps' /\ NftBehindIsOther'
    BY <2>1 DEF NftTruthful, NftSnapshotKeeps, NftBehindIsOther, NftWorking, NftInv
  <2>3. Nft!OkMeansEnforced'
    <3>1. CASE Nft!V6RedirectFailed
      <4>1. nftOutcome' = "no6" /\ nftKernel' = nftKernel /\ nftAt = "redirect-failed"
        BY <3>1 DEF Nft!V6RedirectFailed, Nft!Return
      <4>2. \A ch \in Nft!Chains \ {"nat6"} : Nft!Matches(nftKernel, nftTargets, ch)
        BY <4>1 DEF NftInv, NftProgress, NftControl, NftBefore, Nft!Chains
      <4>3. QED BY <2>1, <4>1, <4>2 DEF Nft!OkMeansEnforced, Nft!Matches
    <3>2. CASE Nft!restoreRuleset \/ Nft!RestoreFails
      BY <3>2 DEF Nft!restoreRuleset, Nft!RestoreFails, Nft!Return, Nft!OkMeansEnforced
    <3>3. QED BY <1>6, <3>1, <3>2
  <2>4. Nft!RollbackKeepsRules'
    <3>1. CASE Nft!V6RedirectFailed \/ Nft!RestoreFails
      BY <3>1 DEF Nft!V6RedirectFailed, Nft!RestoreFails, Nft!RollbackKeepsRules
    <3>2. CASE Nft!restoreRuleset
      <4>1. nftKernel' = nftKernel \cup nftSnapshot /\ nftSnapshot # None /\ nftLost' = nftLost
        BY <3>2 DEF Nft!restoreRuleset
      <4>2. ~nftLost => NftKeeps(nftSnapshot)
        BY <2>1, <4>1 DEF NftInv, NftSnapshotKeeps
      <4>3. QED BY <2>1, <4>1, <4>2 DEF NftKeeps, Nft!RollbackKeepsRules
    <3>3. QED BY <1>6, <3>1, <3>2
  <2>5. QED BY <2>2, <2>3, <2>4
<1>7. CASE Nft!Crash \/ Nft!Reboot
  BY <1>7 DEF Nft!Crash, Nft!Reboot, Nft!Restart, NftTruthful, NftBehindIsOther,
              NftSnapshotKeeps, Nft!OkMeansEnforced, Nft!RollbackKeepsRules, NftWorking
<1>8. QED BY <1>1, <1>2, <1>3, <1>4, <1>5, <1>6, <1>7 DEF Nft!Next, Nft!Step

LEMMA NftInvStep == NftInv /\ [Nft!Next]_(Nft!vars) => NftInv'
BY NftTypeStep, NftControlStep, NftProgressStep, NftPromisesStep DEF NftInv

LEMMA NftInvInit == Nft!Init => NftInv
<1> SUFFICES ASSUME Nft!Init PROVE NftInv
  OBVIOUS
<1>1. Nft!TypeOK
  BY DEF Nft!Init, Nft!TypeOK, Nft!Chains
<1>2. QED
  BY <1>1 DEF Nft!Init, NftInv, NftControl, NftProgress, NftTruthful, NftBehindIsOther,
              NftSnapshotKeeps, Nft!OkMeansEnforced, Nft!RollbackKeepsRules, NftWorking

----------------------------------------------------------------------------
\* The two backends together.

\* The backend in use keeps its invariant; the nftables variables of an agent
\* that runs iptables stay as they were initialised.
NftCInv ==
    \/ backend = "iptables" /\ IInv /\ Nft!Init
    \/ backend = "nftables" /\ NftInv

LEMMA NftCInit == createFirewallController => NftCInv
BY IInvInit, NftInvInit DEF createFirewallController, NftCInv

LEMMA NftCStep == NftCInv /\ [IptablesNext \/ NftablesNext]_allVars => NftCInv'
<1> SUFFICES ASSUME NftCInv, [IptablesNext \/ NftablesNext]_allVars PROVE NftCInv'
  OBVIOUS
<1>1. CASE backend = "iptables"
  <2>1. IInv /\ Nft!Init /\ [Next]_vars /\ UNCHANGED <<backend, ownNft>>
    BY <1>1 DEF NftCInv, IptablesNext, NftablesNext, allVars
  <2>2. IInv'
    BY <2>1, IInvStep
  <2>3. config' \in Configs /\ desired' \in Policies
    BY <2>2 DEF IInv, TypeOK
  <2>4. Nft!Init'
    BY <2>1, <2>3 DEF Nft!Init, ownNft
  <2>5. QED BY <1>1, <2>1, <2>2, <2>4 DEF NftCInv
<1>2. CASE backend = "nftables"
  <2>1. NftInv /\ UNCHANGED backend
    BY <1>2 DEF NftCInv, IptablesNext, NftablesNext, allVars
  <2>2. [Nft!Next]_(Nft!vars)
    BY <1>2 DEF IptablesNext, NftablesNext, allVars, vars, ownNft, Nft!vars, Nft!verdict
  <2>3. QED BY <1>2, <2>1, <2>2, NftInvStep DEF NftCInv
<1>3. QED BY <1>1, <1>2 DEF NftCInv

LEMMA NftCInvPromises == NftCInv => NftOkMeansEnforced /\ NftRollbackKeepsRules
BY NftInvInit DEF NftCInv, NftInv, NftOkMeansEnforced, NftRollbackKeepsRules

\* Under nftables too, a call that ended well has the ruleset enforce its policy
\* to the rule, whatever failed before (NftablesController.sync), unless it was
\* skipped on a signature that a failed pass has left stale.
THEOREM NftCallsEnforce == ControllerSpec => []NftOkMeansEnforced
<1>1. ControllerSpec => createFirewallController /\ [][IptablesNext \/ NftablesNext]_allVars
  BY PTL DEF ControllerSpec
<1>2. QED
  BY <1>1, NftCInit, NftCStep, NftCInvPromises, PTL

\* However passes, rollbacks and restarts follow one another, a rollback under
\* nftables leaves every rule of the remembered policy installed, unless it was
\* impossible or the IPv6 redirect failed (restoreRuleset).
THEOREM NftRollbacksKeep == ControllerSpec => []NftRollbackKeepsRules
<1>1. ControllerSpec => createFirewallController /\ [][IptablesNext \/ NftablesNext]_allVars
  BY PTL DEF ControllerSpec
<1>2. QED
  BY <1>1, NftCInit, NftCStep, NftCInvPromises, PTL
=============================================================================
