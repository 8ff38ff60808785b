---------------------------- MODULE FirewallSync ----------------------------
(***************************************************************************)
(* The iptables backend of the gateway agent (iptables-controller.js).     *)
(*                                                                         *)
(* One call of sync() rebuilds the GuardTime chains of the v4 ruleset and, *)
(* when IPv6 is on, of the v6 ruleset: it compares a signature of the      *)
(* policy with the one remembered for the family, and unless they agree    *)
(* takes a snapshot of the ruleset, flushes and refills the chains command *)
(* by command, and remembers the signature.  A command that fails makes    *)
(* the pass restore the snapshot and throw.  The agent may be killed, and  *)
(* the host rebooted, between any two commands.                            *)
(*                                                                         *)
(* A ruleset is the set of items of the GuardTime chains: the jump into a  *)
(* chain, or a rule of it.  All rules of a chain drop (or all redirect),   *)
(* so their order and multiplicity do not matter and are left out.         *)
(***************************************************************************)
EXTENDS FirewallPolicy, FiniteSets, Naturals

Families == {"v4", "v6"}
Chains == {"filter", "doh", "dns"}

----------------------------------------------------------------------------
\* The rules one policy asks for.

Jump(chain) == Item(chain, "jump", None)

Address(t, f) == IF f = "v6" THEN t.ip6 ELSE t.ip

\* Mutant of Addresses: a rule is written for an address that is not known.
AddressOrNone(t, f) == {Address(t, f)}

Addresses(t, f) == {Address(t, f)} \ {None}

\* MAC rules go into both families; IP rules need an address of the family.
addBlockRules(t, f) ==
    {Item("filter", "ip", a) : a \in Addresses(t, f)}
        \cup {Item("filter", "mac", m) : m \in {t.mac} \ {None}}

\* Endpoint ranges are IPv4 only.
addVpnBlockRules(t, f) ==
    {Item("filter", rule, a) :
        rule \in {"vpn-port"} \cup {r \in {"vpn-range"} : f = "v4"},
        a \in Addresses(t, f)}

addQuicBlockRule(t, f) == {Item("filter", "quic", a) : a \in Addresses(t, f)}

TargetRules(t, c, f) ==
    (IF t.action = "BLOCK" THEN addBlockRules(t, f) ELSE {})
        \cup (IF t.vpn THEN addVpnBlockRules(t, f) ELSE {})
        \cup (IF c.quicGlobal \/ t.quic THEN addQuicBlockRule(t, f) ELSE {})

FilterRules(ts, c, f) == UNION {TargetRules(t, c, f) : t \in ts}

\* Provider addresses are IPv4 only; the DoT ports are dropped in both.
ensureDohDotBlock(f) ==
    {Jump("doh"), Item("doh", "dot", None)}
        \cup {i \in {Item("doh", "provider", None)} : f = "v4"}

ensureDnsRedirect == {Jump("dns"), Item("dns", "dnat", None)}

\* Which chains a pass of the family touches (sync() drops the v6 redirect
\* when no v6 resolver is configured).
Enabled(c, f, chain) ==
    CASE chain = "filter" -> TRUE
      [] chain = "doh" -> c.doh
      [] chain = "dns" -> c.dns /\ (f = "v6" => c.dns6)

Wanted(ts, c, f, chain) ==
    CASE chain = "filter" -> {Jump("filter")} \cup FilterRules(ts, c, f)
      [] chain = "doh" -> ensureDohDotBlock(f)
      [] chain = "dns" -> ensureDnsRedirect

\* The items of a chain, and its rules without the jump into it.
ChainOf(k, chain) == {i \in k : i.chain = chain}
RulesOf(k, chain) == ChainOf(k, chain) \ {Jump(chain)}

\* buildFirewallSyncSignature: everything the rules depend on, order-free.
Signature(ts, c, f) ==
    [targets |-> {<<t.deviceId, t.action, t.ip, t.ip6, t.mac, t.vpn, t.quic>> :
                     t \in ts},
     config |-> <<Enabled(c, f, "dns"), c.quicGlobal, c.doh, f>>]

----------------------------------------------------------------------------
VARIABLES
    config,     \* the configuration the running agent was started with
    desired,    \* the targets the backend's answer resolves to at present
    targets,    \* the targets of the sync() call in progress or last made
    kernel,     \* the GuardTime items of each family's ruleset
    sigs,       \* _lastSyncSignatures: at most one signature per family
    at, fam,    \* the next command of the pass in progress, and its family
    chain,      \* the chain being filled
    todo,       \* the appends still to be made to that chain
    snapshot,   \* the saved ruleset, None if saving failed
    outcome,    \* how the last call ended: "none" since the start, "ok", "throw"
    failed,     \* the families whose last pass threw
    tainted     \* the families left half-applied since their last full pass

control == <<at, fam, chain, todo, snapshot>>
verdict == <<outcome, failed, tainted>>
vars == <<config, desired, targets, kernel, sigs, control, verdict>>

Init ==
    /\ config \in Configs
    /\ desired \in Policies
    /\ targets = {}
    /\ kernel = [f \in Families |-> {}]
    /\ sigs = [f \in Families |-> {}]
    /\ at = "idle" /\ fam = "v4" /\ chain = "filter"
    /\ todo = {} /\ snapshot = None
    /\ outcome = "none" /\ failed = {} /\ tainted = {}

\* The backend's policy, or what discovery resolves it to, changes.  Only the
\* start of a call reads it, so a change during a call is one made after it.
PolicyChange ==
    /\ at = "idle"
    /\ desired' \in Policies \ {desired}
    /\ UNCHANGED <<config, targets, kernel, sigs, control, verdict>>

\* A cycle of the main loop calls sync() with what it has just resolved.
Sync ==
    /\ at = "idle"
    /\ targets' = desired
    /\ at' = "check"
    /\ UNCHANGED <<config, desired, kernel, sigs, fam, chain, todo, snapshot,
                   verdict>>

\* The pass of family fam ends: v4 returning hands over to v6 if IPv6 is on;
\* v4 throwing ends the call; v6 throwing is caught and only logged.
Return(ok) ==
    /\ chain' = "filter" /\ todo' = {} /\ snapshot' = None
    /\ failed' = IF ok THEN failed \ {fam} ELSE failed \cup {fam}
    /\ IF fam = "v4" /\ ok /\ config.ipv6
          THEN at' = "check" /\ fam' = "v6" /\ UNCHANGED outcome
          ELSE /\ at' = "idle" /\ fam' = "v4"
               /\ outcome' = IF fam = "v4" /\ ~ok THEN "throw" ELSE "ok"

\* syncFamily: the policy is the one remembered, nothing is touched.
Skip ==
    /\ at = "check"
    /\ Signature(targets, config, fam) \in sigs[fam]
    /\ Return(TRUE)
    /\ UNCHANGED <<config, desired, targets, kernel, sigs, tainted>>

\* Mutant of snapshotRuleset: the signature is remembered before the commands.
RememberFirst ==
    /\ at = "check"
    /\ Signature(targets, config, fam) \notin sigs[fam]
    /\ snapshot' = kernel[fam]
    /\ at' = "ensure"
    /\ sigs' = [sigs EXCEPT ![fam] = {Signature(targets, config, fam)}]
    /\ UNCHANGED <<config, desired, targets, kernel, fam, chain, todo, verdict>>

snapshotRuleset ==
    /\ at = "check"
    /\ Signature(targets, config, fam) \notin sigs[fam]
    /\ \/ snapshot' = kernel[fam]
       \/ "save" \in Faults /\ snapshot' = None
    /\ at' = "ensure"
    /\ UNCHANGED <<config, desired, targets, kernel, sigs, fam, chain, todo,
                   verdict>>

ensureFilterChain ==
    /\ at = "ensure"
    /\ kernel' = [kernel EXCEPT ![fam] = @ \cup {Jump("filter")}]
    /\ at' = "flush"
    /\ UNCHANGED <<config, desired, targets, sigs, fam, chain, todo, snapshot,
                   verdict>>

\* Mutant of flushFilterChain: rules are appended to those in place.
AppendWithoutFlush ==
    /\ at = "flush"
    /\ todo' = FilterRules(targets, config, fam)
    /\ at' = "append"
    /\ UNCHANGED <<config, desired, targets, kernel, sigs, fam, chain, snapshot,
                   verdict>>

flushFilterChain ==
    /\ at = "flush"
    /\ kernel' = [kernel EXCEPT ![fam] = @ \ RulesOf(@, "filter")]
    /\ todo' = FilterRules(targets, config, fam)
    /\ at' = "append"
    /\ UNCHANGED <<config, desired, targets, sigs, fam, chain, snapshot,
                   verdict>>

\* One iptables -A (or the -I of a jump that -C did not find).
Append ==
    /\ at = "append"
    /\ \E i \in todo :
        /\ kernel' = [kernel EXCEPT ![fam] = @ \cup {i}]
        /\ todo' = todo \ {i}
    /\ UNCHANGED <<config, desired, targets, sigs, at, fam, chain, snapshot,
                   verdict>>

\* The chain is complete; go on with the DoH chain, then the DNS chain.
NextChain ==
    /\ at = "append" /\ todo = {}
    /\ \/ chain = "filter" /\ chain' = "doh"
       \/ chain = "doh" /\ chain' = "dns"
    /\ at' = "open"
    /\ UNCHANGED <<config, desired, targets, kernel, sigs, fam, todo, snapshot,
                   verdict>>

\* ensureDohDotBlock and ensureDnsRedirect flush their chain first; a feature
\* that is switched off leaves its chain alone.
OpenChain ==
    /\ at = "open"
    /\ IF Enabled(config, fam, chain)
          THEN /\ kernel' = [kernel EXCEPT ![fam] = @ \ RulesOf(@, chain)]
               /\ todo' = Wanted(targets, config, fam, chain) \ kernel'[fam]
          ELSE UNCHANGED <<kernel, todo>>
    /\ at' = "append"
    /\ UNCHANGED <<config, desired, targets, sigs, fam, chain, snapshot,
                   verdict>>

\* Every command succeeded: remember the signature of what is now installed.
Commit ==
    /\ at = "append" /\ todo = {} /\ chain = "dns"
    /\ sigs' = [sigs EXCEPT ![fam] = {Signature(targets, config, fam)}]
    /\ tainted' = tainted \ {fam}
    /\ Return(TRUE)
    /\ UNCHANGED <<config, desired, targets, kernel>>

\* What the next command would make of the ruleset (no member: none is due).
Effects ==
    CASE at = "ensure" -> {kernel[fam] \cup {Jump("filter")}}
      [] at = "flush" -> {kernel[fam] \ RulesOf(kernel[fam], "filter")}
      [] at = "open" -> {k \in {kernel[fam] \ RulesOf(kernel[fam], chain)} :
                             Enabled(config, fam, chain)}
      [] at = "append" -> {kernel[fam] \cup {i} : i \in todo}
      [] OTHER -> {}

\* The command fails, or times out with its effect made; the pass rolls back.
CommandFails ==
    /\ "command" \in Faults
    /\ Effects # {}
    /\ \E k \in Effects \cup {kernel[fam]} :
           kernel' = [kernel EXCEPT ![fam] = k]
    /\ at' = "restore"
    /\ UNCHANGED <<config, desired, targets, sigs, fam, chain, todo, snapshot,
                   verdict>>

\* Mutant of restoreRuleset: what was saved is added to what is there.
RestoreAdds ==
    /\ at = "restore"
    /\ snapshot # None
    /\ kernel' = [kernel EXCEPT ![fam] = @ \cup snapshot]
    /\ Return(FALSE)
    /\ UNCHANGED <<config, desired, targets, sigs, tainted>>

restoreRuleset ==
    /\ at = "restore"
    /\ snapshot # None
    /\ kernel' = [kernel EXCEPT ![fam] = snapshot]
    /\ Return(FALSE)
    /\ UNCHANGED <<config, desired, targets, sigs, tainted>>

\* No snapshot, or iptables-restore failed: "rollback ALSO failed".
RestoreFails ==
    /\ at = "restore"
    /\ snapshot = None \/ "restore" \in Faults
    /\ tainted' = tainted \cup {fam}
    /\ Return(FALSE)
    /\ UNCHANGED <<config, desired, targets, kernel, sigs>>

\* Mutant of Restart: the signatures survive the process.
RestartKeepingSignatures ==
    /\ config' \in Configs
    /\ targets' = {} /\ todo' = {} /\ snapshot' = None
    /\ at' = "idle" /\ fam' = "v4" /\ chain' = "filter"
    /\ outcome' = "none" /\ failed' = {} /\ tainted' = {}
    /\ UNCHANGED <<desired, sigs>>

\* The agent starts again: nothing is remembered, the chains are as they were.
Restart ==
    /\ config' \in Configs
    /\ targets' = {}
    /\ sigs' = [f \in Families |-> {}]
    /\ at' = "idle" /\ fam' = "v4" /\ chain' = "filter"
    /\ todo' = {} /\ snapshot' = None
    /\ outcome' = "none" /\ failed' = {} /\ tainted' = {}
    /\ UNCHANGED desired

Crash == "crash" \in Faults /\ Restart /\ UNCHANGED kernel

\* Netfilter rules do not survive a reboot of the host.
Reboot ==
    /\ "reboot" \in Faults
    /\ Restart
    /\ kernel' = [f \in Families |-> {}]

Step ==
    \/ Sync \/ Skip \/ snapshotRuleset \/ ensureFilterChain \/ flushFilterChain
    \/ Append \/ NextChain \/ OpenChain \/ Commit
    \/ restoreRuleset \/ RestoreFails

Next == Step \/ PolicyChange \/ CommandFails \/ Crash \/ Reboot

Spec == Init /\ [][Next]_vars

\* The main loop keeps calling sync(), and every child process ends or is
\* killed by its 5 s timeout, so a running agent always gets on.
FairSpec == Spec /\ WF_vars(Step)

----------------------------------------------------------------------------
\* What the rules of a policy can be about.
Keys == (UNION {{t.ip, t.ip6, t.mac} : t \in UNION Policies}) \ {None}

FilterItems == [chain : {"filter"}, on : Keys,
                rule : {"ip", "mac", "vpn-port", "vpn-range", "quic"}]

Items ==
    {Jump(ch) : ch \in Chains} \cup FilterItems
        \cup (UNION {ensureDohDotBlock(f) : f \in Families}) \cup ensureDnsRedirect

Signatures(c) ==
    {Signature(ts, c, f) : ts \in Policies \cup {{}}, f \in Families}

\* Type invariant; every rule of the filter chain names an address, and the
\* signature remembered for a family was computed under the configuration the
\* agent runs with.
TypeOK ==
    /\ config \in Configs
    /\ desired \in Policies
    /\ targets \in Policies \cup {{}}
    /\ kernel \in [Families -> SUBSET Items]
    /\ sigs \in [Families -> SUBSET Signatures(config)]
    /\ at \in {"idle", "check", "ensure", "flush", "append", "open", "restore"}
    /\ fam \in Families
    /\ chain \in Chains
    /\ todo \in SUBSET Items
    /\ snapshot \in (SUBSET Items) \cup {None}
    /\ outcome \in {"none", "ok", "throw"}
    /\ failed \in SUBSET Families
    /\ tainted \in SUBSET Families

\* Ruleset k enforces policy ts: every chain in use holds exactly its items.
Matches(k, ts, c, f) ==
    \A ch \in Chains : Enabled(c, f, ch) => ChainOf(k, ch) = Wanted(ts, c, f, ch)

\* A pass of family f has commands outstanding.
Rebuilding(f) == fam = f /\ at \notin {"idle", "check"}

\* Skipping a pass is safe: whatever policy has the remembered signature, the
\* ruleset enforces exactly that policy, unless a rollback of the family
\* failed (syncFamily returns early on an equal signature).
SignatureTruthful ==
    \A f \in Families, ts \in Policies :
        /\ Signature(ts, config, f) \in sigs[f]
        /\ f \notin tainted
        /\ ~Rebuilding(f)
        => Matches(kernel[f], ts, config, f)

\* A call that ended well enforces the policy it was given, in IPv4 and, when
\* IPv6 is on and its pass did not throw, in IPv6 (sync), unless a rollback
\* of the family failed earlier.
OkMeansEnforced ==
    at = "idle" /\ outcome = "ok" =>
        /\ "v4" \notin tainted => Matches(kernel["v4"], targets, config, "v4")
        /\ config.ipv6 /\ "v6" \notin failed \cup tainted
             => Matches(kernel["v6"], targets, config, "v6")

\* README of the agent, state machine: in the steady state a BLOCK target is
\* dropped by IP and MAC and an ALLOW target has no DROP rule.
SteadyStateAsDocumented ==
    at = "idle" /\ outcome = "ok" =>
        \A t \in targets :
            /\ t.action = "BLOCK" => addBlockRules(t, "v4") \subseteq kernel["v4"]
            /\ t.action = "ALLOW" => addBlockRules(t, "v4") \cap kernel["v4"] = {}

\* Once the policy settles and the commands stop failing, every family whose
\* rollbacks worked ends up enforcing it and stays so (the main loop retries a
\* failed sync next cycle; a signature kept over a failed rollback stops it).
EventuallyEnforced ==
    <>[][~(PolicyChange \/ CommandFails \/ Crash \/ Reboot)]_vars =>
        <>[](\A f \in Families \ tainted :
                (f = "v6" => config.ipv6) => Matches(kernel[f], desired, config, f))
=============================================================================
