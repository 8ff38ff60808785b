------------------------------ MODULE NftSync -------------------------------
(***************************************************************************)
(* The nftables backend of the gateway agent (nftables-controller.js).     *)
(*                                                                         *)
(* One chain of family inet carries the rules of both IPv4 and IPv6, DoH   *)
(* included; the DNS redirect has a table of its own in each family.  A    *)
(* call that fails before the IPv6 redirect loads the ruleset listed at    *)
(* its start: nft -f adds what the listing names and removes nothing.  The *)
(* IPv6 redirect comes after the rollback's reach; when it fails, the call *)
(* returns normally and only forgets to remember its signature.            *)
(***************************************************************************)
EXTENDS FirewallPolicy, Naturals

Chains == {"block", "nat", "nat6"}

Base(chain) == Item(chain, "base", None)

\* The addresses of a target that rules are written for.
Sources(t, c) ==
    ({t.ip} \cup (IF c.ipv6 THEN {t.ip6} ELSE {})) \ {None}

addBlockRules(t, c) ==
    {Item("block", "saddr", a) : a \in Sources(t, c)}
        \cup {Item("block", "ether", m) : m \in {t.mac} \ {None}}

\* A rule per port and address; endpoint ranges are IPv4 only.
addVpnBlockRules(t, c) ==
    {Item("block", "vpn-port", a) : a \in Sources(t, c)}
        \cup {Item("block", "vpn-range", a) : a \in {t.ip} \ {None}}

addQuicBlockRule(t, c) == {Item("block", "quic", a) : a \in Sources(t, c)}

addDohDotBlockRules == {Item("block", r, None) : r \in {"dot", "provider"}}

TargetRules(t, c) ==
    (IF t.action = "BLOCK" THEN addBlockRules(t, c) ELSE {})
        \cup (IF t.vpn THEN addVpnBlockRules(t, c) ELSE {})
        \cup (IF c.quicGlobal \/ t.quic THEN addQuicBlockRule(t, c) ELSE {})

\* DoH shares the chain of the targets, so switching it off removes its rules.
BlockChain(ts, c) ==
    (UNION {TargetRules(t, c) : t \in ts})
        \cup (IF c.doh THEN addDohDotBlockRules ELSE {})

Redirect(chain) == {Item(chain, r, None) : r \in {"udp", "tcp"}}

Rules(ts, c, chain) ==
    IF chain = "block" THEN BlockChain(ts, c) ELSE Redirect(chain)

\* ensureDnsRedirectV6 needs IPv6, the redirect and a v6 resolver.
Enabled(c, chain) ==
    CASE chain = "block" -> TRUE
      [] chain = "nat" -> c.dns
      [] chain = "nat6" -> c.ipv6 /\ c.dns /\ c.dns6

\* buildFirewallSyncSignature, over everything the rules depend on.
Signature(ts, c) ==
    [targets |-> {<<t.deviceId, t.action, t.ip, t.ip6, t.mac, t.vpn, t.quic>> :
                     t \in ts},
     config |-> <<c.dns, c.quicGlobal, c.doh, c.ipv6, c.dns6>>]

ChainOf(k, chain) == {i \in k : i.chain = chain}
RulesOf(k, chain) == ChainOf(k, chain) \ {Base(chain)}

----------------------------------------------------------------------------
VARIABLES
    config,     \* the configuration the running agent was started with
    desired,    \* the targets the backend's answer resolves to at present
    targets,    \* the targets of the call in progress or last made
    kernel,     \* the items of the three GuardTime chains
    sig,        \* _lastSyncSignature: no or one signature
    at,         \* the next command of the call in progress
    chain,      \* the chain being filled
    todo,       \* the rules still to be added to it
    snapshot,   \* nft list ruleset, None if it failed
    outcome,    \* how the last call ended: "none" since the start, "ok",
                \* "no6" (all but the IPv6 redirect) or "throw"
    behind,     \* the signature of the last pass, if it was not completed
    lost        \* the rules sig stands for were given up since: a rollback
                \* brought nothing back, or the IPv6 redirect failed

verdict == <<outcome, behind, lost>>
vars == <<config, desired, targets, kernel, sig, at, chain, todo, snapshot, verdict>>

Init ==
    /\ config \in Configs
    /\ desired \in Policies
    /\ targets = {} /\ kernel = {} /\ sig = {}
    /\ at = "idle" /\ chain = "block" /\ todo = {} /\ snapshot = None
    /\ outcome = "none" /\ behind = {} /\ lost = FALSE

PolicyChange ==
    /\ at = "idle"
    /\ desired' \in Policies \ {desired}
    /\ UNCHANGED <<config, targets, kernel, sig, at, chain, todo, snapshot, verdict>>

\* A cycle of the main loop calls sync() with what it has just resolved.
Sync ==
    /\ at = "idle"
    /\ targets' = desired
    /\ at' = "check"
    /\ UNCHANGED <<config, desired, kernel, sig, chain, todo, snapshot, verdict>>

Return(result) ==
    /\ at' = "idle" /\ chain' = "block" /\ todo' = {} /\ snapshot' = None
    /\ outcome' = result

\* The policy is the one remembered: nothing is touched.
Skip ==
    /\ at = "check"
    /\ Signature(targets, config) \in sig
    /\ Return("ok")
    /\ UNCHANGED <<config, desired, targets, kernel, sig, behind, lost>>

snapshotRuleset ==
    /\ at = "check"
    /\ Signature(targets, config) \notin sig
    /\ \/ snapshot' = kernel
       \/ "save" \in Faults /\ snapshot' = None
    /\ at' = "ensure"
    /\ UNCHANGED <<config, desired, targets, kernel, sig, chain, todo, verdict>>

ensureTable ==
    /\ at = "ensure"
    /\ kernel' = kernel \cup {Base(chain)}
    /\ at' = "flush"
    /\ UNCHANGED <<config, desired, targets, sig, chain, todo, snapshot, verdict>>

\* Mutant of flushChain: the chain is filled on top of what it holds.
AddWithoutFlush ==
    /\ at = "flush" /\ Base(chain) \in kernel
    /\ todo' = Rules(targets, config, chain)
    /\ at' = "add"
    /\ UNCHANGED <<config, desired, targets, kernel, sig, chain, snapshot, verdict>>

flushChain ==
    /\ at = "flush" /\ Base(chain) \in kernel
    /\ kernel' = kernel \ RulesOf(kernel, chain)
    /\ todo' = Rules(targets, config, chain)
    /\ at' = "add"
    /\ UNCHANGED <<config, desired, targets, sig, chain, snapshot, verdict>>

AddRule ==
    /\ at = "add"
    /\ \E i \in todo : kernel' = kernel \cup {i} /\ todo' = todo \ {i}
    /\ UNCHANGED <<config, desired, targets, sig, at, chain, snapshot, verdict>>

\* The chain is complete; the redirects follow as far as they are enabled.
NextChain ==
    /\ at = "add" /\ todo = {}
    /\ \/ /\ chain = "block" /\ Enabled(config, "nat")
          /\ chain' = "nat"
       \/ /\ chain = "block" => ~Enabled(config, "nat")
          /\ chain # "nat6" /\ Enabled(config, "nat6")
          /\ chain' = "nat6"
    /\ at' = "ensure"
    /\ UNCHANGED <<config, desired, targets, kernel, sig, todo, snapshot, verdict>>

LastChain ==
    CHOOSE ch \in Chains :
        /\ Enabled(config, ch)
        /\ Enabled(config, "nat6") => ch = "nat6"
        /\ Enabled(config, "nat") /\ ~Enabled(config, "nat6") => ch = "nat"

\* Everything succeeded: the signature is remembered.
Commit ==
    /\ at = "add" /\ todo = {} /\ chain = LastChain
    /\ sig' = {Signature(targets, config)}
    /\ Return("ok")
    /\ behind' = {} /\ lost' = FALSE
    /\ UNCHANGED <<config, desired, targets, kernel>>

\* What the next command would make of the ruleset.
Effects ==
    CASE at = "flush" -> {k \in {kernel \ RulesOf(kernel, chain)} : Base(chain) \in kernel}
      [] at = "add" -> {kernel \cup {i} : i \in todo}
      [] OTHER -> {}

Failed == IF chain = "nat6" THEN "redirect-failed" ELSE "restore"

\* flush chain finds no chain: the failure to add it was ignored.
NoSuchChain ==
    /\ at = "flush" /\ Base(chain) \notin kernel
    /\ at' = Failed
    /\ UNCHANGED <<config, desired, targets, kernel, sig, chain, todo, snapshot,
                   verdict>>

\* A command fails, or times out with its effect made; add table and add chain
\* may fail unnoticed.
CommandFails ==
    /\ "command" \in Faults
    /\ \/ Effects # {} /\ kernel' \in Effects \cup {kernel} /\ at' = Failed
       \/ at = "ensure" /\ UNCHANGED kernel /\ at' = "flush"
    /\ UNCHANGED <<config, desired, targets, sig, chain, todo, snapshot, verdict>>

\* Mutant of V6RedirectFailed: the signature is remembered all the same.
RememberAnyway ==
    /\ at = "redirect-failed"
    /\ sig' = {Signature(targets, config)}
    /\ Return("no6")
    /\ behind' = {Signature(targets, config)} /\ lost' = TRUE
    /\ UNCHANGED <<config, desired, targets, kernel>>

\* The IPv6 redirect failed: the call returns, the signature stays the old one.
V6RedirectFailed ==
    /\ at = "redirect-failed"
    /\ Return("no6")
    /\ behind' = {Signature(targets, config)} /\ lost' = TRUE
    /\ UNCHANGED <<config, desired, targets, kernel, sig>>

\* Mutant of restoreRuleset: the listing is not loaded.
ForgetListing ==
    /\ at = "restore" /\ snapshot # None
    /\ behind' = {Signature(targets, config)}
    /\ Return("throw")
    /\ UNCHANGED <<config, desired, targets, kernel, sig, lost>>

\* nft -f of the listing: what it names is added to the chains as they are.
restoreRuleset ==
    /\ at = "restore" /\ snapshot # None
    /\ kernel' = kernel \cup snapshot
    /\ behind' = {Signature(targets, config)}
    /\ Return("throw")
    /\ UNCHANGED <<config, desired, targets, sig, lost>>

RestoreFails ==
    /\ at = "restore"
    /\ snapshot = None \/ "restore" \in Faults
    /\ behind' = {Signature(targets, config)} /\ lost' = TRUE
    /\ Return("throw")
    /\ UNCHANGED <<config, desired, targets, kernel, sig>>

Restart ==
    /\ config' \in Configs
    /\ targets' = {} /\ sig' = {}
    /\ at' = "idle" /\ chain' = "block" /\ todo' = {} /\ snapshot' = None
    /\ outcome' = "none" /\ behind' = {} /\ lost' = FALSE
    /\ UNCHANGED desired

Crash == "crash" \in Faults /\ Restart /\ UNCHANGED kernel

Reboot == "reboot" \in Faults /\ Restart /\ kernel' = {}

Step ==
    \/ Sync \/ Skip \/ snapshotRuleset \/ ensureTable \/ flushChain \/ NoSuchChain
    \/ AddRule \/ NextChain \/ Commit \/ V6RedirectFailed \/ restoreRuleset \/ RestoreFails

Next == Step \/ PolicyChange \/ CommandFails \/ Crash \/ Reboot

Spec == Init /\ [][Next]_vars

\* As for the other backend: calls are repeated and every nft process ends.
FairSpec == Spec /\ WF_vars(Step)

----------------------------------------------------------------------------
Items ==
    {Base(ch) : ch \in Chains}
        \cup UNION {Rules(ts, c, ch) : ts \in Policies, c \in Configs, ch \in Chains}

Signatures == {Signature(ts, config) : ts \in Policies}

TypeOK ==
    /\ config \in Configs
    /\ desired \in Policies
    /\ targets \in Policies \cup {{}}
    /\ kernel \in SUBSET Items
    /\ sig \in SUBSET Signatures
    /\ at \in {"idle", "check", "ensure", "flush", "add", "restore", "redirect-failed"}
    /\ chain \in Chains
    /\ todo \in SUBSET Items
    /\ snapshot \in (SUBSET Items) \cup {None}
    /\ outcome \in {"none", "ok", "no6", "throw"}
    /\ behind \in SUBSET Signatures
    /\ lost \in BOOLEAN

Matches(k, ts, ch) ==
    Enabled(config, ch) => ChainOf(k, ch) = {Base(ch)} \cup Rules(ts, config, ch)

\* The policy is the one remembered, but the pass after it, for another policy,
\* changed the ruleset and was not completed.
Stale(ts) == behind # {} /\ Signature(ts, config) \in sig \ behind

\* A call that ended well enforces its policy to the rule, all but the IPv6
\* redirect when only that failed (sync), unless it was skipped on a signature
\* that an uncompleted pass has left stale.
OkMeansEnforced ==
    at = "idle" =>
        /\ outcome = "ok" /\ ~Stale(targets) =>
              \A ch \in Chains : Matches(kernel, targets, ch)
        /\ outcome = "no6" =>
              \A ch \in Chains \ {"nat6"} : Matches(kernel, targets, ch)

\* A rollback never opens the gate: while the rules of the remembered policy
\* were not given up, every one of them is installed between two calls,
\* whatever an additive restore has left beside them (restoreRuleset).
RollbackKeepsRules ==
    at \in {"idle", "check"} /\ ~lost =>
        \A ts \in Policies, ch \in Chains :
            Signature(ts, config) \in sig /\ Enabled(config, ch)
                => Rules(ts, config, ch) \subseteq kernel

\* Once policy and failures settle the ruleset ends up enforcing the policy, a
\* failed IPv6 redirect included, unless the policy is a stale remembered one.
EventuallyEnforced ==
    <>[][~(PolicyChange \/ CommandFails \/ Crash \/ Reboot)]_vars =>
        <>[](Stale(desired) \/ \A ch \in Chains : Matches(kernel, desired, ch))

----------------------------------------------------------------------------
\* What the documentation says and the code does not do.

\* nftables-controller.js: with the rollback, a partial rule application never
\* lingers; the rules beside the remembered policy's are none.
NothingLingers ==
    at = "idle" /\ ~lost =>
        \A ts \in Policies, ch \in Chains :
            Signature(ts, config) \in sig => Matches(kernel, ts, ch)

\* firewall-sync-signature.js: a call may be skipped when the signature has not
\* changed since the last cycle.
SkipIsSafe ==
    at = "idle" /\ outcome = "ok" =>
        \A ch \in Chains : Matches(kernel, targets, ch)
=============================================================================
