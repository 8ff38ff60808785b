------------------------- MODULE FirewallController -------------------------
(***************************************************************************)
(* The agent's firewall (firewall-controller.js): one of two backends,     *)
(* chosen when the process starts, given the same policies under the same  *)
(* configuration.  The variables of FirewallSync are the iptables          *)
(* backend's; those of NftSync are renamed, config and desired shared.     *)
(***************************************************************************)
EXTENDS FirewallSync

VARIABLES
    backend,    \* config.firewallBackend
    nftTargets, nftKernel, nftSig, nftAt, nftChain, nftTodo, nftSnapshot,
    nftOutcome, nftBehind, nftLost

Nft == INSTANCE NftSync WITH
    targets <- nftTargets, kernel <- nftKernel, sig <- nftSig, at <- nftAt,
    chain <- nftChain, todo <- nftTodo, snapshot <- nftSnapshot,
    outcome <- nftOutcome, behind <- nftBehind, lost <- nftLost

ownIp == <<targets, kernel, sigs, control, verdict>>
ownNft == <<nftTargets, nftKernel, nftSig, nftAt, nftChain, nftTodo, nftSnapshot,
            nftOutcome, nftBehind, nftLost>>
allVars == <<backend, vars, ownNft>>

createFirewallController ==
    /\ backend \in {"iptables", "nftables"}
    /\ Init
    /\ Nft!Init

IptablesNext == backend = "iptables" /\ Next /\ UNCHANGED <<backend, ownNft>>

NftablesNext == backend = "nftables" /\ Nft!Next /\ UNCHANGED <<backend, ownIp>>

ControllerSpec ==
    /\ createFirewallController
    /\ [][IptablesNext \/ NftablesNext]_allVars
    /\ WF_allVars(backend = "iptables" /\ Step /\ UNCHANGED <<backend, ownNft>>)
    /\ WF_allVars(backend = "nftables" /\ Nft!Step /\ UNCHANGED <<backend, ownIp>>)

----------------------------------------------------------------------------
\* The iptables backend as an implementation of FirewallContract.

InForce(k, f) == {i \in k : Enabled(config, f, i.chain)}

Ruleset(ts, f, c) ==
    UNION {Wanted(ts, c, f, ch) : ch \in {x \in Chains : Enabled(c, f, x)}}

Uses(c, f) == f = "v6" => c.ipv6

\* While the pass can still be undone its family counts as untouched.
Installed ==
    [f \in Families |->
        InForce(IF Rebuilding(f) /\ snapshot # None THEN snapshot ELSE kernel[f], f)]
Broken == tainted \cup {f \in Families : Rebuilding(f) /\ snapshot = None}
Result == IF at = "idle" THEN outcome ELSE "busy"

Contract == INSTANCE FirewallContract WITH
    Main <- "v4", InUse <- Uses,
    asked <- targets, installed <- Installed, broken <- Broken,
    refused <- failed, result <- Result

\* The iptables backend keeps its contract: seen from the main loop, each
\* family's rules change in one step from one policy's to another's or not at
\* all, unless a rollback cannot be done (IptablesController.sync).
KeepsContract == Contract!Spec

\* Once the policy settles and the commands stop failing, the backend in use
\* ends up enforcing it for good: in every family whose rollbacks worked, or
\* unless the policy has come back to one whose signature is stale (main.js
\* calls sync() again in the next cycle, whatever the last one ended in).
EventuallyInForce ==
    /\ backend = "iptables" => EventuallyEnforced
    /\ backend = "nftables" => Nft!EventuallyEnforced

\* The nftables backend's own safety, as NftSync states it: a call that ended
\* well enforces its policy to the rule (NftablesController.sync).
NftOkMeansEnforced == Nft!TypeOK /\ Nft!OkMeansEnforced

\* The nftables backend's rollback never loses a rule of the remembered policy
\* (NftablesController.restoreRuleset).
NftRollbackKeepsRules == Nft!RollbackKeepsRules

----------------------------------------------------------------------------
\* What the documentation says and the code does not do, see NftSync.
NftNothingLingers == Nft!NothingLingers
NftSkipIsSafe == Nft!SkipIsSafe
=============================================================================
