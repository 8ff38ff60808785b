# GuardTime: TLA+ models, model checking and proofs

GuardTime enforces parental-control policies on a home network. A cloud backend
holds the policy of every child device; a *gateway agent* on the home router
polls it and enforces it with netfilter, conntrack, `tc` and router APIs; an
*ISP adapter* enforces the same policies at an ISP's BNG; parents use a Flutter
app or a web client. This directory holds TLA+ specifications of the parts of
that system whose correctness depends on order, failure, restart and stale
state, their TLC configurations, and TLAPS proofs.

## 1. Inventory

Paths are relative to the repository root, written `src/...` in PROJECT.json.
`backend/` and `dns-service/` are empty submodules: they are modelled only as
the code here uses them, and marked external.

### Gateway agent (`gateway-agent/src`)

| Part | State it keeps | Operations | What is hard |
|---|---|---|---|
| Main loop (`main.js`) | `stopping` | one cycle: refresh guard, discover, report, get policies, rotate token, filter, kill, firewall, QoS, detectors, router commands, heartbeat | an exception in one stage silently cancels the later ones, after the earlier ones have already remembered what they did |
| iptables backend (`iptables-controller.js`) | `_lastSyncSignatures` per family; the kernel's two rulesets | `sync`: signature check, snapshot, flush, refill, roll back | a command, the snapshot or the rollback fails; the agent dies half-way; a signature outlives the rules it described |
| nftables backend (`nftables-controller.js`) | `_lastSyncSignature`; one `inet` table, a v4 and a v6 NAT table | the same, with the v6 redirect outside the rollback | `nft -f` of a listing adds to the tables it finds |
| Connection killer (`connection-killer.js`, `conntrack-controller.js`, `tcp-rst-controller.js`) | `previousStates` per device | kill on the transition into BLOCK, retry, remember | runs before the rules are installed and never again for the same transition |
| Management guard (`management-guard.js`) | static and last detected own address | `refresh`, `filterTargets` | detection fails, the address moves |
| Discovery (`device-discovery.js`, `fingerprint.js`, `os-hint.js`, `dhcp-leases.js`, `oui-vendors.js`) | none | neighbour table or ARP, merge by MAC, resolve a policy to addresses | entries outlive what they say; a stored address now belongs to another device |
| QoS (`qos-controller.js`, `mark-allocator.js`, `dns-resolve-cache.js`) | tc classes and filters, the resolve cache | clear, throttle, per-direction limits, per-interface rollback | class identifiers are hashes; a rollback deletes the interface's whole tree |
| Token rotation (`token-rotation.js`, `config.js`) | token in memory and in `.env` | adopt a rotated token, persist it | memory and file disagree; the grace period ends |
| Backend client (`backend-client.js`, `retry.js`) | token | signed request, timeout, one retry | a POST whose answer is lost is sent again |
| Router command executor (`router-command-executor.js`) | chosen plugin, `lastDetectionAt` | detect, execute, acknowledge | a command done and not acknowledged; strategies that leave partial blocks |
| Router plugins (`router-integrations/*`) | none; the router keeps the configuration | eleven required methods of eleven vendors: read, change, verify, roll back | no answer does not mean no effect; lists read and written back whole; rules found by a name, an address or a hashed index; an address frozen when the command was queued; a removal that takes one of several rules |
| Detectors (`vpn-detector.js`, `doh-detector.js`, `tls-fingerprint-detector.js`, `dns-sniff-controller.js`) | the last moments each destination of a device was seen | match listings against signatures, combine confidences, look for a metronome, report | a connection that stays open is seen in every cycle; reports are lost; thresholds |
| Router discovery (`router-discovery.js`) | none | SSDP, HTTP, mDNS and OUI, in this order | neighbours answer too; its time is set before it is made |
| Health (`heartbeat.js`, `healthcheck.js`, `metrics.js`) | heartbeat file, counters | write, judge | a file whose age is compared with a threshold |

### ISP adapter (`isp-adapter/src`)

In-memory tenants, subscribers, sessions, leases, policies and BNG rules.
RADIUS accounting and DHCP events change where a subscriber's traffic comes
from; the policy engine writes rules to the BNG of the moment. Hard: sessions
move between BNGs and addresses while a rule for the old place stays, and each
report of that is a request of its own, which may be late, lost or out of order.

### Parent app (`parent_app/lib`) and web client (`web port client (parent-app)`)

Both keep an access and a refresh token, add them to requests and refresh on
401. State: stored tokens, session in memory, requests in flight; the web client
also a cache of lists and, apart from the tokens, a persisted `isAuthenticated`.
Hard: several requests meet a 401 at once, logout and login race a refresh in
flight, the app's retry of a request runs inside the interceptor that queues
errors, the web client has no queue, changes race fetches of the list they
change, and one change is followed by no fetch at all. What the screens draw is
presentation only.

### Operations (`deploy`, `k8s`, `nginx`, `simulation`)

Shell scripts for backup, update, rollback and restore, manifests, and a test
harness with fake backends.

### How the parts interact

The agent pulls: every cycle reads the backend's policy once, and nothing
pushes. The stages of a cycle run in sequence in one process and share no state
but the kernel's; each remembers on its own what it last did. The kernel's
state (rulesets, conntrack entries, tc trees) and `.env` survive the agent; all
it remembers does not. The ISP adapter and the backend talk by HTTP requests.

## 2. Plan

| Order | Module | Component | Questions | Status |
|---|---|---|---|---|
| 1 | `FirewallSync` | iptables backend | is a skipped pass always right; what does a normal return guarantee; recovery | modelled, checked, safety proved |
| 2 | `AgentCycle` | main loop, connection killer, management guard, QoS order | are connections made before a block gone when it stands; does a failing stage starve the later ones | modelled, checked, safety proved |
| 3 | `TokenRotation` | token rotation, backend grace period, `.env` | can the agent lock itself out | modelled, checked, safety proved |
| 4 | `RouterCommands` | executor, command queue, acknowledgements | at-least-once execution, strategy fallback, residue of a block | modelled, checked, safety proved |
| 5 | `IspPolicy` | ISP adapter | is a blocked subscriber blocked where it is, and nobody where it was | modelled, checked, safety proved |
| 6 | `AppSession` | parent app's authentication | refresh stampede, logout racing refresh, interceptor deadlock | modelled, checked, safety proved |
| 7 | `QosShaping` | QoS controller | a device over its limit after a partial failure | modelled, checked, safety proved |
| 8 | `NftSync` | nftables backend | additive restore, v6 redirect outside the rollback | modelled, checked, safety proved |
| 9 | `FirewallController`, `FirewallContract` | either backend behind one interface | does the detailed backend implement the atomic one the main loop takes it for | modelled, refinement checked and proved |
| 10 | `RouterPlugin`, `RulePlugins`, `SlotPlugins`, `ClientPlugins`, `RouterIntegrations` | plugins | what a reported success is worth, one request at a time | modelled, checked, safety proved |
| 11 | `VpnDetector`, `DohDetector`, `RouterDiscovery`, `Detection` | detectors, discovery | what may be claimed from which listings; lost reports | modelled, checked, the discovery proved |
| 12 | `WebClient` | web client | one refresh token spent by several 401s at once; lists that lag behind changes | modelled, checked, safety proved |
| 13 | pure operators | CIDR, fingerprints, stable identifiers | against reference definitions | to do |

`FirewallSync`, `NftSync` and the operators they share, `FirewallPolicy`,
compose into `FirewallController`; the five plugin modules into
`RouterIntegrations`; the detectors and the discovery into `Detection`, one
EXTENDing the next. `AgentCycle` sees the firewall as `FirewallContract` states
it, and `RouterCommands` takes of a router's rules only their number.

Still to state: a command executed at least once and acknowledged truthfully,
as the abstract specification of `RouterCommands`.

Every safety property a run checks is a theorem but two of `Detection`'s;
section 6 says why those two are not.

## 3. Modules and code

In every module `Faults` (`TokenFaults`) is the set of kinds of failure in scope, so that one
specification serves runs with and without them; `\* Mutant of X` marks a
definition that no specification uses: X with a plausible bug, kept so that a
check can be made to fail. `PROJECT.json` maps every definition to its lines.

### FirewallPolicy (`firewall-sync-signature.js`)

What both backends share: targets, configurations, the items chains are made
of, the signature of a policy, and the state of the environment (`config`,
`desired`).

### FirewallSync (`gateway-agent/src/iptables-controller.js`)

| State | Code |
|---|---|
| `config` | the configuration read at start |
| `desired`, `targets` | what the policy resolves to now; what the running `sync()` was given |
| `kernel[f]` | the GuardTime chains of the IPv4 and IPv6 rulesets |
| `sigs[f]` | `_lastSyncSignatures` |
| `at`, `fam`, `chain`, `todo`, `snapshot` | where `syncFamily` is, and its local variables |
| `outcome`, `failed`, `tainted` | how `sync()` ended; history variables for the passes that threw and the rollbacks that failed |

Each `iptables`, `iptables-save` and `iptables-restore` command is a step:
`Sync`, `Skip` (equal signature), `snapshotRuleset`, `ensureFilterChain`,
`flushFilterChain`, one append per rule, the DoH and DNS chains, the remembering
of the signature. `CommandFails` goes to the rollback; `Crash` ends the process
with the kernel as it is; `Reboot` empties the kernel too. A chain is the *set*
of its rules: all rules of one chain have the same verdict, so order and
multiplicity decide nothing.

### NftSync (`nftables-controller.js`)

The same for the nftables backend, one `nft` command a step: the snapshot, the
table and chain, the flush, one rule at a time, the v4 redirect, then, outside
the `try`, the v6 redirect. `nft -f` of the snapshot is a *union* with the
tables there are. `behind` marks a remembered signature that no longer is the
ruleset's (the v6 redirect failed after everything else was replaced), `lost` a
rollback that failed.

### FirewallController and FirewallContract (`firewall-controller.js`)

`createFirewallController` chooses a backend when the process starts; the
variables of the nftables backend are renamed by `INSTANCE ... WITH`, `config`
and `desired` shared. `FirewallContract` is what the main loop takes `sync()`
for: a call replaces a family's rules in one step by its policy's, or refuses
and leaves them, and throws when the main family was refused.
`KeepsContract == Contract!Spec` is the refinement of the iptables backend:
while a pass can still be undone, its family counts as what the snapshot has;
a family whose rollback failed counts as `broken`, which the contract allows
to hold anything. The nftables backend does not refine it (section 7), so its
own promises are stated instead.

### AgentCycle (`main.js`, `connection-killer.js`, `management-guard.js`, `device-discovery.js`)

The stages of `syncOnce` are actions in the code's order: `Refresh`, `Discover`
(with the report to the backend), `GetPolicies` (resolve and filter), `Kill` and,
after its awaits, `Remember`, `Firewall`, `Qos`, `Finish`; `Throw` is the exception that ends a cycle at the
stage that can raise one, and `Restart` forgets what the process remembers.
Between any two stages devices `Move`, the gateway's uplink is readdressed
(`Readdress`), devices `Connect`, and the backend changes an action
(`SetAction`). `neigh` is the neighbour table: the device last heard at each
address, entries of devices that left included; `mergeByMac` takes any one entry
of a device, as the code takes the first. `macs` are the devices whose policy
has a MAC address: the others are enforced at the address the backend has
(`Record`), with rules by address only. `flows` are the conntrack entries;
`early` marks one opened before its device's connections were deleted in this
cycle or remembered as deleted in an earlier one. The firewall is abstract here:
it installs exactly its targets' rules or leaves the old ones, which is what
`FirewallContract` allows of the filter chain while no rollback fails.

### TokenRotation (`token-rotation.js`, `config.js`, `backend-client.js`)

`memory` and `file` are the agent's two copies, `stage` is the point
`applyRotatedToken` and `persistRotatedToken` have reached: switched in memory,
`.env` truncated, `.env` written. The backend (external) keeps the current and
the previous token. The one assumption about it is that the grace period
outlasts one cycle of an agent that runs and hears an answer: `GraceEnds` and a
further `Rotate` wait for that. The names of `TokenRotation` and `Detection`
differ from `AgentCycle`'s, so that one module of proofs can take the three.

### RouterCommands (`router-command-executor.js`, `router-integrations/`)

`Fetch` takes every pending command, and `Skip`, `Try`, `CheckConnectivity`,
`RollBack` run the strategies of one after another; `Ack` and the fallback of
the `catch` report it. A router is the *number* of rules it has for each device
in each slot, because the OpenWrt and MikroTik plugins add without looking for
a rule and remove one at a time. A call is refused, or takes effect and loses
its answer. Tables such as `STRATEGY_INVERSE_METHOD` are the source's.

### RouterPlugin, RulePlugins, SlotPlugins, ClientPlugins, RouterIntegrations (`router-integrations/`)

A method of a plugin is a sequence of requests, `call.pc` the next of them.
`RouterPlugin` has what plugins share: `loadPlugin`, which methods a vendor
does not have (`Unsupported`, the guide and Nebula whole), and the three kinds of
request - `Send` (a failure ends the method), `Attempt` (a failure is ignored)
and `Read` - each of which may be refused, take effect without an answer, be
acknowledged and not carried out, or be unreadable. A request is given what
becomes of the call when it is answered, as a value: the next step (`Goto`,
`Remember`) or the end (`Return`, `Throws`). `RulePlugins` are OpenWrt
(with GL.iNet) and MikroTik: named rules, found by name, first match first;
OpenWrt's configuration (`router.rules`) and firewall (`router.running`) differ
until a reload. `SlotPlugins` are EdgeRouter and DrayTek: one rule at the index
`SlotOf` a device hashes to, over the fields that were there or whole.
`ClientPlugins` are UniFi, Omada, Keenetic, FRITZ!Box and Linksys: clients
barred, paused or thrown off, or a deny list read and written back whole.
The lists of MikroTik, EdgeRouter and DrayTek may come as a 200 answer that is no
list: the code takes it for an empty one, so `Read` is given both outcomes.
`RouterIntegrations` composes them: the executor calls a method for a device and
an address that was true when the command was queued (`Addresses`; FRITZ!Box
bars whoever has it, `Host`), the result goes back (`Report`), the agent restarts;
meanwhile somebody uses the router's own pages (`HandBlock`), devices swap
addresses (`Move`) and come and go (`Roam`). `held` and `owed` are history
variables: who was blocked with success since last freed, and which orders to
block were not answered by a removal that reported success.

A dry run is a value of `dryRun`; names are pairs of a kind and a device; a MAC
address is the device. Login handshakes are one step where they can fail on
their own, else part of the first request.

### VpnDetector, DohDetector, RouterDiscovery, Detection

`VpnDetector` and `DohDetector` are operators: from the flows, queries and
handshakes listed of one device to the rows reported. Weights are the
source's; tables of names and ranges are cut to one destination of each kind.
`computeConfidence` is exact: weights are multiples of five, so the noisy-OR is
a quotient over a power of 20, rounded. A history is the time since the last
observation followed by the intervals before it, capped at `Horizon`, beyond
which no window can be regular; the coefficient of variation is compared
squared, in whole numbers.

`RouterDiscovery` has the four probes as steps on `disc`, each of which asks
the box that is at the gateway's address then (`holder`; `held` collects all
that were during the discovery). `Detection` is the part of `syncOnce` that
looks and reports: `Poll` begins a cycle and lets time pass, `DetectForTarget`
looks at one device, `Delivered` and `Lost` end a stage,
`MaybeRunDetection` to `RouterLost` are the discovery. The rest of the cycle is
in `AgentCycle`.

### WebClient (`web port client (parent-app)`)

`calls[r]` is a request from the page's call to its end: `Send` is the request
interceptor, `Serve` the server, `Handle` the response interceptor up to its
await, `ServeRefresh` and `HandleRefresh` the rest; a second try starts again
at `Send`. `shown` is react-query's cache, `lists` what the server has,
`modal` the pairing dialog. `Stop` is the button of the home page, which changes the list
`Sessions` and refetches nothing; `stopped` remembers that until a fetch begins.
`Refetch` is `refetch()` of react-query 5: it gives
up a fetch under way, unless there is nothing to show yet, when it joins it. A
list is the set of entries of which the thing toggled holds, and adding is one
of the changes. A refresh token is a number, reused when nobody holds it; an
access token is there or not, and may run out at any use. `isAuthenticated` is
the persisted store, which only `Login` and `Logout` write: `Redirect` is the
effects of the pages. `spoiled` records what no call can make up for, so that
the properties can say when they hold.

### QosShaping (`qos-controller.js`, `mark-allocator.js`)

A `sync()` is three loops (`stage`), over the interfaces, the throttle filters
and the limits; `todo` is what is left to the loop, `now` the element it is at
and `matches` the filters of that limit still to be added. The commands are
`EnsureQdisc` and `ClearFilters` (whose failure is ignored), `AddFilter` (whose
failure is `Throw`, as that of `EnsureQdisc`), `EnsureClass` and `AddMatch`
(whose failure is `LimitFails`: the interface's tree is deleted and the loop
goes on with the next interface or limit). A loop takes its elements in any
order, of which the order of the code's arrays is one. Rates are not numbers; a
class is *which limit's* rate it has, and `EnsureClass` replaces the rate of a
class whose identifier another limit hashes to.

### IspPolicy (`isp-adapter/src`)

Subscribers `Connect`, move and `Disconnect`; what RADIUS has to say of it waits
in `reports`, from where it comes in any order, again or never (`upsertSession`,
`stopSession`, `LoseReport`). DHCP is `UpsertLease`, and `Apply`, with the
address and the BNG a request may carry, is `PolicyEngine.apply` with
`BngController.applyPolicy` and what the vendor commands do to the network
(`routes`, `profile`). Handlers run to their end, as in Node. The ghost `stray` has
the places at which a request was enforced that was wrong of its own subscriber:
the table was behind, or the request's address was not the subscriber's.

### AppSession (`parent_app/lib`: `auth_repository.dart`, `auth_controller.dart`, `api_client.dart`)

Every `await` separates two steps. `errors` is the queue of Dio's
`QueuedInterceptorsWrapper`, `job` the one `onError` running, `Handle` to `Drop` its
steps; `Send`, `Resend`, `Succeed`, `Fail` are a call's; `Login`, `Logout`,
`Restore` and `Kill` the user's and the system's, at any time. The storage may
throw in the handler, which then never ends (`stuck`). A session is the number of
its token pair. The ghosts `crossed` and `meddled` say that a refresh was under
way during the last logout, and that the user acted during a call.

## 4. Runs

Each takes at most two and a half minutes on two cores. "States" are distinct
states.

| Run | States | Checks | Shows |
|---|---|---|---|
| `firewall` | 139,000 | `TypeOK`, `SignatureTruthful`, `OkMeansEnforced`, `NftOkMeansEnforced`, `NftRollbackKeepsRules`, `KeepsContract`, `EventuallyInForce` | either backend with failing commands, snapshots and rollbacks, crashes and reboots: a pass is only skipped over the right ruleset, a normal return means an enforced policy, the iptables backend implements the contract, and once failures stop the policy is in force |
| `cycle_safety` | 2,780,000 | `NoEarlyFlowSurvives`, `GatewayNeverDropped`, `NoCollateralOfSeen` | devices that take over each other's address while discovery misses them or finds them where they were, detection fails, stages throw and the agent restarts |
| `cycle_live` | 310,000 | `TypeOK`, `Settles` | whatever threw before and throws now and then, the loop comes to drop blocked and shape throttled devices |
| `token` | 394 | `TokenTypeOK`, `NoLockOut`, `Adopts` | lost answers and crashes at every point never lock the agent out |
| `commands` | 166,000 | `BlockHolds`, `FailedSessionRestores`, `NoFalseSuccess`, `EveryCommandAnswered` | any two failures among any three commands |
| `plugin` | 1,230,000 | `TypeOK`, `BlockInForce`, `UnblockLifts`, `DnsHonest` | ten routers, up to three methods and two disturbances, four events in all |
| `qos` | 685,000 | `OkMeansShaped`, `NoHalfLimit`, `OwnRate` | every failure of every `tc` command, with limits whose class identifiers collide |
| `isp` | 1,290,000 | `LeaseIsFiled`, `StateIsPolicy`, `AppliedIsInForce` | moves between addresses and BNGs, reports that are late, lost, repeated or out of order, requests with an address or BNG of their own, restarts |
| `session` | 824,000 | `KeepsSession`, `StorageFollows`, `LogoutIsFinal`, `EveryRequestEnds` | two calls with an expired token, in every order, a user who logs in and out at any time, lost answers, a storage that throws, restarts |
| `session_hang` | - | `EveryRequestEnds`, violated | the finding of section 7 |
| `web` | 427,000 | `KeepsSession`, `ShownIsServer`, `EveryCallEnds` | two calls at a time whose access token may run out at any use, changes that race fetches, stops that fetch nothing, lost answers, logouts and returns |
| `detect` | 75,000 | `MetronomeOnly`, `Corroborated`, `NamesTheRouter`, `ReportedAtLast` | connections that come and go, slow cycles, failed listings, lost reports, restarts, neighbours that answer, a router that is replaced |

### Bounds and why they are enough

- `firewall`: one tablet and two policies that share nothing but the DNS
  chains: blocked without its IPv6 address, and allowed but for QUIC with it.
  Every command that fails between them leaves rules of both, which is what the
  properties tell apart. One dual-stack configuration with the DNS redirect:
  a change of configuration needs a restart, after which both backends remember
  nothing. Every failure, any number of times.
- `cycle_safety`: two devices and two addresses for three parties (the gateway
  has one), so that addresses are always contended; `MaxMoves = 3` lets a
  device take the address another had, or the gateway's, while the neighbour
  table still has the old one. Addresses are symmetric: nothing compares them but
  for equality. Both devices, one or none have a MAC address in the policy. With
  `MaxMoves = 4` and the failures but `discovery` the properties hold too
  (6,904,062 states, more than the time of a run here). `cycle_live` has one device and
  every failure; its property speaks of each device by itself.
- `token`: `MaxRotations = 6`. The agent holds at most the last two tokens,
  so a chain of three rotations shows every relation; the rest is slack.
- `commands`: three commands are the shortest block, block, unblock; two
  failures (`MaxFaults`) are a lost answer and a lost acknowledgement of one
  command. The strategy lists have one method with an inverse in each slot, one
  without and a name no table knows.
- `plugin`: three methods are the shortest block, block, unblock; a block, a move
  and a removal with the old address are the least that frees another device, and
  two disturbances (`MaxFaults`) the least that hide a DNS server twice. Four events
  (`MaxEvents`) bound calls and disturbances together. `Scope` takes methods a
  plugin implements by another once. Rule indices differ (`SlotOf`) here; with
  `SlotOf <- const_OneSlot` the properties hold as well.
- `qos`: two devices, two interfaces; three limits, one with two matches, so that a
  limit fails before, between and after its filters, and two with one class
  identifier, so that each order of them occurs.
- `isp`: two subscribers, two addresses and two BNGs are the least that lets an
  address change hands and a subscriber leave a BNG; `MaxMoves = 2` connections
  leave up to four reports to come in any order, and `MaxRequests = 2` leases and policies
  are the least that undo each other.
- `session`: two calls are the least that meet an expired token together, and one
  that waits while the other is refreshed is met by a logout;
  `MaxPairs = 2` bounds logins, not refreshes: a call is refreshed at most once
  for each attempt.
- `web`: two calls are the least that spend one refresh token; three things the
  user does are the least that show a list, change it and look at it again, and
  one answer is lost. Logins are not counted: each but the first takes a logout.
- `detect`: one device, since devices share nothing; a window of four
  observations at a usual gap of 3 within 2..6, and slow cycles of 4 (regular
  enough) and 8 (not), so that three disturbances move a window across every
  threshold. Reports may be lost any number of times.
- CHECK_DEADLOCK is off for `session`, `web` and `plugin`: a user may simply
  stop, and the calls of a plugin are bounded.

### Fairness and why the code justifies it

| Specification | Assumed | Because |
|---|---|---|
| `ControllerSpec` | WF of the pass of the backend in use | the loop calls `sync()` every poll interval (3 s) and every child process is killed after 5 s |
| `AgentCycle!FairSpec` | WF of the stages; SF of `GetPolicies`, `Firewall` and a `Qos` that shapes | as above; a stage that throws again and again but not for ever succeeds infinitely often. Without SF a firewall that never works would refute anything |
| `TokenRotation!TokenFairSpec` | WF of poll, file operations and start | `Restart=always`, and file system calls return |
| `RouterCommands!FairSpec` | WF of the executor | every call has a timeout; failures are bounded by `MaxFaults` |
| `Detection!DetectionSpec` | WF of the cycle; SF of a report that is delivered | the loop runs on, and a backend that answers now and then answers one of infinitely many reports; without SF a backend that never answers would refute anything |
| `WebClient!Spec` | WF of each call and of leaving the page | the browser and the server answer or fail, and the browser carries out its navigation |
| `AppSession!FairSpec` | WF of the handler, of the restore, of each call once made | requests time out after 15 s, storage answers, a delay ends |

No fairness is assumed of the environment: devices need not move, users need
not act, tokens need not rotate.

## 5. Properties

A reader who wants only the guarantees:

- **The iptables backend.** `SignatureTruthful`: whatever policy has the
  remembered signature, the ruleset enforces exactly it. `OkMeansEnforced`: a
  `sync()` that returned enforces its policy, both families told apart.
  Both except where a rollback failed (`tainted`). `KeepsContract`: the rest of
  the agent may take `sync()` for atomic.
- **The nftables backend.** `NftOkMeansEnforced`, with the v6 redirect's
  failure named; `NftRollbackKeepsRules`: a rollback loses no rule in force
  before. `EventuallyInForce`, of both backends: once commands stop failing and
  the policy stays, it is in force in every family whose rollbacks worked and whose
  remembered signature no failed v6 redirect has left behind.
- **The cycle.** `NoEarlyFlowSurvives`: of the connections there were when the
  killer deleted a device's, none is left at the end of a good cycle. It says
  nothing of one opened between that and the rules, which stays (section 7).
  `GatewayNeverDropped`: a cycle that detected the gateway's IPv4 address, and
  in which it does not move, drops nothing at it; not so for IPv6.
  `NoCollateralOfSeen`: an allowed device that discovery found where it is now is only
  dropped through the stored address of one that was not seen or has no MAC
  address. A device found at an address it has left is not covered. `Settles`: no
  exception starves the enforcement for ever.
- **The token.** `NoLockOut`: after a crash at any point the agent, or one
  started now, holds a token the backend accepts, unless a write of `.env`
  failed or was cut short. `Adopts`: both copies end up on the last token.
- **Router commands.** `BlockHolds`, `FailedSessionRestores`,
  `NoFalseSuccess`, `EveryCommandAnswered`.
- **Router plugins.** `BlockInForce`: a device blocked with success, or by
  hand, stays blocked until a command for it removes a block, whatever
  disturbance but the kinds its plugin cannot see (`BlockSpoilers`), and but for
  EdgeRouter and DrayTek devices whose rule index is another's too.
  `UnblockLifts`: once every order to block has been answered by a removal that
  reported success, the device is free, whatever disturbance but `LiftSpoilers`;
  orders that failed or were cut short count, shared indices are covered. A change
  of address is a spoiler for every plugin that goes by the address of the payload,
  and an unreadable answer for those that take it for an empty list. `DnsHonest`:
  success only with the new server in place; a change that did not verify is put
  back by the plugins that read the server before, unless that reading or the
  writing back failed - their message says that it was, then too.
  The two tables of spoilers are results: each entry was put there because TLC
  breaks the property without it.
- **Detection.** `MetronomeOnly`: no gap, outage or bundle of connections
  passes for a regular interval. `Corroborated`: confidences combine
  upwards, to 100 at most (which the comment excludes, section 7).
  `NamesTheRouter`: whatever neighbours answer, the vendor is one the box at the gateway's address gave. `ReportedAtLast`: lost reports
  and a replaced router are made up for.
- **The web client.** `KeepsSession`: who is logged in has a refresh token the
  server accepts, unless two refreshes overlap, the answer to one is lost, or the user
  logs out during a call. `ShownIsServer`: with no call under way and none
  failed, the lists are the server's, unless a change was made before its list was
  there, or the home page stopped a session and its list was not fetched since.
  `EveryCallEnds`.
- **Traffic shaping.** `OkMeansShaped`: a `sync()` that returned gave each interface
  exactly the policy's filters, where no limit failed and no clearing was ignored.
  `NoHalfLimit`: where a limit failed no tree is left, the throttled devices' filters
  included (section 7). `OwnRate`: each limit's class has a rate of this policy, its own
  or that of a limit with the same class identifier, never one of an earlier policy.
- **The ISP adapter.** `AppliedIsInForce`: a block or an allow enforced where its
  subscriber is connected stays in force through whatever is applied to others,
  unless a request was enforced at that place that was wrong of its own
  subscriber: a session that is out of date, or an address of the request that is
  another's. `LeaseIsFiled`: the subscriber a MAC address resolves to has its lease;
  `StateIsPolicy`: so for the BNG a policy was resolved to. The entry that a
  former subscriber, or an earlier BNG, keeps is not looked at.
- **The app's session.** `KeepsSession`: any number of calls that meet an
  expired token spend one refresh token each once. `StorageFollows`: between calls
  memory and storage agree. Both as long as the user acts between calls.
  `LogoutIsFinal`: a logout at any time, calls in flight or queued, is final,
  unless a refresh is under way during it (section 7). `EveryRequestEnds` as long as
  no retry fails and the storage does not throw in the handler.

## 6. Proofs

The theorems hold for every value of the constants their assumptions allow:
any numbers of devices, addresses, policies, rotations and subscribers, and any
set of failures. The layout is the same in each module: parts of the inductive
invariant, lemmas on the operators, `Init`, `Next` with one step for each
action, the theorems.

| Theorem | States | Inductive invariant and why it is needed | Assumes |
|---|---|---|---|
| `FirewallControllerProofs!TypeCorrect` | `TypeOK` | itself | the ASSUMEs of the module |
| `FirewallControllerProofs!SkippingIsSound`, `NormalReturnEnforces` | `SignatureTruthful`, `OkMeansEnforced` | `Progress` says how far a rebuild has got, so that the signature remembered at its end is true; `SnapshotTruthful` carries the old signature's truth across a rebuild that rolls back; `V4BeforeV6` keeps the IPv4 half of a call true while IPv6 is worked on. The key lemma, `SignatureDetermines`, is that policies with equal signatures ask for equal chains | the same |
| `FirewallControllerProofs!BackendKeepsContract` | `KeepsContract` | `IInv` of the theorems above, with `Mixed`: what is in force during a pass that can be undone comes from the snapshot or the policy, which is what a rollback that fails then leaves; and `Dormant` for an agent that runs the other backend. One lemma for each kind of step gives the contract's step it is, the stutter included (`SyncCalls`, `RebuildHidden`, `CommitInstalls`, `RestoreRefuses` ...) | the same |
| `FirewallControllerProofs!NftCallsEnforce`, `NftRollbacksKeep` | `NftOkMeansEnforced`, `NftRollbackKeepsRules` | `NftInv`: `NftProgress` says what the kernel has at each point of a pass, `NftTruthful` that the remembered signature stands for the rules there are, `NftBehindIsOther` what is left of that once an IPv6 redirect has failed, and `NftSnapshotKeeps` carries the remembered policy's rules through a rollback that adds to what it finds. An agent that runs the other backend stays in `Nft!Init` | the same |
| `AgentCycleProofs!CycleTypeCorrect` | `TypeOK` | the first lines of `IInv` | the same |
| `AgentCycleProofs!GatewaySpared` | `GatewayNeverDropped` | `GuardCurrent` ties the guard's address to the gateway's while nothing moves, `TargetsFiltered` and `RulesSpareGateway` hand it on from stage to stage | no IPv6 address of a device is an IPv4 one |
| `AgentCycleProofs!EarlyFlowsKilled` | `NoEarlyFlowSurvives` | `RememberedIsClean`: a device the killer believes blocked has no early connection at the address it remembers; `KilledIsClean` says the same between the delete and the memory of it; `KillerRemembers` relates that memory to the targets | conntrack deletes what it is told to (`"kill" \notin Faults`) |
| `AgentCycleProofs!AllowedSpared` | `NoCollateralOfSeen` | `WhoIsHit`: the neighbour table has one device at an address, so no two are seen at one, however old its entries are; a target seen under its MAC is where it was seen; every rule is a blocked target's | the ASSUMEs of the module |
| `RouterCommandsProofs!CommandsTypeCorrect` | `TypeOK` | `Typed`: `TypeOK` and the types of the sequences and counters it leaves open | the ASSUME of the module |
| `RouterCommandsProofs!BlocksHold` | `BlockHolds` | `BlockDone`: a block about to be reported has a rule somewhere; `LastBlocks` keeps it until the next command of the device; `SessionPhases` keeps the phases of a gaming session out of a block | the lists of BLOCK_DEVICE hold strategies that add a rule (`BlocksAreListed`) |
| `RouterCommandsProofs!FailedSessionsRestore` | `FailedSessionRestores` | `SessionBalanced`: a session's device has the rules it started with and, between a call and its rollback, the one rule of that call besides, which the inverse takes away | the ASSUME of the module |
| `RouterCommandsProofs!SuccessesAreTrue` | `NoFalseSuccess` | none: an action property of single steps, by `Typed` | the ASSUME of the module |
| `AgentCycleProofs!TokenTypeCorrect` | `TokenTypeOK` | itself | the ASSUME of `TokenRotation` |
| `AgentCycleProofs!NeverLockedOut` | `NoLockOut` | `GraceSpansSwitch`: the backend accepts the file's token until the file has the new one; `FileFollows` says where the file is at each stage | the token is not in the process environment (`~Pinned`), and the grace period of section 3 |
| `AgentCycleProofs!RouterIsNamed` | `NamesTheRouter` | `AskedTheRouter`: whoever is at the gateway's address while a discovery runs has been noted, and what is known so far, the hardware address's vendor included, came from a box that was there | nothing |
| `RouterIntegrationsProofs!PluginTypeCorrect` | `TypeOK` | with `CallShape`: which checks a method has passed when it makes a request | the ASSUME of `RouterPlugin` |
| `RouterIntegrationsProofs!BlocksStayInForce` | `BlockInForce` | `InForce` with `Shape`, see below | the ASSUME of `RouterPlugin`; devices that share a rule index are exempt in the property |
| `RouterIntegrationsProofs!RemovalsLift` | `UnblockLifts` | `Accounted` with `Shape`, see below; shared rule indices included | the ASSUME of `RouterPlugin` |
| `RouterIntegrationsProofs!DnsIsHonest` | `DnsHonest` | itself, with the types of the call and `DnsSeen`: a restoring plugin that writes has read before, or an answer was unreadable | the ASSUME of `RouterPlugin` |
| `IspPolicyProofs!LeasesFiled`, `StatesFollowPolicies` | `LeaseIsFiled`, `StateIsPolicy` | `Tables`: every table is a function on its keys and a lease has the MAC it is filed under | |
| `IspPolicyProofs!PoliciesInForce` | `AppliedIsInForce` | `AddressesUnique` and `InForce`: a request that resolves to another's connection is mistaken about its own subscriber, so it marks the place `stray` or leaves the other's route | assigned and leased addresses are disjoint |
| `QosShapingProofs!TypeCorrect`, `ReturnMeansShaped`, `NoLimitIsHalf` | `TypeOK`, `OkMeansShaped`, `NoHalfLimit` | one part for each loop: `Prepared` (what it is done with is bare), `Throttles` and `Limits` (what is wanted is there or still to do, and nothing else is there), `Standing` (the trees a loop works on are there) and `Unlimited` (a failed limit has taken the tree, and no later one brings it back) | the ASSUME of the module |
| `QosShapingProofs!LimitsHaveOwnRate` | `OwnRate` | the same with `Rates`: what the third loop is done with has a class of this policy under its identifier, which later limits only replace by theirs | the same |
| `AppSessionProofs!TypeCorrect` | `TypeOK` | itself, in six parts of the state | the ASSUME of the module |
| `AppSessionProofs!NeverSignedOut`, `CopiesAgree`, `LogoutStays` | `KeepsSession`, `StorageFollows`, `LogoutIsFinal` | `Copies` says how memory and storage relate at each step of the handler and of the user; `Holding`, that the newest pair the app has is one the backend still refreshes; `Retries`, that a retry belongs to the handler that waits for it; `Alone`, that a user who has not meddled acts between calls; and, for a logout at any time, `Gone`: what is left in memory, in storage and in the handler when no refresh was under way | the ASSUME of the module |
| `WebClientProofs!TypeCorrect` | `TypeOK` | itself, with `NewTokenFresh`: by counting, there is always a refresh token that neither the storage nor a call holds | the ASSUME of the module |
| `WebClientProofs!LoggedInStays` | `KeepsSession` | `Session`: while nothing has spoiled it, the one refresh under way has the stored token and the server accepts it or what it has answered; `OneRefresh` makes it one, `SignedOut` says that a login starts from no calls or from a logout that was noted | the same |
| `WebClientProofs!ListsCatchUp` | `ShownIsServer` | `Followed`: a list that differs from the server's has a change under way, which a fetch will follow, a fetch that was not served before the last change, or a stop that nothing has followed | the same |

The router plugins have the longest proof, one argument for eleven vendors:

- `Shape` says what a rule can look like by the way it came about (`GoodRule`:
  which plugin makes it, what it matches, and, while no device has moved, that
  the address in it is its owner's, or that of a device with the same index), that a call makes at most one rule and only
  after it logged in (`RuleIds`), which vendor has which kind of entry
  (`RouterShape`), and that between finding a rule and deleting it nothing else
  was deleted (`FoundStays`). Without it a removal could take another device's rule.
- `InForce` says that each held device is barred, paused or matched by a rule of
  its *own* that is configured and loaded, and not the one the call that runs
  may still take back (`HeldSecured`); that a success on its way to the executor
  is such a block already (`OkSecured`), which is where each plugin's
  verification is used; and how far a block has got when it comes to verify
  (`BlockProgress`). `BlockInForce` alone is not inductive: a device may be
  blocked by somebody else's rule, which goes.
- `Accounted` is the ledger: each rule and flag that blocks a device has an order
  that stands, each rule an order of its own (`BlocksOwed`); an order stands from
  before its first request (`OrderStands`); a list about to be written back has
  only devices with an order (`ListOwed`); what OpenWrt has configured is in
  force but for a reload that comes (`OpenWrtLoaded`); and what a removal that
  reports success leaves is covered by orders it does not answer
  (`RemovalSettled`).

Each spoiler of `BlockSpoilers` and `LiftSpoilers` is a hypothesis of these parts
(`Unspoiled`, `Undisturbed`), so the theorems hold for any number of
disturbances of the other kinds. A call is related to its requests by one lemma
for each kind of request and one for each step of a plugin.

Only model-checked:

- every liveness property: fairness and `ENABLED` are beyond the prover;
- `Corroborated`: `computeConfidence` is a product over a set of any size, and what
  it is for every set would be an induction over data;
- `MetronomeOnly`: the same for the sums over a history. Its lower bound also rests
  on the poll interval (3 s by default) being longer than `MIN_INTERVAL` (2 s),
  as in the instance: a mean above the bound does not keep each interval above it.

## 7. Where code and documentation disagree

One is a run of its own, `session_hang`: **a retry that fails hangs the app**.
`auth_repository.dart:87` retries with the Dio whose queued `onError` is
still running; the retry's error waits for that handler, which waits for the
retry. `api_client.dart:89-90` expects to see such an error.

The others have no run in `PROJECT.json`. Most have a configuration here:

| Configuration | Violated | Code | Says otherwise |
|---|---|---|---|
| `MCFirewallController_lingers` | `NftNothingLingers` | `nftables-controller.js:95`: after a rollback the new policy's rules stay beside the restored ones | its message, :92: "rolling back to prior ruleset" |
| `MCAgentCycle_gateway6` | `GatewayNeverDropped6` | `management-guard.js:64` compares IPv4 only | its comment, :9-11 |
| `MCAgentCycle_stored` | `MacAssignmentIsSafe` | `device-discovery.js:105`, `:25-44`: a device not seen, or seen through a stale entry, is enforced at an address that is perhaps another's by now | `gateway-agent/README.md:137` |
| `MCTokenRotation_pinned` | `RestartKeepsToken` | `config.js:20`: the environment wins over `.env` (`docker-compose.prod.yml:212`) | `token-rotation.js:8-10` |
| `MCAppSession_logout` | `LogoutAlwaysFinal` | `auth_repository.dart:84`: a refresh in flight signs the user in again after a logout | `auth_repository.dart:173`, `auth_controller.dart:208` |
| `MCDetection_alone` | `NeverAlone` | `vpn-detector.js:103-106`, `:169`: the flow heuristic is reported with nothing beside it | its comment, :22-23: "never surfaced as its own claim" |
| `MCWebClient_parallel` | `ParallelKeepsSession` | `api.ts:24`: two calls spend one refresh token; the refused one removes the tokens the other stored | `lib/store.ts:12`, where `isAuthenticated` is to mean a session |

The rest are shown by the configuration of the run with the property in place
of its own, and the constants given:

| From | Property, constants | Code | Says otherwise |
|---|---|---|---|
| `MCFirewallController.cfg` | `NftSkipIsSafe`; `Faults = {"command"}` | `nftables-controller.js:116`: a v6 redirect that fails leaves the signature of the policy before, and going back to that policy is skipped over the rules of another | its comment, :104-110 |
| `MCTokenRotation.cfg` | `PersistRetried`; `MaxRotations = 1`, `TokenFaults = {"persist"}` | `token-rotation.js:59`: the token is already in memory, so nothing is tried again | its message, :68 |
| `MCRouterCommands.cfg` | `UnblockHolds`; `Types = {"BLOCK_DEVICE", "UNBLOCK_DEVICE"}`, `StrategyLists <- OneList`, `Faults = {}` | `openwrt/index.js:245`, as MikroTik's: removes the first match, while :224 adds without looking; two blocks, one unblock: success, and still blocked | `router-command-executor.js:148-153`: "Each plugin method already self-verifies [...], so no separate verification step is needed here" |
| `MCRouterCommands.cfg` | `AckIsResult`; `Types = {"BLOCK_DEVICE"}`, `StrategyLists <- OneList`, `MaxCommands = 1`, `Faults = {"ack"}` | `router-command-executor.js:239`: a lost acknowledgement of a success becomes a failure | its comment, :50-51 |
| `MCAgentCycle_safety.cfg` | `BlockEndsConnections` | `main.js:70-72`: a connection opened after the kill and before the rules is not looked at again | `connection-killer.js:6`: "immediate connection termination when a device transitions into BLOCK" |
| `MCQosShaping.cfg` | `NoSharedRate` | `mark-allocator.js:16`: two hashes collide, the second rate wins | its comment, :6-7 |
| `MCQosShaping.cfg` | `ThrottledIsShaped` | `qos-controller.js:203`: a failed limit deletes the throttle filters of its interface too | `gateway-agent/README.md:123-126` |
| `MCQosShaping.cfg` | `AllowIsUnshaped` | `qos-controller.js:75`: filters that could not be cleared stay | `gateway-agent/README.md:118-121`, `:132-134` |
| `MCIspPolicy.cfg` | `ThrottleIsNotBlock`; `Faults = {}` | `bng-controller.js:61`: a THROTTLE after a BLOCK undoes nothing, while the state says `blackhole: false` | `isp-adapter/README.md:21-22` |
| `MCIspPolicy.cfg` | `OnlyBlockedBlackholed`; `Faults = {}` | `bng-controller.js:69`: the route stays when the address goes to another subscriber | `isp-adapter/README.md:120` |
| `MCRouterIntegrations.cfg` | `SuccessIsVerified` | the FRITZ!Box plugin never asks again (`fritzbox/index.js:250`), EdgeRouter's and DrayTek's look at the index alone | `plugin-interface.js:17` |
| `MCRouterIntegrations.cfg` | `RestoredAsSaid` | `openwrt/index.js:190-194`, `mikrotik/index.js:119-122`: the old server could not be read, or not be written back | the message sent then, "restored previous value" |
| `MCRouterIntegrations.cfg` | `BlockInForce` without `SharesSlot`; `SlotOf <- const_OneSlot` | `edgerouter/index.js:76`, `draytek/index.js:87`: two devices share a rule, and freeing one frees the other | "removal targets exactly the rule this plugin created", `edgerouter/index.js:73-74` |
| `MCDetection_alone.cfg` | `NeverCertain` | `vpn-detector.js:59`: three flows to one WireGuard server round to 100 | its comment, :55: "never reach, 100" |
| `MCWebClient.cfg` | `StopIsShown` | `components/dashboard-home.tsx:205`: a stopped session stays on the page, nothing refetches it | the button, which is to take it away |
| `MCWebClient.cfg` | `PairingOfModal`; `Entry = {e1, e2}` | `devices/page.tsx:106`: the code of a closed dialog is shown in the next device's | the dialog names its device |
| `MCWebClient.cfg` | `AuthenticatedHasTokens` | `api.ts:35-37`: the tokens go, the store stays; `/login`, which is no page, is left for a dashboard on which every call fails | `lib/store.ts:24-33`, which keep the two together |

Met while reading, and no property: a router that names no vendor is not always
left without one, since the patterns are searched in the whole page
(`router-discovery.js:111-146`: `/Cisco/i` matches "Francisco"); the keys of
`_observations` are never removed, only the lists under them are bounded
(`doh-detector.js:55-57`); the weights of two port signatures, 55 and 60, are
below the range the comment gives (`vpn-detector.js:54-55`); a change made
before its list has arrived is missing from the list shown, since the refetch
joins the first fetch (`devices/page.tsx:145`; in `WebClient` the spoiler
`joined`).

## 8. What is not modelled

- **Pure functions**: CIDR arithmetic, fingerprints; planned, see
  section 2.
- **Backend and DNS service**: empty submodules. What the code relies on is in
  the models and marked external: a queue of pending commands, a grace period,
  a refresh token that is accepted once.
- **Packets and conntrack parsing**: `tcp-rst-controller.js` has no memory, and
  parsing is a pure function; the killer's effect on entries is modelled.
- **What is behind a listing**: the capture of DNS queries and handshakes, the
  hash of a ClientHello, the sockets of SSDP and mDNS. A failing one lists nothing.
- **Time**: only the order of events. Thresholds of the health check, TTLs of
  the resolve cache and the length of the grace period are out.
- **Other writers of the kernel's tables**: none is in the repository.
- **What the screens of app and web client draw, deployment scripts, simulation**:
  presentation, external tools, and test code.
- **Several accounts in one browser**: the web client's cache outlives a logout
  (`providers.tsx:8`), so the next account sees the lists of the one before for
  up to a minute; `WebClient` has one account, whose lists they are.
- Parts of modelled components that are left out: the statically configured
  management address, category limits' name resolution, two-factor login, the
  tenant lookup of the ISP adapter, the web client's profile form and statistics.

## 9. Running

In this directory, with `tlc` and `tlapm`:

    tlc -config MCFirewallController.cfg MCFirewallController.tla
    tlapm FirewallControllerProofs.tla

A configuration `MCX.cfg` or `MCX_what.cfg` belongs to the module `MCX`; the
runs and what is expected of each are listed in `PROJECT.json`.
