----------------------------- MODULE Detection -----------------------------
(***************************************************************************)
(* The stages of the agent's cycle that look and report (main.js): the VPN *)
(* detector, the DoH detector and, at an interval of its own, the          *)
(* discovery of the router.  Each looks at the devices one by one while    *)
(* their connections come and go, and sends one report that may be lost.   *)
(* The names differ from those of AgentCycle, the other stages.            *)
(***************************************************************************)
EXTENDS DohDetector, RouterDiscovery

CONSTANTS
    Target, Flows,          \* the devices looked at, and what can be listed of one
    Configs,                \* sets of switches that are on
    Reputation, Ja3Hashes,  \* the operator's lists
    PollInterval, SlowCycles,  \* the usual time between two looks, and others
    DetectionInterval,      \* between two discoveries, in cycles
    MaxDisturbances         \* changes, failures and restarts in a behaviour

VARIABLES
    config,
    connections,    \* [Target -> set of flows]: what a device has open
    histories,  \* [Target -> [destination -> history]]: _observations
    pc, todo,   \* the stage of the cycle, and the devices it has still to look at
    report,     \* what the stage has found: <<device, row, overall confidence>>
    received,   \* what the backend heard of each detector's last look
    sinceDetection,  \* cycles since lastDetectionAt
    knownRouter,    \* the last router the backend was told of
    disturbances

looks == <<histories, pc, todo, report>>
world == <<config, connections>>
detectionVars == <<looks, world, received, sinceDetection, knownRouter, disturbances, discVars>>

Destination == {f.dst : f \in Https(Flows)}
Fresh == [d \in Target |-> [dst \in Destination |-> <<>>]]
Nothing == [enableVpnBlock |-> {}, enableDohBlock |-> {}]
On(switch) == switch \in config
Disturb == disturbances < MaxDisturbances /\ disturbances' = disturbances + 1
Calm == UNCHANGED disturbances
MayDisturb(usual) == IF usual THEN Calm ELSE Disturb

DetectionInit ==
    /\ config \in Configs /\ connections = [d \in Target |-> {}]
    /\ histories = Fresh /\ pc = "idle" /\ todo = {} /\ report = {} /\ received = Nothing
    /\ sinceDetection = DetectionInterval /\ knownRouter = EMPTY_RESULT /\ disturbances = 0
    /\ DiscInit

\* The stages in their order, those that are off left out.
\* Mutant: a router that is known is not asked for again.
DueUntilKnown == On("enableRouterDetection") /\ knownRouter.vendor = Unknown
DiscoveryDue == On("enableRouterDetection") /\ sinceDetection >= DetectionInterval
AfterDoh == IF DiscoveryDue THEN "discovery" ELSE "idle"
AfterVpn == IF On("enableDohBlock") THEN "enableDohBlock" ELSE AfterDoh
AfterPoll == IF On("enableVpnBlock") THEN "enableVpnBlock" ELSE AfterVpn
After(stage) == IF stage = "enableVpnBlock" THEN AfterVpn ELSE AfterDoh

\* The next cycle begins.
Poll ==
    /\ pc = "idle" /\ pc' = AfterPoll /\ todo' = Target
    /\ sinceDetection' = IF On("enableRouterDetection")
                         THEN Earliest(sinceDetection + 1, DetectionInterval)
                         ELSE sinceDetection
    /\ \E gap \in {PollInterval} \cup SlowCycles :
            /\ MayDisturb(gap = PollInterval)
            /\ histories' = [d \in Target |-> [dst \in Destination |->
                                Later(histories[d][dst], gap)]]
    /\ UNCHANGED <<world, report, received, knownRouter, discVars>>

\* What a look lists: a failed listing, capture or sniff counts as empty, and
\* one that is off as well.
Transports == {"udp", "tcp"} \cup (IF On("enableTlsFingerprint") THEN {"tls"} ELSE {})
                             \cup (IF On("enableDnsSniff") THEN {"dns"} ELSE {})
Overheard(d, heard) == {f \in connections[d] : f.protocol \in heard}

VpnRows(d, listed) ==
    LET rows == VpnDetections(listed, Ja3Hashes)
    IN {<<d, row, computeConfidence(rows)>> : row \in rows}
Seen(d, listed) ==
    [dst \in Destination |-> Observed(histories[d][dst], To(listed, dst))]
DohRows(d, listed, seen) ==
    {<<d, row, 0>> : row \in DohDetections(listed, seen, Reputation)}

\* One device is looked at, for a VPN or for encrypted DNS.
DetectForTarget ==
    /\ pc \in {"enableVpnBlock", "enableDohBlock"} /\ todo # {}
    /\ \E deaf \in {{}} \cup {{transport} : transport \in Transports} :
        LET d == CHOOSE d \in todo : TRUE
            listed == Overheard(d, Transports \ deaf)
            seen == Seen(d, listed)
        IN /\ MayDisturb(deaf = {})
           /\ todo' = todo \ {d}
           /\ IF pc = "enableVpnBlock"
              THEN report' = report \cup VpnRows(d, listed) /\ UNCHANGED histories
              ELSE /\ histories' = [histories EXCEPT ![d] = seen]
                   /\ report' = report \cup DohRows(d, listed, seen)
    /\ UNCHANGED <<pc, world, received, sinceDetection, knownRouter, discVars>>

\* The report of a stage, if there is anything to report; a lost one is logged
\* and forgotten.
EndStage ==
    /\ pc \in {"enableVpnBlock", "enableDohBlock"} /\ todo = {}
    /\ pc' = After(pc) /\ todo' = Target /\ report' = {}
    /\ UNCHANGED <<histories, world, sinceDetection, knownRouter, disturbances, discVars>>
Delivered == report # {} /\ EndStage /\ received' = [received EXCEPT ![pc] = report]
Lost == EndStage /\ received' = [received EXCEPT ![pc] = {}]

----------------------------------------------------------------------------
\* maybeRunDetection: the interval starts again before anything is known.
MaybeRunDetection ==
    /\ pc = "discovery" /\ disc.step = "none"
    /\ \E route, neighbour \in BOOLEAN :
            MayDisturb(route /\ neighbour) /\ GatewayFound(route, neighbour)
    /\ sinceDetection' = 0
    /\ UNCHANGED <<looks, world, received, knownRouter>>

AskRouter ==
    /\ pc = "discovery" /\ discoverRouter
    /\ UNCHANGED <<looks, world, received, sinceDetection, knownRouter, disturbances>>

\* The report on the router, delivered or lost.
EndDiscovery ==
    /\ pc = "discovery" /\ disc.step = "done"
    /\ pc' = "idle" /\ disc' = Quiet /\ held' = {}
    /\ UNCHANGED <<histories, todo, report, world, received, sinceDetection, disturbances, holder>>
RouterDelivered == knownRouter' = disc.result /\ EndDiscovery
RouterLost == EndDiscovery /\ UNCHANGED knownRouter

----------------------------------------------------------------------------
\* A connection of a device is opened or ends; two lookups of a name are two
\* entries, as are two connections to a host.
FlowsChange ==
    /\ On("enableVpnBlock") \/ On("enableDohBlock")    \* else nobody looks
    /\ Disturb
    /\ \E d \in Target, f \in Flows :
        connections' = [connections EXCEPT ![d] = IF f \in @ THEN @ \ {f} ELSE @ \cup {f}]
    /\ UNCHANGED <<looks, config, received, sinceDetection, knownRouter, discVars>>

RouterReplaced ==
    /\ On("enableRouterDetection") /\ Disturb /\ Replace
    /\ UNCHANGED <<looks, world, received, sinceDetection, knownRouter>>

\* The agent starts again with nothing remembered.
RestartDetection ==
    /\ Disturb
    /\ histories' = Fresh /\ pc' = "idle" /\ todo' = {} /\ report' = {}
    /\ sinceDetection' = DetectionInterval /\ disc' = Quiet /\ held' = {}
    /\ UNCHANGED <<world, received, knownRouter, holder>>

Cycle == Poll \/ DetectForTarget \/ Lost \/ MaybeRunDetection \/ AskRouter \/ RouterLost
DetectionNext ==
    Cycle \/ Delivered \/ RouterDelivered \/ FlowsChange \/ RouterReplaced \/ RestartDetection

\* The loop runs on, and not every report of a stage is lost.
Fairness ==
    /\ WF_detectionVars(Cycle)
    /\ SF_detectionVars(Delivered) /\ SF_detectionVars(RouterDelivered)
DetectionSpec == DetectionInit /\ [][DetectionNext]_detectionVars /\ Fairness

----------------------------------------------------------------------------
\* The detectors' variables have their types.
DetectionTypeOK ==
    /\ config \in Configs /\ connections \in [Target -> SUBSET Flows]
    /\ \A d \in Target, dst \in Destination :
        /\ Len(histories[d][dst]) <= MAX_HISTORY
        /\ \A i \in DOMAIN histories[d][dst] : histories[d][dst][i] \in 0..Horizon
    /\ pc \in {"idle", "enableVpnBlock", "enableDohBlock", "discovery"}
    /\ todo \subseteq Target /\ sinceDetection \in 0..DetectionInterval
    /\ holder \in Box /\ held \subseteq Box /\ disturbances \in 0..MaxDisturbances

\* A destination is reported for its regular interval only if each of the
\* moments that count was a look of its own: several connections in one look,
\* an outage or a gap in the device's use never pass for regularity
\* (doh-detector.js, detectBehavioralInterval).
MetronomeOnly ==
    \A entry \in report : entry[2].method = "behavioral-interval" =>
        LET intervals == Tail(histories[entry[1]][entry[2].flow.dst]) IN
        \A i, j \in DOMAIN intervals :
            intervals[i] >= MIN_INTERVAL /\ intervals[i] < 3 * intervals[j]

\* The combined confidence of a device is at least that of each of its rows,
\* more than that of a single weak one only with another row beside it, and
\* never above 100 (vpn-detector.js, computeConfidence).
Corroborated ==
    pc = "enableVpnBlock" =>
    \A entry \in report :
        /\ entry[2].confidence <= entry[3] /\ entry[3] <= 100
        /\ entry[3] > entry[2].confidence =>
                \E other \in report : other[1] = entry[1] /\ other[2] # entry[2]

\* The vendor of a report is one that a box at the gateway's own address gave
\* during the discovery, whatever the neighbours answer (router-discovery.js).
NamesTheRouter ==
    disc.step = "done" /\ disc.result.confidence > 0 =>
        \E b \in held : disc.result.vendor \in Names(b)

\* What a signature of weight 55 or more knows at sight.
TellTale(f) ==
    \/ On("enableVpnBlock") /\ <<f.protocol, f.dport>> \in DOMAIN VPN_PORT_SIGNATURES
    \/ On("enableDohBlock") /\ f.dport \in DOT_PORTS
Overlooked(d, f) ==
    /\ f \in connections[d] /\ TellTale(f)
    /\ \A stage \in DOMAIN received : \A entry \in received[stage] :
            ~(entry[1] = d /\ entry[2].flow = f)

\* No report is repeated, but as long as a connection lasts a later look
\* reports it again, and a router that is replaced is found out: the backend
\* does not stay on an old picture for ever (main.js:94-118).
ReportedAtLast ==
    /\ \A d \in Target, f \in Flows : []<>~Overlooked(d, f)
    /\ <>[](On("enableRouterDetection") => knownRouter.vendor \in Names(holder) \cup {Unknown})
----------------------------------------------------------------------------
\* What the comments say and the code does not do.

\* vpn-detector.js:22: the flow heuristic is never surfaced as a claim of its own.
NeverAlone ==
    \A entry \in report : entry[2].method = "flow-heuristic" =>
        \E other \in report : other[1] = entry[1] /\ other[2].method # "flow-heuristic"

\* vpn-detector.js:55: several signals compound toward, but never reach, 100.
NeverCertain == \A entry \in report : entry[3] < 100
=============================================================================
