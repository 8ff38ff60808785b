---------------------------- MODULE DohDetector ----------------------------
(***************************************************************************)
(* What a look at one device tells of encrypted DNS (doh-detector.js with  *)
(* doh-dot-patterns.js).                                                   *)
(*                                                                         *)
(* The moments at which a destination was seen are kept as the time since  *)
(* the last one followed by the intervals before it, the latest first.  An *)
(* interval longer than Horizon counts as Horizon: no window with either   *)
(* has a mean within the limit.                                            *)
(***************************************************************************)
EXTENDS VpnDetector, Functions, Sequences

CONSTANTS MIN_INTERVAL, MAX_INTERVAL    \* in units of time

ASSUME IntervalsAssumption == MIN_INTERVAL \in Nat /\ MAX_INTERVAL \in Nat

DOT_PORTS == {853}
DOH_PROVIDER_IPS == {"resolver"}
DOH_SNI_PATTERNS == {"resolver"}
DOT_CONFIDENCE == 95
DOH_IP_CONFIDENCE == 90
DNS_SNI_CONFIDENCE == 80
BEHAVIORAL_CONFIDENCE == 20
MIN_OBSERVATIONS == 4
MAX_HISTORY == 8

Horizon == MAX_INTERVAL * (MAX_HISTORY - 1) + 1
Earliest(a, b) == IF a < b THEN a ELSE b

\* Time passes between two looks.
Later(history, gap) ==
    IF history = <<>> THEN <<>>
    ELSE [history EXCEPT ![1] = Earliest(history[1] + gap, Horizon)]

\* One observation more; the oldest is forgotten.
_recordObservation(history) ==
    SubSeq(<<0>> \o history, 1, Earliest(Len(history) + 1, MAX_HISTORY))

Https(flows) == {f \in Tcp(flows) : f.dport = 443}
To(flows, dst) == {f \in Https(flows) : f.dst = dst}

\* Every flow to a destination is an observation of it.
Observed(history, flows) ==
    FoldSet(LAMBDA f, seen : _recordObservation(seen), history, flows)

Sum(s) == SumFunction(s)
Squares(s) == SumFunction([i \in DOMAIN s |-> s[i] * s[i]])

\* Mutant: the spread of the intervals is not looked at.
RegularOnAverage(intervals) ==
    LET n == Len(intervals)
    IN Sum(intervals) >= MIN_INTERVAL * n /\ Sum(intervals) <= MAX_INTERVAL * n

\* The mean lies within the limits and the coefficient of variation is at most
\* 0.2: with n intervals of sum S and square sum Q, (n*Q - S*S) / S*S <= 1/25.
Regular(intervals) ==
    LET n == Len(intervals)
        S == Sum(intervals)
    IN /\ S >= MIN_INTERVAL * n /\ S <= MAX_INTERVAL * n
       /\ 25 * (n * Squares(intervals) - S * S) <= S * S

detectBehavioralInterval(history) ==
    Len(history) >= MIN_OBSERVATIONS /\ Regular(Tail(history))

\* _detectForTarget, from the entries listed and the histories with them.
DohDetections(flows, histories, reputation) ==
    LET provider == {f \in Https(flows) : f.dst \in DOH_PROVIDER_IPS \cup reputation}
        dsts == {f.dst : f \in Https(flows) \ provider}
    IN {Row("conntrack-port-853", f, DOT_CONFIDENCE) :
            f \in {g \in Tcp(flows) : g.dport \in DOT_PORTS}}
       \cup {Row("conntrack-doh-ip", f, DOH_IP_CONFIDENCE) : f \in provider}
       \cup {Row("behavioral-interval", [dst |-> dst], BEHAVIORAL_CONFIDENCE) :
                dst \in {e \in dsts : detectBehavioralInterval(histories[e])}}
       \cup {Row("dns-sni-pattern", f, DNS_SNI_CONFIDENCE) :
                f \in {g \in Queries(flows) : g.dst \in DOH_SNI_PATTERNS \cup reputation}}
=============================================================================
