----------------------------- MODULE QosShaping -----------------------------
(***************************************************************************)
(* The shaper of the agent (qos-controller.js): sync() rebuilds, command   *)
(* by command, the HTB tree and the filters of every interface for the     *)
(* throttled devices and the bandwidth limits of the policy.  Some         *)
(* commands throw when they fail, others are ignored, and a bandwidth      *)
(* limit that fails deletes the whole tree of its interface.  The loops of *)
(* sync() run over arrays; here they take the elements in any order.       *)
(***************************************************************************)
EXTENDS Naturals

CONSTANTS
    Iface,          \* the interfaces, download and upload ones included
    QosIface,       \* qosInterfaces: where throttle filters go
    Device,
    Limit,          \* the limits there can be: device, interfaces, class, matches
    Faults          \* kinds of failure in scope, a subset of AllFaults

AllFaults == {"tc", "clear", "rollback"}

ASSUME QosAssumption ==
    /\ QosIface \subseteq Iface
    /\ \A l \in Limit : l.device \in Device /\ l.ifaces \subseteq Iface
    /\ Faults \subseteq AllFaults

VARIABLES
    policy,     \* the throttled devices and the limits of the last cycle
    stage,      \* the loop sync() is in, "idle" between two calls
    todo,       \* what is left to that loop: interfaces, filters or limits
    now,        \* the element it is at, none or one
    matches,    \* the matches of the limit it is at that have no filter yet
    tree,       \* has the interface our root qdisc and classes?
    filters,    \* the filters of each interface
    classes,    \* the limit whose rate each class of an interface has
    verdict,    \* of the last sync(): "none", "running", "ok" or "threw"
    broken,     \* ghost: interfaces where a limit failed in this sync()
    ignored     \* ghost: interfaces where an ignored command failed in this sync()

work == <<now, matches>>
kernel == <<tree, filters, classes>>
ghosts == <<broken, ignored>>
vars == <<policy, stage, todo, work, kernel, verdict, ghosts>>

ThrottleFilter(d, way) == [use |-> "throttle", of |-> d, match |-> way]
LimitFilter(l, m) == [use |-> "limit", of |-> l, match |-> m]

Throttling(ds) == {ThrottleFilter(d, way) : d \in ds, way \in {"src", "dst"}}
FiltersOf(l) == {LimitFilter(l, m) : m \in l.matches}
Limiting(ls, i) == UNION {FiltersOf(l) : l \in {k \in ls : i \in k.ifaces}}

\* The filters an interface should have under a policy.
Wanted(p, i) ==
    (IF i \in QosIface THEN Throttling(p.throttled) ELSE {}) \cup Limiting(p.limits, i)

Init ==
    /\ policy = [throttled |-> {}, limits |-> {}]
    /\ stage = "idle" /\ todo = {}
    /\ now = {} /\ matches = {}
    /\ tree = [i \in Iface |-> FALSE]
    /\ filters = [i \in Iface |-> {}]
    /\ classes = [i \in Iface |-> {}]
    /\ verdict = "none"
    /\ broken = {} /\ ignored = {}

----------------------------------------------------------------------------
Sync ==
    /\ stage = "idle"
    /\ policy' \in [throttled : SUBSET Device, limits : SUBSET Limit]
    /\ stage' = "prepare" /\ todo' = Iface
    /\ verdict' = "running"
    /\ broken' = {} /\ ignored' = {}
    /\ UNCHANGED <<work, kernel>>

\* ensureQdisc: the tree is there; a new one has no filters.
EnsureQdisc ==
    /\ stage = "prepare"
    /\ \E i \in todo :
        /\ tree' = [tree EXCEPT ![i] = TRUE]
        /\ now' = {i} /\ todo' = todo \ {i}
    /\ stage' = "clear"
    /\ UNCHANGED <<policy, matches, filters, classes, verdict, ghosts>>

\* Mutant of ClearFilters: the filters of the last cycle stay.
ClearNothing ==
    /\ stage = "clear"
    /\ stage' = "prepare" /\ now' = {}
    /\ UNCHANGED <<policy, todo, matches, kernel, verdict, ghosts>>

\* clearFilters ignores a failure.
ClearFilters ==
    /\ stage = "clear"
    /\ \/ /\ \E i \in now : filters' = [filters EXCEPT ![i] = {}]
          /\ UNCHANGED ignored
       \/ /\ "clear" \in Faults
          /\ ignored' = ignored \cup now
          /\ UNCHANGED filters
    /\ stage' = "prepare" /\ now' = {}
    /\ UNCHANGED <<policy, todo, matches, tree, classes, verdict, broken>>

\* The filters of the throttled devices, per interface.
ThrottleWork(p) == QosIface \X Throttling(p.throttled)

AllPrepared ==
    /\ stage = "prepare" /\ todo = {}
    /\ stage' = "throttle" /\ todo' = ThrottleWork(policy)
    /\ UNCHANGED <<policy, work, kernel, verdict, ghosts>>

AddFilter ==
    /\ stage = "throttle"
    /\ \E w \in todo :
        /\ filters' = [filters EXCEPT ![w[1]] = @ \cup {w[2]}]
        /\ todo' = todo \ {w}
    /\ UNCHANGED <<policy, stage, work, tree, classes, verdict, ghosts>>

\* A command outside the bandwidth part throws, and so does sync(); ensureQdisc
\* may have made the root.
Throw ==
    /\ "tc" \in Faults
    /\ \/ /\ stage = "prepare"
          /\ \E i \in todo : tree' \in {tree, [tree EXCEPT ![i] = TRUE]}
       \/ /\ stage = "throttle" /\ todo # {}
          /\ UNCHANGED tree
    /\ stage' = "idle" /\ todo' = {} /\ verdict' = "threw"
    /\ UNCHANGED <<policy, work, filters, classes, ghosts>>

----------------------------------------------------------------------------
\* syncBandwidthLimits: each limit on each of its interfaces.

LimitWork(p) == {w \in p.limits \X Iface : w[2] \in w[1].ifaces}

AllThrottled ==
    /\ stage = "throttle" /\ todo = {}
    /\ stage' = "limits" /\ todo' = LimitWork(policy)
    /\ UNCHANGED <<policy, work, kernel, verdict, ghosts>>

\* Mutant of EnsureClass: a class that is there keeps its rate.
AddClass ==
    /\ stage = "limits"
    /\ \E w \in todo :
        /\ tree[w[2]]
        /\ classes' = [classes EXCEPT ![w[2]] =
                          IF \E k \in @ : k.class = w[1].class THEN @ ELSE @ \cup {w[1]}]
        /\ now' = {w} /\ matches' = w[1].matches /\ todo' = todo \ {w}
    /\ stage' = "match"
    /\ UNCHANGED <<policy, tree, filters, verdict, ghosts>>

\* ensureBandwidthClass replaces the class of this id and its rate.
EnsureClass ==
    /\ stage = "limits"
    /\ \E w \in todo :
        /\ tree[w[2]]
        /\ classes' = [classes EXCEPT ![w[2]] =
                          {k \in @ : k.class # w[1].class} \cup {w[1]}]
        /\ now' = {w} /\ matches' = w[1].matches /\ todo' = todo \ {w}
    /\ stage' = "match"
    /\ UNCHANGED <<policy, tree, filters, verdict, ghosts>>

AddMatch ==
    /\ stage = "match"
    /\ \E w \in now, m \in matches :
        /\ filters' = [filters EXCEPT ![w[2]] = @ \cup {LimitFilter(w[1], m)}]
        /\ matches' = matches \ {m}
    /\ UNCHANGED <<policy, stage, todo, now, tree, classes, verdict, ghosts>>

LimitApplied ==
    /\ stage = "match" /\ matches = {}
    /\ stage' = "limits" /\ now' = {}
    /\ UNCHANGED <<policy, todo, matches, kernel, verdict, ghosts>>

\* Mutant of DeleteTree: the half applied limit stays.
KeepTree(i) == UNCHANGED kernel /\ UNCHANGED ignored

\* The rollback: our root qdisc goes, and everything below it; a failure of
\* that command is ignored.
DeleteTree(i) ==
    \/ /\ tree' = [tree EXCEPT ![i] = FALSE]
       /\ filters' = [filters EXCEPT ![i] = {}]
       /\ classes' = [classes EXCEPT ![i] = {}]
       /\ UNCHANGED ignored
    \/ /\ "rollback" \in Faults
       /\ ignored' = ignored \cup {i}
       /\ UNCHANGED kernel

\* A class or a filter of a limit fails: the limit is given up on this
\* interface, and sync() goes on with the next.
LimitFails ==
    /\ \E w \in todo \cup now :
        /\ \/ stage = "limits"
           \/ stage = "match" /\ w \in now /\ matches # {}
        /\ "tc" \in Faults \/ ~tree[w[2]]
        /\ DeleteTree(w[2])
        /\ broken' = broken \cup {w[2]}
        /\ todo' = todo \ {w}
    /\ stage' = "limits" /\ now' = {} /\ matches' = {}
    /\ UNCHANGED <<policy, verdict>>

Return ==
    /\ stage = "limits" /\ todo = {}
    /\ stage' = "idle" /\ verdict' = "ok"
    /\ UNCHANGED <<policy, todo, work, kernel, ghosts>>

Step ==
    \/ EnsureQdisc \/ ClearFilters \/ AllPrepared \/ AddFilter \/ Throw
    \/ AllThrottled \/ EnsureClass \/ AddMatch \/ LimitApplied \/ LimitFails \/ Return

Next == Sync \/ Step

Spec == Init /\ [][Next]_vars

----------------------------------------------------------------------------
\* Two limits of an interface that hash to one class, or one limit.
SharesClass(k, l, i) == k.class = l.class /\ i \in k.ifaces

TypeOK ==
    /\ policy \in [throttled : SUBSET Device, limits : SUBSET Limit]
    /\ stage \in {"idle", "prepare", "clear", "throttle", "limits", "match"}
    /\ tree \in [Iface -> BOOLEAN]
    /\ filters \in [Iface -> SUBSET (Throttling(Device) \cup UNION {FiltersOf(l) : l \in Limit})]
    /\ classes \in [Iface -> SUBSET Limit]
    /\ \A i \in Iface : ~tree[i] => filters[i] = {} /\ classes[i] = {}
    /\ verdict \in {"none", "running", "ok", "threw"}
    /\ broken \subseteq Iface /\ ignored \subseteq Iface

\* A sync() that returns leaves exactly the filters of its policy on an
\* interface where no limit failed and nothing was ignored: no filter of an
\* earlier policy, none missing in either direction.
OkMeansShaped ==
    verdict = "ok" => \A i \in Iface \ (broken \cup ignored) :
        tree[i] /\ filters[i] = Wanted(policy, i)

\* A limit is never left half applied: where one failed nothing is limited at
\* all (applyDirectionalLimit, the comment of its catch), unless the deletion
\* failed too.
NoHalfLimit ==
    verdict = "ok" => \A i \in broken \ ignored : ~tree[i]

\* The filters of a limit lead to a class that has its rate, or the rate of another
\* limit of this policy whose key hashes to the same class on this interface: never
\* to no class, nor to a rate of an earlier policy, although the classes outlive
\* the cycles (bandwidthClassId, ensureBandwidthClass; stableId).
OwnRate ==
    verdict = "ok" =>
        \A i \in Iface \ (broken \cup ignored), l \in policy.limits :
            i \in l.ifaces => \E k \in classes[i] \cap policy.limits : SharesClass(k, l, i)

----------------------------------------------------------------------------
\* What the documentation says and the code does not do.

\* mark-allocator.js: a pure function of the key is "equally correct" as an
\* allocator, so that no limit is enforced at another's rate.
NoSharedRate ==
    verdict = "ok" =>
        \A i \in Iface \ (broken \cup ignored), l \in policy.limits :
            i \in l.ifaces => l \in classes[i]

\* README of the agent, state machine: a throttled device has filters into the
\* 1kbit class after a sync() that returned.
ThrottledIsShaped ==
    verdict = "ok" =>
        \A i \in QosIface : Throttling(policy.throttled) \subseteq filters[i]

\* README of the agent, state machine: a device that is neither throttled nor
\* limited has no filters after a sync() that returned.
AllowIsUnshaped ==
    verdict = "ok" => \A i \in Iface : filters[i] \subseteq Wanted(policy, i)
=============================================================================
