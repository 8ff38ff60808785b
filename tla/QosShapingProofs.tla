-------------------------- MODULE QosShapingProofs --------------------------
(***************************************************************************)
(* Proofs about QosShaping, for every set of interfaces, devices and       *)
(* limits and every combination of failures.                               *)
(***************************************************************************)
EXTENDS QosShaping, TLAPS

----------------------------------------------------------------------------
\* The inductive invariant.

\* What each loop of sync() works through.
Loops ==
    /\ stage \notin {"clear", "match"} => now = {}
    /\ stage # "match" => matches = {}
    /\ stage = "idle" => todo = {} /\ verdict # "running"
    /\ stage \in {"prepare", "clear"} => todo \subseteq Iface
    /\ stage = "clear" => \E i \in Iface : now = {i}
    /\ stage = "throttle" => todo \subseteq ThrottleWork(policy)
    /\ stage \in {"limits", "match"} => todo \subseteq LimitWork(policy)
    /\ stage = "match" =>
          \E w \in LimitWork(policy) : now = {w} /\ matches \subseteq w[1].matches
    /\ stage # "idle" => verdict = "running"

\* The trees a loop works on are there.
Standing ==
    /\ stage \in {"prepare", "clear"} => \A i \in Iface \ todo : tree[i]
    /\ stage = "throttle" => \A i \in Iface : tree[i]
    /\ stage = "match" => \A w \in now : tree[w[2]]

\* Where nothing failed so far.
Sound == Iface \ (broken \cup ignored)

\* The interfaces the first loop is done with are bare.
Prepared ==
    stage \in {"prepare", "clear"} =>
        \A i \in Sound \ (todo \cup now) : filters[i] = {}

Throttled(i) == IF i \in QosIface THEN Throttling(policy.throttled) ELSE {}

\* The second loop adds what throttling wants and nothing else.
Throttles ==
    stage = "throttle" => \A i \in Sound :
        /\ filters[i] \subseteq Throttled(i)
        /\ \A f \in Throttled(i) : f \in filters[i] \/ <<i, f>> \in todo

\* The third adds what the limits want beside.
Limits ==
    stage \in {"limits", "match"} => \A i \in Sound :
        /\ tree[i]
        /\ Throttled(i) \subseteq filters[i]
        /\ filters[i] \subseteq Wanted(policy, i)
        /\ \A l \in policy.limits : i \in l.ifaces => \A m \in l.matches :
              \/ LimitFilter(l, m) \in filters[i]
              \/ <<l, i>> \in todo
              \/ <<l, i>> \in now /\ m \in matches

\* A limit that failed has taken the tree with it, and none failed before.
Unlimited ==
    /\ stage \in {"prepare", "clear", "throttle"} => broken = {}
    /\ stage \in {"limits", "match"} => \A i \in broken \ ignored : ~tree[i]

IInv ==
    /\ TypeOK
    /\ Loops
    /\ Standing
    /\ Prepared
    /\ Throttles
    /\ Limits
    /\ Unlimited
    /\ OkMeansShaped
    /\ NoHalfLimit

\* The limits the third loop is done with have their class.
HasClass(l, i) == \E k \in classes[i] \cap policy.limits : SharesClass(k, l, i)
Rates ==
    stage \in {"limits", "match"} => \A i \in Sound, l \in policy.limits :
        i \in l.ifaces => HasClass(l, i) \/ <<l, i>> \in todo

----------------------------------------------------------------------------
\* Lemmas about the filters a policy wants.

AllFilters == Throttling(Device) \cup UNION {FiltersOf(l) : l \in Limit}

PolicyType == policy \in [throttled : SUBSET Device, limits : SUBSET Limit]

LEMMA ThrottledType ==
    ASSUME PolicyType
    PROVE  Throttling(policy.throttled) \subseteq AllFilters
BY DEF PolicyType, Throttling, AllFilters

LEMMA LimitFilterType ==
    ASSUME NEW l \in Limit, NEW m \in l.matches
    PROVE  LimitFilter(l, m) \in AllFilters
BY DEF FiltersOf, AllFilters

LEMMA WantedFilters ==
    ASSUME NEW i \in Iface, NEW f
    PROVE  f \in Wanted(policy, i) <=>
              \/ f \in Throttled(i)
              \/ \E l \in policy.limits : i \in l.ifaces /\
                    \E m \in l.matches : f = LimitFilter(l, m)
BY DEF Wanted, Throttled, Limiting, FiltersOf

LEMMA WorkOf ==
    ASSUME PolicyType, NEW w \in LimitWork(policy)
    PROVE  /\ w[1] \in policy.limits /\ w[1] \in Limit
           /\ w[2] \in Iface /\ w[2] \in w[1].ifaces
           /\ w = <<w[1], w[2]>>
BY DEF LimitWork, PolicyType

----------------------------------------------------------------------------
\* Type correctness.

TreeType ==
    /\ tree \in [Iface -> BOOLEAN]
    /\ filters \in [Iface -> SUBSET AllFilters]
    /\ classes \in [Iface -> SUBSET Limit]

Bare == \A i \in Iface : ~tree[i] => filters[i] = {} /\ classes[i] = {}

RestType ==
    /\ stage \in {"idle", "prepare", "clear", "throttle", "limits", "match"}
    /\ verdict \in {"none", "running", "ok", "threw"}
    /\ broken \subseteq Iface /\ ignored \subseteq Iface

LEMMA TypeParts == TypeOK <=> PolicyType /\ TreeType /\ Bare /\ RestType
BY DEF TypeOK, PolicyType, TreeType, Bare, RestType, AllFilters

LEMMA InvInit == Init => IInv /\ Rates /\ OwnRate
<1> SUFFICES ASSUME Init PROVE IInv /\ Rates /\ OwnRate
  OBVIOUS
<1>1. TypeOK
  BY TypeParts DEF Init, PolicyType, TreeType, Bare, RestType
<1>2. Loops /\ Standing /\ Unlimited
  BY DEF Init, Loops, Standing, Unlimited
<1>3. Prepared /\ Throttles /\ Limits /\ Rates
  BY DEF Init, Prepared, Throttles, Limits, Rates
<1>4. OkMeansShaped /\ NoHalfLimit /\ OwnRate
  BY DEF Init, OkMeansShaped, NoHalfLimit, OwnRate
<1>5. QED BY <1>1, <1>2, <1>3, <1>4 DEF IInv

LEMMA TypeStep == TypeOK /\ Loops /\ Standing /\ [Next]_vars => TypeOK'
<1> SUFFICES ASSUME TypeOK, Loops, Standing, [Next]_vars PROVE TypeOK'
  OBVIOUS
<1>0. PolicyType /\ TreeType /\ Bare /\ RestType
  BY TypeParts
<1>t. TypeOK' <=> PolicyType' /\ TreeType' /\ Bare' /\ RestType'
  BY DEF TypeOK, PolicyType, TreeType, Bare, RestType, AllFilters
<1> USE DEF work, kernel, ghosts
<1>1. CASE \/ Sync \/ AllPrepared \/ AllThrottled \/ LimitApplied \/ Return \/ UNCHANGED vars
  <2>1. UNCHANGED kernel
    BY <1>1 DEF Sync, AllPrepared, AllThrottled, LimitApplied, Return, vars
  <2>2. PolicyType' /\ RestType'
    BY <1>0, <1>1 DEF Sync, AllPrepared, AllThrottled, LimitApplied, Return, vars, PolicyType,
                      RestType
  <2>3. QED BY <1>0, <1>t, <2>1, <2>2 DEF TreeType, Bare
<1>2. CASE EnsureQdisc
  <2>1. PICK i \in Iface : tree' = [tree EXCEPT ![i] = TRUE]
    BY <1>2 DEF EnsureQdisc, Loops
  <2>2. PolicyType' /\ RestType' /\ UNCHANGED <<filters, classes>>
    BY <1>0, <1>2 DEF EnsureQdisc, PolicyType, RestType
  <2>3. QED BY <1>0, <1>t, <2>1, <2>2 DEF TreeType, Bare
<1>3. CASE Throw
  <2>1. \/ \E i \in Iface : tree' = [tree EXCEPT ![i] = TRUE]
        \/ tree' = tree
    BY <1>3 DEF Throw, Loops
  <2>2. PolicyType' /\ RestType' /\ UNCHANGED <<filters, classes>>
    BY <1>0, <1>3 DEF Throw, PolicyType, RestType
  <2>3. QED BY <1>0, <1>t, <2>1, <2>2 DEF TreeType, Bare
<1>4. CASE ClearFilters
  <2>1. PICK i \in Iface : now = {i}
    BY <1>4 DEF ClearFilters, Loops
  <2>2. filters' = [filters EXCEPT ![i] = {}] \/ filters' = filters
    BY <1>4, <2>1 DEF ClearFilters
  <2>3. PolicyType' /\ RestType' /\ UNCHANGED <<tree, classes>>
    BY <1>0, <1>4, <2>1 DEF ClearFilters, PolicyType, RestType
  <2>4. QED BY <1>0, <1>t, <2>2, <2>3 DEF TreeType, Bare
<1>5. CASE AddFilter
  <2>1. PICK w \in ThrottleWork(policy) : filters' = [filters EXCEPT ![w[1]] = @ \cup {w[2]}]
    BY <1>5 DEF AddFilter, Loops
  <2>2. w[1] \in Iface /\ w[2] \in AllFilters
    BY <1>0, <2>1, ThrottledType, QosAssumption DEF ThrottleWork, QosAssumption
  <2>3. tree[w[1]]
    BY <1>5, <2>2 DEF AddFilter, Standing
  <2>4. PolicyType' /\ RestType' /\ UNCHANGED <<tree, classes>>
    BY <1>0, <1>5 DEF AddFilter, PolicyType, RestType
  <2>5. QED BY <1>0, <1>t, <2>1, <2>2, <2>3, <2>4 DEF TreeType, Bare
<1>6. CASE EnsureClass
  <2>1. PICK w \in LimitWork(policy) :
          /\ tree[w[2]]
          /\ classes' = [classes EXCEPT ![w[2]] = {k \in @ : k.class # w[1].class} \cup {w[1]}]
    BY <1>6 DEF EnsureClass, Loops
  <2>2. w[1] \in Limit /\ w[2] \in Iface
    BY <1>0, <2>1, WorkOf
  <2>3. PolicyType' /\ RestType' /\ UNCHANGED <<tree, filters>>
    BY <1>0, <1>6 DEF EnsureClass, PolicyType, RestType
  <2>4. QED BY <1>0, <1>t, <2>1, <2>2, <2>3 DEF TreeType, Bare
<1>7. CASE AddMatch
  <2>1. PICK w \in LimitWork(policy), m \in matches :
          /\ filters' = [filters EXCEPT ![w[2]] = @ \cup {LimitFilter(w[1], m)}]
          /\ w \in now /\ m \in w[1].matches
    BY <1>7 DEF AddMatch, Loops
  <2>2. w[2] \in Iface /\ LimitFilter(w[1], m) \in AllFilters /\ tree[w[2]]
    BY <1>0, <1>7, <2>1, WorkOf, LimitFilterType DEF AddMatch, Standing
  <2>3. PolicyType' /\ RestType' /\ UNCHANGED <<tree, classes>>
    BY <1>0, <1>7 DEF AddMatch, PolicyType, RestType
  <2>4. QED BY <1>0, <1>t, <2>1, <2>2, <2>3 DEF TreeType, Bare
<1>8. CASE LimitFails
  <2>1. PICK w \in LimitWork(policy) : DeleteTree(w[2]) /\ broken' = broken \cup {w[2]}
    BY <1>8 DEF LimitFails, Loops
  <2>2. w[2] \in Iface
    BY <1>0, <2>1, WorkOf
  <2>3. PolicyType' /\ RestType'
    BY <1>0, <1>8, <2>1, <2>2 DEF LimitFails, DeleteTree, PolicyType, RestType
  <2>4. TreeType' /\ Bare'
    BY <1>0, <2>1, <2>2 DEF DeleteTree, TreeType, Bare
  <2>5. QED BY <1>t, <2>3, <2>4
<1>9. QED
  BY <1>1, <1>2, <1>3, <1>4, <1>5, <1>6, <1>7, <1>8 DEF Next, Step

----------------------------------------------------------------------------
\* The loops.

LEMMA LoopsStep == Loops /\ [Next]_vars => Loops'
<1> SUFFICES ASSUME Loops, [Next]_vars PROVE Loops'
  OBVIOUS
<1> USE DEF Loops, work
<1>1. CASE Sync \/ Throw \/ Return
  BY <1>1 DEF Sync, Throw, Return
<1>2. CASE EnsureQdisc
  BY <1>2 DEF EnsureQdisc
<1>3. CASE ClearFilters
  BY <1>3 DEF ClearFilters
<1>4. CASE AllPrepared \/ AddFilter
  BY <1>4 DEF AllPrepared, AddFilter
<1>5. CASE AllThrottled \/ LimitApplied \/ LimitFails
  BY <1>5 DEF AllThrottled, LimitApplied, LimitFails
<1>6. CASE EnsureClass
  BY <1>6 DEF EnsureClass
<1>7. CASE AddMatch
  BY <1>7 DEF AddMatch
<1>8. CASE UNCHANGED vars
  BY <1>8 DEF vars
<1>9. QED
  BY <1>1, <1>2, <1>3, <1>4, <1>5, <1>6, <1>7, <1>8 DEF Next, Step

LEMMA StandingStep == TypeOK /\ Loops /\ Standing /\ [Next]_vars => Standing'
<1> SUFFICES ASSUME TreeType, Loops, Standing, [Next]_vars PROVE Standing'
  BY TypeParts
<1> USE DEF Standing, work, kernel
<1>1. CASE EnsureQdisc
  BY <1>1 DEF EnsureQdisc, TreeType
<1>2. CASE Sync \/ Throw \/ Return \/ AllThrottled \/ LimitApplied \/ LimitFails
  BY <1>2 DEF Sync, Throw, Return, AllThrottled, LimitApplied, LimitFails
<1>3. CASE ClearFilters \/ AllPrepared \/ AddFilter
  BY <1>3 DEF ClearFilters, AllPrepared, AddFilter
<1>4. CASE EnsureClass \/ AddMatch
  BY <1>4 DEF EnsureClass, AddMatch
<1>5. CASE UNCHANGED vars
  BY <1>5 DEF vars
<1>6. QED
  BY <1>1, <1>2, <1>3, <1>4, <1>5 DEF Next, Step

LEMMA UnlimitedStep == TypeOK /\ Loops /\ Unlimited /\ [Next]_vars => Unlimited'
<1> SUFFICES ASSUME PolicyType, TreeType, RestType, Loops, Unlimited, [Next]_vars
             PROVE  Unlimited'
  BY TypeParts
<1> USE DEF Unlimited, work, kernel, ghosts
<1>1. CASE Sync \/ Throw \/ Return
  BY <1>1 DEF Sync, Throw, Return
<1>2. CASE EnsureQdisc \/ ClearFilters \/ AllPrepared \/ AddFilter \/ AllThrottled
  BY <1>2 DEF EnsureQdisc, ClearFilters, AllPrepared, AddFilter, AllThrottled
<1>3. CASE EnsureClass \/ AddMatch \/ LimitApplied
  BY <1>3 DEF EnsureClass, AddMatch, LimitApplied
<1>4. CASE LimitFails
  <2>1. PICK w \in LimitWork(policy) : DeleteTree(w[2]) /\ broken' = broken \cup {w[2]}
    BY <1>4 DEF LimitFails, Loops
  <2>2. w[2] \in Iface
    BY <2>1, WorkOf
  <2>3. stage' = "limits" /\ stage \in {"limits", "match"}
    BY <1>4 DEF LimitFails
  <2>4. QED BY <2>1, <2>2, <2>3 DEF DeleteTree, TreeType, RestType
<1>5. CASE UNCHANGED vars
  BY <1>5 DEF vars
<1>6. QED
  BY <1>1, <1>2, <1>3, <1>4, <1>5 DEF Next, Step

----------------------------------------------------------------------------
\* What each loop has done.

LEMMA PreparedStep == IInv /\ [Next]_vars => Prepared'
<1> SUFFICES ASSUME TreeType, Loops, Prepared, [Next]_vars PROVE Prepared'
  BY TypeParts DEF IInv
<1> USE DEF Prepared, Sound, work, kernel, ghosts
<1>1. CASE Sync
  BY <1>1 DEF Sync
<1>2. CASE EnsureQdisc
  BY <1>2 DEF EnsureQdisc, Loops
<1>3. CASE ClearFilters
  <2>1. PICK j \in Iface : now = {j}
    BY <1>3 DEF ClearFilters, Loops
  <2>2. \/ filters' = [filters EXCEPT ![j] = {}] /\ ignored' = ignored
        \/ filters' = filters /\ ignored' = ignored \cup {j}
    BY <1>3, <2>1 DEF ClearFilters
  <2>3. QED BY <1>3, <2>1, <2>2 DEF ClearFilters, TreeType
<1>4. CASE \/ AllPrepared \/ AddFilter \/ Throw \/ AllThrottled \/ EnsureClass \/ AddMatch
           \/ LimitApplied \/ LimitFails \/ Return
  BY <1>4 DEF AllPrepared, AddFilter, Throw, AllThrottled, EnsureClass, AddMatch, LimitApplied,
              LimitFails, Return
<1>5. CASE UNCHANGED vars
  BY <1>5 DEF vars
<1>6. QED
  BY <1>1, <1>2, <1>3, <1>4, <1>5 DEF Next, Step

LEMMA ThrottlesStep == IInv /\ [Next]_vars => Throttles'
<1> SUFFICES ASSUME TreeType, Loops, Prepared, Throttles, [Next]_vars PROVE Throttles'
  BY TypeParts DEF IInv
<1> USE DEF Throttles, Throttled, Sound, work, kernel, ghosts
<1>1. CASE AllPrepared
  BY <1>1 DEF AllPrepared, Prepared, Loops, ThrottleWork
<1>2. CASE AddFilter
  <2>1. PICK w \in todo :
          /\ filters' = [filters EXCEPT ![w[1]] = @ \cup {w[2]}] /\ todo' = todo \ {w}
    BY <1>2 DEF AddFilter
  <2>2. /\ w = <<w[1], w[2]>> /\ w[1] \in QosIface /\ w[2] \in Throttling(policy.throttled)
        /\ w[1] \in Iface
    BY <1>2, <2>1, QosAssumption DEF AddFilter, Loops, ThrottleWork, QosAssumption
  <2>3. /\ stage = "throttle" /\ UNCHANGED <<policy, broken, ignored>>
    BY <1>2 DEF AddFilter
  <2>4. ASSUME NEW i \in Sound
        PROVE  /\ filters'[i] \subseteq Throttled(i)
               /\ \A f \in Throttled(i) : f \in filters'[i] \/ <<i, f>> \in todo'
    <3>1. CASE i = w[1]
      <4>1. filters'[i] = filters[i] \cup {w[2]}
        BY <2>1, <2>2, <3>1 DEF TreeType
      <4>2. QED BY <2>1, <2>2, <2>3, <2>4, <3>1, <4>1
    <3>2. CASE i # w[1]
      <4>1. filters'[i] = filters[i]
        BY <2>1, <2>4, <3>2 DEF TreeType
      <4>2. QED BY <2>1, <2>2, <2>3, <2>4, <3>2, <4>1
    <3>3. QED BY <3>1, <3>2
  <2>5. QED BY <2>3, <2>4
<1>3. CASE \/ Sync \/ EnsureQdisc \/ ClearFilters \/ Throw \/ AllThrottled \/ EnsureClass
           \/ AddMatch \/ LimitApplied \/ LimitFails \/ Return
  BY <1>3 DEF Sync, EnsureQdisc, ClearFilters, Throw, AllThrottled, EnsureClass, AddMatch,
              LimitApplied, LimitFails, Return
<1>4. CASE UNCHANGED vars
  BY <1>4 DEF vars
<1>5. QED
  BY <1>1, <1>2, <1>3, <1>4 DEF Next, Step

\* The rollback of a limit on one interface leaves the others alone.
LEMMA OthersKept ==
    ASSUME TypeOK, Loops, LimitFails
    PROVE  \E w \in LimitWork(policy) :
              /\ broken' = broken \cup {w[2]} /\ ignored \subseteq ignored'
              /\ todo' = todo \ {w} /\ now \subseteq {w}
              /\ \A i \in Iface \ {w[2]} :
                    tree'[i] = tree[i] /\ filters'[i] = filters[i] /\ classes'[i] = classes[i]
<1>0. PolicyType /\ TreeType
  BY TypeParts
<1>1. PICK w \in todo \cup now :
        /\ DeleteTree(w[2]) /\ broken' = broken \cup {w[2]} /\ todo' = todo \ {w}
        /\ \/ stage = "limits"
           \/ stage = "match" /\ w \in now
  BY DEF LimitFails
<1>2. w \in LimitWork(policy)
  BY <1>1 DEF Loops
<1>3. now \subseteq {w}
  BY <1>1 DEF Loops
<1>4. /\ ignored \subseteq ignored'
      /\ \A i \in Iface \ {w[2]} :
            tree'[i] = tree[i] /\ filters'[i] = filters[i] /\ classes'[i] = classes[i]
  BY <1>0, <1>1 DEF DeleteTree, TreeType, kernel
<1>5. QED BY <1>1, <1>2, <1>3, <1>4

LEMMA LimitsStep == IInv /\ [Next]_vars => Limits'
<1> SUFFICES ASSUME TypeOK, PolicyType, TreeType, Loops, Standing, Throttles, Limits,
                    [Next]_vars
             PROVE  Limits'
  BY TypeParts DEF IInv
<1> USE DEF work, kernel, ghosts
<1>1. CASE AllThrottled
  <2>1. /\ stage = "throttle" /\ todo = {} /\ UNCHANGED <<policy, kernel, ghosts>>
        /\ todo' = LimitWork(policy)
    BY <1>1 DEF AllThrottled
  <2>2. ASSUME NEW i \in Sound
        PROVE  /\ tree[i] /\ Throttled(i) \subseteq filters[i]
               /\ filters[i] \subseteq Wanted(policy, i)
               /\ \A l \in policy.limits : i \in l.ifaces => <<l, i>> \in todo'
    BY <2>1 DEF Throttles, Standing, Sound, Wanted, Throttled, LimitWork
  <2>3. QED BY <2>1, <2>2 DEF Limits, Sound, Throttled
<1>2. CASE EnsureClass
  <2>1. PICK w \in todo : now' = {w} /\ matches' = w[1].matches /\ todo' = todo \ {w}
    BY <1>2 DEF EnsureClass
  <2>2. w = <<w[1], w[2]>>
    BY <1>2, <2>1, WorkOf DEF EnsureClass, Loops
  <2>3. stage = "limits" /\ now = {} /\ UNCHANGED <<policy, tree, filters, ghosts>>
    BY <1>2 DEF EnsureClass, Loops
  <2>4. QED BY <2>1, <2>2, <2>3 DEF Limits, Sound, Throttled
<1>3. CASE AddMatch
  <2>1. PICK w \in LimitWork(policy), m \in matches :
          /\ filters' = [filters EXCEPT ![w[2]] = @ \cup {LimitFilter(w[1], m)}]
          /\ now = {w} /\ m \in w[1].matches /\ matches' = matches \ {m}
    BY <1>3 DEF AddMatch, Loops
  <2>2. /\ w = <<w[1], w[2]>> /\ w[2] \in Iface
        /\ w[1] \in policy.limits /\ w[2] \in w[1].ifaces
    BY <2>1, WorkOf
  <2>3. stage = "match" /\ stage' = "match" /\ UNCHANGED <<policy, todo, now, tree, ghosts>>
    BY <1>3 DEF AddMatch
  <2>4. ASSUME NEW i \in Sound
        PROVE  /\ Throttled(i) \subseteq filters'[i]
               /\ filters'[i] \subseteq Wanted(policy, i)
               /\ \A l \in policy.limits : i \in l.ifaces => \A n \in l.matches :
                     \/ LimitFilter(l, n) \in filters'[i]
                     \/ <<l, i>> \in todo
                     \/ <<l, i>> \in now /\ n \in matches'
    <3>0. i \in Iface
      BY <2>4 DEF Sound
    <3>1. CASE i = w[2]
      <4>1. filters'[i] = filters[i] \cup {LimitFilter(w[1], m)}
        BY <2>1, <2>2, <3>1 DEF TreeType
      <4>2. LimitFilter(w[1], m) \in Wanted(policy, i)
        BY <2>1, <2>2, <3>0, <3>1, WantedFilters
      <4>3. QED BY <2>1, <2>2, <2>3, <2>4, <3>1, <4>1, <4>2 DEF Limits
    <3>2. CASE i # w[2]
      <4>1. filters'[i] = filters[i]
        BY <2>1, <3>0, <3>2 DEF TreeType
      <4>2. QED BY <2>1, <2>2, <2>3, <2>4, <3>2, <4>1 DEF Limits
    <3>3. QED BY <3>1, <3>2
  <2>5. QED BY <2>3, <2>4 DEF Limits, Sound, Throttled
<1>4. CASE LimitApplied
  BY <1>4 DEF LimitApplied, Limits, Sound, Throttled
<1>5. CASE LimitFails
  <2>1. PICK w \in LimitWork(policy) :
          /\ broken' = broken \cup {w[2]} /\ ignored \subseteq ignored'
          /\ todo' = todo \ {w} /\ now \subseteq {w}
          /\ \A i \in Iface \ {w[2]} :
                tree'[i] = tree[i] /\ filters'[i] = filters[i]
    BY <1>5, OthersKept
  <2>2. w = <<w[1], w[2]>>
    BY <2>1, WorkOf
  <2>3. stage \in {"limits", "match"} /\ UNCHANGED policy
    BY <1>5 DEF LimitFails
  <2>4. QED BY <2>1, <2>2, <2>3 DEF Limits, Sound, Throttled
<1>6. CASE \/ Sync \/ EnsureQdisc \/ ClearFilters \/ AllPrepared \/ AddFilter \/ Throw \/ Return
  BY <1>6 DEF Sync, EnsureQdisc, ClearFilters, AllPrepared, AddFilter, Throw, Return, Limits
<1>7. CASE UNCHANGED vars
  BY <1>7 DEF vars, Limits, Sound, Throttled
<1>8. QED
  BY <1>1, <1>2, <1>3, <1>4, <1>5, <1>6, <1>7 DEF Next, Step

----------------------------------------------------------------------------
\* What a call that returned has done.

LEMMA ReturnShapes ==
    ASSUME IInv, Return
    PROVE  OkMeansShaped' /\ NoHalfLimit'
<1>1. /\ stage = "limits" /\ todo = {} /\ now = {}
      /\ UNCHANGED <<policy, tree, filters, broken, ignored>>
  BY DEF Return, IInv, Loops, kernel, ghosts
<1>2. ASSUME NEW i \in Sound
      PROVE  tree[i] /\ filters[i] = Wanted(policy, i)
  <2>1. /\ tree[i] /\ Throttled(i) \subseteq filters[i] /\ filters[i] \subseteq Wanted(policy, i)
        /\ \A l \in policy.limits : i \in l.ifaces =>
              \A m \in l.matches : LimitFilter(l, m) \in filters[i]
    BY <1>1 DEF IInv, Limits
  <2>2. i \in Iface
    BY DEF Sound
  <2>3. Wanted(policy, i) \subseteq filters[i]
    BY <2>1, <2>2, WantedFilters
  <2>4. QED BY <2>1, <2>3
<1>3. OkMeansShaped'
  BY <1>1, <1>2 DEF OkMeansShaped, Sound
<1>4. NoHalfLimit'
  BY <1>1 DEF NoHalfLimit, IInv, Unlimited
<1>5. QED BY <1>3, <1>4

LEMMA PromisesStep == IInv /\ [Next]_vars => OkMeansShaped' /\ NoHalfLimit'
<1> SUFFICES ASSUME IInv, [Next]_vars PROVE OkMeansShaped' /\ NoHalfLimit'
  OBVIOUS
<1>1. CASE Return
  BY <1>1, ReturnShapes
<1>2. CASE Next /\ ~Return
  <2>1. verdict' # "ok"
    BY <1>2 DEF IInv, Loops, Next, Step, Sync, EnsureQdisc, ClearFilters, AllPrepared, AddFilter,
                Throw, AllThrottled, EnsureClass, AddMatch, LimitApplied, LimitFails
  <2>2. QED BY <2>1 DEF OkMeansShaped, NoHalfLimit
<1>3. CASE UNCHANGED vars
  BY <1>3 DEF IInv, OkMeansShaped, NoHalfLimit, vars, kernel, ghosts
<1>4. QED BY <1>1, <1>2, <1>3

LEMMA InvStep == IInv /\ [Next]_vars => IInv'
BY TypeStep, LoopsStep, StandingStep, UnlimitedStep, PreparedStep, ThrottlesStep, LimitsStep,
   PromisesStep DEF IInv

----------------------------------------------------------------------------
\* The rates.

LEMMA RatesStep == IInv /\ Rates /\ [Next]_vars => Rates'
<1> SUFFICES ASSUME TypeOK, PolicyType, TreeType, Loops, Rates, [Next]_vars
             PROVE  Rates'
  BY TypeParts DEF IInv
<1> USE DEF Rates, Sound, work, kernel, ghosts
<1>1. CASE AllThrottled
  BY <1>1 DEF AllThrottled, LimitWork
<1>2. CASE EnsureClass
  <2>1. PICK w \in todo :
          /\ classes' = [classes EXCEPT ![w[2]] = {k \in @ : k.class # w[1].class} \cup {w[1]}]
          /\ todo' = todo \ {w}
    BY <1>2 DEF EnsureClass
  <2>2. /\ w = <<w[1], w[2]>> /\ w[2] \in Iface
        /\ w[1] \in policy.limits /\ w[2] \in w[1].ifaces
    BY <1>2, <2>1, WorkOf DEF EnsureClass, Loops
  <2>3. stage = "limits" /\ UNCHANGED <<policy, ghosts>>
    BY <1>2 DEF EnsureClass
  <2>4. ASSUME NEW i \in Sound, NEW l \in policy.limits, i \in l.ifaces
        PROVE  HasClass(l, i)' \/ <<l, i>> \in todo'
    <3>1. CASE i = w[2]
      <4>1. classes'[i] = {k \in classes[i] : k.class # w[1].class} \cup {w[1]}
        BY <2>1, <2>2, <3>1 DEF TreeType
      <4>2. CASE l.class = w[1].class
        <5>1. w[1] \in classes'[i] \cap policy'.limits /\ SharesClass(w[1], l, i)
          BY <2>2, <2>3, <3>1, <4>1, <4>2 DEF SharesClass
        <5>2. QED BY <5>1 DEF HasClass
      <4>3. CASE l.class # w[1].class /\ <<l, i>> \notin todo
        <5>1. PICK k \in classes[i] \cap policy.limits : SharesClass(k, l, i)
          BY <2>3, <2>4, <4>3 DEF HasClass
        <5>2. k \in classes'[i] \cap policy'.limits
          BY <2>3, <4>1, <4>3, <5>1 DEF SharesClass
        <5>3. QED BY <5>1, <5>2 DEF HasClass
      <4>4. CASE l.class # w[1].class /\ <<l, i>> \in todo
        BY <2>1, <2>2, <4>4
      <4>5. QED BY <4>2, <4>3, <4>4
    <3>2. CASE i # w[2]
      <4>1. classes'[i] = classes[i]
        BY <2>1, <2>4, <3>2 DEF TreeType
      <4>2. HasClass(l, i) => HasClass(l, i)'
        BY <2>3, <4>1 DEF HasClass, SharesClass
      <4>3. QED BY <2>1, <2>2, <2>3, <2>4, <3>2, <4>2
    <3>3. QED BY <3>1, <3>2
  <2>5. QED BY <2>3, <2>4
<1>3. CASE AddMatch \/ LimitApplied
  BY <1>3 DEF AddMatch, LimitApplied, HasClass
<1>4. CASE LimitFails
  <2>1. PICK w \in LimitWork(policy) :
          /\ broken' = broken \cup {w[2]} /\ ignored \subseteq ignored' /\ todo' = todo \ {w}
          /\ \A i \in Iface \ {w[2]} : classes'[i] = classes[i]
    BY <1>4, OthersKept
  <2>2. w = <<w[1], w[2]>>
    BY <2>1, WorkOf
  <2>3. stage \in {"limits", "match"} /\ UNCHANGED policy
    BY <1>4 DEF LimitFails
  <2>4. QED BY <2>1, <2>2, <2>3 DEF HasClass
<1>5. CASE \/ Sync \/ EnsureQdisc \/ ClearFilters \/ AllPrepared \/ AddFilter \/ Throw \/ Return
  BY <1>5 DEF Sync, EnsureQdisc, ClearFilters, AllPrepared, AddFilter, Throw, Return
<1>6. CASE UNCHANGED vars
  BY <1>6 DEF vars, HasClass
<1>7. QED
  BY <1>1, <1>2, <1>3, <1>4, <1>5, <1>6 DEF Next, Step

LEMMA OwnRateStep == IInv /\ Rates /\ OwnRate /\ [Next]_vars => OwnRate'
<1> SUFFICES ASSUME Loops, Rates, OwnRate, [Next]_vars PROVE OwnRate'
  BY DEF IInv
<1>1. CASE Return
  <2>1. stage = "limits" /\ todo = {} /\ UNCHANGED <<policy, classes, broken, ignored>>
    BY <1>1 DEF Return, kernel, ghosts
  <2>2. QED BY <2>1 DEF Rates, HasClass, OwnRate, Sound
<1>2. CASE Next /\ ~Return
  <2>1. verdict' # "ok"
    BY <1>2 DEF Loops, Next, Step, Sync, EnsureQdisc, ClearFilters, AllPrepared, AddFilter,
                Throw, AllThrottled, EnsureClass, AddMatch, LimitApplied, LimitFails
  <2>2. QED BY <2>1 DEF OwnRate
<1>3. CASE UNCHANGED vars
  BY <1>3 DEF OwnRate, vars, kernel, ghosts
<1>4. QED BY <1>1, <1>2, <1>3

----------------------------------------------------------------------------
\* Every variable of the shaper keeps its type; an interface without our root
\* has no filter and no class of ours.
THEOREM TypeCorrect == Spec => []TypeOK
<1>1. IInv => TypeOK
  BY DEF IInv
<1>2. QED BY <1>1, InvInit, InvStep, PTL DEF Spec

\* Whatever policies follow one another and whatever fails, a sync() that
\* returned has given every interface exactly its filters, where no limit failed
\* and no failure was ignored (sync, clearFilters, applyDirectionalLimit).
THEOREM ReturnMeansShaped == Spec => []OkMeansShaped
<1>1. IInv => OkMeansShaped
  BY DEF IInv
<1>2. QED BY <1>1, InvInit, InvStep, PTL DEF Spec

\* Where a limit failed there is no tree left after the call, however many other
\* limits the interface has (the catch of applyDirectionalLimit).
THEOREM NoLimitIsHalf == Spec => []NoHalfLimit
<1>1. IInv => NoHalfLimit
  BY DEF IInv
<1>2. QED BY <1>1, InvInit, InvStep, PTL DEF Spec

\* The filters of every limit lead to a class that has a rate of this policy: its
\* own, or that of a limit of the same interface whose key hashes to the same class
\* id, and never one that an earlier policy has left (bandwidthClassId hashes;
\* ensureBandwidthClass replaces).
THEOREM LimitsHaveOwnRate == Spec => []OwnRate
<1>1. IInv /\ Rates /\ OwnRate /\ [Next]_vars => (IInv /\ Rates /\ OwnRate)'
  BY InvStep, RatesStep, OwnRateStep
<1>2. QED BY <1>1, InvInit, PTL DEF Spec
=============================================================================
