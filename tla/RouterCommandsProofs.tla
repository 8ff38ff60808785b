------------------------ MODULE RouterCommandsProofs ------------------------
(***************************************************************************)
(* Proofs about RouterCommands, for every number of devices, commands and  *)
(* failures and all lists of strategies.                                   *)
(***************************************************************************)
EXTENDS RouterCommands, FiniteSetTheorems, SequenceTheorems, TLAPS

----------------------------------------------------------------------------
\* The inductive invariant.

Verdict == {"pending", "ok", "failed"}

\* The types of the run, and of what it does not look at.
Typed ==
    /\ TypeOK
    /\ status \in Seq(Verdict) /\ batch \in Seq(Nat)
    /\ at \in Nat \ {0}
    /\ before \in [Slot -> Nat]
    /\ DOMAIN last = Device

\* A BLOCK_DEVICE that is about to report success has blocked its device.
BlockDone ==
    phase \in {"ack", "reack"} /\ Current.type = "BLOCK_DEVICE" /\ result
        => Blocked(Current.device)

\* A device stays blocked after a successful BLOCK_DEVICE, but for the command
\* that runs for it now.
LastBlocks ==
    \A d \in Device :
        last[d] = [type |-> "BLOCK_DEVICE", ok |-> TRUE]
                /\ (phase = "idle" \/ Current.device # d)
            => Blocked(d)

\* Only a session checks the connection and rolls back.
SessionPhases == phase \in {"check", "undo"} => Current.type = "END_GAMING_SESSION"

\* What a call of a method leaves of a device's rules.
Added(method, r) ==
    IF method \in DOMAIN Adds THEN [r EXCEPT ![Adds[method]] = @ + 1] ELSE r
TakenAway(method, r) ==
    [r EXCEPT ![Removes[method]] = IF @ = 0 THEN 0 ELSE @ - 1]

\* As long as nothing misbehaved, a session's device has the rules it started
\* with, and between a call and its rollback those of that one call besides.
SessionBalanced ==
    phase # "idle" /\ Current.type = "END_GAMING_SESSION" /\ clean =>
        /\ phase = "run" => rules[Current.device] = before
        /\ phase \in {"check", "undo"} =>
                /\ Strategies[at] \in DOMAIN STRATEGY_METHOD
                /\ rules[Current.device] = Added(STRATEGY_METHOD[Strategies[at]], before)
        /\ phase = "undo" => Strategies[at] \in DOMAIN STRATEGY_INVERSE_METHOD
        /\ phase = "ack" => result \/ rules[Current.device] = before

----------------------------------------------------------------------------
\* Lemmas about the operators.

LEMMA CommandFields ==
    ASSUME NEW c \in Command
    PROVE  /\ c.type \in Types /\ c.device \in Device
           /\ c.strategies \in StrategyLists[c.type] /\ c.strategies \in Seq(STRING)
BY CommandsAssumption DEF Command, CommandsAssumption

\* The command that runs.
LEMMA CurrentCommand ==
    ASSUME Typed, phase # "idle"
    PROVE  /\ batch # <<>> /\ Len(batch) \in Nat \ {0}
           /\ Head(batch) = batch[1] /\ Head(batch) \in DOMAIN commands
           /\ Current \in Command /\ Current.device \in Device
<1>1. batch # <<>> /\ batch \in Seq(Nat)
  BY DEF Typed, TypeOK
<1>2. Len(batch) \in Nat \ {0} /\ Head(batch) = batch[1] /\ 1 \in DOMAIN batch
  BY <1>1
<1>3. batch[1] \in DOMAIN commands /\ commands \in Seq(Command)
  BY <1>2 DEF Typed, TypeOK
<1>4. Current \in Command
  BY <1>2, <1>3 DEF Current
<1>5. QED BY <1>1, <1>2, <1>3, <1>4, CommandFields

\* The commands still to run after this one.
LEMMA Advanced ==
    ASSUME Typed, phase # "idle", Advance
    PROVE  /\ batch' \in Seq(Nat)
           /\ \A k \in DOMAIN batch' : batch'[k] \in DOMAIN commands
           /\ phase' \in {"idle", "run"}
           /\ phase' = "idle" <=> batch' = <<>>
           /\ phase' = "run" => 2 \in DOMAIN batch /\ Head(batch') = batch[2]
           /\ last' = [last EXCEPT ![Current.device] = Outcome]
<1>1. batch \in Seq(Nat) /\ batch # <<>>
  BY CurrentCommand DEF Typed
<1>2. batch' = Tail(batch)
  BY DEF Advance
<1>3. batch' \in Seq(Nat) /\ Len(batch') = Len(batch) - 1
  BY <1>1, <1>2, HeadTailProperties
<1>4. \A k \in 1..Len(batch') : batch'[k] = batch[k + 1]
  BY <1>1, <1>2, HeadTailProperties
<1>0. Len(batch) \in Nat \ {0} /\ DOMAIN batch = 1..Len(batch)
  BY <1>1, CurrentCommand
<1>5. \A k \in DOMAIN batch' : batch'[k] \in DOMAIN commands
  <2> SUFFICES ASSUME NEW k \in DOMAIN batch' PROVE batch'[k] \in DOMAIN commands
    OBVIOUS
  <2>1. DOMAIN batch' = 1..Len(batch')
    BY <1>3
  <2>2. k \in 1..Len(batch') /\ k + 1 \in DOMAIN batch
    BY <1>0, <1>3, <2>1
  <2>3. batch'[k] = batch[k + 1]
    BY <1>4, <2>2
  <2>4. \A j \in DOMAIN batch : batch[j] \in DOMAIN commands
    BY DEF Typed, TypeOK
  <2>5. QED BY <2>2, <2>3, <2>4
<1>6. Len(batch) = 1 <=> batch' = <<>>
  <2>1. batch' # <<>> => Len(batch') \in Nat \ {0}
    BY <1>3, EmptySeq
  <2>3. batch' = <<>> => Len(batch') = 0
    BY EmptySeq
  <2>2. QED BY <1>0, <1>3, <2>1, <2>3
<1>7. CASE Len(batch) = 1
  BY <1>3, <1>5, <1>6, <1>7 DEF Advance
<1>8. CASE Len(batch) # 1
  <2>1. phase' = "run"
    BY <1>8 DEF Advance, Begin
  <2>2. 2 \in DOMAIN batch /\ Len(batch') >= 1
    BY <1>1, <1>3, <1>8
  <2>3. Head(batch') = batch[2]
    BY <1>3, <1>4, <2>2
  <2>4. QED BY <1>3, <1>5, <1>6, <1>8, <2>1, <2>2, <2>3 DEF Advance
<1>9. QED BY <1>7, <1>8

\* No method both adds and removes.
LEMMA EffectCases ==
    ASSUME Typed, phase # "idle", NEW method, Effect(method)
    PROVE  /\ method \notin DOMAIN Removes =>
                rules' = [rules EXCEPT ![Current.device] = Added(method, rules[Current.device])]
           /\ method \in DOMAIN Removes =>
                rules' = [rules EXCEPT ![Current.device] =
                            TakenAway(method, rules[Current.device])]
<1>1. rules \in [Device -> [Slot -> Nat]] /\ Current.device \in Device
  BY CurrentCommand DEF Typed, TypeOK
<1>2. method \in DOMAIN Adds => method \notin DOMAIN Removes
  BY DEF Adds, Removes
<1>3. CASE method \in DOMAIN Adds
  <2>1. rules' = [rules EXCEPT ![Current.device][Adds[method]] = @ + 1]
    BY <1>2, <1>3 DEF Effect
  <2>2. QED BY <1>1, <1>2, <1>3, <2>1 DEF Added
<1>4. CASE method \in DOMAIN Removes
  <2>1. rules' = [rules EXCEPT ![Current.device][Removes[method]] = IF @ = 0 THEN 0 ELSE @ - 1]
    BY <1>2, <1>4 DEF Effect
  <2>2. QED BY <1>1, <1>4, <2>1 DEF TakenAway
<1>5. CASE method \notin DOMAIN Adds \cup DOMAIN Removes
  <2>1. rules' = rules
    BY <1>5 DEF Effect
  <2>2. QED BY <1>1, <1>5, <2>1 DEF Added
<1>6. QED BY <1>3, <1>4, <1>5

\* A call changes rules of the current command's device only.
LEMMA EffectTyped ==
    ASSUME Typed, phase # "idle", NEW method, Effect(method)
    PROVE  /\ rules' \in [Device -> [Slot -> Nat]]
           /\ \A d \in Device : d # Current.device => rules'[d] = rules[d]
<1>1. /\ rules \in [Device -> [Slot -> Nat]] /\ Current.device \in Device
      /\ rules[Current.device] \in [Slot -> Nat]
  BY CurrentCommand DEF Typed, TypeOK
<1>2. method \in DOMAIN Adds => Adds[method] \in Slot
  BY DEF Adds, Slot
<1>3. method \in DOMAIN Removes => Removes[method] \in Slot
  BY DEF Removes, Slot
<1>4. Added(method, rules[Current.device]) \in [Slot -> Nat]
  BY <1>1, <1>2 DEF Added
<1>5. method \in DOMAIN Removes => TakenAway(method, rules[Current.device]) \in [Slot -> Nat]
  BY <1>1, <1>3 DEF TakenAway
<1>6. QED BY <1>1, <1>4, <1>5, EffectCases

\* The entries of the tables.
LEMMA InverseTakesAway ==
    ASSUME NEW x \in DOMAIN STRATEGY_INVERSE_METHOD
    PROVE  /\ STRATEGY_METHOD[x] \in DOMAIN Adds
           /\ STRATEGY_INVERSE_METHOD[x] \in DOMAIN Removes
           /\ STRATEGY_INVERSE_METHOD[x] \notin DOMAIN Adds
           /\ Removes[STRATEGY_INVERSE_METHOD[x]] = Adds[STRATEGY_METHOD[x]]
           /\ Adds[STRATEGY_METHOD[x]] \in Slot
BY DEF STRATEGY_INVERSE_METHOD, STRATEGY_METHOD, Adds, Removes, Slot

\* What has no inverse leaves no rule.
LEMMA NoInverseNoRule ==
    ASSUME NEW x \in DOMAIN STRATEGY_METHOD, x \notin DOMAIN STRATEGY_INVERSE_METHOD
    PROVE  STRATEGY_METHOD[x] \notin DOMAIN Adds
BY DEF STRATEGY_INVERSE_METHOD, STRATEGY_METHOD, Adds

\* No strategy's method takes a rule away.
LEMMA StrategiesOnlyAdd ==
    ASSUME NEW x \in DOMAIN STRATEGY_METHOD
    PROVE  STRATEGY_METHOD[x] \notin DOMAIN Removes
BY DEF STRATEGY_METHOD, Removes

LEMMA StrategyAdds ==
    ASSUME Typed, phase # "idle", NEW x \in DOMAIN STRATEGY_METHOD, Effect(STRATEGY_METHOD[x])
    PROVE  rules'[Current.device] = Added(STRATEGY_METHOD[x], rules[Current.device])
<1>1. rules \in [Device -> [Slot -> Nat]] /\ Current.device \in Device
  BY CurrentCommand DEF Typed, TypeOK
<1>2. QED BY <1>1, StrategiesOnlyAdd, EffectCases

\* A rollback takes away what the call before it added.
LEMMA RollBackUndoes ==
    ASSUME Typed, phase # "idle", NEW x \in DOMAIN STRATEGY_INVERSE_METHOD,
           rules[Current.device] = Added(STRATEGY_METHOD[x], before),
           Effect(STRATEGY_INVERSE_METHOD[x])
    PROVE  rules'[Current.device] = before
<1> DEFINE s == Adds[STRATEGY_METHOD[x]]
           now == rules[Current.device]
<1>1. /\ rules \in [Device -> [Slot -> Nat]] /\ Current.device \in Device
      /\ before \in [Slot -> Nat]
  BY CurrentCommand DEF Typed, TypeOK
<1>2. s \in Slot /\ now = [before EXCEPT ![s] = @ + 1]
  BY InverseTakesAway DEF Added
<1>3. rules'[Current.device] = [now EXCEPT ![s] = IF @ = 0 THEN 0 ELSE @ - 1]
  BY <1>1, InverseTakesAway, EffectCases DEF TakenAway
<1> HIDE DEF s, now
<1>4. now[s] = before[s] + 1 /\ before[s] \in Nat
  BY <1>1, <1>2
<1>5. [now EXCEPT ![s] = IF @ = 0 THEN 0 ELSE @ - 1] = before
  <2>1. (IF now[s] = 0 THEN 0 ELSE now[s] - 1) = before[s]
    BY <1>4
  <2>2. [now EXCEPT ![s] = before[s]] = before
    BY <1>1, <1>2
  <2>3. QED BY <2>1, <2>2
<1>6. QED BY <1>3, <1>5

----------------------------------------------------------------------------
\* The types.

LEMMA InitTyped == Init => Typed
<1> SUFFICES ASSUME Init PROVE Typed
  OBVIOUS
<1>1. NoRules \in [Slot -> Nat]
  BY DEF NoRules
<1>2. 0 \in 0..MaxFaults
  BY CommandsAssumption DEF CommandsAssumption
<1>3. <<>> \in Seq(Command) /\ <<>> \in Seq(Verdict) /\ <<>> \in Seq(Nat) /\ DOMAIN <<>> = {}
  BY EmptySeq
<1>4. rules \in [Device -> [Slot -> Nat]] /\ before \in [Slot -> Nat]
  BY <1>1 DEF Init
<1>5. TypeOK
  BY <1>2, <1>3, <1>4 DEF Init, TypeOK
<1>6. QED BY <1>3, <1>4, <1>5 DEF Init, Typed

\* What Fetch takes is a list of commands that are there.
LEMMA Fetched ==
    ASSUME Typed, Fetch
    PROVE  /\ batch' \in Seq(Nat) /\ batch' # <<>>
           /\ \A k \in DOMAIN batch' : batch'[k] \in DOMAIN commands
           /\ Head(batch') = batch'[1] /\ 1 \in DOMAIN batch'
           /\ before' = rules[commands[batch'[1]].device]
<1> DEFINE pending == {i \in DOMAIN status : status[i] = "pending"}
<1>1. /\ status \in Seq(Verdict) /\ DOMAIN status = 1..Len(status) /\ Len(status) \in Nat
      /\ DOMAIN commands = DOMAIN status
  <2>1. status \in Seq(Verdict) /\ commands \in Seq(Command) /\ Len(status) = Len(commands)
    BY DEF Typed, TypeOK
  <2>2. QED BY <2>1, LenProperties
<1>2. IsFiniteSet(pending) /\ pending # {}
  <2>1. IsFiniteSet(DOMAIN status)
    BY <1>1, FS_Interval
  <2>2. QED BY <2>1, FS_Subset DEF Fetch
<1>3. Cardinality(pending) \in Nat \ {0}
  BY <1>2, FS_CardinalityType, FS_EmptySet
<1>4. PICK b \in [1..Cardinality(pending) -> pending] :
            batch' = b /\ before' = rules[commands[b[1]].device]
  BY DEF Fetch
<1>5. pending \subseteq Nat /\ pending \subseteq DOMAIN commands
  BY <1>1
<1> HIDE DEF pending
<1>6. b \in Seq(Nat) /\ b # <<>> /\ DOMAIN b = 1..Cardinality(pending)
  <2>1. b \in Seq(pending)
    BY <1>3
  <2>2. b \in Seq(Nat)
    BY <1>5, <2>1, SeqMonotonic
  <2>3. DOMAIN b = 1..Cardinality(pending)
    OBVIOUS
  <2>4. 1 \in DOMAIN b
    BY <1>3, <2>3
  <2>5. b # <<>>
    <3>1. DOMAIN <<>> = {}
      OBVIOUS
    <3>2. QED BY <2>4, <3>1
  <2>6. QED BY <2>2, <2>3, <2>5
<1>7. 1 \in DOMAIN b /\ \A k \in DOMAIN b : b[k] \in DOMAIN commands
  BY <1>3, <1>5, <1>6
<1>8. Head(b) = b[1]
  BY <1>6
<1>9. QED BY <1>4, <1>6, <1>7, <1>8

LEMMA RecordTyped ==
    ASSUME Typed, phase # "idle", NEW ok, Record(ok)
    PROVE  /\ status' \in Seq(Verdict) /\ Len(status') = Len(status)
           /\ \A i \in DOMAIN status' : status'[i] \in {"pending", "ok", "failed"}
<1>1. status \in Seq(Verdict) /\ commands \in Seq(Command) /\ Len(status) = Len(commands)
  BY DEF Typed, TypeOK
<1>2. DOMAIN status = DOMAIN commands
  BY <1>1, LenProperties
<1>3. Head(batch) \in 1..Len(status)
  BY <1>1, <1>2, CurrentCommand, LenProperties
<1>4. status' = [status EXCEPT ![Head(batch)] = IF ok THEN "ok" ELSE "failed"]
  BY DEF Record
<1>5. (IF ok THEN "ok" ELSE "failed") \in Verdict
  BY DEF Verdict
<1>6. QED
  <2>1. status' \in Seq(Verdict) /\ Len(status') = Len(status)
    BY <1>1, <1>3, <1>4, <1>5, ExceptSeq
  <2>2. \A i \in DOMAIN status' : status'[i] \in {"pending", "ok", "failed"}
    BY <1>4 DEF Typed, TypeOK
  <2>3. QED BY <2>1, <2>2

LEMMA NextTyped == Typed /\ [Next]_vars => Typed'
<1> SUFFICES ASSUME Typed, [Next]_vars PROVE Typed'
  OBVIOUS
<1>f. ASSUME NEW kind, Fault(kind) PROVE faults' \in 0..MaxFaults
  BY <1>f, CommandsAssumption DEF Fault, Typed, TypeOK, CommandsAssumption
<1>c. ASSUME NEW method, NEW ok \in BOOLEAN, Call(method, ok), phase = "run"
      PROVE  /\ rules' \in [Device -> [Slot -> Nat]]
             /\ clean' \in BOOLEAN /\ faults' \in 0..MaxFaults
  <2>1. CASE Effect(method)
    BY <1>c, <1>f, <2>1, EffectTyped DEF Call, Typed, TypeOK
  <2>2. CASE UNCHANGED rules
    BY <1>c, <1>f, <2>2 DEF Call, Typed, TypeOK
  <2>3. QED BY <1>c, <2>1, <2>2 DEF Call
<1>1. CASE Queue
  <2>1. PICK c \in Command : commands' = Append(commands, c)
    BY <1>1 DEF Queue
  <2>2. status' = Append(status, "pending")
    BY <1>1 DEF Queue
  <2>3. commands \in Seq(Command) /\ status \in Seq(Verdict) /\ Len(status) = Len(commands)
    BY DEF Typed, TypeOK
  <2>4. commands' \in Seq(Command) /\ Len(commands') = Len(commands) + 1
    BY <2>1, <2>3, AppendProperties
  <2>5. status' \in Seq(Verdict) /\ Len(status') = Len(status) + 1
    <3>1. "pending" \in Verdict
      BY DEF Verdict
    <3>2. QED BY <2>2, <2>3, <3>1, AppendProperties
  <2>6. DOMAIN commands \subseteq DOMAIN commands'
    BY <2>3, <2>4, LenProperties
  <2>7. \A i \in DOMAIN status' : status'[i] \in {"pending", "ok", "failed"}
    <3> SUFFICES ASSUME NEW i \in DOMAIN status' PROVE status'[i] \in {"pending", "ok", "failed"}
      OBVIOUS
    <3>1. i \in 1..Len(status) \/ i = Len(status) + 1
      BY <2>3, <2>5, LenProperties
    <3>2. /\ status'[Len(status) + 1] = "pending"
          /\ \A j \in 1..Len(status) : status'[j] = status[j] /\ j \in DOMAIN status
      <4>1. "pending" \in Verdict
        BY DEF Verdict
      <4>2. QED BY <2>2, <2>3, <4>1, AppendProperties, LenProperties
    <3>3. QED BY <3>1, <3>2 DEF Typed, TypeOK
  <2>8. QED
    BY <1>1, <2>3, <2>4, <2>5, <2>6, <2>7 DEF Queue, Typed, TypeOK, ghosts
<1>2. CASE Fetch
  <2>1. before' \in [Slot -> Nat]
    <3>1. commands[batch'[1]] \in Command
      BY <1>2, Fetched DEF Typed, TypeOK
    <3>2. QED BY <1>2, <3>1, Fetched, CommandFields DEF Typed, TypeOK
  <2>2. phase' = "run" /\ at' = 1 /\ clean' = TRUE
    BY <1>2 DEF Fetch, Begin
  <2>3. UNCHANGED <<commands, status, result, rules, last, faults>>
    BY <1>2 DEF Fetch, queue
  <2>4. QED BY <1>2, <2>1, <2>2, <2>3, Fetched DEF Typed, TypeOK
<1>3. CASE Exhausted
  BY <1>3 DEF Exhausted, Finish, Typed, TypeOK, queue, ghosts
<1>4. CASE Skip
  BY <1>4 DEF Skip, Typed, TypeOK, queue, ghosts
<1>5. CASE Try
  <2>1. PICK ok \in BOOLEAN :
            /\ Call(Methods[Strategies[at]], ok)
            /\ IF ok THEN /\ at' = at
                          /\ IF Current.type = "END_GAMING_SESSION"
                             THEN phase' = "check" /\ UNCHANGED result
                             ELSE Finish(TRUE)
                     ELSE at' = at + 1 /\ UNCHANGED <<phase, result>>
    BY <1>5 DEF Try
  <2>2. /\ rules' \in [Device -> [Slot -> Nat]]
        /\ clean' \in BOOLEAN /\ faults' \in 0..MaxFaults
    BY <1>5, <1>c, <2>1 DEF Try
  <2>3. /\ phase = "run" /\ UNCHANGED <<commands, status, batch, before, last>>
    BY <1>5 DEF Try, queue, ghosts
  <2>4. at \in Nat \ {0} /\ result \in BOOLEAN
    BY DEF Typed, TypeOK
  <2>5. phase' \in {"run", "check", "ack"} /\ at' \in Nat \ {0} /\ result' \in BOOLEAN
    <3>1. CASE ok
      BY <2>1, <2>4, <3>1 DEF Finish
    <3>2. CASE ~ok
      BY <2>1, <2>3, <2>4, <3>2
    <3>3. QED BY <3>1, <3>2
  <2>6. QED BY <2>2, <2>3, <2>5 DEF Typed, TypeOK
<1>6. CASE CheckConnectivity
  <2>1. phase = "check" /\ UNCHANGED <<commands, status, batch, rules, before, last, clean, faults>>
    BY <1>6 DEF CheckConnectivity, queue, ghosts
  <2>2. at \in Nat \ {0} /\ result \in BOOLEAN
    BY DEF Typed, TypeOK
  <2>3. phase' \in {"run", "undo", "ack"} /\ at' \in Nat \ {0} /\ result' \in BOOLEAN
    <3>1. CASE Finish(TRUE) /\ UNCHANGED at
      BY <2>2, <3>1 DEF Finish
    <3>2. CASE UNCHANGED result /\ phase' \in {"run", "undo"} /\ (at' = at \/ at' = at + 1)
      BY <2>2, <3>2
    <3>3. QED BY <1>6, <3>1, <3>2 DEF CheckConnectivity
  <2>4. QED BY <2>1, <2>3 DEF Typed, TypeOK
<1>7. CASE RollBack
  <2>1. rules' \in [Device -> [Slot -> Nat]]
    BY <1>7, EffectTyped DEF RollBack, Typed, TypeOK
  <2>2. clean' \in BOOLEAN /\ faults' \in 0..MaxFaults
    BY <1>7, <1>f DEF RollBack, Typed, TypeOK
  <2>3. QED BY <1>7, <2>1, <2>2 DEF RollBack, Typed, TypeOK, queue, ghosts
<1>8. CASE Throw
  BY <1>8, <1>f DEF Throw, Typed, TypeOK, queue, ghosts
<1>a. ASSUME phase # "idle", Advance, commands' = commands, rules' = rules, result' = result,
             faults' \in 0..MaxFaults, status' \in Seq(Verdict), Len(status') = Len(status),
             \A i \in DOMAIN status' : status'[i] \in {"pending", "ok", "failed"}
      PROVE  Typed'
  <2>1. before' \in [Slot -> Nat] /\ at' \in Nat \ {0} /\ clean' \in BOOLEAN
    <3>1. CASE Len(batch) = 1
      BY <1>a, <3>1 DEF Advance, Typed, TypeOK
    <3>2. CASE Len(batch) # 1
      <4>1. phase' = "run" /\ at' = 1 /\ clean' = TRUE
            /\ before' = rules[commands[batch[2]].device]
        BY <1>a, <3>2 DEF Advance, Begin
      <4>2. batch[2] \in DOMAIN commands
        BY <1>a, <4>1, Advanced DEF Typed, TypeOK
      <4>3. commands[batch[2]] \in Command
        BY <4>2 DEF Typed, TypeOK
      <4>4. QED BY <4>1, <4>3, CommandFields DEF Typed, TypeOK
    <3>3. QED BY <3>1, <3>2
  <2>2. DOMAIN last' = Device
    BY <1>a, Advanced DEF Typed
  <2>3. QED BY <1>a, <2>1, <2>2, Advanced DEF Typed, TypeOK
<1>9. CASE Ack
  <2>1. CASE Record(result) /\ Advance /\ UNCHANGED faults
    BY <1>9, <1>a, <2>1, RecordTyped DEF Ack, Typed, TypeOK
  <2>2. CASE /\ Fault("ack")
             /\ Record(result) \/ UNCHANGED status
             /\ phase' = "reack"
             /\ UNCHANGED <<batch, at, clean, ghosts>>
    <3>1. /\ status' \in Seq(Verdict) /\ Len(status') = Len(status)
          /\ \A i \in DOMAIN status' : status'[i] \in {"pending", "ok", "failed"}
      BY <1>9, <2>2, RecordTyped DEF Ack, Typed, TypeOK
    <3>2. batch # <<>>
      BY <1>9, CurrentCommand DEF Ack
    <3>3. QED BY <1>9, <1>f, <2>2, <3>1, <3>2 DEF Ack, Typed, TypeOK, ghosts
  <2>3. QED BY <1>9, <2>1, <2>2 DEF Ack
<1>10. CASE Reack
  <2>1. /\ faults' \in 0..MaxFaults /\ status' \in Seq(Verdict) /\ Len(status') = Len(status)
        /\ \A i \in DOMAIN status' : status'[i] \in {"pending", "ok", "failed"}
    BY <1>10, <1>f, RecordTyped DEF Reack, ackFailure, Typed, TypeOK
  <2>2. QED BY <1>10, <1>a, <2>1 DEF Reack
<1>11. CASE Restart
  <2>1. <<>> \in Seq(Nat) /\ DOMAIN <<>> = {}
    BY EmptySeq
  <2>2. faults' \in 0..MaxFaults
    BY <1>11, <1>f DEF Restart
  <2>3. QED BY <1>11, <2>1, <2>2 DEF Restart, Typed, TypeOK, queue
<1>12. CASE FetchNothing \/ UNCHANGED vars
  BY <1>12 DEF FetchNothing, vars, queue, ghosts, Typed, TypeOK
<1>13. QED
  BY <1>1, <1>2, <1>3, <1>4, <1>5, <1>6, <1>7, <1>8, <1>9, <1>10, <1>11, <1>12
     DEF Next, Step

LEMMA InvariantTyped == Spec => []Typed
BY InitTyped, NextTyped, PTL DEF Spec

\* Every variable of the executor keeps its type.
THEOREM CommandsTypeCorrect == Spec => []TypeOK
<1>1. Typed => TypeOK
  BY DEF Typed
<1>2. QED BY <1>1, InvariantTyped, PTL

----------------------------------------------------------------------------
\* What the steps have in common.

\* The command that runs is not disturbed by one that is queued.
LEMMA QueueKeepsCurrent ==
    ASSUME Typed, Queue, phase # "idle"
    PROVE  Current' = Current
<1>1. PICK c \in Command : commands' = Append(commands, c)
  BY DEF Queue
<1>2. commands \in Seq(Command) /\ Head(batch) \in 1..Len(commands)
  BY CurrentCommand, LenProperties DEF Typed, TypeOK
<1>3. commands'[Head(batch)] = commands[Head(batch)]
  BY <1>1, <1>2, AppendProperties
<1>4. batch' = batch
  BY DEF Queue
<1>5. QED BY <1>3, <1>4 DEF Current

\* A command is a single session, and a list of its own strategies.
LEMMA ListOf ==
    ASSUME Typed, phase # "idle", Current.type \in {"BLOCK_DEVICE", "END_GAMING_SESSION"}
    PROVE  /\ Methods = STRATEGY_METHOD /\ Strategies = Current.strategies
           /\ Current.strategies \in StrategyLists[Current.type] /\ Strategies \in Seq(STRING)
<1>1. Current \in Command
  BY CurrentCommand
<1>2. Methods = STRATEGY_METHOD
  BY DEF Methods
<1>3. Strategies = Current.strategies
  BY DEF Strategies, Listed
<1>4. QED BY <1>1, <1>2, <1>3, CommandFields

\* What Try does to a session's or a block's rules.
LEMMA Tried ==
    ASSUME Typed, Try, Current.type \in {"BLOCK_DEVICE", "END_GAMING_SESSION"}
    PROVE  /\ Strategies[at] \in DOMAIN STRATEGY_METHOD
           /\ \/ /\ phase' \in {"check", "ack"} /\ at' = at
                 /\ Effect(STRATEGY_METHOD[Strategies[at]]) /\ clean' = clean
              \/ phase' = "run" /\ rules' = rules /\ clean' = clean
              \/ phase' = "run" /\ clean' = FALSE
<1>1. Methods = STRATEGY_METHOD
  BY ListOf DEF Try
<1>2. PICK ok \in BOOLEAN :
          /\ Call(STRATEGY_METHOD[Strategies[at]], ok)
          /\ IF ok THEN /\ at' = at
                        /\ IF Current.type = "END_GAMING_SESSION"
                           THEN phase' = "check" /\ UNCHANGED result
                           ELSE Finish(TRUE)
                   ELSE at' = at + 1 /\ UNCHANGED <<phase, result>>
  BY <1>1 DEF Try
<1>3. phase = "run"
  BY DEF Try
<1>4. CASE ok
  <2>1. Effect(STRATEGY_METHOD[Strategies[at]]) /\ clean' = clean
    BY <1>2, <1>4 DEF Call
  <2>2. phase' \in {"check", "ack"} /\ at' = at
    BY <1>2, <1>4 DEF Finish
  <2>3. QED BY <1>1, <2>1, <2>2 DEF Try
<1>5. CASE ~ok
  <2>1. phase' = "run"
    BY <1>2, <1>3, <1>5
  <2>2. (rules' = rules /\ clean' = clean) \/ clean' = FALSE
    BY <1>2, <1>5 DEF Call
  <2>3. QED BY <1>1, <2>1, <2>2 DEF Try
<1>6. QED BY <1>4, <1>5

\* Try leaves the other devices alone.
LEMMA TrySpares ==
    ASSUME Typed, Try, NEW d \in Device, d # Current.device
    PROVE  rules'[d] = rules[d]
<1>1. PICK ok \in BOOLEAN : Call(Methods[Strategies[at]], ok)
  BY DEF Try
<1>2. Effect(Methods[Strategies[at]]) \/ rules' = rules
  BY <1>1 DEF Call
<1>3. phase # "idle"
  BY DEF Try
<1>4. QED BY <1>2, <1>3, EffectTyped

LEMMA NextSessionPhases == Typed /\ SessionPhases /\ [Next]_vars => SessionPhases'
<1> SUFFICES ASSUME Typed, SessionPhases, [Next]_vars PROVE SessionPhases'
  OBVIOUS
<1> USE DEF SessionPhases
<1>1. CASE Queue
  BY <1>1, QueueKeepsCurrent DEF Queue
<1>2. CASE Try
  <2>1. UNCHANGED <<commands, batch>>
    BY <1>2 DEF Try, queue
  <2>2. phase' = "check" => Current.type = "END_GAMING_SESSION"
    BY <1>2 DEF Try, Finish
  <2>3. phase' # "undo"
    BY <1>2 DEF Try, Finish
  <2>4. QED BY <2>1, <2>2, <2>3 DEF Current
<1>3. CASE CheckConnectivity
  <2>1. UNCHANGED <<commands, batch>> /\ phase = "check"
    BY <1>3 DEF CheckConnectivity, queue
  <2>2. QED BY <2>1 DEF Current
<1>4. CASE UNCHANGED vars
  BY <1>4 DEF vars, queue, Current
<1>5. CASE Fetch \/ Exhausted \/ Skip \/ RollBack \/ Throw \/ Restart
  <2>1. phase' \notin {"check", "undo"}
    BY <1>5 DEF Fetch, Begin, Exhausted, Finish, Skip, RollBack, Throw, Restart
  <2>2. QED BY <2>1
<1>6. CASE Ack \/ Reack
  <2>1. phase # "idle"
    BY <1>6 DEF Ack, Reack
  <2>2. phase' = "reack" \/ Advance
    BY <1>6 DEF Ack, Reack
  <2>3. phase' \notin {"check", "undo"}
    BY <2>1, <2>2, Advanced
  <2>4. QED BY <2>3
<1>7. QED
  BY <1>1, <1>2, <1>3, <1>4, <1>5, <1>6 DEF Next, Step, FetchNothing

----------------------------------------------------------------------------
\* Blocks.

\* The lists the backend sends with a block hold strategies that block.
BlocksAreListed ==
    \A s \in StrategyLists["BLOCK_DEVICE"] : \A i \in DOMAIN s :
        s[i] \in DOMAIN STRATEGY_METHOD => STRATEGY_METHOD[s[i]] \in DOMAIN Adds

\* A strategy that adds a rule blocks the device.
LEMMA AddingBlocks ==
    ASSUME Typed, phase # "idle", NEW x \in DOMAIN STRATEGY_METHOD,
           STRATEGY_METHOD[x] \in DOMAIN Adds, Effect(STRATEGY_METHOD[x])
    PROVE  \E q \in Slot : rules'[Current.device][q] > 0
<1> DEFINE s == Adds[STRATEGY_METHOD[x]]
<1>1. rules[Current.device] \in [Slot -> Nat]
  BY CurrentCommand DEF Typed, TypeOK
<1>2. s \in Slot
  BY DEF Adds, Slot
<1>3. rules'[Current.device] = [rules[Current.device] EXCEPT ![s] = @ + 1]
  BY StrategyAdds DEF Added
<1> HIDE DEF s
<1>4. rules'[Current.device][s] > 0
  BY <1>1, <1>2, <1>3
<1>5. QED BY <1>2, <1>4

LEMMA InitBlocks == Init => SessionPhases /\ BlockDone /\ LastBlocks
BY DEF Init, SessionPhases, BlockDone, LastBlocks, NoCommand

LEMMA NextBlockDone ==
    ASSUME BlocksAreListed
    PROVE  Typed /\ SessionPhases /\ BlockDone /\ [Next]_vars => BlockDone'
<1> SUFFICES ASSUME Typed, SessionPhases, BlockDone, [Next]_vars,
                    phase' \in {"ack", "reack"}, Current'.type = "BLOCK_DEVICE", result'
             PROVE  \E q \in Slot : rules'[Current'.device][q] > 0
  BY DEF BlockDone, Blocked
<1> DEFINE Done == \E q \in Slot : rules[Current.device][q] > 0
<1>1. ASSUME phase \in {"ack", "reack"}, Current' = Current, rules' = rules, result' = result
      PROVE  \E q \in Slot : rules'[Current'.device][q] > 0
  BY <1>1 DEF BlockDone, Blocked
<1>2. CASE Queue
  BY <1>1, <1>2, QueueKeepsCurrent DEF Queue
<1>3. CASE Try
  <2>1. Current' = Current /\ phase = "run"
    BY <1>3 DEF Try, queue, Current
  <2>2. Strategies[at] \in DOMAIN STRATEGY_METHOD /\ Effect(STRATEGY_METHOD[Strategies[at]])
    BY <1>3, <2>1, Tried
  <2>3. STRATEGY_METHOD[Strategies[at]] \in DOMAIN Adds
    <3>1. Strategies \in StrategyLists["BLOCK_DEVICE"] /\ Strategies \in Seq(STRING)
      BY <2>1, ListOf
    <3>2. at \in DOMAIN Strategies
      BY <1>3, <3>1 DEF Try, Typed
    <3>3. QED BY <2>2, <3>1, <3>2 DEF BlocksAreListed
  <2>4. QED BY <2>1, <2>2, <2>3, AddingBlocks
<1>4. CASE CheckConnectivity
  <2>1. Current' = Current /\ phase = "check"
    BY <1>4 DEF CheckConnectivity, queue, Current
  <2>2. QED BY <2>1 DEF SessionPhases
<1>5. CASE Exhausted \/ Throw
  BY <1>5 DEF Exhausted, Finish, Throw
<1>6. CASE Fetch \/ Skip \/ RollBack \/ Restart
  BY <1>6 DEF Fetch, Begin, Skip, RollBack, Restart
<1>7. CASE Ack \/ Reack
  <2>1. phase \in {"ack", "reack"} /\ UNCHANGED <<commands, result, rules>>
    BY <1>7 DEF Ack, Reack
  <2>2. CASE Advance
    BY <2>1, <2>2, Advanced
  <2>3. CASE UNCHANGED batch
    BY <1>1, <2>1, <2>3 DEF Current
  <2>4. QED BY <1>7, <2>2, <2>3 DEF Ack, Reack
<1>8. CASE UNCHANGED vars
  BY <1>1, <1>8 DEF vars, queue, Current
<1>9. QED
  BY <1>2, <1>3, <1>4, <1>5, <1>6, <1>7, <1>8 DEF Next, Step, FetchNothing

LEMMA NextLastBlocks ==
    Typed /\ SessionPhases /\ BlockDone /\ LastBlocks /\ [Next]_vars => LastBlocks'
<1> SUFFICES ASSUME Typed, SessionPhases, BlockDone, LastBlocks, [Next]_vars,
                    NEW d \in Device,
                    last'[d] = [type |-> "BLOCK_DEVICE", ok |-> TRUE],
                    phase' = "idle" \/ Current'.device # d
             PROVE  \E q \in Slot : rules'[d][q] > 0
  BY DEF LastBlocks, Blocked
<1>1. ASSUME last'[d] = last[d], rules'[d] = rules[d], phase = "idle" \/ Current.device # d
      PROVE  \E q \in Slot : rules'[d][q] > 0
  BY <1>1 DEF LastBlocks, Blocked
<1>2. CASE Queue
  <2>1. phase # "idle" => Current' = Current
    BY <1>2, QueueKeepsCurrent
  <2>2. QED BY <1>1, <1>2, <2>1 DEF Queue, ghosts
<1>3. CASE Fetch
  BY <1>1, <1>3 DEF Fetch
<1>4. CASE Exhausted \/ Skip \/ CheckConnectivity \/ Throw
  <2>1. Current' = Current /\ last' = last /\ rules' = rules /\ phase' # "idle"
    BY <1>4 DEF Exhausted, Finish, Skip, CheckConnectivity, Throw, queue, ghosts, Current
  <2>2. QED BY <1>1, <2>1
<1>5. CASE Try
  <2>1. Current' = Current /\ last' = last /\ phase' # "idle"
    BY <1>5 DEF Try, Finish, queue, ghosts, Current
  <2>2. QED BY <1>1, <1>5, <2>1, TrySpares
<1>6. CASE RollBack
  <2>1. Current' = Current /\ last' = last /\ phase = "undo" /\ phase' # "idle"
    BY <1>6 DEF RollBack, queue, ghosts, Current
  <2>2. rules'[d] = rules[d]
    BY <1>6, <2>1, EffectTyped DEF RollBack
  <2>3. QED BY <1>1, <2>1, <2>2
<1>a. ASSUME phase \in {"ack", "reack"}, Advance, rules' = rules
      PROVE  \E q \in Slot : rules'[d][q] > 0
  <2>1. last' = [last EXCEPT ![Current.device] = Outcome] /\ DOMAIN last = Device
    BY <1>a, Advanced DEF Typed
  <2>2. CASE Current.device # d
    BY <1>1, <1>a, <2>1, <2>2
  <2>3. CASE Current.device = d
    <3>1. Outcome = [type |-> "BLOCK_DEVICE", ok |-> TRUE]
      BY <2>1, <2>3
    <3>2. Current.type = "BLOCK_DEVICE" /\ result = TRUE
      BY <3>1 DEF Outcome
    <3>3. QED BY <1>a, <2>3, <3>2 DEF BlockDone, Blocked
  <2>4. QED BY <2>2, <2>3
<1>7. CASE Ack \/ Reack
  <2>1. phase \in {"ack", "reack"} /\ UNCHANGED <<commands, rules>>
    BY <1>7 DEF Ack, Reack
  <2>2. CASE Advance
    BY <1>a, <2>1, <2>2
  <2>3. CASE phase' = "reack" /\ UNCHANGED <<batch, last>>
    BY <1>1, <2>1, <2>3 DEF Current
  <2>4. QED BY <1>7, <2>2, <2>3 DEF Ack, Reack, ghosts
<1>8. CASE Restart
  <2>1. last' = [last EXCEPT ![Current.device] = NoCommand] /\ rules' = rules
    BY <1>8 DEF Restart
  <2>2. Current.device # d
    BY <2>1 DEF Typed, NoCommand
  <2>3. QED BY <1>1, <2>1, <2>2 DEF Typed
<1>9. CASE UNCHANGED vars
  BY <1>1, <1>9 DEF vars, queue, ghosts, Current
<1>10. QED
  BY <1>2, <1>3, <1>4, <1>5, <1>6, <1>7, <1>8, <1>9 DEF Next, Step, FetchNothing

\* Provided the backend's lists hold strategies that block, a device stays
\* blocked from a BLOCK_DEVICE that reported success until another command ran
\* for it, whatever calls fail or lose their answers, and however often the
\* agent restarts (router-command-executor.js, runMultiStrategyAction).
THEOREM BlocksHold ==
    ASSUME BlocksAreListed
    PROVE  Spec => []BlockHolds
<1>1. Init => Typed /\ SessionPhases /\ BlockDone /\ LastBlocks
  BY InitTyped, InitBlocks
<1>2. Typed /\ SessionPhases /\ BlockDone /\ LastBlocks /\ [Next]_vars
        => (Typed /\ SessionPhases /\ BlockDone /\ LastBlocks)'
  BY NextTyped, NextSessionPhases, NextBlockDone, NextLastBlocks
<1>3. LastBlocks => BlockHolds
  BY DEF LastBlocks, BlockHolds
<1>4. QED BY <1>1, <1>2, <1>3, PTL DEF Spec

----------------------------------------------------------------------------
\* Sessions.

LEMMA InitSession == Init => SessionBalanced
BY DEF Init, SessionBalanced

LEMMA NextSession == Typed /\ SessionPhases /\ SessionBalanced /\ [Next]_vars => SessionBalanced'
<1> SUFFICES ASSUME Typed, SessionPhases, SessionBalanced, [Next]_vars,
                    phase' # "idle", Current'.type = "END_GAMING_SESSION", clean'
             PROVE  SessionBalanced'
  BY DEF SessionBalanced
<1> USE DEF SessionBalanced
<1>s. ASSUME phase # "idle", Current' = Current,
             Current.type = "END_GAMING_SESSION"
      PROVE  Strategies' = Strategies
  BY <1>s DEF Strategies, Listed
<1>1. CASE Queue
  <2>1. UNCHANGED <<phase, at, rules, before, clean, result>>
    BY <1>1 DEF Queue, ghosts
  <2>2. Current' = Current
    BY <1>1, <2>1, QueueKeepsCurrent
  <2>3. QED BY <1>s, <2>1, <2>2
<1>2. CASE Fetch
  <2>1. phase' = "run" /\ commands' = commands /\ rules' = rules
    BY <1>2 DEF Fetch, Begin, queue
  <2>2. Current' = commands[batch'[1]] /\ before' = rules[commands[batch'[1]].device]
    BY <1>2, <2>1, Fetched DEF Current
  <2>3. QED BY <2>1, <2>2
<1>3. CASE Exhausted
  <2>1. Current' = Current /\ phase = "run" /\ phase' = "ack"
        /\ UNCHANGED <<rules, before, clean>>
    BY <1>3 DEF Exhausted, Finish, queue, ghosts, Current
  <2>2. QED BY <2>1
<1>4. CASE Skip
  <2>1. Current' = Current /\ phase = "run" /\ UNCHANGED <<phase, rules, before, clean>>
    BY <1>4 DEF Skip, queue, ghosts, Current
  <2>2. QED BY <2>1
<1>5. CASE Try
  <2>1. Current' = Current /\ before' = before /\ phase = "run"
    BY <1>5 DEF Try, queue, ghosts, Current
  <2>2. phase' # "ack"
    <3>1. phase' = "ack" => Current.type # "END_GAMING_SESSION"
      BY <1>5, <2>1 DEF Try, Finish
    <3>2. QED BY <2>1, <3>1
  <2>3. CASE /\ phase' \in {"check", "ack"} /\ at' = at
             /\ Effect(STRATEGY_METHOD[Strategies[at]]) /\ clean' = clean
    <3>1. rules[Current.device] = before
      BY <2>1, <2>3
    <3>2. Strategies[at] \in DOMAIN STRATEGY_METHOD
      BY <1>5, <2>1, Tried
    <3>3. rules'[Current.device] = Added(STRATEGY_METHOD[Strategies[at]], before)
      BY <2>1, <2>3, <3>1, <3>2, StrategyAdds
    <3>4. Strategies' = Strategies
      BY <1>s, <2>1
    <3>5. phase' = "check"
      BY <2>2, <2>3
    <3>6. QED BY <2>1, <2>3, <3>2, <3>3, <3>4, <3>5 DEF Added
  <2>4. CASE phase' = "run" /\ rules' = rules /\ clean' = clean
    BY <2>1, <2>4
  <2>5. QED BY <1>5, <2>1, <2>3, <2>4, Tried
<1>6. CASE CheckConnectivity
  <2>1. Current' = Current /\ phase = "check" /\ UNCHANGED <<rules, before, clean>>
    BY <1>6 DEF CheckConnectivity, queue, ghosts, Current
  <2>2. /\ Strategies' = Strategies /\ Strategies[at] \in DOMAIN STRATEGY_METHOD
        /\ rules[Current.device] = Added(STRATEGY_METHOD[Strategies[at]], before)
    BY <1>s, <2>1
  <2>3. CASE phase' = "ack" /\ result' = TRUE
    BY <2>3
  <2>4. CASE phase' = "undo" /\ at' = at /\ Strategies[at] \in DOMAIN STRATEGY_INVERSE_METHOD
    BY <2>1, <2>2, <2>4 DEF Added
  <2>5. CASE phase' = "run" /\ Strategies[at] \notin DOMAIN STRATEGY_INVERSE_METHOD
    BY <2>1, <2>2, <2>5, NoInverseNoRule DEF Added
  <2>6. QED BY <1>6, <2>3, <2>4, <2>5 DEF CheckConnectivity, Finish
<1>7. CASE RollBack
  <2>1. Current' = Current /\ phase = "undo" /\ phase' = "run" /\ before' = before
    BY <1>7 DEF RollBack, queue, ghosts, Current
  <2>2. Effect(STRATEGY_INVERSE_METHOD[Strategies[at]]) /\ clean' = clean
    BY <1>7 DEF RollBack
  <2>3. QED BY <2>1, <2>2, RollBackUndoes
<1>8. CASE Throw
  BY <1>8 DEF Throw
<1>9. CASE Ack \/ Reack
  <2>1. phase # "idle" /\ UNCHANGED <<commands, rules>>
    BY <1>9 DEF Ack, Reack
  <2>2. CASE phase' = "reack"
    BY <2>2
  <2>3. CASE Advance
    <3>1. phase' = "run" /\ Head(batch') = batch[2]
      BY <2>1, <2>3, Advanced
    <3>2. Current' = commands[batch[2]]
      BY <2>1, <3>1 DEF Current
    <3>3. before' = rules[commands[batch[2]].device]
      BY <2>3, <3>1 DEF Advance
    <3>4. QED BY <2>1, <3>1, <3>2, <3>3
  <2>4. QED BY <1>9, <2>2, <2>3 DEF Ack, Reack
<1>10. CASE Restart
  BY <1>10 DEF Restart
<1>11. CASE UNCHANGED vars
  <2>1. Current' = Current /\ UNCHANGED <<phase, at, rules, before, clean, result>>
    BY <1>11 DEF vars, queue, ghosts, Current
  <2>2. QED BY <1>s, <2>1
<1>12. QED
  BY <1>1, <1>2, <1>3, <1>4, <1>5, <1>6, <1>7, <1>8, <1>9, <1>10, <1>11
     DEF Next, Step, FetchNothing

\* An END_GAMING_SESSION that is about to report failure has left the device's
\* rules as it found them, whichever strategies it tried and rolled back, unless
\* a call lost its answer or a rollback failed (runEndGamingSession).
THEOREM FailedSessionsRestore == Spec => []FailedSessionRestores
<1>1. Init => Typed /\ SessionPhases /\ SessionBalanced
  BY InitTyped, InitBlocks, InitSession
<1>2. Typed /\ SessionPhases /\ SessionBalanced /\ [Next]_vars
        => (Typed /\ SessionPhases /\ SessionBalanced)'
  BY NextTyped, NextSessionPhases, NextSession
<1>3. SessionBalanced => FailedSessionRestores
  BY DEF SessionBalanced, FailedSessionRestores
<1>4. QED BY <1>1, <1>2, <1>3, PTL DEF Spec

----------------------------------------------------------------------------
\* Acknowledgements.

LEMMA RecordsResult ==
    ASSUME NEW ok, Record(ok), NEW i \in DOMAIN status, status'[i] = "ok", status[i] # "ok"
    PROVE  ok
BY DEF Record

\* The backend records a success only while the executor acknowledges a command
\* that succeeded: neither the acknowledgement sent again nor a command queued,
\* fetched twice or cut off makes one (ackFailure, sync).
THEOREM SuccessesAreTrue == Spec => NoFalseSuccess
<1> DEFINE Recorded ==
        \A i \in DOMAIN status :
            status'[i] = "ok" /\ status[i] # "ok" => result /\ phase = "ack"
<1>1. Typed /\ [Next]_vars => Recorded
  <2> SUFFICES ASSUME Typed, [Next]_vars, NEW i \in DOMAIN status,
                      status'[i] = "ok", status[i] # "ok"
               PROVE  result /\ phase = "ack"
    OBVIOUS
  <2>1. ~Queue
    <3> SUFFICES ASSUME Queue PROVE FALSE
      OBVIOUS
    <3>1. status \in Seq(Verdict) /\ "pending" \in Verdict /\ i \in 1..Len(status)
      BY LenProperties DEF Typed, Verdict
    <3>2. status'[i] = status[i]
      BY <3>1, AppendProperties DEF Queue
    <3>3. QED BY <3>2
  <2>2. ~(Fetch \/ FetchNothing \/ Exhausted \/ Skip \/ Try \/ CheckConnectivity \/ RollBack
            \/ Throw \/ Restart \/ UNCHANGED vars)
    <3>1. status' # status
      OBVIOUS
    <3>2. QED
      BY <3>1 DEF Fetch, FetchNothing, Exhausted, Skip, Try, CheckConnectivity, RollBack,
                  Throw, Restart, vars, queue
  <2>3. ~Reack
    BY RecordsResult DEF Reack, ackFailure
  <2>4. Ack
    BY <2>1, <2>2, <2>3 DEF Next, Step
  <2>5. Record(result) /\ phase = "ack"
    BY <2>4 DEF Ack
  <2>6. QED BY <2>5, RecordsResult
<1>2. Typed /\ [Next]_vars => [Recorded]_vars
  BY <1>1
<1>3. QED BY <1>2, InvariantTyped, PTL DEF Spec, NoFalseSuccess
=============================================================================
