--------------------------- MODULE HostCycleProofs ---------------------------
(***************************************************************************)
(* The inductive invariant of the calls on a whole cycle, for every number *)
(* of arcs, every admissible schedule and any number of bad inputs.        *)
(***************************************************************************)
EXTENDS HostCycle, TLAPS

\* The schedule has at least three arcs.
LEMMA Numbers == N \in Nat /\ N >= 3
BY ScheduleAssumption DEF Admissible

\* The ledger of the arc that step s of a recovery settles.
Turn(s) == ledgers[RecoveryArc(s)]

\* A withdrawal holds the signature of its level.
Sound(l) == l \in Ledger /\ (l.state = "WITHDRAWN" => l.withdrawal = PreSignature(l.level))
AllSound == \A i \in Arc : Sound(ledgers[i])

Open(l) == l.state \in {"LOCKED", "WITHDRAWN"}

\* What host_withdraw_cycle accepts.
WithdrawShape == \A i \in Arc : Open(ledgers[i]) /\ ledgers[i].level = 0

\* What host_recover_cycle accepts: some arcs withdrawn at the level of their
\* step, at most one on its way to that level, and the others untouched.
RecoverShape ==
    /\ \A s \in Arc : /\ Open(Turn(s))
                      /\ Turn(s).state = "WITHDRAWN" => Turn(s).level = s
                      /\ Turn(s).level <= s
    /\ \A r, s \in Arc : r < s /\ Turn(r).state # "WITHDRAWN" =>
                            Turn(s).state # "WITHDRAWN" /\ Turn(s).level = 0

RefundShape == \A i \in Arc : ledgers[i].state \in {"LOCKED", "REFUNDED"}

\* What a function has done so far.
CallInv ==
    /\ call.fn = "idle" => call = Idle
    /\ call.fn # "idle" => call.fn \in mode /\ result = "none"
    /\ call.fn = "withdraw" => \A i \in Arc : i < call.step => ledgers[i].state = "WITHDRAWN"
    /\ call.fn = "recover" => \A s \in Arc : s < call.step => Turn(s).state = "WITHDRAWN"
    /\ call.fn = "refund" => call.step \in Arc /\ ledgers[call.step].state = "LOCKED"

ShapeInv ==
    /\ mode = {"refund"} \/ (mode # {} /\ mode \subseteq {"withdraw", "recover"})
    /\ "refund" \in mode => RefundShape
    /\ call.fn = "withdraw" => WithdrawShape
    /\ call.fn = "recover" => RecoverShape
    /\ "refund" \notin mode /\ call.fn = "idle" =>
         ("withdraw" \in mode /\ WithdrawShape) \/ ("recover" \in mode /\ RecoverShape)

IInv == TypeOK /\ AllSound /\ CallInv /\ ShapeInv /\ OkMeansSettled
-----------------------------------------------------------------------------
\* A recovery settles every arc once.
LEMMA RecoveryOrder ==
    /\ \A s \in Arc : RecoveryArc(s) \in Arc
    /\ \A r, s \in Arc : RecoveryArc(r) = RecoveryArc(s) => r = s
    /\ \A i \in Arc : \E s \in Arc : RecoveryArc(s) = i
<1>1. \A s \in Arc : RecoveryArc(s) \in Arc
  BY Numbers DEF RecoveryArc, Arc
<1>2. \A r, s \in Arc : RecoveryArc(r) = RecoveryArc(s) => r = s
  BY Numbers DEF RecoveryArc, Arc
<1>3. ASSUME NEW i \in Arc PROVE \E s \in Arc : RecoveryArc(s) = i
  <2>1. CASE i = 0
    BY <2>1, Numbers DEF RecoveryArc, Arc
  <2>2. CASE i # 0
    <3>1. N - i \in Arc /\ RecoveryArc(N - i) = i
      BY <2>2, Numbers DEF RecoveryArc, Arc
    <3> QED
      BY <3>1
  <2> QED
    BY <2>1, <2>2
<1> QED
  BY <1>1, <1>2, <1>3

\* The pre-signature of a level's withdrawal.
LEMMA WithdrawalSignature ==
    \A s \in Arc : PreSignature(s) = [tx |-> s, key |-> s] /\ PreSignature(s) \in Signature
BY Numbers DEF PreSignature, LevelOf, IsWithdrawal, Signature, LockTx, OwnerKey, Arc

\* On sound ledgers the two acceptance tests are the two shapes.
LEMMA WithdrawAccepts == AllSound => (WithdrawReady <=> WithdrawShape)
<1> SUFFICES ASSUME AllSound PROVE WithdrawReady <=> WithdrawShape
  OBVIOUS
<1>1. ASSUME NEW i \in Arc
      PROVE  ledgers[i].level = 0 /\ (ledgers[i].state = "LOCKED" \/ ExtractAccepts(ledgers[i], PreSignature(0)))
             <=> Open(ledgers[i]) /\ ledgers[i].level = 0
  <2>1. PreSignature(0) = [tx |-> 0, key |-> 0]
    BY WithdrawalSignature, Numbers DEF Arc
  <2> QED
    BY <2>1 DEF AllSound, Sound, Open, ExtractAccepts, VerifyKey
<1> QED
  BY <1>1 DEF WithdrawReady, WithdrawShape

\* The same for host_recover_cycle.
LEMMA RecoverAccepts == AllSound => (RecoverReady <=> RecoverShape)
<1> SUFFICES ASSUME AllSound PROVE RecoverReady <=> RecoverShape
  OBVIOUS
<1> DEFINE Pending(s) == \E r \in 0 .. s - 1 : Turn(r).state # "WITHDRAWN"
           Test(s) == IF Turn(s).state = "WITHDRAWN"
                        THEN ~ Pending(s) /\ Turn(s).level = s /\ ExtractAccepts(Turn(s), PreSignature(s))
                        ELSE Turn(s).level <= s /\ (Pending(s) => Turn(s).level = 0)
<1>1. RecoverReady <=> (\A i \in Arc : Open(ledgers[i])) /\ \A s \in Arc : Test(s)
  BY DEF RecoverReady, Turn, Open
<1>2. \A s \in Arc : RecoveryArc(s) \in Arc /\ Turn(s) \in Ledger
  BY RecoveryOrder DEF AllSound, Sound, Turn
<1>3. (\A i \in Arc : Open(ledgers[i])) <=> \A s \in Arc : Open(Turn(s))
  BY RecoveryOrder DEF Turn
<1>4. ASSUME NEW s \in Arc, Turn(s).state = "WITHDRAWN", Turn(s).level = s
      PROVE  ExtractAccepts(Turn(s), PreSignature(s))
  <2>1. Turn(s).withdrawal = PreSignature(s)
    BY <1>2, <1>4 DEF AllSound, Sound, Turn
  <2> QED
    BY <1>4, <2>1, WithdrawalSignature DEF ExtractAccepts, VerifyKey
<1>5. \A s \in Arc : 0 .. s - 1 = {r \in Arc : r < s}
  BY Numbers DEF Arc
<1>6. \A s \in Arc : Pending(s) <=> \E r \in Arc : r < s /\ Turn(r).state # "WITHDRAWN"
  BY <1>5
<1>7. \A s \in Arc : Turn(s).level = s => Turn(s).level <= s
  BY Numbers DEF Arc
<1> HIDE DEF Pending
<1>8. (\A s \in Arc : Open(Turn(s)) /\ Test(s)) <=> RecoverShape
  BY <1>4, <1>6, <1>7 DEF RecoverShape, Open
<1> QED
  BY <1>1, <1>3, <1>8

\* A funded cycle has both shapes.
LEMMA InitInv == Init => IInv
<1> SUFFICES ASSUME Init PROVE IInv
  OBVIOUS
<1> USE Numbers
<1>1. CreatedTimed \in Ledger /\ CreatedTimed.state = "LOCKED" /\ CreatedTimed.level = 0
  BY DEF CreatedTimed, NewLedger, Ledger, AssetState, Level
<1>2. mode \in SUBSET Function /\ (mode = {"refund"} \/ (mode # {} /\ mode \subseteq {"withdraw", "recover"}))
  BY ModesAssumption DEF Init, Function
<1>3. TypeOK
  BY <1>1, <1>2, FaultsAssumption DEF Init, TypeOK, Idle
<1>4. AllSound
  BY <1>1 DEF Init, AllSound, Sound
<1>5. CallInv /\ OkMeansSettled
  BY DEF Init, CallInv, Idle, OkMeansSettled
<1>6. WithdrawShape /\ RefundShape
  BY <1>1 DEF Init, WithdrawShape, RefundShape, Open
<1>7. RecoverShape
  <2>1. \A s \in Arc : Turn(s) = CreatedTimed
    BY RecoveryOrder DEF Init, Turn
  <2>2. \A s \in Arc : 0 <= s
    BY DEF Arc
  <2> QED
    BY <1>1, <2>1, <2>2 DEF RecoverShape, Open
<1>8. ShapeInv
  BY <1>2, <1>6, <1>7 DEF Init, ShapeInv, Idle
<1> QED
  BY <1>3, <1>4, <1>5, <1>8 DEF IInv
-----------------------------------------------------------------------------
\* An accepted spend of arc i's ledger.
Spent(i, ordinal) ==
    /\ ledgers' = [ledgers EXCEPT ![i] = ledgers'[i]]
    /\ Sound(ledgers'[i])
    /\ ledgers[i].state = "LOCKED" /\ LevelOf(ordinal) = ledgers[i].level
    /\ IF ordinal < N THEN ledgers'[i].state = "WITHDRAWN" /\ ledgers'[i].level = ledgers[i].level
                      ELSE ledgers'[i].state = "LOCKED" /\ ledgers'[i].level = ledgers[i].level + 1

\* The call ends with an error and leaves the ledgers alone.
Failed == UNCHANGED <<ledgers, mode>> /\ call' = Idle /\ result' = "err"

\* The bad inputs still to come stay in their bound.
LEMMA InputType == ASSUME TypeOK, NEW good, Input(good) PROVE faults' \in 0 .. MaxFaults
BY FaultsAssumption DEF TypeOK, Input

\* What host_ledger_spend makes of a sound ledger when it accepts.
LEMMA SpendOf ==
    ASSUME NEW l, Sound(l), NEW ordinal \in Ordinal, NEW sig, SpendAccepts(l, ordinal, sig)
    PROVE  LET m == SpendResult(l, ordinal, sig)
           IN  /\ Sound(m) /\ l.state = "LOCKED" /\ LevelOf(ordinal) = l.level
               /\ IF ordinal < N THEN m.state = "WITHDRAWN" /\ m.level = l.level
                                 ELSE m.state = "LOCKED" /\ m.level = l.level + 1
<1>1. /\ l \in Ledger /\ l.state = "LOCKED" /\ LevelOf(ordinal) = l.level
      /\ sig = [tx |-> ordinal, key |-> l.level] /\ l.level \in Level
  BY DEF Sound, SpendAccepts, VerifyKey, Ledger
<1>2. CASE ordinal < N
  <2>1. ordinal = l.level /\ sig = PreSignature(l.level) /\ sig \in Signature
    BY <1>1, <1>2, Numbers DEF LevelOf, IsWithdrawal, PreSignature, Signature, LockTx, OwnerKey, Level
  <2>2. SpendResult(l, ordinal, sig) = [l EXCEPT !.state = "WITHDRAWN", !.withdrawal = sig]
    BY <1>2 DEF SpendResult, IsWithdrawal
  <2> QED
    BY <1>1, <1>2, <2>1, <2>2 DEF Sound, Ledger, AssetState
<1>3. CASE ~ (ordinal < N)
  <2>1. l.level + 1 \in Level
    BY <1>1, <1>3, Numbers DEF LevelOf, IsWithdrawal, Level, Ordinal
  <2>2. SpendResult(l, ordinal, sig) = [l EXCEPT !.level = l.level + 1]
    BY <1>1, <1>3 DEF SpendResult, IsWithdrawal, Ledger
  <2> QED
    BY <1>1, <1>3, <2>1, <2>2 DEF Sound, Ledger
<1> QED
  BY <1>2, <1>3

\* The same, of the ledger of one arc in the cycle.
LEMMA SpendFacts ==
    ASSUME AllSound, NEW i \in Arc, NEW ordinal \in Ordinal, NEW sig, NEW time,
           SpendAtAccepts(ledgers[i], ordinal, sig, time),
           ledgers' = [ledgers EXCEPT ![i] = SpendResult(ledgers[i], ordinal, sig)],
           TypeOK
    PROVE  Spent(i, ordinal)
<1>1. ledgers'[i] = SpendResult(ledgers[i], ordinal, sig) /\ ledgers' = [ledgers EXCEPT ![i] = ledgers'[i]]
  BY DEF TypeOK
<1>2. Sound(ledgers[i]) /\ SpendAccepts(ledgers[i], ordinal, sig)
  BY DEF AllSound, SpendAtAccepts
<1> QED
  BY <1>1, <1>2, SpendOf DEF Spent

\* A spend of a loop is accepted, or ends its call.
LEMMA AdaptFacts ==
    ASSUME TypeOK, AllSound, NEW i \in Arc, NEW ordinal \in Ordinal, NEW good \in BOOLEAN, NEW time,
           NEW nextStep, AdaptAndSpend(i, ordinal, good, time, nextStep)
    PROVE  /\ faults' \in 0 .. MaxFaults
           /\ \/ Failed
              \/ Spent(i, ordinal) /\ call' = [call EXCEPT !.step = nextStep] /\ UNCHANGED <<mode, result>>
<1>1. PICK sig : /\ sig = Adapt(ordinal, good)
                 /\ IF SpendAtAccepts(ledgers[i], ordinal, sig, time)
                      THEN /\ ledgers' = [ledgers EXCEPT ![i] = SpendResult(ledgers[i], ordinal, sig)]
                           /\ call' = [call EXCEPT !.step = nextStep]
                           /\ UNCHANGED <<mode, result>>
                      ELSE Return("err") /\ UNCHANGED ledgers
  BY DEF AdaptAndSpend
<1>2. faults' \in 0 .. MaxFaults
  BY InputType DEF AdaptAndSpend
<1> QED
  BY <1>1, <1>2, SpendFacts DEF Return, Failed

\* The ordinal of the re-lock out of a level.
LEMMA RelockOrdinal ==
    \A level \in 0 .. N - 2 : N + level \in Ordinal /\ ~ (N + level < N) /\ LevelOf(N + level) = level
BY Numbers DEF Ordinal, LevelOf, IsWithdrawal

\* The ordinal of the withdrawal at a level is the level.
LEMMA WithdrawOrdinal == \A s \in Arc : s \in Ordinal /\ s < N /\ LevelOf(s) = s
BY Numbers DEF Arc, Ordinal, LevelOf, IsWithdrawal

\* What a step does, without its inputs.
Quiet == UNCHANGED <<ledgers, mode, faults>>
Begins == Quiet /\ ((WithdrawBegin /\ WithdrawReady) \/ (RecoverBegin /\ RecoverReady))

\* Where the loop goes after an accepted spend.
Advances(i, ordinal) ==
    /\ UNCHANGED result
    /\ \/ WithdrawStep /\ i = call.step /\ ordinal = 0 /\ call' = [call EXCEPT !.step = i + 1]
       \/ RecoverFirst /\ i = 0 /\ ordinal = 0 /\ call' = [call EXCEPT !.step = 1]
       \/ RecoverRelock /\ i = RecoveryArc(call.step) /\ ordinal = N + ledgers[i].level /\ call' = call
       \/ /\ RecoverInto /\ i = RecoveryArc(call.step) /\ ordinal = ledgers[i].level
          /\ call' = [call EXCEPT !.step = call.step + 1]
       \/ RefundRelock /\ i = call.step /\ ordinal = N + ledgers[i].level /\ call' = call

\* The kinds of steps the invariants tell apart.
LEMMA StepCases ==
    ASSUME IInv, [Next]_vars
    PROVE  /\ faults' \in 0 .. MaxFaults /\ mode' = mode
           /\ \/ UNCHANGED <<ledgers, call, result>>
              \/ Failed
              \/ Begins
              \/ \E i \in Arc : RefundBegin(i) /\ ledgers[i].state = "LOCKED" /\ UNCHANGED ledgers
                                /\ call' = [fn |-> "refund", step |-> i] /\ result' = "none"
              \/ RecoverSkip \/ WithdrawReturn \/ RecoverReturn
              \/ WithdrawStep /\ Quiet
              \/ \E i \in Arc, ordinal \in Ordinal : Spent(i, ordinal) /\ Advances(i, ordinal)
              \/ RefundSign
<1> USE Numbers
<1>0. TypeOK /\ AllSound /\ CallInv /\ ShapeInv /\ call \in [fn : {"idle"} \cup Function, step : 0 .. N]
  BY DEF IInv, TypeOK
<1>1. CASE UNCHANGED vars
  BY <1>0, <1>1 DEF vars, TypeOK
<1>2. CASE WithdrawBegin
  <2>1. faults' \in 0 .. MaxFaults /\ mode' = mode /\ (Failed \/ (WithdrawReady /\ Quiet))
    BY <1>0, <1>2 DEF WithdrawBegin, Begin, Return, Failed, Quiet, TypeOK
  <2> QED
    BY <1>2, <2>1 DEF Begins
<1>3. CASE RecoverBegin
  <2>1. faults' \in 0 .. MaxFaults /\ mode' = mode /\ (Failed \/ (RecoverReady /\ Quiet))
    BY <1>0, <1>3 DEF RecoverBegin, Begin, Return, Failed, Quiet, TypeOK
  <2> QED
    BY <1>3, <2>1 DEF Begins
<1>4. ASSUME NEW i \in Arc, RefundBegin(i) PROVE UNCHANGED mode /\ faults' \in 0 .. MaxFaults
      /\ (Failed \/ (RefundBegin(i) /\ ledgers[i].state = "LOCKED" /\ UNCHANGED ledgers
                     /\ call' = [fn |-> "refund", step |-> i] /\ result' = "none"))
  <2>1. PICK good \in BOOLEAN : Input(good)
    BY <1>4 DEF RefundBegin
  <2>2. faults' \in 0 .. MaxFaults
    BY <1>0, <2>1, InputType
  <2> QED
    BY <1>4, <2>2 DEF RefundBegin, Return, Failed
<1>5. CASE WithdrawStep
  <2>1. call.step \in Arc
    BY <1>0, <1>5 DEF WithdrawStep, Arc
  <2>2. CASE ledgers[call.step].state = "WITHDRAWN"
    BY <1>0, <1>5, <2>2 DEF WithdrawStep, Quiet, TypeOK
  <2>3. CASE ledgers[call.step].state # "WITHDRAWN"
    <3>1. PICK good \in BOOLEAN : AdaptAndSpend(call.step, 0, good, Schedule.origin, call.step + 1)
      BY <1>5, <2>3 DEF WithdrawStep
    <3>2. 0 \in Ordinal
      BY DEF Ordinal
    <3>3. faults' \in 0 .. MaxFaults /\ (Failed \/ (Spent(call.step, 0) /\ call' = [call EXCEPT !.step = call.step + 1]
                                            /\ UNCHANGED <<mode, result>>))
      BY <1>0, <2>1, <3>1, <3>2, AdaptFacts
    <3> QED
      BY <1>5, <2>1, <3>2, <3>3 DEF Advances, Failed
  <2> QED
    BY <2>2, <2>3
<1>6. CASE RecoverFirst
  <2>1. 0 \in Arc /\ 0 \in Ordinal
    BY DEF Arc, Ordinal
  <2>2. PICK good \in BOOLEAN : AdaptAndSpend(0, 0, good, Schedule.origin, 1)
    BY <1>6 DEF RecoverFirst
  <2>3. faults' \in 0 .. MaxFaults /\ (Failed \/ (Spent(0, 0) /\ call' = [call EXCEPT !.step = 1]
                                          /\ UNCHANGED <<mode, result>>))
    BY <1>0, <2>1, <2>2, AdaptFacts
  <2> QED
    BY <1>6, <2>1, <2>3 DEF Advances, Failed
<1>7. ASSUME NEW i \in Arc, RelockOnce(i), ledgers[i].level \in 0 .. N - 2
      PROVE  /\ faults' \in 0 .. MaxFaults /\ N + ledgers[i].level \in Ordinal
             /\ Failed \/ (Spent(i, N + ledgers[i].level) /\ call' = call /\ UNCHANGED <<mode, result>>)
  <2>1. PICK good \in BOOLEAN : AdaptAndSpend(i, N + ledgers[i].level, good,
                                   RelockDeadline(Schedule, ledgers[i].level + 1), call.step)
    BY <1>7 DEF RelockOnce
  <2>2. N + ledgers[i].level \in Ordinal
    BY <1>7, RelockOrdinal
  <2>3. faults' \in 0 .. MaxFaults /\ (Failed \/ (Spent(i, N + ledgers[i].level)
           /\ call' = [call EXCEPT !.step = call.step] /\ UNCHANGED <<mode, result>>))
    BY <1>0, <2>1, <2>2, AdaptFacts
  <2> QED
    BY <1>0, <2>2, <2>3
<1>8. CASE RecoverRelock
  <2> DEFINE i == RecoveryArc(call.step)
  <2>1. call.step \in Arc /\ i \in Arc
    BY <1>8, RecoveryOrder DEF RecoverRelock, Arc
  <2>2. ledgers[i].level \in 0 .. N - 2
    BY <1>0, <1>8, <2>1 DEF RecoverRelock, TypeOK, Ledger, Level, Arc
  <2> QED
    BY <1>7, <1>8, <2>1, <2>2 DEF Advances, RecoverRelock, Failed
<1>9. CASE RecoverInto
  <2> DEFINE s == call.step
             i == RecoveryArc(s)
  <2>0. s \in Arc
    BY <1>9 DEF RecoverInto, Arc
  <2>1. i \in Arc /\ ledgers[i].level \in Ordinal
    BY <1>0, <2>0, RecoveryOrder DEF TypeOK, Ledger, Level, Ordinal
  <2>2. PICK good \in BOOLEAN :
          \/ AdaptAndSpend(i, ledgers[i].level, good, RelockDeadline(Schedule, s), s + 1)
          \/ Input(good) /\ Return("err") /\ UNCHANGED ledgers
    BY <1>9 DEF RecoverInto
  <2>3. CASE AdaptAndSpend(i, ledgers[i].level, good, RelockDeadline(Schedule, s), s + 1)
    <3>1. faults' \in 0 .. MaxFaults /\ (Failed \/ (Spent(i, ledgers[i].level)
             /\ call' = [call EXCEPT !.step = s + 1] /\ UNCHANGED <<mode, result>>))
      BY <1>0, <2>0, <2>1, <2>3, AdaptFacts
    <3> QED
      BY <1>9, <2>0, <2>1, <3>1 DEF Advances, Failed
  <2>4. CASE Input(good) /\ Return("err") /\ UNCHANGED ledgers
    <3>1. faults' \in 0 .. MaxFaults
      BY <1>0, <2>4, InputType
    <3> QED
      BY <2>4, <3>1 DEF Return, Failed
  <2> QED
    BY <2>2, <2>3, <2>4
<1>10. CASE RefundRelock
  <2> DEFINE i == call.step
  <2>1. i \in Arc
    BY <1>0, <1>10 DEF RefundRelock, CallInv
  <2>2. ledgers[i].level \in 0 .. N - 2
    BY <1>0, <1>10, <2>1 DEF RefundRelock, TypeOK, Ledger, Level
  <2> QED
    BY <1>7, <1>10, <2>1, <2>2 DEF Advances, RefundRelock, Failed
<1>11. CASE RecoverSkip \/ WithdrawReturn \/ RecoverReturn \/ RefundSign
  BY <1>0, <1>11 DEF RecoverSkip, WithdrawReturn, RecoverReturn, RefundSign, Return, TypeOK
<1> QED
  BY <1>1, <1>2, <1>3, <1>4, <1>5, <1>6, <1>8, <1>9, <1>10, <1>11 DEF Next, Step
-----------------------------------------------------------------------------
\* A spend leaves the other arcs alone.
LEMMA SpentLedgers ==
    ASSUME TypeOK, NEW i \in Arc, NEW ordinal, Spent(i, ordinal)
    PROVE  \A j \in Arc : j # i => ledgers'[j] = ledgers[j]
BY DEF Spent, TypeOK

\* The same, of the arcs in the order of a recovery.
LEMMA SpentTurns ==
    ASSUME TypeOK, NEW s \in Arc, NEW ordinal, Spent(RecoveryArc(s), ordinal)
    PROVE  \A r \in Arc : r # s => ledgers'[RecoveryArc(r)] = Turn(r)
BY SpentLedgers, RecoveryOrder DEF Turn

\* A step keeps the types and the signatures of the withdrawals.
LEMMA TypeStep == IInv /\ [Next]_vars => TypeOK' /\ AllSound'
<1> SUFFICES ASSUME IInv, [Next]_vars PROVE TypeOK' /\ AllSound'
  OBVIOUS
<1> USE Numbers
<1>0. TypeOK /\ AllSound /\ CallInv /\ faults' \in 0 .. MaxFaults /\ mode' = mode
  BY StepCases DEF IInv
<1>1. CASE UNCHANGED <<ledgers, call, result>> \/ Failed
  BY <1>0, <1>1 DEF TypeOK, AllSound, Failed, Idle
<1>2. CASE Begins
  BY <1>0, <1>2 DEF Begins, WithdrawBegin, RecoverBegin, Begin, Quiet, TypeOK, AllSound, Function
<1>3. ASSUME NEW i \in Arc, UNCHANGED ledgers, call' = [fn |-> "refund", step |-> i], result' = "none"
      PROVE  TypeOK' /\ AllSound'
  BY <1>0, <1>3 DEF TypeOK, AllSound, Function, Arc
<1>4. CASE RecoverSkip \/ WithdrawReturn \/ RecoverReturn
  BY <1>0, <1>4 DEF RecoverSkip, WithdrawReturn, RecoverReturn, Return, Idle, TypeOK, AllSound
<1>5. CASE WithdrawStep /\ Quiet
  BY <1>0, <1>5 DEF WithdrawStep, Quiet, AdaptAndSpend, Return, Idle, TypeOK, AllSound
<1>6. ASSUME NEW i \in Arc, NEW ordinal \in Ordinal, Spent(i, ordinal)
      PROVE  ledgers' \in [Arc -> Ledger] /\ AllSound'
  <2>1. ledgers'[i] \in Ledger
    BY <1>6 DEF Spent, Sound
  <2>2. ledgers' \in [Arc -> Ledger]
    BY <1>0, <1>6, <2>1 DEF Spent, TypeOK
  <2> QED
    BY <1>0, <1>6, <2>2, SpentLedgers DEF Spent, AllSound, Sound
<1>7. ASSUME NEW i \in Arc, NEW ordinal \in Ordinal, Spent(i, ordinal), Advances(i, ordinal)
      PROVE  TypeOK' /\ AllSound'
  <2>1. call' \in [fn : {"idle"} \cup Function, step : 0 .. N]
    BY <1>0, <1>7 DEF Advances, TypeOK, Arc, RecoverInto
  <2> QED
    BY <1>0, <1>6, <1>7, <2>1 DEF Advances, TypeOK
<1>8. CASE RefundSign
  <2> DEFINE i == call.step
  <2>1. i \in Arc
    BY <1>0, <1>8 DEF RefundSign, CallInv
  <2>2. CASE UNCHANGED ledgers
    BY <1>0, <1>8, <2>2 DEF RefundSign, Return, Idle, TypeOK, AllSound
  <2>3. CASE ledgers' = [ledgers EXCEPT ![i] = RefundResult(ledgers[i])] /\ Return("ok")
    <3>1. RefundResult(ledgers[i]) \in Ledger /\ RefundResult(ledgers[i]).state = "REFUNDED"
      BY <1>0, <2>1 DEF TypeOK, RefundResult, Ledger, AssetState
    <3> QED
      BY <1>0, <2>1, <2>3, <3>1 DEF Return, Idle, TypeOK, AllSound, Sound
  <2> QED
    BY <1>8, <2>2, <2>3 DEF RefundSign, Return
<1> QED
  BY <1>1, <1>2, <1>3, <1>4, <1>5, <1>7, <1>8, StepCases
-----------------------------------------------------------------------------
\* The step of the recovery whose loop spends, and the shapes it needs.
LEMMA CallStep == IInv /\ [Next]_vars => CallInv'
<1> SUFFICES ASSUME IInv, [Next]_vars PROVE CallInv'
  OBVIOUS
<1> USE Numbers
<1>0. TypeOK /\ AllSound /\ CallInv /\ TypeOK' /\ mode' = mode
      /\ call \in [fn : {"idle"} \cup Function, step : 0 .. N]
  BY TypeStep, StepCases DEF IInv, TypeOK
<1>1. CASE UNCHANGED <<ledgers, call, result>>
  BY <1>0, <1>1 DEF CallInv, Turn
<1>2. ASSUME call' = Idle PROVE CallInv'
  BY <1>2 DEF CallInv, Idle
<1>3. CASE Begins
  BY <1>0, <1>3 DEF Begins, WithdrawBegin, RecoverBegin, Begin, CallInv, Arc
<1>4. ASSUME NEW i \in Arc, RefundBegin(i), ledgers[i].state = "LOCKED", UNCHANGED ledgers,
             call' = [fn |-> "refund", step |-> i], result' = "none"
      PROVE  CallInv'
  BY <1>0, <1>4 DEF RefundBegin, CallInv
<1>5. CASE RecoverSkip
  <2>1. call.step \in Arc /\ call' = [call EXCEPT !.step = call.step + 1] /\ UNCHANGED <<ledgers, result>>
    BY <1>0, <1>5 DEF RecoverSkip, Arc
  <2>2. Turn(call.step).state = "WITHDRAWN" /\ call.fn = "recover"
    BY <1>5 DEF RecoverSkip, Turn
  <2>3. ASSUME NEW s \in Arc, s < call'.step PROVE ledgers'[RecoveryArc(s)].state = "WITHDRAWN"
    <3>1. s < call.step \/ s = call.step
      BY <1>0, <2>1, <2>3 DEF Arc
    <3> QED
      BY <1>0, <2>1, <2>2, <3>1 DEF CallInv, Turn
  <2> QED
    BY <1>0, <2>1, <2>2, <2>3 DEF CallInv, Turn
<1>6. CASE WithdrawStep /\ Quiet
  <2>1. CASE call' = Idle
    BY <1>2, <2>1
  <2>2. CASE ~ (call' = Idle)
    <3>1. /\ call.fn = "withdraw" /\ ledgers[call.step].state = "WITHDRAWN" /\ call.step \in Arc
          /\ call' = [call EXCEPT !.step = call.step + 1] /\ UNCHANGED <<ledgers, result>>
      <4>1. CASE ledgers[call.step].state = "WITHDRAWN"
        BY <1>0, <1>6, <4>1 DEF WithdrawStep, Arc
      <4>2. ASSUME NEW good, AdaptAndSpend(call.step, 0, good, Schedule.origin, call.step + 1) PROVE FALSE
        <5>1. PICK sig : ledgers' = [ledgers EXCEPT ![call.step] = SpendResult(ledgers[call.step], 0, sig)]
                         /\ SpendAccepts(ledgers[call.step], 0, sig)
          BY <2>2, <4>2 DEF AdaptAndSpend, Return, SpendAtAccepts
        <5>2. call.step \in Arc
          BY <1>0, <1>6 DEF WithdrawStep, Arc
        <5>3. Sound(ledgers[call.step])
          BY <1>0, <5>2 DEF AllSound
        <5>4. SpendResult(ledgers[call.step], 0, sig).state = "WITHDRAWN" /\ ledgers[call.step].state = "LOCKED"
          BY <5>1, <5>3, SpendOf DEF Ordinal
        <5>5. ledgers'[call.step] = SpendResult(ledgers[call.step], 0, sig)
          BY <1>0, <5>1, <5>2 DEF TypeOK
        <5> QED
          BY <1>6, <5>4, <5>5 DEF Quiet
      <4> QED
        BY <1>6, <4>1, <4>2 DEF WithdrawStep
    <3>2. \A i \in Arc : i < call.step + 1 => i < call.step \/ i = call.step
      BY <1>0 DEF Arc
    <3> QED
      BY <1>0, <3>1, <3>2 DEF CallInv
  <2> QED
    BY <2>1, <2>2
<1>7. ASSUME NEW i \in Arc, NEW ordinal \in Ordinal, Spent(i, ordinal), Advances(i, ordinal) PROVE CallInv'
  <2>1. ledgers[i].state = "LOCKED" /\ \A j \in Arc : j # i => ledgers'[j] = ledgers[j]
    BY <1>0, <1>7, SpentLedgers DEF Spent
  <2>2. \A j \in Arc : ledgers[j].state = "WITHDRAWN" => ledgers'[j].state = "WITHDRAWN"
    BY <2>1
  <2>3. \A s \in Arc : Turn(s).state = "WITHDRAWN" => ledgers'[RecoveryArc(s)].state = "WITHDRAWN"
    BY <2>2, RecoveryOrder DEF Turn
  <2>4. CASE WithdrawStep /\ i = call.step /\ ordinal = 0 /\ call' = [call EXCEPT !.step = i + 1]
    <3>1. ledgers'[i].state = "WITHDRAWN" /\ call.fn = "withdraw"
      BY <1>7, <2>4 DEF Spent, WithdrawStep
    <3>2. \A j \in Arc : j < i + 1 => j < i \/ j = i
      BY DEF Arc
    <3> QED
      BY <1>0, <1>7, <2>2, <2>4, <3>1, <3>2 DEF CallInv, Advances
  <2>5. ASSUME NEW s \in Arc, call.fn = "recover", call.step = s, i = RecoveryArc(s),
               ledgers'[i].state = "WITHDRAWN", call' = [call EXCEPT !.step = s + 1]
        PROVE  CallInv'
    <3>1. \A r \in Arc : r < s + 1 => r < s \/ r = s
      BY DEF Arc
    <3> QED
      BY <1>0, <1>7, <2>3, <2>5, <3>1 DEF CallInv, Advances, Turn
  <2>6. CASE RecoverFirst /\ i = 0 /\ ordinal = 0 /\ call' = [call EXCEPT !.step = 1]
    <3>1. 0 \in Arc /\ RecoveryArc(0) = 0
      BY DEF Arc, RecoveryArc
    <3>2. ledgers'[i].state = "WITHDRAWN" /\ call.fn = "recover" /\ call.step = 0
      BY <1>7, <2>6 DEF Spent, RecoverFirst
    <3> QED
      BY <2>5, <2>6, <3>1, <3>2
  <2>7. CASE RecoverRelock /\ i = RecoveryArc(call.step) /\ ordinal = N + ledgers[i].level /\ call' = call
    BY <1>0, <1>7, <2>3, <2>7 DEF CallInv, Advances, RecoverRelock, Turn
  <2>8. CASE /\ RecoverInto /\ i = RecoveryArc(call.step) /\ ordinal = ledgers[i].level
             /\ call' = [call EXCEPT !.step = call.step + 1]
    <3>1. ordinal < N
      BY <1>0, <2>8 DEF TypeOK, Ledger, Level
    <3>2. ledgers'[i].state = "WITHDRAWN" /\ call.fn = "recover" /\ call.step \in Arc
      BY <1>7, <2>8, <3>1 DEF Spent, RecoverInto, Arc
    <3> QED
      BY <2>5, <2>8, <3>2
  <2>9. CASE RefundRelock /\ i = call.step /\ ordinal = N + ledgers[i].level /\ call' = call
    <3>1. ~ (ordinal < N) /\ call.fn = "refund"
      BY <1>0, <2>9 DEF RefundRelock, TypeOK, Ledger, Level
    <3>2. ledgers'[i].state = "LOCKED"
      BY <1>7, <3>1 DEF Spent
    <3> QED
      BY <1>0, <1>7, <2>9, <3>1, <3>2 DEF CallInv, Advances
  <2> QED
    BY <1>7, <2>4, <2>6, <2>7, <2>8, <2>9 DEF Advances
<1>8. CASE Failed \/ WithdrawReturn \/ RecoverReturn \/ RefundSign
  BY <1>2, <1>8 DEF Failed, WithdrawReturn, RecoverReturn, RefundSign, Return
<1> QED
  BY <1>1, <1>3, <1>4, <1>5, <1>6, <1>7, <1>8, StepCases
-----------------------------------------------------------------------------
\* A spend at step s of a recovery whose earlier arcs are all withdrawn.
LEMMA RecoverSpend ==
    ASSUME TypeOK, RecoverShape, NEW s \in Arc, NEW ordinal, Spent(RecoveryArc(s), ordinal),
           \A r \in Arc : r < s => Turn(r).state = "WITHDRAWN",
           LET m == ledgers'[RecoveryArc(s)]
           IN  (m.state = "WITHDRAWN" /\ m.level = s) \/ (m.state = "LOCKED" /\ m.level <= s)
    PROVE  RecoverShape'
<1> DEFINE After(r) == ledgers'[RecoveryArc(r)]
<1>1. /\ Turn(s).state = "LOCKED" /\ \A r \in Arc : r # s => After(r) = Turn(r)
      /\ (After(s).state = "WITHDRAWN" /\ After(s).level = s) \/ (After(s).state = "LOCKED" /\ After(s).level <= s)
  BY SpentTurns DEF Spent, Turn
<1>2. \A r, t \in Arc : r < t => r # t
  BY DEF Arc
<1>3. s <= s
  BY DEF Arc
<1> HIDE DEF After
<1>4. \A r \in Arc : Open(After(r)) /\ (After(r).state = "WITHDRAWN" => After(r).level = r) /\ After(r).level <= r
  BY <1>1, <1>3 DEF RecoverShape, Open
<1>5. \A r, t \in Arc : r < t /\ After(r).state # "WITHDRAWN" => After(t).state # "WITHDRAWN" /\ After(t).level = 0
  BY <1>1, <1>2 DEF RecoverShape
<1> QED
  BY <1>4, <1>5 DEF RecoverShape, Turn, After

\* A step keeps the shapes.
LEMMA ShapeStep == IInv /\ [Next]_vars => ShapeInv'
<1> SUFFICES ASSUME IInv, [Next]_vars PROVE ShapeInv'
  OBVIOUS
<1> USE Numbers
<1>0. TypeOK /\ AllSound /\ CallInv /\ ShapeInv /\ mode' = mode
      /\ (mode = {"refund"} \/ (mode # {} /\ mode \subseteq {"withdraw", "recover"}))
      /\ call \in [fn : {"idle"} \cup Function, step : 0 .. N]
  BY StepCases DEF IInv, TypeOK, ShapeInv
\* The shapes when no ledger moves.
<1>1. ASSUME UNCHANGED ledgers
      PROVE  (WithdrawShape => WithdrawShape') /\ (RecoverShape => RecoverShape') /\ (RefundShape => RefundShape')
  BY <1>1 DEF WithdrawShape, RecoverShape, RefundShape, Turn
<1>2. CASE UNCHANGED <<ledgers, call, result>>
  BY <1>0, <1>1, <1>2 DEF ShapeInv
\* A call ends: the host's next one is accepted.
<1>3. ASSUME UNCHANGED ledgers, call' = Idle PROVE ShapeInv'
  <2>1. call'.fn = "idle" /\ call.fn \in {"idle"} \cup Function
    BY <1>0, <1>3 DEF Idle
  <2>2. CASE call.fn = "refund" \/ mode = {"refund"}
    <3>1. mode = {"refund"}
      BY <1>0, <2>2 DEF CallInv
    <3> QED
      BY <1>0, <1>1, <1>3, <2>1, <3>1 DEF ShapeInv
  <2>3. CASE call.fn # "refund" /\ mode # {"refund"}
    <3>1. (WithdrawShape /\ "withdraw" \in mode) \/ (RecoverShape /\ "recover" \in mode)
      BY <1>0, <2>1, <2>3 DEF ShapeInv, CallInv, Function
    <3> QED
      BY <1>0, <1>1, <1>3, <2>1, <2>3, <3>1 DEF ShapeInv
  <2> QED
    BY <2>2, <2>3
<1>4. CASE Begins
  <2>1. CASE WithdrawBegin /\ WithdrawReady /\ Quiet
    <3>1. WithdrawShape' /\ "withdraw" \in mode /\ call'.fn = "withdraw" /\ UNCHANGED ledgers
      BY <1>0, <1>1, <2>1, WithdrawAccepts DEF WithdrawBegin, Begin, Quiet
    <3> QED
      BY <1>0, <3>1 DEF ShapeInv
  <2>2. CASE RecoverBegin /\ RecoverReady /\ Quiet
    <3>1. RecoverShape' /\ "recover" \in mode /\ call'.fn = "recover" /\ UNCHANGED ledgers
      BY <1>0, <1>1, <2>2, RecoverAccepts DEF RecoverBegin, Begin, Quiet
    <3> QED
      BY <1>0, <3>1 DEF ShapeInv
  <2> QED
    BY <1>4, <2>1, <2>2 DEF Begins
<1>5. ASSUME NEW i \in Arc, RefundBegin(i), UNCHANGED ledgers, call' = [fn |-> "refund", step |-> i]
      PROVE  ShapeInv'
  <2>1. "refund" \in mode /\ call'.fn = "refund" /\ mode = {"refund"}
    BY <1>0, <1>5 DEF RefundBegin
  <2> QED
    BY <1>0, <1>1, <1>5, <2>1 DEF ShapeInv
<1>6. CASE RecoverSkip
  <2>1. call'.fn = call.fn /\ UNCHANGED ledgers
    BY <1>0, <1>6 DEF RecoverSkip
  <2> QED
    BY <1>0, <1>1, <2>1 DEF ShapeInv
<1>7. CASE WithdrawStep /\ Quiet
  <2>1. call' = Idle \/ call'.fn = call.fn
    BY <1>0, <1>7 DEF WithdrawStep, AdaptAndSpend, Return
  <2>2. UNCHANGED ledgers
    BY <1>7 DEF Quiet
  <2> QED
    BY <1>0, <1>1, <1>3, <2>1, <2>2 DEF ShapeInv
<1>8. ASSUME NEW i \in Arc, NEW ordinal \in Ordinal, Spent(i, ordinal), Advances(i, ordinal) PROVE ShapeInv'
  <2>1. call'.fn = call.fn /\ \A j \in Arc : j # i => ledgers'[j] = ledgers[j]
    BY <1>0, <1>8, SpentLedgers DEF Advances
  <2>2. CASE WithdrawStep /\ ordinal = 0
    <3>1. call.fn = "withdraw" /\ WithdrawShape /\ mode # {"refund"}
      BY <1>0, <2>2 DEF WithdrawStep, ShapeInv, CallInv
    <3>2. ledgers'[i].state = "WITHDRAWN" /\ ledgers'[i].level = ledgers[i].level
      BY <1>8, <2>2 DEF Spent
    <3>3. WithdrawShape'
      BY <2>1, <3>1, <3>2 DEF WithdrawShape, Open
    <3> QED
      BY <1>0, <2>1, <3>1, <3>3 DEF ShapeInv
  <2>3. ASSUME NEW s \in Arc, call.fn = "recover", call.step = s, i = RecoveryArc(s),
               \/ ledgers'[i].state = "WITHDRAWN" /\ ledgers'[i].level = s
               \/ ledgers'[i].state = "LOCKED" /\ ledgers'[i].level <= s
        PROVE  ShapeInv'
    <3>1. RecoverShape /\ mode # {"refund"} /\ \A r \in Arc : r < s => Turn(r).state = "WITHDRAWN"
      BY <1>0, <2>3 DEF ShapeInv, CallInv
    <3>2. RecoverShape'
      BY <1>0, <1>8, <2>3, <3>1, RecoverSpend
    <3> QED
      BY <1>0, <2>1, <2>3, <3>1, <3>2 DEF ShapeInv
  <2>4. CASE RecoverFirst /\ i = 0 /\ ordinal = 0
    <3>1. 0 \in Arc /\ RecoveryArc(0) = 0 /\ call.fn = "recover" /\ call.step = 0
      BY <2>4 DEF Arc, RecoveryArc, RecoverFirst
    <3>2. ledgers'[i].state = "WITHDRAWN" /\ ledgers'[i].level = 0
      BY <1>8, <2>4 DEF Spent, LevelOf, IsWithdrawal
    <3> QED
      BY <2>3, <2>4, <3>1, <3>2
  <2>5. CASE RecoverRelock /\ i = RecoveryArc(call.step) /\ ordinal = N + ledgers[i].level
    <3>1. call.fn = "recover" /\ call.step \in Arc /\ ledgers[i].level < call.step /\ ledgers[i].level \in Nat
      BY <1>0, <2>5 DEF RecoverRelock, Arc, TypeOK, Ledger, Level
    <3>2. ledgers'[i].state = "LOCKED" /\ ledgers'[i].level = ledgers[i].level + 1
      BY <1>8, <2>5, <3>1 DEF Spent
    <3>3. ledgers'[i].level <= call.step
      BY <3>1, <3>2 DEF Arc
    <3> QED
      BY <2>3, <2>5, <3>1, <3>2, <3>3
  <2>6. CASE RecoverInto /\ i = RecoveryArc(call.step) /\ ordinal = ledgers[i].level
    <3>1. call.fn = "recover" /\ call.step \in Arc /\ ledgers[i].level >= call.step
      BY <2>6 DEF RecoverInto, Arc
    <3>2. ledgers[i].level <= call.step /\ ledgers[i].level \in Level
      BY <1>0, <2>6, <3>1 DEF ShapeInv, RecoverShape, Turn, TypeOK, Ledger
    <3>3. ordinal < N /\ ledgers[i].level = call.step
      BY <2>6, <3>1, <3>2 DEF Level, Arc
    <3>4. ledgers'[i].state = "WITHDRAWN" /\ ledgers'[i].level = call.step
      BY <1>8, <3>3 DEF Spent
    <3> QED
      BY <2>3, <2>6, <3>1, <3>4
  <2>7. CASE RefundRelock /\ ordinal = N + ledgers[i].level
    <3>1. call.fn = "refund" /\ mode = {"refund"} /\ RefundShape
      BY <1>0, <2>7 DEF RefundRelock, CallInv, ShapeInv
    <3>2. ~ (ordinal < N)
      BY <1>0, <2>7 DEF TypeOK, Ledger, Level
    <3>3. ledgers'[i].state = "LOCKED"
      BY <1>8, <3>2 DEF Spent
    <3>4. RefundShape'
      BY <2>1, <3>1, <3>3 DEF RefundShape
    <3> QED
      BY <1>0, <2>1, <3>1, <3>4 DEF ShapeInv
  <2> QED
    BY <1>8, <2>2, <2>4, <2>5, <2>6, <2>7 DEF Advances
<1>9. CASE RefundSign
  <2>1. call.fn = "refund" /\ mode = {"refund"} /\ RefundShape /\ call.step \in Arc /\ call' = Idle
    BY <1>0, <1>9 DEF RefundSign, CallInv, ShapeInv, Return
  <2>2. CASE ledgers' = [ledgers EXCEPT ![call.step] = RefundResult(ledgers[call.step])]
    <3>1. RefundResult(ledgers[call.step]).state = "REFUNDED"
      BY <1>0, <2>1 DEF TypeOK, RefundResult, Ledger
    <3>2. RefundShape'
      BY <1>0, <2>1, <2>2, <3>1 DEF TypeOK, RefundShape
    <3> QED
      BY <1>0, <2>1, <3>2 DEF ShapeInv, Idle
  <2> QED
    BY <1>3, <1>9, <2>1, <2>2 DEF RefundSign
<1>10. CASE Failed \/ WithdrawReturn \/ RecoverReturn
  BY <1>3, <1>10 DEF Failed, WithdrawReturn, RecoverReturn, Return
<1> QED
  BY <1>2, <1>4, <1>5, <1>6, <1>7, <1>8, <1>9, <1>10, StepCases

\* A step returns success only when the call has done its work.
LEMMA OkStep == IInv /\ [Next]_vars => OkMeansSettled'
<1> SUFFICES ASSUME IInv, [Next]_vars, result' = "ok"
             PROVE  IF "refund" \in mode' THEN \E i \in Arc : ledgers'[i].state = "REFUNDED"
                    ELSE \A i \in Arc : ledgers'[i].state = "WITHDRAWN"
  BY DEF OkMeansSettled
<1> USE Numbers
<1>0. TypeOK /\ CallInv /\ OkMeansSettled /\ mode' = mode
      /\ (mode = {"refund"} \/ (mode # {} /\ mode \subseteq {"withdraw", "recover"}))
  BY StepCases DEF IInv, ShapeInv
<1>1. CASE UNCHANGED <<ledgers, call, result>>
  BY <1>0, <1>1 DEF OkMeansSettled
\* A call in progress has no result yet.
<1>2. CASE call.fn # "idle" /\ UNCHANGED result
  BY <1>0, <1>2 DEF CallInv
<1>3. CASE WithdrawReturn
  <2>1. \A i \in Arc : ledgers[i].state = "WITHDRAWN"
    BY <1>0, <1>3 DEF WithdrawReturn, CallInv, Arc
  <2> QED
    BY <1>0, <1>3, <2>1 DEF WithdrawReturn, CallInv
<1>4. CASE RecoverReturn
  BY <1>0, <1>4 DEF RecoverReturn, Return, CallInv
<1>5. CASE RefundSign
  <2>1. call.fn = "refund" /\ mode = {"refund"} /\ call.step \in Arc
    BY <1>0, <1>5 DEF RefundSign, CallInv
  <2>2. ledgers' = [ledgers EXCEPT ![call.step] = RefundResult(ledgers[call.step])]
    BY <1>5 DEF RefundSign, Return
  <2>3. RefundResult(ledgers[call.step]).state = "REFUNDED"
    BY <1>0, <2>1 DEF TypeOK, RefundResult, Ledger
  <2> QED
    BY <1>0, <2>1, <2>2, <2>3 DEF TypeOK
<1>6. CASE Begins
  BY <1>6 DEF Begins, WithdrawBegin, RecoverBegin, WithdrawReady, RecoverReady, Begin, Return
<1>7. CASE WithdrawStep /\ Quiet
  BY <1>2, <1>7 DEF WithdrawStep, AdaptAndSpend, Return
<1>8. CASE RecoverSkip \/ \E i \in Arc, ordinal \in Ordinal : Advances(i, ordinal)
  BY <1>2, <1>8 DEF RecoverSkip, Advances, WithdrawStep, RecoverFirst, RecoverRelock, RecoverInto, RefundRelock
<1> QED
  BY <1>1, <1>3, <1>4, <1>5, <1>6, <1>7, <1>8, StepCases DEF Failed
-----------------------------------------------------------------------------
(* The calls keep the shapes whatever fails in them: a failed call leaves
   ledgers that one of the host's functions accepts as they are. *)
THEOREM CallsInvariant == Spec => []IInv
<1>1. IInv /\ [Next]_vars => IInv'
  BY TypeStep, CallStep, ShapeStep, OkStep DEF IInv
<1> QED
  BY InitInv, <1>1, PTL DEF Spec

\* Every ledger, call and result the functions reach is of its type.
THEOREM CallsTypeCorrect == Spec => []TypeOK
<1>1. IInv => TypeOK
  BY DEF IInv
<1> QED
  BY CallsInvariant, <1>1, PTL

\* A call that returned success has settled the cycle, or refunded an arc.
THEOREM OkSettles == Spec => []OkMeansSettled
<1>1. IInv => OkMeansSettled
  BY DEF IInv
<1> QED
  BY CallsInvariant, <1>1, PTL

(* Between calls the ledgers have one of the two shapes, and on ledgers whose
   withdrawals hold the signature of their level a shape is all that
   host_withdraw_cycle or host_recover_cycle asks for. *)
THEOREM RetriesAccepted == Spec => []RetryAccepted
<1>1. IInv => RetryAccepted
  BY WithdrawAccepts, RecoverAccepts DEF IInv, ShapeInv, RetryAccepted, Idle
<1> QED
  BY CallsInvariant, <1>1, PTL

\* The arc paid out by the receiver of an arc settles one step earlier; for
\* arc 0, the first to settle, it is the last one.
LEMMA OutgoingTurn ==
    \A s \in Arc : /\ s = 0 => Outgoing(RecoveryArc(s)) = RecoveryArc(N - 1)
                   /\ s # 0 => s - 1 \in Arc /\ Outgoing(RecoveryArc(s)) = RecoveryArc(s - 1)
<1> USE Numbers
<1>1. 1 % N = 1 /\ N % N = 0 /\ \A k \in 0 .. N - 1 : k % N = k
  OBVIOUS
<1> SUFFICES ASSUME NEW s \in Arc
             PROVE  /\ s = 0 => Outgoing(RecoveryArc(s)) = RecoveryArc(N - 1)
                    /\ s # 0 => s - 1 \in Arc /\ Outgoing(RecoveryArc(s)) = RecoveryArc(s - 1)
  OBVIOUS
<1>2. CASE s = 0
  <2>1. Outgoing(RecoveryArc(s)) = 1 /\ RecoveryArc(N - 1) = 1
    BY <1>1, <1>2 DEF Outgoing, RecoveryArc
  <2> QED
    BY <1>2, <2>1
<1>3. CASE s = 1
  <2>1. Outgoing(RecoveryArc(s)) = 0 /\ RecoveryArc(0) = 0 /\ 0 \in Arc
    BY <1>1, <1>3 DEF Outgoing, RecoveryArc, Arc
  <2> QED
    BY <1>3, <2>1
<1>4. CASE s \notin {0, 1}
  <2>1. N - s + 1 \in 0 .. N - 1 /\ s - 1 \in Arc /\ s - 1 # 0
    BY <1>4 DEF Arc
  <2>2. Outgoing(RecoveryArc(s)) = N - s + 1
    BY <1>1, <1>4, <2>1 DEF Outgoing, RecoveryArc
  <2>3. RecoveryArc(s - 1) = N - s + 1
    BY <2>1 DEF RecoveryArc, Arc
  <2> QED
    BY <1>4, <2>1, <2>2, <2>3
<1> QED
  BY <1>2, <1>3, <1>4

(* Nobody is stranded half-way: whatever fails in whichever call, the sender
   of a withdrawn arc can still bring the arc that pays it to the level where
   the observed withdrawal settles it. *)
THEOREM CycleNeverStranded == Spec => []NeverStranded
<1>1. IInv => NeverStranded
  <2> SUFFICES ASSUME IInv, NEW i \in Arc, ledgers[Outgoing(i)].state = "WITHDRAWN"
               PROVE  \/ ledgers[i].state = "WITHDRAWN"
                      \/ ledgers[i].state = "LOCKED" /\ ledgers[i].level <= ledgers[Outgoing(i)].level + 1
    BY DEF NeverStranded
  <2> USE Numbers
  <2>1. PICK s \in Arc : RecoveryArc(s) = i
    BY RecoveryOrder
  <2>2. PICK t \in Arc : Outgoing(i) = RecoveryArc(t) /\ (s = 0 \/ s = t + 1)
    <3>1. CASE s = 0
      <4>1. N - 1 \in Arc
        BY DEF Arc
      <4>2. Outgoing(i) = RecoveryArc(N - 1)
        BY <2>1, <3>1, OutgoingTurn
      <4> QED
        BY <3>1, <4>1, <4>2
    <3>2. CASE s # 0
      <4>1. s - 1 \in Arc /\ Outgoing(i) = RecoveryArc(s - 1) /\ s = (s - 1) + 1
        BY <2>1, <3>2, OutgoingTurn DEF Arc
      <4> QED
        BY <4>1
    <3> QED
      BY <3>1, <3>2
  <2>3. Outgoing(i) \in Arc /\ Turn(t).state = "WITHDRAWN" /\ Turn(s) = ledgers[i] /\ Turn(t) = ledgers[Outgoing(i)]
    BY <2>1, <2>2, RecoveryOrder DEF Turn
  <2>4. ~ RefundShape
    BY <2>3 DEF RefundShape, Turn
  <2>5. WithdrawShape \/ RecoverShape
    BY <2>4 DEF IInv, ShapeInv, CallInv, TypeOK, Function
  <2>6. CASE WithdrawShape
    <3>1. ledgers[i].level = 0 /\ ledgers[Outgoing(i)].level = 0 /\ Open(ledgers[i])
      BY <2>3, <2>6 DEF WithdrawShape
    <3> QED
      BY <3>1 DEF Open
  <2>7. CASE RecoverShape
    <3>1. Open(Turn(s)) /\ Turn(s).level <= s /\ Turn(t).level = t
      BY <2>3, <2>7 DEF RecoverShape
    <3>2. Turn(s).level \in Nat
      BY <2>3 DEF IInv, TypeOK, Ledger, Level
    <3>3. Turn(s).level <= Turn(t).level + 1
      BY <2>2, <3>1, <3>2 DEF Arc
    <3> QED
      BY <2>3, <3>1, <3>3 DEF Open
  <2> QED
    BY <2>5, <2>6, <2>7
<1> QED
  BY CallsInvariant, <1>1, PTL
=============================================================================
