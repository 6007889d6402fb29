-------------------------- MODULE HostLedgerProofs --------------------------
(***************************************************************************)
(* The schedule that host_schedule_init accepts, for every width of the    *)
(* unsigned type and for all arguments; the inductive invariant of one     *)
(* arc's ledger, for every such schedule; and the ledger as an             *)
(* implementation of AssetLedger.                                          *)
(***************************************************************************)
EXTENDS HostLedger, MCHostSchedule, TLAPS

-----------------------------------------------------------------------------
(* The schedule *)

(* A value that fits in the unsigned type is kept as it is. *)
LEMMA FitsUnchanged ==
    ASSUME NEW x \in Nat, x <= UintMax
    PROVE  U(x) = x
  BY UintAssumption DEF U

(* The division of the fourth guard bounds the product it stands for. *)
LEMMA DivisionBoundsProduct ==
    ASSUME NEW a \in Nat, NEW n \in Nat \ {0}, NEW d \in Nat
    PROVE  d <= a \div n <=> n * d <= a
<1> DEFINE q == a \div n
<1>1. q \in Nat /\ n * q <= a /\ a < n * (q + 1)
  OBVIOUS
<1> HIDE DEF q
<1>2. d <= q => n * d <= n * q
  BY <1>1
<1>3. d >= q + 1 => n * d >= n * (q + 1)
  BY <1>1
<1> QED
  BY <1>1, <1>2, <1>3 DEF q

Fits(n, origin, delta, epsilon) ==
    origin + n * delta + delta + 3 * epsilon <= UintMax

(* The guards of host_schedule_init are exact: arguments that are in range and
   nonzero are accepted if and only if the refund time fits in the type. *)
THEOREM ScheduleAdmissionExact ==
    ASSUME NEW n \in 3 .. 128, NEW origin \in Uint,
           NEW delta \in Uint \ {0}, NEW epsilon \in Uint \ {0}
    PROVE  Admissible(n, origin, delta, epsilon) <=> Fits(n, origin, delta, epsilon)
<1> DEFINE t == delta + 3 * epsilon
<1> USE UintAssumption DEF Uint
<1>0. n \in Nat \ {0} /\ delta \in Nat /\ epsilon \in Nat /\ origin \in Nat
  OBVIOUS
<1>1. n * delta \in Nat /\ n * delta >= 0
  BY <1>0
<1>2. epsilon <= UintMax \div 3 <=> 3 * epsilon <= UintMax
  BY <1>0
<1>3. ASSUME 3 * epsilon <= UintMax
      PROVE  U(3 * epsilon) = 3 * epsilon
  BY <1>0, <1>3, FitsUnchanged
<1>4. ASSUME t <= UintMax
      PROVE  /\ 3 * epsilon <= UintMax
             /\ Window(delta, epsilon) = t
  <2>1. 3 * epsilon <= UintMax
    BY <1>0, <1>4
  <2>2. U(t) = t
    BY <1>0, <1>4, FitsUnchanged
  <2> QED
    BY <2>1, <2>2, <1>3 DEF Window
<1>5. ASSUME t <= UintMax
      PROVE  delta <= (UintMax - t) \div n <=> n * delta <= UintMax - t
  <2>1. UintMax - t \in Nat
    BY <1>0, <1>5
  <2> HIDE DEF t
  <2> QED
    BY <1>0, <2>1, DivisionBoundsProduct
<1>6. ASSUME t <= UintMax, n * delta <= UintMax - t
      PROVE  Duration(n, delta, epsilon) = n * delta + t
  <2>1. n * delta <= UintMax /\ n * delta + t <= UintMax /\ n * delta + t \in Nat
    BY <1>0, <1>1, <1>6
  <2>2. U(n * delta) = n * delta /\ U(n * delta + t) = n * delta + t
    BY <1>1, <2>1, FitsUnchanged
  <2> QED
    BY <1>4, <1>6, <2>2 DEF Duration
<1>7. ASSUME Admissible(n, origin, delta, epsilon)
      PROVE  Fits(n, origin, delta, epsilon)
  <2>1. 3 * epsilon <= UintMax
    BY <1>2, <1>7 DEF Admissible
  <2>2. delta <= UintMax - 3 * epsilon
    BY <1>3, <2>1, <1>7 DEF Admissible
  <2>3. t <= UintMax
    BY <2>1, <2>2, <1>0
  <2>4. n * delta <= UintMax - t
    BY <1>4, <1>5, <1>7, <2>3 DEF Admissible
  <2>5. origin <= UintMax - (n * delta + t)
    BY <1>6, <1>7, <2>3, <2>4 DEF Admissible
  <2> QED
    BY <1>0, <1>1, <2>5 DEF Fits
<1>8. ASSUME Fits(n, origin, delta, epsilon)
      PROVE  Admissible(n, origin, delta, epsilon)
  <2>1. t <= UintMax /\ n * delta <= UintMax - t /\ 3 * epsilon <= UintMax
    BY <1>0, <1>1, <1>8 DEF Fits
  <2>2. delta <= UintMax - U(3 * epsilon)
    BY <1>0, <1>3, <2>1
  <2>3. delta <= (UintMax - Window(delta, epsilon)) \div n
    BY <1>4, <1>5, <2>1
  <2>4. origin <= UintMax - Duration(n, delta, epsilon)
    BY <1>0, <1>1, <1>6, <1>8, <2>1 DEF Fits
  <2> QED
    BY <1>2, <2>1, <2>2, <2>3, <2>4 DEF Admissible
<1> QED
  BY <1>7, <1>8

(* What an accepted schedule holds: the exact window, deadlines and refund
   time, although host_relock_deadline computes them without a check. *)
LEMMA AdmissibleSchedule ==
    ASSUME NEW n \in Nat, NEW origin \in Nat, NEW delta \in Nat, NEW epsilon \in Nat,
           Admissible(n, origin, delta, epsilon)
    PROVE  LET s == MakeSchedule(n, origin, delta, epsilon)
           IN  /\ s.participants = n /\ s.origin = origin /\ s.delta = delta
               /\ s.window = delta + 3 * epsilon
               /\ s.refund = origin + n * delta + s.window
               /\ s.refund <= UintMax
               /\ \A level \in 1 .. n - 1 :
                     RelockDeadline(s, level) = origin + s.window + level * delta
<1> DEFINE t == delta + 3 * epsilon
           s == MakeSchedule(n, origin, delta, epsilon)
<1> USE UintAssumption
<1>1. n \in 3 .. 128 /\ delta > 0 /\ epsilon > 0
  BY DEF Admissible
<1>2. epsilon <= UintMax /\ delta <= UintMax /\ 3 * epsilon <= UintMax
  <2>1. 3 * epsilon <= UintMax
    BY DEF Admissible
  <2>2. U(3 * epsilon) = 3 * epsilon
    BY <2>1, FitsUnchanged
  <2> QED
    BY <2>1, <2>2 DEF Admissible
<1>3. U(3 * epsilon) = 3 * epsilon /\ t <= UintMax
  <2>1. U(3 * epsilon) = 3 * epsilon
    BY <1>2, FitsUnchanged
  <2> QED
    BY <1>2, <2>1 DEF Admissible
<1>4. Window(delta, epsilon) = t
  BY <1>3, FitsUnchanged DEF Window
<1>5. n * delta <= UintMax - t /\ n * delta \in Nat
  <2>1. UintMax - t \in Nat
    BY <1>3
  <2>2. delta <= (UintMax - t) \div n
    BY <1>4 DEF Admissible
  <2> HIDE DEF t
  <2> QED
    BY <1>1, <2>1, <2>2, DivisionBoundsProduct
<1>6. Duration(n, delta, epsilon) = n * delta + t
  BY <1>3, <1>4, <1>5, FitsUnchanged DEF Duration
<1>7. origin + n * delta + t <= UintMax
  BY <1>5, <1>6 DEF Admissible
<1>8. U(origin + (n * delta + t)) = origin + n * delta + t
  BY <1>5, <1>7, FitsUnchanged
<1>9. /\ s.participants = n /\ s.origin = origin /\ s.delta = delta
      /\ s.window = t /\ s.refund = origin + n * delta + t
  BY <1>4, <1>6, <1>8 DEF MakeSchedule
<1>10. ASSUME NEW level \in 1 .. n - 1
       PROVE  RelockDeadline(s, level) = origin + t + level * delta
  <2>1. level * delta <= n * delta /\ level * delta \in Nat
    BY <1>1
  <2>2. /\ U(origin + t) = origin + t
        /\ U(level * delta) = level * delta
        /\ U(origin + t + level * delta) = origin + t + level * delta
    BY <1>5, <1>7, <2>1, FitsUnchanged
  <2> QED
    BY <1>9, <2>2 DEF RelockDeadline
<1> QED
  BY <1>7, <1>9, <1>10

CallType == [n : Nat, origin : Uint, delta : Uint, epsilon : Uint, ok : BOOLEAN]

(* The result of the call is its admission, and an admitted call has written
   the schedule. *)
CallInv ==
    /\ call \in CallType
    /\ call.ok <=> Admissible(call.n, call.origin, call.delta, call.epsilon)
    /\ call.ok => schedule = MakeSchedule(call.n, call.origin, call.delta, call.epsilon)

(* The invariant of the call. *)
LEMMA CallInductive ==
    ASSUME MaxN \in Nat
    PROVE  CallSpec => []CallInv
<1>1. CallInit => CallInv
  BY UintAssumption DEF CallInit, NoCall, NoSchedule, CallInv, CallType, Admissible, Uint
<1>2. CallInv /\ [CallNext]_<<schedule, call>> => CallInv'
  <2> SUFFICES ASSUME CallInv, [CallNext]_<<schedule, call>>
               PROVE  CallInv'
    OBVIOUS
  <2>1. CASE CallNext
    <3>1. PICK n \in 2 .. MaxN, origin \in Uint, delta \in Uint, epsilon \in Uint :
            HostScheduleInit(n, origin, delta, epsilon)
      BY <2>1 DEF CallNext
    <3> DEFINE ok == Admissible(n, origin, delta, epsilon)
    <3>2. /\ call' = [n |-> n, origin |-> origin, delta |-> delta, epsilon |-> epsilon, ok |-> ok]
          /\ schedule' = IF ok THEN MakeSchedule(n, origin, delta, epsilon) ELSE schedule
      BY <3>1 DEF HostScheduleInit
    <3>3. ok \in BOOLEAN
      BY DEF Admissible
    <3>4. n \in Nat
      OBVIOUS
    <3> HIDE DEF ok
    <3>5. /\ call' \in CallType
          /\ call'.n = n /\ call'.origin = origin /\ call'.delta = delta /\ call'.epsilon = epsilon
          /\ call'.ok = ok
      BY <3>2, <3>3, <3>4 DEF CallType
    <3> QED
      BY <3>2, <3>5 DEF CallInv, ok
  <2>2. CASE UNCHANGED <<schedule, call>>
    BY <2>2 DEF CallInv
  <2> QED
    BY <2>1, <2>2
<1> QED
  BY <1>1, <1>2, PTL DEF CallSpec

(* Every call with well-formed arguments is accepted if and only if its refund
   time fits in the type. *)
THEOREM ScheduleCallExact ==
    ASSUME MaxN \in Nat
    PROVE  CallSpec => []AdmissionExact
<1>1. CallInv => AdmissionExact
  <2> SUFFICES ASSUME CallInv, call.n \in 3 .. 128, call.delta > 0, call.epsilon > 0
               PROVE  call.ok <=> call.origin + call.n * call.delta + call.delta + 3 * call.epsilon <= UintMax
    BY DEF AdmissionExact
  <2>1. /\ call.origin \in Uint /\ call.delta \in Uint \ {0} /\ call.epsilon \in Uint \ {0}
        /\ call.ok <=> Admissible(call.n, call.origin, call.delta, call.epsilon)
    BY UintAssumption DEF CallInv, CallType, Uint
  <2> QED
    BY <2>1, ScheduleAdmissionExact DEF Fits
<1> QED
  BY <1>1, CallInductive, PTL

(* The deadlines of an accepted schedule open in order and at full distance,
   for every width and for all accepted arguments. *)
THEOREM ScheduleWindowsInOrder ==
    ASSUME MaxN \in Nat
    PROVE  CallSpec => []WindowsInOrder
<1>1. CallInv => WindowsInOrder
  <2> SUFFICES ASSUME CallInv, call.ok
               PROVE  WindowsInOrder
    BY DEF WindowsInOrder
  <2> DEFINE s == schedule
             n == call.n
             d == call.delta
             e == call.epsilon
             o == call.origin
  <2>1. /\ n \in Nat /\ o \in Nat /\ d \in Nat /\ e \in Nat /\ Admissible(n, o, d, e)
        /\ s = MakeSchedule(n, o, d, e)
    BY UintAssumption DEF CallInv, CallType, Uint
  <2> HIDE DEF s, n, d, e, o
  <2>2. n >= 3 /\ n \in Nat /\ d > 0
    BY <2>1 DEF Admissible
  <2>3. /\ s.participants = n /\ s.origin = o /\ s.delta = d /\ s.window = d + 3 * e
        /\ s.refund = o + n * d + s.window
        /\ \A level \in 1 .. n - 1 : RelockDeadline(s, level) = o + s.window + level * d
    BY <2>1, AdmissibleSchedule
  <2> DEFINE Opens(level) == o + s.window + level * d
  <2>4. ASSUME NEW level \in 1 .. n - 1, NEW t
        PROVE  RelockReady(s, level, t) <=> t >= Opens(level)
    BY <2>2, <2>3 DEF RelockReady, RelockLevel
  <2>5. ASSUME NEW t \in Nat
        PROVE  PreswapLive(s, t) => ~ RelockReady(s, 1, t)
    <3>1. 1 \in 1 .. n - 1 /\ 1 * d = d
      BY <2>1, <2>2
    <3>2. RelockReady(s, 1, t) <=> t >= o + s.window + d
      BY <2>4, <3>1
    <3> QED
      BY <2>1, <2>2, <2>3, <3>2 DEF PreswapLive
  <2>6. ASSUME NEW t \in Nat, NEW level \in 1 .. n - 1, RelockReady(s, level, t)
        PROVE  /\ t >= s.origin + s.window + level * s.delta
               /\ level > 1 => RelockReady(s, level - 1, t - s.delta)
    <3>1. t >= Opens(level)
      BY <2>4, <2>6
    <3>2. ASSUME level > 1
          PROVE  RelockReady(s, level - 1, t - s.delta)
      <4>1. level - 1 \in 1 .. n - 1
        BY <2>2, <3>2
      <4>2. (level - 1) * d = level * d - d /\ level * d \in Nat
        BY <2>1, <2>2
      <4>3. t - d >= Opens(level - 1)
        BY <2>1, <2>3, <3>1, <4>2
      <4> QED
        BY <2>3, <2>4, <4>1, <4>3
    <3> QED
      BY <2>3, <3>1, <3>2
  <2>7. ASSUME NEW t \in Nat, RefundReady(s, t)
        PROVE  RelockReady(s, n - 1, t - s.delta)
    <3>1. n - 1 \in 1 .. n - 1
      BY <2>2
    <3>2. (n - 1) * d = n * d - d /\ n * d \in Nat
      BY <2>1, <2>2
    <3>3. t >= o + n * d + s.window
      BY <2>3, <2>7 DEF RefundReady
    <3>4. t - d >= Opens(n - 1)
      BY <2>1, <2>3, <3>2, <3>3
    <3> QED
      BY <2>3, <2>4, <3>1, <3>4
  <2>8. \A t \in Uint : t \in Nat
    BY UintAssumption DEF Uint
  <2> QED
    BY <2>5, <2>6, <2>7, <2>8 DEF WindowsInOrder, s, n
<1> QED
  BY <1>1, CallInductive, PTL

-----------------------------------------------------------------------------
(* The ledger *)

(* The schedule of the ledger holds the exact, unwrapped times. *)
LEMMA ScheduleFacts ==
    /\ N \in Nat /\ N >= 3 /\ Origin \in Nat /\ Delta \in Nat /\ Delta > 0
    /\ Epsilon \in Nat /\ Epsilon > 0
    /\ Schedule.participants = N /\ Schedule.origin = Origin /\ Schedule.delta = Delta
    /\ Schedule.window = Delta + 3 * Epsilon
    /\ Schedule.refund = Origin + N * Delta + Schedule.window
    /\ N * Delta \in Nat
    /\ \A level \in 1 .. N - 1 :
         RelockDeadline(Schedule, level) = Origin + Schedule.window + level * Delta
<1>1. N \in 3 .. 128 /\ Delta # 0 /\ Epsilon # 0
  BY ScheduleAssumption DEF Admissible
<1>2. N \in Nat /\ Origin \in Nat /\ Delta \in Nat /\ Epsilon \in Nat
  BY ScheduleAssumption
<1>3. N * Delta \in Nat
  BY <1>2
<1> QED
  BY <1>1, <1>2, <1>3, ScheduleAssumption, AdmissibleSchedule DEF Schedule

(* The decoder re-derives the schedule of a timed ledger from its window. *)
LEMMA ScheduleSurvivesSnapshot == ScheduleDecodes(Schedule)
<1>1. (Schedule.window - Schedule.delta) % 3 = 0
  BY ScheduleFacts
<1>2. (Schedule.window - Schedule.delta) \div 3 = Epsilon
  BY ScheduleFacts
<1>3. Schedule.window >= Schedule.delta
  BY ScheduleFacts
<1>4. MakeSchedule(Schedule.participants, Schedule.origin, Schedule.delta, Epsilon) = Schedule
  BY ScheduleFacts DEF Schedule
<1>5. Admissible(Schedule.participants, Schedule.origin, Schedule.delta, Epsilon)
  BY ScheduleFacts, ScheduleAssumption
<1> QED
  BY <1>1, <1>2, <1>3, <1>4, <1>5 DEF ScheduleDecodes

(* A ledger's own snapshot decodes when its fields are consistent. *)
LEMMA ConsistentLedgerDecodes ==
    ASSUME NEW l \in Ledger,
           l.state = "WITHDRAWN" => VerifyKey(l.level, l.level, l.withdrawal),
           l.state # "WITHDRAWN" => l.withdrawal = NoSignature,
           l.state = "UNFUNDED" => l.level = 0,
           l.state = "REFUNDED" => l.level = N - 1
    PROVE  SnapshotDecodes(SnapshotEncode(l))
<1>1. l.level < N /\ l.state \in AssetState
  BY ScheduleFacts DEF Ledger, Level
<1>2. \A i \in DOMAIN SnapshotEncode(l).schedule :
        l.timed => ScheduleDecodes(SnapshotEncode(l).schedule[i])
  BY ScheduleSurvivesSnapshot DEF SnapshotEncode
<1>3. SnapshotEncode(l).ledger = l
  BY DEF SnapshotEncode
<1> QED
  BY <1>1, <1>2, <1>3 DEF SnapshotDecodes

(* What a snapshot that decodes says of the ledger it rebuilds. *)
LEMMA DecodedLedgerConsistent ==
    ASSUME NEW l \in Ledger, SnapshotDecodes(SnapshotEncode(l))
    PROVE  /\ l.state = "WITHDRAWN" => VerifyKey(l.level, l.level, l.withdrawal)
           /\ l.state # "WITHDRAWN" => l.withdrawal = NoSignature
           /\ l.state = "UNFUNDED" => l.level = 0
           /\ l.state = "REFUNDED" => l.level = N - 1
  BY DEF SnapshotDecodes, SnapshotEncode

-----------------------------------------------------------------------------
(* One accepted operation, as a relation on the ledger record. *)
Consistent(l) ==
    /\ l \in Ledger
    /\ l.state = "WITHDRAWN" => VerifyKey(l.level, l.level, l.withdrawal)
    /\ l.state # "WITHDRAWN" => l.withdrawal = NoSignature
    /\ l.state = "UNFUNDED" => l.level = 0
    /\ l.state = "REFUNDED" => l.level = N - 1

LEMMA SpendConsistent ==
    ASSUME NEW l, Consistent(l), NEW ordinal \in Ordinal, NEW sig \in Signature,
           SpendAccepts(l, ordinal, sig)
    PROVE  /\ Consistent(SpendResult(l, ordinal, sig))
           /\ SpendResult(l, ordinal, sig).timed = l.timed
           /\ IF ordinal < N
                THEN /\ SpendResult(l, ordinal, sig).state = "WITHDRAWN"
                     /\ SpendResult(l, ordinal, sig).level = l.level
                ELSE /\ SpendResult(l, ordinal, sig).state = "LOCKED"
                     /\ SpendResult(l, ordinal, sig).level = ordinal - N + 1
<1>1. l \in Ledger /\ l.state = "LOCKED" /\ l.level \in Level
  BY DEF Consistent, SpendAccepts, Ledger
<1>2. CASE ordinal < N
  <2>1. l.level = ordinal /\ VerifyKey(l.level, l.level, sig)
    BY <1>2 DEF SpendAccepts, LevelOf, IsWithdrawal
  <2> QED
    BY <1>1, <1>2, <2>1 DEF SpendResult, IsWithdrawal, Consistent, Ledger, AssetState
<1>3. CASE ~ (ordinal < N)
  <2>1. l.level = ordinal - N
    BY <1>3 DEF SpendAccepts, LevelOf, IsWithdrawal
  <2>2. l.level + 1 \in Level /\ l.level + 1 = ordinal - N + 1
    BY <1>1, <1>3, <2>1, ScheduleFacts DEF Level, Ordinal
  <2>3. SpendResult(l, ordinal, sig) = [l EXCEPT !.level = ordinal - N + 1]
    BY <1>1, <1>3, <2>2 DEF SpendResult, IsWithdrawal, Ledger
  <2>4. l.withdrawal = NoSignature
    BY <1>1 DEF Consistent
  <2> QED
    BY <1>1, <1>3, <2>2, <2>3, <2>4 DEF Consistent, Ledger
<1> QED
  BY <1>2, <1>3 DEF Ordinal

LEMMA LockConsistent ==
    ASSUME NEW l, Consistent(l), NEW sig, NEW t, LockAccepts(l, sig, t)
    PROVE  /\ Consistent(LockResult(l))
           /\ LockResult(l).level = 0 /\ LockResult(l).state = "LOCKED"
           /\ LockResult(l).timed = l.timed
  BY DEF Consistent, Ledger, AssetState, LockAccepts, LockResult

LEMMA RefundConsistent ==
    ASSUME NEW l, Consistent(l), NEW sig, RefundAccepts(l, sig)
    PROVE  /\ Consistent(RefundResult(l))
           /\ RefundResult(l).level = N - 1 /\ RefundResult(l).state = "REFUNDED"
           /\ RefundResult(l).timed = l.timed
  BY DEF Consistent, Ledger, AssetState, RefundAccepts, RefundResult

-----------------------------------------------------------------------------
LEMMA InvConsistent == LedgerInv => Consistent(ledger)
  BY DecodedLedgerConsistent
  DEF LedgerInv, TypeOK, SnapshotRecoverable, WithdrawalExtractable, ExtractAccepts,
      Consistent

LEMMA ConsistentInv ==
    Consistent(ledger) => ledger \in Ledger /\ WithdrawalExtractable /\ SnapshotRecoverable
  BY ConsistentLedgerDecodes
  DEF Consistent, SnapshotRecoverable, WithdrawalExtractable, ExtractAccepts, VerifyKey

LEMMA ConsistentInvNext ==
    Consistent(ledger') =>
        ledger' \in Ledger /\ WithdrawalExtractable' /\ SnapshotRecoverable'
  BY ConsistentLedgerDecodes
  DEF Consistent, SnapshotRecoverable, WithdrawalExtractable, ExtractAccepts, VerifyKey

(* The initial ledgers satisfy the invariant. *)
LEMMA InitInv == Init => LedgerInv
<1> SUFFICES ASSUME Init PROVE LedgerInv
  OBVIOUS
<1>0. PICK st \in {"LOCKED", "UNFUNDED"}, b \in BOOLEAN : ledger = NewLedger(st, b)
  BY DEF Init, Created, CreatedTimed, CreatedUnfunded
<1>1. Consistent(ledger)
  BY <1>0, ScheduleFacts DEF NewLedger, Consistent, Ledger, Level, AssetState
<1>2. OnSchedule(ledger)
  BY <1>0 DEF NewLedger, OnSchedule
<1>3. TypeOK
  BY <1>1, HorizonAssumption DEF Init, TypeOK, Consistent
<1> QED
  BY <1>1, <1>2, <1>3, ConsistentInv DEF Init, LedgerInv, ScheduleRespected

(* Every operation, the clock, a snapshot and a restart preserve it. *)
LEMMA NextInv == LedgerInv /\ [Next]_vars => LedgerInv'
<1> SUFFICES ASSUME LedgerInv, [Next]_vars PROVE LedgerInv'
  OBVIOUS
<1> USE DEF LedgerInv
<1>1. Consistent(ledger) /\ OnSchedule(ledger) /\ now \in Nat /\ TypeOK
  BY InvConsistent DEF ScheduleRespected, TypeOK
\* It is enough to say what becomes of the ledger when only the ledger changes.
<1>2. ASSUME Consistent(ledger'), OnSchedule(ledger)', UNCHANGED <<now, saved>>
      PROVE  LedgerInv'
  <2>1. WithdrawalExtractable' /\ SnapshotRecoverable' /\ ledger' \in Ledger
    BY <1>2, ConsistentInvNext
  <2>2. TypeOK'
    BY <1>1, <1>2, <2>1 DEF TypeOK
  <2>3. (\A i \in DOMAIN saved : OnSchedule(saved[i].ledger))'
    BY <1>2 DEF OnSchedule
  <2> QED
    BY <1>2, <2>1, <2>2, <2>3 DEF ScheduleRespected
<1>3. CASE Tick
  <2>1. now <= now' /\ now' \in 0 .. Horizon /\ UNCHANGED <<ledger, saved>>
    BY <1>1, <1>3, HorizonAssumption DEF Tick, TypeOK
  <2>2. ASSUME NEW l \in Ledger, OnSchedule(l)
        PROVE  OnSchedule(l)'
    <3>1. l.level > 0 => RelockDeadline(Schedule, l.level) \in Nat
      BY ScheduleFacts DEF Ledger, Level
    <3>2. now' \in Nat /\ now \in Nat /\ Schedule.refund \in Nat /\ Schedule.origin \in Nat
      BY <1>1, <2>1, ScheduleFacts
    <3> QED
      BY <2>1, <2>2, <3>1, <3>2 DEF OnSchedule, RelockReady, RefundReady
  <2>3. \A i \in DOMAIN saved : saved[i].ledger \in Ledger
    BY <1>1 DEF TypeOK, SnapshotEncode
  <2>4. OnSchedule(ledger)' /\ (\A i \in DOMAIN saved : OnSchedule(saved[i].ledger))'
    BY <1>1, <2>1, <2>2, <2>3 DEF TypeOK
  <2>5. Consistent(ledger')
    BY <1>1, <2>1
  <2>6. WithdrawalExtractable' /\ SnapshotRecoverable'
    BY <2>5, ConsistentInvNext
  <2>7. TypeOK'
    BY <1>1, <2>1 DEF TypeOK
  <2> QED
    BY <2>4, <2>6, <2>7 DEF ScheduleRespected
<1>4. ASSUME NEW sig \in Signature, LockAt(sig)
      PROVE  LedgerInv'
  <2>1. Consistent(ledger') /\ ledger'.level = 0 /\ ledger'.state = "LOCKED"
    BY <1>1, <1>4, LockConsistent DEF LockAt
  <2>2. OnSchedule(ledger)'
    BY <2>1 DEF OnSchedule
  <2> QED
    BY <1>2, <1>4, <2>1, <2>2 DEF LockAt
<1>5. ASSUME NEW sig \in Signature, NEW ordinal \in Ordinal, SpendAt(ordinal, sig)
      PROVE  LedgerInv'
  <2>1. /\ SpendAccepts(ledger, ordinal, sig)
        /\ now >= Schedule.origin
        /\ ordinal >= N => RelockReady(Schedule, ordinal - N + 1, now)
    BY <1>5 DEF SpendAt, SpendAtAccepts
  <2>2. /\ Consistent(ledger')
        /\ IF ordinal < N
             THEN ledger'.state = "WITHDRAWN" /\ ledger'.level = ledger.level
             ELSE ledger'.state = "LOCKED" /\ ledger'.level = ordinal - N + 1
        /\ ledger'.timed = ledger.timed
    BY <1>1, <1>5, <2>1, SpendConsistent DEF SpendAt
  <2>3. UNCHANGED <<now, saved>>
    BY <1>5 DEF SpendAt
  <2>4. ordinal < N \/ ordinal >= N
    BY ScheduleFacts DEF Ordinal
  <2>5. OnSchedule(ledger)'
    BY <1>1, <2>1, <2>2, <2>3, <2>4 DEF OnSchedule
  <2> QED
    BY <1>2, <2>2, <2>3, <2>5
<1>6. ASSUME NEW sig \in Signature, RefundAt(sig)
      PROVE  LedgerInv'
  <2>1. /\ RefundAccepts(ledger, sig) /\ RefundReady(Schedule, now)
        /\ UNCHANGED <<now, saved>> /\ ledger' = RefundResult(ledger)
    BY <1>6 DEF RefundAt, RefundAtAccepts
  <2>2. /\ Consistent(ledger') /\ ledger'.level = N - 1 /\ ledger'.state = "REFUNDED"
        /\ ledger'.timed = ledger.timed /\ ledger.level = N - 1
    BY <1>1, <2>1, RefundConsistent DEF RefundAccepts
  <2>3. OnSchedule(ledger)'
    BY <1>1, <2>1, <2>2 DEF OnSchedule
  <2> QED
    BY <1>2, <2>1, <2>2, <2>3
<1>7. ASSUME NEW sig \in Signature, NEW ordinal \in Ordinal, Spend(ordinal, sig)
      PROVE  LedgerInv'
  <2>1. SpendAccepts(ledger, ordinal, sig) /\ UNCHANGED <<now, saved>>
    BY <1>7 DEF Spend
  <2>2. Consistent(ledger') /\ ~ ledger'.timed
    BY <1>1, <1>7, <2>1, SpendConsistent DEF Spend
  <2> QED
    BY <1>2, <2>1, <2>2 DEF OnSchedule
<1>8. ASSUME NEW sig \in Signature, Refund(sig)
      PROVE  LedgerInv'
  <2>1. RefundAccepts(ledger, sig) /\ UNCHANGED <<now, saved>>
    BY <1>8 DEF Refund
  <2>2. Consistent(ledger') /\ ~ ledger'.timed
    BY <1>1, <1>8, <2>1, RefundConsistent DEF Refund
  <2> QED
    BY <1>2, <2>1, <2>2 DEF OnSchedule
<1>9. CASE Save
  <2>1. saved' = <<SnapshotEncode(ledger)>> /\ UNCHANGED <<ledger, now>>
    BY <1>9 DEF Save
  <2>2. Consistent(ledger') /\ OnSchedule(ledger)'
    BY <1>1, <2>1 DEF OnSchedule
  <2>3. WithdrawalExtractable' /\ SnapshotRecoverable'
    BY <2>2, ConsistentInvNext
  <2>4. (\A i \in DOMAIN saved : OnSchedule(saved[i].ledger))'
    BY <1>1, <2>1 DEF SnapshotEncode, OnSchedule
  <2>5. TypeOK'
    BY <1>1, <2>1 DEF TypeOK
  <2> QED
    BY <2>2, <2>3, <2>4, <2>5 DEF ScheduleRespected
<1>10. CASE Restart
  <2>1. PICK l \in Ledger : saved = <<SnapshotEncode(l)>>
    BY <1>1, <1>10 DEF Restart, TypeOK
  <2>2. saved[1].ledger = l /\ SnapshotDecodes(SnapshotEncode(l)) /\ OnSchedule(l)
    BY <1>10, <2>1 DEF Restart, SnapshotEncode
  <2>3. Consistent(l)
    BY <2>2, DecodedLedgerConsistent DEF Consistent
  <2>4. ledger' = l /\ UNCHANGED <<now, saved>>
    BY <1>10, <2>2 DEF Restart
  <2>5. OnSchedule(ledger)'
    BY <2>2, <2>4 DEF OnSchedule
  <2> QED
    BY <1>2, <2>3, <2>4, <2>5
<1>11. CASE UNCHANGED vars
  <2>1. OnSchedule(ledger)' /\ UNCHANGED <<ledger, now, saved>>
    BY <1>1, <1>11 DEF vars, OnSchedule
  <2> QED
    BY <1>1, <1>2, <2>1
<1> QED
  BY <1>3, <1>4, <1>5, <1>6, <1>7, <1>8, <1>9, <1>10, <1>11
  DEF Next, LedgerNext, SnapshotNext

(* Type correctness of one arc's ledger. *)
THEOREM LedgerTypeOK == Spec => []TypeOK
  BY InitInv, NextInv, PTL DEF Spec, LedgerInv

(* The timed ledger never runs ahead of its schedule, also across restarts
   from stale snapshots (host_ledger_spend_at, host_ledger_refund_at). *)
THEOREM LedgerOnSchedule == Spec => []ScheduleRespected
  BY InitInv, NextInv, PTL DEF Spec, LedgerInv

(* An accepted withdrawal always carries the signature from which the
   neighbouring arc extracts its witness (host_ledger_extract_withdrawal). *)
THEOREM LedgerExtractable == Spec => []WithdrawalExtractable
  BY InitInv, NextInv, PTL DEF Spec, LedgerInv

(* The snapshot decoder accepts the encoding of every reachable ledger. *)
THEOREM LedgerRecoverable == Spec => []SnapshotRecoverable
  BY InitInv, NextInv, PTL DEF Spec, LedgerInv

-----------------------------------------------------------------------------
(* Host time passes through the epochs of AssetLedger in order. *)
LEMMA EpochMonotone ==
    ASSUME LedgerInv, LedgerInv', now' >= now, ledger'.timed = ledger.timed
    PROVE  Epoch \in 0 .. 3 /\ Epoch' \in 0 .. 3 /\ Epoch' >= Epoch
<1>1. /\ now \in Nat /\ now' \in Nat /\ ledger.timed \in BOOLEAN
      /\ Schedule.origin \in Nat /\ Schedule.window \in Nat /\ Schedule.refund \in Nat
      /\ Schedule.origin + Schedule.window <= Schedule.refund
  BY ScheduleFacts, HorizonAssumption DEF LedgerInv, TypeOK, Ledger
<1>2. CASE ~ ledger.timed
  BY <1>2 DEF Epoch
<1>3. CASE ledger.timed
  BY <1>1, <1>3 DEF Epoch, PreswapLive, RefundReady
<1> QED
  BY <1>1, <1>2, <1>3

(* The epoch each accepted timed operation happens in. *)
LEMMA EpochOfOperations ==
    ASSUME LedgerInv
    PROVE  /\ ledger.timed /\ PreswapLive(Schedule, now) => Epoch = 1
           /\ ledger.timed /\ RefundReady(Schedule, now) => Epoch = 3
           /\ ledger.timed /\ now >= Schedule.origin => Epoch >= 1
           /\ ~ ledger.timed => Epoch = 3
<1>1. /\ now \in Nat /\ ledger.timed \in BOOLEAN
      /\ Schedule.origin \in Nat /\ Schedule.window \in Nat /\ Schedule.refund \in Nat
      /\ Schedule.origin + Schedule.window <= Schedule.refund
  BY ScheduleFacts, HorizonAssumption DEF LedgerInv, TypeOK, Ledger
<1> QED
  BY <1>1 DEF Epoch, PreswapLive, RefundReady

(* A step that only changes the ledger and not its timing leaves the epoch. *)
LEMMA EpochUnchanged ==
    ASSUME now' = now, ledger'.timed = ledger.timed
    PROVE  Epoch' = Epoch
  BY DEF Epoch

LEMMA AssetOfStates ==
    /\ AssetOf["UNFUNDED"] = "unfunded" /\ AssetOf["LOCKED"] = "locked"
    /\ AssetOf["WITHDRAWN"] = "paid" /\ AssetOf["REFUNDED"] = "returned"
  BY DEF AssetOf

LEMMA StepRefines ==
    LedgerInv /\ LedgerInv' /\ [LedgerNext]_vars => [Asset!AssetNext]_(Asset!assetVars)
<1> SUFFICES ASSUME LedgerInv, LedgerInv', [LedgerNext]_vars
             PROVE  \/ Asset!AssetNext
                    \/ AssetOf[ledger.state]' = AssetOf[ledger.state] /\ Epoch' = Epoch
  BY DEF Asset!assetVars
<1> USE AssetOfStates
<1>1. Consistent(ledger)
  BY InvConsistent
<1>2. CASE Tick
  <2>1. ledger' = ledger /\ now' >= now
    BY <1>2, HorizonAssumption DEF Tick, LedgerInv, TypeOK
  <2>2. Epoch \in 0 .. 3 /\ Epoch' \in 0 .. 3 /\ Epoch' >= Epoch
    BY <2>1, EpochMonotone
  <2>3. Epoch' = Epoch \/ Epoch' \in Epoch + 1 .. 3
    BY <2>2
  <2> QED
    BY <2>1, <2>3 DEF Asset!AssetNext, Asset!NextEpoch
<1>3. ASSUME NEW sig \in Signature, LockAt(sig)
      PROVE  Asset!Fund
  <2>1. ledger'.timed = ledger.timed /\ ledger'.state = "LOCKED" /\ now' = now
    BY <1>1, <1>3, LockConsistent DEF LockAt
  <2>2. ledger.state = "UNFUNDED" /\ Epoch = 1
    BY <1>3, EpochOfOperations DEF LockAt, LockAccepts
  <2>3. Epoch' = Epoch
    BY <2>1, EpochUnchanged
  <2> QED
    BY <2>1, <2>2, <2>3 DEF Asset!Fund
<1>4. ASSUME NEW sig \in Signature, NEW ordinal \in Ordinal,
             SpendAccepts(ledger, ordinal, sig), Epoch >= 1,
             ledger' = SpendResult(ledger, ordinal, sig), now' = now
      PROVE  \/ Asset!Pay
             \/ AssetOf[ledger.state]' = AssetOf[ledger.state] /\ Epoch' = Epoch
  <2>1. /\ ledger'.timed = ledger.timed
        /\ ledger'.state = "WITHDRAWN" \/ ledger'.state = "LOCKED"
    BY <1>1, <1>4, SpendConsistent
  <2>2. ledger.state = "LOCKED"
    BY <1>4 DEF SpendAccepts
  <2>3. Epoch' = Epoch
    BY <1>4, <2>1, EpochUnchanged
  <2> QED
    BY <1>4, <2>1, <2>2, <2>3 DEF Asset!Pay
<1>5. ASSUME NEW sig \in Signature, RefundAccepts(ledger, sig), Epoch = 3,
             ledger' = RefundResult(ledger), now' = now
      PROVE  Asset!Return
  <2>1. ledger'.timed = ledger.timed /\ ledger'.state = "REFUNDED"
    BY <1>1, <1>5, RefundConsistent
  <2>2. ledger.state = "LOCKED"
    BY <1>5 DEF RefundAccepts
  <2>3. Epoch' = Epoch
    BY <1>5, <2>1, EpochUnchanged
  <2> QED
    BY <1>5, <2>1, <2>2, <2>3 DEF Asset!Return
<1>6. ASSUME NEW sig \in Signature, NEW ordinal \in Ordinal,
             SpendAt(ordinal, sig) \/ Spend(ordinal, sig)
      PROVE  \/ Asset!Pay
             \/ AssetOf[ledger.state]' = AssetOf[ledger.state] /\ Epoch' = Epoch
  <2>1. Epoch >= 1
    BY <1>6, EpochOfOperations DEF SpendAt, SpendAtAccepts, Spend
  <2> QED
    BY <1>4, <1>6, <2>1 DEF SpendAt, SpendAtAccepts, Spend
<1>7. ASSUME NEW sig \in Signature, RefundAt(sig) \/ Refund(sig)
      PROVE  Asset!Return
  <2>1. Epoch = 3
    BY <1>7, EpochOfOperations DEF RefundAt, RefundAtAccepts, Refund
  <2> QED
    BY <1>5, <1>7, <2>1 DEF RefundAt, RefundAtAccepts, Refund
<1>8. CASE UNCHANGED vars
  BY <1>8, EpochUnchanged DEF vars
<1> QED
  BY <1>2, <1>3, <1>6, <1>7, <1>8 DEF LedgerNext, Asset!AssetNext

(* Without restarts one arc's ledger implements AssetLedger: it is funded only
   in the pre-swap window, settles at most once, pays or returns but never
   both, and returns only after the refund time. *)
THEOREM LedgerSettlesOnce == LedgerSpec => SettlesOnce
<1>1. Init => Asset!AssetInit
  <2> SUFFICES ASSUME Init PROVE Asset!AssetInit
    OBVIOUS
  <2>1. LedgerInv
    BY InitInv
  <2>2. Epoch \in 0 .. 3
    BY DEF Epoch
  <2>3. ledger.state \in {"LOCKED", "UNFUNDED"}
    BY DEF Init, Created, CreatedTimed, CreatedUnfunded, NewLedger
  <2> QED
    BY <2>2, <2>3, AssetOfStates DEF Asset!AssetInit
<1>2. [LedgerNext]_vars => [Next]_vars
  BY DEF Next
<1>3. LedgerSpec => []LedgerInv
  BY <1>2, InitInv, NextInv, PTL DEF LedgerSpec
<1> QED
  BY <1>1, <1>3, StepRefines, PTL DEF LedgerSpec, SettlesOnce, Asset!AssetSpec
=============================================================================
