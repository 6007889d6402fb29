--------------------------- MODULE LifecycleProofs ---------------------------
(***************************************************************************)
(* The inductive invariant of the orchestrator and of its backend threads, *)
(* for every number of participants, every backend and every injected      *)
(* fault; and the orchestrator as an implementation of IdealCycle.         *)
(***************************************************************************)
EXTENDS Lifecycle, FiniteSetTheorems, TLAPS

\* What the peers of an accepted arc have confirmed.
Confirmed(t) ==
    /\ backend # "double" => t.client = "ok"
    /\ backend = "native" => t.server = "ok"

\* A thread, with its answer: no process is left, and none was passed over.
ThreadFacts(t, answer) ==
    /\ t.at = "done" <=> answer # "none"
    /\ t.at = "new" => t.server = "none" /\ t.client = "none"
    /\ t.at = "ready" => t.client = "none"
    /\ t.at = "done" /\ (t.server \in Alive \/ t.client \in Alive) => backend = "native" /\ t.client = "none"
    /\ t.at \in {"server", "sample", "conform"} => t.client = "ok"
    /\ t.at = "finally" /\ t.verdict = "accepted" => t.client = "ok"
    /\ answer = "accepted" => Confirmed(t)

ThreadsInv == ThreadsType /\ \A a \in Arc : ThreadFacts(threads[a], results[a])

LEMMA ThreadsInitially == ThreadsInit => ThreadsInv
<1> SUFFICES ASSUME ThreadsInit PROVE ThreadsInv
  OBVIOUS
<1>1. [at |-> "new", server |-> "none", client |-> "none", retries |-> 0, verdict |-> "failed"] \in ThreadState
  BY DEF ThreadState, Stage, Process, Alive
<1>2. ThreadsType
  BY <1>1 DEF ThreadsInit, ThreadsType
<1>3. \A a \in Arc : ThreadFacts(threads[a], results[a])
  BY DEF ThreadsInit, ThreadFacts, Confirmed, Alive
<1> QED
  BY <1>2, <1>3 DEF ThreadsInv

\* Nothing is asked of the other arcs when one arc's thread and answer change.
LEMMA OneThread ==
    ASSUME ThreadsInv, NEW a \in Arc, NEW t \in ThreadState, NEW answer \in Answer \cup {"none"},
           threads' = [threads EXCEPT ![a] = t], results' = [results EXCEPT ![a] = answer],
           ThreadFacts(t, answer), UNCHANGED <<backend, fault>>
    PROVE  ThreadsInv'
<1>1. threads' \in [Arc -> ThreadState] /\ results' \in [Arc -> Answer \cup {"none"}]
  BY DEF ThreadsInv, ThreadsType
<1>2. ThreadsType'
  BY <1>1 DEF ThreadsInv, ThreadsType
<1>3. ASSUME NEW b \in Arc PROVE ThreadFacts(threads[b], results[b])'
  <2>1. CASE b = a
    <3>1. threads'[b] = t /\ results'[b] = answer
      BY <2>1 DEF ThreadsInv, ThreadsType
    <3> QED
      BY <3>1 DEF ThreadFacts, Confirmed
  <2>2. CASE b # a
    <3>1. threads'[b] = threads[b] /\ results'[b] = results[b]
      BY <2>2 DEF ThreadsInv, ThreadsType
    <3>2. ThreadFacts(threads[b], results[b])
      BY DEF ThreadsInv
    <3> QED
      BY <3>1, <3>2 DEF ThreadFacts, Confirmed
  <2> QED
    BY <2>1, <2>2
<1> QED
  BY <1>2, <1>3 DEF ThreadsInv

\* What the end of a thread and of its processes leaves of it.
LEMMA OverThread ==
    ASSUME NEW t \in ThreadState
    PROVE  /\ Over(t) \in ThreadState /\ Over(t).at = "done"
           /\ Over(t).server = t.server /\ Over(t).client = t.client
BY DEF Over, ThreadState, Stage

LEMMA ReapedThread ==
    ASSUME NEW t \in ThreadState
    PROVE  /\ Reaped(t) \in ThreadState
           /\ Reaped(t).server \notin Alive /\ Reaped(t).client \notin Alive
           /\ t.server \notin Alive => Reaped(t).server = t.server
           /\ t.client \notin Alive => Reaped(t).client = t.client
<1>1. End(t.server) \in Process /\ End(t.client) \in Process
  BY DEF ThreadState, Process, Alive, End
<1>2. Reaped(t) \in ThreadState /\ Reaped(t).server = End(t.server) /\ Reaped(t).client = End(t.client)
  BY <1>1 DEF Reaped, ThreadState
<1> QED
  BY <1>2 DEF End, Alive

\* The thread that an action of ArcBackends leaves behind.
LEMMA ThreadReturns ==
    ASSUME ThreadsInv, NEW a \in Arc, NEW answer \in Answer, Return(a, answer),
           UNCHANGED <<backend, fault>>,
           answer = "accepted" => Confirmed(threads[a])
    PROVE  ThreadsInv'
<1> DEFINE r == Reaped(threads[a])
           t == Over(r)
<1>1. threads[a] \in ThreadState
  BY DEF ThreadsInv, ThreadsType
<1>2. /\ r \in ThreadState /\ r.server \notin Alive /\ r.client \notin Alive
      /\ threads[a].server \notin Alive => r.server = threads[a].server
      /\ threads[a].client \notin Alive => r.client = threads[a].client
  BY <1>1, ReapedThread
<1>3. t \in ThreadState /\ t.at = "done" /\ t.server = r.server /\ t.client = r.client
  BY <1>2, OverThread
<1>4. threads' = [threads EXCEPT ![a] = t] /\ results' = [results EXCEPT ![a] = answer]
  BY DEF Return, Answers
<1> HIDE DEF t, r
<1>5. ThreadFacts(t, answer)
  BY <1>2, <1>3 DEF ThreadFacts, Confirmed, Alive, Answer
<1> QED
  BY <1>3, <1>4, <1>5, OneThread

LEMMA ThreadRaises ==
    ASSUME ThreadsInv, NEW a \in Arc, Raise(a), UNCHANGED <<backend, fault>>,
           threads[a].at = "new" \/ (backend = "native" /\ threads[a].at = "ready")
    PROVE  ThreadsInv'
<1> DEFINE t == Over(threads[a])
<1>1. threads[a] \in ThreadState /\ ThreadFacts(threads[a], results[a])
  BY DEF ThreadsInv, ThreadsType
<1>2. t \in ThreadState /\ t.at = "done" /\ t.server = threads[a].server /\ t.client = threads[a].client
  BY <1>1, OverThread
<1>3. threads' = [threads EXCEPT ![a] = t] /\ results' = [results EXCEPT ![a] = "failed"]
  BY DEF Raise, Answers
<1> HIDE DEF t
<1>4. ThreadFacts(t, "failed")
  BY <1>1, <1>2 DEF ThreadFacts, Confirmed, Alive
<1>5. "failed" \in Answer \cup {"none"}
  BY DEF Answer
<1> QED
  BY <1>2, <1>3, <1>4, <1>5, OneThread

\* A thread that goes on has not answered before, and does not now.
LEMMA ThreadMoves ==
    ASSUME ThreadsInv, NEW a \in Arc, NEW t \in ThreadState, Moves(a, t),
           UNCHANGED <<backend, fault>>, ThreadFacts(t, results[a])
    PROVE  ThreadsInv'
<1>1. results[a] \in Answer \cup {"none"} /\ results' = [results EXCEPT ![a] = results[a]]
  BY DEF ThreadsInv, ThreadsType, Moves
<1>2. threads' = [threads EXCEPT ![a] = t]
  BY DEF Moves
<1> QED
  BY <1>1, <1>2, OneThread

\* Every step of a thread keeps the facts of all threads.
LEMMA ThreadStep ==
    ASSUME ThreadsInv, NEW a \in Arc, Thread(a), UNCHANGED <<backend, fault>>
    PROVE  ThreadsInv'
<1> DEFINE t == threads[a]
<1>1. t \in ThreadState /\ ThreadFacts(t, results[a])
  BY DEF ThreadsInv, ThreadsType
<1>2. {"accepted", "failed"} \subseteq Answer
  BY DEF Answer
<1>3. ASSUME Return(a, "failed") PROVE ThreadsInv'
  BY <1>2, <1>3, ThreadReturns
<1>4. ASSUME t.at = "new", Started(a) PROVE ThreadsInv'
  <2> DEFINE u == [t EXCEPT !.at = "ready", !.server = "starting"]
  <2>1. u \in ThreadState /\ u.at = "ready" /\ u.client = t.client /\ u.server = "starting"
    BY <1>1 DEF ThreadState, Stage, Process, Alive
  <2>2. Moves(a, u)
    BY <1>4 DEF Started
  <2> HIDE DEF u
  <2>3. ThreadFacts(u, results[a])
    BY <1>1, <1>4, <2>1 DEF ThreadFacts, Confirmed, Alive, ThreadState
  <2> QED
    BY <2>1, <2>2, <2>3, ThreadMoves
<1>5. ASSUME t.at = "ready", ClientStarted(a) PROVE ThreadsInv'
  <2> DEFINE u == [t EXCEPT !.at = "client", !.client = "bound"]
  <2>1. u \in ThreadState /\ u.at = "client" /\ u.client = "bound" /\ u.server = t.server
    BY <1>1 DEF ThreadState, Stage, Process, Alive
  <2>2. Moves(a, u)
    BY <1>5 DEF ClientStarted
  <2> HIDE DEF u
  <2>3. results[a] \in Answer \cup {"none"}
    BY DEF ThreadsInv, ThreadsType
  <2>4. ThreadFacts(u, results[a])
    BY <1>1, <1>5, <2>1, <2>3 DEF ThreadFacts, Confirmed, Alive, ThreadState, Answer
  <2> QED
    BY <2>1, <2>2, <2>4, ThreadMoves
<1>6. ASSUME t.client = "ok", t.at # "done", NEW stage \in {"server", "sample"}, Goto(a, stage) PROVE ThreadsInv'
  <2> DEFINE u == [t EXCEPT !.at = stage]
  <2>1. u \in ThreadState /\ u.at = stage /\ u.client = t.client /\ u.server = t.server
    BY <1>1 DEF ThreadState, Stage
  <2>2. Moves(a, u)
    BY <1>6 DEF Goto
  <2> HIDE DEF u
  <2>3. ThreadFacts(u, results[a])
    BY <1>1, <1>6, <2>1 DEF ThreadFacts, Confirmed, Alive, ThreadState
  <2> QED
    BY <2>1, <2>2, <2>3, ThreadMoves
<1>7. ASSUME t.at \notin {"new", "done"}, NEW verdict \in {"accepted", "failed"},
             verdict = "accepted" => t.client = "ok", Leave(a, verdict)
      PROVE  ThreadsInv'
  <2> DEFINE u == [t EXCEPT !.at = "finally", !.client = End(t.client), !.retries = 0, !.verdict = verdict]
  <2>1. End(t.client) \in Process /\ (t.client = "ok" => End(t.client) = "ok")
    BY <1>1 DEF End, Process, Alive, ThreadState
  <2>2. u \in ThreadState /\ u.at = "finally" /\ u.client = End(t.client) /\ u.verdict = verdict
    BY <1>1, <2>1 DEF ThreadState, Stage
  <2>3. Moves(a, u)
    BY <1>7 DEF Leave
  <2> HIDE DEF u
  <2>4. ThreadFacts(u, results[a])
    BY <1>1, <1>7, <2>1, <2>2 DEF ThreadFacts, Confirmed, Alive, ThreadState
  <2> QED
    BY <2>2, <2>3, <2>4, ThreadMoves
<1>8. CASE PeerAbort(a)
  BY <1>3, <1>8 DEF PeerAbort
<1>9. CASE NativeStart(a) \/ OasisStart(a)
  BY <1>4, <1>9, ThreadRaises DEF NativeStart, OasisStart, At
<1>10. CASE NativeReady(a)
  BY <1>3, <1>5, <1>10, ThreadRaises DEF NativeReady, At
<1>11. CASE NativeClient(a)
  BY <1>3, <1>6, <1>11 DEF NativeClient, At
<1>12. CASE NativeServer(a)
  <2>1. ASSUME t.server = "ok", Return(a, "accepted") PROVE ThreadsInv'
    <3>1. Confirmed(t)
      BY <1>1, <1>12, <2>1 DEF Confirmed, NativeServer, At, ThreadFacts
    <3> QED
      BY <1>2, <2>1, <3>1, ThreadReturns
  <2>2. PICK answer \in {"accepted", "failed"} :
            Return(a, answer) /\ (answer = "accepted" => t.server = "ok")
    BY <1>12 DEF NativeServer
  <2> QED
    BY <1>3, <2>1, <2>2
<1>13. CASE OasisReady(a)
  BY <1>5, <1>7, <1>13 DEF OasisReady, At
<1>14. CASE OasisClient(a)
  BY <1>6, <1>7, <1>14 DEF OasisClient, At
<1>15. CASE CheckSample(a)
  <2>1. CASE Leave(a, "failed")
    BY <1>7, <1>15, <2>1 DEF CheckSample, At
  <2>2. ASSUME NEW retries \in {0, 1}, Moves(a, [t EXCEPT !.at = "conform", !.retries = retries])
        PROVE  ThreadsInv'
    <3> DEFINE u == [t EXCEPT !.at = "conform", !.retries = retries]
    <3>1. u \in ThreadState /\ u.at = "conform" /\ u.client = t.client /\ u.server = t.server
      BY <1>1 DEF ThreadState, Stage
    <3> HIDE DEF u
    <3>2. ThreadFacts(u, results[a])
      BY <1>1, <1>15, <3>1 DEF ThreadFacts, Confirmed, CheckSample, At
    <3>3. Moves(a, u)
      BY <2>2 DEF u
    <3> QED
      BY <3>1, <3>2, <3>3, ThreadMoves
  <2> QED
    BY <1>15, <2>1, <2>2 DEF CheckSample
<1>16. CASE Conform(a)
  <2>1. t.at = "conform" /\ t.client = "ok"
    BY <1>1, <1>16 DEF Conform, At, ThreadFacts
  <2>2. PICK verdict \in {"accepted", "failed"} : Leave(a, verdict)
    BY <1>16 DEF Conform
  <2> QED
    BY <1>7, <2>1, <2>2
<1>17. CASE Finally(a)
  <2>1. Return(a, t.verdict) /\ t.at = "finally" /\ backend = "oasis"
    BY <1>17 DEF Finally, At
  <2>2. t.verdict \in Answer
    BY <1>1, <1>2 DEF ThreadState
  <2>3. t.verdict = "accepted" => Confirmed(t)
    BY <1>1, <2>1 DEF Confirmed, ThreadFacts
  <2> QED
    BY <2>1, <2>2, <2>3, ThreadReturns
<1>18. CASE Double(a)
  <2>1. backend = "double"
    BY <1>18 DEF Double, At
  <2>2. PICK answer \in Answer : Return(a, answer)
    BY <1>2, <1>18 DEF Double
  <2>3. Confirmed(t)
    BY <2>1 DEF Confirmed
  <2> QED
    BY <2>2, <2>3, ThreadReturns
<1> QED
  BY <1>8, <1>9, <1>10, <1>11, <1>12, <1>13, <1>14, <1>15, <1>16, <1>17, <1>18 DEF Thread

\* The native processes move among themselves only.
LEMMA PeerStep ==
    ASSUME ThreadsInv, NEW a \in Arc, Peers(a)
    PROVE  ThreadsInv' /\ UNCHANGED results
<1> DEFINE t == threads[a]
<1>1. t \in ThreadState /\ ThreadFacts(t, results[a]) /\ UNCHANGED <<backend, fault>>
  BY DEF ThreadsInv, ThreadsType, Peers
<1>2. ASSUME ServerStep(a) PROVE ThreadsInv' /\ UNCHANGED results
  <2>1. PICK status \in {"bound", "ok", "bad"} : Moves(a, [t EXCEPT !.server = status])
    BY <1>2 DEF ServerStep
  <2> DEFINE u == [t EXCEPT !.server = status]
  <2>2. u \in ThreadState /\ u.server = status /\ u.at = t.at /\ u.client = t.client /\ u.verdict = t.verdict
    BY <1>1 DEF ThreadState, Process, Alive
  <2>3. Moves(a, u) /\ UNCHANGED results
    BY <2>1 DEF Moves
  <2> HIDE DEF u
  <2>4. t.server \in Alive
    BY <1>2 DEF ServerStep
  <2>5. ThreadFacts(u, results[a])
    BY <1>1, <2>2, <2>4 DEF ThreadFacts, Confirmed, Alive
  <2> QED
    BY <1>1, <2>2, <2>3, <2>5, ThreadMoves
<1>3. ASSUME ClientStep(a) PROVE ThreadsInv' /\ UNCHANGED results
  <2>1. PICK status \in {"ok", "bad"} : Moves(a, [t EXCEPT !.client = status])
    BY <1>3 DEF ClientStep
  <2> DEFINE u == [t EXCEPT !.client = status]
  <2>2. u \in ThreadState /\ u.client = status /\ u.at = t.at /\ u.server = t.server /\ u.verdict = t.verdict
    BY <1>1 DEF ThreadState, Process
  <2>3. Moves(a, u) /\ UNCHANGED results
    BY <2>1 DEF Moves
  <2> HIDE DEF u
  <2>4. t.client \in Alive
    BY <1>3 DEF ClientStep
  <2>5. ThreadFacts(u, results[a])
    BY <1>1, <2>2, <2>4 DEF ThreadFacts, Confirmed, Alive
  <2> QED
    BY <1>1, <2>2, <2>3, <2>5, ThreadMoves
<1> QED
  BY <1>2, <1>3 DEF Peers
-----------------------------------------------------------------------------
\* The arcs the loop has passed are in one state, the others in another.
AssetsAre(passed, ahead) == \A a \in Arc : assets[a] = IF a < pc.arc THEN passed ELSE ahead

PhaseInv ==
    /\ In("prepare") => phase = "initial" /\ pc.arc = 0
    /\ In("lock") \/ In("preswap") => phase = "pre_swap"
    /\ In("share") => phase = "witness_sharing"
    /\ In("swap") \/ In("relock") => phase = "swap"
    /\ In("refund") => phase = "refund"
    /\ In("report") => phase = "complete"

AssetsInv ==
    /\ In("prepare") => AssetsAre("unlocked", "unlocked")
    /\ In("lock") => AssetsAre("locked", "unlocked")
    /\ In("preswap") \/ In("share") \/ In("relock") => AssetsAre("locked", "locked")
    /\ In("swap") => AssetsAre("withdrawn", "locked")
    /\ In("refund") => AssetsAre("refunded", "locked")
    /\ In("report") /\ Complete => \A a \in Arc : assets[a] = "withdrawn"
    /\ In("report") /\ ~ Complete => \A a \in Arc : assets[a] = "refunded"

\* The vector is exported once, from valid answers, and only then witnesses leave.
VectorInv ==
    /\ In("prepare") \/ In("lock") \/ In("preswap") => witnesses = {} /\ ~ exported
    /\ exported => ~ late /\ \A a \in Arc : results[a] = "accepted"
    /\ In("share") \/ In("swap") \/ In("relock") => exported
    /\ witnesses # {} => exported
    /\ In("swap") => Complete
    /\ In("relock") \/ In("refund") => ~ Complete

\* relock_until_refund goes around the arcs: those it has passed are one ahead.
LevelInv ==
    /\ In("prepare") \/ In("lock") \/ In("preswap") \/ In("share") => \A a \in Arc : level[a] = 0
    /\ In("relock") =>
         /\ pc.arc \in Arc
         /\ \A a \in Arc : level[a] = level[pc.arc] + (IF a < pc.arc THEN 1 ELSE 0)
    /\ exported /\ (In("refund") \/ (In("report") /\ ~ Complete)) => \A a \in Arc : level[a] = N - 1

IInv == TypeOK /\ ThreadsInv /\ PhaseInv /\ AssetsInv /\ VectorInv /\ LevelInv

LEMMA NoWitnessIncomplete == witnesses = {} => ~ Complete
BY FS_EmptySet, ParticipantsAssumption DEF Complete

LEMMA InitInv == Init => IInv
<1> SUFFICES ASSUME Init PROVE IInv
  OBVIOUS
<1>1. ThreadsInv
  BY ThreadsInitially DEF Init
<1>2. TypeOK
  <2>1. pc \in [method : Method, arc : 0 .. N] /\ phase \in Phase
    BY ParticipantsAssumption DEF Init, Method, Phase
  <2>2. 0 \in Arc
    BY ParticipantsAssumption DEF Arc
  <2>3. assets \in [Arc -> {"unlocked", "locked", "withdrawn", "refunded"}] /\ level \in [Arc -> Arc]
    BY <2>2 DEF Init
  <2>4. late \in BOOLEAN /\ exported \in BOOLEAN /\ witnesses \in SUBSET Arc
    BY DEF Init
  <2> QED
    BY <1>1, <2>1, <2>3, <2>4 DEF TypeOK, ThreadsInv
<1>3. pc.method = "prepare" /\ pc.arc = 0
  BY DEF Init
<1>4. PhaseInv
  BY <1>3 DEF Init, PhaseInv, In
<1>5. AssetsInv
  BY <1>3 DEF Init, AssetsInv, AssetsAre, In
<1>6. VectorInv
  BY <1>3 DEF Init, VectorInv, In
<1>7. LevelInv
  BY <1>3 DEF Init, LevelInv, In
<1> QED
  BY <1>1, <1>2, <1>4, <1>5, <1>6, <1>7 DEF IInv

LEMMA ThreadsStep == IInv /\ [Next]_vars => ThreadsInv'
<1> SUFFICES ASSUME IInv, [Next]_vars PROVE ThreadsInv'
  OBVIOUS
<1>1. CASE UNCHANGED arcVars
  <2>1. ThreadsInv /\ UNCHANGED <<backend, fault, threads, results>>
    BY <1>1 DEF IInv, arcVars
  <2> QED
    BY <2>1 DEF ThreadsInv, ThreadsType, ThreadFacts, Confirmed
<1>2. CASE \E a \in Arc : ArcSteps(a) \/ PeerSteps(a)
  BY <1>2, ThreadStep, PeerStep DEF IInv, ArcSteps, PeerSteps
<1> QED
  BY <1>1, <1>2 DEF Next, Driver, BudgetSpent, Prepare, LockArc, StartArcs, Export, ShareWitness,
     WitnessesShared, WithdrawArc, Withdrawn, RelockArc, RefundArc, Refunded, vars

\* Where the driver goes: into a method at its first arc, or on to the next arc.
LEMMA CallType == \A method \in Method : Call(method) => pc' \in [method : Method, arc : 0 .. N]
BY ParticipantsAssumption DEF Call

LEMMA TypeStep == IInv /\ [Next]_vars => TypeOK'
<1> SUFFICES ASSUME IInv, [Next]_vars PROVE TypeOK'
  OBVIOUS
<1> USE ParticipantsAssumption
<1>0. TypeOK /\ ThreadsType'
  BY ThreadsStep DEF IInv, ThreadsInv
<1>1. pc' \in [method : Method, arc : 0 .. N]
  <2>1. CASE Prepare \/ StartArcs \/ Export \/ WitnessesShared \/ Withdrawn \/ Refunded
    BY <2>1, CallType DEF Prepare, StartArcs, Export, WitnessesShared, Withdrawn, Refunded, EnterRefund, Method
  <2>2. ASSUME NEW limit \in {N, N - 1}, NEW method, Turn(method, limit) PROVE pc' \in [method : Method, arc : 0 .. N]
    BY <1>0, <2>2 DEF Turn, TypeOK
  <2>3. CASE LockArc \/ ShareWitness \/ WithdrawArc \/ RefundArc
    BY <2>2, <2>3 DEF LockArc, ShareWitness, WithdrawArc, RefundArc, Limit
  <2>4. CASE RelockArc
    <3>1. CASE pc' = [pc EXCEPT !.arc = Following]
      <4>1. Following \in 0 .. N
        BY <2>4 DEF RelockArc, IInv, LevelInv, Arc, Following
      <4>2. PICK arc \in 0 .. N : pc' = [pc EXCEPT !.arc = arc]
        BY <3>1, <4>1
      <4>3. pc \in [method : Method, arc : 0 .. N]
        BY <1>0 DEF TypeOK
      <4> QED
        BY <4>2, <4>3
    <3>2. CASE EnterRefund
      BY <3>2, CallType DEF EnterRefund, Method
    <3> QED
      BY <2>4, <3>1, <3>2 DEF RelockArc
  <2>5. CASE UNCHANGED pc
    BY <1>0, <2>5 DEF TypeOK
  <2> QED
    BY <2>1, <2>3, <2>4, <2>5 DEF Next, Driver, BudgetSpent, ArcSteps, PeerSteps, Drives, vars
<1>2. phase' \in Phase
  BY <1>0 DEF TypeOK, Next, Driver, BudgetSpent, ArcSteps, PeerSteps, Drives, vars, Prepare, LockArc,
     StartArcs, Export, ShareWitness, WitnessesShared, WithdrawArc, Withdrawn, RelockArc, RefundArc,
     Refunded, EnterRefund, Phase
<1>3. assets' \in [Arc -> {"unlocked", "locked", "withdrawn", "refunded"}]
  <2>1. CASE LockArc \/ WithdrawArc \/ RefundArc
    BY <1>0, <2>1 DEF TypeOK, LockArc, WithdrawArc, RefundArc, SetAsset
  <2>2. CASE UNCHANGED assets
    BY <1>0, <2>2 DEF TypeOK
  <2> QED
    BY <2>1, <2>2 DEF Next, Driver, BudgetSpent, ArcSteps, PeerSteps, Drives, vars, Prepare,
       StartArcs, Export, ShareWitness, WitnessesShared, Withdrawn, RelockArc, Refunded
<1>4. level' \in [Arc -> Arc]
  <2>1. CASE RelockArc
    <3>1. pc.arc \in Arc
      BY <2>1 DEF IInv, LevelInv, RelockArc
    <3>2. CASE level[pc.arc] < N - 1 /\ level' = [level EXCEPT ![pc.arc] = @ + 1]
      BY <1>0, <3>1, <3>2 DEF TypeOK, Arc
    <3> QED
      BY <1>0, <2>1, <3>2 DEF RelockArc, TypeOK
  <2>2. CASE UNCHANGED level
    BY <1>0, <2>2 DEF TypeOK
  <2> QED
    BY <2>1, <2>2 DEF Next, Driver, BudgetSpent, ArcSteps, PeerSteps, Drives, vars, Prepare, LockArc,
       StartArcs, Export, ShareWitness, WitnessesShared, WithdrawArc, Withdrawn, RefundArc, Refunded
<1>5. late' \in BOOLEAN
  <2>1. CASE late' = TRUE
    BY <2>1
  <2>2. CASE UNCHANGED late
    BY <1>0, <2>2 DEF TypeOK
  <2> QED
    BY <2>1, <2>2 DEF Next, Driver, BudgetSpent, ArcSteps, PeerSteps, Drives, vars, Prepare, LockArc,
       StartArcs, Export, ShareWitness, WitnessesShared, WithdrawArc, Withdrawn, RelockArc, RefundArc, Refunded
<1>6. exported' \in BOOLEAN
  <2>1. CASE Export
    <3>1. Accepted \in BOOLEAN
      BY DEF Accepted
    <3> QED
      BY <2>1, <3>1 DEF Export
  <2>2. CASE UNCHANGED exported
    BY <1>0, <2>2 DEF TypeOK
  <2> QED
    BY <2>1, <2>2 DEF Next, Driver, BudgetSpent, ArcSteps, PeerSteps, Drives, vars, Prepare, LockArc,
       StartArcs, ShareWitness, WitnessesShared, WithdrawArc, Withdrawn, RelockArc, RefundArc, Refunded
<1>7. witnesses' \in SUBSET Arc
  <2>1. CASE ShareWitness
    BY <1>0, <2>1 DEF TypeOK, ShareWitness, Turn, Limit, Arc
  <2>2. CASE UNCHANGED witnesses
    BY <1>0, <2>2 DEF TypeOK
  <2> QED
    BY <2>1, <2>2 DEF Next, Driver, BudgetSpent, ArcSteps, PeerSteps, Drives, vars, Prepare, LockArc,
       StartArcs, Export, WitnessesShared, WithdrawArc, Withdrawn, RelockArc, RefundArc, Refunded
<1> QED
  BY <1>0, <1>1, <1>2, <1>3, <1>4, <1>5, <1>6, <1>7 DEF TypeOK

LEMMA PhaseStep == IInv /\ [Next]_vars => PhaseInv'
<1> SUFFICES ASSUME IInv, [Next]_vars PROVE PhaseInv'
  OBVIOUS
<1>0. TypeOK /\ PhaseInv
  BY DEF IInv
<1>1. ASSUME NEW method \in Method, Call(method) PROVE pc'.method = method /\ pc'.arc = 0
  BY <1>1 DEF Call
<1>2. ASSUME NEW method, NEW limit, Turn(method, limit) PROVE pc.method = method /\ pc'.method = method
  BY <1>0, <1>2 DEF Turn, In, TypeOK
<1>3. CASE UNCHANGED <<pc, phase>>
  BY <1>0, <1>3 DEF PhaseInv, In
<1>4. CASE LockArc \/ ShareWitness \/ WithdrawArc \/ RefundArc
  BY <1>0, <1>2, <1>4 DEF LockArc, ShareWitness, WithdrawArc, RefundArc, PhaseInv, In
<1>5. CASE Prepare \/ StartArcs \/ Export \/ WitnessesShared \/ Withdrawn \/ Refunded
  BY <1>0, <1>1, <1>5 DEF Prepare, StartArcs, Export, WitnessesShared, Withdrawn, Refunded, EnterRefund,
     PhaseInv, In, LoopEnds, Method
<1>6. CASE RelockArc
  <2>1. CASE pc' = [pc EXCEPT !.arc = Following] /\ UNCHANGED phase
    <3>1. pc'.method = pc.method
      BY <1>0, <2>1 DEF TypeOK
    <3> QED
      BY <1>0, <1>6, <2>1, <3>1 DEF RelockArc, PhaseInv, In
  <2>2. CASE EnterRefund
    BY <1>1, <2>2 DEF EnterRefund, PhaseInv, In, Method
  <2> QED
    BY <1>6, <2>1, <2>2 DEF RelockArc
<1> QED
  BY <1>3, <1>4, <1>5, <1>6 DEF Next, Driver, BudgetSpent, ArcSteps, PeerSteps, Drives, vars

\* A turn of a loop that sets the asset of its arc.
LEMMA AssetTurn ==
    ASSUME TypeOK, NEW method, NEW passed \in {"locked", "withdrawn", "refunded"}, NEW ahead,
           Turn(method, N), SetAsset(passed), AssetsAre(passed, ahead)
    PROVE  pc'.method = method /\ AssetsAre(passed, ahead)'
<1>1. pc'.method = method /\ pc'.arc = pc.arc + 1 /\ pc.arc \in Arc
  BY ParticipantsAssumption DEF Turn, In, TypeOK, Arc
<1>2. assets' = [assets EXCEPT ![pc.arc] = passed] /\ assets \in [Arc -> {"unlocked", "locked", "withdrawn", "refunded"}]
  BY DEF SetAsset, TypeOK
<1>3. ASSUME NEW a \in Arc PROVE assets'[a] = IF a < pc.arc + 1 THEN passed ELSE ahead
  <2>1. a \in Int /\ pc.arc \in Int
    BY <1>1, ParticipantsAssumption DEF Arc
  <2>2. CASE a = pc.arc
    BY <1>2, <2>1, <2>2
  <2>3. CASE a # pc.arc
    <3>1. assets'[a] = assets[a]
      BY <1>2, <2>3
    <3>2. assets[a] = IF a < pc.arc THEN passed ELSE ahead
      BY DEF AssetsAre
    <3>3. a < pc.arc + 1 <=> a < pc.arc
      BY <2>1, <2>3
    <3> QED
      BY <3>1, <3>2, <3>3
  <2> QED
    BY <2>2, <2>3
<1> QED
  BY <1>1, <1>3 DEF AssetsAre

LEMMA AssetsStep == IInv /\ [Next]_vars => AssetsInv'
<1> SUFFICES ASSUME IInv, [Next]_vars PROVE AssetsInv'
  OBVIOUS
<1>0. TypeOK /\ PhaseInv /\ AssetsInv /\ VectorInv
  BY DEF IInv
<1>1. ASSUME NEW method \in Method, Call(method) PROVE pc'.method = method /\ pc'.arc = 0
  BY <1>1 DEF Call
<1>2. ASSUME NEW a \in Arc PROVE a \in Int /\ a >= 0 /\ a < N
  BY ParticipantsAssumption DEF Arc
<1>3. ASSUME UNCHANGED assets, pc'.arc = 0, NEW ahead, \A a \in Arc : assets[a] = ahead,
             NEW passed
      PROVE  AssetsAre(passed, ahead)'
  BY <1>2, <1>3 DEF AssetsAre
<1>4. ASSUME NEW method, LoopEnds(method, N), NEW passed, NEW ahead, AssetsAre(passed, ahead)
      PROVE  pc.method = method /\ \A a \in Arc : assets[a] = passed
  BY <1>2, <1>4 DEF AssetsAre, LoopEnds, In
<1>5. ASSUME NEW state, AssetsAre(state, state) PROVE \A a \in Arc : assets[a] = state
  BY <1>5 DEF AssetsAre
<1>6. CASE UNCHANGED <<pc, assets, witnesses>>
  BY <1>0, <1>6 DEF AssetsInv, AssetsAre, In, Complete
<1>7. CASE LockArc
  <2>1. AssetsAre("locked", "unlocked")
    BY <1>0, <1>7 DEF LockArc, Turn, AssetsInv
  <2>2. pc'.method = "lock" /\ AssetsAre("locked", "unlocked")'
    BY <1>0, <1>7, <2>1, AssetTurn DEF LockArc
  <2> QED
    BY <2>2 DEF AssetsInv, In
<1>8. CASE WithdrawArc
  <2>1. AssetsAre("withdrawn", "locked")
    BY <1>0, <1>8 DEF WithdrawArc, Turn, AssetsInv
  <2>2. pc'.method = "swap" /\ AssetsAre("withdrawn", "locked")'
    BY <1>0, <1>8, <2>1, AssetTurn DEF WithdrawArc
  <2> QED
    BY <2>2 DEF AssetsInv, In
<1>9. CASE RefundArc
  <2>1. AssetsAre("refunded", "locked")
    BY <1>0, <1>9 DEF RefundArc, Turn, AssetsInv
  <2>2. pc'.method = "refund" /\ AssetsAre("refunded", "locked")'
    BY <1>0, <1>9, <2>1, AssetTurn DEF RefundArc
  <2> QED
    BY <2>2 DEF AssetsInv, In
<1>10. CASE Prepare
  <2>1. pc'.method = "lock" /\ pc'.arc = 0 /\ UNCHANGED assets
    BY <1>1, <1>10 DEF Prepare, Method
  <2>2. \A a \in Arc : assets[a] = "unlocked"
    BY <1>0, <1>5, <1>10 DEF Prepare, AssetsInv
  <2> QED
    BY <1>3, <2>1, <2>2 DEF AssetsInv, In
<1>11. CASE StartArcs
  <2>1. pc'.method = "preswap" /\ pc'.arc = 0 /\ UNCHANGED assets
    BY <1>1, <1>11 DEF StartArcs, Method
  <2>2. \A a \in Arc : assets[a] = "locked"
    BY <1>0, <1>4, <1>11 DEF StartArcs, AssetsInv, LoopEnds
  <2> QED
    BY <1>3, <2>1, <2>2 DEF AssetsInv, In
<1>12. CASE Export \/ WitnessesShared
  <2>1. UNCHANGED assets /\ pc'.arc = 0 /\ pc'.method \in {"share", "refund", "swap", "relock"}
    BY <1>1, <1>12 DEF Export, WitnessesShared, EnterRefund, Method
  <2>2. \A a \in Arc : assets[a] = "locked"
    BY <1>0, <1>5, <1>12 DEF Export, WitnessesShared, AssetsInv, LoopEnds
  <2>3. AssetsAre("locked", "locked")' /\ AssetsAre("withdrawn", "locked")' /\ AssetsAre("refunded", "locked")'
    BY <1>3, <2>1, <2>2
  <2> QED
    BY <2>1, <2>3 DEF AssetsInv, In
<1>13. CASE ShareWitness
  <2>1. pc'.method = "share" /\ UNCHANGED assets
    BY <1>0, <1>13 DEF ShareWitness, Turn, In, TypeOK
  <2>2. \A a \in Arc : assets[a] = "locked"
    BY <1>0, <1>5, <1>13 DEF ShareWitness, AssetsInv, Turn
  <2> QED
    BY <2>1, <2>2 DEF AssetsInv, In, AssetsAre
<1>14. CASE RelockArc
  <2>1. UNCHANGED assets /\ \A a \in Arc : assets[a] = "locked"
    BY <1>0, <1>5, <1>14 DEF RelockArc, AssetsInv
  <2>2. CASE pc' = [pc EXCEPT !.arc = Following]
    <3>1. pc'.method = "relock"
      BY <1>0, <1>14, <2>2 DEF TypeOK, RelockArc, In
    <3> QED
      BY <2>1, <3>1 DEF AssetsInv, In, AssetsAre
  <2>3. CASE EnterRefund
    <3>1. pc'.method = "refund" /\ pc'.arc = 0
      BY <1>1, <2>3 DEF EnterRefund, Method
    <3> QED
      BY <1>3, <2>1, <3>1 DEF AssetsInv, In
  <2> QED
    BY <1>14, <2>2, <2>3 DEF RelockArc
<1>15. CASE Withdrawn
  <2>1. \A a \in Arc : assets[a] = "withdrawn"
    BY <1>0, <1>4, <1>15 DEF Withdrawn, AssetsInv, LoopEnds
  <2>2. UNCHANGED <<assets, witnesses>> /\ pc'.method = "report" /\ Complete
    BY <1>0, <1>1, <1>15 DEF Withdrawn, VectorInv, LoopEnds, Method
  <2> QED
    BY <2>1, <2>2 DEF AssetsInv, In, Complete
<1>16. CASE Refunded
  <2>1. \A a \in Arc : assets[a] = "refunded"
    BY <1>0, <1>4, <1>16 DEF Refunded, AssetsInv, LoopEnds
  <2>2. UNCHANGED <<assets, witnesses>> /\ pc'.method = "report" /\ ~ Complete
    BY <1>0, <1>1, <1>16 DEF Refunded, VectorInv, LoopEnds, Method
  <2> QED
    BY <2>1, <2>2 DEF AssetsInv, In, Complete
<1> QED
  BY <1>6, <1>7, <1>8, <1>9, <1>10, <1>11, <1>12, <1>13, <1>14, <1>15, <1>16
     DEF Next, Driver, BudgetSpent, ArcSteps, PeerSteps, Drives, vars

LEMMA VectorStep == IInv /\ [Next]_vars => VectorInv'
<1> SUFFICES ASSUME IInv, [Next]_vars PROVE VectorInv'
  OBVIOUS
<1>0. TypeOK /\ VectorInv
  BY DEF IInv
<1>1. ASSUME NEW method \in Method, Call(method) PROVE pc'.method = method
  BY <1>1 DEF Call
<1>2. ASSUME NEW method, NEW limit, Turn(method, limit) PROVE pc.method = method /\ pc'.method = method
  BY <1>0, <1>2 DEF Turn, In, TypeOK
<1>3. CASE UNCHANGED vars
  BY <1>0, <1>3 DEF vars, arcVars, VectorInv, In, Complete
<1>4. CASE Prepare \/ StartArcs
  <2>1. pc'.method \in {"lock", "preswap"} /\ witnesses = {} /\ ~ exported
    BY <1>0, <1>1, <1>4 DEF Prepare, StartArcs, LoopEnds, VectorInv, Method
  <2>2. UNCHANGED <<witnesses, exported>>
    BY <1>4 DEF Prepare, StartArcs
  <2> QED
    BY <2>1, <2>2 DEF VectorInv, In
<1>5. CASE BudgetSpent \/ \E a \in Arc : ArcSteps(a)
  <2>1. pc.method = "preswap" /\ UNCHANGED <<pc, witnesses, exported>>
    BY <1>5 DEF BudgetSpent, ArcSteps, Drives, In
  <2>2. witnesses = {} /\ ~ exported
    BY <1>0, <2>1 DEF VectorInv, In
  <2> QED
    BY <2>1, <2>2 DEF VectorInv, In
<1>6. CASE \E a \in Arc : PeerSteps(a)
  <2>1. UNCHANGED results
    BY <1>6, PeerStep DEF PeerSteps, IInv
  <2> QED
    BY <1>0, <1>6, <2>1 DEF PeerSteps, Drives, VectorInv, In, Complete
<1>7. CASE Export
  <2>1. witnesses = {} /\ UNCHANGED <<witnesses, late, results>> /\ ~ Complete'
    BY <1>0, <1>7, NoWitnessIncomplete DEF Export, VectorInv, arcVars, Complete
  <2>2. CASE Accepted
    <3>1. exported' /\ pc'.method = "share" /\ ~ late /\ \A a \in Arc : results[a] = "accepted"
      BY <1>1, <1>7, <2>2 DEF Export, Accepted, Method
    <3> QED
      BY <2>1, <3>1 DEF VectorInv, In
  <2>3. CASE ~ Accepted
    <3>1. ~ exported' /\ pc'.method = "refund"
      BY <1>1, <1>7, <2>3 DEF Export, EnterRefund, Method
    <3> QED
      BY <2>1, <3>1 DEF VectorInv, In
  <2> QED
    BY <2>2, <2>3
<1>8. CASE LockArc \/ WithdrawArc \/ RefundArc
  BY <1>0, <1>2, <1>8 DEF LockArc, WithdrawArc, RefundArc, arcVars, VectorInv, In, Complete
<1>9. CASE ShareWitness
  <2>1. pc.method = "share" /\ pc'.method = "share" /\ UNCHANGED <<exported, late, results>>
    BY <1>2, <1>9 DEF ShareWitness, arcVars
  <2> QED
    BY <1>0, <2>1 DEF VectorInv, In
<1>10. CASE WitnessesShared
  <2>1. /\ pc.method = "share" /\ pc'.method = IF Complete THEN "swap" ELSE "relock"
        /\ UNCHANGED <<exported, late, results, witnesses>>
    BY <1>1, <1>10 DEF WitnessesShared, LoopEnds, In, arcVars, Method
  <2> QED
    BY <1>0, <2>1 DEF VectorInv, In, Complete
<1>11. CASE RelockArc
  <2>1. pc.method = "relock" /\ UNCHANGED <<exported, late, results, witnesses>>
    BY <1>11 DEF RelockArc, In, arcVars
  <2>2. pc'.method \in {"relock", "refund"}
    BY <1>0, <1>1, <1>11, <2>1 DEF RelockArc, EnterRefund, TypeOK, Method
  <2> QED
    BY <1>0, <2>1, <2>2 DEF VectorInv, In, Complete
<1>12. CASE Withdrawn \/ Refunded
  <2>1. pc'.method = "report" /\ UNCHANGED <<exported, late, results, witnesses>>
    BY <1>1, <1>12 DEF Withdrawn, Refunded, arcVars, Method
  <2> QED
    BY <1>0, <2>1 DEF VectorInv, In
<1> QED
  BY <1>3, <1>4, <1>5, <1>6, <1>7, <1>8, <1>9, <1>10, <1>11, <1>12 DEF Next, Driver

LEMMA LevelStep == IInv /\ [Next]_vars => LevelInv'
<1> SUFFICES ASSUME IInv, [Next]_vars PROVE LevelInv'
  OBVIOUS
<1>0. TypeOK /\ LevelInv /\ VectorInv
  BY DEF IInv
<1>1. ASSUME NEW method \in Method, Call(method) PROVE pc'.method = method /\ pc'.arc = 0
  BY <1>1 DEF Call
<1>2. ASSUME NEW method, NEW limit, Turn(method, limit) PROVE pc.method = method /\ pc'.method = method
  BY <1>0, <1>2 DEF Turn, In, TypeOK
<1>3. CASE UNCHANGED <<pc, level, exported, witnesses>>
  BY <1>0, <1>3 DEF LevelInv, In, Complete
<1>4. CASE LockArc \/ ShareWitness \/ WithdrawArc
  BY <1>0, <1>2, <1>4 DEF LockArc, ShareWitness, WithdrawArc, LevelInv, In
<1>5. CASE RefundArc
  BY <1>0, <1>2, <1>5 DEF RefundArc, LevelInv, In, Complete
<1>6. CASE Prepare \/ StartArcs
  BY <1>0, <1>1, <1>6 DEF Prepare, StartArcs, LoopEnds, LevelInv, In, Method
<1>7. CASE Export
  <2>1. UNCHANGED level /\ \A a \in Arc : level[a] = 0
    BY <1>0, <1>7 DEF Export, LevelInv
  <2>2. pc'.method = "share" \/ (pc'.method = "refund" /\ ~ exported')
    BY <1>1, <1>7 DEF Export, EnterRefund, Method
  <2> QED
    BY <2>1, <2>2 DEF LevelInv, In
<1>8. CASE WitnessesShared
  <2>1. UNCHANGED level /\ \A a \in Arc : level[a] = 0
    BY <1>0, <1>8 DEF WitnessesShared, LevelInv, LoopEnds
  <2>2. pc'.arc = 0 /\ pc'.method \in {"swap", "relock"}
    BY <1>1, <1>8 DEF WitnessesShared, Method
  <2>3. 0 \in Arc /\ \A a \in Arc : ~ (a < 0)
    BY ParticipantsAssumption DEF Arc
  <2> QED
    BY <2>1, <2>2, <2>3 DEF LevelInv, In
<1>9. CASE RelockArc
  <2>1. /\ pc.arc \in Arc /\ level \in [Arc -> Arc] /\ pc.method = "relock"
        /\ \A a \in Arc : level[a] = level[pc.arc] + (IF a < pc.arc THEN 1 ELSE 0)
    BY <1>0, <1>9 DEF TypeOK, LevelInv, RelockArc, In
  <2>2. CASE level[pc.arc] < N - 1
    <3>1. /\ level' = [level EXCEPT ![pc.arc] = level[pc.arc] + 1]
          /\ pc' = [pc EXCEPT !.arc = Following]
      BY <1>9, <2>2 DEF RelockArc
    <3>2. pc'.method = "relock" /\ pc'.arc = Following
      BY <1>0, <2>1, <3>1 DEF TypeOK
    <3>3. Following \in Arc
      BY <2>1, ParticipantsAssumption DEF Following, Arc
    <3>4. ASSUME NEW a \in Arc
          PROVE  level'[a] = level'[Following] + (IF a < Following THEN 1 ELSE 0)
      <4>1. \A b \in Arc : level'[b] = level[pc.arc] + (IF b <= pc.arc THEN 1 ELSE 0)
        <5>1. ASSUME NEW b \in Arc PROVE level'[b] = level[pc.arc] + (IF b <= pc.arc THEN 1 ELSE 0)
          <6>1. b \in Int /\ pc.arc \in Int /\ level[pc.arc] \in Int
            BY <2>1, ParticipantsAssumption DEF Arc
          <6>2. level'[b] = IF b = pc.arc THEN level[pc.arc] + 1 ELSE level[b]
            BY <2>1, <3>1
          <6> QED
            BY <2>1, <6>1, <6>2
        <5> QED
          BY <5>1
      <4>2. a \in 0 .. N - 1 /\ pc.arc \in 0 .. N - 1 /\ level[pc.arc] \in Int
        BY <2>1, ParticipantsAssumption DEF Arc
      <4>3. level'[a] = level[pc.arc] + (IF a <= pc.arc THEN 1 ELSE 0)
        BY <4>1
      <4>4. level'[Following] = level[pc.arc] + (IF Following <= pc.arc THEN 1 ELSE 0)
        BY <3>3, <4>1
      <4>5. CASE pc.arc = N - 1
        BY <4>2, <4>3, <4>4, <4>5, ParticipantsAssumption DEF Following
      <4>6. CASE pc.arc # N - 1
        BY <4>2, <4>3, <4>4, <4>6, ParticipantsAssumption DEF Following
      <4> QED
        BY <4>5, <4>6
    <3> QED
      BY <3>2, <3>3, <3>4 DEF LevelInv, In
  <2>3. CASE ~ (level[pc.arc] < N - 1)
    <3>1. UNCHANGED level /\ pc'.method = "refund"
      BY <1>1, <1>9, <2>3 DEF RelockArc, EnterRefund, Method
    <3>2. level[pc.arc] = N - 1
      BY <2>1, <2>3, ParticipantsAssumption DEF Arc
    <3>3. ASSUME NEW a \in Arc PROVE level[a] = N - 1
      BY <2>1, <3>2, ParticipantsAssumption DEF Arc
    <3> QED
      BY <3>1, <3>3 DEF LevelInv, In
  <2> QED
    BY <2>2, <2>3
<1>10. CASE Withdrawn \/ Refunded
  <2>1. pc'.method = "report" /\ UNCHANGED <<level, exported, witnesses>>
    BY <1>1, <1>10 DEF Withdrawn, Refunded, Method
  <2>2. CASE Withdrawn
    BY <1>0, <2>1, <2>2 DEF Withdrawn, LoopEnds, VectorInv, LevelInv, In, Complete
  <2>3. CASE Refunded
    BY <1>0, <2>1, <2>3 DEF Refunded, LoopEnds, LevelInv, In
  <2> QED
    BY <1>10, <2>2, <2>3
<1> QED
  BY <1>3, <1>4, <1>5, <1>6, <1>7, <1>8, <1>9, <1>10
     DEF Next, Driver, BudgetSpent, ArcSteps, PeerSteps, Drives, vars

(* The inductive invariant of the orchestrator. *)
THEOREM LifecycleInvariant == Spec => []IInv
<1>1. IInv /\ [Next]_vars => IInv'
  BY ThreadsStep, TypeStep, PhaseStep, AssetsStep, VectorStep, LevelStep DEF IInv
<1> QED
  BY <1>1, InitInv, PTL DEF Spec

(* Every variable of the orchestrator and its threads keeps its type
   (Lifecycle.TypeOK). *)
THEOREM LifecycleTypeCorrect == Spec => []TypeOK
<1>1. IInv => TypeOK
  BY DEF IInv
<1> QED
  BY <1>1, LifecycleInvariant, PTL

(* No witness is revealed before the whole vector arrived valid and in time,
   with both native peers of every arc confirming. *)
THEOREM WitnessesAfterVector == Spec => []NoWitnessBeforeVector
<1>1. IInv => NoWitnessBeforeVector
  <2> SUFFICES ASSUME IInv, witnesses # {}
               PROVE  /\ ~ late /\ \A a \in Arc : results[a] = "accepted"
                      /\ \A a \in Arc : Confirmed(threads[a])
    BY DEF NoWitnessBeforeVector, Confirmed
  <2>1. ~ late /\ \A a \in Arc : results[a] = "accepted"
    BY DEF IInv, VectorInv
  <2> QED
    BY <2>1 DEF IInv, ThreadsInv, ThreadFacts
<1> QED
  BY <1>1, LifecycleInvariant, PTL

(* Once vectors left, nobody is refunded before every arc passed its last
   re-lock level. *)
THEOREM RefundsAfterLastLevel == Spec => []RefundAfterLastLevel
<1>1. IInv => RefundAfterLastLevel
  <2> SUFFICES ASSUME IInv, exported, NEW a \in Arc, assets[a] = "refunded"
               PROVE  \A b \in Arc : level[b] = N - 1
    BY DEF RefundAfterLastLevel
  <2>1. pc.method \in Method
    BY DEF IInv, TypeOK
  <2>2. In("refund") \/ (In("report") /\ ~ Complete)
    BY <2>1 DEF IInv, AssetsInv, AssetsAre, In, Method
  <2> QED
    BY <2>2 DEF IInv, LevelInv
<1> QED
  BY <1>1, LifecycleInvariant, PTL

(* An arc's answer leaves no process behind, but for the server of a native
   arc whose client could not be started. *)
THEOREM NoPeerLeft == Spec => []PeersReaped
<1>1. IInv => PeersReaped
  <2> SUFFICES ASSUME IInv, NEW a \in Arc, results[a] # "none",
                      threads[a].server \in Alive \/ threads[a].client \in Alive
               PROVE  backend = "native" /\ threads[a].client = "none"
    BY DEF PeersReaped
  <2>1. ThreadFacts(threads[a], results[a])
    BY DEF IInv, ThreadsInv
  <2> QED
    BY <2>1 DEF ThreadFacts
<1> QED
  BY <1>1, LifecycleInvariant, PTL
-----------------------------------------------------------------------------
(* The orchestrator as an implementation of the ideal shared decision. *)

ReadyOf == [a \in Arc |-> results[a] = "accepted"]
AssetsOf == [a \in Arc |-> IF assets[a] = "unlocked" THEN "unfunded" ELSE assets[a]]

\* The decision by the method the driver is in.
DecisionIs ==
    /\ In("swap") \/ (In("report") /\ Complete) => Decision = "commit"
    /\ In("refund") \/ (In("report") /\ ~ Complete) => Decision = "abort"
    /\ ~ (In("swap") \/ In("report") \/ In("refund")) => Decision = "pending"

LEMMA DecisionOf == IInv => DecisionIs
<1> SUFFICES ASSUME IInv PROVE DecisionIs
  OBVIOUS
<1>1. pc.method \in Method
  BY DEF IInv, TypeOK
<1> QED
  BY <1>1 DEF IInv, PhaseInv, VectorInv, Decision, DecisionIs, In, Method

LEMMA DecisionNext == IInv' => DecisionIs'
BY DecisionOf, PTL

\* A thread answers once.
LEMMA ThreadAnswersOnce ==
    ASSUME ThreadsInv, NEW a \in Arc, Thread(a)
    PROVE  \/ UNCHANGED results
           \/ results[a] = "none" /\ \E answer \in Answer : results' = [results EXCEPT ![a] = answer]
<1>1. threads[a] \in ThreadState /\ (threads[a].at # "done" => results[a] = "none")
  BY DEF ThreadsInv, ThreadsType, ThreadFacts, Answer
<1>2. threads[a].at # "done"
  BY DEF Thread, PeerAbort, NativeStart, NativeReady, NativeClient, NativeServer, OasisStart, OasisReady,
     OasisClient, CheckSample, Conform, Finally, Double, At
<1>3. ASSUME NEW answer \in Answer, Return(a, answer) \/ Raise(a)
      PROVE  \E x \in Answer : results' = [results EXCEPT ![a] = x]
  BY <1>3 DEF Return, Raise, Answers, Answer
<1>4. ASSUME NEW t, Moves(a, t) PROVE UNCHANGED results
  BY <1>4 DEF Moves
<1>5. {"accepted", "failed"} \subseteq Answer /\ threads[a].verdict \in Answer
  BY <1>1 DEF Answer, ThreadState
<1>6. CASE PeerAbort(a) \/ NativeStart(a) \/ OasisStart(a) \/ NativeReady(a)
  BY <1>1, <1>2, <1>3, <1>5, <1>6 DEF PeerAbort, NativeStart, OasisStart, NativeReady, Started, ClientStarted, Moves
<1>7. CASE NativeClient(a) \/ OasisReady(a) \/ OasisClient(a) \/ CheckSample(a) \/ Conform(a)
  BY <1>1, <1>2, <1>3, <1>5, <1>7
     DEF NativeClient, OasisReady, OasisClient, CheckSample, Conform, Goto, Leave, ClientStarted, Moves
<1>8. CASE NativeServer(a)
  <2>1. PICK answer \in {"accepted", "failed"} : Return(a, answer)
    BY <1>8 DEF NativeServer
  <2> QED
    BY <1>1, <1>2, <1>3, <1>5, <2>1
<1>9. CASE Finally(a)
  BY <1>1, <1>2, <1>3, <1>5, <1>9 DEF Finally
<1>10. CASE Double(a)
  <2>1. PICK answer \in Answer : Return(a, answer)
    BY <1>5, <1>10 DEF Double
  <2> QED
    BY <1>1, <1>2, <1>3, <2>1
<1> QED
  BY <1>6, <1>7, <1>8, <1>9, <1>10 DEF Thread

\* What a step of the driver does to one arc's asset is a move of the ideal cycle.
LEMMA MoveOf ==
    ASSUME IInv, NEW method, NEW from, NEW state \in {"locked", "withdrawn", "refunded"},
           Turn(method, N), SetAsset(state), assets[pc.arc] = from
    PROVE  /\ pc.arc \in Arc
           /\ AssetsOf[pc.arc] = IF from = "unlocked" THEN "unfunded" ELSE from
           /\ AssetsOf' = [AssetsOf EXCEPT ![pc.arc] = state]
<1>1. pc.arc \in Arc /\ assets \in [Arc -> {"unlocked", "locked", "withdrawn", "refunded"}]
  BY ParticipantsAssumption DEF IInv, TypeOK, Turn, Arc
<1>2. assets' = [assets EXCEPT ![pc.arc] = state]
  BY DEF SetAsset
<1> QED
  BY <1>1, <1>2 DEF AssetsOf

\* Every step of the orchestrator is a step of the ideal cycle, or none of it.
LEMMA StepImplements == IInv /\ IInv' /\ [Next]_vars => [Ideal!IdealNext]_(Ideal!idealVars)
<1> SUFFICES ASSUME IInv, IInv', [Next]_vars PROVE [Ideal!IdealNext]_(Ideal!idealVars)
  OBVIOUS
<1>0. TypeOK /\ PhaseInv /\ AssetsInv /\ VectorInv /\ ThreadsInv /\ DecisionIs /\ DecisionIs'
  BY DecisionOf, DecisionNext DEF IInv
<1>1. ASSUME UNCHANGED <<results, assets, Decision>> PROVE [Ideal!IdealNext]_(Ideal!idealVars)
  BY <1>1 DEF Ideal!idealVars
<1>2. ASSUME Decision = "pending", Decision' = "abort", UNCHANGED <<results, assets>>
      PROVE  [Ideal!IdealNext]_(Ideal!idealVars)
  BY <1>2 DEF Ideal!IdealNext, Ideal!Abort
<1>3. ASSUME NEW method \in Method, Call(method) PROVE pc'.method = method
  BY <1>3 DEF Call
<1>4. ASSUME NEW method, NEW limit, Turn(method, limit) PROVE pc.method = method /\ pc'.method = method
  BY <1>0, <1>4 DEF Turn, In, TypeOK
<1>5. CASE UNCHANGED vars
  BY <1>1, <1>5 DEF vars, arcVars, Decision, Complete
<1>6. CASE Prepare \/ StartArcs
  <2>1. pc.method \in {"prepare", "lock"} /\ pc'.method \in {"lock", "preswap"} /\ UNCHANGED <<results, assets>>
    BY <1>3, <1>6 DEF Prepare, StartArcs, LoopEnds, In, arcVars, Method
  <2> QED
    BY <1>0, <1>1, <2>1 DEF DecisionIs, In
<1>7. CASE BudgetSpent \/ \E a \in Arc : PeerSteps(a)
  <2>1. UNCHANGED <<results, assets, phase, witnesses>>
    BY <1>0, <1>7, PeerStep DEF BudgetSpent, PeerSteps, Drives, arcVars
  <2> QED
    BY <1>1, <2>1 DEF Decision, Complete
<1>8. CASE LockArc
  <2>1. pc.arc \in Arc /\ assets[pc.arc] = "unlocked"
    BY <1>0, <1>8, ParticipantsAssumption DEF LockArc, Turn, AssetsInv, AssetsAre, TypeOK, Arc
  <2>2. AssetsOf[pc.arc] = "unfunded" /\ AssetsOf' = [AssetsOf EXCEPT ![pc.arc] = "locked"]
    BY <1>8, <2>1, MoveOf DEF LockArc
  <2>3. Decision = "pending" /\ UNCHANGED <<Decision, results>>
    BY <1>0, <1>4, <1>8 DEF LockArc, DecisionIs, In, arcVars
  <2> QED
    BY <2>1, <2>2, <2>3 DEF Ideal!IdealNext, Ideal!Fund, Ideal!Move, AssetsOf
<1>9. CASE \E a \in Arc : ArcSteps(a)
  <2>1. PICK a \in Arc : ArcSteps(a)
    BY <1>9
  <2>2. In("preswap") /\ Thread(a) /\ UNCHANGED <<assets, phase, witnesses, pc>>
    BY <2>1 DEF ArcSteps, Drives
  <2>3. Decision = "pending" /\ UNCHANGED Decision
    BY <1>0, <2>2 DEF DecisionIs, In, Decision, Complete
  <2>4. assets[a] = "locked"
    BY <1>0, <2>2 DEF AssetsInv, AssetsAre
  <2>5. CASE UNCHANGED results
    BY <1>1, <2>2, <2>3, <2>5
  <2>6. ASSUME NEW answer \in Answer, results[a] = "none", results' = [results EXCEPT ![a] = answer]
        PROVE  [Ideal!IdealNext]_(Ideal!idealVars)
    <3>1. results \in [Arc -> Answer \cup {"none"}]
      BY <1>0 DEF ThreadsInv, ThreadsType
    <3>2. CASE answer = "accepted"
      <4>1. ReadyOf' = [ReadyOf EXCEPT ![a] = TRUE]
        BY <2>6, <3>1, <3>2 DEF ReadyOf
      <4>2. AssetsOf[a] = "locked" /\ UNCHANGED AssetsOf
        BY <2>2, <2>4 DEF AssetsOf
      <4> QED
        BY <2>3, <4>1, <4>2 DEF Ideal!IdealNext, Ideal!Ready, ReadyOf, AssetsOf
    <3>3. CASE answer # "accepted"
      <4>1. UNCHANGED ReadyOf
        BY <2>6, <3>1, <3>3 DEF ReadyOf
      <4>2. UNCHANGED AssetsOf
        BY <2>2 DEF AssetsOf
      <4> QED
        BY <2>3, <4>1, <4>2 DEF Ideal!idealVars, ReadyOf, AssetsOf
    <3> QED
      BY <3>2, <3>3
  <2> QED
    BY <1>0, <2>2, <2>5, <2>6, ThreadAnswersOnce
<1>10. CASE Export
  <2>1. pc.method = "preswap" /\ pc'.method \in {"share", "refund"} /\ UNCHANGED <<results, assets>>
    BY <1>3, <1>10 DEF Export, EnterRefund, In, arcVars, Method
  <2> QED
    BY <1>0, <1>1, <1>2, <2>1 DEF DecisionIs, In
<1>11. CASE ShareWitness
  <2>1. pc.method = "share" /\ pc'.method = "share" /\ UNCHANGED <<results, assets>>
    BY <1>4, <1>11 DEF ShareWitness, arcVars
  <2> QED
    BY <1>0, <1>1, <2>1 DEF DecisionIs, In
<1>12. CASE WitnessesShared
  <2>1. /\ pc.method = "share" /\ UNCHANGED <<results, assets>>
        /\ pc'.method = IF Complete THEN "swap" ELSE "relock"
    BY <1>3, <1>12 DEF WitnessesShared, LoopEnds, In, arcVars, Method
  <2>2. CASE Complete
    <3>1. Decision = "pending" /\ Decision' = "commit"
      BY <1>0, <2>1, <2>2 DEF DecisionIs, In
    <3>2. \A a \in Arc : results[a] = "accepted" /\ assets[a] = "locked"
      BY <1>0, <2>1 DEF VectorInv, AssetsInv, AssetsAre, In
    <3> QED
      BY <2>1, <3>1, <3>2 DEF Ideal!IdealNext, Ideal!Commit
  <2>3. CASE ~ Complete
    BY <1>0, <1>1, <2>1, <2>3 DEF DecisionIs, In
  <2> QED
    BY <2>2, <2>3
<1>13. CASE WithdrawArc
  <2>1. pc.arc \in Arc /\ assets[pc.arc] = "locked"
    BY <1>0, <1>13, ParticipantsAssumption DEF WithdrawArc, Turn, AssetsInv, AssetsAre, TypeOK, Arc
  <2>2. AssetsOf[pc.arc] = "locked" /\ AssetsOf' = [AssetsOf EXCEPT ![pc.arc] = "withdrawn"]
    BY <1>13, <2>1, MoveOf DEF WithdrawArc
  <2>3. Decision = "commit" /\ UNCHANGED <<Decision, results>>
    BY <1>0, <1>4, <1>13 DEF WithdrawArc, DecisionIs, In, arcVars
  <2> QED
    BY <2>1, <2>2, <2>3 DEF Ideal!IdealNext, Ideal!Withdraw, Ideal!Move, AssetsOf
<1>14. CASE RelockArc
  <2>1. pc.method = "relock" /\ pc'.method \in {"relock", "refund"} /\ UNCHANGED <<results, assets>>
    BY <1>0, <1>3, <1>14 DEF RelockArc, EnterRefund, TypeOK, In, arcVars, Method
  <2> QED
    BY <1>0, <1>1, <1>2, <2>1 DEF DecisionIs, In
<1>15. CASE RefundArc
  <2>1. pc.arc \in Arc /\ assets[pc.arc] = "locked"
    BY <1>0, <1>15, ParticipantsAssumption DEF RefundArc, Turn, AssetsInv, AssetsAre, TypeOK, Arc
  <2>2. AssetsOf[pc.arc] = "locked" /\ AssetsOf' = [AssetsOf EXCEPT ![pc.arc] = "refunded"]
    BY <1>15, <2>1, MoveOf DEF RefundArc
  <2>3. Decision = "abort" /\ UNCHANGED <<Decision, results>>
    BY <1>0, <1>4, <1>15 DEF RefundArc, DecisionIs, In, arcVars
  <2> QED
    BY <2>1, <2>2, <2>3 DEF Ideal!IdealNext, Ideal!Refund, Ideal!Move, AssetsOf
<1>16. CASE Withdrawn \/ Refunded
  <2>1. /\ (pc.method = "swap" /\ Complete) \/ (pc.method = "refund" /\ ~ Complete)
        /\ UNCHANGED <<results, assets, witnesses>>
    BY <1>0, <1>3, <1>16 DEF Withdrawn, Refunded, LoopEnds, VectorInv, In, arcVars, Method
  <2>2. pc'.method = "report" /\ Complete' = Complete
    BY <1>3, <1>16, <2>1 DEF Withdrawn, Refunded, Complete, Method
  <2> QED
    BY <1>0, <1>1, <2>1, <2>2 DEF DecisionIs, In
<1> QED
  BY <1>5, <1>6, <1>7, <1>8, <1>9, <1>10, <1>11, <1>12, <1>13, <1>14, <1>15, <1>16 DEF Next, Driver

(* The orchestrator implements the ideal shared decision: it commits to the
   swap only when every arc is locked and was answered by a valid batch, and
   settles all arcs by that one decision. *)
THEOREM LifecycleImplementsIdeal == Spec => ImplementsIdeal
<1>1. Init => Ideal!IdealInit
  <2> SUFFICES ASSUME Init PROVE Ideal!IdealInit
    OBVIOUS
  <2>1. witnesses = {} /\ phase = "initial"
    BY DEF Init
  <2>2. Decision = "pending"
    BY <2>1, NoWitnessIncomplete DEF Decision
  <2> QED
    BY <2>2 DEF Init, ThreadsInit, Ideal!IdealInit
<1> QED
  BY <1>1, StepImplements, LifecycleInvariant, PTL DEF Spec, ImplementsIdeal, Ideal!IdealSpec
=============================================================================
