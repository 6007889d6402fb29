------------------------- MODULE RetainedCycleProofs -------------------------
(***************************************************************************)
(* The inductive invariant of the local cycle, for every number of arcs    *)
(* and every outcome that is asked for.                                    *)
(***************************************************************************)
EXTENDS RetainedCycle, TLAPS

\* The jobs a loop over them has passed.
Passed(a, j) == a < arc \/ (a = arc /\ j < job)

Locked(a) == assets[a] # "unfunded"
Solving(v) == v \notin {"none", "prepared"}

BeforeLocks == {"setup", "prepare"}
AfterLocks == {"deadline", "solve", "preswap", "share", "finish", "consume", "report"}
AfterSolve == {"preswap", "share", "finish", "consume", "report"}
Ended == {"report", "abort", "close", "raised", "done"}

\* How far the proofs are where the driver is, and that they stay.
ProofsInv ==
    /\ pc = "prepare" => \A a \in Arc, j \in Job : Passed(a, j) => vtd[<<a, j>>] # "none"
    /\ pc \in AfterLocks \cup {"fund"} => \A a \in Arc, j \in Job : vtd[<<a, j>>] # "none"
    /\ (\E a \in Arc : Locked(a)) => \A a \in Arc, j \in Job : vtd[<<a, j>>] # "none"
    /\ pc = "solve" => \A a \in Arc, j \in Job : Passed(a, j) => Solving(vtd[<<a, j>>])
    /\ pc \in AfterSolve => \A a \in Arc, j \in Job : Solving(vtd[<<a, j>>])
    /\ handoffs # {} => \A a \in Arc, j \in Job : Solving(vtd[<<a, j>>])

LocksInv ==
    /\ pc = "fund" => \A a \in Arc : a < arc => Locked(a)
    /\ pc \in AfterLocks => \A a \in Arc : Locked(a)
    /\ handoffs # {} => pc \in {"share", "finish", "consume"} \cup Ended /\ \A a \in Arc : Locked(a)

\* The witnesses of an arc when all that share and finish do to it is done.
WithdrawIs(a) == slots[a].withdraw = (IF Receives(a) THEN "shared" ELSE "erased")
RelocksAre(a, source) == \A l \in Level : slots[a].relock[l] = source
RelockedAs == IF outcome = "honest" THEN "erased" ELSE "recovered"

SlotsInv ==
    Retained =>
    /\ pc \in {"deadline", "solve", "preswap", "share"} => \A a \in Arc : RelocksAre(a, "erased")
    /\ pc \in {"deadline", "solve", "preswap"} => \A a \in Arc : slots[a].withdraw = "erased"
    /\ pc = "share" => \A a \in Arc : IF a < arc THEN WithdrawIs(a) ELSE slots[a].withdraw = "erased"
    /\ pc \in {"finish", "consume"} => \A a \in Arc : WithdrawIs(a)
    /\ pc = "finish" =>
         \A a \in Arc, l \in Level :
            slots[a].relock[l] = IF outcome # "honest" /\ Passed(a, l) THEN "recovered" ELSE "erased"
    /\ pc = "consume" => \A a \in Arc : RelocksAre(a, RelockedAs)

\* The files are sealed and the command is sent once, by consume.
CommandInv ==
    /\ pc = "consume" => Retained
    /\ sealed # {} \/ command # "none" => pc \in Ended \/ (pc = "finish" /\ outcome = "honest")
    /\ native = "ended" => command # "none"
    /\ command = "A" => observed # "none"

\* What the process of the cycle's ledger holds until it is sent its command, and
\* that the abort leaves none waiting.
HeldInv ==
    /\ native # "none" => Retained
    /\ native = "waiting" /\ command = "none" => \A a \in Arc : assets[a] = "locked"
    /\ pc \in {"close", "raised"} => native # "waiting"
    /\ observed # "none" => pc \in {"close", "raised"}
    /\ observed = "reported" => command = "A" /\ \A a \in Arc : assets[a] = "locked"

IInv == TypeOK /\ ProofsInv /\ LocksInv /\ SlotsInv /\ CommandInv /\ HeldInv /\ DerivedWitnesses

\* What a step may be; the cases of the proofs.
LEMMA StepCases ==
    ASSUME [Next]_vars
    PROVE  \/ /\ UNCHANGED <<outcome, pc, arc, job, vtd, handoffs, slots, sealed, assets, command, observed>>
              /\ UNCHANGED native \/ LedgerDies
           \/ PreparePair \/ PrepareVtd \/ LockCycle \/ LockBranch \/ SetDeadline \/ StartSolver
           \/ Preswap \/ ShareWitness \/ FinishVtd \/ Consume
           \/ ConsumeFails \/ Fails \/ LockLost \/ AbortCycle \/ Unwind \/ Return
BY DEF Next, Steps, Expire, LedgerDies, vars

\* Where the loops go.
LEMMA ArcLoop ==
    ASSUME TypeOK, NEW phase, NEW then, EachArc(phase, then)
    PROVE  /\ pc = phase
           /\ \/ arc < N - 1 /\ arc' = arc + 1 /\ pc' = pc /\ job' = job
              \/ arc = N - 1 /\ pc' = then /\ arc' = 0 /\ job' = 0
           /\ arc' \in Arc /\ job' \in Job
BY CycleAssumption DEF EachArc, Enter, TypeOK, Arc, Job

LEMMA JobLoop ==
    ASSUME TypeOK, NEW phase, NEW then, EachJob(phase, then)
    PROVE  /\ pc = phase /\ arc' \in Arc /\ job' \in Job
           /\ \/ /\ pc' = pc
                 /\ \A a \in Arc, j \in Job : Passed(a, j)' <=> Passed(a, j) \/ (a = arc /\ j = job)
              \/ /\ pc' = then /\ arc' = 0 /\ job' = 0 /\ job = N - 1
                 /\ \A a \in Arc, j \in Job : Passed(a, j) \/ (a = arc /\ j = job)
<1> USE CycleAssumption
<1>1. arc \in Arc /\ job \in Job
  BY DEF TypeOK
<1>2. CASE job # N - 1
  <2>1. pc = phase /\ job' = job + 1 /\ pc' = pc /\ arc' = arc
    BY <1>2 DEF EachJob, LastJob
  <2> QED
    BY <1>1, <1>2, <2>1 DEF Passed, Arc, Job
<1>3. CASE job = N - 1 /\ arc < N - 1
  <2>1. pc = phase /\ job' = 0 /\ pc' = pc /\ arc' = arc + 1
    BY <1>3 DEF EachJob, LastJob
  <2> QED
    BY <1>1, <1>3, <2>1 DEF Passed, Arc, Job
<1>4. CASE job = N - 1 /\ ~ (arc < N - 1)
  <2>1. pc = phase /\ job' = 0 /\ pc' = then /\ arc' = 0
    BY <1>4 DEF EachJob, LastJob, Enter
  <2> QED
    BY <1>1, <1>4, <2>1 DEF Passed, Arc, Job
<1> QED
  BY <1>2, <1>3, <1>4

LEMMA InitInv == Init => IInv
<1> SUFFICES ASSUME Init PROVE IInv
  OBVIOUS
<1> USE CycleAssumption
<1>1. Slots("fixture", "fixture") \in [withdraw : Source, relock : [Level -> Source]]
  BY DEF Slots, Source
<1>2. TypeOK
  <2>1. 0 \in Arc /\ 0 \in Job
    BY DEF Arc, Job
  <2>2. slots \in [Arc -> [withdraw : Source, relock : [Level -> Source]]]
    BY <1>1 DEF Init
  <2> QED
    BY <2>1, <2>2 DEF Init, TypeOK
<1>3. ProofsInv /\ LocksInv /\ SlotsInv /\ CommandInv /\ HeldInv /\ DerivedWitnesses
  BY DEF Init, ProofsInv, LocksInv, SlotsInv, CommandInv, HeldInv, DerivedWitnesses, AfterLocks, AfterSolve, Locked, Ended
<1> QED
  BY <1>2, <1>3 DEF IInv

\* Where the driver may go.
Phases == {"setup", "prepare", "fund", "deadline", "solve", "preswap", "share", "finish",
           "consume", "report", "abort", "close", "raised", "done"}

LEMMA ControlType ==
    ASSUME TypeOK, [Next]_vars
    PROVE  pc' \in Phases /\ arc' \in Arc /\ job' \in Job
<1> USE CycleAssumption
<1>1. pc \in Phases /\ arc \in Arc /\ job \in Job /\ 0 \in Arc /\ 0 \in Job
  BY DEF TypeOK, Phases, Arc, Job
<1>2. ASSUME NEW phase \in Phases, Enter(phase) PROVE pc' \in Phases /\ arc' \in Arc /\ job' \in Job
  BY <1>1, <1>2 DEF Enter
<1>3. ASSUME NEW phase, NEW then \in Phases, EachArc(phase, then)
      PROVE  pc' \in Phases /\ arc' \in Arc /\ job' \in Job
  BY <1>1, <1>3, ArcLoop
<1>4. ASSUME NEW phase, NEW then \in Phases, EachJob(phase, then)
      PROVE  pc' \in Phases /\ arc' \in Arc /\ job' \in Job
  BY <1>1, <1>4, JobLoop
<1>5. CASE UNCHANGED <<pc, arc, job>>
  BY <1>1, <1>5
<1>6. CASE LockCycle \/ SetDeadline \/ Preswap \/ Consume \/ ConsumeFails \/ Fails \/ LockLost \/ AbortCycle \/ Unwind \/ Return
  BY <1>2, <1>6 DEF LockCycle, SetDeadline, Preswap, Consume, ConsumeFails, Fails, Raise, LockLost,
     AbortCycle, Unwind, Return, Close, AfterConsume, Phases
<1>7. CASE PreparePair \/ LockBranch \/ ShareWitness
  BY <1>3, <1>7 DEF PreparePair, LockBranch, ShareWitness, Phases
<1>8. CASE PrepareVtd \/ StartSolver \/ FinishVtd
  BY <1>4, <1>8 DEF PrepareVtd, StartSolver, FinishVtd, AfterFinish, Phases
<1> QED
  BY <1>5, <1>6, <1>7, <1>8, StepCases

\* What the witness files become.
SlotType == [withdraw : Source, relock : [Level -> Source]]

LEMMA SlotsType ==
    ASSUME TypeOK, [Next]_vars
    PROVE  slots' \in [Arc -> SlotType]
<1> USE CycleAssumption
<1>1. slots \in [Arc -> SlotType] /\ arc \in Arc /\ job \in Job
  BY DEF TypeOK, SlotType
<1>2. ASSUME slots' = Erased PROVE slots' \in [Arc -> SlotType]
  BY <1>2 DEF Erased, Slots, SlotType, Source
<1>3. CASE ShareWitness
  <2>1. PICK source \in Source : slots' = [slots EXCEPT ![arc].withdraw = source]
    BY <1>3 DEF ShareWitness, Source
  <2>2. [slots[arc] EXCEPT !.withdraw = source] \in SlotType
    BY <1>1 DEF SlotType
  <2> QED
    BY <1>1, <2>1, <2>2
<1>4. CASE FinishVtd
  <2>1. CASE slots' = slots
    BY <1>1, <2>1
  <2>2. CASE job \in Level /\ slots' = Recovered(arc, job)
    <3>1. [slots[arc].relock EXCEPT ![job] = "recovered"] \in [Level -> Source]
      BY <1>1 DEF SlotType, Source
    <3>2. [slots[arc] EXCEPT !.relock = [slots[arc].relock EXCEPT ![job] = "recovered"]] \in SlotType
      BY <1>1, <3>1 DEF SlotType
    <3> QED
      BY <1>1, <2>2, <3>2 DEF Recovered
  <2> QED
    BY <1>1, <1>4, <2>1, <2>2 DEF FinishVtd, Recover, LastJob, Job, Level
<1> QED
  BY <1>1, <1>2, <1>3, <1>4, StepCases DEF PreparePair, PrepareVtd, Prove, LockCycle, LockBranch,
     SetDeadline, StartSolver, Preswap, Consume, ConsumeFails, Fails, Raise, LockLost, AbortCycle,
     Unwind, Return, Close

LEMMA TypeStep == IInv /\ [Next]_vars => TypeOK'
<1> SUFFICES ASSUME IInv, [Next]_vars PROVE TypeOK'
  OBVIOUS
<1> USE CycleAssumption
<1>0. TypeOK
  BY DEF IInv
<1>1. pc' \in Phases /\ arc' \in Arc /\ job' \in Job /\ slots' \in [Arc -> SlotType]
  BY <1>0, ControlType, SlotsType
<1>2. outcome' \in {"branches", "recover", "honest", "refund"} /\ {explicit', expired'} \subseteq BOOLEAN
  BY <1>0 DEF TypeOK, Next, Steps, Expire, LedgerDies, vars, Given, PreparePair, PrepareVtd, Prove, LockCycle, LockBranch,
     SetDeadline, StartSolver, Preswap, ShareWitness, FinishVtd, Consume, ConsumeFails, Fails, Raise,
     LockLost, AbortCycle, Unwind, Return, Close
<1>3. pairs' \subseteq Arc /\ handoffs' \subseteq Arc /\ sealed' \subseteq Arc
  BY <1>0 DEF TypeOK, Next, Steps, Expire, LedgerDies, vars, PreparePair, PrepareVtd, Prove, LockCycle, LockBranch,
     SetDeadline, StartSolver, Preswap, ShareWitness, FinishVtd, Consume, ConsumeFails, Fails, Raise,
     LockLost, AbortCycle, Unwind, Return, Close
<1>4. vtd' \in [Arc \X Job -> {"none", "prepared", "solving", "finished", "closed"}]
  <2>1. arc \in Arc /\ job \in Job /\ vtd \in [Arc \X Job -> {"none", "prepared", "solving", "finished", "closed"}]
    BY <1>0 DEF TypeOK
  <2>2. CASE Unwind \/ Return
    BY <2>1, <2>2 DEF Unwind, Return, Close
  <2>3. ASSUME NEW v \in {"prepared", "solving", "finished"}, vtd' = [vtd EXCEPT ![<<arc, job>>] = v]
        PROVE  vtd' \in [Arc \X Job -> {"none", "prepared", "solving", "finished", "closed"}]
    BY <2>1, <2>3
  <2>4. CASE PrepareVtd \/ StartSolver \/ FinishVtd
    BY <2>3, <2>4 DEF PrepareVtd, Prove, StartSolver, FinishVtd
  <2> QED
    BY <2>1, <2>2, <2>4, StepCases DEF PreparePair, LockCycle, LockBranch, SetDeadline, Preswap,
       ShareWitness, Consume, ConsumeFails, Fails, Raise, LockLost, AbortCycle
<1>5. /\ assets' \in [Arc -> {"unfunded", "locked", "withdrawn", "refunded"}]
      /\ native' \in {"none", "waiting", "dead", "ended", "lost"}
      /\ command' \in {"none", "C", "A"}
      /\ observed' \in {"none", "reported", "unavailable"}
  <2>1. arc \in Arc /\ assets \in [Arc -> {"unfunded", "locked", "withdrawn", "refunded"}]
    BY <1>0 DEF TypeOK
  <2>2. Settled \in {"withdrawn", "refunded"}
    BY DEF Settled
  <2>3. CASE LockCycle \/ LockLost \/ LockBranch
    BY <1>0, <2>1, <2>3 DEF TypeOK, LockCycle, LockLost, LockBranch
  <2>4. CASE Consume \/ ConsumeFails
    BY <1>0, <2>1, <2>2, <2>4 DEF TypeOK, Consume, ConsumeFails
  <2>5. CASE FinishVtd \/ AbortCycle
    BY <1>0, <2>1, <2>5 DEF TypeOK, FinishVtd, AbortCycle
  <2>6. CASE UNCHANGED <<assets, command, observed>> /\ (UNCHANGED native \/ LedgerDies)
    BY <1>0, <2>6 DEF TypeOK, LedgerDies
  <2> QED
    BY <2>3, <2>4, <2>5, <2>6, StepCases DEF PreparePair, PrepareVtd, Prove, SetDeadline, StartSolver,
       Preswap, ShareWitness, Fails, Raise, Unwind, Return, Close, LedgerUntouched
<1> QED
  BY <1>1, <1>2, <1>3, <1>4, <1>5 DEF TypeOK, Phases, SlotType

\* A delayed witness moves on and never back to none.
LEMMA ProofsStay ==
    ASSUME TypeOK, [Next]_vars, NEW a \in Arc, NEW j \in Job
    PROVE  /\ vtd[<<a, j>>] # "none" => vtd'[<<a, j>>] # "none"
           /\ Solving(vtd[<<a, j>>]) /\ ~ PrepareVtd => Solving(vtd'[<<a, j>>])
<1>0. <<a, j>> \in Arc \X Job /\ <<arc, job>> \in Arc \X Job
  BY DEF TypeOK
<1>1. vtd \in [Arc \X Job -> {"none", "prepared", "solving", "finished", "closed"}]
  BY DEF TypeOK
<1>2. CASE UNCHANGED vtd
  BY <1>2
<1>3. CASE PrepareVtd
  BY <1>0, <1>1, <1>3 DEF PrepareVtd, Prove
<1>4. CASE StartSolver \/ FinishVtd
  BY <1>0, <1>1, <1>4 DEF StartSolver, FinishVtd, Solving
<1>5. CASE Unwind \/ Return
  BY <1>0, <1>1, <1>5 DEF Unwind, Return, Close, Solving
<1> QED
  BY <1>2, <1>3, <1>4, <1>5, StepCases DEF PreparePair, LockCycle, LockBranch, SetDeadline,
     Preswap, ShareWitness, Consume, ConsumeFails, Fails, Raise, LockLost, AbortCycle

\* Nothing that is locked becomes unfunded again.
LEMMA LocksStay ==
    ASSUME TypeOK, [Next]_vars, NEW a \in Arc
    PROVE  Locked(a) => Locked(a)'
<1>1. assets \in [Arc -> {"unfunded", "locked", "withdrawn", "refunded"}] /\ arc \in Arc
  BY DEF TypeOK
<1>2. CASE UNCHANGED assets
  BY <1>2 DEF Locked
<1>3. CASE LockCycle \/ LockLost \/ LockBranch \/ FinishVtd
  BY <1>1, <1>3 DEF LockCycle, LockLost, LockBranch, FinishVtd, Locked
<1>4. CASE Consume \/ ConsumeFails
  BY <1>1, <1>4 DEF Consume, ConsumeFails, Settled, Locked
<1> QED
  BY <1>2, <1>3, <1>4, StepCases DEF PreparePair, PrepareVtd, Prove, SetDeadline, StartSolver, Preswap,
     ShareWitness, Fails, Raise, AbortCycle, Unwind, Return, Close, LedgerUntouched

\* Nothing is locked while proofs are made, and vectors come with the barrier.
LEMMA LocksBegin ==
    ASSUME TypeOK, [Next]_vars
    PROVE  /\ (\E a \in Arc : Locked(a)' /\ ~ Locked(a)) => pc \in AfterLocks \cup {"fund"}
           /\ handoffs' \subseteq handoffs \/ Preswap
<1>1. CASE UNCHANGED assets
  BY <1>1, StepCases DEF Locked, PreparePair, PrepareVtd, Prove, LockCycle, LockBranch, SetDeadline,
     StartSolver, ShareWitness, FinishVtd, Consume, ConsumeFails, Fails, Raise, LockLost, AbortCycle,
     Unwind, Return, Close
<1>2. CASE ~ UNCHANGED assets
  <2>1. LockCycle \/ LockLost \/ LockBranch \/ FinishVtd \/ Consume \/ ConsumeFails
    BY <1>2, StepCases DEF PreparePair, PrepareVtd, Prove, SetDeadline, StartSolver, Preswap,
       ShareWitness, Fails, Raise, AbortCycle, Unwind, Return, Close, LedgerUntouched
  <2>2. pc \in AfterLocks \cup {"fund"} /\ UNCHANGED handoffs
    BY <2>1, ArcLoop, JobLoop DEF LockCycle, LockLost, LockBranch, FinishVtd, Consume, ConsumeFails, AfterLocks
  <2> QED
    BY <2>2
<1> QED
  BY <1>1, <1>2

LEMMA ProofsStep == IInv /\ [Next]_vars => ProofsInv'
<1> SUFFICES ASSUME IInv, [Next]_vars PROVE ProofsInv'
  OBVIOUS
<1>0. TypeOK /\ ProofsInv /\ LocksInv
  BY DEF IInv
<1>1. /\ \A a \in Arc, j \in Job : vtd[<<a, j>>] # "none" => vtd'[<<a, j>>] # "none"
      /\ \A a \in Arc, j \in Job : Solving(vtd[<<a, j>>]) /\ ~ PrepareVtd => Solving(vtd'[<<a, j>>])
  BY <1>0, ProofsStay
<1>2. /\ arc \in Arc /\ job \in Job /\ <<arc, job>> \in Arc \X Job
      /\ vtd \in [Arc \X Job -> {"none", "prepared", "solving", "finished", "closed"}]
  BY <1>0 DEF TypeOK
<1>3. (\E a \in Arc : Locked(a)') => \A a \in Arc, j \in Job : vtd'[<<a, j>>] # "none"
  BY <1>0, <1>1, LocksBegin DEF ProofsInv
<1>4. handoffs' # {} => \A a \in Arc, j \in Job : Solving(vtd'[<<a, j>>])
  <2>1. PrepareVtd => handoffs' = {}
    BY <1>0, JobLoop DEF PrepareVtd, Prove, LocksInv, Ended
  <2>2. Preswap => \A a \in Arc, j \in Job : Solving(vtd[<<a, j>>])
    BY <1>0 DEF Preswap, ProofsInv, AfterSolve
  <2> QED
    BY <1>0, <1>1, <2>1, <2>2, LocksBegin DEF ProofsInv
\* The conjuncts about pc.
<1>5. ASSUME pc' = pc, \A a \in Arc, j \in Job : Passed(a, j)' <=> Passed(a, j), ~ PrepareVtd
      PROVE  ProofsInv'
  BY <1>0, <1>1, <1>3, <1>4, <1>5 DEF ProofsInv
<1>6. ASSUME pc' \in {"abort", "close", "raised", "done"} PROVE ProofsInv'
  BY <1>3, <1>4, <1>6 DEF ProofsInv, AfterLocks, AfterSolve
<1>7. ASSUME pc \in AfterLocks, pc' \in AfterLocks \ {"solve"}, pc' \in AfterSolve => pc \in AfterSolve
      PROVE  ProofsInv'
  <2>1. ~ PrepareVtd
    BY <1>0, <1>7, JobLoop DEF PrepareVtd, AfterLocks
  <2> QED
    BY <1>0, <1>1, <1>3, <1>4, <1>7, <2>1 DEF ProofsInv, AfterLocks, AfterSolve
<1>8. CASE UNCHANGED <<outcome, pc, arc, job, vtd, handoffs, slots, sealed, assets, command, observed>>
  BY <1>0, <1>8 DEF ProofsInv, Passed, Locked
<1>9. CASE PreparePair
  <2>1. pc = "setup" /\ (pc' = "setup" \/ (pc' = "prepare" /\ arc' = 0 /\ job' = 0))
    BY <1>0, <1>9, ArcLoop DEF PreparePair
  <2>2. pc' = "prepare" => \A a \in Arc, j \in Job : ~ Passed(a, j)'
    BY <2>1, CycleAssumption DEF Passed, Arc, Job
  <2> QED
    BY <1>3, <1>4, <2>1, <2>2 DEF ProofsInv, AfterLocks, AfterSolve
<1>10. CASE PrepareVtd
  <2>1. pc = "prepare" /\ vtd' = [vtd EXCEPT ![<<arc, job>>] = "prepared"]
    BY <1>0, <1>10, JobLoop DEF PrepareVtd, Prove
  <2>2. vtd'[<<arc, job>>] = "prepared"
    BY <1>2, <2>1
  <2>3. \A a \in Arc, j \in Job : Passed(a, j) \/ (a = arc /\ j = job) => vtd'[<<a, j>>] # "none"
    BY <1>0, <1>1, <2>1, <2>2 DEF ProofsInv
  <2>4. \/ pc' = "prepare" /\ \A a \in Arc, j \in Job : Passed(a, j)' <=> Passed(a, j) \/ (a = arc /\ j = job)
        \/ pc' = "fund" /\ \A a \in Arc, j \in Job : Passed(a, j) \/ (a = arc /\ j = job)
    BY <1>0, <1>10, <2>1, JobLoop DEF PrepareVtd
  <2> QED
    BY <1>3, <1>4, <2>3, <2>4 DEF ProofsInv, AfterLocks, AfterSolve
<1>11. CASE LockCycle \/ LockBranch
  <2>1. pc = "fund" /\ pc' \in {"fund", "deadline"} /\ UNCHANGED vtd
    BY <1>0, <1>11, ArcLoop DEF LockCycle, LockBranch, Enter
  <2>2. \A a \in Arc, j \in Job : vtd'[<<a, j>>] # "none"
    BY <1>0, <2>1 DEF ProofsInv
  <2> QED
    BY <1>3, <1>4, <2>1, <2>2 DEF ProofsInv, AfterSolve
<1>12. CASE SetDeadline
  <2>1. pc = "deadline" /\ pc' = "solve" /\ arc' = 0 /\ job' = 0
    BY <1>12 DEF SetDeadline, Enter
  <2>2. \A a \in Arc, j \in Job : ~ Passed(a, j)'
    BY <2>1, CycleAssumption DEF Passed, Arc, Job
  <2>3. \A a \in Arc, j \in Job : vtd'[<<a, j>>] # "none"
    BY <1>0, <1>1, <2>1 DEF ProofsInv, AfterLocks
  <2> QED
    BY <1>3, <1>4, <2>1, <2>2, <2>3 DEF ProofsInv, AfterSolve
<1>13. CASE StartSolver
  <2>1. pc = "solve" /\ vtd' = [vtd EXCEPT ![<<arc, job>>] = "solving"]
    BY <1>0, <1>13, JobLoop DEF StartSolver
  <2>2. Solving(vtd'[<<arc, job>>]) /\ ~ PrepareVtd
    BY <1>0, <1>2, <2>1, JobLoop DEF Solving, PrepareVtd
  <2>3. \A a \in Arc, j \in Job : Passed(a, j) \/ (a = arc /\ j = job) => Solving(vtd'[<<a, j>>])
    BY <1>0, <1>1, <2>1, <2>2 DEF ProofsInv
  <2>4. \A a \in Arc, j \in Job : vtd'[<<a, j>>] # "none"
    BY <1>0, <1>1, <2>1 DEF ProofsInv, AfterLocks
  <2>5. \/ pc' = "solve" /\ \A a \in Arc, j \in Job : Passed(a, j)' <=> Passed(a, j) \/ (a = arc /\ j = job)
        \/ pc' = "preswap" /\ \A a \in Arc, j \in Job : Passed(a, j) \/ (a = arc /\ j = job)
    BY <1>0, <1>13, <2>1, JobLoop DEF StartSolver
  <2> QED
    BY <1>3, <1>4, <2>3, <2>4, <2>5 DEF ProofsInv, AfterSolve
<1>14. CASE Preswap \/ ShareWitness \/ FinishVtd \/ Consume
  <2>1. pc \in AfterSolve /\ pc' \in AfterSolve
    BY <1>0, <1>14, ArcLoop, JobLoop DEF Preswap, ShareWitness, FinishVtd, AfterFinish, Consume,
       AfterConsume, Enter, AfterSolve
  <2> QED
    BY <1>7, <2>1 DEF AfterLocks, AfterSolve
<1>15. CASE ConsumeFails \/ Fails \/ LockLost \/ AbortCycle \/ Unwind \/ Return
  BY <1>6, <1>15 DEF ConsumeFails, Fails, Raise, LockLost, AbortCycle, Unwind, Return, Close, Enter
<1> QED
  BY <1>8, <1>9, <1>10, <1>11, <1>12, <1>13, <1>14, <1>15, StepCases

LEMMA LocksStep == IInv /\ [Next]_vars => LocksInv'
<1> SUFFICES ASSUME IInv, [Next]_vars PROVE LocksInv'
  OBVIOUS
<1>0. TypeOK /\ LocksInv /\ ProofsInv
  BY DEF IInv
<1>1. \A a \in Arc : Locked(a) => Locked(a)'
  BY <1>0, LocksStay
<1>2. arc \in Arc /\ assets \in [Arc -> {"unfunded", "locked", "withdrawn", "refunded"}]
  BY <1>0 DEF TypeOK
<1>3. CASE UNCHANGED <<outcome, pc, arc, job, vtd, handoffs, slots, sealed, assets, command, observed>>
  BY <1>0, <1>3 DEF LocksInv, Locked
<1>4. CASE PreparePair \/ PrepareVtd
  <2>1. pc \in BeforeLocks /\ pc' \in BeforeLocks \cup {"fund"} /\ (pc' = "fund" => arc' = 0) /\ UNCHANGED handoffs
    BY <1>0, <1>4, ArcLoop, JobLoop DEF PreparePair, PrepareVtd, Prove, BeforeLocks
  <2>2. handoffs = {} /\ \A a \in Arc : ~ (a < 0)
    BY <1>0, <2>1, CycleAssumption DEF LocksInv, BeforeLocks, Ended, Arc
  <2> QED
    BY <2>1, <2>2 DEF LocksInv, AfterLocks, BeforeLocks
<1>5. CASE LockCycle
  <2>1. handoffs' = {} /\ pc' = "deadline" /\ \A a \in Arc : Locked(a)'
    BY <1>0, <1>5 DEF LockCycle, LocksInv, Enter, Locked, Ended
  <2> QED
    BY <2>1 DEF LocksInv
<1>6. CASE LockBranch
  <2>1. handoffs' = {} /\ assets'[arc] # "unfunded" /\ pc = "fund" /\ assets' = [assets EXCEPT ![arc] = "locked"]
    BY <1>0, <1>2, <1>6, ArcLoop DEF LockBranch, LocksInv, Locked, Ended
  <2>2. \A a \in Arc : a < arc \/ a = arc => Locked(a)'
    BY <1>0, <1>1, <2>1 DEF LocksInv, Locked
  <2>3. \/ arc < N - 1 /\ pc' = "fund" /\ arc' = arc + 1
        \/ arc = N - 1 /\ pc' = "deadline"
    BY <1>0, <1>6, <2>1, ArcLoop DEF LockBranch
  <2>4. \A a \in Arc : a < arc + 1 => a < arc \/ a = arc
    BY <1>2, CycleAssumption DEF Arc
  <2>5. arc = N - 1 => \A a \in Arc : a < arc \/ a = arc
    BY CycleAssumption DEF Arc
  <2> QED
    BY <2>1, <2>2, <2>3, <2>4, <2>5 DEF LocksInv, AfterLocks
<1>7. CASE SetDeadline \/ StartSolver
  <2>1. pc \in {"deadline", "solve"} /\ pc' \in AfterLocks /\ UNCHANGED handoffs
    BY <1>0, <1>7, JobLoop DEF SetDeadline, StartSolver, Enter, AfterLocks
  <2>2. handoffs = {} /\ \A a \in Arc : Locked(a)
    BY <1>0, <2>1 DEF LocksInv, Ended, AfterLocks
  <2> QED
    BY <1>1, <2>1, <2>2 DEF LocksInv, AfterLocks
<1>8. CASE Preswap \/ ShareWitness \/ FinishVtd \/ Consume
  <2>1. pc \in AfterSolve /\ pc' \in {"share", "finish", "consume", "report"}
    BY <1>0, <1>8, ArcLoop, JobLoop DEF Preswap, ShareWitness, FinishVtd, AfterFinish, Consume,
       AfterConsume, Enter, AfterSolve
  <2>2. \A a \in Arc : Locked(a)
    BY <1>0, <2>1 DEF LocksInv, AfterLocks, AfterSolve
  <2> QED
    BY <1>1, <2>1, <2>2 DEF LocksInv, AfterLocks, Ended
<1>9. CASE ConsumeFails \/ Fails \/ LockLost \/ AbortCycle \/ Unwind \/ Return
  <2>1. pc' \in Ended \ {"report"} /\ handoffs' \subseteq handoffs
    BY <1>9 DEF ConsumeFails, Fails, Raise, LockLost, AbortCycle, Unwind, Return, Close, Enter, Ended
  <2> QED
    BY <1>0, <1>1, <2>1 DEF LocksInv, AfterLocks, Ended
<1> QED
  BY <1>3, <1>4, <1>5, <1>6, <1>7, <1>8, <1>9, StepCases

LEMMA CommandStep == IInv /\ [Next]_vars => CommandInv'
<1> SUFFICES ASSUME IInv, [Next]_vars PROVE CommandInv'
  OBVIOUS
<1>0. TypeOK /\ CommandInv
  BY DEF IInv
<1>1. CASE /\ UNCHANGED <<outcome, pc, arc, job, vtd, handoffs, slots, sealed, assets, command, observed>>
           /\ UNCHANGED native \/ LedgerDies
  BY <1>0, <1>1 DEF CommandInv, Retained, LedgerDies
<1>2. CASE PreparePair \/ PrepareVtd \/ LockBranch \/ LockCycle \/ SetDeadline \/ StartSolver \/ Preswap
  <2>1. /\ pc \notin Ended /\ pc # "finish"
        /\ pc' \in {"setup", "prepare", "fund", "deadline", "solve", "preswap", "share"}
        /\ UNCHANGED <<sealed, command, observed>> /\ (native' # "ended" \/ native' = native)
    BY <1>0, <1>2, ArcLoop, JobLoop DEF PreparePair, PrepareVtd, Prove, LockBranch, LockCycle, SetDeadline,
       StartSolver, Preswap, LedgerUntouched, Enter, Ended
  <2>2. sealed = {} /\ command = "none"
    BY <1>0, <2>1 DEF CommandInv
  <2> QED
    BY <1>0, <2>1, <2>2 DEF CommandInv
<1>3. CASE ShareWitness
  <2>1. /\ pc = "share" /\ pc' \in {"share", "consume", "finish"} /\ (pc' = "consume" => outcome = "honest")
        /\ UNCHANGED <<outcome, sealed, command, native, observed>>
    BY <1>0, <1>3, ArcLoop DEF ShareWitness, Given, LedgerUntouched
  <2>2. sealed = {} /\ command = "none"
    BY <1>0, <2>1 DEF CommandInv, Ended
  <2> QED
    BY <1>0, <2>1, <2>2 DEF CommandInv, Retained
<1>4. CASE FinishVtd
  <2>1. /\ pc = "finish" /\ (pc' = "finish" \/ pc' = AfterFinish)
        /\ UNCHANGED <<outcome, sealed, command, native, observed>>
    BY <1>0, <1>4, JobLoop DEF FinishVtd, Given
  <2>2. pc' = "consume" => outcome \in {"recover", "refund"}
    BY <2>1 DEF AfterFinish
  <2>3. pc' \in {"finish", "consume", "report"}
    BY <2>1 DEF AfterFinish
  <2>4. sealed # {} \/ command # "none" => outcome = "honest"
    BY <1>0, <2>1 DEF CommandInv, Ended
  <2> QED
    BY <1>0, <2>1, <2>2, <2>3, <2>4 DEF CommandInv, Retained, Ended
<1>5. CASE Consume
  <2>1. /\ pc' = (IF outcome = "honest" THEN "finish" ELSE "report") /\ command' = "C"
        /\ UNCHANGED outcome
    BY <1>5 DEF Consume, AfterConsume, Enter, Given
  <2> QED
    BY <2>1 DEF CommandInv, Ended
<1>6. CASE ConsumeFails \/ Fails \/ LockLost
  <2>1. pc' = "abort"
    BY <1>6 DEF ConsumeFails, Fails, Raise, LockLost, Enter
  <2>2. native' = "ended" => command' # "none"
    BY <1>0, <1>6 DEF ConsumeFails, Fails, Raise, LockLost, CommandInv
  <2>3. command' = "A" => observed' # "none"
    BY <1>0, <1>6 DEF ConsumeFails, Fails, Raise, LockLost, CommandInv
  <2> QED
    BY <2>1, <2>2, <2>3 DEF CommandInv, Ended
<1>7. CASE AbortCycle \/ Unwind \/ Return
  BY <1>0, <1>7 DEF AbortCycle, Unwind, Return, Close, LedgerUntouched, Enter, CommandInv, Ended
<1> QED
  BY <1>1, <1>2, <1>3, <1>4, <1>5, <1>6, <1>7, StepCases

LEMMA HeldStep == IInv /\ [Next]_vars => HeldInv'
<1> SUFFICES ASSUME IInv, [Next]_vars PROVE HeldInv'
  OBVIOUS
<1>0. TypeOK /\ HeldInv /\ CommandInv
  BY DEF IInv
<1>1. CASE /\ UNCHANGED <<outcome, pc, arc, job, vtd, handoffs, slots, sealed, assets, command, observed>>
           /\ UNCHANGED native \/ LedgerDies
  BY <1>0, <1>1 DEF HeldInv, Retained, LedgerDies
<1>2. CASE PreparePair \/ PrepareVtd \/ SetDeadline \/ StartSolver \/ Preswap \/ ShareWitness \/ Fails \/ Return
  <2>1. /\ pc \notin {"close", "raised"} /\ pc' \notin {"close", "raised"}
        /\ UNCHANGED <<outcome, assets, native, command, observed>>
    BY <1>0, <1>2, ArcLoop, JobLoop DEF PreparePair, PrepareVtd, Prove, SetDeadline, StartSolver, Preswap,
       ShareWitness, Fails, Raise, Return, Close, LedgerUntouched, Given, Enter
  <2> QED
    BY <1>0, <2>1 DEF HeldInv, Retained
<1>3. CASE LockCycle \/ LockLost
  <2>1. /\ pc = "fund" /\ pc' \in {"deadline", "abort"} /\ Retained /\ UNCHANGED <<outcome, command, observed>>
        /\ \A a \in Arc : assets'[a] = "locked"
    BY <1>3 DEF LockCycle, LockLost, Enter, Given
  <2> QED
    BY <1>0, <2>1 DEF HeldInv, Retained
<1>4. CASE LockBranch
  <2>1. /\ pc = "fund" /\ pc' \in {"fund", "deadline"} /\ ~ Retained
        /\ UNCHANGED <<outcome, native, command, observed>>
    BY <1>0, <1>4, ArcLoop DEF LockBranch, Given
  <2> QED
    BY <1>0, <2>1 DEF HeldInv, Retained
<1>5. CASE FinishVtd
  <2>1. /\ pc = "finish" /\ pc' \in {"finish", "consume", "report"}
        /\ UNCHANGED <<outcome, native, command, observed>> /\ (Retained => UNCHANGED assets)
    BY <1>0, <1>5, JobLoop DEF FinishVtd, AfterFinish, Given
  <2> QED
    BY <1>0, <2>1 DEF HeldInv, Retained
<1>6. CASE Consume \/ ConsumeFails
  <2>1. /\ pc = "consume" /\ pc' \in {"finish", "report", "abort"} /\ UNCHANGED <<outcome, observed>>
        /\ command' = "C" \/ UNCHANGED <<assets, native, command>>
    BY <1>6 DEF Consume, ConsumeFails, AfterConsume, Enter, Given
  <2>2. observed = "none" /\ Retained
    BY <1>0, <2>1 DEF HeldInv, CommandInv
  <2> QED
    BY <1>0, <2>1, <2>2 DEF HeldInv, Retained
<1>7. CASE AbortCycle
  <2>1. /\ pc = "abort" /\ pc' = "close" /\ UNCHANGED <<outcome, assets>> /\ native' # "waiting"
        /\ native' # "none" => native # "none"
        /\ \/ UNCHANGED observed
           \/ observed' = "unavailable"
           \/ observed' = "reported" /\ native = "waiting" /\ command = "none" /\ command' = "A"
    BY <1>7 DEF AbortCycle, Enter, Given
  <2>2. observed = "none"
    BY <1>0, <2>1 DEF HeldInv
  <2> QED
    BY <1>0, <2>1, <2>2 DEF HeldInv, Retained
<1>8. CASE Unwind
  <2>1. pc = "close" /\ pc' = "raised" /\ UNCHANGED <<outcome, assets, native, command, observed>>
    BY <1>8 DEF Unwind, Close, LedgerUntouched, Given, Enter
  <2> QED
    BY <1>0, <2>1 DEF HeldInv, Retained
<1> QED
  BY <1>1, <1>2, <1>3, <1>4, <1>5, <1>6, <1>7, <1>8, StepCases

\* Which witnesses a step writes, by the phase it is taken in.
LEMMA SlotsWritten ==
    ASSUME TypeOK, [Next]_vars
    PROVE  \/ UNCHANGED slots
           \/ slots' = Erased /\ pc = "fund" /\ pc' \in {"deadline", "abort"}
           \/ ShareWitness /\ pc = "share"
           \/ FinishVtd /\ pc = "finish" /\ outcome # "honest" /\ job \in Level /\ slots' = Recovered(arc, job)
<1>1. job \in Level \/ LastJob
  BY CycleAssumption DEF TypeOK, Job, Level, LastJob
<1>2. (ShareWitness => pc = "share") /\ (FinishVtd => pc = "finish")
  BY DEF ShareWitness, FinishVtd, EachArc, EachJob
<1> QED
  BY <1>1, <1>2, StepCases DEF PreparePair, PrepareVtd, Prove, LockCycle, LockBranch, SetDeadline, StartSolver,
     Preswap, FinishVtd, Recover, Consume, ConsumeFails, Fails, Raise, LockLost, AbortCycle, Unwind, Return,
     Close, Enter

LEMMA SlotsStep == IInv /\ [Next]_vars => SlotsInv'
<1> SUFFICES ASSUME IInv, [Next]_vars, Retained' PROVE SlotsInv'
  BY DEF SlotsInv
<1> USE CycleAssumption
<1>0. /\ TypeOK /\ SlotsInv /\ CommandInv /\ UNCHANGED outcome /\ Retained
      /\ \A a \in Arc : Receives(a)' <=> Receives(a)
  <2>1. UNCHANGED outcome
    BY DEF Next, Steps, Expire, LedgerDies, vars, Given, PreparePair, PrepareVtd, Prove, LockCycle, LockBranch,
     SetDeadline, StartSolver, Preswap, ShareWitness, FinishVtd, Consume, ConsumeFails, Fails, Raise,
     LockLost, AbortCycle, Unwind, Return, Close
  <2> QED
    BY <2>1 DEF IInv, Retained, Receives
<1>1. arc \in Arc /\ job \in Job /\ slots \in [Arc -> SlotType]
  BY <1>0 DEF TypeOK, SlotType
<1>2. CASE UNCHANGED <<outcome, pc, arc, job, vtd, handoffs, slots, sealed, assets, command, observed>>
  BY <1>0, <1>2 DEF SlotsInv, RelocksAre, WithdrawIs, Passed, RelockedAs
<1>3. ASSUME pc' \in BeforeLocks \cup {"fund"} \cup Ended PROVE SlotsInv'
  BY <1>3 DEF SlotsInv, BeforeLocks, Ended
<1>4. CASE LockCycle
  <2>1. pc' = "deadline" /\ slots' = Erased
    BY <1>4 DEF LockCycle, Enter
  <2> QED
    BY <2>1 DEF SlotsInv, RelocksAre, Erased, Slots
<1>5. CASE SetDeadline \/ StartSolver \/ Preswap
  <2>1. pc \in {"deadline", "solve", "preswap"} /\ pc' \in {"solve", "preswap", "share"} /\ UNCHANGED slots
        /\ (pc' = "share" => arc' = 0)
    BY <1>0, <1>5, JobLoop DEF SetDeadline, StartSolver, Preswap, Enter
  <2>2. \A a \in Arc : RelocksAre(a, "erased") /\ slots[a].withdraw = "erased"
    BY <1>0, <2>1 DEF SlotsInv
  <2>3. \A a \in Arc : ~ (a < 0)
    BY DEF Arc
  <2> QED
    BY <2>1, <2>2, <2>3 DEF SlotsInv, RelocksAre
<1>6. CASE ShareWitness
  <2>1. /\ pc = "share" /\ (\/ pc' = "share" /\ arc < N - 1 /\ arc' = arc + 1
                            \/ pc' = "consume" /\ arc = N - 1 /\ outcome = "honest"
                            \/ pc' = "finish" /\ arc = N - 1 /\ arc' = 0 /\ job' = 0)
        /\ slots' = [slots EXCEPT ![arc].withdraw = IF Receives(arc) THEN "shared" ELSE "erased"]
    BY <1>0, <1>6, ArcLoop DEF ShareWitness
  <2>2. \A a \in Arc : slots'[a].relock = slots[a].relock
    BY <1>1, <2>1 DEF SlotType
  <2>3. \A a \in Arc : slots'[a].withdraw = IF a # arc THEN slots[a].withdraw
                                            ELSE IF Receives(arc) THEN "shared" ELSE "erased"
    BY <1>1, <2>1 DEF SlotType
  <2>4. \A a \in Arc : RelocksAre(a, "erased")'
    BY <1>0, <2>1, <2>2 DEF SlotsInv, RelocksAre
  <2>5. \A a \in Arc : IF a < arc \/ a = arc THEN WithdrawIs(a)' ELSE slots'[a].withdraw = "erased"
    BY <1>0, <1>1, <2>1, <2>3 DEF SlotsInv, WithdrawIs
  <2>6. \A a \in Arc : /\ (a < arc + 1 <=> a < arc \/ a = arc)
                       /\ (arc = N - 1 => a < arc \/ a = arc) /\ ~ (a < 0)
    BY <1>1 DEF Arc
  <2>7. \A a \in Arc, l \in Level : ~ (a < 0 \/ (a = 0 /\ l < 0))
    BY DEF Arc, Level
  <2> QED
    BY <1>0, <2>1, <2>4, <2>5, <2>6, <2>7 DEF SlotsInv, RelocksAre, Passed, RelockedAs
<1>7. CASE FinishVtd
  <2>1. pc = "finish" /\ (pc' = "finish" \/ pc' = AfterFinish)
    BY <1>0, <1>7, JobLoop DEF FinishVtd
  <2>2. \A a \in Arc : slots'[a].withdraw = slots[a].withdraw
    BY <1>0, <1>1, <1>7, SlotsWritten DEF FinishVtd, Recover, Recovered, SlotType
  <2>3. \A a \in Arc : WithdrawIs(a)'
    BY <1>0, <2>1, <2>2 DEF SlotsInv, WithdrawIs
  <2>4. \A a \in Arc, l \in Level :
            slots'[a].relock[l] = IF outcome # "honest" /\ (Passed(a, l) \/ (a = arc /\ l = job))
                                    THEN "recovered" ELSE "erased"
    <3> TAKE a \in Arc, l \in Level
    <3>1. slots[a].relock[l] = IF outcome # "honest" /\ Passed(a, l) THEN "recovered" ELSE "erased"
      BY <1>0, <2>1 DEF SlotsInv
    <3>2. CASE slots' = slots /\ (LastJob \/ outcome = "honest")
      BY <3>1, <3>2 DEF LastJob, Level
    <3>3. CASE slots' = Recovered(arc, job) /\ ~ (LastJob \/ outcome = "honest")
      <4>1. slots[arc] \in SlotType /\ slots[a] \in SlotType
        BY <1>1
      <4>2. a # arc => slots'[a] = slots[a]
        BY <1>1, <3>3 DEF Recovered
      <4>3. slots'[arc].relock = [slots[arc].relock EXCEPT ![job] = "recovered"]
        BY <1>1, <3>3, <4>1 DEF Recovered, SlotType
      <4>4. job \in Level
        BY <1>1, <3>3 DEF LastJob, Job, Level
      <4>5. slots'[arc].relock[l] = IF l = job THEN "recovered" ELSE slots[arc].relock[l]
        BY <4>1, <4>3, <4>4 DEF SlotType
      <4> QED
        BY <3>1, <3>3, <4>2, <4>5
    <3> QED
      BY <1>7, <3>2, <3>3 DEF FinishVtd, Recover
  <2>5. /\ Level \subseteq Job
        /\ \/ /\ pc' = "finish"
              /\ \A a \in Arc, j \in Job : Passed(a, j)' <=> Passed(a, j) \/ (a = arc /\ j = job)
           \/ /\ pc' = AfterFinish /\ \A a \in Arc, j \in Job : Passed(a, j) \/ (a = arc /\ j = job)
    BY <1>0, <1>7, <2>1, JobLoop DEF FinishVtd, Level, Job
  <2>6. CASE pc' = "finish"
    <3>1. \A a \in Arc, j \in Job : Passed(a, j)' <=> Passed(a, j) \/ (a = arc /\ j = job)
      BY <2>5, <2>6 DEF AfterFinish
    <3> QED
      BY <1>0, <2>3, <2>4, <2>5, <2>6, <3>1 DEF SlotsInv
  <2>7. CASE pc' = AfterFinish
    <3>1. pc' \in {"consume", "report"} /\ (pc' = "consume" => outcome # "honest")
      BY <2>7 DEF AfterFinish
    <3>2. \A a \in Arc, j \in Job : Passed(a, j) \/ (a = arc /\ j = job)
      BY <2>5, <3>1
    <3> QED
      BY <1>0, <2>3, <2>4, <2>5, <3>1, <3>2 DEF SlotsInv, RelocksAre, RelockedAs
  <2> QED
    BY <2>1, <2>6, <2>7
<1>8. CASE Consume
  <2>1. /\ pc = "consume" /\ UNCHANGED slots /\ arc' = 0 /\ job' = 0
        /\ pc' = "report" \/ (pc' = "finish" /\ outcome = "honest")
    BY <1>8 DEF Consume, Enter, AfterConsume
  <2>2. \A a \in Arc : WithdrawIs(a) /\ RelocksAre(a, RelockedAs)
    BY <1>0, <2>1 DEF SlotsInv
  <2> QED
    BY <1>0, <2>1, <2>2 DEF SlotsInv, WithdrawIs, RelocksAre, RelockedAs
<1>9. CASE PreparePair \/ PrepareVtd \/ LockBranch
  <2>1. ~ LockBranch
    BY <1>0 DEF LockBranch
  <2> QED
    BY <1>0, <1>3, <1>9, <2>1, ArcLoop, JobLoop DEF PreparePair, PrepareVtd, BeforeLocks
<1>10. CASE ConsumeFails \/ Fails \/ LockLost \/ AbortCycle \/ Unwind \/ Return
  BY <1>3, <1>10 DEF ConsumeFails, Fails, Raise, LockLost, AbortCycle, Unwind, Return, Close, Enter, Ended
<1> QED
  BY <1>2, <1>4, <1>5, <1>6, <1>7, <1>8, <1>9, <1>10, StepCases

LEMMA DerivedStep == IInv /\ [Next]_vars => DerivedWitnesses'
<1> SUFFICES ASSUME IInv, [Next]_vars, Retained', command' = "C" PROVE DerivedWitnesses'
  BY DEF DerivedWitnesses
<1>0. TypeOK /\ SlotsInv /\ CommandInv /\ DerivedWitnesses
  BY DEF IInv
<1>1. Retained /\ UNCHANGED outcome /\ \A a \in Arc : Receives(a)' <=> Receives(a)
  <2>1. UNCHANGED outcome
    BY DEF Next, Steps, Expire, LedgerDies, vars, Given, PreparePair, PrepareVtd, Prove, LockCycle, LockBranch,
     SetDeadline, StartSolver, Preswap, ShareWitness, FinishVtd, Consume, ConsumeFails, Fails, Raise,
     LockLost, AbortCycle, Unwind, Return, Close
  <2> QED
    BY <2>1 DEF Retained, Receives
<1>2. CASE command = "C"
  <2>1. pc \in Ended \/ (pc = "finish" /\ outcome = "honest")
    BY <1>0, <1>2 DEF CommandInv
  <2>2. UNCHANGED slots
    BY <1>0, <2>1, SlotsWritten DEF Ended
  <2> QED
    BY <1>0, <1>1, <1>2, <2>2 DEF DerivedWitnesses
<1>3. CASE command # "C"
  <2>1. Consume \/ ConsumeFails
    BY <1>3, StepCases DEF PreparePair, PrepareVtd, Prove, LockCycle, LockBranch, SetDeadline, StartSolver,
       Preswap, ShareWitness, FinishVtd, Fails, Raise, LockLost, AbortCycle, Unwind, Return, Close,
       LedgerUntouched
  <2>2. pc = "consume" /\ UNCHANGED slots
    BY <2>1 DEF Consume, ConsumeFails
  <2>3. \A a \in Arc : WithdrawIs(a) /\ RelocksAre(a, RelockedAs)
    BY <1>0, <1>1, <2>2 DEF SlotsInv
  <2> QED
    BY <1>1, <2>2, <2>3 DEF DerivedWitnesses, WithdrawIs, RelocksAre, RelockedAs
<1> QED
  BY <1>2, <1>3

(* The inductive invariant of the local cycle. *)
THEOREM CycleInvariant == Spec => []IInv
<1>1. IInv /\ [Next]_vars => IInv'
  BY TypeStep, ProofsStep, LocksStep, SlotsStep, CommandStep, HeldStep, DerivedStep DEF IInv
<1> QED
  BY <1>1, InitInv, PTL DEF Spec

(* Every variable of the local cycle keeps its type: in particular none of its
   loops goes past its last arc or job (RetainedCycle.TypeOK). *)
THEOREM CycleTypeCorrect == Spec => []TypeOK
<1>1. IInv => TypeOK
  BY DEF IInv
<1> QED
  BY <1>1, CycleInvariant, PTL

(* No asset is locked before every delayed witness of the cycle is proved, and
   no vector is made before every asset is locked and every solver runs. *)
THEOREM ProofsBeforeLocks == Spec => []ProofsThenLocks
<1>1. IInv => ProofsThenLocks
  <2> SUFFICES ASSUME IInv PROVE ProofsThenLocks
    OBVIOUS
  <2>1. (\E a \in Arc : assets[a] # "unfunded") => \A j \in Arc \X Job : vtd[j] # "none"
    BY DEF IInv, ProofsInv, Locked
  <2>2. handoffs # {} => \A a \in Arc : assets[a] # "unfunded" /\ \A j \in Job : Solving(vtd[<<a, j>>])
    BY DEF IInv, ProofsInv, LocksInv, Locked
  <2> QED
    BY <2>1, <2>2 DEF ProofsThenLocks, Solving
<1> QED
  BY <1>1, CycleInvariant, PTL

(* When the ledger is told to consume, every witness it will use was received
   live or solved for, and none is left of the preparation fixture. *)
THEOREM WitnessesDerived == Spec => []DerivedWitnesses
<1>1. IInv => DerivedWitnesses
  BY DEF IInv
<1> QED
  BY <1>1, CycleInvariant, PTL

(* Nothing is written to a witness file after it was sealed. *)
THEOREM SealedRest == Spec => SealedFilesRest
<1>1. IInv /\ [Next]_vars => [\A a \in sealed : slots'[a] = slots[a]]_vars
  <2> SUFFICES ASSUME IInv, [Next]_vars, sealed # {} PROVE UNCHANGED slots
    OBVIOUS
  <2>1. TypeOK /\ (pc \in Ended \/ (pc = "finish" /\ outcome = "honest"))
    BY DEF IInv, CommandInv
  <2> QED
    BY <2>1, SlotsWritten DEF Ended
<1> QED
  BY <1>1, CycleInvariant, PTL DEF Spec, SealedFilesRest

(* A cycle that raises over confirmed locks ends its ledger only after it asked
   it what it holds, or had sent it the command, and never leaves it waiting;
   what it reports is that all assets are locked.  A ledger that died by itself
   is what the property excepts. *)
THEOREM AbortsObserved == Spec => []AbortObserved
<1>1. IInv => AbortObserved
  BY DEF IInv, CommandInv, HeldInv, AbortObserved
<1> QED
  BY <1>1, CycleInvariant, PTL
=============================================================================
