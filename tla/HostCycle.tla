----------------------------- MODULE HostCycle ------------------------------
(***************************************************************************)
(* The cycle of N arcs in the hands of the host that holds all its ledgers *)
(* (host_recovery.c, funded_cycle_recovery of host_cycle_tool.c): paying   *)
(* every arc at its first level, recovering the cycle arc by arc from      *)
(* observed withdrawals, and refunding single arcs.  A call is a sequence  *)
(* of ledger operations; a missing or wrong input file ends it with an     *)
(* error, what was accepted before stays accepted, and the host calls      *)
(* again on the same ledgers.                                              *)
(*                                                                         *)
(* Arc i goes from participant i to participant i+1.  Its withdrawal       *)
(* witness at a level is the global witness plus the identifiers in        *)
(* Statement, which stands for the public point; adding an identifier is   *)
(* adding it to the set.                                                   *)
(***************************************************************************)
EXTENDS HostLedgerOps

CONSTANTS Modes,      \* the sets of functions one host may mix
          MaxFaults   \* bound: bad inputs met over a behaviour

\* A host refunds, or it withdraws and recovers.
ASSUME ModesAssumption ==
    \A m \in Modes : m = {"refund"} \/ (m # {} /\ m \subseteq {"withdraw", "recover"})
ASSUME FaultsAssumption == MaxFaults \in Nat

VARIABLES ledgers,    \* the retained ledger of each arc
          mode,       \* which functions this host calls
          call,       \* the call in progress
          result,     \* what the last call returned
          faults      \* bad inputs still to come

vars == <<ledgers, mode, call, result, faults>>

Arc == 0 .. N - 1
Function == {"withdraw", "recover", "refund"}
Idle == [fn |-> "idle", step |-> 0]

TypeOK ==
    /\ ledgers \in [Arc -> Ledger]
    /\ mode \in SUBSET Function
    /\ call \in [fn : {"idle"} \cup Function, step : 0 .. N]
    /\ result \in {"none", "ok", "err"}
    /\ faults \in 0 .. MaxFaults

\* fund_registry leaves every arc's timed ledger locked at level 0.
Init ==
    /\ ledgers = [i \in Arc |-> CreatedTimed]
    /\ mode \in Modes
    /\ call = Idle
    /\ result = "none"
    /\ faults = MaxFaults

-----------------------------------------------------------------------------
\* An input file is good, or one of the bad ones.
Input(good) ==
    /\ good \/ faults > 0
    /\ faults' = IF good THEN faults ELSE faults - 1

PreSignature(ordinal) == [tx |-> ordinal, key |-> LevelOf(ordinal)]

\* adapt: a wrong witness completes the pre-signature to no valid signature.
Adapt(ordinal, good) == IF good THEN PreSignature(ordinal) ELSE NoSignature

Statement(arc, level) == {(arc + 1 + k) % N : k \in 0 .. level}

Begin(fn, step) ==
    /\ call' = [fn |-> fn, step |-> step]
    /\ result' = "none"
    /\ UNCHANGED <<ledgers, mode, faults>>

Return(status) ==
    /\ call' = Idle
    /\ result' = status
    /\ UNCHANGED mode

\* adapt_and_spend on arc i: a rejected signature ends the call.
AdaptAndSpend(i, ordinal, good, time, nextStep) ==
    LET sig == Adapt(ordinal, good)
    IN  /\ Input(good)
        /\ IF SpendAtAccepts(ledgers[i], ordinal, sig, time)
             THEN /\ ledgers' = [ledgers EXCEPT ![i] = SpendResult(@, ordinal, sig)]
                  /\ call' = [call EXCEPT !.step = nextStep]
                  /\ UNCHANGED <<mode, result>>
             ELSE Return("err") /\ UNCHANGED ledgers

\* One turn of the loop of relock_to, with the delayed witness of the level.
RelockOnce(i) ==
    \E good \in BOOLEAN :
        AdaptAndSpend(i, N + ledgers[i].level, good,
                      RelockDeadline(Schedule, ledgers[i].level + 1), call.step)

-----------------------------------------------------------------------------
(* host_withdraw_cycle *)
WithdrawReady ==
    \A i \in Arc :
        /\ ledgers[i].level = 0
        /\ \/ ledgers[i].state = "LOCKED"
           \/ ExtractAccepts(ledgers[i], PreSignature(0))

WithdrawBegin ==
    /\ call = Idle /\ "withdraw" \in mode
    /\ IF WithdrawReady
         THEN Begin("withdraw", 0)
         ELSE Return("err") /\ UNCHANGED <<ledgers, faults>>

WithdrawStep ==
    /\ call.fn = "withdraw" /\ call.step < N
    /\ LET i == call.step
       IN  IF ledgers[i].state = "WITHDRAWN"
             THEN /\ call' = [call EXCEPT !.step = @ + 1]
                  /\ UNCHANGED <<ledgers, mode, result, faults>>
             ELSE \E good \in BOOLEAN :
                     AdaptAndSpend(i, 0, good, Schedule.origin, i + 1)

\* Mutant: the loop ends one arc early.
WithdrawReturnEarly ==
    /\ call.fn = "withdraw" /\ call.step >= N - 1
    /\ Return("ok") /\ UNCHANGED <<ledgers, faults>>

WithdrawReturn ==
    /\ call.fn = "withdraw" /\ call.step = N
    /\ Return("ok") /\ UNCHANGED <<ledgers, faults>>

-----------------------------------------------------------------------------
(* host_recover_cycle: step s settles arc RecoveryArc(s) at level s *)
\* Mutant: the arcs in forward order.
RecoveryArcForward(s) == s

RecoveryArc(s) == IF s = 0 THEN 0 ELSE N - s
Outgoing(i) == (i + 1) % N

\* Mutant: the pending arc itself must already be at level 0.
RecoverReadyFirstAtZero ==
    /\ \A i \in Arc : ledgers[i].state \in {"LOCKED", "WITHDRAWN"}
    /\ \A s \in Arc :
         LET l == ledgers[RecoveryArc(s)]
             pending == \E r \in 0 .. s : ledgers[RecoveryArc(r)].state # "WITHDRAWN"
         IN  IF l.state = "WITHDRAWN"
               THEN ~ pending /\ l.level = s /\ ExtractAccepts(l, PreSignature(s))
               ELSE l.level <= s /\ (pending => l.level = 0)

RecoverReady ==
    /\ \A i \in Arc : ledgers[i].state \in {"LOCKED", "WITHDRAWN"}
    /\ \A s \in Arc :
         LET l == ledgers[RecoveryArc(s)]
             pending == \E r \in 0 .. s - 1 : ledgers[RecoveryArc(r)].state # "WITHDRAWN"
         IN  IF l.state = "WITHDRAWN"
               THEN ~ pending /\ l.level = s /\ ExtractAccepts(l, PreSignature(s))
               ELSE l.level <= s /\ (pending => l.level = 0)

RecoverBegin ==
    /\ call = Idle /\ "recover" \in mode
    /\ IF RecoverReady
         THEN Begin("recover", 0)
         ELSE Return("err") /\ UNCHANGED <<ledgers, faults>>

\* Mutant: the loop runs one step too far.
RecoverSkipPast ==
    /\ call.fn = "recover" /\ call.step <= N
    /\ ledgers[RecoveryArc(call.step)].state = "WITHDRAWN"
    /\ call' = [call EXCEPT !.step = @ + 1]
    /\ UNCHANGED <<ledgers, mode, result, faults>>

RecoverSkip ==
    /\ call.fn = "recover" /\ call.step < N
    /\ ledgers[RecoveryArc(call.step)].state = "WITHDRAWN"
    /\ call' = [call EXCEPT !.step = @ + 1]
    /\ UNCHANGED <<ledgers, mode, result, faults>>

\* Arc 0 is the only one whose withdrawal witness is an input.
RecoverFirst ==
    /\ call.fn = "recover" /\ call.step = 0
    /\ ledgers[0].state = "LOCKED"
    /\ \E good \in BOOLEAN : AdaptAndSpend(0, 0, good, Schedule.origin, 1)

\* Mutant: one re-lock too many.
RecoverRelockPast ==
    /\ call.fn = "recover" /\ call.step \in 1 .. N - 1
    /\ ledgers[RecoveryArc(call.step)].state = "LOCKED"
    /\ ledgers[RecoveryArc(call.step)].level <= call.step
    /\ RelockOnce(RecoveryArc(call.step))

RecoverRelock ==
    /\ call.fn = "recover" /\ call.step \in 1 .. N - 1
    /\ ledgers[RecoveryArc(call.step)].state = "LOCKED"
    /\ ledgers[RecoveryArc(call.step)].level < call.step
    /\ RelockOnce(RecoveryArc(call.step))

\* host_witness_advance: the sum must be the destination statement.
Recovered(incoming, level, identifier) ==
    Statement(Outgoing(incoming), level - 1) \cup {identifier} = Statement(incoming, level)

(* host_recover_into, with the witness extracted from the outgoing ledger and
   the identifier the outgoing arc's sender supplies (N for a wrong one). *)
RecoverInto ==
    /\ call.fn = "recover" /\ call.step \in 1 .. N - 1
    /\ LET s == call.step
           i == RecoveryArc(s)
           out == ledgers[Outgoing(i)]
       IN  /\ ledgers[i].state = "LOCKED" /\ ledgers[i].level >= s
           /\ \E good \in BOOLEAN :
                LET identifier == IF good THEN Outgoing(i) ELSE N
                IN  IF /\ out.state = "WITHDRAWN"
                       /\ ledgers[i].level = out.level + 1
                       /\ ExtractAccepts(out, PreSignature(s - 1))
                       /\ Recovered(i, s, identifier)
                      THEN AdaptAndSpend(i, ledgers[i].level, good,
                                         RelockDeadline(Schedule, s), s + 1)
                      ELSE Input(good) /\ Return("err") /\ UNCHANGED ledgers

RecoverReturn ==
    /\ call.fn = "recover" /\ call.step = N
    /\ Return(IF \A i \in Arc : ledgers[i].state = "WITHDRAWN" THEN "ok" ELSE "err")
    /\ UNCHANGED <<ledgers, faults>>

-----------------------------------------------------------------------------
(* host_refund_retained on one arc; the receipt is verified before anything
   is spent, and the re-locks run to the last level. *)
RefundBegin(i) ==
    /\ call = Idle /\ "refund" \in mode
    /\ \E good \in BOOLEAN :
         /\ Input(good)
         /\ IF ledgers[i].state = "LOCKED" /\ good
              THEN /\ call' = [fn |-> "refund", step |-> i]
                   /\ result' = "none"
                   /\ UNCHANGED <<ledgers, mode>>
              ELSE Return("err") /\ UNCHANGED ledgers

RefundRelock ==
    /\ call.fn = "refund"
    /\ ledgers[call.step].level < N - 1
    /\ RelockOnce(call.step)

RefundSign ==
    /\ call.fn = "refund"
    /\ LET i == call.step
           sig == [tx |-> RefundTx, key |-> N - 1]
       IN  /\ ledgers[i].level = N - 1
           /\ IF RefundAtAccepts(ledgers[i], sig, Schedule.refund)
                THEN ledgers' = [ledgers EXCEPT ![i] = RefundResult(@)] /\ Return("ok")
                ELSE Return("err") /\ UNCHANGED ledgers
    /\ UNCHANGED faults

-----------------------------------------------------------------------------
Step ==
    \/ WithdrawStep \/ WithdrawReturn
    \/ RecoverSkip \/ RecoverFirst \/ RecoverRelock \/ RecoverInto \/ RecoverReturn
    \/ RefundRelock \/ RefundSign

Next ==
    \/ WithdrawBegin \/ RecoverBegin
    \/ \E i \in Arc : RefundBegin(i)
    \/ Step

(* A call runs to its end, the inputs turn good, and the host calls each of
   its functions again for as long as it has not succeeded. *)
Fairness ==
    /\ WF_vars(Step)
    /\ SF_vars(WithdrawBegin)
    /\ SF_vars(RecoverBegin)
    /\ \A i \in Arc : SF_vars(RefundBegin(i))

Spec == Init /\ [][Next]_vars /\ Fairness
-----------------------------------------------------------------------------
(* Nobody is stranded half-way: whenever an arc has been withdrawn, the arc
   into its sender is already withdrawn or is still locked at a level from
   which that sender can reach the one level where the observed withdrawal
   is worth anything, the next one.  Re-locking an arc too far, or paying the
   arcs in the wrong order, loses an asset for good. *)
NeverStranded ==
    \A i \in Arc :
        LET in == ledgers[i]
            out == ledgers[Outgoing(i)]
        IN  out.state = "WITHDRAWN" =>
              \/ in.state = "WITHDRAWN"
              \/ in.state = "LOCKED" /\ in.level <= out.level + 1

(* "A failed call can leave accepted spends/re-locks: retry on the same ledger
   objects": between calls, whatever failed before and wherever, one of the
   host's functions accepts the ledgers as they are, also for a host that
   mixes host_withdraw_cycle and host_recover_cycle. *)
RetryAccepted ==
    (call = Idle /\ "refund" \notin mode) =>
        \/ "withdraw" \in mode /\ WithdrawReady
        \/ "recover" \in mode /\ RecoverReady

(* A call that returned success has settled what it was for: the whole cycle
   is withdrawn after a cycle call, and a refund refunded an arc, no arc of a
   refunding host being withdrawn. *)
OkMeansSettled ==
    result = "ok" =>
        IF "refund" \in mode
          THEN \E i \in Arc : ledgers[i].state = "REFUNDED"
          ELSE \A i \in Arc : ledgers[i].state = "WITHDRAWN"

(* Once the inputs are good the host gets every arc to the outcome it works
   for: no failed call leaves a state that all further calls refuse. *)
EventuallySettled ==
    <>(\A i \in Arc : ledgers[i].state = IF "refund" \in mode THEN "REFUNDED" ELSE "WITHDRAWN")
=============================================================================
