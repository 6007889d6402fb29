--------------------------- MODULE MCHostSchedule ---------------------------
(***************************************************************************)
(* One call of host_schedule_init with any arguments of a small unsigned   *)
(* width, and what its caller may then rely on.                            *)
(***************************************************************************)
EXTENDS HostSchedule

CONSTANT MaxN    \* bound: the largest number of participants tried

VARIABLES schedule,   \* the caller's output object; NoSchedule until written
          call        \* the arguments and the return value of the call

NoSchedule == [participants |-> 0, origin |-> 0, delta |-> 0, window |-> 0, refund |-> 0]
NoCall == [n |-> 0, origin |-> 0, delta |-> 0, epsilon |-> 0, ok |-> FALSE]

CallInit == schedule = NoSchedule /\ call = NoCall

\* host_schedule_init: the output is written only when every guard passes.
HostScheduleInit(n, origin, delta, epsilon) ==
    LET ok == Admissible(n, origin, delta, epsilon)
    IN  /\ call' = [n |-> n, origin |-> origin, delta |-> delta, epsilon |-> epsilon, ok |-> ok]
        /\ schedule' = IF ok THEN MakeSchedule(n, origin, delta, epsilon) ELSE schedule

CallNext ==
    /\ call = NoCall
    /\ \E n \in 2 .. MaxN, origin, delta, epsilon \in Uint :
         HostScheduleInit(n, origin, delta, epsilon)

CallSpec == CallInit /\ [][CallNext]_<<schedule, call>>
-----------------------------------------------------------------------------
(* The overflow guards of host_schedule_init are exact: well-formed arguments,
   of 3 to 128 participants and with positive times, are refused if and only
   if the refund time, computed without a width, does not fit, so no schedule
   wraps and none that fits is turned away. *)
AdmissionExact ==
    (call.n \in 3 .. 128 /\ call.delta > 0 /\ call.epsilon > 0) =>
        (call.ok <=> call.origin + call.n * call.delta + call.delta + 3 * call.epsilon <= UintMax)

(* The deadlines of an accepted schedule open in order and at full distance:
   funding has ended before the first re-lock may happen, each level lasts
   Delta, and the refund comes Delta after the last re-lock.  The deadlines
   are computed by host_relock_deadline without any check of their own. *)
WindowsInOrder ==
    call.ok =>
        /\ \A t \in Uint : PreswapLive(schedule, t) => ~ RelockReady(schedule, 1, t)
        /\ \A t \in Uint, level \in 1 .. call.n - 1 :
             RelockReady(schedule, level, t) =>
                /\ t >= schedule.origin + schedule.window + level * schedule.delta
                /\ level > 1 => RelockReady(schedule, level - 1, t - schedule.delta)
        /\ \A t \in Uint :
             RefundReady(schedule, t) => RelockReady(schedule, call.n - 1, t - schedule.delta)
=============================================================================
