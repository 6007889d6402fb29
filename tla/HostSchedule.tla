---------------------------- MODULE HostSchedule ----------------------------
(***************************************************************************)
(* The protocol schedule of host_schedule.c: one pre-swap window of        *)
(* Delta + 3*epsilon after the origin, then one re-lock deadline per       *)
(* address level, Delta apart, then the refund time.  Times are C          *)
(* uint64_t values; UintMax is the largest of them, so that the same       *)
(* definitions can be evaluated with a small width.                        *)
(***************************************************************************)
EXTENDS Naturals

CONSTANT UintMax    \* UINT64_MAX

ASSUME UintAssumption == UintMax \in Nat

Uint == 0 .. UintMax

\* Unsigned arithmetic: the value kept in a uint64_t.
U(x) == x % (UintMax + 1)

\* t = Delta + 3*epsilon, the length of the pre-swap window.
Window(delta, epsilon) == U(delta + U(3 * epsilon))

\* n*Delta + t, the time from the origin to the refund.
Duration(n, delta, epsilon) == U(U(n * delta) + Window(delta, epsilon))

\* Mutants: the product n*Delta unchecked against wrapping, and a deadline
\* counted from the origin instead of from the end of the pre-swap window.
AdmissibleUncheckedProduct(n, origin, delta, epsilon) ==
    /\ n \in 3 .. 128
    /\ delta # 0
    /\ epsilon # 0
    /\ epsilon <= UintMax \div 3
    /\ delta <= UintMax - U(3 * epsilon)
    /\ origin <= UintMax - Duration(n, delta, epsilon)

RelockDeadlineFromOrigin(s, level) == U(s.origin + U(level * s.delta))

\* The guards of host_schedule_init, each written so that it cannot wrap.
Admissible(n, origin, delta, epsilon) ==
    /\ n \in 3 .. 128
    /\ delta # 0
    /\ epsilon # 0
    /\ epsilon <= UintMax \div 3
    /\ delta <= UintMax - U(3 * epsilon)
    /\ delta <= (UintMax - Window(delta, epsilon)) \div n
    /\ origin <= UintMax - Duration(n, delta, epsilon)

\* What an accepted host_schedule_init stores.
MakeSchedule(n, origin, delta, epsilon) ==
    [ participants |-> n,
      origin       |-> origin,
      delta        |-> delta,
      window       |-> Window(delta, epsilon),
      refund       |-> U(origin + Duration(n, delta, epsilon)) ]

\* Destination levels have a deadline, level 0 (the lock) has none.
RelockLevel(s, level) == level >= 1 /\ level < s.participants

RelockDeadline(s, level) == U(U(s.origin + s.window) + U(level * s.delta))

PreswapLive(s, now) == now >= s.origin /\ now - s.origin < s.window

RelockReady(s, level, now) ==
    RelockLevel(s, level) /\ now >= RelockDeadline(s, level)

RefundReady(s, now) == now >= s.refund
=============================================================================
