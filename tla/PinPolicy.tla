----------------------------- MODULE PinPolicy -----------------------------
(***************************************************************************)
(* The arithmetic of one PIN's attempt counter: crates/pin-policy          *)
(* (PinPolicyMachine::submit_attempt) over the RRAM cell of                *)
(* crates/baochip-openpgp (RramMonotonicCounter).                          *)
(***************************************************************************)
EXTENDS Integers

CONSTANTS
    MaxAttempts,    \* PinPolicyConfig.max_attempts (3..10 in the code, default 3)
    CounterMax      \* largest value of the counter cell (u32::MAX in the code)

ASSUME PinPolicyAssumption ==
    /\ MaxAttempts \in Nat \ {0}
    /\ CounterMax \in Nat
    /\ MaxAttempts < CounterMax

(* A counter that wraps or grows without bound instead of saturating. *)
IncrementUnbounded(c) == c + 1

(* increment(): v = read().saturating_add(1), written back. *)
Increment(c) == IF c < CounterMax THEN c + 1 ELSE CounterMax

(* A refund that hands the whole budget back instead of one reservation. *)
RefundAll(c) == 0

(* refund_on_success(): v = read().saturating_sub(1), written back. *)
Refund(c) == IF c > 0 THEN c - 1 ELSE 0

(* The test of submit_attempt on the freshly incremented count. *)
Breach(count) == count > MaxAttempts

=============================================================================
