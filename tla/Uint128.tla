------------------------------- MODULE Uint128 -------------------------------
(***************************************************************************)
(* The 128-bit election IDs of P4Runtime, kept as two 64-bit halves, and   *)
(* their comparison as RecordRoleElection writes it (device.go:305).  Only *)
(* the order matters to the simulator, so the halves are natural numbers.  *)
(***************************************************************************)
EXTENDS Naturals

Uint128Values == [high : Nat, low : Nat]

\* a > b
Larger(a, b) ==
    \/ a.high > b.high
    \/ a.high = b.high /\ a.low > b.low
==============================================================================
