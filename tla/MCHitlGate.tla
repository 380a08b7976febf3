------------------------------- MODULE MCHitlGate -------------------------------
(* Small instances of HitlGate: two operators, a deadline of two ticks.      *)
EXTENDS HitlGate, TLC

CONSTANTS o1, o2

OperatorSymmetry == Permutations({o1, o2})

================================================================================
