----------------------------- MODULE MCCloudClient -----------------------------
(* Small instances of CloudClient: one session.                             *)
EXTENDS CloudClient, TLC

CONSTANTS a1, a2, a3, p1, v1, c1, s1

KindOf(e) ==
    CASE e \in {a1, a2, a3} -> "auto"
      [] e = p1 -> "pending"
      [] e = v1 -> "approval"
      [] e = c1 -> "close"

MCTypeOf == [e \in Envelope |-> KindOf(e)]
MCOneSession == [e \in Envelope |-> s1]

(* The auto-authorized actions are interchangeable. *)
ActionSymmetry == Permutations({a1, a2, a3} \cap Envelope)

================================================================================
