-------------------------------- MODULE Delivery --------------------------------
(***************************************************************************)
(* What a store-and-forward part of the SDK promises for the records it    *)
(* was given: it keeps a record until the store has it or has refused it,  *)
(* and every record it lets go of otherwise is accounted for as abandoned. *)
(* BufferedClient (memory) and SpoolSync (spool files) implement it.       *)
(***************************************************************************)
CONSTANT Record

VARIABLES
    held,       \* records the component still has to deliver
    reached,    \* records the store has
    refused,    \* records the store rejected
    abandoned   \* records given up for a reason the component names

vars == <<held, reached, refused, abandoned>>

Init == held = {} /\ reached = {} /\ refused = {} /\ abandoned = {}

(* A record is handed over, once; an earlier path may have got it through.   *)
Accept ==
    /\ \E r \in Record \ (held \cup reached \cup refused \cup abandoned) :
          /\ held' = held \cup {r}
          /\ reached' \in {reached, reached \cup {r}}
    /\ UNCHANGED <<refused, abandoned>>

(* The store answers, or stores without its answer arriving; the component   *)
(* lets go of what the store has or has refused, and of what it abandons.    *)
Forward ==
    \E S, N, A \in SUBSET held :
        /\ reached' = reached \cup S
        /\ refused' = refused \cup N
        /\ abandoned' = abandoned \cup A
        /\ \E R \in SUBSET (held \cap (reached' \cup refused')) : held' = held \ (R \cup A)

Next == Accept \/ Forward

Spec == Init /\ [][Next]_vars

================================================================================
