------------------------------ MODULE ChainState ------------------------------
(***************************************************************************)
(* The in-memory tail of one session's hash chain (rootsign/chain_state.py)*)
(* as operators on a record [tail, count].  The modules that own a         *)
(* ChainRegistry keep one such record per session.                         *)
(*                                                                         *)
(* A self_hash is an opaque, collision-free value: the canonical input     *)
(* holds a freshly minted action_id, so no two sealed records share one.   *)
(***************************************************************************)
EXTENDS Integers

CONSTANT NoHash      \* None: the prev_action_hash of the first record

(* The states of ChainState when self_hash values are drawn from H. *)
ChainStates(H) == [tail : H \cup {NoHash}, count : Nat]

EmptyChain == [tail |-> NoHash, count |-> 0]

(* ChainState.seal on an unsealed payload: the chain fields it mints. *)
MintedSeal(chain) == [seq |-> chain.count + 1, prev |-> chain.tail]

(* ChainState.seal on an unsealed payload: the state it leaves, h being the *)
(* self_hash it computed.                                                   *)
AfterMint(chain, h) == [tail |-> h, count |-> chain.count + 1]

(* Mutant of AfterAdopt: the count follows an older seal back. *)
AdoptRewindsCount(chain, h, seq) == [tail |-> h, count |-> seq]

(* ChainState._adopt of a payload already sealed as number seq with hash h: *)
(* the tail always moves to h, the count never moves back.                  *)
AfterAdopt(chain, h, seq) ==
    [tail  |-> h,
     count |-> IF seq > chain.count THEN seq ELSE chain.count]

===============================================================================
