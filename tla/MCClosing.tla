------------------------------ MODULE MCClosing ------------------------------
(***************************************************************************)
(* What has to end, for TLC: the relays of a run that is torn down, and    *)
(* the requests that share the pool of blocking workers. They share no     *)
(* state in the model: a behaviour is one of them, with the other at rest. *)
(***************************************************************************)
EXTENDS StreamControl, BlockingPool

VARIABLE part       \* the part that moves

ClosingInit == part \in {"streams", "pool"} /\ Init /\ PoolInit

ClosingNext ==
    \/ part = "streams" /\ Next /\ UNCHANGED <<part, poolVars>>
    \/ part = "pool" /\ PoolNext /\ UNCHANGED <<part, vars>>

ClosingSpec ==
    /\ ClosingInit /\ [][ClosingNext]_<<part, vars, poolVars>>
    /\ StreamFairness /\ PoolFairness
=============================================================================
