---------------------------- MODULE BlockingPool ----------------------------
(***************************************************************************)
(* The permits of `blocking` and the gate of one instance (api/mod.rs).    *)
(* Every blocking closure of the daemon takes one of the permits of one    *)
(* semaphore. Two orders occur: a closure takes its permit and then waits  *)
(* for the gate inside (blocking_lock: the process watcher, configuration, *)
(* snapshots, event subscriptions); a task takes the gate and then awaits  *)
(* a closure that needs a permit (the QMP reader, device and display       *)
(* sessions, guest execution, restart). A status route takes a permit and  *)
(* no gate. Both locks are FIFO.                                           *)
(***************************************************************************)
EXTENDS Naturals, Sequences, FiniteSets

CONSTANTS
    Permits,        \* LIMIT: 16 in the code
    InnerTasks,     \* tasks that take a permit, then the gate
    OuterTasks,     \* tasks that take the gate, then a permit
    PlainTasks,     \* tasks that take a permit and no gate
    NoTask          \* nobody

ASSUME PoolAssumption ==
    /\ Permits \in Nat \ {0}
    /\ IsFiniteSet(InnerTasks) /\ IsFiniteSet(PlainTasks)
    /\ InnerTasks \intersect OuterTasks = {}
    /\ PlainTasks \intersect (InnerTasks \union OuterTasks) = {}
    /\ NoTask \notin InnerTasks \union OuterTasks \union PlainTasks

PoolTasks == InnerTasks \union OuterTasks \union PlainTasks

VARIABLES
    step,           \* task -> where it is
    permits,        \* tasks that hold a permit
    permitQueue,    \* waiters of the semaphore, in order
    gateOwner,      \* holder of the instance gate
    gateQueue       \* waiters of the gate, in order

poolVars == <<step, permits, permitQueue, gateOwner, gateQueue>>

PoolInit ==
    /\ step = [t \in PoolTasks |-> "idle"]
    /\ permits = {}
    /\ permitQueue = <<>>
    /\ gateOwner = NoTask
    /\ gateQueue = <<>>

(* A request, or a tick of an observer, that goes through `blocking` first. *)
InnerRequest(t) ==
    /\ step[t] = "idle"
    /\ step' = [step EXCEPT ![t] = "permit"]
    /\ permitQueue' = Append(permitQueue, t)
    /\ UNCHANGED <<permits, gateOwner, gateQueue>>

(* A request that locks the gate first (lock_owned().await). *)
OuterRequest(t) ==
    /\ step[t] = "idle"
    /\ step' = [step EXCEPT ![t] = "gate"]
    /\ gateQueue' = Append(gateQueue, t)
    /\ UNCHANGED <<permits, permitQueue, gateOwner>>

(* LIMIT.acquire: the first waiter gets a free permit. A closure then waits
   for the gate inside its worker thread. *)
AcquirePermit ==
    /\ permitQueue # <<>>
    /\ Cardinality(permits) < Permits
    /\ LET t == Head(permitQueue)
           inner == t \in InnerTasks
       IN /\ permits' = permits \union {t}
          /\ permitQueue' = Tail(permitQueue)
          /\ step' = [step EXCEPT ![t] = IF inner THEN "gate" ELSE "work"]
          /\ gateQueue' = IF inner THEN Append(gateQueue, t) ELSE gateQueue
    /\ UNCHANGED gateOwner

(* The first waiter of the gate gets it. The holder outside `blocking` then
   queues for a permit, with the gate in hand. *)
AcquireGate ==
    /\ gateQueue # <<>>
    /\ gateOwner = NoTask
    /\ LET t == Head(gateQueue)
           inner == t \in InnerTasks
       IN /\ gateOwner' = t
          /\ gateQueue' = Tail(gateQueue)
          /\ step' = [step EXCEPT ![t] = IF inner THEN "work" ELSE "permit"]
          /\ permitQueue' = IF inner THEN permitQueue ELSE Append(permitQueue, t)
    /\ UNCHANGED permits

(* Mutant: the guard of the gate outlives the closure. *)
ReturnKeepsGate(t) ==
    /\ step[t] = "work"
    /\ step' = [step EXCEPT ![t] = "idle"]
    /\ permits' = permits \ {t}
    /\ UNCHANGED <<gateOwner, permitQueue, gateQueue>>

(* The closure returns: the guard and the permit are dropped. *)
Return(t) ==
    /\ step[t] = "work"
    /\ step' = [step EXCEPT ![t] = "idle"]
    /\ permits' = permits \ {t}
    /\ gateOwner' = IF gateOwner = t THEN NoTask ELSE gateOwner
    /\ UNCHANGED <<permitQueue, gateQueue>>

PoolNext ==
    \/ \E t \in InnerTasks \union PlainTasks : InnerRequest(t)
    \/ \E t \in OuterTasks : OuterRequest(t)
    \/ AcquirePermit
    \/ AcquireGate
    \/ \E t \in PoolTasks : Return(t)

(* The semaphore and the mutex wake their first waiter; a closure returns
   because its work is file and database I/O. *)
PoolFairness ==
    /\ WF_poolVars(AcquirePermit)
    /\ WF_poolVars(AcquireGate)
    /\ \A t \in PoolTasks : WF_poolVars(Return(t))

PoolSpec == PoolInit /\ [][PoolNext]_poolVars /\ PoolFairness

-----------------------------------------------------------------------------
(* Everyone who asks is served: no task that waits for the gate inside a
   permit can starve the holder of the gate that waits for a permit
   (api/mod.rs blocking). It needs more permits than such tasks. *)
Served == \A t \in PoolTasks : step[t] # "idle" ~> step[t] = "idle"

(* A status request is answered, however many tasks wait for the gate of an
   instance (docs/migration/rust.md:145). *)
StatusResponds == \A t \in PlainTasks : step[t] # "idle" ~> step[t] = "idle"
=============================================================================
