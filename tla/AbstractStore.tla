--------------------------- MODULE AbstractStore ---------------------------
(***************************************************************************)
(* What the workspace promises about instances and snapshots, as if its    *)
(* database and its directories were one: an instance appears whole, with  *)
(* no state or that of a snapshot; only a run changes its state; nothing   *)
(* is captured or deleted during a run; a snapshot never changes.          *)
(***************************************************************************)
CONSTANTS Instances, Snapshots, Gone, Blank, States

VARIABLES
    machines,  \* the writable state of an instance, or Gone
    busy,      \* the instances that are started or run
    shots      \* what a snapshot captured from which instance, or Gone

avars == <<machines, busy, shots>>

Appear(i) ==
    /\ machines[i] = Gone
    /\ \E state \in {Blank} \cup {shots[s].state : s \in {t \in Snapshots : shots[t] # Gone}} :
          machines' = [machines EXCEPT ![i] = state]
    /\ UNCHANGED <<busy, shots>>

Vanish(i) ==
    /\ machines[i] # Gone /\ i \notin busy
    /\ \A s \in Snapshots : shots[s] = Gone \/ shots[s].inst # i
    /\ machines' = [machines EXCEPT ![i] = Gone]
    /\ UNCHANGED <<busy, shots>>

Enter(i) ==
    /\ machines[i] # Gone
    /\ busy' = busy \cup {i}
    /\ UNCHANGED <<machines, shots>>

\* A run changes the state; a killed daemon ends several starts at once.
Work ==
    /\ busy' \subseteq busy
    /\ \E i \in busy, state \in States : machines' = [machines EXCEPT ![i] = state]
    /\ UNCHANGED shots

Capture(i, s) ==
    /\ machines[i] # Gone /\ i \notin busy /\ shots[s] = Gone
    /\ shots' = [shots EXCEPT ![s] = [inst |-> i, state |-> machines[i]]]
    /\ UNCHANGED <<machines, busy>>

AInit ==
    /\ machines = [i \in Instances |-> Gone] /\ busy = {}
    /\ shots = [s \in Snapshots |-> Gone]

ANext ==
    \/ Work
    \/ \E i \in Instances : \/ Appear(i) \/ Vanish(i) \/ Enter(i)
                            \/ \E s \in Snapshots : Capture(i, s)

ASpec == AInit /\ [][ANext]_avars

=============================================================================
