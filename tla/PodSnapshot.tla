----------------------------- MODULE PodSnapshot -----------------------------
(***************************************************************************)
(* What listing a pod's processes promises, with no notion of /proc: a     *)
(* query over a set that changes while it is being answered. The answer    *)
(* holds every process that was in the pod from the call to the return,    *)
(* no process that was not in the pod at some time in between, and never   *)
(* two holders of one pid. A process is a pair <<pid, incarnation>>.       *)
(***************************************************************************)
CONSTANT Processes

VARIABLES
    members,   \* the processes in the pod now
    stable,    \* those that have been in it ever since the call
    ever,      \* those that have been in it at some time since the call
    answer     \* [done |-> FALSE, ...] until the call returns

vars == <<members, stable, ever, answer>>

Pending == [done |-> FALSE, ok |-> FALSE, procs |-> {}]
Failed == [done |-> TRUE, ok |-> FALSE, procs |-> {}]
Answer(R) == [done |-> TRUE, ok |-> TRUE, procs |-> R]

Init ==
    /\ members \subseteq Processes
    /\ stable = members
    /\ ever = members
    /\ answer = Pending

\* A set of processes the query may answer with.
Answerable(R) ==
    /\ stable \subseteq R
    /\ R \subseteq ever
    /\ \A x, y \in R : x[1] = y[1] => x = y

\* The pod changes under the query.
Churn ==
    /\ members' \subseteq Processes
    /\ stable' = stable \cap members'
    /\ ever' = ever \cup members'
    /\ UNCHANGED answer

Return ==
    /\ ~answer.done
    /\ \/ answer' = Failed
       \/ \E R \in SUBSET ever : Answerable(R) /\ answer' = Answer(R)
    /\ UNCHANGED <<members, stable, ever>>

Next == Churn \/ Return

Safe == Init /\ [][Next]_vars

Spec == Safe /\ WF_vars(Return)
=============================================================================
