--------------------------- MODULE ProcTableProofs ---------------------------
(***************************************************************************)
(* What every reader of the process table may rely on, whatever the table  *)
(* does: the facts the proofs about kube-inspect's readers rest on.        *)
(***************************************************************************)
EXTENDS ProcTable, TLAPS

\* The table of NoTask and live entries it starts from is well typed.
LEMMA TableInitType == TableInit => TableTypeOK
  BY MaxIncAssumption DEF TableInit, TableTypeOK, Tasks, NoTask

(***************************************************************************)
(* What a step makes of the entry of one pid. It is said of an entry, so   *)
(* that it can be used of any table.                                       *)
(***************************************************************************)
Becomes(e, f) ==
    \/ /\ e.st = "free" /\ e.inc < MaxInc
       /\ \E c \in Cgroups, n \in Namespaces :
            f = [inc |-> e.inc + 1, st |-> "live", cg |-> c, ns |-> n]
    \/ e.st = "live" /\ f = [e EXCEPT !.st = "zombie"]
    \/ e.st = "zombie" /\ f = NoTask(e.inc)
    \/ e.st = "live" /\ \E c \in Cgroups : f = [e EXCEPT !.cg = c]
    \/ e.st = "live" /\ \E link \in NsLinks, n \in NsInodes : f = [e EXCEPT !.ns[link] = n]

\* An entry stays well typed. A holder comes after the last one, and does not come
\* back from the dead.
LEMMA EntryStep ==
  ASSUME NEW e \in Tasks, NEW f, Becomes(e, f)
  PROVE  /\ f \in Tasks
         /\ e.inc \in Nat /\ f.inc \in {e.inc, e.inc + 1}
         /\ f.inc = e.inc =>
              /\ f.st # "free" => e.st # "free"
              /\ f.st = "live" => e.st = "live"
<1>1. e.inc \in 0..MaxInc
  BY DEF Tasks
<1>2. ASSUME NEW c \in Cgroups, NEW n \in Namespaces, e.st = "free", e.inc < MaxInc,
             f = [inc |-> e.inc + 1, st |-> "live", cg |-> c, ns |-> n]
      PROVE  f \in Tasks /\ f.inc = e.inc + 1
  BY <1>1, <1>2, MaxIncAssumption DEF Tasks
<1>3. CASE e.st = "live" /\ f = [e EXCEPT !.st = "zombie"]
  <2>1. f \in Tasks /\ f.inc = e.inc /\ f.st = "zombie"
    BY <1>3 DEF Tasks
  <2> QED
    BY <1>1, <1>3, <2>1, MaxIncAssumption
<1>4. CASE e.st = "zombie" /\ f = NoTask(e.inc)
  <2>1. f \in Tasks /\ f.inc = e.inc /\ f.st = "free"
    BY <1>1, <1>4 DEF Tasks, NoTask
  <2> QED
    BY <1>1, <1>4, <2>1, MaxIncAssumption
<1>5. ASSUME NEW c \in Cgroups, e.st = "live", f = [e EXCEPT !.cg = c]
      PROVE  f \in Tasks /\ f.inc = e.inc /\ f.st = e.st
  <2>1. e \in [inc : 1..MaxInc, st : {"live", "zombie"}, cg : Cgroups, ns : Namespaces]
    BY <1>5 DEF Tasks
  <2> QED
    BY <1>5, <2>1 DEF Tasks
<1>7. ASSUME NEW link \in NsLinks, NEW n \in NsInodes, e.st = "live",
             f = [e EXCEPT !.ns[link] = n]
      PROVE  f \in Tasks /\ f.inc = e.inc /\ f.st = e.st
  <2>1. e \in [inc : 1..MaxInc, st : {"live", "zombie"}, cg : Cgroups, ns : Namespaces]
    BY <1>7 DEF Tasks
  <2>2. [e.ns EXCEPT ![link] = n] \in Namespaces
    BY <2>1 DEF Namespaces
  <2> QED
    BY <1>7, <2>1, <2>2 DEF Tasks
<1>6. e.inc \in Nat
  BY <1>1, MaxIncAssumption
<1> QED
  BY <1>2, <1>3, <1>4, <1>5, <1>6, <1>7 DEF Becomes

\* A step changes one entry.
LEMMA TableStepBecomes ==
  ASSUME TableTypeOK, TableStep
  PROVE  \E p \in Pids : /\ task' = [task EXCEPT ![p] = task'[p]]
                         /\ Becomes(task[p], task'[p])
<1>1. PICK p \in Pids :
          \/ \E c \in Cgroups, n \in Namespaces : Spawn(p, c, n)
          \/ Exit(p)
          \/ Reap(p)
          \/ \E c \in Cgroups : Migrate(p, c)
          \/ \E link \in NsLinks, n \in NsInodes : ChangeNs(p, link, n)
  BY DEF TableStep
<1>2. PICK f : task' = [task EXCEPT ![p] = f] /\ Becomes(task[p], f)
  BY <1>1 DEF Spawn, Exit, Reap, Migrate, ChangeNs, Becomes
<1>3. task'[p] = f
  BY <1>2 DEF TableTypeOK
<1> QED
  BY <1>2, <1>3

(***************************************************************************)
(* Each step changes one pid's entry, to a well-typed one, and the holder  *)
(* count of no pid ever goes down.                                         *)
(***************************************************************************)
LEMMA TableStepType ==
  ASSUME TableTypeOK, TableStep
  PROVE  /\ TableTypeOK'
         /\ \A p \in Pids : \/ task'[p] = task[p]
                            \/ /\ task'[p].inc = task[p].inc
                               /\ Present(task', p) => Present(task, p)
                            \/ task'[p].inc = task[p].inc + 1
<1>1. PICK p \in Pids : /\ task' = [task EXCEPT ![p] = task'[p]]
                        /\ Becomes(task[p], task'[p])
  BY TableStepBecomes
<1>2. task[p] \in Tasks
  BY DEF TableTypeOK
<1> QED
  BY <1>1, <1>2, EntryStep DEF TableTypeOK, Present

\* A member is a pair of a pid and the number of its present holder.
LEMMA MembersType ==
  ASSUME TableTypeOK
  PROVE  /\ Members(task) \subseteq Pids \X (0..MaxInc)
         /\ \A m \in Members(task) : InPod(task, m[1]) /\ m = <<m[1], task[m[1]].inc>>
         /\ \A p \in Pids : InPod(task, p) => <<p, task[p].inc>> \in Members(task)
  BY DEF Members, TableTypeOK, Tasks, InPod

(***************************************************************************)
(* A read gives the number of the present holder or 0; a holder's number   *)
(* is at least 1.                                                          *)
(***************************************************************************)
LEMMA ReadFromType ==
  ASSUME TableTypeOK, NEW p \in Pids
  PROVE  /\ task[p].inc \in 0..MaxInc
         /\ ReadFrom(p) \in 0..MaxInc
         /\ ReadFrom(p) = 0 \/ ReadFrom(p) = task[p].inc
         /\ Present(task, p) => ReadFrom(p) = task[p].inc /\ ReadFrom(p) > 0
  BY MaxIncAssumption DEF TableTypeOK, Tasks, ReadFrom, Present

(***************************************************************************)
(* Once a process is gone from its pid it never comes back to it: a read   *)
(* that gives the process i after a step gave it before that step too.     *)
(***************************************************************************)
LEMMA ReadFromStep ==
  ASSUME TableTypeOK, TableStep, NEW p \in Pids
  PROVE  /\ task[p].inc <= task'[p].inc
         /\ \A i \in 1..task[p].inc : ReadFrom(p)' = i => ReadFrom(p) = i
<1>1. /\ TableTypeOK'
      /\ \/ task'[p] = task[p]
         \/ /\ task'[p].inc = task[p].inc
            /\ Present(task', p) => Present(task, p)
         \/ task'[p].inc = task[p].inc + 1
  BY TableStepType
<1>2. task[p].inc \in 0..MaxInc /\ task'[p].inc \in 0..MaxInc
  BY <1>1 DEF TableTypeOK, Tasks
<1>3. QED
  BY <1>1, <1>2, MaxIncAssumption DEF ReadFrom, Present

(***************************************************************************)
(* A pid whose holder has not changed has not come back to life.           *)
(***************************************************************************)
LEMMA HolderStep ==
  ASSUME TableTypeOK, TableStep, NEW p \in Pids
  PROVE  /\ task[p].inc \in Nat /\ task'[p].inc \in Nat /\ task[p].inc <= task'[p].inc
         /\ task'[p].inc = task[p].inc =>
              /\ Present(task', p) => Present(task, p)
              /\ task'[p].st = "live" => task[p].st = "live"
<1>1. PICK q \in Pids : /\ task' = [task EXCEPT ![q] = task'[q]]
                        /\ Becomes(task[q], task'[q])
  BY TableStepBecomes
<1>2. task[p] \in Tasks /\ task[p].inc \in Nat
  BY MaxIncAssumption DEF TableTypeOK, Tasks
<1>3. CASE p = q
  <2>1. Becomes(task[p], task'[p])
    BY <1>1, <1>3
  <2> QED
    BY <1>2, <2>1, EntryStep DEF Present
<1>4. CASE p # q
  <2>1. task'[p] = task[p]
    BY <1>1, <1>4 DEF TableTypeOK
  <2> QED
    BY <1>2, <2>1 DEF Present
<1> QED
  BY <1>3, <1>4
=============================================================================
