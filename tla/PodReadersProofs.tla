--------------------------- MODULE PodReadersProofs ---------------------------
(***************************************************************************)
(* Proofs about the callers of ListPodProcesses, and in its second half    *)
(* about the exercises that survey /proc, for any number of pids, holders, *)
(* file descriptors and namespaces: what they report of a process that     *)
(* lives on is its own, and nothing it has kept is left out.               *)
(***************************************************************************)
EXTENDS MCPodReaders, ProcTableProofs, FiniteSetTheorems, WellFoundedInduction

-----------------------------------------------------------------------------
(***************************************************************************)
(* The rows of each caller.                                                *)
(***************************************************************************)
Holders == Pids \X Incs
NsRows == [proc : Holders, ns : Seq(NsInodes \cup {0})]
FileRows == [proc : Holders, from : Holders]
CpuRows == [proc : Holders, id : CpuLists \cup {""}]
StatRows == [proc : Holders, stat : Incs, comm : Incs]

RowsOf(o) ==
    IF o = "namespaces" THEN NsRows
    ELSE IF o \in {"mounts", "netns"} THEN FileRows
    ELSE IF o \in {"bpf", "fdinfo"} THEN Records
    ELSE IF o = "sched" THEN CpuRows
    ELSE StatRows

\* What a caller reads of one process: inodes, objects, incarnations.
PartsOf(o) ==
    IF o = "namespaces" THEN NsInodes \cup {0}
    ELSE IF o \in {"bpf", "fdinfo"} THEN Records
    ELSE Incs

TypeInv ==
    /\ TypeOK
    /\ op \in Ops /\ privileged \in BOOLEAN
    /\ out \in Seq(RowsOf(op)) /\ acc \in Seq(PartsOf(op))

\* Where each caller can be, and what it has read then.
Control ==
    /\ pc = "scan" => listed = <<>> /\ at = 1 /\ acc = <<>> /\ out = <<>> /\ left = {}
    /\ pc = "fdinfo" => op \in {"bpf", "fdinfo"} /\ at <= Len(listed)
    /\ pc = "comm" => op \in PerfOps /\ at <= Len(listed)
    /\ pc = "loop" => acc = <<>> \/ op = "namespaces"
    /\ pc = "ok" => at > Len(listed)

\* The history is about processes that hold their pid now or did before.
Past ==
    /\ \A m \in ever : m[2] <= task[m[1]].inc
    /\ \A k \in DOMAIN listed : listed[k][2] <= task[listed[k][1]].inc
    /\ kept \subseteq Facts(task, fdtab, cpus)
    /\ op \notin PerfOps \cup {"fdinfo"} /\ pc \notin {"scan", "error"} =>
        \A m \in stable : \E k \in DOMAIN listed : listed[k] = m

Common == TypeInv /\ Control /\ Past

-----------------------------------------------------------------------------
(***************************************************************************)
(* What each caller has so far.                                            *)
(***************************************************************************)
\* The inodes read of a process: none is missing if it is alive, and one it has had
\* all along is the one read.
OwnInodes(m, s) ==
    privileged => \A t \in DOMAIN s :
        /\ Alive(m) => s[t] # 0
        /\ \A n \in NsInodes : Keeps(m, <<NsTypes[t], n>>) => s[t] = n

NamespacesInv ==
    op = "namespaces" /\ pc \notin {"scan", "error"} =>
        /\ Len(out) = at - 1
        /\ \A i \in Rows :
            /\ out[i].proc = listed[i]
            /\ DOMAIN out[i].ns = DOMAIN NsTypes
            /\ OwnInodes(out[i].proc, out[i].ns)
        /\ at <= Len(listed) => Len(acc) <= Len(NsTypes) /\ OwnInodes(listed[at], acc)

FileInv ==
    /\ op \in {"mounts", "netns"} =>
        /\ at <= Len(listed) => at = 1 /\ out = <<>>
        /\ listed = <<>> => out = <<>>
    /\ FirstProcessOrItsSuccessor

\* What the processes looked at have kept is reported.
Reported(o) == \E i \in Rows : out[i].id = o

BPFInv ==
    op = "bpf" =>
        /\ NoDuplicates
        /\ privileged => \A k \in DOMAIN listed, f \in Fds, o \in Objects :
            Keeps(listed[k], <<f, o>>) =>
                /\ k < at => Reported(o)
                /\ k = at /\ pc = "fdinfo" =>
                    f \in left \/ Reported(o) \/ \E j \in DOMAIN acc : acc[j].id = o

FdInfoInv ==
    op = "fdinfo" =>
        /\ pc # "scan" => Len(listed) = 1
        /\ pc \in {"fdinfo", "error"} => at = 1
        /\ \A f \in Fds, o \in Objects :
            LET row == [proc |-> listed[1], fd |-> f, id |-> o]
            IN  pc # "scan" /\ Keeps(listed[1], <<f, o>>) =>
                    /\ at > 1 => \E i \in Rows : out[i] = row
                    /\ pc = "fdinfo" => f \in left \/ \E j \in DOMAIN acc : acc[j] = row
        /\ pc = "error" /\ privileged => ~Alive(listed[1])

SchedInv ==
    op = "sched" =>
        /\ NoDuplicates
        /\ \A k \in DOMAIN listed, c \in CpuLists :
            k < at /\ Keeps(listed[k], <<0, c>>) => Reported(c)
        /\ \A i \in Rows :
            /\ \E k \in DOMAIN listed : out[i].proc = listed[k]
            /\ out[i].id \notin CpuLists => ~Alive(out[i].proc)

PerfInv ==
    op \in PerfOps =>
        /\ \A k \in DOMAIN listed : k < at /\ Alive(listed[k]) =>
            \E i \in Rows :
                out[i] = [proc |-> listed[k], stat |-> listed[k][2], comm |-> listed[k][2]]
        /\ \A i \in Rows :
            /\ out[i].stat >= out[i].proc[2]
            /\ out[i].comm = 0 \/ out[i].comm >= out[i].stat
        /\ pc = "comm" =>
            /\ Len(acc) = 1
            /\ acc[1] \in listed[at][2]..task[Pid].inc
            /\ Alive(listed[at]) => acc[1] = listed[at][2]

ReadersInv ==
    /\ Common
    /\ NamespacesInv /\ FileInv /\ BPFInv /\ FdInfoInv /\ SchedInv /\ PerfInv

-----------------------------------------------------------------------------
(***************************************************************************)
(* What a step of the table leaves of a holder, and what the history says  *)
(* of a process that still holds its pid.                                  *)
(***************************************************************************)
\* A process seen so far is not revived.
LEMMA AliveStep ==
  ASSUME TableTypeOK, TableStep \/ UNCHANGED task,
         NEW m \in Holders, m[2] <= task[m[1]].inc
  PROVE  /\ m[2] <= task'[m[1]].inc
         /\ Alive(m)' => Alive(m)
<1>1. m[1] \in Pids /\ m[2] \in Nat
  BY MaxIncAssumption DEF Holders, Incs
<1>2. CASE TableStep
  <2>1. /\ task[m[1]].inc \in Nat /\ task'[m[1]].inc \in Nat
        /\ task[m[1]].inc <= task'[m[1]].inc
        /\ task'[m[1]].inc = task[m[1]].inc =>
             (task'[m[1]].st = "live" => task[m[1]].st = "live")
    BY <1>1, <1>2, HolderStep
  <2>2. m[2] <= task'[m[1]].inc
    BY <1>1, <2>1
  <2>3. ASSUME task'[m[1]].st = "live", task'[m[1]].inc = m[2]
        PROVE  task'[m[1]].inc = task[m[1]].inc
    BY <1>1, <2>1, <2>3
  <2> QED
    BY <2>1, <2>2, <2>3 DEF Alive
<1>3. CASE UNCHANGED task
  BY <1>3 DEF Alive
<1> QED
  BY <1>2, <1>3

\* What a process has kept it has now: at the fd, in its cpu list, or as a namespace.
LEMMA KeptIsHeld ==
  ASSUME kept \subseteq Facts(task, fdtab, cpus), NEW m, NEW x, NEW y, Keeps(m, <<x, y>>)
  PROVE  /\ op \in {"bpf", "fdinfo", "sched", "namespaces"}
         /\ m[1] \in Pids /\ task[m[1]].st = "live" /\ task[m[1]].inc = m[2]
         /\ op \in {"bpf", "fdinfo"} => x \in Fds /\ fdtab[m[1]][x] = y
         /\ op = "sched" => x = 0 /\ cpus[m[1]] = y
         /\ op = "namespaces" => x \in NsLinks /\ task[m[1]].ns[x] = y
<1>1. <<m[1], m[2], x, y>> \in Facts(task, fdtab, cpus)
  BY DEF Keeps
<1>2. CASE op \in {"bpf", "fdinfo"}
  <2>1. PICK p \in {q \in Pids : task[q].st = "live"}, f \in Fds :
          <<m[1], m[2], x, y>> = <<p, task[p].inc, f, fdtab[p][f]>>
    BY <1>1, <1>2 DEF Facts
  <2> QED
    BY <1>2, <2>1
<1>3. CASE op = "sched"
  <2>1. PICK p \in {q \in Pids : task[q].st = "live"} :
          <<m[1], m[2], x, y>> = <<p, task[p].inc, 0, cpus[p]>>
    BY <1>1, <1>3 DEF Facts
  <2> QED
    BY <1>3, <2>1
<1>4. CASE op = "namespaces"
  <2>1. PICK p \in {q \in Pids : task[q].st = "live"}, n \in NsLinks :
          <<m[1], m[2], x, y>> = <<p, task[p].inc, n, task[p].ns[n]>>
    BY <1>1, <1>4 DEF Facts
  <2> QED
    BY <1>4, <2>1
<1> QED
  BY <1>1, <1>2, <1>3, <1>4 DEF Facts

\* The listing enumerates what it lists.
LEMMA InOrderLists ==
  ASSUME NEW R, R \subseteq Holders, NEW s \in InOrder(R)
  PROVE  s \in Seq(Holders) /\ \A x \in R : \E k \in DOMAIN s : s[k] = x
<1>1. IsFiniteSet(Holders)
  <2>1. IsFiniteSet(Incs)
    BY MaxIncAssumption, FS_Interval DEF Incs
  <2> QED
    BY <2>1, FinitePidsAssumption, FS_Product DEF Holders
<1>2. Cardinality(R) \in Nat
  BY <1>1, FS_Subset, FS_CardinalityType
<1>3. s \in [1..Cardinality(R) -> R] /\ \A x \in R : \E k \in DOMAIN s : s[k] = x
  BY DEF InOrder
<1>4. s \in Seq(Holders)
  BY <1>2, <1>3
<1> QED
  BY <1>3, <1>4

(***************************************************************************)
(* AppendUnseen, as the dedup loops use it: nothing that is in the list is *)
(* lost or moved, the id is in it afterwards, and no id is in it twice.    *)
(***************************************************************************)
UniqueIds(s) == \A i, j \in DOMAIN s : s[i].id = s[j].id => i = j

GrownBy(s, new, x) ==
    /\ DOMAIN s \subseteq DOMAIN new
    /\ \A i \in DOMAIN s : new[i] = s[i]
    /\ \E i \in DOMAIN new : new[i].id = x.id
    /\ \A i \in DOMAIN new : i \in DOMAIN s \/ new[i] = x

\* So it does, for any list without duplicates.
LEMMA AppendUnseenFacts ==
  ASSUME NEW S, NEW s \in Seq(S), NEW x \in S, UniqueIds(s)
  PROVE  /\ AppendUnseen(s, x) \in Seq(S)
         /\ UniqueIds(AppendUnseen(s, x))
         /\ GrownBy(s, AppendUnseen(s, x), x)
<1>1. CASE \E i \in DOMAIN s : s[i].id = x.id
  BY <1>1 DEF AppendUnseen, GrownBy
<1>2. CASE ~\E i \in DOMAIN s : s[i].id = x.id
  <2> DEFINE new == Append(s, x)
  <2>1. AppendUnseen(s, x) = new
    BY <1>2 DEF AppendUnseen
  <2>2. /\ new \in Seq(S) /\ DOMAIN s = 1..Len(s) /\ Len(s) \in Nat
        /\ DOMAIN new = 1..Len(s) + 1
        /\ new[Len(s) + 1] = x
        /\ \A i \in DOMAIN s : new[i] = s[i]
    OBVIOUS
  <2> HIDE DEF new
  <2>3. \A i \in DOMAIN new : i \in DOMAIN s \/ i = Len(s) + 1
    BY <2>2
  <2>4. UniqueIds(new)
    BY <1>2, <2>2, <2>3 DEF UniqueIds
  <2>5. DOMAIN s \subseteq DOMAIN new /\ Len(s) + 1 \in DOMAIN new
    BY <2>2
  <2>6. GrownBy(s, new, x)
    BY <2>2, <2>3, <2>5 DEF GrownBy
  <2> QED
    BY <2>1, <2>2, <2>4, <2>6
<1> QED
  BY <1>1, <1>2

-----------------------------------------------------------------------------
(***************************************************************************)
(* The invariant holds at the start, and whatever the system does.         *)
(***************************************************************************)
\* Before the listing a caller has nothing, and the history is the present.
LEMMA ReadersInit == Init => ReadersInv
<1> SUFFICES ASSUME Init PROVE ReadersInv
  OBVIOUS
<1> USE DEF Init
<1>1. TableTypeOK
  BY TableInitType
<1>2. ever = Members(task) /\ stable = Members(task) /\ ever \subseteq Holders
  BY <1>1, MembersType DEF Holders, Incs
<1>3. TypeInv
  <2>1. listed = <<>> /\ acc = <<>> /\ out = <<>>
    OBVIOUS
  <2>2. Len(<<>>) = 0 /\ \A S : <<>> \in Seq(S)
    OBVIOUS
  <2>3. at \in 1..Len(listed) + 1
    BY <2>1, <2>2
  <2> QED
    BY <1>1, <1>2, <2>1, <2>2, <2>3 DEF TypeInv, TypeOK, Holders
<1>4. Control
  BY DEF Control
<1>5. ASSUME NEW m \in ever PROVE m[2] <= task[m[1]].inc
  <2>1. m[1] \in Pids /\ m[2] = task[m[1]].inc /\ m[2] \in Nat
    BY <1>1, <1>2, MembersType, MaxIncAssumption DEF Holders, Incs
  <2> QED
    BY <2>1
<1>6. Past
  BY <1>5 DEF Past
<1>7. Rows = {} /\ DOMAIN listed = {} /\ Len(listed) = 0
  BY DEF Rows
<1>8. FileInv /\ BPFInv /\ FdInfoInv /\ SchedInv /\ PerfInv /\ NamespacesInv
  BY <1>7 DEF FileInv, FirstProcessOrItsSuccessor, BPFInv, NoDuplicates, FdInfoInv,
              SchedInv, PerfInv, NamespacesInv
<1> QED
  BY <1>3, <1>4, <1>6, <1>8 DEF ReadersInv, Common

\* What a change of the tables leaves: the reader, and some of the history.
LEMMA ChurnFacts ==
  ASSUME Common, Churn
  PROVE  /\ TypeOK'
         /\ TableTypeOK /\ (TableStep \/ UNCHANGED task)
         /\ stable' \subseteq stable /\ kept' \subseteq kept
         /\ kept' \subseteq Facts(task', fdtab', cpus')
         /\ ever' = ever \cup Members(task')
         /\ UNCHANGED <<call, pc, listed, at, left, acc, out>>
<1> USE DEF Common, TypeInv, TypeOK
<1>1. /\ TableStep \/ UNCHANGED task
      /\ stable' = stable \cap Members(task')
      /\ ever' = ever \cup Members(task')
      /\ kept' = kept \cap Facts(task', fdtab', cpus')
      /\ UNCHANGED <<call, pc, listed, at, left, acc, out>>
  BY DEF Churn, TableChange, FdChange, AffinityChange
<1>2. TableTypeOK'
  BY <1>1, TableStepType DEF TableTypeOK
<1>3. fdtab' \in [Pids -> [Fds -> Objects \cup {0}]]
  <2>1. CASE TableChange
    BY <2>1 DEF TableChange, Closed
  <2>2. CASE FdChange
    BY <2>2 DEF FdChange
  <2>3. CASE AffinityChange
    BY <2>3 DEF AffinityChange
  <2> QED
    BY <2>1, <2>2, <2>3 DEF Churn
<1>4. cpus' \in [Pids -> CpuLists]
  BY DEF Churn, TableChange, FdChange, AffinityChange
<1>5. Members(task') \subseteq Pids \X Incs
  BY <1>2, MembersType DEF Incs, Members, TableTypeOK, Tasks, InPod
<1>6. stable' \subseteq ever' /\ ever' \subseteq Pids \X Incs
  BY <1>1, <1>5
<1>7. TypeOK'
  BY <1>1, <1>2, <1>3, <1>4, <1>6 DEF call
<1> QED
  BY <1>1, <1>7

\* A change of the tables leaves the past what it was.
LEMMA ChurnPast ==
  ASSUME Common, Churn
  PROVE  Common'
<1> USE ChurnFacts
<1>1. TypeInv' /\ Control'
  <2>1. /\ out \in Seq(RowsOf(op)) /\ acc \in Seq(PartsOf(op))
        /\ op \in Ops /\ privileged \in BOOLEAN /\ Control
    BY DEF Common, TypeInv
  <2>2. UNCHANGED <<call, pc, listed, at, left, acc, out>>
    OBVIOUS
  <2>3. Control'
    BY <2>1, <2>2 DEF Control, call
  <2> QED
    BY <2>1, <2>2, <2>3 DEF TypeInv, call, RowsOf, PartsOf, NsRows, FileRows, CpuRows, StatRows
<1>2. ever \subseteq Holders /\ listed \in Seq(Holders) /\ TableTypeOK'
  BY DEF Common, TypeInv, TypeOK, Holders
<1>3. ASSUME NEW m \in ever' PROVE m[2] <= task'[m[1]].inc
  <2>1. CASE m \in ever
    BY <1>2, <2>1, AliveStep DEF Common, Past
  <2>2. CASE m \in Members(task')
    <3>1. PICK p \in Pids : m = <<p, task'[p].inc>>
      BY <2>2 DEF Members
    <3>2. task'[p].inc \in Nat
      BY <1>2, <3>1, MaxIncAssumption DEF TableTypeOK, Tasks
    <3> QED
      BY <3>1, <3>2
  <2> QED
    BY <1>3, <2>1, <2>2
<1>4. ASSUME NEW k \in DOMAIN listed' PROVE listed'[k][2] <= task'[listed'[k][1]].inc
  <2>1. k \in DOMAIN listed /\ listed' = listed /\ listed[k] \in Holders
    BY <1>2
  <2>2. listed[k][2] <= task[listed[k][1]].inc
    BY <2>1 DEF Common, Past
  <2>3. listed[k][2] <= task'[listed[k][1]].inc
    BY <2>1, <2>2, AliveStep
  <2> QED
    BY <2>1, <2>3
<1>5. Past'
  <2>1. stable' \subseteq stable /\ UNCHANGED <<op, pc, listed>>
        /\ kept' \subseteq Facts(task', fdtab', cpus')
    BY DEF call
  <2>2. op \notin PerfOps \cup {"fdinfo"} /\ pc \notin {"scan", "error"} =>
          \A m \in stable : \E k \in DOMAIN listed : listed[k] = m
    BY DEF Common, Past
  <2>3. (op \notin PerfOps \cup {"fdinfo"} /\ pc \notin {"scan", "error"} =>
          \A m \in stable : \E k \in DOMAIN listed : listed[k] = m)'
    BY <2>1, <2>2 DEF PerfOps
  <2> QED
    BY <1>3, <1>4, <2>1, <2>3 DEF Past, Facts
<1> QED
  BY <1>1, <1>5 DEF Common

\* What is listed and reported is about holders of pids up to the present one.
LEMMA PastOfRows ==
  ASSUME Common
  PROVE  /\ \A k \in DOMAIN listed : listed[k] \in Holders
         /\ \A k \in DOMAIN listed : listed[k][2] <= task[listed[k][1]].inc
         /\ at \in 1..Len(listed) + 1 /\ DOMAIN listed = 1..Len(listed) /\ Len(listed) \in Nat
         /\ out \in Seq(RowsOf(op)) /\ Rows = 1..Len(out) /\ Len(out) \in Nat
  BY DEF Common, TypeInv, TypeOK, Past, Holders, Rows

\* A list that is not empty has a first process.
LEMMA ListedIsSeq ==
  ASSUME Common, listed # <<>>
  PROVE  1 \in DOMAIN listed
<1>1. listed \in Seq(Holders)
  BY DEF Common, TypeInv, TypeOK, Holders
<1> QED
  BY <1>1

\* What a caller has found stays true while the tables change.
LEMMA ChurnReports ==
  ASSUME ReadersInv, Churn
  PROVE  NamespacesInv' /\ FileInv' /\ BPFInv' /\ FdInfoInv' /\ SchedInv' /\ PerfInv'
<1>1. /\ UNCHANGED <<pc, listed, at, left, acc, out>> /\ UNCHANGED <<privileged, op>>
      /\ Rows' = Rows
      /\ \A m, x : Keeps(m, x)' => Keeps(m, x)
      /\ TableTypeOK /\ (TableStep \/ UNCHANGED task)
  BY ChurnFacts DEF ReadersInv, call, Rows, Keeps
<1>2. /\ \A k \in DOMAIN listed : listed[k] \in Holders
      /\ \A k \in DOMAIN listed : listed[k][2] <= task[listed[k][1]].inc
      /\ at \in 1..Len(listed) + 1 /\ DOMAIN listed = 1..Len(listed) /\ Len(listed) \in Nat
      /\ out \in Seq(RowsOf(op)) /\ Rows = 1..Len(out) /\ Len(out) \in Nat
  BY PastOfRows DEF ReadersInv
<1>3. ASSUME NEW k \in DOMAIN listed
      PROVE  /\ Alive(listed[k])' => Alive(listed[k])
             /\ task[listed[k][1]].inc \in Nat /\ task'[listed[k][1]].inc \in Nat
             /\ task[listed[k][1]].inc <= task'[listed[k][1]].inc
  <2>1. listed'[k] = listed[k] /\ listed[k][1] \in Pids
    BY <1>1, <1>2 DEF Holders
  <2>2. /\ task[listed[k][1]].inc \in Nat /\ task'[listed[k][1]].inc \in Nat
        /\ task[listed[k][1]].inc <= task'[listed[k][1]].inc
    <3>1. CASE TableStep
      BY <1>1, <2>1, <3>1, HolderStep
    <3>2. CASE UNCHANGED task
      BY <1>1, <2>1, <3>2, ReadFromType, MaxIncAssumption
    <3> QED
      BY <1>1, <3>1, <3>2
  <2>3. ASSUME NEW m \in Holders, m = listed[k]
        PROVE  Alive(m)' => Alive(m)
    BY <1>1, <1>2, <2>3, AliveStep
  <2> QED
    BY <1>2, <2>1, <2>2, <2>3 DEF Alive
<1>4. NamespacesInv'
  <2> SUFFICES ASSUME op = "namespaces", pc \notin {"scan", "error"}
               PROVE  NamespacesInv'
    BY <1>1 DEF NamespacesInv
  <2>1. NamespacesInv
    BY DEF ReadersInv
  <2>2. ASSUME NEW i \in Rows
        PROVE  /\ out[i].proc = listed[i] /\ DOMAIN out[i].ns = DOMAIN NsTypes
               /\ OwnInodes(out[i].proc, out[i].ns)'
    <3>1. /\ out[i].proc = listed[i] /\ DOMAIN out[i].ns = DOMAIN NsTypes
          /\ OwnInodes(listed[i], out[i].ns) /\ Len(out) = at - 1
      BY <2>1 DEF NamespacesInv
    <3>2. i \in DOMAIN listed
      BY <1>2, <3>1
    <3> QED
      BY <1>1, <1>3, <3>1, <3>2 DEF OwnInodes, Alive
  <2>3. at <= Len(listed) => OwnInodes(listed[at], acc)'
    <3>1. at <= Len(listed) => at \in DOMAIN listed
      BY <1>2
    <3> QED
      BY <1>1, <1>3, <2>1, <3>1 DEF NamespacesInv, OwnInodes, Alive
  <2> QED
    BY <1>1, <2>1, <2>2, <2>3 DEF NamespacesInv
<1>5. FileInv'
  <2>1. FileInv
    BY DEF ReadersInv
  <2>2. ASSUME NEW i \in Rows, op \in {"mounts", "netns"}
        PROVE  1 \in DOMAIN listed
    <3>1. out # <<>>
      BY <1>2, <2>2
    <3>2. listed # <<>>
      BY <2>1, <2>2, <3>1 DEF FileInv
    <3> QED
      BY <3>2, ListedIsSeq DEF ReadersInv
  <2> QED
    BY <1>1, <1>3, <2>1, <2>2 DEF FileInv, FirstProcessOrItsSuccessor
<1>6. BPFInv' /\ SchedInv'
  <2>1. BPFInv'
    BY <1>1 DEF ReadersInv, BPFInv, NoDuplicates, Reported
  <2>2. ASSUME op = "sched", NEW i \in Rows, out[i].id \notin CpuLists
        PROVE  ~Alive(out[i].proc)'
    <3>1. PICK k \in DOMAIN listed : out[i].proc = listed[k]
      BY <2>2 DEF ReadersInv, SchedInv
    <3>2. ~Alive(listed[k])
      BY <2>2, <3>1 DEF ReadersInv, SchedInv
    <3> QED
      BY <1>1, <1>3, <3>1, <3>2 DEF Alive
  <2>3. SchedInv'
    BY <1>1, <2>2 DEF ReadersInv, SchedInv, NoDuplicates, Reported
  <2> QED
    BY <2>1, <2>3
<1>7. FdInfoInv'
  <2>1. FdInfoInv
    BY DEF ReadersInv
  <2>2. ASSUME op = "fdinfo", pc # "scan"
        PROVE  1 \in DOMAIN listed
    BY <1>2, <2>1, <2>2 DEF FdInfoInv
  <2> QED
    BY <1>1, <1>3, <2>1, <2>2 DEF FdInfoInv
<1>8. PerfInv'
  <2>1. PerfInv
    BY DEF ReadersInv
  <2>2. ASSUME op \in PerfOps, pc = "comm"
        PROVE  /\ acc[1] \in listed[at][2]..task'[Pid].inc
               /\ Alive(listed[at])' => acc[1] = listed[at][2]
    <3>1. at \in DOMAIN listed
      BY <1>2, <2>2 DEF ReadersInv, Common, Control
    <3>2. acc[1] \in listed[at][2]..task[Pid].inc
          /\ (Alive(listed[at]) => acc[1] = listed[at][2])
      BY <2>1, <2>2 DEF PerfInv
    <3>3. listed[at][2] \in Int
      BY <1>2, <3>1, MaxIncAssumption DEF Holders, Incs
    <3> QED
      <4>1. task[Pid].inc \in Nat /\ task'[Pid].inc \in Nat /\ task[Pid].inc <= task'[Pid].inc
        BY <1>3, <3>1 DEF Pid
      <4>2. Alive(listed[at])' => Alive(listed[at])
        BY <1>1, <1>3, <3>1 DEF Alive
      <4>3. acc[1] \in listed[at][2]..task'[Pid].inc
        BY <3>2, <3>3, <4>1
      <4> QED
        BY <3>2, <4>2, <4>3
  <2>3. Pid' = Pid
    BY <1>1 DEF Pid
  <2> QED
    BY <1>1, <1>3, <2>1, <2>2, <2>3 DEF PerfInv, PerfOps
<1> QED
  BY <1>4, <1>5, <1>6, <1>7, <1>8

-----------------------------------------------------------------------------
(***************************************************************************)
(* The steps of the callers. The tables stand still in each of them.       *)
(***************************************************************************)
Still == UNCHANGED <<tables, history, call>>

\* What a step of a caller need not touch.
LEMMA StillFacts ==
  ASSUME Common, Still
  PROVE  /\ op' = op /\ privileged' = privileged /\ task' = task
         /\ stable' = stable /\ kept' = kept
         /\ \A m : Alive(m)' <=> Alive(m)
         /\ \A m, x : Keeps(m, x)' <=> Keeps(m, x)
         /\ RowsOf(op)' = RowsOf(op) /\ PartsOf(op)' = PartsOf(op)
         /\ PerfOps' = PerfOps
  BY DEF Still, tables, history, call, Alive, Keeps, RowsOf, PartsOf, PerfOps

\* It is typed as long as what it writes is.
LEMMA TypeKept ==
  ASSUME Common, Still,
         listed' \in Seq(Holders), at' \in 1..Len(listed') + 1, left' \subseteq Fds,
         pc' \in {"scan", "loop", "fdinfo", "comm", "ok", "error"},
         out' \in Seq(RowsOf(op)), acc' \in Seq(PartsOf(op))
  PROVE  TypeInv'
<1>1. TypeInv
  BY DEF Common
<1>2. /\ task' = task /\ fdtab' = fdtab /\ cpus' = cpus /\ stable' = stable /\ ever' = ever
      /\ op' = op /\ privileged' = privileged
      /\ RowsOf(op)' = RowsOf(op) /\ PartsOf(op)' = PartsOf(op)
  BY StillFacts DEF Still, tables, history, call
<1>3. TableTypeOK' <=> TableTypeOK
  BY <1>2 DEF TableTypeOK
<1>4. op \in {"bpf", "fdinfo"} => RowsOf(op) = Records /\ PartsOf(op) = Records
  BY DEF RowsOf, PartsOf
<1>5. op = "namespaces" => PartsOf(op) = NsInodes \cup {0}
  BY DEF PartsOf
<1>6. TypeOK'
  BY <1>1, <1>2, <1>3, <1>4, <1>5 DEF TypeInv, TypeOK, Holders, Records
<1> QED
  BY <1>1, <1>2, <1>6 DEF TypeInv

\* After the listing, the past is what it was.
LEMMA PastKept ==
  ASSUME Common, Still, listed' = listed, pc \notin {"scan", "error"}
  PROVE  Past'
  BY StillFacts DEF Common, Past, Still, tables, history, call, Facts, PerfOps

\* A caller's invariant says nothing about the others.
LEMMA OtherCallers ==
  ASSUME Common, Still
  PROVE  /\ op # "namespaces" => NamespacesInv'
         /\ op \notin {"mounts", "netns"} => FileInv'
         /\ op # "bpf" => BPFInv'
         /\ op # "fdinfo" => FdInfoInv'
         /\ op # "sched" => SchedInv'
         /\ op \notin PerfOps => PerfInv'
  BY StillFacts DEF NamespacesInv, FileInv, FirstProcessOrItsSuccessor, BPFInv, FdInfoInv,
                    SchedInv, PerfInv

\* A listing starts the loop with nothing read and nothing to report.
LEMMA Started ==
  ASSUME ReadersInv, Still, pc = "scan", listed' \in Seq(Holders), pc' \in {"loop", "error"},
         UNCHANGED <<at, left, acc, out>>, op = "fdinfo" => Len(listed') = 1 /\ pc' = "loop",
         \A k \in DOMAIN listed' : listed'[k][2] <= task[listed'[k][1]].inc,
         /\ op \notin PerfOps \cup {"fdinfo"} /\ pc' = "loop" =>
              \A m \in stable : \E k \in DOMAIN listed' : listed'[k] = m
  PROVE  ReadersInv'
<1> USE DEF ReadersInv
<1>1. /\ at' = 1 /\ acc' = <<>> /\ out' = <<>> /\ left' = {} /\ Rows' = {}
      /\ DOMAIN acc' = {} /\ Len(acc') = 0 /\ Len(out') = 0
      /\ DOMAIN listed' = 1..Len(listed') /\ Len(listed') \in Nat
  BY DEF Common, Control, Rows
<1>2. TypeInv'
  <2>1. at' \in 1..Len(listed') + 1
    BY <1>1
  <2>2. out' \in Seq(RowsOf(op)) /\ acc' \in Seq(PartsOf(op))
    BY <1>1
  <2> QED
    BY <1>1, <2>1, <2>2, TypeKept
<1>3. Control'
  BY <1>1 DEF Control
<1>4. Past'
  BY StillFacts DEF Common, Past, Still, tables, history, call, Facts, PerfOps
<1>5. NamespacesInv'
  <2>1. Len(NsTypes) \in Nat
    BY NsTypesAssumption
  <2> QED
    BY <1>1, <2>1 DEF NamespacesInv, OwnInodes
<1>6. FileInv'
  BY <1>1 DEF FileInv, FirstProcessOrItsSuccessor
<1>7. BPFInv'
  <2>1. \A k \in DOMAIN listed' : ~(k < at')
    BY <1>1
  <2> QED
    BY <1>1, <2>1 DEF BPFInv, NoDuplicates
<1>8. FdInfoInv'
  BY <1>1, StillFacts DEF FdInfoInv
<1>9. SchedInv' /\ PerfInv'
  <2>1. \A k \in DOMAIN listed' : ~(k < at')
    BY <1>1
  <2> QED
    BY <1>1, <2>1 DEF SchedInv, NoDuplicates, PerfInv
<1> QED
  BY <1>2, <1>3, <1>4, <1>5, <1>6, <1>7, <1>8, <1>9 DEF Common

\* ListPodProcesses gives every process that was in the pod all along, or an error.
LEMMA ListProcessesStep ==
  ASSUME ReadersInv, Still, ListProcesses
  PROVE  ReadersInv'
<1>1. /\ op \notin PerfOps \cup {"fdinfo"} /\ pc = "scan"
      /\ UNCHANGED <<at, left, acc, out>>
      /\ op # "fdinfo"
  BY DEF ListProcesses, Finish
<1>2. CASE Finish("error")
  <2>1. listed' = listed /\ pc' = "error"
    BY <1>2 DEF Finish
  <2>2. listed \in Seq(Holders) /\ \A k \in DOMAIN listed : listed[k][2] <= task[listed[k][1]].inc
    BY PastOfRows DEF ReadersInv, Common, TypeInv, TypeOK, Holders
  <2> QED
    BY <1>1, <2>1, <2>2, Started
<1>3. CASE ~Finish("error")
  <2>1. PICK R \in SUBSET ever :
          /\ Snapshot!Answerable(R)
          /\ listed' \in InOrder(R)
          /\ pc' = IF R = {} /\ op \in {"mounts", "netns", "bpf"} THEN "error" ELSE "loop"
    BY <1>3 DEF ListProcesses
  <2>2. R \subseteq Holders /\ stable \subseteq R
    BY <2>1 DEF Snapshot!Answerable, ReadersInv, Common, TypeInv, TypeOK, Holders
  <2>3. listed' \in Seq(Holders) /\ \A x \in R : \E k \in DOMAIN listed' : listed'[k] = x
    BY <2>1, <2>2, InOrderLists
  <2>4. \A k \in DOMAIN listed' : listed'[k] \in R
    BY <2>1 DEF InOrder
  <2>5. \A k \in DOMAIN listed' : listed'[k][2] <= task[listed'[k][1]].inc
    BY <2>4 DEF ReadersInv, Common, Past
  <2>6. pc' \in {"loop", "error"}
    BY <2>1
  <2> QED
    BY <1>1, <2>2, <2>3, <2>5, <2>6, Started
<1> QED
  BY <1>2, <1>3

\* podPIDs and listPodPIDs give what they found before the listing broke off.
LEMMA BrokenListingStep ==
  ASSUME ReadersInv, Still, NEW o \in PerfOps, BrokenListing(o)
  PROVE  ReadersInv'
<1>1. op \in PerfOps /\ op # "fdinfo" /\ pc = "scan" /\ pc' = "loop"
      /\ UNCHANGED <<at, left, acc, out>>
  BY DEF BrokenListing, PerfOps
<1>2. PICK R \in SUBSET ever : listed' \in InOrder(R)
  BY DEF BrokenListing
<1>3. R \subseteq Holders
  BY DEF ReadersInv, Common, TypeInv, TypeOK, Holders
<1>4. listed' \in Seq(Holders)
  BY <1>2, <1>3, InOrderLists
<1>5. \A k \in DOMAIN listed' : listed'[k][2] <= task[listed'[k][1]].inc
  BY <1>2 DEF InOrder, ReadersInv, Common, Past
<1> QED
  BY <1>1, <1>4, <1>5, Started

\* bpf-fdinfo-reader takes the pid from the command line.
LEMMA GivenPidStep ==
  ASSUME ReadersInv, Still, GivenPid
  PROVE  ReadersInv'
<1>1. op = "fdinfo" /\ pc = "scan" /\ pc' = "loop" /\ UNCHANGED <<at, left, acc, out>>
  BY DEF GivenPid
<1>2. PICK p \in Pids : listed' = <<<<p, ReadFrom(p)>>>>
  BY DEF GivenPid
<1>3. /\ task[p].inc \in 0..MaxInc /\ ReadFrom(p) \in 0..MaxInc
      /\ ReadFrom(p) = 0 \/ ReadFrom(p) = task[p].inc
  BY ReadFromType DEF ReadersInv, Common, TypeInv, TypeOK
<1>4. <<p, ReadFrom(p)>> \in Holders /\ ReadFrom(p) <= task[p].inc
  BY <1>3, MaxIncAssumption DEF Holders, Incs
<1>5. listed' \in Seq(Holders) /\ Len(listed') = 1 /\ DOMAIN listed' = {1}
      /\ listed'[1] = <<p, ReadFrom(p)>>
  BY <1>2, <1>4
<1>6. \A k \in DOMAIN listed' : listed'[k][2] <= task[listed'[k][1]].inc
  BY <1>4, <1>5
<1> QED
  BY <1>1, <1>5, <1>6, Started DEF PerfOps

\* The loop is over when every listed process has been looked at.
LEMMA LoopEndStep ==
  ASSUME ReadersInv, Still, LoopEnd
  PROVE  ReadersInv'
<1>1. /\ pc = "loop" /\ pc' = "ok" /\ at > Len(listed)
      /\ UNCHANGED <<listed, at, left, acc, out>> /\ Rows' = Rows
  BY DEF LoopEnd, Finish, Rows
<1>2. TypeInv' /\ Past'
  BY <1>1, TypeKept, PastKept DEF ReadersInv, Common, TypeInv, TypeOK, Holders
<1>3. Control'
  BY <1>1, StillFacts DEF ReadersInv, Common, Control
<1>4. NamespacesInv' /\ FileInv' /\ BPFInv'
  BY <1>1, StillFacts DEF ReadersInv, NamespacesInv, OwnInodes, FileInv, Still, tables,
     FirstProcessOrItsSuccessor, BPFInv, NoDuplicates, Reported
<1>5. FdInfoInv' /\ SchedInv' /\ PerfInv'
  BY <1>1, StillFacts DEF ReadersInv, FdInfoInv, SchedInv, NoDuplicates, Reported, PerfInv
<1> QED
  BY <1>2, <1>3, <1>4, <1>5 DEF ReadersInv, Common

\* Following a namespace link gives the inode of the pid's live holder, or 0.
LEMMA NsInodeRead ==
  ASSUME TableTypeOK, NEW p \in Pids, NEW t \in NsLinks
  PROVE  /\ ReadNsInode(p, t) \in NsInodes \cup {0}
         /\ privileged /\ task[p].st = "live" =>
              ReadNsInode(p, t) = task[p].ns[t] /\ ReadNsInode(p, t) # 0
<1>1. task[p] \in Tasks
  BY DEF TableTypeOK
<1>2. task[p].st \in {"live", "zombie"} => task[p].ns \in Namespaces
  BY <1>1 DEF Tasks
<1>3. task[p].st \in {"live", "zombie"} => task[p].ns[t] \in NsInodes
  BY <1>2 DEF Namespaces
<1>4. 0 \notin NsInodes
  BY InodesAssumption
<1> QED
  BY <1>3, <1>4 DEF ReadNsInode, HasNs

\* --namespaces: a link of the process at hand is read, or its row is complete.
LEMMA NamespaceRowStep ==
  ASSUME ReadersInv, Still, NamespaceRow
  PROVE  ReadersInv'
<1>1. /\ op = "namespaces" /\ pc = "loop" /\ at <= Len(listed) /\ listed' = listed
      /\ pc' = "loop" /\ left' \subseteq Fds
  BY DEF NamespaceRow, Advance, ReadersInv, Common, TypeInv, TypeOK
<1>2. /\ at \in DOMAIN listed /\ at \in 1..Len(listed) + 1 /\ Len(listed) \in Nat
      /\ listed[at] \in Holders /\ Pid \in Pids /\ TableTypeOK /\ listed \in Seq(Holders)
  BY <1>1, PastOfRows DEF ReadersInv, Common, TypeInv, TypeOK, Holders, Pid
<1>3. /\ out \in Seq(NsRows) /\ acc \in Seq(NsInodes \cup {0})
      /\ RowsOf(op) = NsRows /\ PartsOf(op) = NsInodes \cup {0}
  BY <1>1 DEF ReadersInv, Common, TypeInv, RowsOf, PartsOf
<1>4. /\ Len(out) = at - 1
      /\ \A i \in 1..Len(out) : /\ out[i].proc = listed[i]
                                /\ DOMAIN out[i].ns = DOMAIN NsTypes
                                /\ OwnInodes(listed[i], out[i].ns)
      /\ Len(acc) <= Len(NsTypes) /\ OwnInodes(listed[at], acc)
  BY <1>1, <1>3 DEF ReadersInv, NamespacesInv, Rows
<1>5. Past' /\ (\A m, s : OwnInodes(m, s)' <=> OwnInodes(m, s))
  BY <1>1, PastKept, StillFacts DEF ReadersInv, OwnInodes
<1>6. SUFFICES TypeInv' /\ Control' /\ NamespacesInv'
  BY <1>1, <1>5, OtherCallers DEF ReadersInv, Common, PerfOps
<1>7. CASE Len(acc) < Len(NsTypes)
  <2> DEFINE link == NsTypes[Len(acc) + 1]
             inode == ReadNsInode(Pid, link)
  <2>1. acc' = Append(acc, inode) /\ UNCHANGED <<pc, at, left, out>>
    BY <1>7 DEF NamespaceRow
  <2>2. /\ inode \in NsInodes \cup {0}
        /\ privileged /\ Alive(listed[at]) => inode # 0
        /\ \A n \in NsInodes : privileged /\ Keeps(listed[at], <<link, n>>) => inode = n
    <3>1. link \in NsLinks
      BY <1>3, <1>7, NsTypesAssumption
    <3>2. \A n : Keeps(listed[at], <<link, n>>) =>
            task[Pid].st = "live" /\ task[Pid].ns[link] = n
      BY <1>1, KeptIsHeld DEF ReadersInv, Common, Past, Pid
    <3> QED
      BY <1>2, <3>1, <3>2, NsInodeRead DEF Alive, Pid
  <2> HIDE DEF inode
  <2>3. acc' \in Seq(NsInodes \cup {0})
    BY <1>3, <2>1, <2>2
  <2>4. TypeInv'
    BY <1>1, <1>2, <1>3, <2>1, <2>3, TypeKept DEF ReadersInv
  <2>5. Control'
    BY <1>1, <2>1, StillFacts DEF ReadersInv, Control
  <2>6. OwnInodes(listed[at], acc')
    <3>1. \A t \in DOMAIN acc' : \/ t \in DOMAIN acc /\ acc'[t] = acc[t]
                                 \/ NsTypes[t] = link /\ acc'[t] = inode
      BY <1>3, <2>1, <2>2
    <3> QED
      BY <1>4, <2>2, <3>1 DEF OwnInodes
  <2>7. Len(acc') <= Len(NsTypes)
    BY <1>3, <1>7, <2>1, <2>2, NsTypesAssumption
  <2>8. Rows' = 1..Len(out)
    BY <1>3, <2>1 DEF Rows
  <2>9. OwnInodes(listed[at], acc)' /\ \A i \in 1..Len(out) : OwnInodes(out[i].proc, out[i].ns)'
    BY <1>1, <1>4, <2>1, <2>6, StillFacts DEF OwnInodes, Alive, Still, tables, call, ReadersInv
  <2> QED
    BY <1>1, <1>4, <2>1, <2>4, <2>5, <2>7, <2>8, <2>9, StillFacts DEF NamespacesInv, ReadersInv
<1>8. CASE ~(Len(acc) < Len(NsTypes))
  <2> DEFINE row == [proc |-> listed[at], ns |-> acc]
  <2>1. out' = Append(out, row) /\ at' = at + 1 /\ acc' = <<>> /\ left' = {}
    BY <1>8 DEF NamespaceRow, Advance
  <2>2. row \in NsRows /\ row.proc = listed[at] /\ row.ns = acc
    BY <1>2, <1>3 DEF NsRows
  <2>3. DOMAIN acc = DOMAIN NsTypes
    BY <1>3, <1>4, <1>8, NsTypesAssumption
  <2> HIDE DEF row
  <2>4. /\ out' \in Seq(NsRows) /\ Len(out') = Len(out) + 1 /\ Rows' = 1..Len(out) + 1
        /\ out'[at] = row /\ \A i \in 1..Len(out) : out'[i] = out[i]
    BY <1>2, <1>3, <1>4, <2>1, <2>2 DEF Rows
  <2>5. TypeInv'
    BY <1>1, <1>2, <1>3, <2>1, <2>4, TypeKept DEF ReadersInv
  <2>6. Control'
    BY <1>1, <2>1, StillFacts DEF ReadersInv, Control
  <2>7. \A i \in 1..Len(out) + 1 : i \in 1..Len(out) \/ i = at
    BY <1>2, <1>4
  <2>8. \A i \in Rows' : /\ out'[i].proc = listed[i] /\ DOMAIN out'[i].ns = DOMAIN NsTypes
                         /\ OwnInodes(listed[i], out'[i].ns)
    BY <1>4, <2>2, <2>3, <2>4, <2>7
  <2>9. \A i \in Rows' : OwnInodes(out[i].proc, out[i].ns)'
    BY <2>8, StillFacts DEF OwnInodes, Alive, Still, tables, call, ReadersInv
  <2>10. Len(acc') = 0 /\ OwnInodes(listed[at], acc)'
    BY <2>1 DEF OwnInodes
  <2>11. Len(out') = at' - 1 /\ Len(acc') <= Len(NsTypes)
    BY <1>2, <1>4, <2>1, <2>4, <2>10, NsTypesAssumption
  <2> QED
    BY <1>1, <2>5, <2>6, <2>8, <2>9, <2>10, <2>11 DEF NamespacesInv
<1> QED
  BY <1>7, <1>8

\* --mounts and --netns: the file read is of the first process or of its successor.
LEMMA ReadFirstStep ==
  ASSUME ReadersInv, Still, NEW o \in {"mounts", "netns"}, ReadFirst(o)
  PROVE  ReadersInv'
<1>1. /\ op \in {"mounts", "netns"} /\ op = o /\ pc = "loop" /\ at <= Len(listed)
      /\ listed' = listed /\ UNCHANGED <<left, acc>>
  BY DEF ReadFirst, Finish
<1>2. /\ at \in DOMAIN listed /\ Len(listed) \in Nat /\ at \in 1..Len(listed) + 1
      /\ listed \in Seq(Holders)
  BY <1>1, PastOfRows DEF ReadersInv, Common, TypeInv, TypeOK, Holders
<1>3. at = 1 /\ out = <<>>
  BY <1>1 DEF ReadersInv, FileInv
<1>4. /\ listed[1] \in Holders /\ listed[1][2] <= task[listed[1][1]].inc
      /\ Pid = listed[1][1] /\ Pid \in Pids /\ task[Pid].inc \in Incs
  BY <1>2, <1>3, PastOfRows, ReadFromType
     DEF ReadersInv, Common, TypeInv, TypeOK, Holders, Pid, Incs
<1>5. RowsOf(op) = FileRows /\ acc \in Seq(PartsOf(op)) /\ left \subseteq Fds
  BY <1>1 DEF RowsOf, ReadersInv, Common, TypeInv, TypeOK
<1>6. Past'
  BY <1>1, PastKept DEF ReadersInv
<1>7. SUFFICES TypeInv' /\ Control' /\ FileInv'
  BY <1>1, <1>6, OtherCallers DEF ReadersInv, Common, PerfOps
<1>8. CASE task[Pid].st = "live"
  <2> DEFINE row == [proc |-> listed[1], from |-> <<Pid, task[Pid].inc>>]
  <2>1. out' = <<row>> /\ at' = Len(listed) + 1 /\ UNCHANGED pc
    BY <1>1, <1>8 DEF ReadFirst
  <2>2. row \in FileRows /\ row.from[1] = Pid /\ row.from[2] = task[Pid].inc
    BY <1>4 DEF FileRows, Holders
  <2>3. Alive(listed[1]) => row.from = listed[1]
    BY <1>4 DEF Alive, Holders
  <2> HIDE DEF row
  <2>4. out' \in Seq(FileRows) /\ Rows' = {1} /\ out'[1] = row /\ out' # <<>>
    BY <2>1, <2>2 DEF Rows
  <2>5. TypeInv'
    BY <1>1, <1>2, <1>5, <2>1, <2>4, TypeKept DEF ReadersInv
  <2>6. Control'
    BY <1>1, <2>1, StillFacts DEF ReadersInv, Common, Control
  <2>7. FirstProcessOrItsSuccessor'
    BY <1>1, <1>4, <2>2, <2>3, <2>4, StillFacts DEF FirstProcessOrItsSuccessor, ReadersInv
  <2>8. listed' # <<>> /\ at' > Len(listed')
    BY <1>1, <1>2, <2>1
  <2> QED
    BY <2>1, <2>5, <2>6, <2>7, <2>8, <1>2 DEF FileInv
<1>9. CASE task[Pid].st # "live"
  <2>1. pc' = "error" /\ UNCHANGED <<at, out>> /\ Rows' = {}
    BY <1>1, <1>3, <1>9 DEF ReadFirst, Finish, Rows
  <2>2. TypeInv'
    BY <1>1, <1>2, <1>5, <2>1, TypeKept DEF ReadersInv, Common, TypeInv
  <2>3. Control'
    BY <2>1 DEF Control
  <2>4. FileInv'
    BY <1>3, <2>1 DEF FileInv, FirstProcessOrItsSuccessor
  <2> QED
    BY <2>2, <2>3, <2>4
<1> QED
  BY <1>8, <1>9

\* --ebpf: an fd the process has kept open is among those that are listed.
LEMMA ListFdsStep ==
  ASSUME ReadersInv, Still, ListFds
  PROVE  ReadersInv'
<1>1. /\ op = "bpf" /\ pc = "loop" /\ pc' = "fdinfo" /\ at <= Len(listed)
      /\ UNCHANGED <<listed, at, acc, out>> /\ Rows' = Rows
      /\ left' = IF privileged THEN {f \in Fds : fdtab[Pid][f] # 0} ELSE {}
  BY DEF ListFds, Rows
<1>2. TypeInv' /\ Past'
  BY <1>1, TypeKept, PastKept DEF ReadersInv, Common, TypeInv, TypeOK, Holders
<1>3. Control'
  BY <1>1, StillFacts DEF ReadersInv, Common, Control
<1>4. NoDuplicates'
  BY <1>1 DEF ReadersInv, BPFInv, NoDuplicates
<1>5. ASSUME privileged, NEW k \in DOMAIN listed, NEW f \in Fds, NEW o \in Objects,
             Keeps(listed[k], <<f, o>>)
      PROVE  (k < at => Reported(o)') /\ (k = at => f \in left')
  <2>1. k < at => Reported(o)
    BY <1>1, <1>5 DEF ReadersInv, BPFInv
  <2>2. k = at => fdtab[Pid][f] = o
    BY <1>1, <1>5, KeptIsHeld DEF ReadersInv, Common, Past, Pid
  <2>3. o # 0
    BY ObjectsAssumption
  <2> QED
    BY <1>1, <1>5, <2>1, <2>2, <2>3 DEF Reported
<1>6. BPFInv'
  BY <1>1, <1>4, <1>5, StillFacts DEF BPFInv, ReadersInv
<1> QED
  BY <1>1, <1>2, <1>3, <1>6, OtherCallers DEF ReadersInv, Common, PerfOps

\* bpf-fdinfo-reader: the same of its one pid, which is gone if there is no directory.
LEMMA ScanBPFFDsStep ==
  ASSUME ReadersInv, Still, ScanBPFFDs
  PROVE  ReadersInv'
<1>1. /\ op = "fdinfo" /\ pc = "loop" /\ at <= Len(listed)
      /\ UNCHANGED <<listed, at, acc, out>> /\ Rows' = Rows
  BY DEF ScanBPFFDs, Finish, Rows
<1>2. /\ Len(listed) = 1 /\ at = 1 /\ 1 \in DOMAIN listed /\ Pid = listed[1][1]
  BY <1>1, PastOfRows DEF ReadersInv, FdInfoInv, Pid
<1>3. Past'
  BY <1>1, PastKept DEF ReadersInv
<1>4. /\ listed \in Seq(Holders) /\ at \in 1..Len(listed) + 1 /\ left \subseteq Fds
      /\ out \in Seq(RowsOf(op)) /\ acc \in Seq(PartsOf(op))
  BY DEF ReadersInv, Common, TypeInv, TypeOK, Holders
<1>5. SUFFICES TypeInv' /\ Control' /\ FdInfoInv'
  BY <1>1, <1>3, OtherCallers DEF ReadersInv, Common, PerfOps
<1>6. CASE Present(task, Pid) /\ privileged
  <2>1. left' = {f \in Fds : fdtab[Pid][f] # 0} /\ pc' = "fdinfo"
    BY <1>6 DEF ScanBPFFDs
  <2>2. TypeInv'
    BY <1>1, <1>4, <2>1, TypeKept DEF ReadersInv
  <2>3. Control'
    BY <1>1, <2>1, StillFacts DEF ReadersInv, Common, Control
  <2>4. ASSUME NEW f \in Fds, NEW o \in Objects, Keeps(listed[1], <<f, o>>)
        PROVE  f \in left'
    <3>1. fdtab[Pid][f] = o
      BY <1>1, <1>2, <2>4, KeptIsHeld DEF ReadersInv, Common, Past
    <3> QED
      BY <2>1, <3>1, ObjectsAssumption
  <2>5. FdInfoInv'
    BY <1>1, <1>2, <2>1, <2>4, StillFacts DEF FdInfoInv, ReadersInv
  <2> QED
    BY <2>2, <2>3, <2>5
<1>7. CASE ~(Present(task, Pid) /\ privileged)
  <2>1. pc' = "error" /\ left' = left
    BY <1>7 DEF ScanBPFFDs, Finish
  <2>2. TypeInv'
    BY <1>1, <1>4, <2>1, TypeKept DEF ReadersInv
  <2>3. Control'
    BY <2>1 DEF Control
  <2>4. privileged => ~Alive(listed[1])
    BY <1>2, <1>7 DEF Present, Alive
  <2>5. FdInfoInv'
    BY <1>1, <1>2, <2>1, <2>4, StillFacts DEF FdInfoInv, ReadersInv
  <2> QED
    BY <2>2, <2>3, <2>5
<1> QED
  BY <1>6, <1>7

\* What an fd still holds when its fdinfo is read is noted, with its process.
LEMMA ReadFdInfoStep ==
  ASSUME ReadersInv, Still, NEW f \in Fds, ReadFdInfo(f)
  PROVE  ReadersInv'
<1> DEFINE object == [proc |-> listed[at], fd |-> f, id |-> fdtab[Pid][f]]
<1>1. /\ pc = "fdinfo" /\ UNCHANGED <<pc, listed, at, out>> /\ left' = left \ {f}
      /\ acc' = IF fdtab[Pid][f] = 0 THEN acc ELSE Append(acc, object)
      /\ Rows' = Rows
  BY DEF ReadFdInfo, Rows
<1>2. op \in {"bpf", "fdinfo"} /\ at <= Len(listed)
  BY <1>1 DEF ReadersInv, Common, Control
<1>3. /\ at \in DOMAIN listed /\ at \in 1..Len(listed) + 1 /\ listed \in Seq(Holders)
      /\ listed[at] \in Holders /\ Pid \in Pids /\ left \subseteq Fds
      /\ fdtab[Pid][f] \in Objects \cup {0} /\ acc \in Seq(Records) /\ out \in Seq(RowsOf(op))
      /\ PartsOf(op) = Records
  BY <1>2, PastOfRows DEF ReadersInv, Common, TypeInv, TypeOK, Holders, Pid, PartsOf
<1>4. /\ object.id = fdtab[Pid][f]
      /\ fdtab[Pid][f] # 0 => object \in Records
  BY <1>3 DEF Records, Holders
<1> HIDE DEF object
<1>5. /\ acc' \in Seq(Records) /\ DOMAIN acc \subseteq DOMAIN acc'
      /\ \A j \in DOMAIN acc : acc'[j] = acc[j]
      /\ fdtab[Pid][f] # 0 => \E j \in DOMAIN acc' : acc'[j] = object
  <2>1. CASE fdtab[Pid][f] = 0
    BY <1>1, <1>3, <2>1
  <2>2. CASE fdtab[Pid][f] # 0
    <3>1. acc' = Append(acc, object) /\ object \in Records
      BY <1>1, <1>4, <2>2
    <3>2. /\ acc' \in Seq(Records) /\ Len(acc) + 1 \in DOMAIN acc'
          /\ DOMAIN acc \subseteq DOMAIN acc'
          /\ acc'[Len(acc) + 1] = object /\ \A j \in DOMAIN acc : acc'[j] = acc[j]
      BY <1>3, <3>1
    <3> QED
      BY <3>2
  <2> QED
    BY <2>1, <2>2
<1>6. TypeInv' /\ Past'
  BY <1>1, <1>3, <1>5, TypeKept, PastKept DEF ReadersInv
<1>7. Control'
  BY <1>1, <1>2, StillFacts DEF ReadersInv, Common, Control
<1>8. ASSUME NEW o \in Objects, Keeps(listed[at], <<f, o>>)
      PROVE  fdtab[Pid][f] = o /\ o # 0
  BY <1>2, <1>8, KeptIsHeld, ObjectsAssumption DEF ReadersInv, Common, Past, Pid
<1>9. BPFInv'
  <2> SUFFICES ASSUME op = "bpf" PROVE BPFInv'
    BY StillFacts DEF BPFInv, ReadersInv
  <2>1. BPFInv
    BY DEF ReadersInv
  <2>2. NoDuplicates'
    BY <1>1, <2>1 DEF BPFInv, NoDuplicates
  <2>3. ASSUME privileged, NEW k \in DOMAIN listed, NEW g \in Fds, NEW o \in Objects,
               Keeps(listed[k], <<g, o>>)
        PROVE  /\ k < at => Reported(o)'
               /\ k = at => g \in left' \/ Reported(o)' \/ \E j \in DOMAIN acc' : acc'[j].id = o
    <3>1. /\ k < at => Reported(o)
          /\ k = at => g \in left \/ Reported(o) \/ \E j \in DOMAIN acc : acc[j].id = o
      BY <1>1, <2>1, <2>3 DEF BPFInv
    <3>2. Reported(o)' <=> Reported(o)
      BY <1>1 DEF Reported
    <3>3. k = at /\ g = f => \E j \in DOMAIN acc' : acc'[j].id = o
      BY <1>4, <1>5, <1>8, <2>3
    <3> QED
      BY <1>1, <1>5, <3>1, <3>2, <3>3
  <2> QED
    BY <1>1, <2>2, <2>3, StillFacts DEF BPFInv, ReadersInv
<1>10. FdInfoInv'
  <2> SUFFICES ASSUME op = "fdinfo" PROVE FdInfoInv'
    BY StillFacts DEF FdInfoInv, ReadersInv
  <2>1. FdInfoInv /\ at = 1 /\ Len(listed) = 1
    BY <1>1 DEF ReadersInv, FdInfoInv
  <2>2. ASSUME NEW g \in Fds, NEW o \in Objects, Keeps(listed[1], <<g, o>>)
        PROVE  g \in left' \/ \E j \in DOMAIN acc' :
                                acc'[j] = [proc |-> listed[1], fd |-> g, id |-> o]
    <3>1. g \in left \/ \E j \in DOMAIN acc : acc[j] = [proc |-> listed[1], fd |-> g, id |-> o]
      BY <1>1, <2>1, <2>2 DEF FdInfoInv
    <3>2. g = f => \E j \in DOMAIN acc' : acc'[j] = [proc |-> listed[1], fd |-> g, id |-> o]
      BY <1>5, <1>8, <2>1, <2>2 DEF object
    <3> QED
      BY <1>1, <1>5, <3>1, <3>2
  <2> QED
    BY <1>1, <2>1, <2>2, StillFacts DEF FdInfoInv, ReadersInv
<1> QED
  BY <1>2, <1>6, <1>7, <1>9, <1>10, OtherCallers DEF ReadersInv, Common, PerfOps

\* The dedup moves an object to the result, or finds its id there.
LEMMA MergeObjectsStep ==
  ASSUME ReadersInv, Still, MergeObjects
  PROVE  ReadersInv'
<1>1. op = "bpf" /\ pc = "fdinfo" /\ left = {} /\ listed' = listed /\ left' = {}
  BY DEF MergeObjects, Advance
<1>2. /\ at <= Len(listed) /\ at \in 1..Len(listed) + 1 /\ Len(listed) \in Nat
      /\ listed \in Seq(Holders) /\ acc \in Seq(Records) /\ out \in Seq(Records)
      /\ RowsOf(op) = Records /\ PartsOf(op) = Records
  BY <1>1, PastOfRows
     DEF ReadersInv, Common, Control, TypeInv, TypeOK, Holders, RowsOf, PartsOf
<1>3. BPFInv /\ UniqueIds(out)
  BY <1>1 DEF ReadersInv, BPFInv, NoDuplicates, Rows, UniqueIds
<1>4. Past'
  BY <1>1, PastKept DEF ReadersInv
<1>5. ASSUME privileged, NEW k \in DOMAIN listed, NEW f \in Fds, NEW o \in Objects,
             Keeps(listed[k], <<f, o>>)
      PROVE  /\ k < at => Reported(o)
             /\ k = at => Reported(o) \/ \E j \in DOMAIN acc : acc[j].id = o
  BY <1>1, <1>3, <1>5 DEF BPFInv
<1>6. SUFFICES TypeInv' /\ Control' /\ BPFInv'
  BY <1>1, <1>4, OtherCallers DEF ReadersInv, Common, PerfOps
<1>7. CASE acc # <<>>
  <2>1. out' = AppendUnseen(out, Head(acc)) /\ acc' = Tail(acc) /\ UNCHANGED <<pc, at>>
    BY <1>7 DEF MergeObjects
  <2>2. /\ Head(acc) \in Records /\ acc' \in Seq(Records)
        /\ \A j \in DOMAIN acc : acc[j] = Head(acc) \/ \E i \in DOMAIN acc' : acc'[i] = acc[j]
    <3>1. /\ Head(acc) \in Records /\ acc' \in Seq(Records) /\ acc[1] = Head(acc)
          /\ DOMAIN acc' = 1..Len(acc) - 1 /\ Len(acc) \in Nat /\ DOMAIN acc = 1..Len(acc)
          /\ \A i \in 1..Len(acc) - 1 : acc'[i] = acc[i + 1]
      BY <1>2, <1>7, <2>1
    <3>2. \A j \in 1..Len(acc) : j = 1 \/ (j - 1 \in 1..Len(acc) - 1 /\ (j - 1) + 1 = j)
      BY <3>1
    <3>3. \A j \in DOMAIN acc : j = 1 \/ (j - 1 \in DOMAIN acc' /\ acc'[j - 1] = acc[j])
      BY <3>1, <3>2
    <3> QED
      BY <3>1, <3>3
  <2>3. out' \in Seq(Records) /\ UniqueIds(out') /\ GrownBy(out, out', Head(acc))
    BY <1>2, <1>3, <2>1, <2>2, AppendUnseenFacts
  <2>4. TypeInv'
    BY <1>1, <1>2, <2>1, <2>2, <2>3, TypeKept DEF ReadersInv, Common, TypeInv, TypeOK
  <2>5. Control'
    BY <1>1, <2>1, StillFacts DEF ReadersInv, Common, Control
  <2>6. \A o : Reported(o) => Reported(o)'
    BY <2>3 DEF Reported, Rows, GrownBy
  <2>7. ASSUME NEW o, NEW j \in DOMAIN acc, acc[j].id = o
        PROVE  Reported(o)' \/ \E i \in DOMAIN acc' : acc'[i].id = o
    BY <2>2, <2>3, <2>7 DEF Reported, Rows, GrownBy
  <2>8. BPFInv'
    BY <1>1, <1>5, <2>1, <2>3, <2>6, <2>7, StillFacts
       DEF BPFInv, NoDuplicates, Rows, ReadersInv, UniqueIds
  <2> QED
    BY <2>4, <2>5, <2>8
<1>8. CASE acc = <<>>
  <2>1. at' = at + 1 /\ acc' = <<>> /\ pc' = "loop" /\ out' = out /\ Rows' = Rows
    BY <1>8 DEF MergeObjects, Advance, Rows
  <2>2. TypeInv'
    BY <1>1, <1>2, <2>1, TypeKept DEF ReadersInv, Common, TypeInv, TypeOK
  <2>3. Control'
    BY <1>1, <2>1, StillFacts DEF ReadersInv, Common, Control
  <2>4. \A k \in DOMAIN listed : k < at + 1 => k < at \/ k = at
    BY <1>2
  <2>5. BPFInv'
    BY <1>1, <1>3, <1>5, <1>8, <2>1, <2>4, StillFacts
       DEF BPFInv, NoDuplicates, Reported, ReadersInv
  <2> QED
    BY <2>2, <2>3, <2>5
<1> QED
  BY <1>7, <1>8

\* bpf-fdinfo-reader prints what it has noted, fd by fd.
LEMMA PrintFdsStep ==
  ASSUME ReadersInv, Still, PrintFds
  PROVE  ReadersInv'
<1>1. /\ op = "fdinfo" /\ pc = "fdinfo" /\ left = {} /\ listed' = listed /\ left' = {}
      /\ out' = acc /\ at' = at + 1 /\ acc' = <<>> /\ pc' = "loop"
  BY DEF PrintFds, Advance
<1>2. /\ at \in 1..Len(listed) + 1 /\ Len(listed) \in Nat /\ at <= Len(listed)
      /\ listed \in Seq(Holders) /\ acc \in Seq(Records)
      /\ RowsOf(op) = Records /\ PartsOf(op) = Records
  BY <1>1, PastOfRows
     DEF ReadersInv, Common, Control, TypeInv, TypeOK, Holders, RowsOf, PartsOf
<1>3. FdInfoInv /\ Len(listed) = 1 /\ at = 1
  BY <1>1 DEF ReadersInv, FdInfoInv
<1>4. Past'
  BY <1>1, PastKept DEF ReadersInv
<1>5. TypeInv'
  BY <1>1, <1>2, TypeKept DEF ReadersInv, Common, TypeInv, TypeOK
<1>6. Control'
  BY <1>1, StillFacts DEF ReadersInv, Common, Control
<1>7. ASSUME NEW f \in Fds, NEW o \in Objects, Keeps(listed[1], <<f, o>>)
      PROVE  \E i \in Rows' : out'[i] = [proc |-> listed[1], fd |-> f, id |-> o]
  BY <1>1, <1>3, <1>7 DEF FdInfoInv, Rows
<1>8. FdInfoInv'
  BY <1>1, <1>3, <1>7, StillFacts DEF FdInfoInv, ReadersInv
<1> QED
  BY <1>1, <1>4, <1>5, <1>6, <1>8, OtherCallers DEF ReadersInv, Common, PerfOps

\* --sched: the lists of the process at hand are in the result, empty if it is gone.
LEMMA ReadAffinityStep ==
  ASSUME ReadersInv, Still, ReadAffinity
  PROVE  ReadersInv'
<1> DEFINE row == [proc |-> listed[at], id |-> Affinity(Pid)]
<1>1. /\ op = "sched" /\ pc = "loop" /\ at <= Len(listed) /\ listed' = listed
      /\ out' = AppendUnseen(out, row)
      /\ at' = at + 1 /\ left' = {} /\ acc' = <<>> /\ pc' = "loop"
  BY DEF ReadAffinity, Advance
<1>2. /\ at \in DOMAIN listed /\ at \in 1..Len(listed) + 1 /\ Len(listed) \in Nat
      /\ listed \in Seq(Holders) /\ listed[at] \in Holders /\ Pid \in Pids
      /\ cpus[Pid] \in CpuLists /\ out \in Seq(CpuRows) /\ RowsOf(op) = CpuRows
  BY <1>1, PastOfRows DEF ReadersInv, Common, TypeInv, TypeOK, Holders, Pid, RowsOf
<1>3. row \in CpuRows /\ row.proc = listed[at] /\ row.id = Affinity(Pid)
  BY <1>2 DEF CpuRows, Affinity
<1> HIDE DEF row
<1>4. SchedInv /\ UniqueIds(out)
  BY <1>1 DEF ReadersInv, SchedInv, NoDuplicates, UniqueIds, Rows
<1>5. out' \in Seq(CpuRows) /\ UniqueIds(out') /\ GrownBy(out, out', row)
  BY <1>1, <1>2, <1>3, <1>4, AppendUnseenFacts
<1>6. TypeInv' /\ Past'
  BY <1>1, <1>2, <1>5, TypeKept, PastKept DEF ReadersInv
<1>7. Control'
  BY <1>1, StillFacts DEF ReadersInv, Common, Control
<1>8. \A k \in DOMAIN listed : k < at + 1 => k < at \/ k = at
  BY <1>2
<1>9. ASSUME NEW c \in CpuLists, Keeps(listed[at], <<0, c>>)
      PROVE  row.id = c
  BY <1>1, <1>3, <1>9, KeptIsHeld
     DEF ReadersInv, Common, Past, Pid, Affinity, Present
<1>10. ASSUME NEW k \in DOMAIN listed, NEW c \in CpuLists, k < at + 1, Keeps(listed[k], <<0, c>>)
       PROVE  Reported(c)'
  <2>1. CASE k < at
    BY <1>1, <1>4, <1>5, <1>10, <2>1 DEF SchedInv, Reported, Rows, GrownBy
  <2>2. CASE k = at
    BY <1>5, <1>9, <1>10, <2>2 DEF Reported, Rows, GrownBy
  <2> QED
    BY <1>8, <1>10, <2>1, <2>2
<1>11. row.id \notin CpuLists => ~Alive(listed[at])
  BY <1>2, <1>3 DEF Affinity, Present, Alive, Pid
<1>12. ASSUME NEW i \in DOMAIN out'
       PROVE  /\ \E k \in DOMAIN listed : out'[i].proc = listed[k]
              /\ out'[i].id \notin CpuLists => ~Alive(out'[i].proc)
  <2>1. CASE i \in DOMAIN out
    BY <1>1, <1>4, <1>5, <2>1 DEF SchedInv, Rows, GrownBy
  <2>2. CASE out'[i] = row
    BY <1>2, <1>3, <1>11, <2>2
  <2> QED
    BY <1>5, <2>1, <2>2 DEF GrownBy
<1>13. SchedInv'
  BY <1>1, <1>5, <1>10, <1>12, StillFacts
     DEF SchedInv, NoDuplicates, UniqueIds, Rows, ReadersInv
<1> QED
  BY <1>1, <1>6, <1>7, <1>13, OtherCallers DEF ReadersInv, Common, PerfOps

\* --perf: schedstat is read of the holder listed or of a later one, or not at all.
LEMMA SchedStatStep ==
  ASSUME ReadersInv, Still, NEW o \in PerfOps, SchedStat(o)
  PROVE  ReadersInv'
<1>1. /\ op \in PerfOps /\ op = o /\ pc = "loop" /\ at <= Len(listed) /\ listed' = listed
      /\ out' = out /\ Rows' = Rows
  BY DEF SchedStat, Advance, Rows
<1>2. /\ at \in DOMAIN listed /\ at \in 1..Len(listed) + 1 /\ Len(listed) \in Nat
      /\ listed \in Seq(Holders) /\ listed[at] \in Holders /\ Pid = listed[at][1]
      /\ listed[at][2] <= task[Pid].inc /\ TableTypeOK /\ left \subseteq Fds
      /\ out \in Seq(RowsOf(op)) /\ PartsOf(op) = Incs
  BY <1>1, PastOfRows DEF ReadersInv, Common, TypeInv, TypeOK, Holders, Pid, PartsOf, PerfOps
<1>3. /\ Pid \in Pids /\ listed[at][2] \in Int /\ task[Pid].inc \in 0..MaxInc
      /\ ReadFrom(Pid) \in 0..MaxInc
      /\ Present(task, Pid) => ReadFrom(Pid) = task[Pid].inc
  BY <1>2, ReadFromType, MaxIncAssumption DEF Holders, Incs
<1>4. PerfInv /\ Past'
  BY <1>1, PastKept DEF ReadersInv
<1>5. SUFFICES TypeInv' /\ Control' /\ PerfInv'
  BY <1>1, <1>4, OtherCallers DEF ReadersInv, Common, PerfOps
<1>6. CASE Present(task, Pid)
  <2>1. acc' = <<ReadFrom(Pid)>> /\ pc' = "comm" /\ UNCHANGED <<at, left>>
    BY <1>6 DEF SchedStat
  <2>2. acc' \in Seq(Incs) /\ Len(acc') = 1 /\ acc'[1] = task[Pid].inc
    BY <1>3, <1>6, <2>1 DEF Incs
  <2>3. TypeInv'
    BY <1>1, <1>2, <2>1, <2>2, TypeKept DEF ReadersInv
  <2>4. Control'
    BY <1>1, <2>1, StillFacts DEF ReadersInv, Common, Control
  <2>5. /\ acc'[1] \in listed[at][2]..task[Pid].inc
        /\ Alive(listed[at]) => acc'[1] = listed[at][2]
    BY <1>2, <1>3, <2>2 DEF Alive
  <2>6. Pid' = Pid
    BY <1>1, <2>1 DEF Pid
  <2>7. PerfInv'
    BY <1>1, <1>4, <2>1, <2>2, <2>5, <2>6, StillFacts DEF PerfInv, ReadersInv
  <2> QED
    BY <2>3, <2>4, <2>7
<1>7. CASE ~Present(task, Pid)
  <2>1. acc' = <<>> /\ pc' = "loop" /\ at' = at + 1 /\ left' = {}
    BY <1>7 DEF SchedStat, Advance
  <2>2. TypeInv'
    BY <1>1, <1>2, <2>1, TypeKept DEF ReadersInv
  <2>3. Control'
    BY <1>1, <2>1, StillFacts DEF ReadersInv, Common, Control
  <2>4. ~Alive(listed[at])
    BY <1>2, <1>7 DEF Present, Alive
  <2>5. \A k \in DOMAIN listed : k < at + 1 => k < at \/ k = at
    BY <1>2
  <2>6. PerfInv'
    BY <1>1, <1>4, <2>1, <2>4, <2>5, StillFacts DEF PerfInv, ReadersInv
  <2> QED
    BY <2>2, <2>3, <2>6
<1> QED
  BY <1>6, <1>7

\* The row gets the name of the holder of that moment, the same or a later one.
LEMMA ReadSchedCommStep ==
  ASSUME ReadersInv, Still, ReadSchedComm
  PROVE  ReadersInv'
<1> DEFINE row == [proc |-> listed[at], stat |-> acc[1], comm |-> ReadFrom(Pid)]
<1>1. /\ pc = "comm" /\ listed' = listed /\ out' = Append(out, row)
      /\ at' = at + 1 /\ left' = {} /\ acc' = <<>> /\ pc' = "loop"
  BY DEF ReadSchedComm, Advance
<1>2. op \in PerfOps /\ at <= Len(listed)
  BY <1>1 DEF ReadersInv, Common, Control
<1>3. /\ at \in DOMAIN listed /\ at \in 1..Len(listed) + 1 /\ Len(listed) \in Nat
      /\ listed \in Seq(Holders) /\ listed[at] \in Holders /\ Pid = listed[at][1]
      /\ TableTypeOK
  BY <1>2, PastOfRows DEF ReadersInv, Common, TypeInv, TypeOK, Holders, Pid
<1>4. out \in Seq(StatRows) /\ acc \in Seq(Incs) /\ RowsOf(op) = StatRows
  BY <1>2 DEF ReadersInv, Common, TypeInv, RowsOf, PartsOf, PerfOps
<1>5. /\ Pid \in Pids /\ listed[at][2] \in Nat /\ task[Pid].inc \in Nat
      /\ ReadFrom(Pid) \in Incs
      /\ ReadFrom(Pid) = 0 \/ ReadFrom(Pid) = task[Pid].inc
      /\ Present(task, Pid) => ReadFrom(Pid) = task[Pid].inc
  BY <1>3, ReadFromType, MaxIncAssumption DEF Holders, Incs
<1>6. /\ PerfInv /\ Len(acc) = 1 /\ acc[1] \in listed[at][2]..task[Pid].inc
      /\ Alive(listed[at]) => acc[1] = listed[at][2]
  BY <1>1, <1>2 DEF ReadersInv, PerfInv
<1>7. acc[1] \in Incs /\ acc[1] \in Nat /\ acc[1] >= listed[at][2] /\ acc[1] <= task[Pid].inc
  <2>1. acc[1] \in Incs
    <3>1. acc \in Seq(Incs) /\ Len(acc) = 1
      BY <1>4, <1>6
    <3> QED
      BY <3>1
  <2> QED
    BY <1>5, <1>6, <2>1, MaxIncAssumption DEF Incs
<1>8. row \in StatRows /\ row.stat >= row.proc[2] /\ (row.comm = 0 \/ row.comm >= row.stat)
  BY <1>3, <1>5, <1>7 DEF StatRows
<1>9. Alive(listed[at]) =>
        row = [proc |-> listed[at], stat |-> listed[at][2], comm |-> listed[at][2]]
  BY <1>3, <1>5, <1>6 DEF Alive, Present
<1> HIDE DEF row
<1>10. /\ out' \in Seq(StatRows) /\ Rows' = 1..Len(out) + 1 /\ Rows = 1..Len(out)
       /\ Len(out) + 1 \in Rows' /\ out'[Len(out) + 1] = row
       /\ \A i \in Rows : i \in Rows' /\ out'[i] = out[i]
       /\ \A i \in Rows' : i \in Rows \/ i = Len(out) + 1
  BY <1>1, <1>4, <1>8 DEF Rows
<1>11. TypeInv' /\ Past'
  BY <1>1, <1>3, <1>4, <1>10, TypeKept, PastKept DEF ReadersInv
<1>12. Control'
  BY <1>1, <1>2, StillFacts DEF ReadersInv, Common, Control
<1>13. \A k \in DOMAIN listed : k < at + 1 => k < at \/ k = at
  BY <1>3
<1>14. ASSUME NEW k \in DOMAIN listed, k < at + 1, Alive(listed[k])
       PROVE  \E i \in Rows' :
                out'[i] = [proc |-> listed[k], stat |-> listed[k][2], comm |-> listed[k][2]]
  <2>1. CASE k < at
    BY <1>2, <1>6, <1>10, <1>14, <2>1 DEF PerfInv
  <2>2. CASE k = at
    BY <1>9, <1>10, <1>14, <2>2
  <2> QED
    BY <1>13, <1>14, <2>1, <2>2
<1>15. \A i \in Rows' : /\ out'[i].stat >= out'[i].proc[2]
                        /\ out'[i].comm = 0 \/ out'[i].comm >= out'[i].stat
  BY <1>2, <1>6, <1>8, <1>10 DEF PerfInv
<1>16. PerfInv'
  BY <1>1, <1>14, <1>15, StillFacts DEF PerfInv, ReadersInv
<1> QED
  BY <1>2, <1>11, <1>12, <1>16, OtherCallers DEF ReadersInv, Common, PerfOps

\* Every step of the system keeps the invariant.
LEMMA ReadersInvStep == ReadersInv /\ [Next]_vars => ReadersInv'
<1> SUFFICES ASSUME ReadersInv, [Next]_vars PROVE ReadersInv'
  OBVIOUS
<1>1. CASE Churn
  BY <1>1, ChurnPast, ChurnReports DEF ReadersInv
<1>2. CASE Reader
  <2>1. Still
    BY <1>2 DEF Reader, Still
  <2> USE <2>1
  <2>2. CASE ListProcesses
    BY <2>2, ListProcessesStep
  <2>3. CASE PodPIDs \/ listPodPIDs
    BY <2>3, BrokenListingStep DEF PodPIDs, listPodPIDs, PerfOps
  <2>4. CASE GivenPid
    BY <2>4, GivenPidStep
  <2>5. CASE LoopEnd
    BY <2>5, LoopEndStep
  <2>6. CASE NamespaceRow
    BY <2>6, NamespaceRowStep
  <2>7. CASE ReadMounts \/ ReadInterfaces
    BY <2>7, ReadFirstStep DEF ReadMounts, ReadInterfaces
  <2>8. CASE ListFds
    BY <2>8, ListFdsStep
  <2>9. CASE ScanBPFFDs
    BY <2>9, ScanBPFFDsStep
  <2>10. CASE \E f \in Fds : ReadFdInfo(f)
    BY <2>10, ReadFdInfoStep
  <2>11. CASE MergeObjects
    BY <2>11, MergeObjectsStep
  <2>12. CASE PrintFds
    BY <2>12, PrintFdsStep
  <2>13. CASE ReadAffinity
    BY <2>13, ReadAffinityStep
  <2>14. CASE ReadSchedStat \/ parseSchedStat
    BY <2>14, SchedStatStep DEF ReadSchedStat, parseSchedStat, PerfOps
  <2>15. CASE ReadSchedComm
    BY <2>15, ReadSchedCommStep
  <2> QED
    BY <1>2, <2>2, <2>3, <2>4, <2>5, <2>6, <2>7, <2>8, <2>9, <2>10, <2>11, <2>12, <2>13,
       <2>14, <2>15 DEF Reader
<1>3. CASE UNCHANGED vars
  <2>1. Still /\ UNCHANGED <<pc, listed, at, left, acc, out>>
    BY <1>3 DEF vars, Still
  <2> USE <2>1
  <2>2. Rows' = Rows /\ Common' /\ NamespacesInv' /\ FileInv'
    BY StillFacts DEF ReadersInv, Common, TypeInv, TypeOK, Control, Past, Rows, OwnInodes,
      TableTypeOK, NamespacesInv, FileInv, FirstProcessOrItsSuccessor, Facts, Still, tables,
      history, call
  <2>3. BPFInv' /\ FdInfoInv'
    BY <2>2, StillFacts DEF ReadersInv, BPFInv, FdInfoInv, NoDuplicates, Reported
  <2>4. SchedInv' /\ PerfInv'
    BY <2>2, StillFacts DEF ReadersInv, SchedInv, PerfInv, NoDuplicates, Reported, Pid
  <2> QED
    BY <2>2, <2>3, <2>4 DEF ReadersInv
<1> QED
  BY <1>1, <1>2, <1>3 DEF Next

-----------------------------------------------------------------------------
(***************************************************************************)
(* What the callers of ListPodProcesses report is as the invariant says,   *)
(* at every moment of their run.                                           *)
(***************************************************************************)
THEOREM ReadersInvariant == Spec => []ReadersInv
  BY ReadersInit, ReadersInvStep, PTL DEF Spec

\* The state of the callers, and what they have read, is always well typed.
THEOREM ReadersTypeCorrect == Spec => []TypeOK
<1>1. ReadersInv => TypeOK
  BY DEF ReadersInv, Common, TypeInv
<1> QED
  BY <1>1, ReadersInvariant, PTL

(***************************************************************************)
(* --namespaces (ListPodNamespaces): every process that stayed in the pod  *)
(* has its row. No inode is missing in the row of one that is alive, and   *)
(* the inode of each type it has not changed since the call is its own.    *)
(***************************************************************************)
THEOREM NamespacesOfSurvivors == Spec => []RowOfSurvivor
<1>1. ASSUME ReadersInv PROVE RowOfSurvivor
  <2> SUFFICES ASSUME op = "namespaces", pc = "ok" PROVE RowOfSurvivor
    BY DEF RowOfSurvivor, Ok
  <2>1. /\ at \in 1..Len(listed) + 1 /\ DOMAIN listed = 1..Len(listed) /\ Len(listed) \in Nat
        /\ at > Len(listed) /\ Rows = 1..Len(out)
    BY <1>1, PastOfRows DEF ReadersInv, Common, Control
  <2>2. /\ Len(out) = at - 1
        /\ \A i \in Rows : /\ out[i].proc = listed[i] /\ DOMAIN out[i].ns = DOMAIN NsTypes
                           /\ OwnInodes(out[i].proc, out[i].ns)
    BY <1>1 DEF ReadersInv, NamespacesInv
  <2>3. Len(out) = Len(listed) /\ Rows = DOMAIN listed
    BY <2>1, <2>2
  <2>4. \A m \in stable : \E k \in DOMAIN listed : listed[k] = m
    BY <1>1 DEF ReadersInv, Common, Past, PerfOps
  <2>5. \A m \in stable : \E i \in Rows : out[i].proc = m
    BY <2>2, <2>3, <2>4
  <2>6. \A i \in Rows, t \in DOMAIN NsTypes : privileged =>
          /\ Alive(out[i].proc) => out[i].ns[t] # 0
          /\ \A n \in NsInodes : Keeps(out[i].proc, <<NsTypes[t], n>>) => out[i].ns[t] = n
    BY <2>2 DEF OwnInodes
  <2> QED
    BY <2>3, <2>5, <2>6 DEF RowOfSurvivor
<1> QED
  BY <1>1, ReadersInvariant, PTL

(***************************************************************************)
(* --mounts and --netns (ListPodMounts, ListPodInterfaces): what is shown  *)
(* is of the first process listed, or of a later holder of its pid once    *)
(* that process is dead.                                                   *)
(***************************************************************************)
THEOREM FilesOfFirstProcess == Spec => []FirstProcessOrItsSuccessor
<1>1. ReadersInv => FirstProcessOrItsSuccessor
  BY DEF ReadersInv, FileInv
<1> QED
  BY <1>1, ReadersInvariant, PTL

(***************************************************************************)
(* --ebpf (ListPodBPFObjects) and bpf-fdinfo-reader: an object that a      *)
(* process has kept at one fd all along is reported, by --ebpf once.       *)
(***************************************************************************)
THEOREM ObjectsComplete == Spec => []BPFComplete
<1>1. ASSUME ReadersInv PROVE BPFComplete
  <2>1. pc = "ok" => at > Len(listed) /\ \A k \in DOMAIN listed : k < at
    <3>1. at \in 1..Len(listed) + 1 /\ DOMAIN listed = 1..Len(listed) /\ Len(listed) \in Nat
      BY <1>1, PastOfRows DEF ReadersInv
    <3> QED
      BY <1>1, <3>1 DEF ReadersInv, Common, Control
  <2>2. op = "bpf" => NoDuplicates
    BY <1>1 DEF ReadersInv, BPFInv
  <2>3. ASSUME Ok("bpf"), privileged, NEW m \in stable, NEW f \in Fds, NEW o \in Objects,
               Keeps(m, <<f, o>>)
        PROVE  \E i \in Rows : out[i].id = o
    <3>1. PICK k \in DOMAIN listed : listed[k] = m
      BY <1>1, <2>3 DEF ReadersInv, Common, Past, Ok, PerfOps
    <3> QED
      BY <1>1, <2>1, <2>3, <3>1 DEF ReadersInv, BPFInv, Reported, Ok
  <2>4. ASSUME Ok("fdinfo"), NEW f \in Fds, NEW o \in Objects, Keeps(listed[1], <<f, o>>)
        PROVE  \E i \in Rows : out[i] = [proc |-> listed[1], fd |-> f, id |-> o]
    <3>1. Len(listed) = 1 /\ at > 1
      BY <1>1, <2>1, <2>4 DEF ReadersInv, FdInfoInv, Ok
    <3> QED
      BY <1>1, <2>4, <3>1 DEF ReadersInv, FdInfoInv, Ok
  <2>5. op = "fdinfo" /\ pc = "error" /\ privileged => ~Alive(listed[1])
    BY <1>1 DEF ReadersInv, FdInfoInv
  <2> QED
    BY <2>2, <2>3, <2>4, <2>5 DEF BPFComplete
<1> QED
  BY <1>1, ReadersInvariant, PTL

(***************************************************************************)
(* --sched (GetPodSchedInfo): the cpu lists a process has kept all along   *)
(* are reported, each pair once, and empty lists only for a dead process.  *)
(***************************************************************************)
THEOREM AffinitiesComplete == Spec => []SchedComplete
<1>1. ASSUME ReadersInv PROVE SchedComplete
  <2>1. op = "sched" => NoDuplicates
    BY <1>1 DEF ReadersInv, SchedInv
  <2>2. ASSUME Ok("sched"), NEW m \in stable, NEW c \in CpuLists, Keeps(m, <<0, c>>)
        PROVE  \E i \in Rows : out[i].id = c
    <3>1. PICK k \in DOMAIN listed : listed[k] = m
      BY <1>1, <2>2 DEF ReadersInv, Common, Past, Ok, PerfOps
    <3>2. at \in 1..Len(listed) + 1 /\ DOMAIN listed = 1..Len(listed) /\ Len(listed) \in Nat
      BY <1>1, PastOfRows DEF ReadersInv
    <3>3. at > Len(listed)
      BY <1>1, <2>2 DEF ReadersInv, Common, Control, Ok
    <3>4. k < at
      BY <3>1, <3>2, <3>3
    <3> QED
      BY <1>1, <2>2, <3>1, <3>4 DEF ReadersInv, SchedInv, Reported, Ok
  <2>3. Ok("sched") => \A i \in Rows : out[i].id \notin CpuLists => ~Alive(out[i].proc)
    BY <1>1 DEF ReadersInv, SchedInv, Ok
  <2> QED
    BY <2>1, <2>2, <2>3 DEF SchedComplete
<1> QED
  BY <1>1, ReadersInvariant, PTL

(***************************************************************************)
(* --perf (GetPodPerfReport) and sched-latency-reader: a process found     *)
(* that lives to the end has its own row, and no row mixes in a holder of  *)
(* the pid before the one found.                                           *)
(***************************************************************************)
THEOREM LatencyRowsOfOwnProcess == Spec => []PerfRows
<1>1. ASSUME ReadersInv PROVE PerfRows
  <2>1. pc = "ok" => \A k \in DOMAIN listed : k < at
    <3>1. at \in 1..Len(listed) + 1 /\ DOMAIN listed = 1..Len(listed) /\ Len(listed) \in Nat
      BY <1>1, PastOfRows DEF ReadersInv
    <3> QED
      BY <1>1, <3>1 DEF ReadersInv, Common, Control
  <2> QED
    BY <1>1, <2>1 DEF ReadersInv, PerfInv, PerfRows
<1> QED
  BY <1>1, ReadersInvariant, PTL

-----------------------------------------------------------------------------
(***************************************************************************)
(* The surveys of /proc and the readers of given pids.                     *)
(***************************************************************************)
Entries == [pid : SurveyPids \cup {0}, from : Seq(Nat), val : Seq(Nat)]

Stages == {"readdir", "next", "read", "map", "done", "failed"}

SurveyTypes ==
    /\ Survey!TableTypeOK
    /\ score \in [SurveyPids -> Nat]
    /\ tool \in Survey!Tools /\ root \in BOOLEAN
    /\ given \subseteq SurveyPids
    /\ stage \in Stages
    /\ cursor \in Nat /\ todo \subseteq SurveyPids
    /\ cur \in Entries /\ map \in Entries /\ rows \in Seq(Entries)
    /\ lived \subseteq Survey!Observed

\* A record of n files, all read or not.
HasRead(r, n) == r.pid \in SurveyPids /\ Len(r.from) = n /\ Len(r.val) = n

\* What each program has done when it is at a stage.
SurveyPlaces ==
    /\ tool \in {"walker", "top"} => given = {}
    /\ tool \in {"inspector", "mountinfo", "latency"} => \A p, q \in given : p = q
    /\ tool \notin Survey!Surveys =>
        /\ todo \subseteq given
        /\ tool = "mountinfo" /\ stage = "read" => todo = {}
        /\ stage = "failed" => todo = {}
    /\ stage \in {"map", "done"} => todo = {} \/ (tool = "inspector" /\ rows = <<>>)
    /\ stage = "readdir" => tool \in Survey!Surveys
    /\ stage = "readdir" /\ tool # "top" => rows = <<>>
    /\ IF stage = "read"
       THEN \E n \in 0..Len(Survey!Files) - 1 : HasRead(cur, n)
       ELSE cur = Survey!NoRecord
    /\ stage \notin {"map", "done"} => map = Survey!NoRecord
    /\ map = Survey!NoRecord \/ (map.pid \in given /\ Len(map.from) = Len(map.val))
    /\ stage = "map" => /\ tool = "inspector" /\ given # {}
                        /\ Len(map.from) < Len(Survey!MapFiles)
    /\ stage = "done" /\ tool = "inspector" /\ given # {} =>
            HasRead(map, Len(Survey!MapFiles))
    /\ \A k \in DOMAIN rows : HasRead(rows[k], Len(Survey!Files))

\* What has been read of pids.
Noted == Survey!Rows \cup {cur, map}

\* Nothing is of a holder still to come.
NoneToCome(r) == \A k \in DOMAIN r.from : r.from[k] <= table[r.pid].inc

HoldersInv ==
    \A r \in Noted :
        /\ NoneToCome(r)
        /\ Survey!OneHolder(r)

InNs == tool \in {"walker", "inspector"}

\* The record is of the holder which lives since the call, in all it may open, and has
\* the namespaces that one has been in all along.
Own(r, files) ==
    \A m \in lived : m[1] = r.pid =>
        \A k \in DOMAIN r.from : root \/ files[k] \notin NsLinks =>
            /\ r.from[k] = m[2]
            /\ InNs /\ files[k] = m[3] => r.val[k] = m[4]

OwnInv ==
    tool # "top" =>
        /\ \A r \in Survey!Rows \cup {cur} : Own(r, Survey!Files)
        /\ Own(map, Survey!MapFiles)

\* Who lives since the call is still to be found, to be read, or in the report.
Unmissed(m) ==
    \/ stage = "readdir" /\ m[1] > cursor
    \/ m[1] \in todo
    \/ stage = "read" /\ cur.pid = m[1]
    \/ \E r \in Survey!Rows : Survey!Of(r) = <<m[1], m[2]>>

AllUnmissed ==
    \/ tool = "top"
    \/ tool \in Survey!Surveys /\ (~root \/ (stage \in {"map", "done", "failed"} /\ rows = <<>>))
    \/ \A m \in lived : tool \in Survey!Surveys \/ m[1] \in given => Unmissed(m)

\* The list of the highest scores: which pids can be in it, ...
TopPids ==
    /\ \A p \in todo : p <= cursor
    /\ stage = "read" => cur.pid <= cursor /\ cur.pid \notin todo
    /\ \A r \in Survey!Rows :
        r.pid <= cursor /\ r.pid \notin todo /\ (stage = "read" => r.pid # cur.pid)

\* ... its order, ...
Ordered(list) ==
    \A j, k \in DOMAIN list : j < k => list[j].val[1] >= list[k].val[1] /\ list[j].pid # list[k].pid

\* ... and who is left out.
Ranked(m) ==
    \/ m[3] = 0
    \/ m[1] > cursor /\ stage # "done"
    \/ m[1] \in todo
    \/ stage = "read" /\ cur.pid = m[1]
    \/ \E r \in Survey!Rows : r.pid = m[1] /\ r.from[1] = m[2] /\ r.val[1] = m[3]
    \/ Len(rows) = TopN /\ \A r \in Survey!Rows : r.val[1] >= m[3]

TopInv ==
    tool = "top" =>
        /\ Len(rows) <= TopN /\ Ordered(rows)
        /\ TopPids
        /\ \A m \in lived : stage = "read" /\ cur.pid = m[1] /\ cur.from # <<>> =>
                cur.from[1] = m[2] /\ cur.val[1] = m[3]
        /\ stage # "failed" => \A m \in lived : Ranked(m)

SurveyInv ==
    /\ SurveyTypes /\ SurveyPlaces
    /\ HoldersInv /\ OwnInv /\ AllUnmissed /\ TopInv

-----------------------------------------------------------------------------
\* A record has its three fields.
LEMMA EntryFacts ==
  ASSUME NEW r \in Entries
  PROVE  /\ r = [pid |-> r.pid, from |-> r.from, val |-> r.val]
         /\ r.pid \in SurveyPids \cup {0}
         /\ r.from \in Seq(Nat) /\ r.val \in Seq(Nat)
  BY DEF Entries

\* A number and two sequences make a record.
LEMMA EntryMade ==
  ASSUME NEW p \in SurveyPids \cup {0}, NEW a \in Seq(Nat), NEW b \in Seq(Nat)
  PROVE  LET r == [pid |-> p, from |-> a, val |-> b]
         IN  r \in Entries /\ r.pid = p /\ r.from = a /\ r.val = b
  BY DEF Entries

\* A record without a file read.
LEMMA BlankEntry ==
  ASSUME NEW p \in SurveyPids \cup {0}
  PROVE  LET r == [pid |-> p, from |-> <<>>, val |-> <<>>]
         IN  /\ r \in Entries /\ r.pid = p /\ r.from = <<>> /\ r.val = <<>>
             /\ DOMAIN r.from = {} /\ Len(r.from) = 0 /\ Len(r.val) = 0
<1>1. <<>> \in Seq(Nat) /\ DOMAIN <<>> = {} /\ Len(<<>>) = 0
  OBVIOUS
<1> QED
  BY <1>1, EntryMade

(***************************************************************************)
(* A step of the table, seen from one pid.                                 *)
(***************************************************************************)
LEMMA SurveyTableStep ==
  ASSUME Survey!TableTypeOK, Survey!TableStep
  PROVE  /\ Survey!TableTypeOK'
         /\ \A p \in SurveyPids :
              /\ table[p].inc \in Nat /\ table'[p].inc \in Nat
              /\ table[p].inc <= table'[p].inc
              /\ table'[p].inc = table[p].inc /\ table'[p].st = "live" =>
                    table[p].st = "live"
<1>1. /\ Survey!Tasks = Tasks /\ Survey!Cgroups = Cgroups /\ Survey!Namespaces = Namespaces
      /\ \A n : Survey!NoTask(n) = NoTask(n)
  BY DEF Survey!Tasks, Tasks, Survey!Cgroups, Cgroups, Survey!Namespaces, Namespaces,
     Survey!NoTask, NoTask
<1>2. PICK p \in SurveyPids :
          \/ \E c \in Cgroups, n \in Namespaces : Survey!Spawn(p, c, n)
          \/ Survey!Exit(p)
          \/ Survey!Reap(p)
          \/ \E c \in Cgroups : Survey!Migrate(p, c)
          \/ \E link \in NsLinks, n \in NsInodes : Survey!ChangeNs(p, link, n)
  BY <1>1 DEF Survey!TableStep
<1>3. PICK f : table' = [table EXCEPT ![p] = f] /\ Becomes(table[p], f)
  BY <1>1, <1>2 DEF Survey!Spawn, Survey!Exit, Survey!Reap, Survey!Migrate,
     Survey!ChangeNs, Becomes
<1>4. table \in [SurveyPids -> Tasks]
  BY <1>1 DEF Survey!TableTypeOK
<1>5. table'[p] = f /\ \A q \in SurveyPids \ {p} : table'[q] = table[q]
  BY <1>3, <1>4
<1>6. f \in Tasks
  BY <1>3, <1>4, EntryStep
<1>7. Survey!TableTypeOK'
  BY <1>1, <1>3, <1>4, <1>6 DEF Survey!TableTypeOK
<1>8. \A e \in Tasks : e.inc \in Nat
  BY MaxIncAssumption DEF Tasks
<1>9. ASSUME NEW q \in SurveyPids
      PROVE  /\ table[q].inc \in Nat /\ table'[q].inc \in Nat
             /\ table[q].inc <= table'[q].inc
             /\ table'[q].inc = table[q].inc /\ table'[q].st = "live" =>
                   table[q].st = "live"
  <2>1. table[q] \in Tasks
    BY <1>4
  <2>2. CASE q = p
    <3>1. Becomes(table[q], table'[q])
      BY <1>3, <1>5, <2>2
    <3> QED
      BY <2>1, <3>1, EntryStep
  <2>3. CASE q # p
    BY <1>5, <1>8, <2>1, <2>3
  <2> QED
    BY <2>2, <2>3
<1> QED
  BY <1>7, <1>9

\* Who is alive, as a pair and with its score.
LEMMA AliveFacts ==
  /\ \A p, j : <<p, j>> \in Survey!Alive <=>
        p \in SurveyPids /\ table[p].st = "live" /\ j = table[p].inc
  /\ \A p, j, s : <<p, j, s>> \in Survey!AliveWithScore <=>
        p \in SurveyPids /\ table[p].st = "live" /\ j = table[p].inc /\ s = score[p]
  /\ \A m \in Survey!Alive : m = <<m[1], m[2]>>
  /\ \A m \in Survey!AliveWithScore : m = <<m[1], m[2], m[3]>>
  /\ \A m \in Survey!AliveInNs :
        /\ m[1] \in SurveyPids /\ table[m[1]].st = "live" /\ m[2] = table[m[1]].inc
        /\ m[3] \in NsLinks /\ m[4] = table[m[1]].ns[m[3]]
  BY DEF Survey!Alive, Survey!AliveWithScore, Survey!AliveInNs, Survey!Live

\* Who lived since the call is alive.
LEMMA LivedFacts ==
  ASSUME SurveyTypes, NEW m \in lived
  PROVE  /\ m[1] \in SurveyPids /\ m[1] \in Nat \ {0}
         /\ table[m[1]].st = "live" /\ m[2] = table[m[1]].inc
         /\ Survey!Present(table, m[1])
         /\ tool = "top" => m[3] = score[m[1]]
         /\ tool # "top" /\ ~InNs => m = <<m[1], m[2]>>
         /\ InNs => m[3] \in NsLinks /\ m[4] = table[m[1]].ns[m[3]]
<1>1. m \in Survey!Observed
  BY DEF SurveyTypes
<1>2. CASE tool = "top"
  BY <1>1, <1>2, AliveFacts, SurveyPidsAssumption DEF Survey!Observed, Survey!Present, InNs
<1>3. CASE tool # "top" /\ ~InNs
  BY <1>1, <1>3, AliveFacts, SurveyPidsAssumption DEF Survey!Observed, Survey!Present, InNs
<1>4. CASE InNs
  BY <1>1, <1>4, AliveFacts, SurveyPidsAssumption DEF Survey!Observed, Survey!Present, InNs
<1> QED
  BY <1>2, <1>3, <1>4

-----------------------------------------------------------------------------
(***************************************************************************)
(* The files of each program: the last one is a namespace link only for    *)
(* proc-walker, and no file of a live process that a survey or a reader of *)
(* given pids needs is missing.                                            *)
(***************************************************************************)
LEMMA FilesFacts ==
  ASSUME SurveyTypes
  PROVE  LET F == Survey!Files
         IN  /\ Len(F) \in Nat \ {0} /\ DOMAIN F = 1..Len(F)
             /\ F[Len(F)] \in NsLinks => tool = "walker"
             /\ \A k \in 1..Len(F) : F[k] = "mountinfo" => tool = "mountinfo"
             /\ tool = "top" => Len(F) = 2 /\ F[1] = "oom_score" /\ F[2] = "comm"
             /\ tool = "walker" => Len(F) = 3 /\ F[3] = "pid"
             /\ tool = "inspector" => /\ Len(F) = Len(NsTypes) + 1
                                      /\ F[Len(NsTypes) + 1] = "comm"
                                      /\ \A k \in 1..Len(NsTypes) : F[k] = NsTypes[k]
             /\ tool \notin Survey!Surveys =>
                    \A k \in 1..Len(F) : F[k] \notin NsLinks
             /\ tool # "top" => \A k \in 1..Len(F) : F[k] # "oom_score"
<1>1. tool \in Survey!Tools
  BY DEF SurveyTypes
<1>2. CASE tool = "walker"
  BY <1>2, LinksAssumption DEF Survey!Files, Survey!WalkerFiles, Survey!Surveys
<1>3. CASE tool = "inspector"
  <2>1. Survey!Files = NsTypes \o <<"comm">>
    BY <1>3 DEF Survey!Files, Survey!InspectorFiles
  <2>2. NsTypes \in Seq(NsLinks) /\ <<"comm">> \in Seq({"comm"})
    BY NsTypesAssumption
  <2>3. LET F == NsTypes \o <<"comm">>
        IN  /\ Len(NsTypes) \in Nat
            /\ Len(F) = Len(NsTypes) + 1 /\ DOMAIN F = 1..Len(NsTypes) + 1
            /\ F[Len(NsTypes) + 1] = "comm"
            /\ \A k \in 1..Len(NsTypes) : F[k] = NsTypes[k] /\ F[k] \in NsLinks
    BY <2>2
  <2> HIDE <2>2
  <2> QED
    BY <1>3, <2>1, <2>3, LinksAssumption DEF Survey!Surveys
<1>4. CASE tool = "top"
  BY <1>4, LinksAssumption DEF Survey!Files, Survey!TopFiles, Survey!Surveys
<1>5. CASE tool = "sched"
  BY <1>5, LinksAssumption DEF Survey!Files, Survey!SchedFiles, Survey!Surveys
<1>6. CASE tool = "mountinfo"
  BY <1>6, LinksAssumption DEF Survey!Files, Survey!Surveys
<1>7. CASE tool = "latency"
  BY <1>7, LinksAssumption DEF Survey!Files, Survey!LatencyFiles, Survey!Surveys
<1> QED
  BY <1>1, <1>2, <1>3, <1>4, <1>5, <1>6, <1>7 DEF Survey!Tools, Survey!Surveys

\* The files of the inspector's table: its name and then all links.
LEMMA MapFilesFacts ==
  LET F == Survey!MapFiles
  IN  /\ Len(NsTypes) \in Nat /\ Len(F) = Len(NsTypes) + 1 /\ DOMAIN F = 1..Len(F)
      /\ F[1] = "comm"
      /\ \A k \in 1..Len(NsTypes) : F[k + 1] = NsTypes[k]
<1>1. NsTypes \in Seq(NsLinks) /\ <<"comm">> \in Seq({"comm"})
  BY NsTypesAssumption
<1> QED
  BY <1>1 DEF Survey!MapFiles

\* What a read gives is of the present holder, and of a live one if root may open it.
LEMMA ReadFacts ==
  ASSUME SurveyTypes, NEW p \in SurveyPids, NEW f
  PROVE  /\ Survey!From(p, f) \in Nat /\ Survey!Value(p, f) \in Nat
         /\ table[p].inc \in Nat
         /\ Survey!From(p, f) = 0 \/ Survey!From(p, f) = table[p].inc
         /\ table[p].st = "live" /\ (root \/ f \notin NsLinks) =>
              /\ Survey!From(p, f) = table[p].inc
              /\ f \in NsLinks => Survey!Value(p, f) = table[p].ns[f]
         /\ table[p].st = "live" /\ f \notin NsLinks =>
                (f = "oom_score" => Survey!Value(p, f) = score[p])
         /\ table[p].st = "live" /\ f \in NsLinks => table[p].ns[f] \in NsInodes
<1>1. table[p] \in Survey!Tasks
  BY DEF SurveyTypes, Survey!TableTypeOK
<1>2. table[p].inc \in Nat
  BY <1>1, MaxIncAssumption DEF Survey!Tasks
<1>3. table[p].st # "free" /\ f \in NsLinks => table[p].ns[f] \in NsInodes
  <2>1. table[p].st # "free" => table[p].ns \in [NsLinks -> NsInodes]
    BY <1>1 DEF Survey!Tasks, Survey!Namespaces
  <2> QED
    BY <2>1
<1>4. score[p] \in Nat
  BY DEF SurveyTypes
<1> HIDE <1>1
<1>5. table[p].st = "live" /\ (root \/ f \notin NsLinks) => Survey!Opens(p, f)
  BY DEF Survey!Opens, Survey!Present, Survey!HasNs
<1>6. Survey!Opens(p, f) => table[p].st # "free"
  BY DEF Survey!Opens, Survey!Present
<1>7. Survey!Value(p, f) \in Nat
  BY <1>3, <1>4, <1>6, InodesAssumption DEF Survey!Value
<1> QED
  BY <1>2, <1>3, <1>5, <1>7 DEF Survey!From, Survey!Value

\* A pid is passed over only if its process is gone or, for the list, has no score.
LEMMA MissingFacts ==
  ASSUME SurveyTypes, NEW p \in SurveyPids, NEW k \in 1..Len(Survey!Files),
         Survey!Missing(p, Survey!Files[k])
  PROVE  /\ tool # "top" => table[p].st # "live"
         /\ tool = "top" => k = 1 /\ (table[p].st = "live" => score[p] = 0)
<1> DEFINE f == Survey!Files[k]
<1>1. f \notin {"sched", "mountinfo", "schedstat", "status", "oom_score"} => FALSE
  BY DEF Survey!Missing
<1>2. f \notin NsLinks
  BY <1>1, LinksAssumption
<1>3. table[p].st = "live" => Survey!Opens(p, f)
  BY <1>2 DEF Survey!Opens, Survey!Present
<1>4. tool # "top" => f # "oom_score"
  BY FilesFacts
<1>5. CASE tool # "top"
  BY <1>3, <1>4, <1>5 DEF Survey!Missing
<1>6. CASE tool = "top"
  <2>1. k = 1 /\ f = "oom_score"
    <3>1. /\ Len(Survey!Files) = 2
          /\ Survey!Files[1] = "oom_score" /\ Survey!Files[2] = "comm"
      BY <1>6, FilesFacts
    <3>2. k = 1 \/ k = 2
      BY <3>1
    <3> QED
      BY <1>1, <3>1, <3>2
  <2> QED
    BY <1>2, <1>3, <1>6, <2>1, ReadFacts DEF Survey!Missing
<1> QED
  BY <1>5, <1>6

-----------------------------------------------------------------------------
(***************************************************************************)
(* A record with one more file.                                            *)
(***************************************************************************)
Grown(r, p, i, v) == [pid |-> p, from |-> Append(r.from, i), val |-> Append(r.val, v)]

\* It stays of one holder, and the present one's if it was.
LEMMA ReadKeepsHolder ==
  ASSUME SurveyTypes, NEW p \in SurveyPids, NEW files, NEW r \in Entries, NEW n \in Nat,
         r.pid = p, Len(r.from) = n, Len(r.val) = n,
         NoneToCome(r), Survey!OneHolder(r), tool # "top" => Own(r, files),
         NEW s, s = Grown(r, p, Survey!From(p, files[n + 1]), Survey!Value(p, files[n + 1]))
  PROVE  /\ s \in Entries /\ s.pid = p /\ Len(s.from) = n + 1 /\ Len(s.val) = n + 1
         /\ \A k \in 1..n : s.from[k] = r.from[k] /\ s.val[k] = r.val[k]
         /\ s.from[n + 1] = Survey!From(p, files[n + 1])
         /\ s.val[n + 1] = Survey!Value(p, files[n + 1])
         /\ NoneToCome(s) /\ Survey!OneHolder(s)
         /\ tool # "top" => Own(s, files)
<1> DEFINE f == files[n + 1]
           i == Survey!From(p, f)
           v == Survey!Value(p, f)
<1>1. /\ r.from \in Seq(Nat) /\ r.val \in Seq(Nat) /\ DOMAIN r.from = 1..n
      /\ \A k \in 1..n : r.from[k] \in Nat
  BY EntryFacts
<1>2. /\ i \in Nat /\ v \in Nat /\ table[p].inc \in Nat
      /\ i = 0 \/ i = table[p].inc
      /\ table[p].st = "live" /\ (root \/ f \notin NsLinks) =>
            i = table[p].inc /\ (f \in NsLinks => v = table[p].ns[f])
  BY ReadFacts
<1>3. /\ s \in Entries /\ s.pid = p /\ Len(s.from) = n + 1 /\ Len(s.val) = n + 1
      /\ DOMAIN s.from = 1..n + 1 /\ s.from[n + 1] = i /\ s.val[n + 1] = v
      /\ \A k \in 1..n : s.from[k] = r.from[k] /\ s.val[k] = r.val[k]
  <2> DEFINE a == Append(r.from, i)
             b == Append(r.val, v)
  <2>1. s = Grown(r, p, i, v)
    OBVIOUS
  <2>6. v \in Nat
    BY <1>2
  <2>7. i \in Nat
    BY <1>2
  <2> HIDE DEF i, v
  <2>2. /\ a \in Seq(Nat) /\ Len(a) = n + 1 /\ DOMAIN a = 1..n + 1
        /\ a[n + 1] = i /\ \A k \in 1..n : a[k] = r.from[k]
    BY <1>1, <2>7
  <2>3. /\ b \in Seq(Nat) /\ Len(b) = n + 1
        /\ b[n + 1] = v /\ \A k \in 1..n : b[k] = r.val[k]
    BY <1>1, <2>6
  <2>4. s = [pid |-> p, from |-> a, val |-> b]
    BY <2>1 DEF Grown
  <2> HIDE DEF a, b
  <2>5. s \in Entries /\ s.pid = p /\ s.from = a /\ s.val = b
    BY <2>2, <2>3, <2>4, EntryMade
  <2> QED
    BY <2>2, <2>3, <2>5
<1>4. \A k \in 1..n + 1 : k \in 1..n \/ k = n + 1
  OBVIOUS
<1> HIDE DEF i, v, f
<1>5. NoneToCome(s)
  <2>1. i <= table[p].inc /\ \A k \in 1..n : r.from[k] <= table[p].inc
    <3>1. i <= table[p].inc
      BY <1>2
    <3>2. \A k \in 1..n : r.from[k] <= table[p].inc
      BY <1>1 DEF NoneToCome
    <3> QED
      BY <3>1, <3>2
  <2> QED
    BY <1>3, <1>4, <2>1 DEF NoneToCome
<1>6. Survey!OneHolder(s)
  <2>1. ASSUME NEW j \in 1..n + 1, NEW k \in 1..n + 1, j < k
        PROVE  s.from[k] = 0 \/ s.from[j] <= s.from[k]
    <3>1. j \in 1..n /\ s.from[j] = r.from[j]
      BY <1>3, <2>1
    <3>2. CASE k = n + 1
      BY <1>1, <1>2, <1>3, <3>1, <3>2 DEF NoneToCome
    <3>3. CASE k # n + 1
      <4>1. k \in 1..n
        BY <1>4, <3>3
      <4>2. s.from[k] = r.from[k]
        BY <1>3, <4>1
      <4> QED
        BY <1>1, <2>1, <3>1, <4>1, <4>2 DEF Survey!OneHolder
    <3> QED
      BY <3>2, <3>3
  <2>2. ASSUME root, <<s.pid, s.from[1]>> \in Survey!Alive, NEW k \in 1..n + 1
        PROVE  s.from[k] = s.from[1]
    <3>1. table[p].st = "live" /\ s.from[1] = table[p].inc
      BY <1>3, <2>2, AliveFacts
    <3>2. CASE k = n + 1
      BY <1>2, <1>3, <2>2, <3>1, <3>2
    <3>3. CASE k # n + 1
      <4>1. k \in 1..n /\ 1 \in 1..n
        BY <1>4, <3>3
      <4>2. s.from[k] = r.from[k] /\ s.from[1] = r.from[1]
        BY <1>3, <4>1
      <4>3. r.from # <<>>
        BY <1>1, <4>1
      <4> QED
        BY <1>1, <1>3, <2>2, <4>1, <4>2, <4>3 DEF Survey!OneHolder
    <3> QED
      BY <3>2, <3>3
  <2> QED
    BY <1>3, <2>1, <2>2 DEF Survey!OneHolder
<1>7. tool # "top" => Own(s, files)
  <2> SUFFICES ASSUME tool # "top", NEW m \in lived, m[1] = p, NEW k \in 1..n + 1,
                      root \/ files[k] \notin NsLinks
               PROVE  /\ s.from[k] = m[2]
                      /\ InNs /\ files[k] = m[3] => s.val[k] = m[4]
    BY <1>3 DEF Own
  <2>1. CASE k = n + 1
    <3>1. /\ table[p].st = "live" /\ m[2] = table[p].inc
          /\ InNs => m[3] \in NsLinks /\ m[4] = table[p].ns[m[3]]
      BY LivedFacts
    <3> QED
      BY <1>2, <1>3, <2>1, <3>1 DEF f
  <2>2. CASE k # n + 1
    <3>1. k \in 1..n
      BY <2>2
    <3> QED
      BY <1>1, <1>3, <3>1 DEF Own
  <2> QED
    BY <2>1, <2>2
<1> QED
  BY <1>3, <1>5, <1>6, <1>7 DEF i, v, f

-----------------------------------------------------------------------------
(***************************************************************************)
(* A step of a reader leaves the table and its call as they are, and so    *)
(* whatever has been said of a record.                                     *)
(***************************************************************************)
SurveyStill == UNCHANGED <<table, score, tool, root, given, lived>>

\* What has been said of a record still holds.
LEMMA StillFrame ==
  ASSUME SurveyStill
  PROVE  /\ Survey!TableTypeOK' = Survey!TableTypeOK
         /\ Survey!Observed' = Survey!Observed
         /\ Survey!Files' = Survey!Files
         /\ \A r : NoneToCome(r)' <=> NoneToCome(r)
         /\ \A r : Survey!OneHolder(r)' <=> Survey!OneHolder(r)
         /\ \A r, files : Own(r, files)' <=> Own(r, files)
<1> USE DEF SurveyStill
<1>1. Survey!TableTypeOK' = Survey!TableTypeOK
  BY DEF Survey!TableTypeOK
<1>2. Survey!Observed' = Survey!Observed /\ Survey!Alive' = Survey!Alive
  BY DEF Survey!Observed, Survey!Alive, Survey!AliveWithScore, Survey!AliveInNs, Survey!Live
<1>3. Survey!Files' = Survey!Files
  BY DEF Survey!Files
<1>4. \A r : NoneToCome(r)' <=> NoneToCome(r)
  BY DEF NoneToCome
<1>5. \A r : Survey!OneHolder(r)' <=> Survey!OneHolder(r)
  BY <1>2 DEF Survey!OneHolder
<1>6. \A r, files : Own(r, files)' <=> Own(r, files)
  BY DEF Own, InNs
<1> QED
  BY <1>1, <1>2, <1>3, <1>4, <1>5, <1>6

\* Nothing can be said against a record without a file read.
LEMMA BlankHolds ==
  ASSUME NEW r, r.from = <<>>
  PROVE  NoneToCome(r) /\ Survey!OneHolder(r) /\ \A files : Own(r, files)
<1>1. DOMAIN r.from = {}
  OBVIOUS
<1> QED
  BY <1>1 DEF NoneToCome, Survey!OneHolder, Own

\* NoRecord is such a record, of no pid.
LEMMA NoRecordFacts ==
  /\ Survey!NoRecord \in Entries /\ Survey!NoRecord.pid = 0
  /\ Survey!NoRecord.from = <<>> /\ Survey!NoRecord.val = <<>>
  BY BlankEntry DEF Survey!NoRecord

-----------------------------------------------------------------------------
(* What the invariant says at the beginning. *)

LEMMA SurveyInit == Survey!Init => SurveyInv
<1> SUFFICES ASSUME Survey!Init
             PROVE  SurveyInv
  OBVIOUS
<1>1. /\ cursor = 0 /\ cur = Survey!NoRecord /\ rows = <<>> /\ map = Survey!NoRecord
      /\ tool \in Survey!Tools /\ root \in BOOLEAN /\ given \in Survey!CommandLines
      /\ lived = Survey!Observed /\ score \in [SurveyPids -> Scores]
      /\ IF tool \in Survey!Surveys
         THEN stage = "readdir" /\ todo = {}
         ELSE stage = "next" /\ todo = given
  BY DEF Survey!Init
<1>2. Survey!TableTypeOK
  BY MaxIncAssumption DEF Survey!Init, Survey!TableInit, Survey!TableTypeOK,
     Survey!Tasks, Survey!NoTask, Survey!Cgroups
<1>3. /\ given \subseteq SurveyPids
      /\ tool \in {"walker", "top"} => given = {}
      /\ tool = "inspector" => Cardinality(given) <= 1
      /\ tool \in {"mountinfo", "latency"} => Cardinality(given) = 1
  <2>1. given \in {P \in SUBSET SurveyPids :
                       /\ tool \in {"walker", "top"} => P = {}
                       /\ tool = "inspector" => Cardinality(P) <= 1
                       /\ tool = "sched" => P # {}
                       /\ tool \in {"mountinfo", "latency"} => Cardinality(P) = 1}
    <3>1. \A S : Survey!Cardinality(S) = Cardinality(S)
      BY DEF Survey!Cardinality, Cardinality
    <3> QED
      BY <1>1, <3>1 DEF Survey!CommandLines
  <2> QED
    BY <2>1, Zenon
<1>4. Survey!NoRecord \in Entries /\ <<>> \in Seq(Entries) /\ Survey!Rows = {}
  BY <1>1, NoRecordFacts DEF Survey!Rows
<1>5. SurveyTypes
  BY <1>1, <1>2, <1>3, <1>4, ScoresAssumption DEF SurveyTypes, Stages
<1>6. tool \in {"inspector", "mountinfo", "latency"} => \A p, q \in given : p = q
  <2>1. IsFiniteSet(given)
    BY <1>3, SurveyPidsAssumption, FS_Subset
  <2>2. Cardinality(given) \in Nat /\ Cardinality(given) <= 1 => \A p, q \in given : p = q
    <3> SUFFICES ASSUME Cardinality(given) <= 1, NEW p \in given, NEW q \in given, p # q
                 PROVE  FALSE
      BY <2>1, FS_CardinalityType
    <3>1. Cardinality({p} \cup {q}) = 2
      <4>1. IsFiniteSet({p}) /\ Cardinality({p}) = 1
        BY FS_Singleton
      <4>2. Cardinality({p} \cup {q}) = Cardinality({p}) + 1
        BY <4>1, FS_AddElement
      <4> QED
        BY <4>1, <4>2
    <3>2. {p} \cup {q} \subseteq given
      OBVIOUS
    <3>3. Cardinality({p} \cup {q}) <= Cardinality(given) /\ Cardinality(given) \in Nat
      BY <2>1, <3>2, FS_Subset, FS_CardinalityType
    <3> QED
      BY <3>1, <3>3
  <2> QED
    BY <1>3, <2>1, <2>2, FS_CardinalityType
<1>7. SurveyPlaces
  BY <1>1, <1>3, <1>6 DEF SurveyPlaces
<1>8. HoldersInv /\ OwnInv
  BY <1>1, <1>4, NoRecordFacts, BlankHolds DEF HoldersInv, OwnInv, Noted
<1>9. \A m \in lived : m[1] \in Nat \ {0}
  BY <1>5, LivedFacts
<1>10. AllUnmissed
  BY <1>1, <1>9 DEF AllUnmissed, Unmissed
<1>11. TopInv
  BY <1>1, <1>4, <1>9, TopNAssumption, NoRecordFacts DEF TopInv, Ordered, TopPids, Ranked, Survey!Surveys
<1> QED
  BY <1>5, <1>7, <1>8, <1>10, <1>11 DEF SurveyInv

-----------------------------------------------------------------------------
(* Each step of a reader keeps it. *)

\* What a reader has to show of its own variables.
LEMMA StillTypes ==
  ASSUME SurveyTypes, SurveyStill,
         stage' \in Stages, cursor' \in Nat, todo' \subseteq SurveyPids,
         cur' \in Entries, map' \in Entries, rows' \in Seq(Entries)
  PROVE  SurveyTypes'
  BY StillFrame DEF SurveyTypes, SurveyStill

\* It is enough to look at the records that are new.
LEMMA StillHolders ==
  ASSUME HoldersInv, SurveyStill,
         \A r \in Noted' \ Noted : NoneToCome(r) /\ Survey!OneHolder(r)
  PROVE  HoldersInv'
<1>1. ASSUME NEW r \in Noted'
      PROVE  NoneToCome(r)' /\ Survey!OneHolder(r)'
  <2>1. NoneToCome(r) /\ Survey!OneHolder(r)
    BY DEF HoldersInv
  <2> QED
    BY <2>1, StillFrame
<1> QED
  BY <1>1 DEF HoldersInv

\* The same of what they say about survivors.
LEMMA StillOwn ==
  ASSUME OwnInv, SurveyStill,
         \A r \in (Survey!Rows \cup {cur})' \ (Survey!Rows \cup {cur}) :
            tool # "top" => Own(r, Survey!Files),
         map' # map /\ tool # "top" => Own(map', Survey!MapFiles)
  PROVE  OwnInv'
<1> SUFFICES ASSUME tool # "top"
             PROVE  /\ \A r \in (Survey!Rows \cup {cur})' : Own(r, Survey!Files)'
                    /\ Own(map, Survey!MapFiles)'
  BY DEF OwnInv, SurveyStill
<1>1. ASSUME NEW r \in (Survey!Rows \cup {cur})'
      PROVE  Own(r, Survey!Files)'
  <2>1. Own(r, Survey!Files)
    BY DEF OwnInv
  <2> QED
    BY <2>1, StillFrame DEF Own, SurveyStill, InNs
<1>2. Own(map', Survey!MapFiles)
  BY DEF OwnInv
<1>3. Own(map, Survey!MapFiles)'
  BY <1>2 DEF Own, SurveyStill, Survey!MapFiles, InNs
<1> QED
  BY <1>1, <1>3

\* A row is one of the records in the list.
LEMMA RowsFacts ==
  ASSUME SurveyTypes, NEW r \in Survey!Rows
  PROVE  /\ r \in Entries
         /\ \E k \in 1..Len(rows) : r = rows[k]
         /\ \E k \in DOMAIN rows : r = rows[k]
  BY DEF SurveyTypes, Survey!Rows

\* The next entry of the listing: no pid ahead is passed over.
LEMMA ReadDirEntryKeeps ==
  ASSUME SurveyInv, SurveyStill, NEW p \in SurveyPids, Survey!ReadDirEntry(p)
  PROVE  SurveyInv'
<1> USE DEF SurveyInv
<1>1. /\ stage = "readdir" /\ p \in Survey!Ahead /\ \A q \in Survey!Ahead : p <= q
      /\ cursor' = p /\ todo' = todo \cup {p}
      /\ UNCHANGED <<stage, cur, rows, map>>
  BY DEF Survey!ReadDirEntry
<1>2. p \in Nat /\ p > cursor /\ cursor \in Nat
  BY <1>1, SurveyPidsAssumption DEF Survey!Ahead, SurveyTypes
<1>3. SurveyTypes'
  BY <1>1, <1>2, StillTypes DEF SurveyTypes
<1>4. Survey!Rows' = Survey!Rows
  BY <1>1 DEF Survey!Rows
<1>5. SurveyPlaces'
  BY <1>1, StillFrame DEF SurveyPlaces, SurveyStill
<1>6. HoldersInv' /\ OwnInv'
  BY <1>1, <1>4, StillHolders, StillOwn DEF Noted
<1>7. ASSUME NEW m \in lived, m[1] > cursor
      PROVE  m[1] = p \/ m[1] > p
  <2>1. m[1] \in Survey!Ahead /\ m[1] \in Nat
    BY <1>7, LivedFacts DEF Survey!Ahead
  <2> QED
    BY <1>1, <1>2, <2>1
<1>8. AllUnmissed'
  BY <1>1, <1>4, <1>7 DEF AllUnmissed, Unmissed, SurveyStill
<1>9. TopPids => TopPids'
  <2> SUFFICES ASSUME TopPids
               PROVE  TopPids'
    OBVIOUS
  <2>1. \A q \in todo : q \in Nat
    BY SurveyPidsAssumption DEF SurveyTypes
  <2>2. \A q \in todo' : q <= cursor'
    BY <1>1, <1>2, <2>1 DEF TopPids
  <2>3. ASSUME NEW r \in Survey!Rows
        PROVE  r.pid <= cursor' /\ r.pid \notin todo'
    <3>1. r.pid \in Nat
      BY RowsFacts, EntryFacts, SurveyPidsAssumption
    <3> QED
      BY <1>1, <1>2, <3>1 DEF TopPids
  <2> QED
    BY <1>1, <1>4, <2>2, <2>3 DEF TopPids
<1>10. ASSUME NEW m \in lived, Ranked(m)
       PROVE  Ranked(m)'
  BY <1>1, <1>4, <1>7, <1>10 DEF Ranked
<1>11. TopInv'
  BY <1>1, <1>9, <1>10 DEF TopInv, Ordered, SurveyStill
<1> QED
  BY <1>3, <1>5, <1>6, <1>8, <1>11

\* The end of the listing, or of readdir's buffer.
LEMMA ReadDirEndKeeps ==
  ASSUME SurveyInv, SurveyStill, Survey!ReadDirEnd
  PROVE  SurveyInv'
<1> USE DEF SurveyInv
<1>1. /\ stage = "readdir" /\ stage' = "next"
      /\ tool # "top" => Survey!Ahead = {}
      /\ UNCHANGED <<cursor, todo, cur, rows, map>>
  BY DEF Survey!ReadDirEnd
<1>2. SurveyTypes'
  BY <1>1, StillTypes DEF SurveyTypes, Stages
<1>3. Survey!Rows' = Survey!Rows
  BY <1>1 DEF Survey!Rows
<1>4. SurveyPlaces'
  BY <1>1, StillFrame DEF SurveyPlaces, SurveyStill
<1>5. HoldersInv' /\ OwnInv'
  BY <1>1, <1>3, StillHolders, StillOwn DEF Noted
<1>6. ASSUME NEW m \in lived, m[1] > cursor
      PROVE  tool = "top"
  <2>1. m[1] \in Survey!Ahead
    BY <1>6, LivedFacts DEF Survey!Ahead
  <2> QED
    BY <1>1, <2>1
<1>7. AllUnmissed'
  BY <1>1, <1>3, <1>6 DEF AllUnmissed, Unmissed, SurveyStill
<1>8. TopInv'
  <2>1. ASSUME NEW m \in lived, Ranked(m)
        PROVE  Ranked(m)'
    BY <1>1, <1>3, <2>1 DEF Ranked
  <2> QED
    BY <1>1, <1>3, <2>1 DEF TopInv, TopPids, Ordered, SurveyStill
<1> QED
  BY <1>2, <1>4, <1>5, <1>7, <1>8

\* There is no listing.
LEMMA ReadDirErrorKeeps ==
  ASSUME SurveyInv, SurveyStill, Survey!ReadDirError
  PROVE  SurveyInv'
<1> USE DEF SurveyInv
<1>1. /\ stage = "readdir"
      /\ stage' = IF tool # "inspector" THEN "failed" ELSE IF given = {} THEN "done" ELSE "map"
      /\ UNCHANGED <<cursor, todo, cur, rows, map>>
  BY DEF Survey!ReadDirError
<1>2. SurveyTypes'
  BY <1>1, StillTypes DEF SurveyTypes, Stages
<1>3. Survey!Rows' = Survey!Rows
  BY <1>1 DEF Survey!Rows
<1>4. /\ tool \in Survey!Surveys /\ map = Survey!NoRecord
      /\ tool # "top" => rows = <<>>
  BY <1>1 DEF SurveyPlaces
<1>5. Len(Survey!NoRecord.from) < Len(Survey!MapFiles)
  BY MapFilesFacts, NoRecordFacts
<1>6. SurveyPlaces'
  BY <1>1, <1>4, <1>5, StillFrame DEF SurveyPlaces, SurveyStill, Survey!Surveys
<1>7. HoldersInv' /\ OwnInv'
  BY <1>1, <1>3, StillHolders, StillOwn DEF Noted
<1>8. AllUnmissed'
  BY <1>1, <1>4 DEF AllUnmissed, SurveyStill
<1>9. TopInv'
  BY <1>1, <1>3 DEF TopInv, TopPids, Ordered, SurveyStill
<1> QED
  BY <1>2, <1>6, <1>7, <1>8, <1>9

\* The next of the pids listed or given.
LEMMA NextPidKeeps ==
  ASSUME SurveyInv, SurveyStill, NEW p \in SurveyPids, Survey!NextPid(p)
  PROVE  SurveyInv'
<1> USE DEF SurveyInv
<1>1. /\ stage = "next" /\ stage' = "read" /\ p \in todo /\ todo' = todo \ {p}
      /\ cur' = [Survey!NoRecord EXCEPT !.pid = p]
      /\ UNCHANGED <<cursor, rows, map>>
  BY DEF Survey!NextPid, Survey!IsNext
<1>2. cur' = [pid |-> p, from |-> <<>>, val |-> <<>>]
  BY <1>1 DEF Survey!NoRecord
<1>3. /\ cur' \in Entries /\ cur'.pid = p /\ cur'.from = <<>>
      /\ Len(cur'.from) = 0 /\ Len(cur'.val) = 0
  BY <1>2, BlankEntry
<1>4. SurveyTypes'
  BY <1>1, <1>3, StillTypes DEF SurveyTypes, Stages
<1>5. Survey!Rows' = Survey!Rows
  BY <1>1 DEF Survey!Rows
<1>6. SurveyPlaces'
  <2>1. \E n \in 0..Len(Survey!Files) - 1 : HasRead(cur', n)
    <3>1. HasRead(cur', 0)
      BY <1>3 DEF HasRead
    <3>2. Len(Survey!Files) \in Nat \ {0}
      BY FilesFacts
    <3> QED
      BY <3>1, <3>2
  <2>2. \E n \in 0..Len(Survey!Files') - 1 : HasRead(cur', n)
    BY <2>1, StillFrame
  <2>3. tool \notin Survey!Surveys =>
            todo' \subseteq given /\ (tool = "mountinfo" => todo' = {})
    BY <1>1 DEF SurveyPlaces
  <2> QED
    BY <1>1, <2>2, <2>3, StillFrame DEF SurveyPlaces, SurveyStill
<1>7. NoneToCome(cur') /\ Survey!OneHolder(cur') /\ Own(cur', Survey!Files)
  BY <1>3, BlankHolds
<1>8. HoldersInv'
  BY <1>1, <1>5, <1>7, StillHolders DEF Noted
<1>9. OwnInv'
  BY <1>1, <1>5, <1>7, StillOwn
<1>10. AllUnmissed'
  BY <1>1, <1>3, <1>5 DEF AllUnmissed, Unmissed, SurveyStill
<1>11. TopInv'
  <2>1. ASSUME NEW m \in lived, Ranked(m)
        PROVE  Ranked(m)'
    BY <1>1, <1>3, <1>5, <2>1 DEF Ranked
  <2>2. TopPids => TopPids'
    BY <1>1, <1>3, <1>5 DEF TopPids
  <2> QED
    BY <1>1, <1>3, <2>1, <2>2 DEF TopInv, Ordered, SurveyStill
<1> QED
  BY <1>4, <1>6, <1>8, <1>9, <1>10, <1>11

\* The end, the next buffer, or the inspector's own table.
LEMMA NoPidLeftKeeps ==
  ASSUME SurveyInv, SurveyStill, Survey!NoPidLeft
  PROVE  SurveyInv'
<1> USE DEF SurveyInv
<1>1. /\ stage = "next" /\ todo = {}
      /\ stage' = IF tool = "top" /\ Survey!Ahead # {} THEN "readdir"
                  ELSE IF tool = "inspector" /\ given # {} THEN "map" ELSE "done"
      /\ UNCHANGED <<cursor, todo, cur, rows, map>>
  BY DEF Survey!NoPidLeft
<1>2. SurveyTypes'
  BY <1>1, StillTypes DEF SurveyTypes, Stages
<1>3. Survey!Rows' = Survey!Rows
  BY <1>1 DEF Survey!Rows
<1>4. Len(Survey!NoRecord.from) < Len(Survey!MapFiles)
  BY MapFilesFacts, NoRecordFacts
<1>5. map = Survey!NoRecord
  BY <1>1 DEF SurveyPlaces
<1>6. SurveyPlaces'
  BY <1>1, <1>4, <1>5, StillFrame DEF SurveyPlaces, SurveyStill, Survey!Surveys
<1>7. HoldersInv' /\ OwnInv'
  BY <1>1, <1>3, StillHolders, StillOwn DEF Noted
<1>8. AllUnmissed'
  BY <1>1, <1>3 DEF AllUnmissed, Unmissed, SurveyStill
<1>9. TopInv'
  <2>1. ASSUME NEW m \in lived, tool = "top", Ranked(m)
        PROVE  Ranked(m)'
    <3>1. m[1] > cursor => Survey!Ahead # {}
      BY LivedFacts DEF Survey!Ahead
    <3> QED
      BY <1>1, <1>3, <2>1, <3>1 DEF Ranked
  <2> QED
    BY <1>1, <1>3, <2>1 DEF TopInv, TopPids, Ordered, SurveyStill
<1> QED
  BY <1>2, <1>6, <1>7, <1>8, <1>9

-----------------------------------------------------------------------------
(* Reading a file. *)

\* The file ReadFile opens, and the record with it.
NextFile == Survey!Files[Len(cur.from) + 1]
NextRecord ==
    Grown(cur, cur.pid, Survey!From(cur.pid, NextFile), Survey!Value(cur.pid, NextFile))

\* A file is missing, one of those to read, or the last of them.
LEMMA ReadFileCases ==
  ASSUME SurveyTypes, Survey!ReadFile
  PROVE  /\ stage = "read" /\ UNCHANGED <<cursor, todo, map>>
         /\ \/ /\ Survey!Missing(cur.pid, NextFile)
               /\ stage' = Survey!AfterMissing(NextFile)
               /\ cur' = Survey!NoRecord /\ UNCHANGED rows
            \/ /\ Len(NextRecord.from) # Len(Survey!Files)
               /\ cur' = NextRecord /\ UNCHANGED <<stage, rows>>
            \/ /\ Len(NextRecord.from) = Len(Survey!Files)
               /\ rows' = IF tool = "top" THEN Survey!Insert(rows, NextRecord)
                          ELSE Append(rows, NextRecord)
               /\ stage' = "next" /\ cur' = Survey!NoRecord
<1>1. cur = [pid |-> cur.pid, from |-> cur.from, val |-> cur.val]
  BY EntryFacts DEF SurveyTypes
<1>2. [cur EXCEPT !.from = Append(@, Survey!From(cur.pid, NextFile)),
                  !.val = Append(@, Survey!Value(cur.pid, NextFile))] = NextRecord
  <2> DEFINE a == Append(cur.from, Survey!From(cur.pid, NextFile))
             b == Append(cur.val, Survey!Value(cur.pid, NextFile))
  <2>1. [cur EXCEPT !.from = a] = [pid |-> cur.pid, from |-> a, val |-> cur.val]
    <3> HIDE DEF a
    <3> QED
      BY <1>1
  <2>2. [[pid |-> cur.pid, from |-> a, val |-> cur.val] EXCEPT !.val = b]
        = [pid |-> cur.pid, from |-> a, val |-> b]
    <3> HIDE DEF a, b
    <3> QED
      OBVIOUS
  <2>3. [cur EXCEPT !.from = a, !.val = b] = [[cur EXCEPT !.from = a] EXCEPT !.val = b]
    <3> HIDE DEF a, b
    <3> QED
      BY <1>1
  <2> QED
    BY <2>1, <2>2, <2>3 DEF NextRecord, Grown
<1> QED
  BY <1>2 DEF Survey!ReadFile, Survey!Complete, NextFile

\* The record with that file is still of one holder.
LEMMA NextRecordFacts ==
  ASSUME SurveyInv, stage = "read"
  PROVE  LET n == Len(cur.from)
         IN  /\ n \in 0..Len(Survey!Files) - 1 /\ n \in Nat /\ cur.pid \in SurveyPids
             /\ n + 1 \in 1..Len(Survey!Files)
             /\ NextRecord \in Entries /\ NextRecord.pid = cur.pid
             /\ Len(NextRecord.from) = n + 1 /\ Len(NextRecord.val) = n + 1
             /\ \A k \in 1..n : /\ NextRecord.from[k] = cur.from[k]
                                /\ NextRecord.val[k] = cur.val[k]
             /\ NextRecord.from[n + 1] = Survey!From(cur.pid, NextFile)
             /\ NextRecord.val[n + 1] = Survey!Value(cur.pid, NextFile)
             /\ NoneToCome(NextRecord) /\ Survey!OneHolder(NextRecord)
             /\ tool # "top" => Own(NextRecord, Survey!Files)
<1> DEFINE n == Len(cur.from)
<1> USE DEF SurveyInv
<1>1. PICK i \in 0..Len(Survey!Files) - 1 : HasRead(cur, i)
  BY DEF SurveyPlaces
<1>2. Len(Survey!Files) \in Nat \ {0}
  BY FilesFacts
<1>3. /\ n \in 0..Len(Survey!Files) - 1 /\ n \in Nat /\ Len(cur.val) = n
      /\ cur.pid \in SurveyPids /\ n + 1 \in 1..Len(Survey!Files)
  BY <1>1, <1>2 DEF HasRead
<1>4. cur \in Entries /\ NoneToCome(cur) /\ Survey!OneHolder(cur)
  BY DEF SurveyTypes, HoldersInv, Noted
<1>5. tool # "top" => Own(cur, Survey!Files)
  BY DEF OwnInv
<1>6. LET s == Grown(cur, cur.pid, Survey!From(cur.pid, Survey!Files[n + 1]),
                     Survey!Value(cur.pid, Survey!Files[n + 1]))
      IN  /\ s \in Entries /\ s.pid = cur.pid /\ Len(s.from) = n + 1 /\ Len(s.val) = n + 1
          /\ \A k \in 1..n : s.from[k] = cur.from[k] /\ s.val[k] = cur.val[k]
          /\ s.from[n + 1] = Survey!From(cur.pid, Survey!Files[n + 1])
          /\ s.val[n + 1] = Survey!Value(cur.pid, Survey!Files[n + 1])
          /\ NoneToCome(s) /\ Survey!OneHolder(s)
          /\ tool # "top" => Own(s, Survey!Files)
  BY <1>3, <1>4, <1>5, ReadKeepsHolder
<1> QED
  BY <1>3, <1>6 DEF NextRecord, NextFile

\* The file is not there: the pid is passed over.
LEMMA MissingKeeps ==
  ASSUME SurveyInv, SurveyStill, stage = "read", UNCHANGED <<cursor, todo, map, rows>>,
         Survey!Missing(cur.pid, NextFile),
         stage' = Survey!AfterMissing(NextFile), cur' = Survey!NoRecord
  PROVE  SurveyInv'
<1> USE DEF SurveyInv
<1>1. /\ cur.pid \in SurveyPids /\ Len(cur.from) + 1 \in 1..Len(Survey!Files)
      /\ Len(cur.from) \in Nat
  BY NextRecordFacts
<1>2. /\ tool # "top" => table[cur.pid].st # "live"
      /\ tool = "top" /\ table[cur.pid].st = "live" => score[cur.pid] = 0
  BY <1>1, MissingFacts DEF NextFile
<1>3. stage' \in {"next", "failed"} /\ (stage' = "failed" => tool = "mountinfo")
  <2>1. NextFile = "mountinfo" => tool = "mountinfo"
    BY <1>1, FilesFacts DEF NextFile
  <2> QED
    BY <2>1 DEF Survey!AfterMissing
<1>4. SurveyTypes'
  BY <1>3, NoRecordFacts, StillTypes DEF SurveyTypes, Stages
<1>5. Survey!Rows' = Survey!Rows
  BY DEF Survey!Rows
<1>6. SurveyPlaces'
  BY <1>3, StillFrame DEF SurveyPlaces, SurveyStill
<1>7. HoldersInv' /\ OwnInv'
  BY <1>5, NoRecordFacts, BlankHolds, StillHolders, StillOwn DEF Noted
<1>8. ASSUME NEW m \in lived, m[1] = cur.pid
      PROVE  tool = "top" /\ m[3] = 0
  BY <1>2, <1>8, LivedFacts
<1>9. AllUnmissed'
  BY <1>3, <1>5, <1>8 DEF AllUnmissed, Unmissed, SurveyStill
<1>10. TopInv'
  <2>1. ASSUME NEW m \in lived, tool = "top", Ranked(m)
        PROVE  Ranked(m)'
    BY <1>3, <1>5, <1>8, <2>1 DEF Ranked
  <2> QED
    BY <1>3, <1>5, <2>1 DEF TopInv, TopPids, Ordered, SurveyStill
<1> QED
  BY <1>4, <1>6, <1>7, <1>9, <1>10

\* What the list of the highest scores has read of a process that lived since the call.
LEMMA ScoreRead ==
  ASSUME SurveyInv, stage = "read", tool = "top", NEW m \in lived, m[1] = cur.pid
  PROVE  NextRecord.from[1] = m[2] /\ NextRecord.val[1] = m[3]
<1> DEFINE n == Len(cur.from)
<1> USE DEF SurveyInv
<1>1. /\ n \in Nat /\ n \in 0..Len(Survey!Files) - 1 /\ cur.pid \in SurveyPids
      /\ \A k \in 1..n : NextRecord.from[k] = cur.from[k] /\ NextRecord.val[k] = cur.val[k]
      /\ NextRecord.from[n + 1] = Survey!From(cur.pid, NextFile)
      /\ NextRecord.val[n + 1] = Survey!Value(cur.pid, NextFile)
  BY NextRecordFacts
<1>2. Len(Survey!Files) = 2 /\ Survey!Files[1] = "oom_score"
  BY FilesFacts
<1>3. table[cur.pid].st = "live" /\ m[2] = table[cur.pid].inc /\ m[3] = score[cur.pid]
  BY LivedFacts
<1>4. CASE n = 0
  <2>1. NextFile = "oom_score" /\ "oom_score" \notin NsLinks
    BY <1>2, <1>4, LinksAssumption DEF NextFile
  <2>2. /\ Survey!From(cur.pid, NextFile) = table[cur.pid].inc
        /\ Survey!Value(cur.pid, NextFile) = score[cur.pid]
    BY <1>1, <1>3, <2>1, ReadFacts
  <2> QED
    BY <1>1, <1>3, <1>4, <2>2
<1>5. CASE n # 0
  <2>1. cur.from # <<>> /\ 1 \in 1..n
    BY <1>1, <1>5
  <2> QED
    BY <1>1, <2>1 DEF TopInv
<1> QED
  BY <1>4, <1>5

\* There are files left to read.
LEMMA GoesOnKeeps ==
  ASSUME SurveyInv, SurveyStill, stage = "read", UNCHANGED <<cursor, todo, map, rows, stage>>,
         Len(NextRecord.from) # Len(Survey!Files), cur' = NextRecord
  PROVE  SurveyInv'
<1> DEFINE n == Len(cur.from)
<1> USE DEF SurveyInv
<1>1. /\ n \in Nat /\ n \in 0..Len(Survey!Files) - 1 /\ cur.pid \in SurveyPids
      /\ NextRecord \in Entries /\ NextRecord.pid = cur.pid
      /\ Len(NextRecord.from) = n + 1 /\ Len(NextRecord.val) = n + 1
      /\ NoneToCome(NextRecord) /\ Survey!OneHolder(NextRecord)
      /\ tool # "top" => Own(NextRecord, Survey!Files)
  BY NextRecordFacts
<1>2. SurveyTypes'
  BY <1>1, StillTypes DEF SurveyTypes
<1>3. Survey!Rows' = Survey!Rows
  BY DEF Survey!Rows
<1>4. SurveyPlaces'
  <2>1. Len(Survey!Files) \in Nat
    BY FilesFacts
  <2>2. n + 1 \in 0..Len(Survey!Files) - 1 /\ HasRead(cur', n + 1)
    BY <1>1, <2>1 DEF HasRead
  <2>3. \E k \in 0..Len(Survey!Files') - 1 : HasRead(cur', k)
    BY <2>2, StillFrame
  <2> QED
    BY <2>3, StillFrame DEF SurveyPlaces, SurveyStill
<1>5. HoldersInv' /\ OwnInv'
  BY <1>1, <1>3, StillHolders, StillOwn DEF Noted
<1>6. AllUnmissed'
  BY <1>1, <1>3 DEF AllUnmissed, Unmissed, SurveyStill
<1>7. TopInv'
  <2>1. ASSUME NEW m \in lived, tool = "top", Ranked(m)
        PROVE  Ranked(m)'
    BY <1>1, <1>3, <2>1 DEF Ranked
  <2>2. TopPids => TopPids'
    BY <1>1, <1>3 DEF TopPids
  <2> QED
    BY <1>1, <1>3, <2>1, <2>2, ScoreRead DEF TopInv, Ordered, SurveyStill
<1> QED
  BY <1>2, <1>4, <1>5, <1>6, <1>7

\* The record is complete, and one more row of a report in the order of the reads.
LEMMA AppendKeeps ==
  ASSUME SurveyInv, SurveyStill, stage = "read", UNCHANGED <<cursor, todo, map>>,
         Len(NextRecord.from) = Len(Survey!Files), tool # "top",
         rows' = Append(rows, NextRecord), stage' = "next", cur' = Survey!NoRecord
  PROVE  SurveyInv'
<1> DEFINE n == Len(cur.from)
<1> USE DEF SurveyInv
<1>1. /\ n \in Nat /\ cur.pid \in SurveyPids
      /\ NextRecord \in Entries /\ NextRecord.pid = cur.pid
      /\ Len(NextRecord.from) = n + 1 /\ Len(NextRecord.val) = n + 1
      /\ NextRecord.from[n + 1] = Survey!From(cur.pid, NextFile)
      /\ NoneToCome(NextRecord) /\ Survey!OneHolder(NextRecord)
      /\ Own(NextRecord, Survey!Files)
  BY NextRecordFacts
<1>2. /\ rows' \in Seq(Entries) /\ Survey!Rows' = Survey!Rows \cup {NextRecord}
      /\ \A k \in DOMAIN rows' : rows'[k] = NextRecord \/ \E j \in DOMAIN rows : rows'[k] = rows[j]
  <2>1. rows \in Seq(Entries)
    BY DEF SurveyTypes
  <2> HIDE DEF SurveyInv
  <2>2. /\ rows' \in Seq(Entries) /\ Len(rows) \in Nat
        /\ DOMAIN rows = 1..Len(rows) /\ DOMAIN rows' = 1..Len(rows) + 1
        /\ \A k \in 1..Len(rows) : rows'[k] = rows[k]
        /\ rows'[Len(rows) + 1] = NextRecord
    BY <1>1, <2>1
  <2>3. \A k \in 1..Len(rows) + 1 : k \in 1..Len(rows) \/ k = Len(rows) + 1
    BY <2>2
  <2> QED
    BY <2>2, <2>3 DEF Survey!Rows
<1>3. SurveyTypes'
  BY <1>2, NoRecordFacts, StillTypes DEF SurveyTypes, Stages
<1>4. SurveyPlaces'
  <2>1. \A k \in DOMAIN rows' : HasRead(rows'[k], Len(Survey!Files))
    BY <1>1, <1>2 DEF HasRead, SurveyPlaces
  <2> QED
    BY <2>1, StillFrame DEF SurveyPlaces, SurveyStill
<1>5. HoldersInv'
  BY <1>1, <1>2, NoRecordFacts, BlankHolds, StillHolders DEF Noted
<1>6. OwnInv'
  BY <1>1, <1>2, NoRecordFacts, BlankHolds, StillOwn
<1>7. ASSUME NEW m \in lived, m[1] = cur.pid, tool # "walker" \/ root
      PROVE  Survey!Of(NextRecord) = <<m[1], m[2]>>
  <2>1. NextFile = Survey!Files[Len(Survey!Files)]
    BY <1>1 DEF NextFile
  <2>2. root \/ NextFile \notin NsLinks
    BY <1>7, <2>1, FilesFacts
  <2>3. /\ table[cur.pid].st = "live" /\ m[2] = table[cur.pid].inc
    BY <1>7, LivedFacts
  <2>4. Survey!From(cur.pid, NextFile) = m[2]
    BY <1>1, <2>2, <2>3, ReadFacts
  <2> QED
    BY <1>1, <1>7, <2>3, <2>4 DEF Survey!Of, Survey!Last
<1>8. AllUnmissed'
  BY <1>1, <1>2, <1>7 DEF AllUnmissed, Unmissed, SurveyStill, Survey!Surveys
<1>9. TopInv'
  BY DEF TopInv, SurveyStill
<1> QED
  BY <1>3, <1>4, <1>5, <1>6, <1>8, <1>9

-----------------------------------------------------------------------------
(* The insertion into the list of the highest scores. *)

\* A nonempty set of numbers has a least one.
LEMMA LeastNumber ==
  ASSUME NEW T \in SUBSET Nat, T # {}
  PROVE  \E x \in T : \A y \in T : x <= y
<1> DEFINE Below(x) == 0..x - 1
           R == StrictSubsetOrdering(Nat)
           S == FiniteSubsetsOf(Nat)
           U == {Below(x) : x \in T}
<1>1. \A x \in Nat : Below(x) \in S
  BY FS_Interval DEF FiniteSubsetsOf
<1>2. U \subseteq S /\ U # {}
  BY <1>1
<1>3. IsWellFoundedOn(R, S)
  BY FS_StrictSubsetOrderingWellFounded
<1>4. \E s \in U : \A t \in U : <<t, s>> \notin R
  <2> HIDE DEF R, S, U
  <2> QED
    BY <1>2, <1>3, WFMin
<1>5. PICK x \in T : \A y \in T : <<Below(y), Below(x)>> \notin R
  BY <1>4
<1>6. ASSUME NEW y \in T, Below(y) \subseteq Below(x)
      PROVE  Below(y) = Below(x)
  <2>1. Below(y) \in SUBSET Nat /\ Below(x) \in SUBSET Nat
    OBVIOUS
  <2>2. <<Below(y), Below(x)>> \notin R
    BY <1>5
  <2> HIDE DEF Below
  <2> QED
    BY <1>6, <2>1, <2>2 DEF StrictSubsetOrdering
<1>7. ASSUME NEW y \in T, y < x
      PROVE  FALSE
  <2>1. x \in Nat /\ y \in Nat
    OBVIOUS
  <2>2. Below(y) \subseteq Below(x) /\ y \in Below(x) /\ y \notin Below(y)
    BY <1>7, <2>1
  <2> QED
    BY <1>6, <2>2
<1> QED
  BY <1>7

Elements(list) == {list[k] : k \in DOMAIN list}

\* A list of records with a score.
Scored(list) == list \in Seq(Entries) /\ \A k \in 1..Len(list) : list[k].val[1] \in Nat

\* The place of a record is after those that are no lower, and before all others.
LEMMA PlaceFacts ==
  ASSUME NEW list, Scored(list), NEW r, r.val[1] \in Nat,
         NEW k, k = Survey!Place(list, r)
  PROVE  /\ k \in 1..Len(list) + 1
         /\ \A j \in k..Len(list) : list[j].val[1] < r.val[1]
         /\ k > 1 => list[k - 1].val[1] >= r.val[1]
<1> DEFINE Below(i) == \A j \in i..Len(list) : list[j].val[1] < r.val[1]
           T == {i \in 1..Len(list) + 1 : Below(i)}
<1>1. Len(list) \in Nat /\ \A j \in 1..Len(list) : list[j].val[1] \in Nat
  BY DEF Scored
<1>2. T \in SUBSET Nat /\ Len(list) + 1 \in T
  BY <1>1
<1>3. \E x \in T : \A y \in T : x <= y
  <2> HIDE DEF T
  <2> QED
    BY <1>2, LeastNumber
<1>4. k \in T /\ \A y \in T : k <= y
  <2>1. k = CHOOSE x \in T : \A y \in T : x =< y
    BY DEF Survey!Place, Survey!Min
  <2> HIDE DEF T
  <2> QED
    BY <1>3, <2>1
<1>5. ASSUME k > 1, ~(list[k - 1].val[1] >= r.val[1])
      PROVE  FALSE
  <2>1. k \in Nat /\ k - 1 \in 1..Len(list)
    BY <1>1, <1>4, <1>5
  <2>2. list[k - 1].val[1] < r.val[1]
    BY <1>1, <1>5, <2>1
  <2>3. \A j \in k - 1..Len(list) : j = k - 1 \/ j \in k..Len(list)
    BY <1>1, <2>1
  <2>4. Below(k - 1)
    BY <1>4, <2>2, <2>3
  <2>5. k - 1 \in T
    BY <2>1, <2>4
  <2> QED
    BY <1>4, <2>1, <2>5
<1> QED
  BY <1>4, <1>5

\* Where the elements are after an insertion at place k.
IsInserted(L, list, k, r) ==
    /\ L \in Seq(Entries) /\ Len(L) = Len(list) + 1
    /\ \A j \in 1..Len(list) : j < k => L[j] = list[j]
    /\ L[k] = r
    /\ \A j \in 1..Len(list) : j >= k => L[j + 1] = list[j]

\* InsertAt puts them there.
LEMMA InsertAtFacts ==
  ASSUME NEW list \in Seq(Entries), NEW r \in Entries, NEW k \in 1..Len(list) + 1,
         NEW L, L = Survey!InsertAt(list, k, r)
  PROVE  IsInserted(L, list, k, r)
<1> DEFINE n == Len(list)
           a == SubSeq(list, 1, k - 1)
           b == SubSeq(list, k, n)
<1>1. n \in Nat /\ k \in Nat
  OBVIOUS
<1>2. a \in Seq(Entries) /\ Len(a) = k - 1 /\ \A j \in 1..k - 1 : a[j] = list[j]
  BY <1>1
<1>3. b \in Seq(Entries) /\ Len(b) = n - k + 1 /\ \A j \in 1..n - k + 1 : b[j] = list[j + k - 1]
  BY <1>1
<1>4. L = (a \o <<r>>) \o b
  BY DEF Survey!InsertAt
<1> HIDE DEF a, b
<1>5. /\ a \o <<r>> \in Seq(Entries) /\ Len(a \o <<r>>) = k
      /\ \A j \in 1..k - 1 : (a \o <<r>>)[j] = list[j]
      /\ (a \o <<r>>)[k] = r
  BY <1>1, <1>2
<1> DEFINE c == a \o <<r>>
<1> HIDE DEF c
<1>6. /\ c \in Seq(Entries) /\ Len(c) = k /\ L = c \o b
      /\ \A j \in 1..k - 1 : c[j] = list[j]
      /\ c[k] = r
  BY <1>4, <1>5 DEF c
<1>7. L \in Seq(Entries) /\ Len(L) = n + 1
  BY <1>1, <1>3, <1>6
<1>8. /\ \A j \in 1..k : L[j] = c[j]
      /\ \A j \in k + 1..n + 1 : L[j] = b[j - k]
  BY <1>1, <1>3, <1>6
<1>9. ASSUME NEW j \in 1..n, j < k
      PROVE  L[j] = list[j]
  BY <1>1, <1>6, <1>8, <1>9
<1>10. ASSUME NEW j \in 1..n, j >= k
       PROVE  L[j + 1] = list[j]
  <2>1. j + 1 \in k + 1..n + 1 /\ j + 1 - k \in 1..n - k + 1
    BY <1>1, <1>10
  <2> QED
    BY <1>1, <1>3, <1>8, <2>1
<1>11. L[k] = r
  BY <1>1, <1>6, <1>8
<1> QED
  BY <1>7, <1>9, <1>10, <1>11 DEF IsInserted

\* An ordered list stays one, and has the record in addition.
LEMMA InsertedFacts ==
  ASSUME NEW list, Scored(list), NEW r \in Entries, r.val[1] \in Nat, Ordered(list),
         \A e \in Elements(list) : e.pid # r.pid,
         NEW L, L = Survey!InsertAt(list, Survey!Place(list, r), r)
  PROVE  /\ L \in Seq(Entries) /\ Len(L) = Len(list) + 1
         /\ Ordered(L) /\ Elements(L) = Elements(list) \cup {r}
<1> DEFINE k == Survey!Place(list, r)
           n == Len(list)
<1> HIDE DEF k
<1>1. list \in Seq(Entries) /\ n \in Nat /\ \A j \in 1..n : list[j].val[1] \in Nat
  BY DEF Scored
<1>2. /\ k \in 1..n + 1
      /\ \A j \in k..n : list[j].val[1] < r.val[1]
      /\ k > 1 => list[k - 1].val[1] >= r.val[1]
  BY PlaceFacts DEF k
<1>3. /\ L \in Seq(Entries) /\ Len(L) = n + 1
      /\ \A j \in 1..n : j < k => L[j] = list[j]
      /\ L[k] = r
      /\ \A j \in 1..n : j >= k => L[j + 1] = list[j]
  <2>1. L = Survey!InsertAt(list, k, r)
    BY DEF k
  <2>2. list \in Seq(Entries) /\ r \in Entries /\ k \in 1..Len(list) + 1
    BY <1>1, <1>2
  <2>3. IsInserted(L, list, k, r)
    BY <2>1, <2>2, InsertAtFacts
  <2> QED
    BY <2>3 DEF IsInserted
<1>4. DOMAIN list = 1..n /\ DOMAIN L = 1..n + 1
  BY <1>1, <1>3
\* Where each element of L comes from.
<1>5. ASSUME NEW j \in 1..n + 1
      PROVE  \/ j < k /\ j \in 1..n /\ L[j] = list[j]
             \/ j = k /\ L[j] = r
             \/ j > k /\ j - 1 \in 1..n /\ L[j] = list[j - 1]
  <2>1. CASE j < k
    BY <1>1, <1>2, <1>3, <2>1
  <2>2. CASE j = k
    BY <1>3, <2>2
  <2>3. CASE j > k
    <3>1. j - 1 \in 1..n /\ j - 1 >= k /\ (j - 1) + 1 = j
      BY <1>1, <1>2, <2>3
    <3> QED
      BY <1>3, <2>3, <3>1
  <2> QED
    BY <1>1, <1>2, <2>1, <2>2, <2>3
<1>6. \A i, j \in 1..n : i <= j => list[i].val[1] >= list[j].val[1]
  BY <1>1, <1>4 DEF Ordered
<1>7. \A j \in 1..n : j < k => list[j].val[1] >= r.val[1]
  <2> SUFFICES ASSUME NEW j \in 1..n, j < k
               PROVE  list[j].val[1] >= r.val[1]
    OBVIOUS
  <2>1. k - 1 \in 1..n /\ j <= k - 1 /\ k > 1
    BY <1>1, <1>2
  <2>2. list[j].val[1] >= list[k - 1].val[1] /\ list[k - 1].val[1] >= r.val[1]
    BY <1>2, <1>6, <2>1
  <2> QED
    BY <1>1, <2>1, <2>2
<1>8. \A j \in 1..n : list[j] \in Elements(list) /\ list[j].pid # r.pid
  BY <1>4 DEF Elements
<1>9. ASSUME NEW i \in 1..n + 1, NEW j \in 1..n + 1, i < j
      PROVE  L[i].val[1] >= L[j].val[1] /\ L[i].pid # L[j].pid
  <2>1. CASE j < k
    <3>1. i \in 1..n /\ j \in 1..n /\ L[i] = list[i] /\ L[j] = list[j]
      BY <1>1, <1>2, <1>5, <1>9, <2>1
    <3> QED
      BY <1>4, <1>9, <3>1 DEF Ordered
  <2>2. CASE j = k
    <3>1. i \in 1..n /\ i < k /\ L[i] = list[i] /\ L[j] = r
      BY <1>1, <1>2, <1>5, <1>9, <2>2
    <3> QED
      BY <1>7, <1>8, <3>1
  <2>3. CASE j > k /\ i = k
    <3>1. j - 1 \in 1..n /\ j - 1 \in k..n /\ L[i] = r /\ L[j] = list[j - 1]
      BY <1>1, <1>2, <1>5, <1>9, <2>3
    <3>2. list[j - 1].val[1] < r.val[1]
      BY <1>2, <3>1
    <3> QED
      BY <1>1, <1>8, <3>1, <3>2
  <2>4. CASE j > k /\ i < k
    <3>1. i \in 1..n /\ j - 1 \in 1..n /\ i < j - 1 /\ L[i] = list[i] /\ L[j] = list[j - 1]
      BY <1>1, <1>2, <1>5, <1>9, <2>4
    <3> QED
      BY <1>4, <3>1 DEF Ordered
  <2>5. CASE j > k /\ i > k
    <3>1. /\ i - 1 \in 1..n /\ j - 1 \in 1..n /\ i - 1 < j - 1
          /\ L[i] = list[i - 1] /\ L[j] = list[j - 1]
      BY <1>1, <1>2, <1>5, <1>9, <2>5
    <3> QED
      BY <1>4, <3>1 DEF Ordered
  <2> QED
    BY <1>1, <1>2, <2>1, <2>2, <2>3, <2>4, <2>5
<1>10. Ordered(L)
  BY <1>4, <1>9 DEF Ordered
<1>11. Elements(L) = Elements(list) \cup {r}
  <2>1. Elements(L) \subseteq Elements(list) \cup {r}
    BY <1>4, <1>5 DEF Elements
  <2>2. r \in Elements(L)
    BY <1>1, <1>2, <1>3, <1>4 DEF Elements
  <2>3. ASSUME NEW j \in 1..n
        PROVE  list[j] \in Elements(L)
    <3>1. CASE j < k
      BY <1>1, <1>3, <1>4, <3>1 DEF Elements
    <3>2. CASE j >= k
      <4>1. j + 1 \in 1..n + 1 /\ L[j + 1] = list[j]
        BY <1>1, <1>3, <3>2
      <4> QED
        BY <1>4, <4>1 DEF Elements
    <3> QED
      BY <1>1, <1>2, <3>1, <3>2
  <2> QED
    BY <1>4, <2>1, <2>2, <2>3 DEF Elements
<1> QED
  BY <1>3, <1>10, <1>11

(***************************************************************************)
(* The list after a record has been put into it: in order, no longer than  *)
(* TopN, and full of scores no lower than those of who is left out.        *)
(***************************************************************************)
LEMMA InsertFacts ==
  ASSUME NEW list, Scored(list), NEW r \in Entries, r.val[1] \in Nat, Ordered(list),
         Len(list) <= TopN, \A e \in Elements(list) : e.pid # r.pid,
         NEW L, L = Survey!Insert(list, r)
  PROVE  /\ L \in Seq(Entries) /\ Len(L) <= TopN /\ Ordered(L)
         /\ Elements(L) \subseteq Elements(list) \cup {r}
         /\ \A e \in (Elements(list) \cup {r}) \ Elements(L) :
                Len(L) = TopN /\ \A d \in Elements(L) : d.val[1] >= e.val[1]
         /\ Len(list) = TopN =>
                Len(L) = TopN /\ \A d \in Elements(L) \ Elements(list) :
                                     \E e \in Elements(list) : d.val[1] > e.val[1]
<1> DEFINE n == Len(list)
           last == list[n]
<1>1. /\ list \in Seq(Entries) /\ n \in Nat /\ DOMAIN list = 1..n
      /\ \A k \in 1..n : list[k].val[1] \in Nat
      /\ TopN \in Nat \ {0}
  BY TopNAssumption DEF Scored
<1>2. CASE n # TopN
  <2>1. L = Survey!InsertAt(list, Survey!Place(list, r), r)
    BY <1>2 DEF Survey!Insert
  <2>2. /\ L \in Seq(Entries) /\ Len(L) = n + 1
        /\ Ordered(L) /\ Elements(L) = Elements(list) \cup {r}
    BY <2>1, InsertedFacts
  <2>3. n <= TopN /\ n # TopN
    BY <1>2
  <2>4. n + 1 <= TopN
    BY <1>1, <2>3
  <2> HIDE DEF n
  <2> QED
    BY <2>2, <2>3, <2>4 DEF n
<1>3. CASE n = TopN /\ ~(r.val[1] > last.val[1])
  <2>1. L = list
    BY <1>3 DEF Survey!Insert, Survey!Last
  <2>2. ASSUME NEW d \in Elements(list)
        PROVE  d.val[1] >= r.val[1]
    <3>1. PICK k \in 1..n : d = list[k]
      BY <1>1 DEF Elements
    <3>2. list[k].val[1] >= last.val[1] /\ n \in 1..n
      BY <1>1, <1>3, <3>1 DEF Ordered
    <3> QED
      BY <1>1, <1>3, <3>1, <3>2
  <2> QED
    BY <1>1, <1>3, <2>1, <2>2
<1>4. CASE n = TopN /\ r.val[1] > last.val[1]
  <2> DEFINE front == SubSeq(list, 1, n - 1)
  <2>1. /\ front \in Seq(Entries) /\ Len(front) = n - 1 /\ DOMAIN front = 1..n - 1
        /\ \A k \in 1..n - 1 : k \in 1..n /\ front[k] = list[k]
        /\ n \in 1..n
    BY <1>1, <1>4
  <2>2. L = Survey!InsertAt(front, Survey!Place(front, r), r)
    BY <1>4 DEF Survey!Insert, Survey!Last, Survey!Front
  <2> HIDE DEF front
  <2>3. Scored(front) /\ Ordered(front)
    BY <1>1, <2>1 DEF Scored, Ordered
  <2>4. Elements(list) = Elements(front) \cup {last}
    <3>1. \A k \in 1..n : k \in 1..n - 1 \/ k = n
      BY <1>1
    <3> QED
      BY <1>1, <2>1, <3>1 DEF Elements
  <2>5. /\ L \in Seq(Entries) /\ Len(L) = (n - 1) + 1
        /\ Ordered(L) /\ Elements(L) = Elements(front) \cup {r}
    BY <2>1, <2>2, <2>3, <2>4, InsertedFacts
  <2>6. ASSUME NEW d \in Elements(L)
        PROVE  d.val[1] >= last.val[1]
    <3>1. CASE d = r
      BY <1>1, <1>4, <2>1, <3>1
    <3>2. CASE d \in Elements(front)
      <4>1. PICK k \in 1..n - 1 : d = list[k]
        BY <2>1, <3>2 DEF Elements
      <4>2. k \in DOMAIN list /\ n \in DOMAIN list /\ k < n
        BY <1>1, <2>1
      <4> QED
        BY <4>1, <4>2 DEF Ordered
    <3> QED
      BY <2>5, <3>1, <3>2
  <2>7. last \in Elements(list)
    BY <1>1, <2>1 DEF Elements
  <2> QED
    BY <1>1, <1>4, <2>4, <2>5, <2>6, <2>7
<1> QED
  BY <1>2, <1>3, <1>4

\* The record is complete, and one more of the highest scores, or of those too low.
LEMMA InsertKeeps ==
  ASSUME SurveyInv, SurveyStill, stage = "read", UNCHANGED <<cursor, todo, map>>,
         Len(NextRecord.from) = Len(Survey!Files), tool = "top",
         rows' = Survey!Insert(rows, NextRecord), stage' = "next", cur' = Survey!NoRecord
  PROVE  SurveyInv'
<1> DEFINE n == Len(cur.from)
<1> USE DEF SurveyInv
<1>1. /\ n \in Nat /\ cur.pid \in SurveyPids
      /\ NextRecord \in Entries /\ NextRecord.pid = cur.pid
      /\ Len(NextRecord.from) = n + 1 /\ Len(NextRecord.val) = n + 1
      /\ NoneToCome(NextRecord) /\ Survey!OneHolder(NextRecord)
  BY NextRecordFacts
<1>2. Len(Survey!Files) = 2
  BY FilesFacts
<1>3. /\ rows \in Seq(Entries) /\ DOMAIN rows = 1..Len(rows)
      /\ Len(rows) <= TopN /\ Ordered(rows) /\ TopPids
      /\ \A k \in 1..Len(rows) : HasRead(rows[k], 2)
  BY <1>2 DEF SurveyTypes, TopInv, SurveyPlaces
<1>4. \A r \in Entries : Len(r.val) = 2 => r.val[1] \in Nat
  BY EntryFacts
<1>5. Scored(rows)
  BY <1>3, <1>4 DEF Scored, HasRead
<1>6. NextRecord.val[1] \in Nat
  BY <1>1, <1>2, <1>4
<1>7. Survey!Rows = Elements(rows) /\ Survey!Rows' = Elements(rows')
  BY DEF Survey!Rows, Elements
<1>8. \A e \in Elements(rows) : e.pid # NextRecord.pid
  BY <1>1, <1>3, <1>7 DEF TopPids
<1>9. /\ rows' \in Seq(Entries) /\ Len(rows') <= TopN /\ Ordered(rows')
      /\ Elements(rows') \subseteq Elements(rows) \cup {NextRecord}
      /\ \A e \in (Elements(rows) \cup {NextRecord}) \ Elements(rows') :
             Len(rows') = TopN /\ \A d \in Elements(rows') : d.val[1] >= e.val[1]
      /\ Len(rows) = TopN =>
             Len(rows') = TopN /\ \A d \in Elements(rows') \ Elements(rows) :
                                      \E e \in Elements(rows) : d.val[1] > e.val[1]
  BY <1>1, <1>3, <1>5, <1>6, <1>8, InsertFacts
<1>10. SurveyTypes'
  BY <1>9, NoRecordFacts, StillTypes DEF SurveyTypes, Stages
<1>11. \A r \in Elements(rows) \cup {NextRecord} : HasRead(r, 2)
  BY <1>1, <1>2, <1>3 DEF Elements, HasRead
<1>12. SurveyPlaces'
  <2>1. \A k \in DOMAIN rows' : HasRead(rows'[k], Len(Survey!Files))
    BY <1>2, <1>9, <1>11 DEF Elements
  <2> QED
    BY <2>1, StillFrame DEF SurveyPlaces, SurveyStill, Survey!Surveys
<1>13. HoldersInv'
  BY <1>1, <1>7, <1>9, NoRecordFacts, BlankHolds, StillHolders DEF Noted
<1>14. OwnInv' /\ AllUnmissed'
  BY DEF OwnInv, AllUnmissed, SurveyStill
<1>15. TopPids'
  BY <1>1, <1>3, <1>7, <1>9 DEF TopPids
<1>16. ASSUME NEW m \in lived, Ranked(m)
       PROVE  Ranked(m)'
  <2>1. m[3] \in Nat
    BY LivedFacts DEF SurveyTypes
  <2>2. \A r \in Elements(rows) \cup {NextRecord} : r.val[1] \in Nat
    BY <1>3, <1>5, <1>6 DEF Scored, Elements
  <2>3. CASE m[3] = 0 \/ (m[1] > cursor /\ stage # "done") \/ m[1] \in todo
    BY <2>3 DEF Ranked
  <2>4. ASSUME NEW r \in Elements(rows) \cup {NextRecord},
               r.pid = m[1], r.from[1] = m[2], r.val[1] = m[3]
        PROVE  Ranked(m)'
    <3>1. CASE r \in Elements(rows')
      BY <1>7, <2>4, <3>1 DEF Ranked
    <3>2. CASE r \notin Elements(rows')
      BY <1>7, <1>9, <2>4, <3>2 DEF Ranked
    <3> QED
      BY <3>1, <3>2
  <2>5. CASE cur.pid = m[1]
    <3>1. NextRecord.from[1] = m[2] /\ NextRecord.val[1] = m[3]
      BY <2>5, ScoreRead
    <3> QED
      BY <1>1, <2>4, <2>5, <3>1
  <2>6. CASE Len(rows) = TopN /\ \A r \in Elements(rows) : r.val[1] >= m[3]
    <3>1. ASSUME NEW d \in Elements(rows')
          PROVE  d.val[1] >= m[3]
      <4>1. CASE d \in Elements(rows)
        BY <2>6, <4>1
      <4>2. CASE d \notin Elements(rows)
        <5>1. PICK e \in Elements(rows) : d.val[1] > e.val[1]
          BY <1>9, <2>6, <4>2
        <5>2. d.val[1] \in Nat /\ e.val[1] \in Nat /\ e.val[1] >= m[3]
          BY <1>9, <2>2, <2>6
        <5> QED
          BY <2>1, <5>1, <5>2
      <4> QED
        BY <4>1, <4>2
    <3> QED
      BY <1>7, <1>9, <2>6, <3>1 DEF Ranked
  <2> QED
    BY <1>7, <1>16, <2>3, <2>4, <2>5, <2>6 DEF Ranked
<1>17. TopInv'
  BY <1>9, <1>15, <1>16 DEF TopInv, SurveyStill
<1> QED
  BY <1>10, <1>12, <1>13, <1>14, <1>17

\* All cases of a file.
LEMMA ReadFileKeeps ==
  ASSUME SurveyInv, SurveyStill, Survey!ReadFile
  PROVE  SurveyInv'
<1>1. SurveyTypes
  BY DEF SurveyInv
<1> QED
  BY <1>1, ReadFileCases, MissingKeeps, GoesOnKeeps, AppendKeeps, InsertKeeps

\* A file of the inspector's own table of its target.
LEMMA ReadMapKeeps ==
  ASSUME SurveyInv, SurveyStill, Survey!ReadMap
  PROVE  SurveyInv'
<1> DEFINE n == Len(map.from)
           f == Survey!MapFiles[n + 1]
<1> USE DEF SurveyInv
<1>1. PICK p \in given : map' = [pid |-> p, from |-> Append(map.from, Survey!From(p, f)),
                                 val |-> Append(map.val, Survey!Value(p, f))]
  BY DEF Survey!ReadMap
<1>2. /\ stage = "map" /\ UNCHANGED <<cursor, todo, cur, rows>>
      /\ stage' = IF Len(map'.from) = Len(Survey!MapFiles) THEN "done" ELSE stage
  BY DEF Survey!ReadMap
<1>3. /\ tool = "inspector" /\ n < Len(Survey!MapFiles) /\ p \in SurveyPids
      /\ \A q \in given : p = q
      /\ cur = Survey!NoRecord
  BY <1>2 DEF SurveyPlaces, SurveyTypes
<1>4. /\ map \in Entries /\ map = [pid |-> map.pid, from |-> map.from, val |-> map.val]
      /\ map.from \in Seq(Nat) /\ map.val \in Seq(Nat) /\ n \in Nat /\ Len(map.val) = n
  BY EntryFacts, NoRecordFacts DEF SurveyTypes, SurveyPlaces
<1> DEFINE r == [pid |-> p, from |-> map.from, val |-> map.val]
<1>5. r \in Entries /\ r.pid = p /\ r.from = map.from /\ r.val = map.val
  BY <1>3, <1>4, EntryMade
<1>6. NoneToCome(r) /\ Survey!OneHolder(r) /\ Own(r, Survey!MapFiles)
  <2>1. CASE map = Survey!NoRecord
    BY <1>5, <2>1, NoRecordFacts, BlankHolds
  <2>2. CASE map # Survey!NoRecord
    <3>1. r = map
      BY <1>3, <1>4, <2>2 DEF SurveyPlaces
    <3> QED
      BY <1>3, <3>1 DEF HoldersInv, OwnInv, Noted
  <2> QED
    BY <2>1, <2>2
<1> HIDE DEF r
<1>7. map' = Grown(r, p, Survey!From(p, f), Survey!Value(p, f))
  BY <1>1, <1>5 DEF Grown
<1>8. /\ map' \in Entries /\ map'.pid = p /\ Len(map'.from) = n + 1 /\ Len(map'.val) = n + 1
      /\ NoneToCome(map') /\ Survey!OneHolder(map') /\ Own(map', Survey!MapFiles)
  <2>1. \A q : q = map' => 
          /\ q \in Entries /\ q.pid = p /\ Len(q.from) = n + 1 /\ Len(q.val) = n + 1
          /\ NoneToCome(q) /\ Survey!OneHolder(q)
          /\ tool # "top" => Own(q, Survey!MapFiles)
    BY <1>3, <1>4, <1>5, <1>6, <1>7, ReadKeepsHolder
  <2> QED
    BY <1>3, <2>1
<1>9. SurveyTypes'
  BY <1>2, <1>8, StillTypes DEF SurveyTypes, Stages
<1>10. Survey!Rows' = Survey!Rows
  BY <1>2 DEF Survey!Rows
<1>11. Len(Survey!MapFiles) \in Nat /\ Survey!MapFiles' = Survey!MapFiles
  BY MapFilesFacts DEF Survey!MapFiles
<1>12. HasRead(map', n + 1)
  BY <1>3, <1>8 DEF HasRead
<1>13. SurveyPlaces'
  BY <1>2, <1>3, <1>4, <1>8, <1>11, <1>12, StillFrame DEF SurveyPlaces, SurveyStill, Survey!Surveys
<1>14. HoldersInv'
  BY <1>2, <1>8, <1>10, StillHolders DEF Noted
<1>15. OwnInv'
  BY <1>2, <1>8, <1>10, StillOwn
<1>16. AllUnmissed'
  BY <1>2, <1>10 DEF AllUnmissed, Unmissed, SurveyStill
<1>17. TopInv'
  BY <1>3 DEF TopInv, SurveyStill
<1> QED
  BY <1>9, <1>13, <1>14, <1>15, <1>16, <1>17

-----------------------------------------------------------------------------
(* The table, or a score, changes under the reader. *)

\* Whoever is still counted as alive since the call was so before.
LEMMA ChurnView ==
  ASSUME SurveyTypes, Survey!Churn
  PROVE  /\ SurveyTypes'
         /\ UNCHANGED <<tool, root, given, stage, cursor, todo, cur, rows, map>>
         /\ lived' \subseteq lived /\ lived' \subseteq Survey!Observed'
         /\ \A p \in SurveyPids :
              /\ table[p].inc \in Nat /\ table'[p].inc \in Nat
              /\ table[p].inc <= table'[p].inc
              /\ table'[p].inc = table[p].inc /\ table'[p].st = "live" =>
                    table[p].st = "live"
<1>1. /\ UNCHANGED <<tool, root, given, stage, cursor, todo, cur, rows, map>>
      /\ lived' = lived \cap Survey!Observed'
      /\ Survey!TableChange \/ Survey!ScoreChange
  BY DEF Survey!Churn, Survey!call, Survey!reader
<1>2. Survey!TableTypeOK /\ score \in [SurveyPids -> Nat]
  BY DEF SurveyTypes
<1>3. /\ Survey!TableTypeOK'
      /\ \A p \in SurveyPids :
              /\ table[p].inc \in Nat /\ table'[p].inc \in Nat
              /\ table[p].inc <= table'[p].inc
              /\ table'[p].inc = table[p].inc /\ table'[p].st = "live" =>
                    table[p].st = "live"
  <2>1. CASE Survey!TableStep
    BY <1>2, <2>1, SurveyTableStep
  <2>2. CASE UNCHANGED table
    <3>1. \A p \in SurveyPids : table[p].inc \in Nat
      BY <1>2, MaxIncAssumption DEF Survey!TableTypeOK, Survey!Tasks
    <3> QED
      BY <1>2, <2>2, <3>1 DEF Survey!TableTypeOK
  <2> QED
    BY <1>1, <2>1, <2>2 DEF Survey!TableChange, Survey!ScoreChange
<1>4. score' \in [SurveyPids -> Nat]
  <2>1. CASE Survey!TableChange
    BY <1>2, <2>1, ScoresAssumption DEF Survey!TableChange
  <2>2. CASE Survey!ScoreChange
    BY <1>2, <2>2, ScoresAssumption DEF Survey!ScoreChange
  <2> QED
    BY <1>1, <2>1, <2>2
<1> QED
  BY <1>1, <1>3, <1>4 DEF SurveyTypes

\* No change of the table or of a score makes the invariant false.
LEMMA ChurnKeeps ==
  ASSUME SurveyInv, Survey!Churn
  PROVE  SurveyInv'
<1> USE DEF SurveyInv
<1>1. SurveyTypes'
  BY ChurnView
<1>2. UNCHANGED <<tool, root, given, stage, cursor, todo, cur, rows, map>>
  BY ChurnView
<1>3. lived' \subseteq lived /\ lived' \subseteq Survey!Observed'
  BY ChurnView
<1>4. \A p \in SurveyPids :
         /\ table[p].inc \in Nat /\ table'[p].inc \in Nat
         /\ table[p].inc <= table'[p].inc
         /\ table'[p].inc = table[p].inc /\ table'[p].st = "live" =>
               table[p].st = "live"
  BY ChurnView
<1>5. Survey!Files' = Survey!Files /\ Survey!Rows' = Survey!Rows
  BY <1>2 DEF Survey!Files, Survey!Rows
<1>6. SurveyPlaces'
  BY <1>2, <1>5 DEF SurveyPlaces
<1>7. ASSUME NEW r \in Noted
      PROVE  /\ r \in Entries /\ \A k \in DOMAIN r.from : r.from[k] \in Nat
             /\ r.pid \in SurveyPids \/ r.from = <<>>
             /\ r.from # <<>> => 1 \in DOMAIN r.from
  <2>1. r \in Entries
    BY RowsFacts DEF Noted, SurveyTypes
  <2>2. r.from \in Seq(Nat)
    BY <2>1, EntryFacts
  <2>3. r.pid \in SurveyPids \/ r = Survey!NoRecord
    <3>1. CASE r \in Survey!Rows
      BY <3>1, RowsFacts DEF SurveyPlaces, HasRead
    <3>2. CASE r = cur
      BY <3>2 DEF SurveyPlaces, HasRead
    <3>3. CASE r = map
      BY <3>3 DEF SurveyPlaces, SurveyTypes
    <3> QED
      BY <3>1, <3>2, <3>3 DEF Noted
  <2> QED
    BY <2>1, <2>2, <2>3, NoRecordFacts
<1>8. ASSUME NEW r \in Noted
      PROVE  NoneToCome(r)' /\ Survey!OneHolder(r)'
  <2>1. NoneToCome(r) /\ Survey!OneHolder(r)
    BY DEF HoldersInv
  <2>2. CASE r.from = <<>>
    BY <2>2, BlankHolds DEF NoneToCome, Survey!OneHolder
  <2>3. CASE r.from # <<>>
    <3>1. /\ r.pid \in SurveyPids /\ 1 \in DOMAIN r.from
          /\ \A k \in DOMAIN r.from : r.from[k] \in Nat
      BY <1>7, <2>3
    <3>2. NoneToCome(r)'
      BY <1>4, <2>1, <3>1 DEF NoneToCome
    <3>3. <<r.pid, r.from[1]>> \in Survey!Alive' => <<r.pid, r.from[1]>> \in Survey!Alive
      <4>1. SUFFICES ASSUME <<r.pid, r.from[1]>> \in Survey!Alive'
                     PROVE  <<r.pid, r.from[1]>> \in Survey!Alive
        OBVIOUS
      <4>2. table'[r.pid].st = "live" /\ r.from[1] = table'[r.pid].inc
        BY <4>1 DEF Survey!Alive, Survey!Live
      <4>3. r.from[1] <= table[r.pid].inc
        BY <2>1, <3>1 DEF NoneToCome
      <4>4. table'[r.pid].inc = table[r.pid].inc
        BY <1>4, <3>1, <4>2, <4>3
      <4> QED
        BY <1>4, <3>1, <4>2, <4>4, AliveFacts
    <3> QED
      BY <1>2, <2>1, <3>2, <3>3 DEF Survey!OneHolder
  <2> QED
    BY <2>2, <2>3
<1>9. HoldersInv'
  BY <1>2, <1>5, <1>8 DEF HoldersInv, Noted
<1>10. ASSUME tool # "top", NEW r, NEW files, Own(r, files)
       PROVE  Own(r, files)'
  BY <1>2, <1>3, <1>10 DEF Own, InNs
<1>11. OwnInv'
  <2> SUFFICES ASSUME tool # "top"
               PROVE  /\ \A r \in (Survey!Rows \cup {cur})' : Own(r, Survey!Files)'
                      /\ Own(map, Survey!MapFiles)'
    BY <1>2 DEF OwnInv
  <2>1. ASSUME NEW r \in (Survey!Rows \cup {cur})'
        PROVE  Own(r, Survey!Files)'
    <3>1. Own(r, Survey!Files)
      BY <1>2, <1>5 DEF OwnInv
    <3>2. \A files : files = Survey!Files => Own(r, files)'
      BY <1>10, <3>1
    <3> QED
      BY <1>5, <3>2 DEF Own
  <2>2. Own(map, Survey!MapFiles)'
    <3>1. \A r, files : r = map /\ files = Survey!MapFiles => Own(r, files)'
      BY <1>10 DEF OwnInv
    <3>2. map' = map /\ Survey!MapFiles' = Survey!MapFiles
      BY <1>2 DEF Survey!MapFiles
    <3> QED
      BY <3>1, <3>2 DEF Own
  <2> QED
    BY <2>1, <2>2
<1>12. AllUnmissed'
  BY <1>2, <1>3, <1>5 DEF AllUnmissed, Unmissed, Survey!Of, Survey!Last
<1>13. TopInv'
  <2>1. \A m : Ranked(m)' <=> Ranked(m)
    BY <1>2, <1>5 DEF Ranked
  <2> QED
    BY <1>2, <1>3, <1>5, <2>1 DEF TopInv, TopPids, Ordered
<1> QED
  BY <1>1, <1>6, <1>9, <1>11, <1>12, <1>13

-----------------------------------------------------------------------------
\* No step does.
LEMMA SurveyStep == SurveyInv /\ [Survey!Next]_(Survey!vars) => SurveyInv'
<1> SUFFICES ASSUME SurveyInv, [Survey!Next]_(Survey!vars)
             PROVE  SurveyInv'
  OBVIOUS
<1>1. CASE Survey!Churn
  BY <1>1, ChurnKeeps
<1>2. CASE Survey!Reader
  <2>1. SurveyStill
    BY <1>2 DEF Survey!Reader, Survey!call, SurveyStill
  <2>2. \/ \E p \in SurveyPids : Survey!ReadDirEntry(p) \/ Survey!NextPid(p)
        \/ Survey!ReadDirEnd \/ Survey!ReadDirError \/ Survey!NoPidLeft
        \/ Survey!ReadFile \/ Survey!ReadMap
    BY <1>2 DEF Survey!Reader
  <2> QED
    BY <2>1, <2>2, ReadDirEntryKeeps, NextPidKeeps, ReadDirEndKeeps, ReadDirErrorKeeps,
       NoPidLeftKeeps, ReadFileKeeps, ReadMapKeeps
<1>3. CASE UNCHANGED Survey!vars
  <2>1. /\ SurveyStill
        /\ UNCHANGED <<stage, cursor, todo, cur, rows, map>>
    BY <1>3 DEF Survey!vars, Survey!call, Survey!reader, SurveyStill
  <2>2. Survey!Rows' = Survey!Rows
    BY <2>1 DEF Survey!Rows
  <2>3. SurveyTypes'
    BY <2>1, StillTypes DEF SurveyInv, SurveyTypes
  <2>4. SurveyPlaces'
    BY <2>1, StillFrame DEF SurveyInv, SurveyPlaces, SurveyStill
  <2>5. HoldersInv' /\ OwnInv'
    BY <2>1, <2>2, StillHolders, StillOwn DEF SurveyInv, Noted
  <2>6. AllUnmissed'
    BY <2>1, <2>2 DEF SurveyInv, AllUnmissed, Unmissed, SurveyStill
  <2>7. TopInv'
    <3>1. \A m : Ranked(m)' <=> Ranked(m)
      BY <2>1, <2>2 DEF Ranked
    <3> QED
      BY <2>1, <2>2, <3>1 DEF SurveyInv, TopInv, TopPids, Ordered, SurveyStill
  <2> QED
    BY <2>3, <2>4, <2>5, <2>6, <2>7 DEF SurveyInv
<1> QED
  BY <1>1, <1>2, <1>3 DEF Survey!Next

(***************************************************************************)
(* The invariant of the surveys and of the readers of given pids, for any  *)
(* number of pids, namespaces, scores and files, and whatever the table    *)
(* does between two of their system calls.                                 *)
(***************************************************************************)
THEOREM SurveyInvariant == Survey!Spec => []SurveyInv
  BY SurveyInit, SurveyStep, PTL DEF Survey!Spec

-----------------------------------------------------------------------------
\* At its end every pid given has been looked at.
LEMMA HoldersReported == SurveyInv => ReportsOneHolder
<1> SUFFICES ASSUME SurveyInv
             PROVE  ReportsOneHolder
  OBVIOUS
<1> USE DEF SurveyInv
<1>1. \A r \in Survey!Rows \cup {map} : Survey!OneHolder(r)
  BY DEF HoldersInv, Noted
<1>2. ASSUME tool \notin Survey!Surveys, Survey!Over, NEW m \in lived, m[1] \in given
      PROVE  \E r \in Survey!Rows : Survey!Of(r) = m
  <2>3. m = <<m[1], m[2]>>
    BY <1>2, LivedFacts DEF InNs, Survey!Surveys
  <2>1. stage \in {"done", "failed"} /\ todo = {}
    BY <1>2 DEF Survey!Over, SurveyPlaces, Survey!Surveys
  <2>2. Unmissed(m)
    BY <1>2 DEF AllUnmissed, Survey!Surveys
  <2> QED
    BY <2>1, <2>2, <2>3 DEF Unmissed
<1> QED
  BY <1>1, <1>2 DEF ReportsOneHolder, Survey!ReportsOneHolder

(***************************************************************************)
(* What is printed of a pid never goes back to an older holder, is all     *)
(* about one process if the first one read still lives, and is left out,   *)
(* of a pid of the command line, only if its process is gone.              *)
(***************************************************************************)
THEOREM HoldersAreReported == Survey!Spec => []ReportsOneHolder
  BY SurveyInvariant, HoldersReported, PTL

\* At its end no pid is still to come.
LEMMA TopIsRanked == SurveyInv => TopIsHighest
<1> SUFFICES ASSUME SurveyInv, tool = "top"
             PROVE  Survey!TopIsHighest
  BY DEF TopIsHighest, Survey!TopIsHighest
<1> USE DEF SurveyInv
<1>1. ASSUME stage = "done", NEW m \in lived
      PROVE  \/ m[3] = 0
             \/ \E r \in Survey!Rows : r.pid = m[1] /\ r.from[1] = m[2] /\ r.val[1] = m[3]
             \/ Len(rows) = TopN /\ \A r \in Survey!Rows : r.val[1] >= m[3]
  <2>1. todo = {}
    BY <1>1 DEF SurveyPlaces
  <2> QED
    BY <1>1, <2>1 DEF TopInv, Ranked
<1> QED
  BY <1>1 DEF TopInv, Ordered, Survey!TopIsHighest

(***************************************************************************)
(* oom-score-demo's list of the highest scores is in order, has no pid     *)
(* twice, and leaves out a process that lives on with its score only for   *)
(* TopN scores that are no lower: although the list is made from one       *)
(* buffer of readdir after the other, while scores and processes change.   *)
(***************************************************************************)
THEOREM TopOfTheList == Survey!Spec => []TopIsHighest
  BY SurveyInvariant, TopIsRanked, PTL

\* What a row says of a type whose process has stayed in one namespace is that one.
LEMMA InodeOfSurvivor ==
  ASSUME SurveyInv, InNs, root, NEW r \in Survey!Rows, NEW t \in Survey!Types,
         NEW a, Survey!Stays(r, t, a)
  PROVE  Survey!Inode(r, t) = a /\ a \in NsInodes
<1> DEFINE n == Len(Survey!Files)
           k == CHOOSE j \in DOMAIN Survey!Files : Survey!Files[j] = t
<1> USE DEF SurveyInv
<1>1. HasRead(r, n) /\ r \in Entries /\ Own(r, Survey!Files)
  BY RowsFacts DEF SurveyPlaces, OwnInv, InNs
<1>2. n \in Nat \ {0} /\ DOMAIN Survey!Files = 1..n
  BY FilesFacts
<1>3. r.pid \in SurveyPids /\ DOMAIN r.from = 1..n
  BY <1>1, EntryFacts DEF HasRead
<1> DEFINE m == <<r.pid, r.from[n], t, a>>
<1>4. m \in lived /\ m[1] = r.pid /\ m[3] = t /\ m[4] = a
  BY <1>1 DEF Survey!Stays, Survey!Last, HasRead
<1> HIDE DEF m
<1>5. table[r.pid].st = "live" /\ a = table[r.pid].ns[t]
  BY <1>4, LivedFacts
<1>6. t \in NsLinks /\ \E j \in DOMAIN Survey!Files : Survey!Files[j] = t
  <2>1. CASE tool = "walker"
    <3>1. t = "pid"
      BY <2>1 DEF Survey!Types
    <3>2. n = 3 /\ Survey!Files[3] = "pid"
      BY <2>1, FilesFacts
    <3>3. 3 \in DOMAIN Survey!Files
      BY <1>2, <3>2
    <3> QED
      BY <3>1, <3>2, <3>3, LinksAssumption
  <2>2. CASE tool = "inspector"
    <3>1. PICK j \in 1..Len(NsTypes) : t = NsTypes[j]
      BY <2>2, NsTypesAssumption DEF Survey!Types
    <3>2. t \in NsLinks
      BY <3>1, NsTypesAssumption
    <3>3. /\ n = Len(NsTypes) + 1 /\ Survey!Files[j] = NsTypes[j]
          /\ Len(NsTypes) \in Nat
      BY <2>2, FilesFacts, NsTypesAssumption DEF SurveyTypes
    <3> QED
      BY <1>2, <3>1, <3>2, <3>3
  <2> QED
    BY <2>1, <2>2 DEF InNs
<1>7. k \in 1..n /\ Survey!Files[k] = t
  BY <1>2, <1>6
<1>8. Survey!Inode(r, t) = r.val[k]
  BY DEF Survey!Inode
<1> HIDE DEF k
<1>9. r.val[k] = a
  BY <1>1, <1>3, <1>4, <1>6, <1>7 DEF Own
<1>10. a \in NsInodes
  BY <1>3, <1>5, <1>6, ReadFacts
<1> QED
  BY <1>8, <1>9, <1>10

\* Two rows have the same inode exactly if the kernel says so.
LEMMA GroupsFollowKernel == SurveyInv => GroupsAreNamespaces
<1> SUFFICES ASSUME SurveyInv, tool \in {"walker", "inspector"}, stage = "done", root
             PROVE  Survey!GroupsAreNamespaces
  BY DEF GroupsAreNamespaces, Survey!GroupsAreNamespaces
<1> USE DEF SurveyInv
<1>1. ASSUME rows # <<>>, NEW m \in lived
      PROVE  \E r \in Survey!Rows : Survey!Of(r) = <<m[1], m[2]>>
  <2>1. todo = {}
    BY <1>1 DEF SurveyPlaces
  <2>2. Unmissed(m)
    BY <1>1 DEF AllUnmissed, Survey!Surveys
  <2> QED
    BY <2>1, <2>2 DEF Unmissed
<1>2. ASSUME NEW r \in Survey!Rows, NEW s \in Survey!Rows, NEW t \in Survey!Types,
             NEW n \in NsInodes, NEW o \in NsInodes, Survey!Stays(r, t, n)
      PROVE  /\ Survey!Stays(s, t, o) => (Survey!Together(r, s, t) <=> n = o)
             /\ Survey!Together(r, s, t) => Survey!Inode(s, t) # 0
  <2>1. Survey!Inode(r, t) = n /\ n # 0
    BY <1>2, InodeOfSurvivor, InodesAssumption DEF InNs
  <2>2. Survey!Stays(s, t, o) => Survey!Inode(s, t) = o
    BY InodeOfSurvivor DEF InNs
  <2> QED
    BY <2>1, <2>2 DEF Survey!Together
<1>3. ASSUME NEW r \in Survey!Rows, NEW k \in DOMAIN NsTypes, NEW n \in NsInodes,
             r.pid \in given, Survey!Stays(r, NsTypes[k], n)
      PROVE  map.val[k + 1] = n /\ Survey!Inode(r, NsTypes[k]) = n
  <2>1. tool = "inspector" /\ given # {}
    BY <1>3 DEF SurveyPlaces
  <2>2. HasRead(map, Len(Survey!MapFiles)) /\ map \in Entries
    BY <2>1 DEF SurveyPlaces, SurveyTypes
  <2>3. k \in 1..Len(NsTypes) /\ NsTypes[k] \in NsLinks
    BY NsTypesAssumption
  <2>4. /\ Len(Survey!MapFiles) = Len(NsTypes) + 1 /\ Len(NsTypes) \in Nat
        /\ Survey!MapFiles[k + 1] = NsTypes[k]
    BY <2>3, MapFilesFacts
  <2>5. map.pid = r.pid
    <3>1. map # Survey!NoRecord
      BY <2>2, NoRecordFacts, SurveyPidsAssumption DEF HasRead
    <3> QED
      BY <1>3, <2>1, <3>1 DEF SurveyPlaces
  <2>6. NsTypes[k] \in Survey!Types
    BY <2>1, <2>3 DEF Survey!Types
  <2>7. Survey!Inode(r, NsTypes[k]) = n
    BY <1>3, <2>6, InodeOfSurvivor DEF InNs
  <2> DEFINE m == <<r.pid, Survey!Last(r.from), NsTypes[k], n>>
  <2>8. m \in lived /\ m[1] = map.pid /\ m[3] = NsTypes[k] /\ m[4] = n
    BY <1>3, <2>5 DEF Survey!Stays
  <2> HIDE DEF m
  <2>9. k + 1 \in DOMAIN map.from
    <3>1. map.from \in Seq(Nat)
      BY <2>2, EntryFacts
    <3>2. DOMAIN map.from = 1..Len(NsTypes) + 1
      BY <2>2, <2>4, <3>1 DEF HasRead
    <3> QED
      BY <2>3, <2>4, <3>2
  <2>10. Own(map, Survey!MapFiles)
    BY <2>1 DEF OwnInv
  <2> QED
    BY <2>1, <2>4, <2>7, <2>8, <2>9, <2>10 DEF Own, InNs
<1> QED
  BY <1>1, <1>2, <1>3 DEF Survey!GroupsAreNamespaces

(***************************************************************************)
(* proc-walker and namespace-inspector miss no process that lives from the *)
(* call to the report. Two that have stayed in their namespaces of a type  *)
(* are in one group of it exactly if they share the namespace, and the     *)
(* table of a target has the inodes its peers were found by, for each type *)
(* the target has stayed in: whatever unshare and setns do to the others.  *)
(***************************************************************************)
THEOREM GroupsOfNamespaces == Survey!Spec => []GroupsAreNamespaces
  BY SurveyInvariant, GroupsFollowKernel, PTL
=============================================================================
