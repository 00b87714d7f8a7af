------------------------------ MODULE PodReaders ------------------------------
(***************************************************************************)
(* The callers of ListPodProcesses: ListPodNamespaces and ListPodMounts    *)
(* (proc.go), ListPodInterfaces (netns.go), ListPodBPFObjects (ebpf.go)    *)
(* and GetPodSchedInfo (sched.go), and GetPodPerfReport (metrics.go) with  *)
(* podPIDs, the listing of its own. Each lists the pod and then opens      *)
(* files of the listed pids again, while the table goes on changing. Two   *)
(* exercises do the same: sched-latency-reader --all what GetPodPerfReport *)
(* does, bpf-fdinfo-reader for one given pid what ListPodBPFObjects does.  *)
(*                                                                         *)
(* The listing is one step here: any answer PodSnapshot allows, which is   *)
(* what PodScan shows ListPodProcesses to give.                            *)
(***************************************************************************)
EXTENDS ProcTable, FiniteSets, SequencesExt

CONSTANTS
    NameRank,   \* the order ListPodProcesses returns the pids in
    NsTypes,    \* podNsTypes, in the order the loop takes them
    Fds,        \* file descriptors a process may hold a BPF object at
    Objects,    \* ids of BPF programs and maps
    CpuLists    \* the lists cpuset and affinity give a process

ASSUME NameRankAssumption == NameRank \in [Pids -> Nat] /\ IsInjective(NameRank)
ASSUME ObjectsAssumption == Objects \subseteq Nat \ {0}
ASSUME FdsAssumption == Fds \subseteq Nat
ASSUME FinitePidsAssumption == IsFiniteSet(Pids)
ASSUME NsTypesAssumption == NsTypes \in Seq(NsLinks)

VARIABLES
    fdtab,       \* the object at each fd of each pid; 0 is a closed fd
    cpus,        \* the Cpus_allowed_list of each pid's holder
    stable,      \* history: processes in the pod ever since the call
    ever,        \* history: processes in the pod at some time since the call
    kept,        \* history: what a process has held ever since the call
    privileged,  \* the tool may follow ns links and list fds (CAP_SYS_PTRACE)
    op,          \* which caller runs
    pc,          \* what it does next
    listed,      \* procs, as ListPodProcesses returned it
    at,          \* index of the process it is looking at
    left,        \* what it has still to read of that process
    acc,         \* what it has read of that process
    out          \* what it has appended to its result

tables == <<task, fdtab, cpus>>
history == <<stable, ever, kept>>
call == <<privileged, op>>
vars == <<tables, history, call, pc, listed, at, left, acc, out>>

Ops == {"namespaces", "mounts", "netns", "bpf", "sched", "perf", "latency", "fdinfo"}
PerfOps == {"perf", "latency"}
Incs == 0..MaxInc
Closed == [f \in Fds |-> 0]

Snapshot == INSTANCE PodSnapshot WITH
    Processes <- Pids \X Incs,
    members <- Members(task),
    answer <- pc

\* The facts about processes that the running call is to report.
Facts(t, h, c) ==
    LET live == {p \in Pids : t[p].st = "live"}
    IN  IF op \in {"bpf", "fdinfo"}
        THEN {<<p, t[p].inc, f, h[p][f]>> : p \in live, f \in Fds}
        ELSE IF op = "sched" THEN {<<p, t[p].inc, 0, c[p]>> : p \in live}
        ELSE IF op = "namespaces"
        THEN {<<p, t[p].inc, n, t[p].ns[n]>> : p \in live, n \in NsLinks}
        ELSE {}

Init ==
    /\ TableInit
    /\ op \in Ops
    /\ privileged \in BOOLEAN
    /\ fdtab \in [Pids -> [Fds -> Objects \cup {0}]]
    /\ \A p \in Pids : task[p].st # "live" => fdtab[p] = Closed
    /\ cpus \in [Pids -> CpuLists]
    /\ stable = Members(task)
    /\ ever = Members(task)
    /\ kept = Facts(task, fdtab, cpus)
    /\ pc = "scan"
    /\ listed = <<>> /\ at = 1
    /\ left = {} /\ acc = <<>> /\ out = <<>>

-----------------------------------------------------------------------------
\* Exit closes every fd; a new process starts with none open and some cpu list.
TableChange ==
    /\ TableStep
    /\ fdtab' = [p \in Pids |-> IF task'[p].st = "live" THEN fdtab[p] ELSE Closed]
    /\ UNCHANGED cpus

\* bpf(2) or a pinned object's open puts an object at a fd; close takes it away.
FdChange ==
    /\ op \in {"bpf", "fdinfo"}
    /\ \E p \in Pids, f \in Fds, o \in Objects \cup {0} :
        /\ task[p].st = "live"
        /\ fdtab[p][f] # o
        /\ fdtab' = [fdtab EXCEPT ![p][f] = o]
    /\ UNCHANGED <<task, cpus>>

\* sched_setaffinity, or a write to the cgroup's cpuset.cpus. The list of a free
\* pid is the one its next holder starts with.
AffinityChange ==
    /\ op = "sched"
    /\ \E p \in Pids, c \in CpuLists : cpus[p] # c /\ cpus' = [cpus EXCEPT ![p] = c]
    /\ UNCHANGED <<task, fdtab>>

Churn ==
    /\ TableChange \/ FdChange \/ AffinityChange
    /\ stable' = stable \cap Members(task')
    /\ ever' = ever \cup Members(task')
    /\ kept' = kept \cap Facts(task', fdtab', cpus')
    /\ UNCHANGED <<call, pc, listed, at, left, acc, out>>

-----------------------------------------------------------------------------
Finish(status) ==
    /\ pc' = status
    /\ UNCHANGED <<listed, at, left, acc, out>>

\* The loop goes on to the next listed process.
Advance ==
    /\ at' = at + 1
    /\ left' = {} /\ acc' = <<>>
    /\ pc' = "loop"
    /\ UNCHANGED listed

\* R as the listing gives it: all of it, by the names of the pids.
InOrder(R) ==
    {s \in [1..Cardinality(R) -> R] :
        /\ \A x \in R : \E i \in DOMAIN s : s[i] = x
        /\ \A i, j \in DOMAIN s : i < j => NameRank[s[i][1]] < NameRank[s[j][1]]}

\* ListPodProcesses returns: an error ends every caller, an empty list some.
ListProcesses ==
    /\ op \notin PerfOps \cup {"fdinfo"}
    /\ pc = "scan"
    /\ \/ Finish("error")
       \/ \E R \in SUBSET ever :
            /\ Snapshot!Answerable(R)
            /\ listed' \in InOrder(R)
            /\ pc' = IF R = {} /\ op \in {"mounts", "netns", "bpf"} THEN "error" ELSE "loop"
            /\ UNCHANGED <<at, left, acc, out>>

(***************************************************************************)
(* podPIDs and listPodPIDs ignore the error of ReadDir, so that a listing  *)
(* which breaks off gives the processes found by then, and the loop goes   *)
(* on with them.                                                           *)
(***************************************************************************)
BrokenListing(o) ==
    /\ op = o
    /\ pc = "scan"
    /\ \E R \in SUBSET ever :
        /\ \E W \in SUBSET ever : R \subseteq W /\ Snapshot!Answerable(W)
        /\ listed' \in InOrder(R)
    /\ pc' = "loop"
    /\ UNCHANGED <<at, left, acc, out>>

PodPIDs == BrokenListing("perf")

listPodPIDs == BrokenListing("latency")

\* bpf-fdinfo-reader: the pid comes from the command line, whoever holds it.
GivenPid ==
    /\ op = "fdinfo"
    /\ pc = "scan"
    /\ \E p \in Pids : listed' = <<<<p, ReadFrom(p)>>>>
    /\ pc' = "loop"
    /\ UNCHANGED <<at, left, acc, out>>

Pid == listed[at][1]

LoopEnd ==
    /\ pc = "loop"
    /\ at > Len(listed)
    /\ Finish("ok")

(***************************************************************************)
(* ListPodNamespaces: readNsInode of one type after the other, 0 when the  *)
(* link cannot be followed.                                                *)
(***************************************************************************)
ReadNsInode(p, t) ==
    IF privileged /\ HasNs(task, p, t) THEN task[p].ns[t] ELSE 0

\* Wrong variant of NamespaceRow: every row is of the first process.
NamespaceRowOfFirst ==
    /\ op = "namespaces"
    /\ pc = "loop"
    /\ at <= Len(listed)
    /\ IF Len(acc) < Len(NsTypes)
       THEN /\ acc' = Append(acc, ReadNsInode(listed[1][1], NsTypes[Len(acc) + 1]))
            /\ UNCHANGED <<pc, listed, at, left, out>>
       ELSE /\ out' = Append(out, [proc |-> listed[at], ns |-> acc])
            /\ Advance

NamespaceRow ==
    /\ op = "namespaces"
    /\ pc = "loop"
    /\ at <= Len(listed)
    /\ IF Len(acc) < Len(NsTypes)
       THEN /\ acc' = Append(acc, ReadNsInode(Pid, NsTypes[Len(acc) + 1]))
            /\ UNCHANGED <<pc, listed, at, left, out>>
       ELSE /\ out' = Append(out, [proc |-> listed[at], ns |-> acc])
            /\ Advance

\* Wrong variant of ReadFirst: any listed process that still runs will do.
ReadAny(o) ==
    /\ op = o
    /\ pc = "loop"
    /\ at <= Len(listed)
    /\ IF task[Pid].st = "live"
       THEN /\ out' = <<[proc |-> listed[at], from |-> <<Pid, task[Pid].inc>>]>>
            /\ at' = Len(listed) + 1
            /\ UNCHANGED <<pc, listed, left, acc>>
       ELSE at' = at + 1 /\ UNCHANGED <<pc, listed, left, acc, out>>

(***************************************************************************)
(* ListPodMounts and ListPodInterfaces: one file of the first process's    *)
(* pid. A pid that is gone, or a zombie (it has no namespaces left), fails *)
(* the whole call, whatever other processes the pod has.                   *)
(***************************************************************************)
ReadFirst(o) ==
    /\ op = o
    /\ pc = "loop"
    /\ at <= Len(listed)
    /\ IF task[Pid].st = "live"
       THEN /\ out' = <<[proc |-> listed[1], from |-> <<Pid, task[Pid].inc>>]>>
            /\ at' = Len(listed) + 1
            /\ UNCHANGED <<pc, listed, left, acc>>
       ELSE Finish("error")

ReadMounts == ReadFirst("mounts")

\* readNetDev: the open file stays that namespace's to its last line.
ReadInterfaces == ReadFirst("netns")

(***************************************************************************)
(* ListPodBPFObjects: scanPIDFDs lists the fds, then opens the fdinfo of   *)
(* each; a directory or a file it cannot open is skipped without a word.   *)
(* The objects of a process are merged when its scan is over, by id.       *)
(* Programs and maps are merged the same way, each in a list of their own; *)
(* one list stands for both.                                               *)
(***************************************************************************)
ListFds ==
    /\ op = "bpf"
    /\ pc = "loop"
    /\ at <= Len(listed)
    /\ left' = IF privileged THEN {f \in Fds : fdtab[Pid][f] # 0} ELSE {}
    /\ pc' = "fdinfo"
    /\ UNCHANGED <<listed, at, acc, out>>

\* scanBPFFDs: here a directory that cannot be read ends the program.
ScanBPFFDs ==
    /\ op = "fdinfo"
    /\ pc = "loop"
    /\ at <= Len(listed)
    /\ IF Present(task, Pid) /\ privileged
       THEN /\ left' = {f \in Fds : fdtab[Pid][f] # 0}
            /\ pc' = "fdinfo"
            /\ UNCHANGED <<listed, at, acc, out>>
       ELSE Finish("error")

ReadFdInfo(f) ==
    /\ pc = "fdinfo"
    /\ f \in left
    /\ \A g \in left : f <= g
    /\ left' = left \ {f}
    /\ acc' = IF fdtab[Pid][f] = 0 THEN acc
              ELSE Append(acc, [proc |-> listed[at], fd |-> f, id |-> fdtab[Pid][f]])
    /\ UNCHANGED <<pc, listed, at, out>>

\* seenProgs and seenMaps: ids already reported, here or earlier in this process.
\* An id of 0, which is never taken for one seen, is no object's (ObjectsAssumption).
AppendUnseen(seq, x) ==
    IF \E i \in DOMAIN seq : seq[i].id = x.id THEN seq ELSE Append(seq, x)

\* Wrong variant of MergeObjects: a process without objects ends the loop.
MergeObjectsStop ==
    /\ op = "bpf"
    /\ pc = "fdinfo"
    /\ left = {}
    /\ IF acc # <<>>
       THEN /\ out' = AppendUnseen(out, Head(acc))
            /\ acc' = Tail(acc)
            /\ UNCHANGED <<pc, listed, at, left>>
       ELSE Finish("ok")

\* One object after the other, and then the next process.
MergeObjects ==
    /\ op = "bpf"
    /\ pc = "fdinfo"
    /\ left = {}
    /\ IF acc # <<>>
       THEN /\ out' = AppendUnseen(out, Head(acc))
            /\ acc' = Tail(acc)
            /\ UNCHANGED <<pc, listed, at, left>>
       ELSE Advance /\ UNCHANGED out

\* bpf-fdinfo-reader prints every fd, whatever object it shares with another.
PrintFds ==
    /\ op = "fdinfo"
    /\ pc = "fdinfo"
    /\ left = {}
    /\ out' = acc
    /\ Advance

(***************************************************************************)
(* GetPodSchedInfo: parseStatusAffinity, then the dedup by cpu and node    *)
(* list. A status file that is gone reads as the empty lists, "" here.     *)
(***************************************************************************)
Affinity(p) == IF Present(task, p) THEN cpus[p] ELSE ""

\* Wrong variant of ReadAffinity: only the first process is looked at.
ReadAffinityOnce ==
    /\ op = "sched"
    /\ pc = "loop"
    /\ at <= Len(listed)
    /\ out' = IF out = <<>> THEN <<[proc |-> listed[at], id |-> Affinity(Pid)]>> ELSE out
    /\ Advance

ReadAffinity ==
    /\ op = "sched"
    /\ pc = "loop"
    /\ at <= Len(listed)
    /\ out' = AppendUnseen(out, [proc |-> listed[at], id |-> Affinity(Pid)])
    /\ Advance

\* Wrong variant of SchedStat: a process that is gone ends the loop.
SchedStatBreak(o) ==
    /\ op = o
    /\ pc = "loop"
    /\ at <= Len(listed)
    /\ IF Present(task, Pid)
       THEN /\ acc' = <<ReadFrom(Pid)>>
            /\ pc' = "comm"
            /\ UNCHANGED <<listed, at, left, out>>
       ELSE Finish("ok")

(***************************************************************************)
(* parseSchedStat, a process at a time: one that is gone is left out, and  *)
(* a name that cannot be read any more is "(unknown)", 0 here.             *)
(***************************************************************************)
SchedStat(o) ==
    /\ op = o
    /\ pc = "loop"
    /\ at <= Len(listed)
    /\ IF Present(task, Pid)
       THEN /\ acc' = <<ReadFrom(Pid)>>
            /\ pc' = "comm"
            /\ UNCHANGED <<listed, at, left, out>>
       ELSE Advance /\ UNCHANGED out

ReadSchedStat == SchedStat("perf")

\* The same file and loop in sched-latency-reader.
parseSchedStat == SchedStat("latency")

ReadSchedComm ==
    /\ pc = "comm"
    /\ out' = Append(out, [proc |-> listed[at], stat |-> acc[1], comm |-> ReadFrom(Pid)])
    /\ Advance

Reader ==
    /\ \/ ListProcesses
       \/ PodPIDs
       \/ listPodPIDs
       \/ GivenPid
       \/ LoopEnd
       \/ NamespaceRow
       \/ ReadMounts
       \/ ReadInterfaces
       \/ ListFds
       \/ ScanBPFFDs
       \/ \E f \in Fds : ReadFdInfo(f)
       \/ MergeObjects
       \/ PrintFds
       \/ ReadAffinity
       \/ ReadSchedStat
       \/ parseSchedStat
       \/ ReadSchedComm
    /\ UNCHANGED <<tables, history, call>>

Over == pc \in {"ok", "error"}

Next == (~Over /\ Churn) \/ Reader

Spec == Init /\ [][Next]_vars

-----------------------------------------------------------------------------
Records == [proc : Pids \X Incs, fd : Fds, id : Objects]

TypeOK ==
    /\ TableTypeOK
    /\ fdtab \in [Pids -> [Fds -> Objects \cup {0}]]
    /\ cpus \in [Pids -> CpuLists]
    /\ stable \subseteq ever /\ ever \subseteq Pids \X Incs
    /\ pc \in {"scan", "loop", "fdinfo", "comm", "ok", "error"}
    /\ listed \in Seq(Pids \X Incs)
    /\ at \in 1..Len(listed) + 1
    /\ left \subseteq Fds
    /\ op \in {"bpf", "fdinfo"} => acc \in Seq(Records) /\ out \in Seq(Records)
    /\ op = "namespaces" => acc \in Seq(NsInodes \cup {0})

Rows == DOMAIN out
Alive(m) == task[m[1]].st = "live" /\ task[m[1]].inc = m[2]
Ok(o) == op = o /\ pc = "ok"

\* m has had x ever since the call: an object at a fd, a cpu list, or a namespace.
Keeps(m, x) == <<m[1], m[2], x[1], x[2]>> \in kept

(***************************************************************************)
(* --namespaces: each listed process has its row. In the row of one that   *)
(* lives to the end no inode is 0, and the inode of a type is its own if   *)
(* it has stayed in its namespace of that type during the whole call,      *)
(* whatever it did to the other types and whoever had its pid before. (The *)
(* types are read one after the other: a row of a process that unshares    *)
(* meanwhile may be of no moment at all.)                                  *)
(***************************************************************************)
RowOfSurvivor ==
    Ok("namespaces") =>
        /\ Len(out) = Len(listed)
        /\ \A m \in stable : \E i \in Rows : out[i].proc = m
        /\ \A i \in Rows, t \in DOMAIN NsTypes : privileged =>
            /\ Alive(out[i].proc) => out[i].ns[t] # 0
            /\ \A n \in NsInodes :
                Keeps(out[i].proc, <<NsTypes[t], n>>) => out[i].ns[t] = n

(***************************************************************************)
(* --mounts and --netns: what is reported belongs to the first listed      *)
(* process, or that process is dead. It never belongs to an older one.     *)
(***************************************************************************)
FirstProcessOrItsSuccessor ==
    \A i \in Rows : op \in {"mounts", "netns"} =>
        /\ out[i].from[1] = listed[1][1]
        /\ out[i].from[2] >= listed[1][2]
        /\ Alive(listed[1]) => out[i].from = listed[1]

\* No id and no pair of lists is reported twice.
NoDuplicates == \A i, j \in Rows : out[i].id = out[j].id => i = j

(***************************************************************************)
(* --ebpf: removing duplicates leaves each object once and loses none: one *)
(* that a process of the pod has kept open at one fd during the whole call *)
(* is reported, by that process or by another. bpf-fdinfo-reader reports   *)
(* it at its very fd, and fails only for a process that is gone.           *)
(***************************************************************************)
BPFComplete ==
    /\ op = "bpf" => NoDuplicates
    /\ Ok("bpf") /\ privileged =>
        \A m \in stable, f \in Fds, o \in Objects :
            Keeps(m, <<f, o>>) => \E i \in Rows : out[i].id = o
    /\ Ok("fdinfo") => \A f \in Fds, o \in Objects :
        Keeps(listed[1], <<f, o>>) =>
            \E i \in Rows : out[i] = [proc |-> listed[1], fd |-> f, id |-> o]
    /\ op = "fdinfo" /\ pc = "error" /\ privileged => ~Alive(listed[1])

(***************************************************************************)
(* --sched: the lists a process of the pod has kept during the whole call  *)
(* are reported, each pair once, and lists that no process has only for a  *)
(* dead one.                                                               *)
(***************************************************************************)
SchedComplete ==
    /\ op = "sched" => NoDuplicates
    /\ Ok("sched") =>
        /\ \A m \in stable, c \in CpuLists :
            Keeps(m, <<0, c>>) => \E i \in Rows : out[i].id = c
        /\ \A i \in Rows : out[i].id \notin CpuLists => ~Alive(out[i].proc)

(***************************************************************************)
(* --perf, and sched-latency-reader --all: a process found that lives to   *)
(* the end has a row, all of it its own, and a row never mixes in a holder *)
(* of the pid before the one found.                                        *)
(***************************************************************************)
PerfRows ==
    /\ op \in PerfOps /\ pc = "ok" =>
        \A k \in DOMAIN listed : Alive(listed[k]) =>
            \E i \in Rows :
                out[i] = [proc |-> listed[k], stat |-> listed[k][2], comm |-> listed[k][2]]
    /\ op \in PerfOps =>
        \A i \in Rows :
            /\ out[i].stat >= out[i].proc[2]
            /\ out[i].comm = 0 \/ out[i].comm >= out[i].stat
=============================================================================
