------------------------------ MODULE ProcTable ------------------------------
(***************************************************************************)
(* The kernel's process table as kube-inspect sees it through /proc: an    *)
(* external component, modelled from what src/kube-inspect/internal reads. *)
(* Nothing a reader of /proc does stops the table from changing, and a pid *)
(* that has been reaped may be given to another process: an incarnation    *)
(* number tells the successive holders of a pid apart.                     *)
(***************************************************************************)
EXTENDS Integers

CONSTANTS
    Pids,          \* the pids of the modelled part of the table
    PodCgroups,    \* cgroup paths that contain the pod UID asked for
    OtherCgroups,  \* cgroup paths that do not
    NsLinks,       \* the links below /proc/<pid>/ns, one for each type of namespace
    NsInodes,      \* inode numbers a namespace link may resolve to
    MaxInc         \* bound: how many processes may successively hold one pid

ASSUME PidsAssumption == Pids \subseteq Nat \ {0}
ASSUME CgroupsAssumption == PodCgroups \cap OtherCgroups = {}
ASSUME InodesAssumption == NsInodes \subseteq Nat \ {0}
ASSUME MaxIncAssumption == MaxInc \in Nat \ {0}

VARIABLE
    task   \* the table: for each pid, who holds it and in which state

Cgroups == PodCgroups \cup OtherCgroups

\* A process is in one namespace of each type.
Namespaces == [NsLinks -> NsInodes]

\* What the table holds for a pid nobody holds: `inc` remembers the last holder.
NoTask(i) == [inc |-> i, st |-> "free"]

Tasks ==
    [inc : 0..MaxInc, st : {"free"}] \cup
    [inc : 1..MaxInc, st : {"live", "zombie"}, cg : Cgroups, ns : Namespaces]

TableTypeOK == task \in [Pids -> Tasks]

\* /proc/<pid> exists: a zombie keeps its entry until its parent reaps it.
Present(t, p) == t[p].st # "free"

\* p's /proc/<pid>/cgroup line contains the pod UID. A zombie still names its cgroup.
InPod(t, p) == Present(t, p) /\ t[p].cg \in PodCgroups

\* The processes (not pids) in the pod.
Members(t) == {<<p, t[p].inc>> : p \in {q \in Pids : InPod(t, q)}}

\* A zombie has given up its namespaces, but for its pid's and its credentials'.
HasNs(t, p, link) ==
    \/ t[p].st = "live"
    \/ t[p].st = "zombie" /\ link \in {"pid", "user"}

\* Wrong variant of ReadFrom: an error value no reader expects.
ReadFromMinusOne(p) == IF Present(task, p) THEN task[p].inc ELSE -1

(***************************************************************************)
(* Reading one file below /proc/<pid>. The value is abstracted to the      *)
(* incarnation it came from; 0 is the error value every reader of the code *)
(* substitutes ("" for the cgroup, 0 for PPid and the inode, "?" for comm).*)
(***************************************************************************)
ReadFrom(p) == IF Present(task, p) THEN task[p].inc ELSE 0

-----------------------------------------------------------------------------
TableInit ==
    task \in [Pids -> {NoTask(0)} \cup [inc : {1}, st : {"live"},
                                        cg : Cgroups, ns : Namespaces]]

\* clone/fork, possibly CLONE_INTO_CGROUP or CLONE_NEW*: a free pid is taken.
Spawn(p, c, n) ==
    /\ task[p].st = "free"
    /\ task[p].inc < MaxInc
    /\ task' = [task EXCEPT ![p] = [inc |-> task[p].inc + 1, st |-> "live",
                                    cg |-> c, ns |-> n]]

\* exit_group or a fatal signal: a zombie until the parent waits for it.
Exit(p) ==
    /\ task[p].st = "live"
    /\ task' = [task EXCEPT ![p].st = "zombie"]

\* The parent's wait releases the pid.
Reap(p) ==
    /\ task[p].st = "zombie"
    /\ task' = [task EXCEPT ![p] = NoTask(task[p].inc)]

\* A write to some cgroup.procs: the runtime moves the process.
Migrate(p, c) ==
    /\ task[p].st = "live"
    /\ task[p].cg # c
    /\ task' = [task EXCEPT ![p].cg = c]

\* unshare or setns: the process goes to another namespace of one type. Its own PID
\* namespace is for life, these calls choose only the one of its later children.
ChangeNs(p, link, n) ==
    /\ task[p].st = "live"
    /\ link # "pid"
    /\ task[p].ns[link] # n
    /\ task' = [task EXCEPT ![p].ns[link] = n]

TableStep ==
    \E p \in Pids :
        \/ \E c \in Cgroups, n \in Namespaces : Spawn(p, c, n)
        \/ Exit(p)
        \/ Reap(p)
        \/ \E c \in Cgroups : Migrate(p, c)
        \/ \E link \in NsLinks, n \in NsInodes : ChangeNs(p, link, n)
=============================================================================
