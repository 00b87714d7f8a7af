----------------------------- MODULE MCChildDemos -----------------------------
(***************************************************************************)
(* The C demos that fork a child and wait for it, for TLC: one of them at  *)
(* a time. CgroupDemo, CloneDemo, MiniUnshare and OomScoreDemo share the   *)
(* machine of ForkStdio; SyscallTracer has a child of its own.             *)
(***************************************************************************)
EXTENDS ForkStdio

CONSTANTS ALLOC_STEPS, MEM_MAX, Namespaces, Children, MaxCalls, MaxSignals

VARIABLES
    prog,                                              \* the demo that runs
    made, limited, joined, charge, other, step, verdict,           \* CgroupDemo
    hostname, seen, told,                                          \* CloneDemo
    flags, shared, ns, proc,                                       \* MiniUnshare
    i, adj, row, rows,                                             \* OomScoreDemo
    child, traced, mode, stop, reported, faulting, entered, signals,   \* SyscallTracer
    pc, status, in_syscall, printed

Cgroup == INSTANCE CgroupDemo
Clone == INSTANCE CloneDemo
Unshare == INSTANCE MiniUnshare
Oom == INSTANCE OomScoreDemo
Tracer == INSTANCE SyscallTracer

machine == <<tty, nochld, at, fate, buf, out, said, copied>>
cgroup == <<made, limited, joined, charge, other, step, verdict>>
clone == <<hostname, seen, told>>
unshare == <<flags, shared, ns, proc>>
oom == <<i, adj, row, rows>>
tracer == <<child, traced, mode, stop, reported, faulting, entered, signals,
            pc, status, in_syscall, printed>>
vars == <<prog, machine, cgroup, clone, unshare, oom, tracer>>

\* No process of ForkStdio is ever started.
Unused == StdioInit("none") /\ tty

Init ==
    /\ prog \in {"cgroup", "clone", "unshare", "oom", "tracer"}
    /\ IF prog = "cgroup" THEN Cgroup!Init ELSE Cgroup!Idle
    /\ IF prog = "clone" THEN Clone!Init ELSE Clone!Idle
    /\ IF prog = "unshare" THEN Unshare!Init ELSE Unshare!Idle
    /\ IF prog = "oom" THEN Oom!Init ELSE Oom!Idle
    /\ IF prog = "tracer" THEN Tracer!Init /\ Unused ELSE Tracer!Idle

CgroupStep == prog = "cgroup" /\ Cgroup!Next /\ UNCHANGED <<clone, unshare, oom, tracer>>
CloneStep == prog = "clone" /\ Clone!Next /\ UNCHANGED <<cgroup, unshare, oom, tracer>>
UnshareStep == prog = "unshare" /\ Unshare!Next /\ UNCHANGED <<cgroup, clone, oom, tracer>>
OomStep == prog = "oom" /\ Oom!Next /\ UNCHANGED <<cgroup, clone, unshare, tracer>>
TracerStep ==
    prog = "tracer" /\ Tracer!Next /\ UNCHANGED <<machine, cgroup, clone, unshare, oom>>

Next ==
    /\ CgroupStep \/ CloneStep \/ UnshareStep \/ OomStep \/ TracerStep
    /\ UNCHANGED prog

Spec == Init /\ [][Next]_vars /\ Tracer!Fairness

-----------------------------------------------------------------------------
\* Every line a demo prints comes out as often as exit, _exit, exec and SIGKILL
\* make it: the lines of a child that is forked with a full buffer are its own.
LinesAccountedFor ==
    /\ prog = "cgroup" => Cgroup!CgroupLines
    /\ prog = "clone" => Clone!CloneLines
    /\ prog = "unshare" => Unshare!UnshareLines
    /\ prog = "oom" => Oom!OomLines

\* cgroup_demo: the child holds no memory outside the cgroup or past its limit.
Contained == Cgroup!Contained

\* cgroup_demo: a run that succeeds leaves no cgroup, and has told its child's fate.
NothingLeft == prog = "cgroup" => Cgroup!NothingLeft

\* clone_demo and mini_unshare: the parent outlives the child and tells how it ended.
FatesTold ==
    /\ prog = "clone" => Clone!CloneSeenAndReaped
    /\ prog = "unshare" => Unshare!EndsAsCommand

\* mini_unshare: the command is in the namespaces asked for, and in no other new one.
CommandIsIsolated == Unshare!CommandIsIsolated

\* oom_score_demo: a line is about its own child, however the two race.
RowsOfOwnChildren == prog = "oom" => Oom!RowsOfOwnChildren

\* syscall_tracer: the tracer is never out of step with the system calls.
TracerInStep == Tracer!TracerInStep

\* syscall_tracer: it ends with the program, unless that is killed, faults or may not
\* be traced.
TracerEnds == prog = "tracer" => Tracer!TracerEnds
=============================================================================
