------------------------------ MODULE CgroupDemo ------------------------------
(***************************************************************************)
(* cgroup_demo.c: a cgroup with a memory limit, a child that joins it and  *)
(* allocates past the limit, and the removal of the cgroup. The name of    *)
(* the cgroup is fixed, and mkdir may find it there: an earlier run of the *)
(* demo may have left it, or may still be under way. One such run is       *)
(* modelled, and none that starts later.                                   *)
(***************************************************************************)
EXTENDS ForkStdio

CONSTANTS
    ALLOC_STEPS,   \* how often the child allocates
    MEM_MAX        \* memory.max, in allocation steps (32 MiB / 4 MiB)

VARIABLES
    made,      \* the cgroup's directory exists
    limited,   \* memory.max is written
    joined,    \* the child is in it
    charge,    \* memory charged to the child, in allocation steps
    other,     \* an earlier run: its child is in the cgroup (without a parent:
               \* "orphan"), or its parent is about to remove it, or it has ended
    step,      \* i of the child's loop
    verdict    \* what the parent says of the child

cgroup == <<made, limited, joined, charge, other>>
local == <<step, verdict>>
vars == <<setting, processes, cgroup, local>>

Idle ==
    /\ made = FALSE /\ limited = FALSE /\ joined = FALSE /\ charge = 0
    /\ other = "none" /\ step = 1 /\ verdict = None

Init ==
    /\ StdioInit("banner")
    /\ other \in {"none", "orphan", "child", "rmdir"}
    /\ made \in BOOLEAN /\ limited \in BOOLEAN
    /\ other # "none" => made /\ limited
    /\ limited => made
    /\ joined = FALSE /\ charge = 0
    /\ step = 1 /\ verdict = None

-----------------------------------------------------------------------------
(* The parent. *)

\* A place of the parent's where it only prints, and goes on.
Say(from, next) ==
    /\ Runs("parent", from)
    /\ printf("parent", 0)
    /\ Goto("parent", next)
    /\ UNCHANGED <<cgroup, local>>

Banner == Say("banner", "mkdir")
Announce == Say("announce", "fork")
Waiting == Say("waiting", "wait")
show_stats == Say("stats", "rmdir")

Fails(l) ==
    /\ Runs("parent", l)
    /\ Exit("parent", 1)
    /\ UNCHANGED <<cgroup, local>>

\* mkdir; EEXIST is as good. "+memory +pids" follows, and its result is ignored.
MakeCgroup ==
    \/ /\ Runs("parent", "mkdir")
       /\ printf("parent", 0)
       /\ Goto("parent", "memory.max")
       /\ made' = TRUE
       /\ limited' = (made /\ limited)
       /\ UNCHANGED <<joined, charge, other, local>>
    \/ Fails("mkdir")

\* Wrong variant of LimitMemory: a limit that cannot be written is passed over.
LimitMemoryOrNot ==
    /\ Runs("parent", "memory.max")
    /\ printf("parent", 0)
    /\ Goto("parent", "pids.max")
    /\ limited' \in {limited, made}
    /\ UNCHANGED <<made, joined, charge, other, local>>

\* cg_write fails if the cgroup is gone or has no memory controller, say.
LimitMemory ==
    \/ /\ Runs("parent", "memory.max")
       /\ made
       /\ printf("parent", 0)
       /\ Goto("parent", "pids.max")
       /\ limited' = TRUE
       /\ UNCHANGED <<made, joined, charge, other, local>>
    \/ Fails("memory.max")

LimitPids ==
    \/ made /\ Say("pids.max", "announce")
    \/ Fails("pids.max")

ForkChild ==
    \/ /\ Runs("parent", "fork")
       /\ Fork("join", "waiting")
       /\ UNCHANGED <<cgroup, local>>
    \/ Fails("fork")

(***************************************************************************)
(* waitpid and what is said of its status. Signal 9 is put down to the     *)
(* memory controller, wherever it came from.                               *)
(***************************************************************************)
WaitChild ==
    /\ Runs("parent", "wait")
    /\ ChildWaitable
    /\ IF WaitFails
       THEN Exit("parent", 1) /\ UNCHANGED verdict
       ELSE /\ verdict' = fate["child"]
            /\ printf("parent", 0)
            /\ Goto("parent", "stats")
    /\ UNCHANGED <<cgroup, step>>

OtherInside == other \in {"orphan", "child"}

Populated == joined \/ OtherInside

\* Wrong variant of cleanup: nothing is removed.
cleanup_forgotten ==
    /\ Runs("parent", "rmdir")
    /\ Quiet
    /\ Goto("parent", "return")
    /\ UNCHANGED <<cgroup, local>>

\* rmdir: a failure goes to stderr and changes nothing.
cleanup ==
    /\ Runs("parent", "rmdir")
    /\ IF made /\ ~Populated
       THEN /\ made' = FALSE /\ limited' = FALSE
            /\ printf("parent", 0)
       ELSE Quiet /\ UNCHANGED <<made, limited>>
    /\ Goto("parent", "return")
    /\ UNCHANGED <<joined, charge, other, local>>

Return ==
    /\ Runs("parent", "return")
    /\ Exit("parent", 0)
    /\ UNCHANGED <<cgroup, local>>

Parent ==
    \/ Banner \/ MakeCgroup \/ LimitMemory \/ LimitPids \/ Announce
    \/ ForkChild \/ Waiting \/ WaitChild \/ show_stats \/ cleanup \/ Return

-----------------------------------------------------------------------------
(* The child. *)

\* Its end takes it out of the cgroup and frees its memory.
Leaves == joined' = FALSE /\ charge' = 0 /\ UNCHANGED <<made, limited>>

Join ==
    /\ Runs("child", "join")
    /\ \/ /\ made
          /\ joined' = TRUE
          /\ printf("child", 0)
          /\ Goto("child", "malloc")
       \/ Exit("child", 1) /\ UNCHANGED joined
    /\ UNCHANGED <<made, limited, charge, other, local>>

\* malloc may return NULL: the loop ends early.
Allocate ==
    /\ Runs("child", "malloc")
    /\ \/ step <= ALLOC_STEPS /\ Quiet /\ Goto("child", "memset")
       \/ printf("child", 0) /\ Goto("child", "exit")
    /\ UNCHANGED <<cgroup, local>>

\* There may be no room for another step: the kernel uses memory of its own, and
\* the child of the other run uses as much as it likes.
Tight == limited /\ joined /\ (charge + 1 >= MEM_MAX \/ OtherInside)

\* Where a step may leave the charge: memory.max is never passed, but what has
\* been swapped out no longer counts.
Charges ==
    {c \in {charge, charge + 1} :
        /\ c = charge => Tight
        /\ limited /\ joined => c <= MEM_MAX}

\* memset: the pages are charged one by one.
Touch ==
    /\ Runs("child", "memset")
    /\ charge' \in Charges
    /\ printf("child", step)
    /\ Goto("child", "malloc")
    /\ step' = step + 1
    /\ UNCHANGED <<made, limited, joined, other, verdict>>

\* What has become of the other run when its child has ended.
OtherAfter == IF other = "child" THEN "rmdir" ELSE "ended"

\* Or the cgroup's OOM killer takes the child, or the other run's.
OomKill ==
    /\ Runs("child", "memset")
    /\ Tight
    /\ \/ Kill("child") /\ Leaves /\ UNCHANGED other
       \/ /\ OtherInside
          /\ other' = OtherAfter
          /\ UNCHANGED <<processes, made, limited, joined, charge>>
    /\ UNCHANGED local

ChildExit ==
    /\ Runs("child", "exit")
    /\ Exit("child", 0)
    /\ Leaves
    /\ UNCHANGED <<other, local>>

Child == Join \/ Allocate \/ Touch \/ OomKill \/ ChildExit

-----------------------------------------------------------------------------
(* The rest of the machine. *)

OtherChildEnds ==
    /\ OtherInside
    /\ other' = OtherAfter
    /\ UNCHANGED <<made, limited>>

OtherRemoves ==
    /\ other = "rmdir"
    /\ other' = "ended"
    /\ IF joined THEN UNCHANGED <<made, limited>> ELSE made' = FALSE /\ limited' = FALSE

Killer ==
    /\ \/ Kill("parent") /\ UNCHANGED <<made, limited, joined, charge>>
       \/ Kill("child") /\ Leaves
    /\ UNCHANGED <<other, local>>

Others ==
    \/ (OtherChildEnds \/ OtherRemoves) /\ UNCHANGED <<processes, joined, charge, local>>
    \/ Killer

Next == (Parent \/ Child \/ Others) /\ UNCHANGED setting

Spec == Init /\ [][Next]_vars

-----------------------------------------------------------------------------
(***************************************************************************)
(* When stdout is no terminal, a child that ends by itself writes out its  *)
(* copy of the lines printed before the fork, so that they come twice; one *)
(* that is killed takes its own lines with it. All other lines come once.  *)
(***************************************************************************)
Flushes(w) == IF HasExited(w) THEN 1 ELSE 0

CgroupLines ==
    Over => \A l \in said :
        Copies(l) = IF tty THEN 1
                    ELSE Flushes(l[1]) + IF l \in copied THEN Flushes("child") ELSE 0

(***************************************************************************)
(* The child never holds memory outside the cgroup, nor more than the      *)
(* limit inside it, although its parent sets the limit and it joins by     *)
(* itself, and although an earlier run may remove the cgroup in between.   *)
(***************************************************************************)
Contained == charge > 0 => joined /\ limited /\ charge <= MEM_MAX

(***************************************************************************)
(* A run that ends with 0 leaves no cgroup behind, unless it met one of an *)
(* earlier run, and it has told what became of its child. However it ends, *)
(* its child has ended before.                                             *)
(***************************************************************************)
NothingLeft ==
    /\ fate["parent"] = Exited(0) =>
        /\ made => other # "none"
        /\ verdict = fate["child"]
    /\ NoChildLeft
=============================================================================
